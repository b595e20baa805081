------------------------- MODULE EngineIncarnation -------------------------
(***************************************************************************)
(* The life of one engine process as the retained operator commands see    *)
(* it: it starts, settles what the previous process left on disk (phases   *)
(* "registry" to "ack_replay", _CommandIngressRecoveryAuthority.settle),   *)
(* opens the command sockets, is frozen for shutdown, and dies.  An        *)
(* engine whose settlement proves the retained stores inconsistent is      *)
(* "refused" ingress; the launcher may start it again.                     *)
(***************************************************************************)
EXTENDS Naturals

CONSTANT MaxIncarnation   \* bound: engine processes started in a behaviour

ASSUME IncarnationAssumption == MaxIncarnation \in Nat \ {0}

VARIABLES
    incarnation,   \* which engine process this is (engine_instance_id)
    phase          \* how far it has come

engine == <<incarnation, phase>>

Settling == {"registry", "outbox", "replay", "ack_abort", "ack_replay"}
Phases == Settling \cup {"down", "open", "frozen", "refused"}

\* Commands are accepted (experiment_commands_accepting).
Accepting == phase = "open"

\* The event loop runs the tasks of earlier commands.
Running == phase \in {"open", "frozen"}

\* Only an engine that will be started again may be frozen or killed: the
\* last incarnation of a behaviour is observed until it settles.
MayDie == incarnation < MaxIncarnation

EngineInit == incarnation = 1 /\ phase = "registry"

GoTo(p) == phase' = p /\ UNCHANGED incarnation

\* The launcher starts the next process; settlement begins with the registry.
Restart ==
    /\ phase \in {"down", "refused"}
    /\ MayDie
    /\ incarnation' = incarnation + 1
    /\ phase' = "registry"
=============================================================================

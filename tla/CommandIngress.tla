--------------------------- MODULE CommandIngress ---------------------------
(***************************************************************************)
(* The retained operator commands of the engine: the keyed operator log    *)
(* and the alarm acknowledgements, under crashes and restarts.  The two    *)
(* lanes share the process and its settlement order and nothing else, so   *)
(* a behaviour exercises one of them; which one is chosen at the start.    *)
(***************************************************************************)
EXTENDS OperatorLog, AlarmAck

CONSTANT Lanes   \* bound: the lanes exercised, a subset of {"log", "ack"}

ASSUME LaneAssumption == Lanes \subseteq {"log", "ack"}

VARIABLE lane    \* rigid

vars == <<engine, logVars, ackVars, lane>>

TypeOK == LogTypeOK /\ AckTypeOK /\ phase \in Phases /\ incarnation \in 1..MaxIncarnation

Init == EngineInit /\ LogInit /\ AckInit /\ lane \in Lanes

LogStep ==
    /\ lane = "log"
    /\ \/ \E k \in Keys, c \in Contents : Submit(k, c)
       \/ \E k \in Keys : LogTask(k) \/ ArchiveDay(k) \/ UnlinkDay(k)
    /\ UNCHANGED <<engine, ackVars, lane>>

AckStep ==
    /\ lane = "ack"
    /\ \/ Trigger \/ Cleared \/ Snapshot
       \/ \E r \in Requests, a \in seen : AckSubmit(r, a)
       \/ \E r \in Requests : AckTask(r)
    /\ UNCHANGED <<engine, logVars, lane>>

\* settle() of the recovery authority, in its order.
Settle ==
    \/ LogSettlement /\ UNCHANGED <<ackVars, lane>>
    \/ AckSettlement /\ UNCHANGED <<logVars, lane>>

\* _drain_experiment_command_tasks: submissions are frozen, the tasks of
\* earlier ones are awaited without a deadline, then the process ends.
Freeze ==
    /\ Accepting /\ MayDie
    /\ GoTo("frozen")
    /\ UNCHANGED <<logVars, ackVars, lane>>

Drained == (\A k \in Keys : ~Busy(k)) /\ (\A r \in Requests : ~AckBusy(r))

Stop ==
    /\ phase = "frozen" /\ Drained
    /\ GoTo("down") /\ LogDies /\ AckDies
    /\ UNCHANGED lane

Crash ==
    /\ phase \notin {"down", "refused"} /\ MayDie
    /\ GoTo("down") /\ LogDies /\ AckDies
    /\ UNCHANGED lane

Start == Restart /\ UNCHANGED <<logVars, ackVars, lane>>

Next == LogStep \/ AckStep \/ Settle \/ Freeze \/ Stop \/ Crash \/ Start

\* Every task of the event loop and every step of the settlement is taken
\* up again; the launcher starts an engine that died.
Fairness ==
    /\ WF_vars(Settle) /\ WF_vars(Stop) /\ WF_vars(Start)
    /\ WF_vars(LogStep /\ \E k \in Keys : LogTask(k))
    /\ WF_vars(AckStep /\ \E r \in Requests : AckTask(r))
    /\ WF_vars(LogStep /\ \E k \in Keys : UnlinkDay(k))

Spec == Init /\ [][Next]_vars /\ Fairness

-----------------------------------------------------------------------------
(* Operator log                                                            *)

\* The three stores agree: a publication intent or a published row exists
\* only for a retained daily row of the same content, whatever crash,
\* failed write or rotation came in between.
OutboxIsBacked ==
    \A k \in Keys : outbox[k].state \in {"intent", "published"}
                     => rows[k] = outbox[k].content

\* While the registry is trusted it is the retained rows exactly: an append
\* whose outcome is not proven never leaves a stale registry behind, so no
\* retry is admitted next to a row nobody knows of.
RegistryIsTruth ==
    (Running /\ registry # NoRegistry) => registry = rows

\* What reaches the publisher is the committed content of the key and never
\* the content of a reservation or of a competing request.
EmittedIsCommitted == \A k \in Keys : emitted[k] \subseteq {rows[k]}

\* A caller who was told "committed" finds the row, and one who was told the
\* publication is settled finds the outbox published, in any later engine.
LogAnswersHold ==
    \A k \in Keys, c \in Contents :
        /\ <<k, c, "pending">> \in answered => rows[k] = c
        /\ <<k, c, "success">> \in answered => outbox[k] = [state |-> "published", content |-> c]

\* Startup refuses command ingress for one reason only: a day that was
\* indexed in the archive and whose daily file is still there.
RefusedOnlyOverStrandedDay ==
    phase = "refused" => \E k \in Keys : tier[k] = {"hot", "cold"}

\* Reservation, daily row, registry and outbox tell one story through every
\* crash, unproven append and rotation, and a start is refused for one reason.
LogStoresAgree ==
    /\ OutboxIsBacked /\ RegistryIsTruth /\ EmittedIsCommitted
    /\ RefusedOnlyOverStrandedDay

\* An engine that stays up and trusts its registry keeps reaching the point
\* where every row, of whichever engine, is published: by the request's own
\* task, by the background reconciliation, or by the settlement at startup.
LogPublishes ==
    []<>(Accepting /\ registry # NoRegistry /\ ~MayDie
            => \A k \in Keys : rows[k] # NoContent => outbox[k].state = "published")

\* A day whose unlink failed is removed by a later rotation pass, as the
\* comments of the rotation promise.
StrandedDayIsSwept ==
    \A k \in Keys : tier[k] = {"hot", "cold"} ~> tier[k] = {"cold"}

-----------------------------------------------------------------------------
(* Alarm acknowledgement                                                   *)

Durable(r) == ackBox[r].state \in {"committed", "published"}

\* An alarm shows an acknowledgement only if that acknowledgement is durably
\* committed, was asked for this very activation, and belongs to this
\* engine: activation ids start again after a restart, and an alarm may
\* clear and trigger again while its acknowledgement is being committed.
LiveAckIsDurable ==
    live.by # NoRequest =>
        /\ Durable(live.by)
        /\ ackBox[live.by].inc = incarnation /\ ackBox[live.by].src = live.src
        /\ target[live.by][1] = incarnation

\* Two operators never both durably acknowledge one activation, except when
\* the answer of the first commit was lost to an exception.
OneAckPerActivation ==
    \A q, r \in Requests :
        (q # r /\ Durable(q) /\ Durable(r) /\ target[q] = target[r])
            => \E i \in 1..MaxIncarnation : <<q, i>> \in lost \/ <<r, i>> \in lost

\* An answer stays true: "published" and "pending" of a committed row,
\* "aborted" of a request that never was nor will be acknowledged, "stale"
\* of an activation that never comes back, not even after a restart.
AckAnswersHold ==
    \A r \in Requests :
        /\ <<r, "published">> \in ackAnswered => ackBox[r].state = "published"
        /\ <<r, "pending">> \in ackAnswered => Durable(r)
        /\ <<r, "aborted">> \in ackAnswered => ackBox[r].state = "aborted" /\ r \notin ackEmitted
        /\ <<r, "stale">> \in ackAnswered => ~Durable(r)

\* An operator who was told the acknowledgement is published does not see
\* that activation unacknowledged.
PublishedAckIsVisible ==
    \A r \in Requests :
        (<<r, "published">> \in ackAnswered /\ Concerns(r)) => live.by # NoRequest

\* Nothing is announced that is not committed.
AnnouncedIsCommitted == \A r \in ackEmitted : Durable(r)

\* When the command sockets open nothing prepared or committed by an earlier
\* engine is left unsettled.
IngressOpensSettled ==
    Accepting => \A r \in Requests :
                    ackBox[r].inc # incarnation => ackBox[r].state \in {"none", "published", "aborted"}

\* The alarm shown, the outbox and what was announced tell one story through
\* every crash, re-activation, raised commit and concurrent acknowledgement.
AckStoresAgree ==
    /\ LiveAckIsDurable /\ OneAckPerActivation /\ AnnouncedIsCommitted
    /\ IngressOpensSettled

\* What a client was answered stays true in every later engine.
AnswersHold == LogAnswersHold /\ AckAnswersHold /\ PublishedAckIsVisible

\* An engine that stays up keeps reaching the point where every committed
\* acknowledgement is published, except on an activation where a commit
\* raised after it was durable: neither its own row nor the row of a second
\* request, which contradicts it, has a task until the next engine.
AckPublishes ==
    []<>(Accepting /\ ~MayDie
            => \A r \in Requests :
                  ackBox[r].state = "committed"
                      => \E q \in Requests : <<q, incarnation>> \in lost /\ target[q] = target[r])

\* What is committed is published in the end.
CommittedIsPublished == LogPublishes /\ AckPublishes
=============================================================================

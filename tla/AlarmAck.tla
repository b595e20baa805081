------------------------------ MODULE AlarmAck ------------------------------
(***************************************************************************)
(* Alarm acknowledgement: an operator's request names one activation of an *)
(* alarm as the annunciation registry showed it; the acknowledgement is    *)
(* prepared and committed in the outbox of control.db, only then applied   *)
(* to the live alarm, and published at least once (engine.py,              *)
(* storage/sqlite_writer.py, core/annunciation.py, core/alarm_v2.py).      *)
(* One alarm; it clears and triggers again while requests are in flight.   *)
(***************************************************************************)
EXTENDS EngineIncarnation, FiniteSets

CONSTANTS
    Requests,        \* request ids
    AckLane,         \* bound of the task table, _MAX_PENDING_ALARM_ACK_ENTRIES
    MaxActivations,  \* bound: activations of the alarm in one incarnation
    AckBudget,       \* bound: task starts and failed publication steps in a behaviour
    NoRequest

ASSUME AckAssumption ==
    /\ NoRequest \notin Requests
    /\ MaxActivations \in Nat /\ AckBudget \in Nat

VARIABLES
    live,         \* memory: source id of the active alarm (0: clear) and who acknowledged it
    sourceSeq,    \* memory: last source activation id given out
    shown,        \* memory: the alarm's record in the annunciation registry
    shownSeq,     \* memory: last annunciation activation id given out
    seen,         \* activations an operator has been shown, <<incarnation, id>>
    target,       \* what each request id asks for, fixed by its first use
    ackBox,       \* durable: the outbox row of the request
    ackJob,       \* memory: the task working on the request
    holders,      \* memory: requests that own their activation
    acked,        \* memory: requests with a final receipt
    ackEmitted,   \* history: acknowledgements delivered to the publisher
    ackAnswered,  \* history: answers given
    lost,         \* history: commits that were durable and raised, with the incarnation
    ackSpent     \* bound counter

alarmMemory == <<live, sourceSeq, shown, shownSeq>>
ackMemory == <<ackJob, holders, acked>>
ackHistory == <<seen, target, ackEmitted, ackAnswered, lost, ackSpent>>
ackVars == <<live, sourceSeq, shown, shownSeq, seen, target, ackBox, ackJob, holders, acked,
             ackEmitted, ackAnswered, lost, ackSpent>>

Activations == (1..MaxIncarnation) \X (1..MaxActivations)
NoTarget == <<0, 0>>
Clear == [src |-> 0, by |-> NoRequest]
NotShown == [id |-> 0, src |-> 0]
NoRow == [state |-> "none", inc |-> 0, src |-> 0]
NoAckJob == [pc |-> "none", src |-> 0, background |-> FALSE]

AckTypeOK ==
    /\ live \in [src : 0..MaxActivations, by : Requests \cup {NoRequest}]
    /\ sourceSeq \in 0..MaxActivations /\ shownSeq \in 0..MaxActivations
    /\ shown \in [id : 0..MaxActivations, src : 0..MaxActivations]
    /\ seen \subseteq Activations
    /\ target \in [Requests -> Activations \cup {NoTarget}]
    /\ ackBox \in [Requests -> [state : {"none", "prepared", "committed", "published", "aborted"},
                                inc : 0..MaxIncarnation, src : 0..MaxActivations]]
    /\ ackJob \in [Requests -> [pc : {"none", "find", "prepare", "claim", "abort", "commit",
                                      "apply", "emit", "mark", "refind"},
                                src : 0..MaxActivations, background : BOOLEAN]]
    /\ holders \subseteq Requests /\ acked \subseteq Requests /\ ackEmitted \subseteq Requests
    /\ ackAnswered \subseteq Requests \X {"published", "pending", "aborted", "stale"}
    /\ lost \subseteq Requests \X (1..MaxIncarnation)
    /\ ackSpent \in 0..AckBudget

AckInit ==
    /\ live = Clear /\ sourceSeq = 0
    /\ shown = NotShown /\ shownSeq = 0
    /\ seen = {}
    /\ target = [r \in Requests |-> NoTarget]
    /\ ackBox = [r \in Requests |-> NoRow]
    /\ ackJob = [r \in Requests |-> NoAckJob]
    /\ holders = {} /\ acked = {} /\ ackEmitted = {} /\ ackAnswered = {} /\ lost = {}
    /\ ackSpent = 0

-----------------------------------------------------------------------------
(* The alarm and its annunciation                                          *)

Trigger ==
    /\ Running /\ live = Clear /\ sourceSeq < MaxActivations
    /\ sourceSeq' = sourceSeq + 1
    /\ live' = [src |-> sourceSeq + 1, by |-> NoRequest]
    /\ UNCHANGED <<shown, shownSeq, ackBox, ackMemory, ackHistory>>

Cleared ==
    /\ Running /\ live # Clear
    /\ live' = Clear
    /\ UNCHANGED <<sourceSeq, shown, shownSeq, ackBox, ackMemory, ackHistory>>

\* DEFECT: every sync numbers the record anew.
ProjectedAnew ==
    IF live = Clear THEN NotShown ELSE [id |-> shownSeq + 1, src |-> live.src]

\* AnnunciationRegistry.sync: the record keeps its activation id as long as
\* the alarm's source id is the one it was made for.
Projected ==
    CASE live = Clear -> NotShown
      [] live # Clear /\ shown.src = live.src -> shown
      [] OTHER -> [id |-> shownSeq + 1, src |-> live.src]

Sync ==
    /\ shown' = Projected
    /\ shownSeq' = IF Projected.id > shownSeq THEN Projected.id ELSE shownSeq
    /\ seen' = seen \cup (IF Projected = NotShown THEN {} ELSE {<<incarnation, Projected.id>>})

\* AnnunciationRegistry.resolve, after the sync of the same step.
Resolves(r) == target[r] = <<incarnation, Projected.id>>

\* A client polls the annunciation snapshot.
Snapshot ==
    /\ Running /\ Projected # shown
    /\ Sync
    /\ UNCHANGED <<live, sourceSeq, target, ackBox, ackMemory, ackEmitted, ackAnswered, lost, ackSpent>>

-----------------------------------------------------------------------------
(* The request's task                                                      *)

AckBusy(r) == ackJob[r].pc # "none"
At(r, pc) == Running /\ ackJob[r].pc = pc
Step(r, pc) == ackJob' = [ackJob EXCEPT ![r].pc = pc]
Finish(r, answers) ==
    /\ ackJob' = [ackJob EXCEPT ![r] = NoAckJob]
    /\ ackAnswered' = ackAnswered \cup ({r} \X answers)

\* _submit_alarm_ack: a receipt, a task in flight, a frozen engine or a full
\* lane answers at once; otherwise the request gets a task.  A request id
\* stands for one activation: any other content conflicts.
AckSubmit(r, a) ==
    /\ Accepting /\ ~AckBusy(r) /\ r \notin acked
    /\ Cardinality({q \in Requests : AckBusy(q)}) < AckLane
    /\ ackSpent < AckBudget
    /\ target[r] \in {NoTarget, a}
    /\ ackSpent' = ackSpent + 1
    /\ target' = [target EXCEPT ![r] = a]
    /\ Step(r, "find")
    /\ UNCHANGED <<alarmMemory, seen, ackBox, holders, acked, ackEmitted, ackAnswered, lost>>

\* find_alarm_ack_outbox, then for an unknown request the target.
FindUnknown(r) ==
    /\ At(r, "find") /\ ackBox[r].state = "none"
    /\ Sync
    /\ IF Resolves(r)
       THEN /\ ackJob' = [ackJob EXCEPT ![r].pc = "prepare", ![r].src = Projected.src]
            /\ UNCHANGED ackAnswered
       ELSE Finish(r, {"stale"})
    /\ UNCHANGED <<live, sourceSeq, target, ackBox, holders, acked, ackEmitted, lost, ackSpent>>

\* prepare_alarm_ack_outbox; when it raises the row may be there all the same.
PrepareAck(r) ==
    /\ At(r, "prepare")
    /\ \/ /\ ackBox' = [ackBox EXCEPT ![r] = [state |-> "prepared", inc |-> incarnation,
                                              src |-> ackJob[r].src]]
          /\ Step(r, "claim") \/ ackJob' = [ackJob EXCEPT ![r] = NoAckJob]
       \/ UNCHANGED ackBox /\ ackJob' = [ackJob EXCEPT ![r] = NoAckJob]
    /\ UNCHANGED <<alarmMemory, holders, acked, ackHistory>>

\* DEFECT: source ids are compared across engines.
ConcernsAnyEngine(r) == live # Clear /\ live.src = ackBox[r].src

\* The live alarm takes a committed acknowledgement only from its own
\* incarnation and activation (_apply_committed_alarm_ack_state).
Concerns(r) == ackBox[r].inc = incarnation /\ live # Clear /\ live.src = ackBox[r].src
Contradicts(r) == Concerns(r) /\ live.by \notin {NoRequest, r}
Applied(r) == IF Concerns(r) /\ live.by = NoRequest THEN [live EXCEPT !.by = r] ELSE live

\* A retained row decides: prepared goes on to the claim, committed to the
\* application, aborted and published to their answers.
FindRetained(r) ==
    /\ At(r, "find") /\ ackBox[r].state # "none"
    /\ CASE ackBox[r].state = "prepared" -> Step(r, "claim") /\ UNCHANGED <<live, ackAnswered, acked>>
         [] ackBox[r].state = "committed" -> Step(r, "apply") /\ UNCHANGED <<live, ackAnswered, acked>>
         [] ackBox[r].state = "aborted" -> Finish(r, {"aborted"}) /\ UNCHANGED <<live, acked>>
         [] ackBox[r].state = "published" ->
              IF Contradicts(r)
              THEN Finish(r, {}) /\ UNCHANGED <<live, acked>>
              ELSE Finish(r, {"published"}) /\ live' = Applied(r) /\ acked' = acked \cup {r}
    /\ UNCHANGED <<sourceSeq, shown, shownSeq, seen, target, ackBox, holders, ackEmitted, lost, ackSpent>>

\* _claim_alarm_ack_activation: one owner per activation; the owner looks at
\* the alarm again before it commits.
Claim(r) ==
    /\ At(r, "claim") /\ \A q \in holders : target[q] # target[r]
    /\ holders' = holders \cup {r}
    /\ Sync
    /\ IF Resolves(r) /\ Projected.src = ackBox[r].src /\ live.by = NoRequest
       THEN Step(r, "commit") ELSE Step(r, "abort")
    /\ UNCHANGED <<live, sourceSeq, target, ackBox, acked, ackEmitted, ackAnswered, lost, ackSpent>>

\* The outbox with one prepared row made terminal (abort_alarm_ack_outbox).
AbortedBox(r) == [ackBox EXCEPT ![r].state = "aborted"]

\* _abort_prepared_alarm_ack, which may fail on either side of its commit.
AbortAck(r) ==
    /\ At(r, "abort")
    /\ \/ ackBox' = AbortedBox(r) /\ Finish(r, {"aborted"})
       \/ ackBox' \in {ackBox, AbortedBox(r)} /\ Finish(r, {})
    /\ holders' = holders \ {r}
    /\ UNCHANGED <<alarmMemory, seen, target, acked, ackEmitted, lost, ackSpent>>

\* The projection is unavailable: the row stays prepared for a retry.
ClaimUnavailable(r) ==
    /\ At(r, "claim") /\ \A q \in holders : target[q] # target[r]
    /\ Finish(r, {})
    /\ UNCHANGED <<alarmMemory, seen, target, ackBox, holders, acked, ackEmitted, lost, ackSpent>>

\* commit_alarm_ack_outbox on the writer's thread.
CommitAck(r) ==
    /\ At(r, "commit")
    /\ ackBox' = [ackBox EXCEPT ![r].state = "committed"]
    /\ Step(r, "apply")
    /\ UNCHANGED <<alarmMemory, holders, acked, ackHistory>>

\* The commit raises; it may have been durable all the same.
CommitRaises(r) ==
    /\ At(r, "commit")
    /\ \/ UNCHANGED <<ackBox, lost>>
       \/ /\ ackBox' = [ackBox EXCEPT ![r].state = "committed"]
          /\ lost' = lost \cup {<<r, incarnation>>}
    /\ Finish(r, {})
    /\ holders' = holders \ {r}
    /\ UNCHANGED <<alarmMemory, seen, target, acked, ackEmitted, ackSpent>>

\* Back on the event loop the committed acknowledgement reaches the alarm,
\* which may have changed in between, and the activation is released.
Apply(r) ==
    /\ At(r, "apply")
    /\ IF Contradicts(r)
       THEN Finish(r, {}) /\ UNCHANGED live
       ELSE Step(r, "emit") /\ live' = Applied(r) /\ UNCHANGED ackAnswered
    /\ holders' = holders \ {r}
    /\ UNCHANGED <<sourceSeq, shown, shownSeq, seen, target, ackBox, acked, ackEmitted, lost, ackSpent>>

-----------------------------------------------------------------------------
(* Publication and its background retry                                    *)

\* DEFECT: the caller of a failed publication is told it is published.
PublicationFailsQuietly(r) == Finish(r, {"published"})

\* The publication failed: a background task owns the committed row, unless
\* the engine is frozen; the caller is told the publication is pending.
PublicationFails(r) ==
    /\ ackJob' = [ackJob EXCEPT ![r] = IF Accepting
                                       THEN [pc |-> "refind", src |-> 0, background |-> TRUE]
                                       ELSE NoAckJob]
    /\ ackAnswered' = ackAnswered \cup (IF ackJob[r].background THEN {} ELSE {<<r, "pending">>})

EmitAck(r) ==
    /\ At(r, "emit")
    /\ Step(r, "mark")
    /\ ackEmitted' = ackEmitted \cup {r}
    /\ UNCHANGED <<alarmMemory, seen, target, ackBox, holders, acked, ackAnswered, lost, ackSpent>>

\* publish_alarm_ack_outbox: committed becomes published.
MarkAck(r) ==
    /\ At(r, "mark")
    /\ ackBox' = [ackBox EXCEPT ![r].state = "published"]
    /\ Finish(r, {"published"}) /\ acked' = acked \cup {r}
    /\ UNCHANGED <<alarmMemory, seen, target, holders, ackEmitted, lost, ackSpent>>

\* Either fails; the publisher may have delivered all the same.
AckPublicationFails(r) ==
    /\ At(r, "emit") \/ At(r, "mark")
    /\ ackSpent < AckBudget /\ ackSpent' = ackSpent + 1
    /\ PublicationFails(r)
    /\ ackEmitted' = ackEmitted \/ ackEmitted' = ackEmitted \cup {r}
    /\ UNCHANGED <<alarmMemory, seen, target, ackBox, holders, acked, lost>>

\* _run_alarm_ack_publication_reconciliation, one turn of its loop.
Refind(r) ==
    /\ At(r, "refind")
    /\ IF ~Accepting THEN Finish(r, {}) /\ UNCHANGED acked
       ELSE IF ackBox[r].state = "published"
       THEN Finish(r, {"published"}) /\ acked' = acked \cup {r}
       ELSE Step(r, "emit") /\ UNCHANGED <<ackAnswered, acked>>
    /\ UNCHANGED <<alarmMemory, seen, target, ackBox, holders, ackEmitted, lost, ackSpent>>

-----------------------------------------------------------------------------
(* Settlement of the next engine, and its end                              *)

\* abort_prepared_alarm_ack_outbox: no intent of an earlier engine survives.
AbortPrepared ==
    /\ phase = "ack_abort"
    /\ ackBox' = [r \in Requests |-> IF ackBox[r].state = "prepared"
                                     THEN [ackBox[r] EXCEPT !.state = "aborted"] ELSE ackBox[r]]
    /\ GoTo("ack_replay")
    /\ UNCHANGED <<alarmMemory, ackMemory, ackHistory>>

\* committed_alarm_ack_outbox
Unpublished == {r \in Requests : ackBox[r].state = "committed"}

\* _reconcile_committed_alarm_ack_outbox; a failure ends this startup.
ReplayAck(r) ==
    /\ phase = "ack_replay" /\ r \in Unpublished
    /\ ackEmitted' = ackEmitted \cup {r}
    /\ \/ ackBox' = [ackBox EXCEPT ![r].state = "published"] /\ UNCHANGED engine
       \/ MayDie /\ GoTo("down") /\ UNCHANGED ackBox
    /\ UNCHANGED <<alarmMemory, ackMemory, seen, target, ackAnswered, lost, ackSpent>>

\* _CommandIngressRecoveryAuthority.start: the command sockets open.
OpenIngress ==
    /\ phase = "ack_replay" /\ Unpublished = {}
    /\ GoTo("open")
    /\ UNCHANGED ackVars

AckDies ==
    /\ live' = Clear /\ sourceSeq' = 0
    /\ shown' = NotShown /\ shownSeq' = 0
    /\ ackJob' = [r \in Requests |-> NoAckJob]
    /\ holders' = {} /\ acked' = {}
    /\ UNCHANGED <<ackBox, ackHistory>>

AckTask(r) ==
    \/ FindUnknown(r) \/ FindRetained(r) \/ PrepareAck(r) \/ Claim(r) \/ ClaimUnavailable(r) \/ AbortAck(r)
    \/ CommitAck(r) \/ CommitRaises(r) \/ Apply(r) \/ EmitAck(r) \/ MarkAck(r)
    \/ AckPublicationFails(r) \/ Refind(r)

AckSettlement == AbortPrepared \/ (\E r \in Requests : ReplayAck(r)) \/ OpenIngress
=============================================================================

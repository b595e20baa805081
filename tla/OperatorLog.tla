----------------------------- MODULE OperatorLog -----------------------------
(***************************************************************************)
(* The keyed operator log: a request id and its content become one row of  *)
(* a daily database and one publication, through three stores that no      *)
(* transaction spans - the daily row, the publication outbox of control.db *)
(* and the in-memory registry of every retained request id - and through   *)
(* the cold rotation that moves an old row from its daily file to the      *)
(* archive (storage/sqlite_writer.py, engine.py).                          *)
(***************************************************************************)
EXTENDS EngineIncarnation, FiniteSets

CONSTANTS
    Keys,        \* request ids
    Contents,    \* request fingerprints: what a request id may stand for
    LogLane,     \* bound of the task table, _MAX_PENDING_OPERATOR_LOG_ENTRIES
    LogBudget,   \* bound: task starts and failed publication steps in a behaviour
    NoContent, NoRegistry

ASSUME LogAssumption ==
    /\ NoContent \notin Contents
    /\ NoRegistry \notin [Keys -> Contents \cup {NoContent}]
    /\ LogBudget \in Nat

VARIABLES
    rows,       \* durable: the content of the key's row, in whatever file
    tier,       \* durable: which stores hold that row, "hot" and "cold"
    outbox,     \* durable: the publication row of the key
    registry,   \* memory: the retained request ids, or NoRegistry
    job,        \* memory: the task working on the key
    receipts,   \* memory: contents answered with a final success
    emitted,    \* history: contents delivered to the required publisher
    answered,   \* history: commit claims given to callers
    logSpent    \* bound counter

logDurable == <<rows, tier, outbox>>
logMemory == <<registry, job, receipts>>
logVars == <<rows, tier, outbox, registry, job, receipts, emitted, answered, logSpent>>

NoPublication == [state |-> "absent", content |-> NoContent]
NoJob == [pc |-> "none", content |-> NoContent, background |-> FALSE]
Publications == [state : {"absent", "reserved", "intent", "published"},
                 content : Contents \cup {NoContent}]
Jobs == [pc : {"none", "find", "append", "prepare", "emit", "mark"},
         content : Contents \cup {NoContent}, background : BOOLEAN]

LogTypeOK ==
    /\ rows \in [Keys -> Contents \cup {NoContent}]
    /\ tier \in [Keys -> SUBSET {"hot", "cold"}]
    /\ outbox \in [Keys -> Publications]
    /\ registry \in [Keys -> Contents \cup {NoContent}] \cup {NoRegistry}
    /\ job \in [Keys -> Jobs]
    /\ receipts \in [Keys -> Contents \cup {NoContent}]
    /\ emitted \in [Keys -> SUBSET Contents]
    /\ answered \subseteq Keys \X Contents \X {"success", "pending"}
    /\ logSpent \in 0..LogBudget

LogInit ==
    /\ rows = [k \in Keys |-> NoContent]
    /\ tier = [k \in Keys |-> {}]
    /\ outbox = [k \in Keys |-> NoPublication]
    /\ registry = NoRegistry
    /\ job = [k \in Keys |-> NoJob]
    /\ receipts = [k \in Keys |-> NoContent]
    /\ emitted = [k \in Keys |-> {}]
    /\ answered = {}
    /\ logSpent = 0

-----------------------------------------------------------------------------
(* Admission and the lookup                                                *)

Busy(k) == job[k].pc # "none"

\* _submit_operator_log_entry: a request that is not already answered, in
\* flight or reconciling starts a task of its own.  A frozen engine, a full
\* lane, a known receipt, a joined task and a content conflict answer
\* without any state change.
Submit(k, c) ==
    /\ Accepting
    /\ receipts[k] = NoContent /\ ~Busy(k)
    /\ Cardinality({q \in Keys : Busy(q)}) < LogLane
    /\ logSpent < LogBudget
    /\ logSpent' = logSpent + 1
    /\ job' = [job EXCEPT ![k] = [pc |-> "find", content |-> c, background |-> FALSE]]
    /\ UNCHANGED <<logDurable, registry, receipts, emitted, answered>>

\* _resolve_operator_log_request_sync: what the registry knows of the key.
Resolve(k, c) ==
    IF registry = NoRegistry THEN "unavailable"
    ELSE IF registry[k] = NoContent THEN "absent"
    ELSE IF registry[k] = c THEN "retained" ELSE "conflict"

\* The task's answer without a commit claim: conflict, unavailable, unknown.
Drop(k) == job' = [job EXCEPT ![k] = NoJob] /\ UNCHANGED <<receipts, answered>>

\* The answer after a settled publication, kept as the key's receipt.
Succeed(k, c) ==
    /\ job' = [job EXCEPT ![k] = NoJob]
    /\ receipts' = [receipts EXCEPT ![k] = c]
    /\ answered' = answered \cup {<<k, c, "success">>}

\* DEFECT: the caller is told "pending" and nobody takes the key over.
DeferForgets(k, c) ==
    /\ job' = [job EXCEPT ![k] = NoJob]
    /\ answered' = answered \cup {<<k, c, "pending">>}
    /\ UNCHANGED receipts

\* The commit is durable and the publication is not: the caller is told so
\* and a background task takes the key over, unless the engine is frozen
\* (_ensure_operator_log_publication_reconciliation).
Defer(k, c) ==
    /\ job' = [job EXCEPT ![k] = IF Accepting
                                 THEN [pc |-> "prepare", content |-> c, background |-> TRUE]
                                 ELSE NoJob]
    /\ answered' = answered \cup {<<k, c, "pending">>}
    /\ UNCHANGED receipts

Find(k) ==
    /\ Running /\ job[k].pc = "find"
    /\ LET found == Resolve(k, job[k].content) IN
       \/ /\ found \in {"absent", "retained"}
          /\ job' = [job EXCEPT ![k].pc = IF found = "absent" THEN "append" ELSE "prepare"]
          /\ UNCHANGED <<receipts, answered>>
       \/ found \in {"conflict", "unavailable"} /\ Drop(k)
    /\ UNCHANGED <<logDurable, registry, emitted, logSpent>>

-----------------------------------------------------------------------------
(* The append: reservation, daily row, promotion                           *)

\* _reserve_operator_log_publication_outbox_sync: a free key is reserved, an
\* earlier reservation of the same content is taken over.
Reservable(k, c) ==
    \/ outbox[k].state = "absent"
    \/ outbox[k] = [state |-> "reserved", content |-> c]

\* What is on disk once the append has passed its reservation (1), its
\* daily row (2) and its promotion to a publication intent (3).
Appended(k, c, stage) ==
    /\ outbox' = [outbox EXCEPT ![k] = [state |-> IF stage = 3 THEN "intent" ELSE "reserved",
                                        content |-> c]]
    /\ rows' = IF stage > 1 THEN [rows EXCEPT ![k] = c] ELSE rows
    /\ tier' = IF stage > 1 THEN [tier EXCEPT ![k] = {"hot"}] ELSE tier

\* _append_operator_log_with_publication_intent_sync, one call of the
\* writer's only thread: the row is committed; if the promotion fails the
\* publication stays "reserved" and the engine settles it in the background.
AppendCommits(k) ==
    LET c == job[k].content IN
    /\ Running /\ job[k].pc = "append"
    /\ Resolve(k, c) = "absent" /\ Reservable(k, c)
    /\ registry' = [registry EXCEPT ![k] = c]
    /\ \/ Appended(k, c, 3) /\ job' = [job EXCEPT ![k].pc = "emit"] /\ UNCHANGED <<receipts, answered>>
       \/ Appended(k, c, 2) /\ Defer(k, c)
    /\ UNCHANGED <<emitted, logSpent>>

\* The reservation is refused, or fails with or without having committed.
ReservationFails(k) ==
    LET c == job[k].content IN
    /\ Running /\ job[k].pc = "append"
    /\ Drop(k)
    /\ \/ UNCHANGED logDurable
       \/ Resolve(k, c) = "absent" /\ Reservable(k, c) /\ Appended(k, c, 1)
    /\ UNCHANGED <<registry, emitted, logSpent>>

\* DEFECT: the registry survives a write whose outcome is not proven.
AppendUnprovenKeepsRegistry(k) ==
    LET c == job[k].content IN
    /\ Running /\ job[k].pc = "append"
    /\ Resolve(k, c) = "absent" /\ Reservable(k, c)
    /\ \E stage \in {1, 2} : Appended(k, c, stage)
    /\ Drop(k)
    /\ UNCHANGED <<registry, emitted, logSpent>>

\* The daily write raises: the row may or may not be on disk, so keyed
\* writes stay disabled until the registry is rebuilt.
AppendUnproven(k) ==
    LET c == job[k].content IN
    /\ Running /\ job[k].pc = "append"
    /\ Resolve(k, c) = "absent" /\ Reservable(k, c)
    /\ \E stage \in {1, 2} : Appended(k, c, stage)
    /\ registry' = NoRegistry
    /\ Drop(k)
    /\ UNCHANGED <<emitted, logSpent>>

-----------------------------------------------------------------------------
(* Publication, by the request's own task or by the background one         *)

\* A step of the settlement fails: the caller's task hands over to the
\* background one, which starts its loop again and ends once frozen.
SettleFails(k) ==
    IF job[k].background
    THEN /\ job' = [job EXCEPT ![k] = IF Accepting THEN [@ EXCEPT !.pc = "prepare"] ELSE NoJob]
         /\ UNCHANGED <<receipts, answered>>
    ELSE Defer(k, job[k].content)

\* The row prepare leaves: a reservation is promoted, a missing row inserted.
PreparedRow(k, c) ==
    IF outbox[k].state \in {"absent", "reserved"}
    THEN [state |-> "intent", content |-> c] ELSE outbox[k]

\* prepare_operator_log_publication_outbox
Prepare(k) ==
    LET c == job[k].content IN
    /\ Running /\ job[k].pc = "prepare"
    /\ job[k].background => Accepting
    /\ outbox[k].state = "absent" \/ outbox[k].content = c
    /\ outbox' = [outbox EXCEPT ![k] = PreparedRow(k, c)]
    /\ IF outbox[k].state = "published"
       THEN Succeed(k, c)
       ELSE job' = [job EXCEPT ![k].pc = "emit"] /\ UNCHANGED <<receipts, answered>>
    /\ UNCHANGED <<rows, tier, registry, emitted, logSpent>>

\* _publish_operator_log_publication: the required publisher delivers ...
Emit(k) ==
    /\ Running /\ job[k].pc = "emit"
    /\ emitted' = [emitted EXCEPT ![k] = @ \cup {job[k].content}]
    /\ job' = [job EXCEPT ![k].pc = "mark"]
    /\ UNCHANGED <<logDurable, registry, receipts, answered, logSpent>>

\* ... and publish_operator_log_publication_outbox marks the intent.
Mark(k) ==
    /\ Running /\ job[k].pc = "mark"
    /\ outbox[k].state \in {"intent", "published"}
    /\ outbox' = [outbox EXCEPT ![k].state = "published"]
    /\ Succeed(k, job[k].content)
    /\ UNCHANGED <<rows, tier, registry, emitted, logSpent>>

\* Any of the three fails; the publisher may have delivered all the same,
\* delivery is at least once.
PublicationStepFails(k) ==
    /\ Running /\ job[k].pc \in {"prepare", "emit", "mark"}
    /\ logSpent < LogBudget /\ logSpent' = logSpent + 1
    /\ SettleFails(k)
    /\ \/ UNCHANGED emitted
       \/ job[k].pc = "emit" /\ emitted' = [emitted EXCEPT ![k] = @ \cup {job[k].content}]
    /\ UNCHANGED <<logDurable, registry>>

\* A background task that wakes up frozen reports the commit as pending.
BackgroundEnds(k) ==
    /\ phase = "frozen" /\ job[k].background /\ job[k].pc = "prepare"
    /\ Drop(k)
    /\ UNCHANGED <<logDurable, registry, emitted, logSpent>>

-----------------------------------------------------------------------------
(* Cold rotation of the file that holds the row                            *)

\* Rotation commits the archive index first and unlinks the daily file
\* afterwards; the unlink may fail and is then retried by a later pass.
ArchiveDay(k) ==
    /\ Running /\ ~Busy(k) /\ tier[k] = {"hot"}
    /\ tier' = [tier EXCEPT ![k] = {"hot", "cold"}]
    /\ UNCHANGED <<rows, outbox, logMemory, emitted, answered, logSpent>>

\* _sweep_stranded, or the unlink of the rotation itself.
UnlinkDay(k) ==
    /\ Running /\ tier[k] = {"hot", "cold"}
    /\ tier' = [tier EXCEPT ![k] = {"cold"}]
    /\ UNCHANGED <<rows, outbox, logMemory, emitted, answered, logSpent>>

-----------------------------------------------------------------------------
(* Settlement of the next engine                                           *)

\* The keyed rows of the daily files, and those of the archive as its index
\* lists them (_read_hot_operator_log_registry_under_root,
\* _read_cold_operator_log_registry).
HotRegistry == [k \in Keys |-> IF "hot" \in tier[k] THEN rows[k] ELSE NoContent]

ColdRegistry == [k \in Keys |-> IF "cold" \in tier[k] THEN rows[k] ELSE NoContent]

\* initialize_operator_log_idempotency: one request id in two stores is
\* ambiguous and the engine refuses to open its command ingress.
BuildRegistry ==
    /\ phase = "registry"
    /\ IF \E k \in Keys : HotRegistry[k] # NoContent /\ ColdRegistry[k] # NoContent
       THEN GoTo("refused") /\ UNCHANGED registry
       ELSE /\ GoTo("outbox")
            /\ registry' = [k \in Keys |-> IF HotRegistry[k] # NoContent
                                            THEN HotRegistry[k] ELSE ColdRegistry[k]]
    /\ UNCHANGED <<logDurable, job, receipts, emitted, answered, logSpent>>

\* The row an outbox row becomes: a reservation without a retained row never
\* committed, one with a row is promoted, a row without publication gets one.
Reconciled(k) ==
    IF registry[k] = NoContent THEN NoPublication
    ELSE IF outbox[k].state \in {"absent", "reserved"}
    THEN [state |-> "intent", content |-> registry[k]] ELSE outbox[k]

\* An outbox row is bound to a retained row of its content; only a
\* reservation may stand alone.
Bound(k) ==
    \/ outbox[k].content = registry[k]
    \/ outbox[k].state = "absent"
    \/ outbox[k].state = "reserved" /\ registry[k] = NoContent

\* _reconcile_missing_operator_log_publication_outbox_sync, one transaction.
ReconcileOutbox ==
    /\ phase = "outbox"
    /\ IF \A k \in Keys : Bound(k)
       THEN GoTo("replay") /\ outbox' = [k \in Keys |-> Reconciled(k)]
       ELSE GoTo("refused") /\ UNCHANGED outbox
    /\ UNCHANGED <<rows, tier, logMemory, emitted, answered, logSpent>>

Intents == {k \in Keys : outbox[k].state = "intent"}

\* _reconcile_operator_log_publication_outbox: each intent is published and
\* marked; any failure ends this engine's startup.
ReplayIntent(k) ==
    /\ phase = "replay" /\ k \in Intents
    /\ emitted' = [emitted EXCEPT ![k] = @ \cup {outbox[k].content}]
    /\ \/ outbox' = [outbox EXCEPT ![k].state = "published"] /\ UNCHANGED engine
       \/ MayDie /\ GoTo("down") /\ UNCHANGED outbox
    /\ UNCHANGED <<rows, tier, logMemory, answered, logSpent>>

ReplayDone ==
    /\ phase = "replay" /\ Intents = {}
    /\ GoTo("ack_abort")
    /\ UNCHANGED logVars

-----------------------------------------------------------------------------
\* The process dies: memory is gone, and an append caught between its
\* durable writes leaves the ones it had made.
LogDies ==
    /\ \/ UNCHANGED logDurable
       \/ \E k \in Keys, stage \in {1, 2} :
            /\ job[k].pc = "append" /\ Resolve(k, job[k].content) = "absent"
            /\ Reservable(k, job[k].content)
            /\ Appended(k, job[k].content, stage)
    /\ registry' = NoRegistry
    /\ job' = [k \in Keys |-> NoJob]
    /\ receipts' = [k \in Keys |-> NoContent]
    /\ UNCHANGED <<emitted, answered, logSpent>>

LogTask(k) ==
    \/ Find(k) \/ AppendCommits(k) \/ ReservationFails(k) \/ AppendUnproven(k)
    \/ Prepare(k) \/ Emit(k) \/ Mark(k) \/ PublicationStepFails(k) \/ BackgroundEnds(k)

LogSettlement == BuildRegistry \/ ReconcileOutbox \/ (\E k \in Keys : ReplayIntent(k)) \/ ReplayDone
=============================================================================

----------------------------- MODULE Acquisition -----------------------------
(***************************************************************************)
(* The acquisition pipeline: Scheduler._process_readings of every          *)
(* instrument (core/scheduler.py), the descriptor-authoritative commit     *)
(* path of SQLiteWriter with its one writer thread                         *)
(* (storage/sqlite_writer.py), the persistence fault it raises in the      *)
(* safety manager, and the recording truth shown to the operator, which    *)
(* RecordingLifecycleFeed derives from what the scheduler observes         *)
(* (engine_wiring).                                                        *)
(*                                                                         *)
(* A batch is what one poll delivers.  Around midnight UTC it is written   *)
(* as two transactions in two daily files.  The writer thread runs         *)
(* concurrently with the event loop; everything else is one step per run   *)
(* of a coroutine between two awaits.                                      *)
(***************************************************************************)
EXTENDS Naturals, Sequences, FiniteSets

CONSTANTS Instruments,     \* polled instruments, one poll task each
          MaxPolls,        \* bound: polls in a behaviour
          Capacities       \* values of SQLiteWriter._commit_settlement_capacity

ASSUME AcquisitionAssumption ==
  /\ IsFiniteSet(Instruments)     \* Scheduler._instruments, a dict
  /\ MaxPolls \in Nat
  /\ Capacities \subseteq Nat \ {0}
  /\ "none" \notin Instruments

VARIABLES
  capacity,     \* _commit_settlement_capacity of this engine run
  polls,        \* polls begun so far; the newest batch has this number
  crossing,     \* batches that span midnight UTC: two daily files
  task,         \* per instrument: the poll task and its batch
  owner,        \* per instrument: the commit owner task of that batch
  exec,         \* the write executor's queue of instruments, head running
  signalling,   \* instrument whose failure the writer thread is about to signal
  ready,        \* instruments whose commit owner is done, in wake-up order
  tickets,      \* _retained_commit_settlements, as batch numbers
  writer,       \* SQLiteWriter: "open", "stopping", "closed"
  diskFull,     \* SQLiteWriter._disk_full
  callbacks,    \* a persistence-failure callback is scheduled on the loop
  disk,         \* committed transactions, as <<batch, part>>
  published,    \* batches DataBroker received as persistence-authoritative
  lost,         \* batches whose pipeline ended without a complete commit
  sched,        \* Scheduler: "new", "running", "draining", "stopped"
  fault,        \* SafetyManager._persistence_fault_active (and its latch)
  blockers,     \* SafetyManager._failed_poll_persistence_blockers
  experiment,   \* the recording owner knows an active experiment
  feed          \* RecordingLifecycleFeed and the two presentation owners

pipeVars == <<capacity, polls, crossing, task, owner, exec, signalling, ready, tickets>>
storeVars == <<writer, diskFull, callbacks, disk>>
vars == <<pipeVars, storeVars, published, lost, sched, fault, blockers, experiment, feed>>

Idle == [pc |-> "idle", batch |-> 0, silent |-> FALSE]
Feed == [active: BOOLEAN,     \* __persistence_active
         latched: BOOLEAN,    \* __persistence_latched
         stamped: BOOLEAN,    \* __persistence_last_commit_at is set
         dropped: BOOLEAN,    \* PersistenceAuthorityOwner.__dropped > 0
         storage: {"unknown", "available", "unavailable"},
         epoch: BOOLEAN,      \* ExperimentRecordingOwner.__persistence_epoch_id is set
         acquiring: BOOLEAN,  \* __acquisition_running, with the epoch's identity
         session: BOOLEAN]    \* __session_id is set: RecordingTruth.RECORDING

TypeOK ==
  /\ polls \in 0..MaxPolls
  /\ task \in [Instruments -> [pc: {"idle", "waiting", "cancelled", "ended"}, batch: 0..MaxPolls,
                               silent: BOOLEAN]]
  /\ crossing \subseteq 1..MaxPolls
  /\ owner \in [Instruments -> {"none", "queued", "half", "committed", "refused", "raised"}]
  /\ exec \in Seq(Instruments) /\ Len(exec) <= Cardinality(Instruments)
  /\ signalling \in Instruments \cup {"none"}
  /\ ready \in Seq(Instruments) /\ Len(ready) <= Cardinality(Instruments)
  /\ tickets \subseteq 1..MaxPolls /\ Cardinality(tickets) <= capacity
  /\ capacity \in Capacities
  /\ writer \in {"open", "stopping", "closed"}
  /\ diskFull \in BOOLEAN /\ callbacks \in BOOLEAN
  /\ disk \subseteq (1..MaxPolls) \X {1, 2}
  /\ published \subseteq 1..MaxPolls
  /\ lost \subseteq 1..MaxPolls
  /\ sched \in {"new", "running", "draining", "stopped"}
  /\ fault \in BOOLEAN
  /\ blockers \subseteq Instruments
  /\ experiment \in BOOLEAN
  /\ feed \in Feed

\* Nothing started: an engine after boot, with or without an experiment that
\* the manager restored from disk (_seed_recording_lifecycle).
Init ==
  /\ capacity \in Capacities
  /\ polls = 0 /\ crossing = {}
  /\ task = [i \in Instruments |-> Idle]
  /\ owner = [i \in Instruments |-> "none"]
  /\ exec = <<>> /\ signalling = "none" /\ ready = <<>> /\ tickets = {}
  /\ writer = "open" /\ diskFull = FALSE /\ callbacks = FALSE /\ disk = {}
  /\ published = {} /\ lost = {} /\ sched = "new"
  /\ fault = FALSE /\ blockers = {}
  /\ experiment \in BOOLEAN
  /\ feed = [active |-> FALSE, latched |-> FALSE, stamped |-> FALSE, dropped |-> FALSE,
             storage |-> "unknown", epoch |-> FALSE, acquiring |-> FALSE, session |-> FALSE]

-----------------------------------------------------------------------------
(* The recording feed: what each observation does to it.                   *)

\* __terminalize_persistence: the epoch is over and nothing reopens it.
Terminalized(f) ==
  [f EXCEPT !.active = FALSE, !.latched = TRUE, !.stamped = FALSE,
            !.storage = IF f.active THEN "unavailable" ELSE @,
            !.epoch = FALSE,
            !.session = IF f.epoch THEN FALSE ELSE @]

\* DEFECT: a commit after a refused batch opens the recording epoch again.
CommittedUnlatched(f) ==
  IF ~f.active \/ ~f.acquiring THEN Terminalized(f)
  ELSE [f EXCEPT !.stamped = TRUE, !.storage = "available", !.epoch = TRUE,
                 !.session = @ \/ experiment]

\* persistence_committed.  A commit outside an active epoch, or outside the
\* acquisition it belongs to, raises and is turned into ambiguity.
Committed(f) ==
  IF ~f.active \/ ~f.acquiring THEN Terminalized(f)
  ELSE [f EXCEPT !.stamped = TRUE,
                 !.storage = IF f.dropped THEN "unavailable" ELSE "available",
                 !.epoch = IF f.latched THEN @ ELSE TRUE,
                 !.session = IF f.latched THEN @ ELSE (@ \/ experiment)]

\* persistence_rejected: known loss, latched for the rest of the epoch.
Rejected(f) ==
  IF ~f.active THEN Terminalized(f)
  ELSE [f EXCEPT !.dropped = TRUE, !.latched = TRUE, !.storage = "unavailable",
                 !.epoch = FALSE, !.session = FALSE]

\* __acquisition_terminal.
AcquisitionEnded(f) == [f EXCEPT !.acquiring = FALSE, !.session = FALSE]

-----------------------------------------------------------------------------
(* The poll tasks.                                                         *)

InFlight(i) == task[i].pc \in {"waiting", "cancelled"}

\* A pipeline run of instrument i ends without publication.  A failed poll
\* whose samples reach nobody faults the safety manager and blocks a RUN.
Undelivered(i, silent) ==
  /\ fault' = (fault \/ silent)
  /\ blockers' = IF silent THEN blockers \cup {i} ELSE blockers

\* The writer has seen the disk full: the whole pipeline is skipped.
PollSkipped(i) ==
  /\ sched = "running" /\ task[i].pc = "idle" /\ polls < MaxPolls
  /\ diskFull
  /\ polls' = polls + 1
  /\ lost' = lost \cup {polls'}
  /\ \E silent \in BOOLEAN : Undelivered(i, silent)
  /\ UNCHANGED <<capacity, crossing, task, owner, exec, signalling, ready, tickets, storeVars, published,
                 sched, experiment, feed>>

\* begin_committed raises: an unknown channel, a writer that stops, or no
\* capacity for another settlement.
PollRefused(i) ==
  /\ sched = "running" /\ task[i].pc = "idle" /\ polls < MaxPolls
  /\ ~diskFull
  /\ polls' = polls + 1
  /\ lost' = lost \cup {polls'}
  /\ feed' = Terminalized(feed)
  /\ \E silent \in BOOLEAN : Undelivered(i, silent)
  /\ UNCHANGED <<capacity, crossing, task, owner, exec, signalling, ready, tickets, storeVars, published,
                 sched, experiment>>

\* DEFECT: admission without the capacity check.
PollAdmittedUnbounded(i) ==
  /\ sched = "running" /\ task[i].pc = "idle" /\ polls < MaxPolls
  /\ ~diskFull
  /\ writer = "open"
  /\ polls' = polls + 1
  /\ tickets' = tickets \cup {polls'}
  /\ crossing' \in {crossing, crossing \cup {polls'}}
  /\ \E silent \in BOOLEAN :
       task' = [task EXCEPT ![i] = [pc |-> "waiting", batch |-> polls', silent |-> silent]]
  /\ owner' = [owner EXCEPT ![i] = "queued"]
  /\ exec' = Append(exec, i)
  /\ UNCHANGED <<capacity, signalling, ready, storeVars, published, lost, sched, fault, blockers,
                 experiment, feed>>

\* begin_committed admits the batch: a ticket, an owner task, a place in the
\* executor's queue.
PollAdmitted(i) ==
  /\ sched = "running" /\ task[i].pc = "idle" /\ polls < MaxPolls
  /\ ~diskFull
  /\ writer = "open"
  /\ Cardinality(tickets) < capacity
  /\ polls' = polls + 1
  /\ tickets' = tickets \cup {polls'}
  /\ crossing' \in {crossing, crossing \cup {polls'}}
  /\ \E silent \in BOOLEAN :
       task' = [task EXCEPT ![i] = [pc |-> "waiting", batch |-> polls', silent |-> silent]]
  /\ owner' = [owner EXCEPT ![i] = "queued"]
  /\ exec' = Append(exec, i)
  /\ UNCHANGED <<capacity, signalling, ready, storeVars, published, lost, sched, fault, blockers,
                 experiment, feed>>

-----------------------------------------------------------------------------
(* The writer thread: _write_live_batch, one transaction per day.          *)

Writing(i) == exec # <<>> /\ Head(exec) = i /\ signalling = "none"

\* The executor call returns; its owner task and then the waiting coroutine
\* are woken in this order.
Returns(i, outcome) ==
  /\ owner' = [owner EXCEPT ![i] = outcome]
  /\ exec' = Tail(exec)
  /\ ready' = Append(ready, i)

\* DEFECT: the receipt is issued after the first day's transaction.
WriteDayOnce(i) ==
  /\ Writing(i)
  /\ disk' = disk \cup {<<task[i].batch, 1>>}
  /\ Returns(i, "committed")
  /\ UNCHANGED <<capacity, polls, crossing, task, signalling, tickets, writer, diskFull, callbacks, published,
                 lost, sched, fault, blockers, experiment, feed>>

\* A day's transaction commits; locked retries before it are not visible.
WriteDay(i) ==
  /\ Writing(i)
  /\ LET part == IF owner[i] = "half" THEN 2 ELSE 1
         last == part = 2 \/ task[i].batch \notin crossing
     IN /\ disk' = disk \cup {<<task[i].batch, part>>}
        /\ IF last THEN Returns(i, "committed")
                   ELSE owner' = [owner EXCEPT ![i] = "half"] /\ UNCHANGED <<exec, ready>>
  /\ UNCHANGED <<capacity, polls, crossing, task, signalling, tickets, writer, diskFull, callbacks, published,
                 lost, sched, fault, blockers, experiment, feed>>

\* Disk full, or a lock that lasted: the flag first, then the signal.
WriteFaults(i) ==
  /\ Writing(i)
  /\ \E full \in BOOLEAN : diskFull' = (diskFull \/ full)
  /\ signalling' = i
  /\ UNCHANGED <<capacity, polls, crossing, task, owner, exec, ready, tickets, writer, callbacks, disk, published,
                 lost, sched, fault, blockers, experiment, feed>>

\* DEFECT: the flag is taken for the signal.
SignalByFlag(i) ==
  /\ signalling = i
  /\ signalling' = "none"
  /\ callbacks' = (callbacks \/ ~diskFull)
  /\ Returns(i, "refused")
  /\ UNCHANGED <<capacity, polls, crossing, task, tickets, writer, diskFull, disk, published, lost, sched, fault,
                 blockers, experiment, feed>>

\* _signal_persistence_failure from the writer thread; the call then returns
\* None to its owner.
SignalFailure(i) ==
  /\ signalling = i
  /\ signalling' = "none"
  /\ callbacks' = TRUE
  /\ Returns(i, "refused")
  /\ UNCHANGED <<capacity, polls, crossing, task, tickets, writer, diskFull, disk, published, lost, sched, fault,
                 blockers, experiment, feed>>

\* Any other error (I/O error, changed schema, foreign binding) is raised.
WriteRaises(i) ==
  /\ Writing(i)
  /\ Returns(i, "raised")
  /\ UNCHANGED <<capacity, polls, crossing, task, signalling, tickets, storeVars, published, lost, sched, fault,
                 blockers, experiment, feed>>

\* on_persistence_failure runs on the loop and latches the fault.
LatchPersistenceFault ==
  /\ callbacks
  /\ callbacks' = FALSE
  /\ fault' = TRUE
  /\ UNCHANGED <<pipeVars, writer, diskFull, disk, published, lost, sched, blockers, experiment, feed>>

\* acknowledge_fault, or a deliberate Start after a successful probe: the
\* writer's flag and the fault are cleared in one run of the loop.
ClearPersistenceFault ==
  /\ fault
  /\ fault' = FALSE
  /\ diskFull' = FALSE
  /\ UNCHANGED <<pipeVars, writer, callbacks, disk, published, lost, sched, blockers, experiment, feed>>

-----------------------------------------------------------------------------
(* The poll task resumes with the settlement of its batch.                 *)

Resumes(i, pc) == task[i].pc = pc /\ ready # <<>> /\ Head(ready) = i

\* The batch of i is settled: where the task goes next.
Settled(i, next) ==
  /\ ready' = Tail(ready)
  /\ owner' = [owner EXCEPT ![i] = "none"]
  /\ task' = [task EXCEPT ![i] = [Idle EXCEPT !.pc = next]]
  /\ UNCHANGED <<capacity, polls, crossing, exec, signalling, storeVars, sched, experiment>>

After == IF sched = "running" THEN "idle" ELSE "ended"

\* The receipt is there: it is observed, and published unless another
\* instrument's write has meanwhile found the disk full.
CommitResumes(i) ==
  /\ Resumes(i, "waiting") /\ owner[i] = "committed"
  /\ tickets' = tickets \ {task[i].batch}
  /\ feed' = Committed(feed)
  /\ IF diskFull
     THEN Undelivered(i, task[i].silent) /\ UNCHANGED published
     ELSE /\ published' = published \cup {task[i].batch}
          /\ blockers' = blockers \ {i}
          /\ UNCHANGED fault
  /\ Settled(i, After)
  /\ UNCHANGED lost

RefusalResumes(i) ==
  /\ Resumes(i, "waiting") /\ owner[i] = "refused"
  /\ tickets' = tickets \ {task[i].batch}
  /\ feed' = Rejected(feed)
  /\ lost' = lost \cup {task[i].batch}
  /\ Undelivered(i, task[i].silent)
  /\ Settled(i, After)
  /\ UNCHANGED published

\* The commit raised.  The scheduler does not release the ticket.
ErrorResumes(i) ==
  /\ Resumes(i, "waiting") /\ owner[i] = "raised"
  /\ feed' = Terminalized(feed)
  /\ lost' = lost \cup {task[i].batch}
  /\ Undelivered(i, task[i].silent)
  /\ Settled(i, After)
  /\ UNCHANGED <<tickets, published>>

\* A cancelled task settles its ticket before it goes: the commit counts, the
\* publication does not take place.
CancelledResumes(i) ==
  /\ Resumes(i, "cancelled")
  /\ tickets' = tickets \ {task[i].batch}
  /\ IF owner[i] = "committed"
     THEN feed' = Committed(feed) /\ UNCHANGED lost
     ELSE feed' = Terminalized(feed) /\ lost' = lost \cup {task[i].batch}
  /\ Settled(i, "ended")
  /\ UNCHANGED <<published, fault, blockers>>

-----------------------------------------------------------------------------
(* Start, stop and the operator.                                           *)

\* _start_scheduler_with_recording_feed: the epoch, the tasks, acquisition.
SchedulerStart ==
  /\ sched = "new"
  /\ sched' = "running"
  /\ feed' = [feed EXCEPT !.active = TRUE, !.acquiring = TRUE]
  /\ UNCHANGED <<pipeVars, storeVars, published, lost, fault, blockers, experiment>>

\* Scheduler.stop, phase 1: idle tasks leave their loops.
StopBegins ==
  /\ sched = "running"
  /\ sched' = "draining"
  /\ task' = [i \in Instruments |-> IF InFlight(i) THEN task[i] ELSE [Idle EXCEPT !.pc = "ended"]]
  /\ UNCHANGED <<capacity, polls, crossing, owner, exec, signalling, ready, tickets, storeVars, published, lost,
                 fault, blockers, experiment, feed>>

\* Phase 2: the drain timed out and the waiting tasks are cancelled.
DrainTimesOut ==
  /\ sched = "draining"
  /\ \E i \in Instruments : task[i].pc = "waiting"
  /\ task' = [i \in Instruments |->
                IF task[i].pc = "waiting" THEN [task[i] EXCEPT !.pc = "cancelled"] ELSE task[i]]
  /\ UNCHANGED <<capacity, polls, crossing, owner, exec, signalling, ready, tickets, storeVars, published, lost,
                 sched, fault, blockers, experiment, feed>>

\* All tasks are over: acquisition stopped, then the epoch stopped.
StopCompletes ==
  /\ sched = "draining"
  /\ \A i \in Instruments : task[i].pc = "ended"
  /\ sched' = "stopped"
  /\ feed' = Terminalized(AcquisitionEnded(feed))
  /\ UNCHANGED <<pipeVars, storeVars, published, lost, fault, blockers, experiment>>

\* A cancelled task outlasts the second window: stop raises, the epoch is
\* ambiguous, and the task settles later.
StopIncomplete ==
  /\ sched = "draining"
  /\ \E i \in Instruments : task[i].pc = "cancelled"
  /\ \A i \in Instruments : task[i].pc # "waiting"
  /\ sched' = "stopped"
  /\ feed' = AcquisitionEnded(Terminalized(feed))
  /\ UNCHANGED <<pipeVars, storeVars, published, lost, fault, blockers, experiment>>

\* SQLiteWriter.stop: no new work, then every owner and callback settles.
WriterStops ==
  /\ sched = "stopped" /\ writer = "open"
  /\ writer' = "stopping"
  /\ UNCHANGED <<pipeVars, diskFull, callbacks, disk, published, lost, sched, fault, blockers,
                 experiment, feed>>

WriterCloses ==
  /\ writer = "stopping"
  /\ exec = <<>> /\ signalling = "none" /\ ~callbacks
  /\ writer' = "closed"
  /\ tickets' = {}
  /\ UNCHANGED <<capacity, polls, crossing, task, owner, exec, signalling, ready, diskFull, callbacks, disk,
                 published, lost, sched, fault, blockers, experiment, feed>>

\* An experiment starts; the recording epoch begins with the next commit.
ExperimentActive ==
  /\ ~experiment
  /\ experiment' = TRUE
  /\ UNCHANGED <<pipeVars, storeVars, published, lost, sched, fault, blockers, feed>>

\* It is finalised or aborted: the session ends.
ExperimentEnds ==
  /\ experiment
  /\ experiment' = FALSE
  /\ feed' = [feed EXCEPT !.session = FALSE]
  /\ UNCHANGED <<pipeVars, storeVars, published, lost, sched, fault, blockers>>

\* __expire_persistence, on any read of the snapshot: no commit for too long.
FeedExpires ==
  /\ feed.active /\ ~feed.latched /\ feed.stamped
  /\ feed' = Terminalized(feed)
  /\ UNCHANGED <<pipeVars, storeVars, published, lost, sched, fault, blockers, experiment>>

Thread(i) == WriteDay(i) \/ WriteFaults(i) \/ WriteRaises(i) \/ SignalFailure(i)
Resume(i) == CommitResumes(i) \/ RefusalResumes(i) \/ ErrorResumes(i) \/ CancelledResumes(i)

Next ==
  \/ SchedulerStart
  \/ \E i \in Instruments : PollSkipped(i)
  \/ \E i \in Instruments : PollRefused(i)
  \/ \E i \in Instruments : PollAdmitted(i)
  \/ \E i \in Instruments : Thread(i)
  \/ \E i \in Instruments : Resume(i)
  \/ LatchPersistenceFault
  \/ ClearPersistenceFault
  \/ StopBegins
  \/ DrainTimesOut
  \/ StopCompletes
  \/ StopIncomplete
  \/ WriterStops
  \/ WriterCloses
  \/ ExperimentActive
  \/ ExperimentEnds
  \/ FeedExpires

\* The writer thread and the event loop keep running; the busy timeout and
\* the bounded retries end every SQLite call.
Fairness ==
  /\ \A i \in Instruments : WF_vars(Thread(i)) /\ WF_vars(Resume(i))
  /\ WF_vars(LatchPersistenceFault)
  /\ WF_vars(WriterCloses)

Spec == Init /\ [][Next]_vars /\ Fairness

-----------------------------------------------------------------------------
(* Properties.                                                             *)

Durable(b) == <<b, 1>> \in disk /\ (b \in crossing => <<b, 2>> \in disk)

\* A batch that subscribers received as persisted is on disk completely, in
\* both daily files when it crosses midnight (scheduler.py publishes only
\* after the commit receipt).
PublishedIsDurable == \A b \in published : Durable(b)

\* While the operator is shown RECORDING, or storage as available, no batch
\* of this engine run has been lost, except one skipped because the disk is
\* full while the refusal that ends the recording is already on its way.
RecordingIsLossless ==
  feed.session \/ feed.storage = "available" =>
    \/ lost = {}
    \/ \E i \in Instruments : owner[i] = "refused" \/ signalling = i

\* While the pipeline is skipped for a full disk, the operator has a fault to
\* acknowledge, or the fault is on its way; otherwise polling would be off
\* for good with nothing to clear it.
NoSilentOutage ==
  diskFull => fault \/ callbacks \/ signalling # "none"

\* The operator is never shown a recording that loses batches, nor left with
\* polling switched off for a full disk and no fault to clear.
OutageIsShown == RecordingIsLossless /\ NoSilentOutage

\* Nothing is written after SQLiteWriter.stop reported the writer closed.
NoWriteAfterClose == [][writer = "closed" => disk' = disk]_vars

\* A failure the writer thread classifies as a full disk or a lasting lock is
\* followed by a persistence fault in the safety manager.
FailureFaults == \A i \in Instruments : (signalling = i) ~> fault

\* Every poll task that waits for its commit gets its settlement.
BatchesSettle == \A i \in Instruments : InFlight(i) ~> ~InFlight(i)

\* Every commit is settled, every classified failure becomes a fault, and the
\* close of the writer is the end of writing.
AcquisitionSettles == NoWriteAfterClose /\ FailureFaults /\ BatchesSettle

=============================================================================

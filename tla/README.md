# CryoDAQ in TLA+

A verification project for CryoDAQ, the data-acquisition and control system of
a cryostat. It concentrates on what must not go wrong: the chain that switches a
heater source on and off and claims to know which of the two it did, the bus
that carries audit events, and the records a laboratory keeps - readings,
operator log, acknowledgements, experiments, reports - through crashes, failed
writes and full disks. Paths below are relative to `src/cryodaq/` in the
repository.

Contents: [the system](#1-the-system), [modules](#2-modules-and-the-code),
[runs](#3-runs-and-what-they-show), [fairness](#4-fairness),
[proofs](#5-proofs), [disagreements](#6-disagreements-with-the-documentation),
[what is left out](#7-not-modelled), [plan](#8-plan).

## 1. The system

The engine is one asyncio process. Instruments are polled by a scheduler,
readings are written to SQLite and then fanned out to subscribers; a safety
manager owns the only actuator, a two-channel Keithley 2604B source-meter.
Operators act through a GUI process over ZMQ commands. Finished days move from
SQLite files to Parquet artifacts. An assistant process sends periodic picture
reports. A launcher starts all of them and starts again what ended.

| Part | State it keeps | Operations | What is hard | What makes it correct | Module |
|---|---|---|---|---|---|
| `core/safety_manager.py` | FSM state, `_active_sources`, fault origins, OFF evidence, abort generations, a retained global-OFF task, two locks | `request_run`, `request_stop`, `emergency_off`, interlock trips, `acknowledge_fault`, `latch_fault`, `on_persistence_failure`, the monitor | faults bypass the lock and land inside any await of a lock holder; a start and several OFFs overlap; callers vanish | success means what it says; no start after an abort; evidence never stands over a live output; a latch survives late continuations | `SafetyManager` |
| `drivers/instruments/keithley_2604b.py` | per channel a command epoch, start token, OFF depth, OFF proof, unsafe observation; connection generation and lifecycle flags | `start_source`, `stop_source`, `emergency_off`, `read_channels`, `connect`, `disconnect` | OFF is never queued behind a lock, so everything interleaves at the wire; a write that raises may have acted | an OFF proof is true and current; OFF is reported only when off | `KeithleySource` |
| `drivers/transport/usbtmc.py` | owner process, session status | `open`, `close`, `write`, `query` | a timeout desynchronises the session; a close may be incomplete | one command at a time, refused or bounded | `KeithleySource` |
| `core/broker.py`, publisher in `core/zmq_bridge.py` | queues, envelopes and their futures | `publish_required`, `publish`, `unsubscribe`, the drain loop, `stop` | timeout against claim, cancellation against send, shutdown in mid-send, full queues | an audit event is settled once, honestly, and never evicted | `DataBroker` |
| `core/scheduler.py`, commit path of `storage/sqlite_writer.py`, `engine_wiring/recording_lifecycle_feed.py` | poll tasks, commit owners, tickets, one writer thread, disk-full flag, persistence fault, what the operator is shown | poll, commit, settle, publish, signal a failure, acknowledge, drain, stop | a thread beside the loop; commits that end after their caller; midnight; a full disk | nothing unrecorded is published; no loss is hidden; every commit settles | `Acquisition` |
| `storage/cold_rotation.py`, `core/housekeeping.py`, `storage/archive_reader.py` | daily files, Parquet artifacts, index, `.gz` | rotate, verify, unlink, sweep, compress, retire, query | a crash between two files; restored files; a query beside a rotation | a row with a cold export leaves its last file only by the retention policy; a query is complete | `ColdRotation` |
| operator log in `engine.py`, `storage/sqlite_writer.py` | request registry, daily row, publication outbox, tasks | submit, append, promote, publish, reconcile, recover | three commits, two databases, archived rows, lost replies | one row and at least one publication per request id | `OperatorLog` |
| acknowledgements in `engine.py`, `core/alarm_v2.py`, `core/annunciation.py` | live alarm, registry, outbox, tasks | trigger, clear, prepare, claim, commit, apply, publish, recover | an alarm that re-triggers, two operators, numbers that start again | an acknowledgement reaches its own activation and no other | `AlarmAck` |
| `core/experiment.py` | daily row, metadata card, state file, journal, memory, snapshot | create, update, finalize, phases, autosweeps, retroactive records, mode | a crash or a failed write between any two files | a journaled transition is done or undone as a whole | `ExperimentManager` |
| `agents/assistant/periodic_png.py`, `periodic_state.py`, `report_process.py` | one durable document, a render child, a request in flight | allocate, render, promote, deliver, settle, recover, pause | a child that survives its parent, an answer that is lost | a picture is sent at most once, and the record does not lie | `PeriodicReport` |
| `core/interlock.py`, `core/vacuum_guard.py`, `core/cooldown_alarm.py` | trip states, timers | evaluate, acknowledge, re-arm | re-arm by a Start against a new trip | a violated guard is never blind | planned |
| `core/zmq_bridge.py` command server, `core/zmq_subprocess.py`, `gui/zmq_client.py` | pending commands | request, reply, retry, restart | a late reply after a timeout | one reply per command | planned |
| `launcher.py`, `engine.py`, `engine_wiring/`, `instance_lock.py` | processes and tasks | start, adopt, supervise, stop | shutdown order | one engine; outputs off before exit | planned |

Interaction. A GUI command reaches a `SafetyManager` method. The manager calls
the driver through shielded tasks, so that a vanished caller never interrupts
hardware settlement. The driver talks to the instrument through the transport
lock. Interlocks, alarms, the monitor and the SQLite writer call back into the
manager (`on_interlock_trip`, `latch_fault`, `on_persistence_failure`), outside
its command lock. The manager reads the driver's negative cache
(`output_state_unverified`), its `active_channels` and its unsafe observations.
It publishes states through the broker; the engine's alarm acknowledgement and
operator log use `publish_required`. The scheduler awaits the writer before it
publishes; the recording feed watches both. The rotation moves rows the operator
log and the experiment manager still look for. `PROJECT.json` lists every
component with its status, and every hazard with its line.

## 2. Modules and the code

| Module | Models | Uses |
|---|---|---|
| `DataBroker` | `core/broker.py` and `ZMQPublisher`'s loop and `stop` | |
| `DataBrokerProofs` | | `DataBroker` |
| `KeithleySource` | the 2604B driver over its USBTMC session, command by command | |
| `MCKeithleySource` | symmetry of the callers | `KeithleySource` |
| `KeithleyProofs` | | `KeithleySource` |
| `SourceContract` | the driver as the safety layer may rely on it | |
| `SafetyManager` | `core/safety_manager.py` | `SourceContract` |
| `MCSafetyManager` | symmetry of the channels | `SafetyManager` |
| `SafetyManagerProofs` | | `SafetyManager` |
| `Acquisition` | `core/scheduler.py`, the writer's commit path, the persistence fault and the recording truth | |
| `AcquisitionProofs` | | `Acquisition` |
| `DurableRows` | what the storage of finished days promises (abstract) | |
| `ColdRotation` | rotation, gzip retention and a reader, file by file | implements `DurableRows` |
| `MCColdRotation` | the installations of the run | `ColdRotation` |
| `ColdRotationProofs` | | `ColdRotation`, `DurableRows` |
| `EngineIncarnation` | one engine process after another: settlement, ingress, freeze, death | |
| `OperatorLog` | the keyed operator log | `EngineIncarnation` |
| `AlarmAck` | alarm acknowledgements | `EngineIncarnation` |
| `CommandIngress` | both under one process life | `OperatorLog`, `AlarmAck` |
| `CommandIngressProofs` | | `CommandIngress` |
| `ExperimentLedger` | what the experiment lifecycle promises (abstract) | |
| `ExperimentManager` | `core/experiment.py` | implements `ExperimentLedger` |
| `ExperimentProofs` | | `ExperimentManager`, `ExperimentLedger` |
| `PeriodicReport` | the periodic report's coordinator, document, child and destination | |
| `PeriodicReportProofs` | | `PeriodicReport` |

Definitions that start with a comment `DEFECT:` are deliberately wrong variants
of the definition that follows; no specification uses them. They record which
defect each property detects (`mutants` in `PROJECT.json`).

### DataBroker

A required publication is an envelope (`RequiredPublication._state`), a future
(`settlement`) and a coroutine waiting for it (`caller`). Actions:
`PublishRequired`, `ExpireUnclaimed` (the `call_later` timer), `CancelCaller`,
`CallerResume`; `LoopTake` (get and claim), `LoopSent`, `LoopFailed`;
`StopBegin`, `StopDrain`; `Unsubscribe`; `Publish` for ordinary telemetry, which
shares the publisher's queue and also feeds one ordinary subscriber with either
overflow policy. A send that raises may have put the frame on the wire: `sent`
is then nondeterministic. Payloads, filters and metadata copies are left out.

### KeithleySource

Coroutines are separate state machines: a start per channel (`start`), OFF
sequences per owner (`op`), the poll (`rd`) and the lifecycle owner (`life`).
Each await on the transport is three steps: enqueue, execute on the instrument
(`Exec...`), resume with the reply. The transport serves in order of arrival
(`ahead`). Ordinary I/O additionally takes the driver's ordinary-I/O lock
(`ioOwner`) and is checked again under it; OFF commands do not take it. What the
driver knows is in the variables of the group `evidence`; what is true is in
`outputOn` and `level`. `tampered` marks outputs somebody switched on at the
front panel, the one case in which a proof can become false behind the driver's
back; it is what the idle poll exists for.

Merged: the seven configuration writes of a start are one command, the two
writes of an OFF are one command. The queries that follow an observation
(`measure.iv()` of an unmanaged output, compliance, the level readback) add a
transport failure that the next poll can have as well and are left out. The
caller of `start_source` is never cancelled, because the manager shields it.
Regulation is reduced to "the level becomes non-zero".

### SourceContract

The two calls the manager makes, begun and returning in separate steps. An OFF
takes its channels over from whatever is in flight; a superseded start can only
fail, though its OUTPUT_ON may land before the OFF; a superseded OFF can only
return "unknown". An unconfirmed return may leave any of its channels on, proved
or counted as active, and may void all proofs. It is deliberately weaker than
the driver (more outcomes), so that what holds over it holds over the driver.
That `KeithleySource` implements it is not shown (see the plan).

### SafetyManager

A step is the code between two awaits on a lock, a driver call, a receipt, a
probe or a publication. Correspondence of state: `state`, `active`
(`_active_sources`), `sources` (`_fault_sources`), `evidence`
(`_reviewed_source_off_evidence.verified_off`), `lock` and `queue`
(`_cmd_lock`), `runLock` (`_run_request_lock`), `op` (the coroutines), `retained`
(the global-OFF owner task), `cooled` (the 60 s before acknowledgement,
`config/safety.yaml`).

Decisions worth knowing:

* *Abort generations.* The code compares monotone counters with a sample. The
  model keeps what the comparison yields: `op[p].seen`, the scopes registered
  since the sample, and for the retained task and the latch whether their
  generation is the current one (`retained.now`, `retained.latch`, `latchNow`).
* *Ready before new.* When a driver call ends, everybody who awaits it is ready
  (`res`), and the event loop runs ready coroutines before it takes up new
  events (`Quiet`). Hops through `create_task` and shields take fewer loop
  iterations than any I/O.
* *Lock order.* `_cmd_lock` is granted in order of arrival; a waiter that is
  cancelled gives up its place (`Leave`).
* *Cancellation.* A RUN may lose its caller while it waits for a lock, the
  probe or the receipt (`RunCancelled`), during the start (`StartCallerGone`) and
  during publication (`RunUnacknowledged`).
* *Monitor verdicts* (staleness, rates, heartbeats, watchdog, death of a child
  task) are faults raised at any time by the members of `Alarms`.
* *Unmanaged outputs* seen by the poll are a choice (`Hazards`) at every
  reconciliation as long as a channel is not owned.
* *Preconditions* other than OFF evidence may refuse a RUN at any time.
* *Expiry* of evidence and the revocation by an unqualified READY are
  `EvidenceExpires`, enabled whenever there is evidence.
* *Start state.* The source is connected and was proved off.
* *Cooldown.* `CooldownElapses` waits until what was in flight when the fault
  latched has settled: transport timeouts of a few seconds against 60 s.

### Acquisition

Per instrument a poll task (`task`) and the commit owner task of its batch
(`owner`); one writer thread with its queue (`exec`), which runs beside the event
loop; the scheduler's own life (`sched`), the persistence fault of the safety
manager, and the recording truth (`feed`) with the two owners it drives.
`PollSkipped`, `PollRefused` and `PollAdmitted` are the three ways into
`_process_readings`; `WriteDay` commits one daily transaction, `WriteFaults` and
`WriteRaises` are the ways it fails, `SignalFailure` is the hand-over of a
classified failure to the loop; `CommitResumes`, `RefusalResumes`,
`ErrorResumes` and `CancelledResumes` are the poll task after its commit.
`StopBegins`, `DrainTimesOut`, `StopCompletes`, `StopIncomplete`, `WriterStops`
and `WriterCloses` are the shutdown. `ClearPersistenceFault` is the operator's
acknowledgement. Of the experiment only whether one is active is kept. The spool and archive receipts the persistence owner can
consume are fed by nothing in the program.

### ColdRotation and DurableRows

A day is a set of rows named by what decides their fate: a reading, an
operator-log entry, a row of `source_data` (no cold export, so its day is not
rotated), a row of the `experiments` table (no cold export either, but its day is
rotated), a reading only a restored file has. The index entry is the digest of the
whole source; the artifacts hold what is `Exported` of it. Rotation takes a cut, writes one artifact at a time, commits the index,
verifies what it committed, removes the daily file; the sweep removes a daily
file of an archived day after proving it covered. The gzip retention copies,
removes and later deletes. A row may be in the WAL of its daily file only, after
a crash or a failed checkpoint at the turn of the day; `Checkpoint` may move it to
the main file at any later time, when some connection to that file closes, or
never. `compress_db` copies the main file: with an empty WAL that is the day, and
otherwise it is what a checkpoint, unfinished perhaps, has made of it, so
`CompressCopies` takes any part of it. `CrashRestart` may come between any two file
operations, with another configuration. The query captures the index, lists the
daily files, reads day by day and checks the index again. No query reads a `.gz`:
where the engine compresses instead of rotating, a day that is compressed between
a query's start and its listing is missed, so `QueryComplete` speaks of engines
that rotate. It speaks of readings, which are all that `query_rows` returns. The
SQLite sidecars belong to the daily file (a restored file comes without any);
young days are one set (`aged` is what is not young). Days that an experiment's
metadata links are not treated apart: the retention leaves them alone
(`_linked_db_names`), the model lets it take them.

`DurableRows` is the promise: a stored row stays stored in some file until the
retention retires it. The refinement maps a day to what its daily file, its
`.gz` and its indexed artifacts hold together (`Preserved`), and its scope is
part of the mapping: the rows are those that are `Covered`, exported or keeping
their day from being rotated, which leaves out the `experiments` table; and
retired is what goes with a deleted `.gz`, or with a daily file that is compressed
while it has a WAL. So `StoreSpec` says that rotation, sweep, crashes of the
process and the compression of cleanly closed days lose nothing that is covered.
What it leaves out is lost by the code (section 6): `UnlinkSource` destroys the
table with the file, and the WAL goes in this run, counted as retired.

### EngineIncarnation, OperatorLog, AlarmAck, CommandIngress

`EngineIncarnation` is the life of a process: the settlement steps of
`_CommandIngressRecoveryAuthority.settle` in order, open ingress, the freeze of a
shutdown, death, and the state in which startup was refused. Everything in memory
is reset by `LogDies` and `AckDies`.

In `OperatorLog` a request id and a content go through the request registry,
the reservation in the outbox, the daily row, the publication intent, the
publisher and the published mark; each of the durable steps may raise before or
after it is durable. A failed publication moves to the background task, which
reads the stores again. `ArchiveDay` and `UnlinkDay` are the
rotation under it. In `AlarmAck` one alarm triggers and clears while requests
that name an activation by engine and number are prepared, claimed, committed,
applied and published. `CommandIngress` puts both beside the same process; a
behaviour exercises one lane, chosen at the start, since the lanes share nothing
but the process and the order of its settlement. A publication mark that raises
after it is durable is left out: the row is published either way, and no property
tells the two apart.

### ExperimentManager and ExperimentLedger

One step is one durable write. `Commit` begins a transition by writing the
journal; `WriteRow`, `WriteCard`, `CommitState` and `Unlink` follow, and
`StepFails` (a write that raises) or `Crash` may end it at any of them.
`Authority` is `_recover_transition` with the row, card and state cut it insists
on. Commands run one at a time because the engine's command lock and the
manager's lifecycle lock say so; beside them the operator log reserves an
identity (`Reserve`), readers see the snapshot, the rotation drops the daily file
a running experiment started in (`RotateFirstDay`), and the engine dies. Each
experiment has one autosweep. A retroactive record is written by a single call
that may stop after the row. The state file of an empty data directory exists in
`Init`. The branch of `_load_state` for a card that is not RUNNING under an
active state is left out: no replay leaves that pair behind.

`ExperimentLedger` is the lifecycle without stores: at most one runs, retitling
and ending are single steps, an end is final. Under the refinement mapping a
journaled transition that is still authoritative counts as done.

### PeriodicReport

`disk` is the document of `periodic_state.py`: high-water mark, active slot, ledger
of unresolved deliveries, pause, and how each slot was left (the history that
`last_terminal` is the last entry of). `pc` is the coordinator's task between two
awaits; `child` holds the render processes by generation, which keep running when
the coordinator dies; `wire` and `accepted` are the destination, which may take a
picture whose answer is lost. Each durable write is written or not, and a failed
one ends the coordinator. The leader lock admits one coordinator, so `down` is the
time between two. Back-off times are abstracted to "later"; the clock is
monotone; a configuration only changes upwards. Of the health record only the
pause is kept. A well-formed rejection that invites a retry means that the
destination did not take the picture: the code relies on it when it sends again
(`agents/assistant/periodic_telegram.py:455`), and `DeliveryHonest`, in which
`AtMostOnce` stands, holds under that assumption. The branch of `mark_delivering` out of FAILED is translated though
no state reaches it.

## 3. Runs and what they show

| Run | Instance | Properties |
|---|---|---|
| `data_broker` | 2 requests, queues of 2, 3 readings | `VerdictHonest`, `PublicationAccounts`, `CallerSettles` |
| `keithley_race` | 1 channel, 2 OFF callers, poll, front panel, 2 connections | `OffEvidenceHonest`, `ReportedOffIsOff`, `OutputsAccountedFor`, `WireAuthorised` |
| `keithley_live` | 2 channels, 1 OFF caller, poll of one channel | `VerifiedMeansOff`, `CallsSettle` |
| `safety_fault` | 2 channels, a RUN, an OFF-side caller, an alarm | `EvidenceHonest`, `SettledStateAgrees`, `SuccessHolds`, `NoStartAfterAbort`, `LatchSurvives` |
| `safety_live` | 1 channel, a RUN, an OFF-side caller, an alarm | `EveryoneReturns` |
| `safety_claim_safe_off` | 2 channels, a RUN, an OFF-side caller, two alarms | `SafeOffMeansOff`, refuted (section 6) |
| `acquisition` | 2 instruments, 2 batches, 1 or 2 tickets | `PublishedIsDurable`, `OutageIsShown`, `AcquisitionSettles` |
| `cold_rotation` | three installations, see `MCColdRotation` | `StoreSpec` (refinement), `QueryComplete` |
| `command_ingress` | 2 ids with 2 contents, or 2 acknowledgements of 2 activations; 2 processes | `AnswersHold`, `LogStoresAgree`, `AckStoresAgree`, `CommittedIsPublished` |
| `command_ingress_claim` | 1 id, 3 processes | `StrandedDayIsSwept`, refuted (section 6) |
| `experiment` | 2 experiments, 2 titles, 1 phase, 2 faults | `LifecycleConsistent`, `CommandsStayBound`, `ImplementsLedger` (refinement), `RestartSettles` |
| `periodic` | 3 intervals, 2 render and 2 delivery attempts, 1 unresolved delivery, 2 faults | `LedgerExact`, `DeliveryHonest`, `SlotNeverReopened`, `SlotSettles` |

Each component also has its type invariant checked by one run; those include
queue bounds, attempt counts and who may hold a lock. Several properties are
conjunctions whose parts have names and comments of their own in the module.

What they say, in a line each: a caller's verdict on an audit event is true and
arrives (`data_broker`); OFF is concluded only from evidence of this epoch and
connection, and no write without authority reaches the wire (`keithley_*`); a RUN
or STOP that reports success reports the plant (`safety_*`); a published reading
is on disk and the operator is never shown a lossless recording that lost a batch
(`acquisition`); rotation loses no reading, log entry or source row, the gzip
retention only those it deletes by age or leaves in a WAL, and rotation hides no
reading from a query (`cold_rotation`); what a client was answered survives the engine, and what was
committed is published (`command_ingress`); the experiment's stores behave as one
(`experiment`); a report is sent at most once and its record is honest
(`periodic`).

Bounds. Two requests and queues of two are enough for a full queue, for one
envelope in flight with another behind it, and for telemetry that competes with
both; three readings overflow a queue of two. The Keithley epochs are bounded
per channel: `MaxEpoch` stops new starts and polls, `MaxOffEpoch` stops new OFF
calls later, so that every start can still be cleaned up; with two connections
(each takes two epochs: generation and forced OFF) there is room for a start
after either, its supersession by an OFF, and a second OFF that overlaps the
first. The safety runs have no counters: behaviours are unbounded, callers
submit again and again, and only the number of concurrent callers is bounded; an
alarm interrupts any await. `acquisition` needs two batches for a commit that ends
after another batch was refused, two instruments for a queue at the writer, and a
capacity of one for an exhausted ticket table. `cold_rotation` has two crashes
because the second can hit the recovery of the first; in two of its installations
a day may end in its WAL, and one of these compresses before it rotates; the third
has two days so that a query can read one while the other moves. `command_ingress`
has two processes (the one that crashes and the one that recovers); the claim run
needs a third, because the second one is refused. `MaxRevision` of `experiment`
admits a create, an update or finalize and one transition more;
two faults are a failed write followed by a crash during its replay. In
`periodic` a ledger of one is full after one unresolved delivery, and three
intervals leave a slot behind and one ahead of the active one.

Deadlock is checked in the safety runs and in `periodic`. The others may stop,
because their requests, batches or faults are finite.

## 4. Fairness

`DataBroker`: timers and ready coroutines run, a send on a PUB socket returns or
raises, `stop` drains once its loop has ended (weak fairness). Nobody is obliged
to publish, cancel or stop.

`KeithleySource`: every transport command is bounded by a timeout, and every
coroutine whose await is over is resumed (weak fairness). `StartIssue` is
strongly fair because the ordinary-I/O lock is an `asyncio.Lock` served in order:
polls that come and go cannot overtake a start for ever.

`SafetyManager`: ready coroutines run (weak fairness). The end of a driver call
or of another await is strongly fair, because it is only taken up at idle moments
of the loop (`Quiet`), which other activity interrupts and which recur. No
fairness is assumed of callers, alarms or the monitor.

`Acquisition`: the writer thread ends every SQLite call (busy timeout, bounded
retries), the loop runs ready tasks and scheduled callbacks, and the close of the
writer is reached. Nobody is obliged to poll, acknowledge or stop.

`CommandIngress`: tasks and the steps of the settlement are taken up again, the
drain of a frozen engine ends once its tasks have, the launcher starts an engine
that died. That a client repeats a request is not assumed.

`ExperimentManager`: the next step of a running command is taken, and an engine
that is down is started (the launcher restarts it). Crashes and failed writes
are bounded by `MaxFaults`.

`PeriodicReport`: the coordinator's loop reconciles every few seconds, requests
and children have a deadline, the supervisor elects a leader again. The
destination owes nothing: `Accept` and `Reject` are not fair.

`ColdRotation` has safety properties only.

## 5. Proofs

All proofs are checked by TLAPS for arbitrary constants.

`DataBrokerProofs` shows `VerdictsAreHonest` (`Spec => []VerdictHonest`) for any
set of requests and any capacities, from `ReceiptsAreHonest` and
`WithdrawnIsFinal`. Neither part is inductive: `SettlementInv` adds the
publisher's types, the agreement of future and envelope (`SettledOnce`) and
`EnvelopeFacts`: what was sent is acknowledged or rejected, what the loop holds
is claimed or rejected, what was not issued has no envelope. `BrokerTypes`
(`Spec => []TypeOK`) and `NothingIsLost` (`Spec => []PublicationAccounts`) follow
from the same invariant together with the queues' contents. Assumptions:
capacities are positive, and requests are not the markers used for loop states.

`KeithleyProofs` shows every safety property of the driver for any number of
channels and tasks and any bounds on commands and losses: `SourceTypes`
(`Spec => []TypeOK`), `EvidenceIsHonest` (`OffEvidenceHonest`), `ReportsAreTrue`
(`ReportedOffIsOff`), `VerifiedIsOff` (`VerifiedMeansOff`), `OutputsAreKnown`
(`OutputsAccountedFor`) and the action property `WireIsAuthorised`
(`WireAuthorised`). The difficulty is the wire: a command that was issued under an
authority that is gone may still be queued, or may have acted although its write
raised. The invariant `IInv` says what the wire can still do: an OFF claims its
channel's command epoch in its first step, so its write stands behind every
OUTPUT_ON that had the epoch before it (`BehindOns`), and no later OUTPUT_ON has
it. A channel whose OFF was acknowledged while the epoch stands is therefore
`Quiet`: nothing on the wire can switch it on before the epoch moves on
(`QuietStays`). On this rest the honesty of OFF proofs (`EvidenceInv`), of readback
(`ObservationInv`), of reported levels (`LevelInv`) and of the certainty flags
(`CertaintyInv`, `TrackedInv`); `WireInv`, `SequenceInv`, `TokenInv`, `DepthInv` and
`LifeInv` fix who holds the session, the order of a call's commands, and what its
token, depth and lifecycle flags say about where it is. `Steps` regroups the
next-state relation by what a step touches; one lemma per group and part of the
invariant. Assumptions: `ChannelsFinite`, `ChannelSubsets`, `TasksDistinct`,
`Bounds`.

`SafetyManagerProofs` shows, for any number of channels, callers and alarms,
`StateKeepsTypes` (`Spec => []TypeOK`), `EvidenceIsHonest`
(`Spec => []EvidenceHonest`) and the action properties
`OvertakenRunsStartNothing` (`NoStartAfterAbort`), `LatchedFaultsSurvive`
(`LatchSurvives`) and `SuccessMeansWhatItSays` (`SuccessHolds`). They rest on one
inductive invariant, `ManagerInv`, in three layers; `SettledStatesAgree`
(`Spec => []SettledStateAgrees`) needs a fourth, below.

* `IInv`: the types, the invariant `ContractInv` of the driver contract (a proof
  excludes a live output and a start still to come, and such a start has its
  channel to itself), and: while evidence stands nothing is on and no unsuperseded
  start is in flight. Every driver step keeps `ContractInv`, and every one but the
  beginning of a start is "calming": nothing new starts, and an output can come on
  only from a start already in flight. Every action of the manager is either calm,
  with evidence that stays or is set by a refresh that needs every channel proved,
  or begins a start and gives the evidence up in the same step (`StepSound`).
* `Safe`, which is `Control` of the current state: who holds `_cmd_lock` and who
  waits for it, once each (`Holding`, `Line`); where an operation of each kind can be
  (`Placed`); whose driver call is whose and who joined it (`Called`); a probe is
  made for a latched persistence fault, and a RUN past its first admission has seen
  whatever fault is latched (`Guarded`). Without the last, a RUN that was admitted
  before a fault could consume that fault's latch. A step is often a sequence of
  building blocks, so `Control` is stated of any values of the variables, and
  `Replaced` says what has to be shown when one operation moves on.
* `Claims`, what the holder of the lock may rely on when it answers: an OFF that was
  confirmed leaves its scope off, an acknowledged start that nothing has overtaken
  has its channel on and free of other calls, and a STOP that was not cut short has
  the channels it passed off and, once it is done, not owned. The properties speak of
  the step that answers, the deed was some steps earlier; in between only a fault can
  begin a call, and that one is seen by every RUN and STOP (`LatchKeeps`,
  `RaiseClaims`).

`OkIsAnAnswer` shows that only five steps answer "ok"; `RunOkLive` and `StopOkOff` read
the property off the invariant there.

`SettledStateAgrees` speaks of the moment when everybody has returned, but what it
promises is owed by somebody long before. A stop takes channel after channel out of
`active` and names the state only at the end, and not even then once an abort has
overtaken it; an overtaken RUN gives its source back and names nothing. Whoever
leaves the state behind relies on another operation to settle it, and the invariant
has to say on which. `SettlingInv` adds to `ManagerInv`:

* `Steady`: what the state means while somebody is under way. Half permitted only
  under the lock of the RUN that starts or is being undone, nothing starting
  unless the state permits it, whoever may still commit a source or a state has seen
  the fault that is latched, and a fault cools down only after every RUN of the time
  before it has left.
* `Apart` and `LateAlarms`: a RUN may consume the latch while the OFF of an alarm is
  still on its way. Calls that nothing superseded have their channels to themselves,
  so whoever then commits a source had waited for that OFF.
* `SeenOrder`: what a stop has seen, whoever is before it in the line for the lock
  has seen too.
* `MarkedStops`, `MarkedRuns`: a stop, or a RUN before its start, that was overtaken
  is backed by somebody further down the line who was not (`Settler`: an emergency
  OFF, an interlock, a stop nothing has overtaken); or a fault is latched that no RUN
  is about to consume, everything is being ended, or there is nothing to settle.
* `SettlerComes`: while the state says that something may source where nothing is
  owned, a settler is under way.

At rest there is no settler and nobody holds the lock, so the state agrees
(`SettlingSettles`). The steps are classified once: the holder of the lock latches,
takes over, stays faulted, proceeds, starts, publishes, settles, walks, yields,
consumes or acknowledges (`HolderStep`); beside it a call is heard, the lock granted,
somebody joins the line or moves outside it, a fault is raised or settles
(`Beside`); or nobody moves (`Watches`). `StepKinds` shows that every step of the
specification is one of these, and each part of the invariant has one lemma over the
kinds. Assumption of the whole module: `OpsAssumption`, the callers are distinct. The
driver contract is part of the specification, not an assumption of the prover.

`PeriodicReportProofs` shows, for any number of intervals, attempts,
configurations and faults and any ledger capacity, `DeliveriesAreHonest`
(`Spec => []DeliveryHonest`), `LedgerKept` (`Spec => []LedgerExact`), the action
property `NeverReopened` (`Spec => SlotNeverReopened`) and `AttemptsStayInLimits`
(`Spec => []TypeOK`). They follow from `Inductive` (`Spec => []Inv`), where `Inv` is

* `Good(disk)`, about the document alone: its shape (what may stand together in
  the active record, and that a slot is left only below the high-water mark),
  its ledger (`Ledger`), and its honesty against the destination (`Honest`);
* `Network`: a picture on its way was not taken yet, and none is taken twice;
* `Task`: the position of the coordinator agrees with the status of its slot, and
  an answer that says "accepted" or "unsent" is true.

None of the three properties is inductive. `AtMostOnce` needs that a picture is
sent only from a slot that was marked DELIVERING and not sent before (`Task` with
`Untouched`), which needs that no retry leaves DELIVERING after the request went
out (`Honest`). `LedgerExact` needs that a delivery begins with room in the ledger
and that a slot leaves the active record once (`Shape`). The document's pure
transitions have a lemma each (`OpenSlot`, `Marked`, `Unresolved`, `Ended`,
`Settled`), then every group of actions has one (`ReconcileKeeps`,
`RenderingKeeps`, `DeliveryKeeps`, `DestinationKeeps`, `HealthKeeps`,
`SupervisorKeeps`). The limits of the attempts need `Limited` beside it: a slot that
may still be rendered or delivered has an attempt of that kind left, and a failure
is retriable only if it has; a render or a send counts one attempt and asks only
for that (`Workers` holds the rest of the types). Assumption: `LimitsAssumption`, the
limits are positive.

`AcquisitionProofs` shows, for any instruments, any number of polls and any
settlement capacity, `PublicationsAreDurable` (`Spec => []PublishedIsDurable`),
`OutagesAreShown` (`Spec => []OutageIsShown`), the action property
`ClosedIsSilent` (no write after the writer was reported closed) and
`CapacityIsKept` (`Spec => []TypeOK`). All follow
from `PipelineInvariant` (`Spec => []IInv`). Its parts beside the properties: the
executor's queue and the loop's wake-up order hold exactly the batches their owners
say they hold, each once (`Queues`), and an owner has a task that waits for it
(`Owners`), so that no batch is published by a task that waits for another;
a receipt is issued for what is on disk, and half a batch is its first day
(`Receipts`); the recording is shown only while persistence is active and nothing
was dropped (`FeedOK`); and a loss has either ended the recording or its refusal is
on its way (`LossIsNoticed`), without which a flag set by the writer thread could
stand beside a recording nobody has closed yet. `Joins` and `Leaves` say what a
queue without repetitions looks like after a batch enters or leaves, and such a
queue is no longer than the instruments are many (`QueueFits`). `Bounded` adds that
tickets are of polled batches and no more than the capacity: only an admission takes
one, after counting those there are, and a settlement can lose or give back only the
batch of its own task. Assumption: `AcquisitionAssumption` (a finite number of
instruments, positive capacities).

`ColdRotationProofs` shows the refinement `RotationKeepsRows`
(`Spec => StoreSpec`) for any days, installations, crashes and restored files,
with the scope of `StoreSpec`: the rows that are `Covered`, and the two ways
retention may retire them (section 2). Beside it are `QueriesMissNothing`
(`Spec => []QueryComplete`) and `RotationKeepsTypes` (`Spec => []TypeOK`). For the
refinement, every step is of one of three kinds - it leaves the covered rows a
day's files hold together (`Kept`) as they are (`Stays`), adds to one day (`Adds`),
or takes from one day what it retires (`Retires`) - and `MapsIsStoreStep` maps
these to steps of `DurableRows`. That a
removal is a stutter needs the rest of `IInv`: until the source is unlinked it is the
cut, and once committed the entry is the cut, has no source row, and its artifacts
are whole (`Cut`);
the file the sweep removes is what its archive holds (`Reclaim`); the file
that gives way to its `.gz` is in it, if it had no WAL (`Copy`); rotation and compression never run in
the same engine (`Modes`); a day is planned once (`Todo`). A query is complete for
a reason that is only true while it lasts (`QInv`): as long as no day was indexed
under it, every reading it wants is in the day's hot file or behind the day's entry
(`Fresh`), and a day it has read, or found without a file, has given it what was
wanted (`Answered`); once a day was indexed, the check at the end refuses the
answer (`Asked`). Every step of the engine keeps the rows of a day in reach
(`KeepsReach`): rotation and sweep take from a daily file only readings that are behind the
entry. Assumption: `ColdRotationAssumption`, the shape of an installation.

`ExperimentProofs` shows for any number of experiments, titles, phases, failed
writes and crashes `LifecycleIsConsistent` (`Spec => []LifecycleConsistent`),
`CommandsStayTheirOwn` (`Spec => CommandsStayBound`), the refinement
`ManagerImplementsLedger` (`Spec => ImplementsLedger`) and `ManagerKeepsTypes`
(`Spec => []TypeOK`). `LifecycleConsistent`
speaks of the time between transitions and is not inductive, because a transition is
four writes any of which may be the last before a crash. `IInv` adds what is
true inside one: the state file is either the journal's predecessor, with row and card
somewhere between before and after (`Halfway`), or exactly its result, with both done
(`RowDone`, `CardDone`); no other experiment is touched (`Transition`); memory
holds the experiment before or after (`InMemory`); and who works, with which cut
(`Work`). One lemma per action shows that `IInv` is kept and that the
ledger sees nothing (`Unseen`), except for `CommitKeeps` and `RetroactiveKeeps`,
where it may see one step: a journal that a replay would accept counts as the
transition. A journal that none accepts (section 6) is `Unseen` by the ledger, so
the theorem covers the manager that is stuck as well. The types need `Bounded` in
addition: a journal is written only below the bound on revisions, so the cut it
leads to is within it. Assumption:
`ExperimentConstants`.

`CommandIngressProofs` shows, for any request ids, contents, activations, engine
processes, failures and crashes, every invariant of the retained commands:
`AnswersAlwaysHold` (`Spec => []AnswersHold`), `LogStoresAlwaysAgree`
(`Spec => []LogStoresAgree`), `AckStoresAlwaysAgree` (`Spec => []AckStoresAgree`) and
`IngressTypes` (`Spec => []TypeOK`). None of them is inductive: they speak of what is
on disk, and what keeps it so is in the memory of the tasks. `IInv` is

* `LogInv` for the log: per request id the outbox row, the daily row and the file it
  is in fit together (`Stored`), a task past the append stands for the row that is
  there, past prepare for an intent (`Tasked`), and from the registry step on the
  registry is the rows or, in a running engine, given up. Every step works on one
  request id and takes back no row and no published publication, so one lemma
  (`KeyStep`) reduces each step to what it leaves of its own id. `ReconciledStored`
  also shows that the check of the outbox at startup never refuses: only the
  ambiguous registry does.
* `AckInv` for the acknowledgements. `Annunciated`: every activation was shown under
  one number of its own, and numbers are never given twice in an engine, so a target
  that was stale stays stale. `Requested`: a row names the source id of its target
  (`Names`), although target and source are two counters. `Owned`: one owner per
  activation from its claim to the application. `Exclusive`: an acknowledgement that
  is durable and did not raise has its owner still at work, or the live alarm shows
  one (`Taken`); so whoever resolves the shown activation, finds it unacknowledged
  and unowned is alone with it (`ClaimIsExclusive`). The commit itself is two steps
  later, and the ownership carries the fact there. `Ingress`: what an engine at rest
  remembers, nothing, and what it has settled before it opens.

A step of one request's task leaves the other requests alone (`TaskStep`,
`OthersKept`) and moves its own row forward only (`RowMoves`); `RequestStep` is the
one place where the whole invariant is put together again. Assumptions:
`LogAssumption` and `AckAssumption` (the markers for "nothing" are no contents,
registry or request; the bounds are numbers) and `IncarnationAssumption` (there is a
first engine).

Only model-checked: everything under fairness (liveness is out of the prover's
reach).

## 6. Disagreements with the documentation

Two have a run that refutes the documented statement.

1. `docs/architecture.md:232-234`: "the system never reports `SAFE_OFF` over a
   possibly-live output". A Start over an interlock-only latch moves to SAFE_OFF
   at once (`core/safety_manager.py:1388-1398`), while the OFF of that latch may
   be in flight or unconfirmed. If a later check refuses the Start, SAFE_OFF
   remains. OFF evidence stays honest throughout and no second output is started
   without its own proof, so what is wrong is the state shown.
   Run `safety_claim_safe_off`.
2. `storage/cold_rotation.py:722` and `:1085`: a daily file that could not be
   removed after archiving is removed by the sweep of the next pass. If the engine
   ends first and the day holds a keyed operator-log row, the next engine finds
   the request id in both tiers, calls it ambiguous
   (`storage/sqlite_writer.py:8350`) and ends its startup before the rotation
   service starts; so does every later one. Run `command_ingress_claim`.

Met while modelling, without a run of their own:

* `core/safety_manager.py:1312` and `212-215`: only a latch whose ONLY origin
  is persistence is consumed by a Start, never after another cause joined. The
  origins are compared before the await of the writer's probe (`1330-1345`) and
  not after it; a cause that joins meanwhile is cleared with the latch (`1394`).
* With a source still listed as active the OFF-evidence preconditions are skipped
  (`core/safety_manager.py:3914-3925`), so SAFE_OFF or MANUAL_RECOVERY can become
  READY after an unconfirmed OFF. The documentation is silent.
* `core/experiment.py`, `set_app_mode` changes memory before the state file. After
  a failed write of EXPERIMENT the next create journals a predecessor whose mode
  is "debug"; validation then refuses that journal for ever, with every lifecycle
  command and every startup, against the docstring of `_recover_transition`
  (`:1866`). A repeated `set_app_mode` answers ok although the file was never
  written. `RestartSettles` and the operator `Stuck` name the two causes.
* The other cause: an experiment that runs longer than `age_days` cannot be ended.
  Its row went with the daily file (next item), the journal stays, startup is
  refused.
* `storage/cold_rotation.py:720-722`: when the original of a day is deleted,
  "readings and operator_log are preserved in Parquet, and source_data was verified
  empty at entry (Step 0), so no table with rows is destroyed". The daily file also
  holds the `experiments` table (`core/experiment.py:2170-2228`), whose rows are
  neither exported nor looked for, and go with the file (`UnlinkSource` in
  `ColdRotation`, `RotateFirstDay` in `ExperimentManager`). `StoreSpec` leaves them
  out by name (`Covered`) and does not say that they survive.
* The replay in `_serialized_lifecycle_mutation` runs before the reservation is
  looked at, so a replay can change the identity that `experiment_cas`
  (`core/experiment.py:561-570`) promises to hold.
* `.gz` files are deleted by the retention without having been ingested
  (`docs/deployment.md:289-290` expects otherwise), and `compress_db` copies the
  main file and not the WAL (`core/housekeeping.py:576-581`). Nothing promises
  otherwise of the WAL, so no run refutes a promise; both losses happen in
  `cold_rotation`, where `StoreSpec` counts them as retired.
* A channel-descriptor row goes into the cold files only through a reading that
  refers to it; the model takes it for part of that reading.
* Parquet files are not flushed before the original is unlinked
  (`storage/cold_rotation.py:514`). The model has crashes of the process and no
  power failures, so `StoreSpec` says nothing about them.
* A reader that connects just after rotation unlinked a daily file leaves an empty
  stub of that name behind.
* A raised but durable commit of an acknowledgement lets a second request commit on
  the same activation, and its row has no task until the next engine; a failed
  keyed append disables keyed log writes until a restart; a settlement ticket of a
  raised commit is retained for good.
* `agents/assistant/periodic_png.py`, `_recover_rendering` looks for a picture and
  then probes the render lock: a surviving child may promote in between, and the
  attempt is recorded as one without a picture (around `:1197`). An attempt is
  lost, nothing else.
* With a full ledger, which nothing ever clears, a ready slot and a newer interval,
  every pass rewrites the pause and asks for another pass (`:1084`): the document
  is written without rest until the coordinator is reconfigured.

## 7. Not modelled

In the modelled components. Safety manager and driver: live target and limit
updates (`update_target`, `update_limits` and their driver side), the
reviewed-source connect and disconnect, the TSP watchdog, the life of the monitor
and collector tasks, mock mode, the numeric P=const law, the operator snapshot's
contents, and the owner process behind the transport. Writer: the calibration,
photo and channel-descriptor tables and the byte limits of payloads. Scheduler:
connection, back-off and shared buses. Archive reader: bounded queries and format
checks. Experiment manager: composition photos, the archive snapshot, the Parquet
export. Periodic report: the projection of readings, the drawing, the bytes on
the wire. Acknowledgements: the pruning of terminal rows.

`storage/persistence_spool.py` is a library that the engine does not construct.

Other components are listed in `PROJECT.json` with the reason. Much of the
repository is presentation, numeric analysis, format conversion and test rigs (the
GUI's panels, the soak runners, the exports, analytics, parsers of passive
instruments, assistant agents, web views): real-valued data or pure I/O, with no
protocol that a model checker would explore. They will stay out, and the share of
lines the models cover stays small for that reason.

## 8. Plan

1. `KeithleySource` implements `SourceContract`: refinement mapping (`out` from
   `outputOn`, `proved` from `HasCurrentOffProof`, `running` from `active`, `call`
   from `op` and `start`). Two places need work first: the contract lacks the loss
   of a single channel's proof and a superseded OFF that has already settled, and
   the mapping needs history variables for calls that have returned.
2. `SafetyManager`: target and limit updates, reviewed-source connect and
   disconnect, children that die and restart.
3. `InterlockEngine`: trip, acknowledge, re-arm by a Start, composed with
   `SafetyManager`; in particular, whether a Start that consumed an interlock
   latch and is refused later, before the re-arm
   (`core/safety_manager.py:1488`), can leave the other channel running under a
   guard that is not evaluated.
4. Processes: command server, bridge process and client retries; launcher,
   shutdown and instance lock.
5. The operator snapshot and its revision across restarts.

------------------------- MODULE ExperimentManager -------------------------
(***************************************************************************)
(* The experiment lifecycle (core/experiment.py).  One transition writes   *)
(* the row of a daily database, the metadata card and the state file;      *)
(* a journal written first lets the next lifecycle call, or the next       *)
(* engine, finish what a failed write or a crash interrupted.              *)
(*                                                                         *)
(* Commands run one at a time, under the engine's command lock and the     *)
(* manager's lifecycle lock.  Beside them an operator-log task may reserve *)
(* the identity of the active experiment, the cold rotation may remove the *)
(* daily file an experiment started in, and the engine may die.            *)
(***************************************************************************)
EXTENDS Naturals

CONSTANTS
    Experiments,    \* identities, each used once
    Titles,         \* what update_experiment changes
    Phases,         \* the phases an experiment may be advanced to
    Aged,           \* experiments whose first day is old enough to be rotated
    NoExperiment, NoPhase,
    MaxRevision,    \* bound on the state revision
    MaxFaults       \* bound on failed writes and crashes

ASSUME ExperimentConstants ==
    /\ NoExperiment \notin Experiments /\ NoPhase \notin Phases
    /\ Aged \subseteq Experiments /\ Titles # {}
    /\ MaxRevision \in Nat /\ MaxFaults \in Nat

VARIABLES
    rows,       \* durable: experiments table of the daily databases
    cards,      \* durable: metadata.json of each experiment
    disk,       \* durable: experiment_state.json
    journal,    \* durable: experiment_transition.json
    engine,     \* "down" or "up"
    memory,     \* _state, _state_revision and _last_transition_receipt
    active,     \* _active
    phase,      \* _operator_phase
    snapshot,   \* _operator_snapshot
    holder,     \* _durable_mutation_id
    inherited,  \* _restart_recoverable_conductivity_record_ids
    job,        \* the command that holds the locks
    faults      \* bound counter

durable == <<rows, cards, disk, journal>>
truth == <<memory, active, phase, snapshot>>
aside == <<engine, holder, inherited, faults>>
vars == <<durable, truth, aside, job>>

NoTitle == CHOOSE t \in Titles : TRUE
Identities == Experiments \cup {NoExperiment}
NoInfo == [exp |-> NoExperiment, title |-> NoTitle]
NoReceipt == [op |-> "none", exp |-> NoExperiment, title |-> NoTitle, revision |-> 0]
NoRow == [status |-> "absent", title |-> NoTitle]
NoCard == [status |-> "absent", title |-> NoTitle, phase |-> NoPhase, sweep |-> "none"]
NoJob == [op |-> "none", exp |-> NoExperiment, pc |-> "none", replay |-> FALSE]

Statuses == {"absent", "RUNNING", "COMPLETED"}
Transitions == {"create", "update", "finalize"}
Receipts == [op : Transitions \cup {"none"}, exp : Identities, title : Titles, revision : 0..MaxRevision]
Cuts == [mode : {"experiment", "debug"}, exp : Identities, revision : 0..MaxRevision, receipt : Receipts]
NoCut == [mode |-> "experiment", exp |-> NoExperiment, revision |-> 0, receipt |-> NoReceipt]
NoJournal == [op |-> "none", exp |-> NoExperiment, title |-> NoTitle, predecessor |-> NoCut]

\* What each variable may hold.
TypeOK ==
    /\ rows \in [Experiments -> [status : Statuses, title : Titles]]
    /\ cards \in [Experiments -> [status : Statuses, title : Titles,
                                  phase : Phases \cup {NoPhase}, sweep : {"none", "RUNNING", "closed"}]]
    /\ disk \in Cuts /\ memory \in Cuts
    /\ journal \in [op : Transitions \cup {"none"}, exp : Identities, title : Titles, predecessor : Cuts]
    /\ engine \in {"down", "up"}
    /\ active \in [exp : Identities, title : Titles]
    /\ phase \in Phases \cup {NoPhase}
    /\ snapshot \in [exp : Identities, phase : Phases \cup {NoPhase}]
    /\ holder \in Identities
    /\ inherited \subseteq Experiments
    /\ job.pc \in {"none", "admit", "authority", "row", "card", "state", "unlink"}
    /\ faults \in 0..MaxFaults

\* A data directory no manager has written to but for its first state file.
Init ==
    /\ rows = [e \in Experiments |-> NoRow]
    /\ cards = [e \in Experiments |-> NoCard]
    /\ disk = NoCut /\ journal = NoJournal
    /\ engine = "down"
    /\ memory = NoCut /\ active = NoInfo /\ phase = NoPhase
    /\ snapshot = [exp |-> NoExperiment, phase |-> NoPhase]
    /\ holder = NoExperiment /\ inherited = {}
    /\ job = NoJob /\ faults = 0

Pending == journal.op # "none"
At(pc) == job.pc = pc
Goto(pc) == job' = [job EXCEPT !.pc = pc]
Return == job' = NoJob

Fault == faults < MaxFaults /\ faults' = faults + 1
NoFault == UNCHANGED faults

\* The mutation lock is held by a mutation from its admission to its return,
\* and by the replay of a journal only inside one step.
MutationLockFree == At("none") \/ At("admit") \/ job.replay

-----------------------------------------------------------------------------
(* One transition: journal, row, card, state file, journal removed.        *)

\* DEFECT: the receipt counts the revision twice.
ReceiptTwice == [op |-> journal.op, exp |-> journal.exp, title |-> journal.title,
                 revision |-> journal.predecessor.revision + 2]

\* The cut a journaled transition leads to.
Receipt == [op |-> journal.op, exp |-> journal.exp, title |-> journal.title,
            revision |-> journal.predecessor.revision + 1]
ResultIdentity == IF journal.op = "finalize" THEN NoExperiment ELSE journal.exp
Result == [mode |-> journal.predecessor.mode, exp |-> ResultIdentity,
           revision |-> Receipt.revision, receipt |-> Receipt]
ResultStatus == IF journal.op = "finalize" THEN "COMPLETED" ELSE "RUNNING"

\* The predecessor a transition may start from.
Authoritative ==
    /\ journal.predecessor.mode = "experiment"
    /\ journal.predecessor.exp = IF journal.op = "create" THEN NoExperiment ELSE journal.exp

\* DEFECT: a transition whose result is already there is refused as stale.
AuthorityOnce ==
    /\ At("authority")
    /\ memory' = disk
    /\ IF Authoritative /\ disk = journal.predecessor THEN Goto("row") ELSE Return
    /\ UNCHANGED <<durable, active, phase, snapshot, aside>>

\* _load_state_authority, then _validate_transition_authority: the state file
\* is the predecessor, or already the exact result, or the call is refused.
Authority ==
    /\ At("authority")
    /\ memory' = disk
    /\ \/ Authoritative /\ disk = journal.predecessor /\ Goto("row")
       \/ Authoritative /\ disk = Result /\ Goto("unlink")
       \/ ~(Authoritative /\ disk \in {journal.predecessor, Result}) /\ Return
    /\ UNCHANGED <<durable, active, phase, snapshot, aside>>

\* The row an insert or an update can be made on: the insert is repeatable,
\* the update needs the row to be there.
RowAccepts ==
    IF journal.op = "create" THEN rows[journal.exp].status \in {"absent", "RUNNING"}
                             ELSE rows[journal.exp].status # "absent"

\* _write_start or _write_end.
WriteRow ==
    /\ At("row")
    /\ RowAccepts
    /\ rows' = [rows EXCEPT ![journal.exp] = [status |-> ResultStatus, title |-> journal.title]]
    /\ Goto("card")
    /\ UNCHANGED <<cards, disk, journal, truth, aside>>

\* _write_artifact: the card keeps its phases and its run records.
WriteCard ==
    /\ At("card")
    /\ cards' = [cards EXCEPT ![journal.exp].status = ResultStatus, ![journal.exp].title = journal.title]
    /\ Goto("state")
    /\ UNCHANGED <<rows, disk, journal, truth, aside>>

\* _set_active and _clear_active: memory first, then the state file, then the
\* snapshot whether or not the file was written.
ActiveAfter == IF journal.op = "finalize" THEN NoInfo ELSE [exp |-> journal.exp, title |-> journal.title]
PhaseAfter == IF ActiveAfter.exp = active.exp THEN phase ELSE NoPhase

\* DEFECT: a state file that could not be written is passed over.
CommitStateAnyway ==
    /\ At("state")
    /\ active' = ActiveAfter
    /\ phase' = PhaseAfter
    /\ snapshot' = [exp |-> ActiveAfter.exp, phase |-> PhaseAfter]
    /\ Goto("unlink")
    /\ \/ disk' = Result /\ memory' = Result /\ NoFault
       \/ memory' = [memory EXCEPT !.exp = ActiveAfter.exp] /\ UNCHANGED disk /\ Fault
    /\ UNCHANGED <<rows, cards, journal, engine, holder, inherited>>

CommitState ==
    /\ At("state")
    /\ active' = ActiveAfter
    /\ phase' = PhaseAfter
    /\ snapshot' = [exp |-> ActiveAfter.exp, phase |-> PhaseAfter]
    /\ \/ /\ disk' = [Result EXCEPT !.mode = memory.mode]
          /\ memory' = disk'
          /\ Goto("unlink") /\ NoFault
       \/ /\ memory' = [memory EXCEPT !.exp = ActiveAfter.exp]
          /\ UNCHANGED disk
          /\ Return /\ Fault
    /\ UNCHANGED <<rows, cards, journal, engine, holder, inherited>>

\* _load_state: the experiment the state file names, read from its card.
Persisted == IF disk.exp = NoExperiment THEN NoInfo
             ELSE [exp |-> disk.exp, title |-> cards[disk.exp].title]

\* The journal goes.  After a replay the active experiment is read back from
\* its card, and the command that found the journal is admitted.
Unlink ==
    /\ At("unlink")
    /\ journal' = NoJournal
    /\ IF job.replay THEN job' = [job EXCEPT !.pc = "admit", !.replay = FALSE] ELSE Return
    /\ memory' = IF job.replay THEN disk ELSE memory
    /\ active' = IF job.replay /\ disk.exp # NoExperiment THEN Persisted ELSE active
    /\ UNCHANGED <<rows, cards, disk, phase, snapshot, aside>>

\* DEFECT: a failed transition takes its journal with it.
StepFailsForgets ==
    /\ At("row") \/ At("card") \/ At("unlink")
    /\ Return /\ Fault
    /\ journal' = NoJournal
    /\ UNCHANGED <<rows, cards, disk, truth, engine, holder, inherited>>

\* A write, or the removal of the journal, raises and leaves its file as it
\* was: the command fails where it stands.
StepFails ==
    /\ \/ At("row") /\ RowAccepts
       \/ At("card") \/ At("unlink")
    /\ Return /\ Fault
    /\ UNCHANGED <<durable, truth, engine, holder, inherited>>

\* _write_end finds no row: the update always raises.
RowMissing ==
    /\ At("row") /\ ~RowAccepts
    /\ Return
    /\ UNCHANGED <<durable, truth, aside>>

-----------------------------------------------------------------------------
(* Commands.                                                               *)

\* Every lifecycle call replays a pending journal before it is admitted.  The
\* experiment it names is fixed by then; its other arguments are chosen where
\* they are used.
Called(op, e) ==
    /\ At("none")
    /\ job' = [op |-> op, exp |-> e, replay |-> Pending,
               pc |-> IF Pending THEN "authority" ELSE "admit"]

Operations == Transitions \cup {"advance", "attach", "close", "recover", "scope"}

Call(op, e) ==
    /\ engine = "up"
    /\ Called(op, e)
    /\ UNCHANGED <<durable, truth, aside>>

\* DEFECT: a reserved identity stops nobody.
AdmittedAlways == At("admit")

\* Admission of a mutation: refused while an identity is reserved.
Admitted == At("admit") /\ holder = NoExperiment
Addressed == active.exp = job.exp

\* The preconditions of create_, update_ and finalize_experiment.
MayTransit ==
    /\ Admitted
    /\ memory.mode = "experiment"
    /\ CASE job.op = "create" -> /\ active.exp = NoExperiment
                                 /\ \A e \in Experiments : rows[e].status # "RUNNING"
                                 /\ rows[job.exp] = NoRow /\ cards[job.exp] = NoCard
         [] job.op = "update" -> Addressed
         [] job.op = "finalize" -> Addressed /\ cards[job.exp].sweep # "RUNNING"
         [] OTHER -> FALSE

\* _commit_transition: the state file is read again, and the journal carries
\* that cut as its predecessor.
Journalled(t) == [op |-> job.op, exp |-> job.exp, title |-> t, predecessor |-> disk]

Commit ==
    /\ MayTransit
    /\ disk.revision < MaxRevision
    /\ memory' = disk
    /\ \/ (\E t \in Titles : journal' = Journalled(t)) /\ Goto("authority") /\ NoFault
       \/ UNCHANGED journal /\ Return /\ Fault
    /\ UNCHANGED <<rows, cards, disk, active, phase, snapshot, engine, holder, inherited>>

\* advance_phase: the card first, then memory and the snapshot.
MayAdvance == Admitted /\ job.op = "advance" /\ Addressed

Advance ==
    /\ MayAdvance
    /\ Return
    /\ \/ /\ phase' \in Phases
          /\ cards' = [cards EXCEPT ![active.exp].phase = phase']
          /\ snapshot' = [exp |-> active.exp, phase |-> phase']
          /\ NoFault
       \/ UNCHANGED <<cards, phase, snapshot>> /\ Fault
    /\ UNCHANGED <<rows, disk, journal, memory, active, engine, holder, inherited>>

\* attach_run_record for an autosweep, running or closed: the card is written
\* whole, from the experiment in memory.  A new record is not an inherited one.
MayAttach ==
    /\ Admitted
    /\ job.op \in {"attach", "close"}
    /\ memory.mode = "experiment" /\ Addressed
    /\ job.op = "close" => cards[active.exp].sweep = "RUNNING"

Attach ==
    /\ MayAttach
    /\ Return
    /\ \/ /\ cards' = [cards EXCEPT ![active.exp] =
                          [@ EXCEPT !.status = "RUNNING", !.title = active.title,
                                    !.sweep = IF job.op = "attach" THEN "RUNNING" ELSE "closed"]]
          /\ inherited' = inherited \ {active.exp}
          /\ NoFault
       \/ UNCHANGED <<cards, inherited>> /\ Fault
    /\ UNCHANGED <<rows, disk, journal, truth, engine, holder>>

\* recover_conductivity_runs_after_verified_off: only the records this engine
\* inherited, once the global OFF was verified.
MayRecover ==
    /\ Admitted
    /\ job.op = "recover" /\ Addressed
    /\ active.exp \in inherited /\ cards[active.exp].sweep = "RUNNING"

Recover ==
    /\ MayRecover
    /\ Return
    /\ \/ cards' = [cards EXCEPT ![active.exp].sweep = "closed"] /\ NoFault
       \/ UNCHANGED cards /\ Fault
    /\ UNCHANGED <<rows, disk, journal, truth, engine, holder, inherited>>

\* set_app_mode: memory first, then the state file.
OtherMode == IF memory.mode = "debug" THEN "experiment" ELSE "debug"

MayChangeMode ==
    /\ Admitted
    /\ job.op = "mode"
    /\ OtherMode = "debug" => active.exp = NoExperiment

ChangeMode ==
    /\ MayChangeMode
    /\ memory.revision < MaxRevision
    /\ Return
    /\ \/ /\ disk' = [mode |-> OtherMode, exp |-> memory.exp, revision |-> memory.revision + 1,
                      receipt |-> NoReceipt]
          /\ memory' = disk'
          /\ NoFault
       \/ memory' = [memory EXCEPT !.mode = OtherMode] /\ UNCHANGED disk /\ Fault
    /\ UNCHANGED <<rows, cards, journal, active, phase, snapshot, engine, holder, inherited>>

\* Whatever is not admitted, and the scope of a log entry, changes nothing.
Refuse ==
    /\ At("admit") /\ job.op # "start"
    /\ ~(MayTransit \/ MayAdvance \/ MayAttach \/ MayRecover \/ MayChangeMode)
    /\ Return
    /\ UNCHANGED <<durable, truth, aside>>

\* create_retroactive_experiment: a row and a card, with no journal and
\* outside the lifecycle lock, between two commands.  Its title never changes.
Retroactive(e) ==
    /\ engine = "up" /\ At("none")
    /\ rows[e] = NoRow /\ cards[e] = NoCard /\ e # journal.exp
    /\ rows' = [rows EXCEPT ![e] = [status |-> "COMPLETED", title |-> NoTitle]]
    /\ \/ cards' = [cards EXCEPT ![e] = [NoCard EXCEPT !.status = "COMPLETED"]] /\ NoFault
       \/ UNCHANGED cards /\ Fault
    /\ UNCHANGED <<disk, journal, truth, engine, holder, inherited, job>>

-----------------------------------------------------------------------------
(* The engine, and those beside the commands.                              *)

\* experiment_cas: a log entry reserves the identity while its row is written.
Reserve(e) ==
    /\ engine = "up" /\ MutationLockFree
    /\ active.exp = e /\ holder = NoExperiment
    /\ holder' = e
    /\ UNCHANGED <<durable, truth, engine, inherited, faults, job>>

\* The exit of the reservation: whatever the identity is by now, it is free.
Release ==
    /\ holder # NoExperiment /\ MutationLockFree
    /\ holder' = NoExperiment
    /\ UNCHANGED <<durable, truth, engine, inherited, faults, job>>

\* The cold rotation archives the readings of a day and removes its file, and
\* the experiments table with it.
RotateFirstDay(e) ==
    /\ e \in Aged /\ engine = "up"
    /\ rows[e].status # "absent" /\ cards[e].status # "absent"
    /\ rows' = [rows EXCEPT ![e] = NoRow]
    /\ UNCHANGED <<cards, disk, journal, truth, aside, job>>

\* ExperimentManager(): the state file, then the journal, then the card.
Start ==
    /\ engine = "down"
    /\ Called("start", NoExperiment)
    /\ memory' = disk
    /\ active' = NoInfo /\ phase' = NoPhase
    /\ snapshot' = [exp |-> NoExperiment, phase |-> NoPhase]
    /\ UNCHANGED <<durable, aside>>

Started ==
    /\ At("admit") /\ job.op = "start"
    /\ engine' = "up"
    /\ active' = Persisted
    /\ phase' = IF disk.exp = NoExperiment THEN NoPhase ELSE cards[disk.exp].phase
    /\ snapshot' = [exp |-> disk.exp, phase |-> phase']
    /\ inherited' = {e \in {disk.exp} \ {NoExperiment} : cards[e].sweep = "RUNNING"}
    /\ Return
    /\ UNCHANGED <<durable, memory, holder, faults>>

\* The process dies between any two steps: memory and locks are gone.
Crash ==
    /\ engine = "up" \/ ~At("none")
    /\ Fault
    /\ engine' = "down"
    /\ memory' = NoCut /\ active' = NoInfo /\ phase' = NoPhase
    /\ snapshot' = [exp |-> NoExperiment, phase |-> NoPhase]
    /\ holder' = NoExperiment /\ inherited' = {}
    /\ Return
    /\ UNCHANGED durable

Step == Authority \/ WriteRow \/ WriteCard \/ CommitState \/ Unlink \/ StepFails \/ RowMissing
Body == Commit \/ Advance \/ Attach \/ Recover \/ ChangeMode \/ Refuse

Next ==
    \/ Step \/ Body
    \/ Call("mode", NoExperiment)
    \/ \E op \in Operations, e \in Experiments : Call(op, e)
    \/ Start \/ Started \/ Crash \/ Release
    \/ \E e \in Experiments : Reserve(e) \/ RotateFirstDay(e) \/ Retroactive(e)

Spec == Init /\ [][Next]_vars

\* The launcher restarts an engine that ended, and a startup runs to its end.
FairSpec == Spec /\ WF_vars(Start) /\ WF_vars(Started) /\ WF_vars(Step)

-----------------------------------------------------------------------------
(* Properties.                                                             *)

\* A replay of the pending journal would succeed.
Replayable ==
    /\ Authoritative
    /\ \/ disk = Result
       \/ disk = journal.predecessor /\ RowAccepts

\* With no transition pending the three stores tell one story: the state file
\* names the experiment whose card runs, no other row runs, and a row and a
\* card agree (_apply_transition writes them one after the other).
StoresAgree ==
    ~Pending => \A e \in Experiments :
        /\ cards[e].status = "RUNNING" <=> disk.exp = e
        /\ rows[e].status = "RUNNING" => disk.exp = e
        /\ cards[e].status # "absent" /\ rows[e].status # "absent"
              => rows[e] = [status |-> cards[e].status, title |-> cards[e].title]
        /\ cards[e].status # "absent" /\ rows[e].status = "absent" => e \in Aged

\* With no transition pending the manager's active experiment is the one a
\* restart would load, whatever writes failed before (_set_active changes
\* memory ahead of the state file).
ActiveIsDurable == engine = "up" /\ ~Pending => active = Persisted

\* The snapshot that readers take without a lock names the active experiment
\* and its durable phase, between any two steps of a command
\* (_refresh_operator_snapshot).
SnapshotAgrees ==
    engine = "up" =>
        /\ snapshot.exp = active.exp
        /\ snapshot.phase = IF active.exp = NoExperiment THEN NoPhase ELSE cards[active.exp].phase

\* A journal that cannot be replayed, so that every lifecycle command and
\* every startup is refused (_recover_transition), by one of two causes: a
\* mode that only memory had left "debug", or a row rotated away.
Stuck ==
    /\ Pending /\ ~Replayable
    /\ \/ journal.predecessor.mode = "debug"
       \/ journal.op # "create" /\ journal.exp \in Aged /\ rows[journal.exp] = NoRow

\* An experiment is not archived over an autosweep that still runs: neither
\* the card nor the journal that will write it (finalize_experiment's check
\* comes before a commit that may be applied much later).
ArchivedSweepsAreClosed ==
    \A e \in Experiments :
        cards[e].sweep = "RUNNING" => /\ cards[e].status = "RUNNING"
                                      /\ ~(journal.op = "finalize" /\ journal.exp = e)

\* Between transitions the stores, the manager's memory, the snapshot read
\* without a lock and the autosweeps tell one story.
LifecycleConsistent ==
    /\ StoresAgree /\ ActiveIsDurable /\ SnapshotAgrees
    /\ ArchivedSweepsAreClosed

\* While a log entry holds the identity of the active experiment, no admitted
\* command changes it; only the replay of an interrupted transition, which
\* asks nobody, does (experiment_cas, _serialized_lifecycle_mutation).
ReservedIdentityHolds ==
    [][holder # NoExperiment /\ holder' = holder /\ active'.exp # active.exp => job.replay]_vars

\* A phase reaches only the experiment its command named, even when the
\* command waited behind a replay that changed the active experiment
\* (advance_phase's expected_experiment_id).
PhaseStaysWithItsExperiment ==
    [][\A e \in Experiments : cards'[e].phase # cards[e].phase => job.op = "advance" /\ job.exp = e]_vars

\* A command changes the experiment it was admitted for and no other, whatever
\* reservation or replay it waited behind.
CommandsStayBound == ReservedIdentityHolds /\ PhaseStaysWithItsExperiment

\* The lifecycle is atomic at the journal: through crashes, failed writes,
\* replays and rotation the manager implements ExperimentLedger, a journaled
\* transition counting as done (_commit_transition, _recover_transition).
Committed == Pending /\ Authoritative

Ledger == INSTANCE ExperimentLedger WITH
    running <- IF Committed THEN ActiveAfter ELSE Persisted,
    archive <- {[exp |-> e, title |-> cards[e].title] :
                   e \in {x \in Experiments : cards[x].status = "COMPLETED"}} \cup
               IF Committed /\ journal.op = "finalize"
               THEN {[exp |-> journal.exp, title |-> journal.title]} ELSE {}

ImplementsLedger == Ledger!Spec

\* An engine that ended comes back with nothing pending, unless its journal
\* cannot be replayed for one of the two causes (ExperimentManager.__init__).
RestartSettles == engine = "down" ~> (engine = "up" /\ ~Pending) \/ Stuck
=============================================================================

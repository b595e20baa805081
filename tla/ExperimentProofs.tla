-------------------------- MODULE ExperimentProofs --------------------------
(***************************************************************************)
(* What the experiment manager guarantees for any number of experiments,   *)
(* titles, phases, failed writes and crashes: between transitions its      *)
(* stores and its memory tell one story, a command changes only its own    *)
(* experiment, and the lifecycle is atomic at the journal.                 *)
(***************************************************************************)
EXTENDS ExperimentManager, TLAPS

Titled == [exp : Identities, title : Titles]
ReceiptSet == [op : Transitions \cup {"none"}, exp : Identities, title : Titles, revision : Nat]
CutSet == [mode : {"experiment", "debug"}, exp : Identities, revision : Nat, receipt : ReceiptSet]
JournalSet == [op : Transitions \cup {"none"}, exp : Identities, title : Titles, predecessor : CutSet]
RowSet == [status : Statuses, title : Titles]
CardSet == [status : Statuses, title : Titles, phase : Phases \cup {NoPhase},
            sweep : {"none", "RUNNING", "closed"}]
JobSet == [op : Operations \cup {"mode", "start", "none"}, exp : Identities,
           pc : {"none", "admit", "authority", "row", "card", "state", "unlink"}, replay : BOOLEAN]

StateTypes ==
    /\ rows \in [Experiments -> RowSet]
    /\ cards \in [Experiments -> CardSet]
    /\ disk \in CutSet /\ memory \in CutSet
    /\ journal \in JournalSet
    /\ engine \in {"down", "up"}
    /\ active \in Titled
    /\ phase \in Phases \cup {NoPhase}
    /\ snapshot \in [exp : Identities, phase : Phases \cup {NoPhase}]
    /\ holder \in Identities
    /\ inherited \subseteq Experiments
    /\ job \in JobSet

\* Who works, and under which locks.
Work ==
    /\ engine = "down" => At("none") \/ job.op = "start"
    /\ engine = "up" => job.op # "start"
    /\ engine = "down" => holder = NoExperiment
    /\ ~MutationLockFree => holder = NoExperiment
    /\ job.op \in Operations => job.exp \in Experiments
    /\ At("admit") => ~Pending /\ ~job.replay
    /\ At("admit") /\ job.op = "start" => memory = disk
    /\ At("authority") => Pending
    /\ At("authority") /\ ~job.replay => disk = journal.predecessor
    /\ job.pc \in {"row", "card", "state"} =>
         Pending /\ Authoritative /\ disk = journal.predecessor /\ memory = disk
    /\ At("unlink") => Pending /\ disk = Result /\ memory = disk

\* A row and a card of an experiment that has no transition pending.
Agrees(e) ==
    /\ cards[e].status # "absent" /\ rows[e].status # "absent"
          => rows[e] = [status |-> cards[e].status, title |-> cards[e].title]
    /\ cards[e].status # "absent" /\ rows[e].status = "absent" => e \in Aged

RowDone ==
    \/ rows[journal.exp] = [status |-> ResultStatus, title |-> journal.title]
    \/ rows[journal.exp].status = "absent" /\ journal.exp \in Aged
CardDone == cards[journal.exp].status = ResultStatus /\ cards[journal.exp].title = journal.title

\* What the journaled experiment looks like before the state file follows.
Halfway(e) ==
    /\ journal.op = "create" =>
         /\ rows[e].status \in {"absent", "RUNNING"}
         /\ cards[e].status \in {"absent", "RUNNING"}
         /\ cards[e].status = "RUNNING" => cards[e].title = journal.title
         /\ cards[e].status # "absent" /\ rows[e].status = "absent" => e \in Aged
         /\ cards[e].phase = NoPhase
    /\ journal.op = "update" =>
         /\ cards[e].status = "RUNNING"
         /\ rows[e].status = "absent" => e \in Aged
    /\ journal.op = "finalize" =>
         /\ \/ cards[e].status = "RUNNING"
            \/ cards[e].status = "COMPLETED" /\ cards[e].title = journal.title
         /\ rows[e].status = "absent" => e \in Aged

\* A pending transition is before or after its state file, and touches only
\* its own experiment.
Transition ==
    Pending =>
        /\ journal.exp \in Experiments
        /\ journal.predecessor.exp = IF journal.op = "create" THEN NoExperiment ELSE journal.exp
        /\ \A e \in Experiments \ {journal.exp} :
              Agrees(e) /\ cards[e].status # "RUNNING" /\ rows[e].status # "RUNNING"
        /\ \/ disk = journal.predecessor /\ Halfway(journal.exp)
           \/ disk = Result /\ Authoritative /\ RowDone /\ CardDone
        /\ job.pc \in {"card", "state"} => RowDone
        /\ At("state") => CardDone

\* What the running engine holds in memory.
InMemory ==
    engine = "up" =>
        /\ ~Pending => active = Persisted /\ memory.exp = disk.exp
        /\ Pending /\ disk = Result => active = ActiveAfter
        /\ Pending /\ disk = journal.predecessor =>
              active.exp \in {journal.predecessor.exp, ResultIdentity}
        /\ snapshot = [exp |-> active.exp, phase |-> phase]
        /\ phase = IF active.exp = NoExperiment THEN NoPhase ELSE cards[active.exp].phase

IInv ==
    /\ StateTypes
    /\ Work
    /\ Transition
    /\ StoresAgree
    /\ InMemory
    /\ ArchivedSweepsAreClosed

-----------------------------------------------------------------------------
(* What a transition leads to, and what the ledger sees.                   *)

Running == IF Committed THEN ActiveAfter ELSE Persisted
Ended == {[exp |-> e, title |-> cards[e].title] :
            e \in {x \in Experiments : cards[x].status = "COMPLETED"}}
Archive == Ended \cup IF Committed /\ journal.op = "finalize"
                      THEN {[exp |-> journal.exp, title |-> journal.title]} ELSE {}

Unseen == Running' = Running /\ Archive' = Archive

\* Who a phase reaches.
PhasesStay == \A e \in Experiments : cards'[e].phase = cards[e].phase

\* The result of a transition is a new cut; a replay can tell it from the
\* predecessor (the revision).
LEMMA ResultIsNew ==
    ASSUME StateTypes, Pending, journal.exp \in Experiments
    PROVE  /\ Result \in CutSet /\ Result # journal.predecessor
           /\ Result.exp = ResultIdentity /\ Result.mode = journal.predecessor.mode
           /\ ResultStatus \in {"RUNNING", "COMPLETED"} /\ journal.op \in Transitions
           /\ ActiveAfter \in Titled /\ ActiveAfter.exp = ResultIdentity
<1>1. /\ journal.op \in Transitions /\ journal.title \in Titles /\ journal.predecessor \in CutSet
      /\ journal.predecessor.revision \in Nat
    BY DEF StateTypes, JournalSet, CutSet, Pending
<1>2. Receipt \in ReceiptSet /\ Receipt.revision = journal.predecessor.revision + 1
    BY <1>1 DEF Receipt, ReceiptSet, Identities
<1>3. ResultIdentity \in Identities
    BY DEF ResultIdentity, Identities
<1>4. Result \in CutSet /\ Result.exp = ResultIdentity /\ Result.mode = journal.predecessor.mode
      /\ Result.revision = journal.predecessor.revision + 1
    BY <1>1, <1>2, <1>3 DEF Result, CutSet
<1>5. Result # journal.predecessor
    BY <1>1, <1>4
<1>6. ResultStatus \in {"RUNNING", "COMPLETED"}
    BY DEF ResultStatus
<1>7. NoTitle \in Titles
    BY ExperimentConstants DEF NoTitle
<1>8. ActiveAfter \in Titled /\ ActiveAfter.exp = ResultIdentity
    BY <1>1, <1>7 DEF ActiveAfter, ResultIdentity, Titled, NoInfo, Identities
<1> QED
    BY <1>1, <1>4, <1>5, <1>6, <1>8

\* While a journal stands, what it leads to stands.
LEMMA SameJournal ==
    ASSUME journal' = journal
    PROVE  /\ Result' = Result /\ ResultStatus' = ResultStatus /\ ResultIdentity' = ResultIdentity
           /\ (Authoritative' <=> Authoritative) /\ ActiveAfter' = ActiveAfter
           /\ (Pending' <=> Pending) /\ (Committed' <=> Committed)
BY DEF Result, Receipt, ResultStatus, ResultIdentity, Authoritative, ActiveAfter, Pending, Committed

\* Steps of the locks, of memory and of the process leave the stores, the
\* ledger and what is known of a pending transition alone.
LEMMA StoresUntouched ==
    ASSUME IInv, UNCHANGED durable, job'.pc \in {"card", "state"} => job' = job
    PROVE  Transition' /\ StoresAgree' /\ ArchivedSweepsAreClosed' /\ Unseen
<1>1. UNCHANGED <<rows, cards, disk, journal>>
    BY DEF durable
<1>2. Transition'
    <2>1. \A e : Agrees(e)' <=> Agrees(e)
        BY <1>1 DEF Agrees
    <2>2. \A e : Halfway(e)' <=> Halfway(e)
        BY <1>1 DEF Halfway
    <2>3. (RowDone' <=> RowDone) /\ (CardDone' <=> CardDone)
        BY <1>1, SameJournal DEF RowDone, CardDone
    <2> QED
        BY <1>1, <2>1, <2>2, <2>3, SameJournal DEF IInv, Transition, At
<1>3. StoresAgree'
    BY <1>1, SameJournal DEF IInv, StoresAgree
<1>4. ArchivedSweepsAreClosed'
    BY <1>1 DEF IInv, ArchivedSweepsAreClosed
<1>5. Unseen
    BY <1>1, SameJournal DEF Unseen, Running, Archive, Ended, Persisted
<1> QED
    BY <1>2, <1>3, <1>4, <1>5

\* A command returns, or goes on to its next step.
LEMMA JobsTyped ==
    /\ NoJob \in JobSet /\ NoJob.op = "none" /\ NoJob.pc = "none" /\ ~NoJob.replay
    /\ \A k \in JobSet : \A pc \in {"admit", "row", "card", "state", "unlink"} :
         LET next == [k EXCEPT !.pc = pc]
         IN next \in JobSet /\ next.pc = pc /\ next.op = k.op /\ next.exp = k.exp
            /\ next.replay = k.replay
BY DEF JobSet, NoJob, Identities

-----------------------------------------------------------------------------
(* The steps of a transition.                                              *)

\* Authority: the state file decides where the transition goes on.
LEMMA AuthorityKeeps ==
    ASSUME IInv, Authority
    PROVE  IInv' /\ Unseen
<1>1. /\ At("authority") /\ memory' = disk
      /\ UNCHANGED <<durable, active, phase, snapshot, aside>>
      /\ Pending /\ journal.exp \in Experiments
    BY DEF Authority, IInv, Work, Transition
<1>2. /\ UNCHANGED <<rows, cards, disk, journal, engine, holder, inherited>>
    BY <1>1 DEF durable, aside
<1>3. /\ job' \in JobSet
      /\ \/ job' = [job EXCEPT !.pc = "row"] /\ Authoritative /\ disk = journal.predecessor
         \/ job' = [job EXCEPT !.pc = "unlink"] /\ Authoritative /\ disk = Result
         \/ job' = NoJob
    <2>1. \/ job' = [job EXCEPT !.pc = "row"] /\ Authoritative /\ disk = journal.predecessor
          \/ job' = [job EXCEPT !.pc = "unlink"] /\ Authoritative /\ disk = Result
          \/ job' = NoJob
        BY DEF Authority, Goto, Return
    <2>2. [job EXCEPT !.pc = "row"] \in JobSet /\ [job EXCEPT !.pc = "unlink"] \in JobSet
        BY DEF IInv, StateTypes, JobSet
    <2>3. NoJob \in JobSet
        BY JobsTyped
    <2> QED
        BY <2>1, <2>2, <2>3
<1>4. job'.pc \in {"row", "unlink", "none"}
    BY <1>3 DEF NoJob, IInv, StateTypes, JobSet
<1>5. StateTypes'
    BY <1>1, <1>2, <1>3 DEF IInv, StateTypes
<1>6. Work'
    <2>1. CASE job' = NoJob
        BY <2>1, <1>1, <1>2, SameJournal DEF NoJob, IInv, Work, At, Operations, Transitions, MutationLockFree
    <2>2. CASE job' = [job EXCEPT !.pc = "row"] /\ Authoritative /\ disk = journal.predecessor
        <3>1. job'.pc = "row" /\ job'.op = job.op /\ job'.exp = job.exp /\ job'.replay = job.replay
            BY <2>2 DEF IInv, StateTypes, JobSet
        <3> QED
            BY <2>2, <3>1, <1>1, <1>2, SameJournal DEF IInv, Work, At, MutationLockFree
    <2>3. CASE job' = [job EXCEPT !.pc = "unlink"] /\ Authoritative /\ disk = Result
        <3>1. job'.pc = "unlink" /\ job'.op = job.op /\ job'.exp = job.exp /\ job'.replay = job.replay
            BY <2>3 DEF IInv, StateTypes, JobSet
        <3> QED
            BY <2>3, <3>1, <1>1, <1>2, SameJournal DEF IInv, Work, At, MutationLockFree
    <2> QED
        BY <1>3, <2>1, <2>2, <2>3
<1>7. InMemory'
    BY <1>1, <1>2, SameJournal DEF IInv, InMemory, Persisted
<1>8. Transition' /\ StoresAgree' /\ ArchivedSweepsAreClosed' /\ Unseen
    BY <1>1, <1>4, StoresUntouched
<1> QED
    BY <1>5, <1>6, <1>7, <1>8 DEF IInv

\* WriteRow: the row of the journaled experiment is done.
LEMMA WriteRowKeeps ==
    ASSUME IInv, WriteRow
    PROVE  IInv' /\ Unseen
<1> DEFINE j == journal.exp
<1>1. /\ At("row") /\ RowAccepts
      /\ rows' = [rows EXCEPT ![j] = [status |-> ResultStatus, title |-> journal.title]]
      /\ UNCHANGED <<cards, disk, journal, memory, active, phase, snapshot, engine, holder, inherited>>
    BY DEF WriteRow, truth, aside
<1>2. Pending /\ Authoritative /\ disk = journal.predecessor /\ memory = disk /\ j \in Experiments
    BY <1>1 DEF IInv, Work, Transition, At
<1>3. /\ job' \in JobSet /\ job'.pc = "card" /\ job'.op = job.op /\ job'.exp = job.exp
      /\ job'.replay = job.replay
    BY DEF WriteRow, Goto, IInv, StateTypes, JobSet
<1>4. /\ ResultStatus \in {"RUNNING", "COMPLETED"} /\ journal.op \in Transitions
      /\ disk # Result
    BY <1>2, ResultIsNew DEF IInv
<1>5. /\ rows' \in [Experiments -> RowSet]
      /\ rows'[j] = [status |-> ResultStatus, title |-> journal.title]
      /\ \A e \in Experiments \ {j} : rows'[e] = rows[e]
    BY <1>1, <1>2, <1>4 DEF IInv, StateTypes, RowSet, Statuses, JournalSet
<1>6. StateTypes'
    BY <1>1, <1>3, <1>5 DEF IInv, StateTypes
<1>7. Work'
    BY <1>1, <1>2, <1>3, SameJournal DEF IInv, Work, At, MutationLockFree
<1>8. Transition'
    <2>1. RowDone'
        BY <1>1, <1>5, SameJournal DEF RowDone
    <2>2. Halfway(j)'
        <3>1. Halfway(j)
            BY <1>2, <1>4 DEF IInv, Transition
        <3>2. rows'[j].status = ResultStatus /\ ResultStatus # "absent"
            BY <1>4, <1>5
        <3> QED
            BY <1>1, <1>4, <3>1, <3>2 DEF Halfway, ResultStatus
    <2>3. \A e \in Experiments \ {j} : Agrees(e)' /\ cards'[e].status # "RUNNING" /\ rows'[e].status # "RUNNING"
        BY <1>1, <1>2, <1>5 DEF IInv, Transition, Agrees
    <2>4. journal.predecessor.exp = IF journal.op = "create" THEN NoExperiment ELSE journal.exp
        BY <1>2 DEF IInv, Transition
    <2> QED
        BY <1>1, <1>2, <1>3, <2>1, <2>2, <2>3, <2>4 DEF Transition, At
<1>9. StoresAgree' /\ ArchivedSweepsAreClosed'
    BY <1>1, <1>2, SameJournal DEF IInv, StoresAgree, ArchivedSweepsAreClosed
<1>10. InMemory'
    BY <1>1, <1>2, SameJournal DEF IInv, InMemory
<1>11. Unseen
    BY <1>1, SameJournal DEF Unseen, Running, Archive, Ended, Persisted
<1> QED
    BY <1>6, <1>7, <1>8, <1>9, <1>10, <1>11 DEF IInv

\* WriteCard: the card follows; an archived sweep stays closed.
LEMMA WriteCardKeeps ==
    ASSUME IInv, WriteCard
    PROVE  IInv' /\ Unseen /\ PhasesStay
<1> DEFINE j == journal.exp
<1>1. /\ At("card")
      /\ cards' = [cards EXCEPT ![j].status = ResultStatus, ![j].title = journal.title]
      /\ UNCHANGED <<rows, disk, journal, memory, active, phase, snapshot, engine, holder, inherited>>
    BY DEF WriteCard, truth, aside
<1>2. /\ Pending /\ Authoritative /\ disk = journal.predecessor /\ memory = disk /\ j \in Experiments
      /\ RowDone /\ Halfway(j)
      /\ ResultStatus \in {"RUNNING", "COMPLETED"} /\ journal.op \in Transitions
      /\ disk # Result
    <2>1. Pending /\ Authoritative /\ disk = journal.predecessor /\ memory = disk /\ j \in Experiments
        BY <1>1 DEF IInv, Work, Transition, At
    <2>2. /\ ResultStatus \in {"RUNNING", "COMPLETED"} /\ journal.op \in Transitions
          /\ disk # Result
        BY <2>1, ResultIsNew DEF IInv
    <2> QED
        BY <1>1, <2>1, <2>2 DEF IInv, Transition, At
<1>3. /\ job' \in JobSet /\ job'.pc = "state" /\ job'.op = job.op /\ job'.exp = job.exp
      /\ job'.replay = job.replay
    BY JobsTyped DEF WriteCard, Goto, IInv, StateTypes
<1>4. /\ cards' \in [Experiments -> CardSet]
      /\ cards'[j].status = ResultStatus /\ cards'[j].title = journal.title
      /\ cards'[j].phase = cards[j].phase /\ cards'[j].sweep = cards[j].sweep
      /\ \A e \in Experiments \ {j} : cards'[e] = cards[e]
    <2> DEFINE half == [cards[j] EXCEPT !.status = ResultStatus]
               card == [half EXCEPT !.title = journal.title]
    <2>1. ResultStatus \in Statuses /\ journal.title \in Titles /\ cards[j] \in CardSet
        BY <1>2 DEF IInv, StateTypes, JournalSet, Statuses
    <2>2. /\ half \in CardSet /\ half.status = ResultStatus
          /\ half.phase = cards[j].phase /\ half.sweep = cards[j].sweep
        BY <2>1 DEF CardSet
    <2> HIDE DEF half
    <2>3. /\ card \in CardSet /\ card.status = ResultStatus /\ card.title = journal.title
          /\ card.phase = cards[j].phase /\ card.sweep = cards[j].sweep
        BY <2>1, <2>2 DEF CardSet
    <2>4. /\ DOMAIN cards' = Experiments /\ cards'[j] = card
          /\ \A e \in Experiments \ {j} : cards'[e] = cards[e]
        BY <1>1, <1>2 DEF IInv, StateTypes, half
    <2> HIDE DEF card
    <2>5. cards' \in [Experiments -> CardSet]
        <3>1. cards' = [e \in Experiments |-> cards'[e]]
            BY <1>1, <1>2 DEF IInv, StateTypes
        <3>2. \A e \in Experiments : cards'[e] \in CardSet
            BY <2>3, <2>4 DEF IInv, StateTypes
        <3> QED
            BY <3>1, <3>2
    <2> QED
        BY <2>3, <2>4, <2>5
<1>5. StateTypes'
    BY <1>1, <1>3, <1>4 DEF IInv, StateTypes
<1>6. Work'
    BY <1>1, <1>2, <1>3, SameJournal DEF IInv, Work, At, MutationLockFree
<1>7. Transition'
    <2>1. RowDone' /\ CardDone'
        BY <1>1, <1>2, <1>4, SameJournal DEF RowDone, CardDone
    <2>2. Halfway(j)'
        <3>1. /\ cards'[j].status = IF journal.op = "finalize" THEN "COMPLETED" ELSE "RUNNING"
              /\ cards'[j].title = journal.title /\ cards'[j].phase = cards[j].phase
              /\ UNCHANGED <<rows, journal>>
            BY <1>1, <1>4 DEF ResultStatus
        <3>2. rows[j].status = "absent" => j \in Aged
            BY <1>2 DEF RowDone, ResultStatus
        <3>3. journal.op = "create" => rows[j].status \in {"absent", "RUNNING"} /\ cards[j].phase = NoPhase
            BY <1>2 DEF Halfway
        <3> QED
            BY <3>1, <3>2, <3>3 DEF Halfway
    <2>3. \A e \in Experiments \ {j} : Agrees(e)' /\ cards'[e].status # "RUNNING" /\ rows'[e].status # "RUNNING"
        BY <1>1, <1>2, <1>4 DEF IInv, Transition, Agrees
    <2>4. journal.predecessor.exp = IF journal.op = "create" THEN NoExperiment ELSE journal.exp
        BY <1>2 DEF IInv, Transition
    <2> QED
        BY <1>1, <1>2, <1>3, <2>1, <2>2, <2>3, <2>4 DEF Transition, At
<1>8. StoresAgree'
    BY <1>1, <1>2, SameJournal DEF StoresAgree
<1>9. ArchivedSweepsAreClosed'
    BY <1>1, <1>2, <1>4 DEF IInv, ArchivedSweepsAreClosed, ResultStatus
<1>10. InMemory'
    <2>1. \A e \in Experiments : cards'[e].phase = cards[e].phase
        BY <1>4
    <2>2. engine = "up" => active.exp = NoExperiment \/ active.exp \in Experiments
        BY DEF IInv, StateTypes, Titled, Identities
    <2> QED
        BY <1>1, <1>2, <2>1, <2>2, SameJournal DEF IInv, InMemory
<1>11. Unseen
    <2>1. Committed /\ Committed' /\ Running' = Running
        BY <1>1, <1>2, SameJournal DEF Committed, Running
    <2>2. CASE journal.op = "finalize"
        <3> DEFINE entry == [exp |-> j, title |-> journal.title]
        <3>1. cards[j].status = "COMPLETED" => cards[j].title = journal.title
            BY <1>2, <2>2 DEF Halfway
        <3>2. Ended \subseteq Ended' \cup {entry} /\ Ended' \subseteq Ended \cup {entry}
            <4>1. \A e \in Experiments \ {j} : cards'[e] = cards[e]
                BY <1>4
            <4>2. /\ cards[j].status = "COMPLETED" => [exp |-> j, title |-> cards[j].title] = entry
                  /\ cards'[j].title = journal.title
                BY <1>4, <3>1
            <4> HIDE DEF entry
            <4>3. Ended \subseteq Ended' \cup {entry}
                BY <4>1, <4>2 DEF Ended
            <4>4. Ended' \subseteq Ended \cup {entry}
                BY <4>1, <4>2 DEF Ended, entry
            <4> QED
                BY <4>3, <4>4
        <3>3. Archive = Ended \cup {entry} /\ Archive' = Ended' \cup {entry}
            BY <1>1, <2>1, <2>2 DEF Archive
        <3> QED
            BY <2>1, <3>2, <3>3 DEF Unseen
    <2>3. CASE journal.op # "finalize"
        <3>1. cards[j].status # "COMPLETED" /\ cards'[j].status # "COMPLETED"
            BY <1>2, <1>4, <2>3 DEF Halfway, ResultStatus, Transitions
        <3>2. Ended' = Ended
            BY <1>4, <3>1 DEF Ended
        <3> QED
            BY <1>1, <2>1, <2>3, <3>2 DEF Unseen, Archive
    <2> QED
        BY <2>2, <2>3
<1>12. PhasesStay
    BY <1>4 DEF PhasesStay
<1> QED
    BY <1>5, <1>6, <1>7, <1>8, <1>9, <1>10, <1>11, <1>12 DEF IInv

\* CommitState: memory first, then the state file, which may fail.
LEMMA CommitStateKeeps ==
    ASSUME IInv, CommitState
    PROVE  IInv' /\ Unseen
<1> DEFINE j == journal.exp
<1>1. /\ At("state") /\ active' = ActiveAfter /\ phase' = PhaseAfter
      /\ snapshot' = [exp |-> ActiveAfter.exp, phase |-> PhaseAfter]
      /\ UNCHANGED <<rows, cards, journal, engine, holder, inherited>>
    BY DEF CommitState
<1>2. /\ Pending /\ Authoritative /\ disk = journal.predecessor /\ memory = disk /\ j \in Experiments
      /\ disk # Result /\ Result \in CutSet /\ RowDone /\ CardDone /\ Halfway(j)
      /\ Result.mode = disk.mode /\ journal.op \in Transitions
      /\ ActiveAfter \in Titled /\ ActiveAfter.exp = ResultIdentity
    <2>1. Pending /\ Authoritative /\ disk = journal.predecessor /\ memory = disk /\ j \in Experiments
        BY <1>1 DEF IInv, Work, Transition, At
    <2>2. /\ disk # Result /\ Result \in CutSet /\ Result.mode = disk.mode /\ journal.op \in Transitions
          /\ ActiveAfter \in Titled /\ ActiveAfter.exp = ResultIdentity
        BY <2>1, ResultIsNew DEF IInv
    <2> QED
        BY <1>1, <2>1, <2>2 DEF IInv, Transition, At
<1>3. \/ disk' = Result /\ memory' = Result /\ job' = [job EXCEPT !.pc = "unlink"]
      \/ disk' = disk /\ memory' = [memory EXCEPT !.exp = ActiveAfter.exp] /\ job' = NoJob
    <2>1. [Result EXCEPT !.mode = memory.mode] = Result
        BY <1>2 DEF CutSet
    <2> QED
        BY <2>1 DEF CommitState, Goto, Return
<1>4. job' \in JobSet /\ job'.pc \in {"none", "unlink"}
    <2>1. [job EXCEPT !.pc = "unlink"] \in JobSet /\ [job EXCEPT !.pc = "unlink"].pc = "unlink"
        BY DEF IInv, StateTypes, JobSet
    <2> QED
        BY <1>3, <2>1, JobsTyped
<1>5. PhaseAfter \in Phases \cup {NoPhase}
    BY DEF PhaseAfter, IInv, StateTypes
<1>6. StateTypes'
    <2>1. disk' \in CutSet /\ memory' \in CutSet
        BY <1>2, <1>3 DEF IInv, StateTypes, CutSet, Titled
    <2>2. snapshot' \in [exp : Identities, phase : Phases \cup {NoPhase}]
        BY <1>1, <1>2, <1>5 DEF Titled
    <2> QED
        BY <1>1, <1>2, <1>4, <1>5, <2>1, <2>2 DEF IInv, StateTypes
<1>7. Work'
    <2>1. CASE job' = NoJob
        BY <2>1, <1>1, JobsTyped, SameJournal DEF IInv, Work, At, MutationLockFree, Operations, Transitions
    <2>2. CASE disk' = Result /\ memory' = Result /\ job' = [job EXCEPT !.pc = "unlink"]
        <3>1. job'.pc = "unlink" /\ job'.op = job.op /\ job'.exp = job.exp /\ job'.replay = job.replay
            BY <2>2, JobsTyped DEF IInv, StateTypes
        <3> QED
            BY <2>2, <3>1, <1>1, <1>2, SameJournal DEF IInv, Work, At, MutationLockFree
    <2> QED
        BY <1>3, <2>1, <2>2
<1>8. Transition'
    <2>1. RowDone' /\ CardDone' /\ (Halfway(j) => Halfway(j)')
        BY <1>1, <1>2, SameJournal DEF RowDone, CardDone, Halfway
    <2>2. \A e \in Experiments \ {j} : Agrees(e)' /\ cards'[e].status # "RUNNING" /\ rows'[e].status # "RUNNING"
        BY <1>1, <1>2 DEF IInv, Transition, Agrees
    <2>3. journal.predecessor.exp = IF journal.op = "create" THEN NoExperiment ELSE journal.exp
        BY <1>2 DEF IInv, Transition
    <2>4. (disk' = journal'.predecessor /\ Halfway(j)') \/ (disk' = Result' /\ Authoritative')
        BY <1>1, <1>2, <1>3, <2>1, SameJournal
    <2> QED
        BY <1>1, <1>2, <1>4, <2>1, <2>2, <2>3, <2>4 DEF Transition, At
<1>9. StoresAgree' /\ ArchivedSweepsAreClosed'
    BY <1>1, <1>2, SameJournal DEF IInv, StoresAgree, ArchivedSweepsAreClosed
<1>10. InMemory'
    <2> SUFFICES ASSUME engine = "up" PROVE InMemory'
        BY <1>1 DEF InMemory
    <2>1. PhaseAfter = IF ActiveAfter.exp = NoExperiment THEN NoPhase ELSE cards[ActiveAfter.exp].phase
        <3>1. active.exp \in {journal.predecessor.exp, ResultIdentity}
            BY <1>2 DEF IInv, InMemory
        <3>2. phase = IF active.exp = NoExperiment THEN NoPhase ELSE cards[active.exp].phase
            BY DEF IInv, InMemory
        <3>3. CASE ActiveAfter.exp = active.exp
            BY <3>2, <3>3 DEF PhaseAfter
        <3>4. CASE ActiveAfter.exp # active.exp
            <4>1. PhaseAfter = NoPhase
                BY <3>4 DEF PhaseAfter
            <4>2. journal.op = "create" \/ ResultIdentity = NoExperiment
                BY <3>1, <3>4, <1>2 DEF ResultIdentity, IInv, Transition
            <4>3. journal.op = "create" => cards[j].phase = NoPhase /\ ResultIdentity = j
                BY <1>2 DEF Halfway, ResultIdentity
            <4> QED
                BY <4>1, <4>2, <4>3, <1>2
        <3> QED
            BY <3>3, <3>4
    <2>2. disk' = journal.predecessor => active'.exp \in {journal.predecessor.exp, ResultIdentity}
        BY <1>1, <1>2
    <2> QED
        BY <1>1, <1>2, <2>1, <2>2, SameJournal DEF InMemory
<1>11. Unseen
    BY <1>1, <1>2, SameJournal DEF Unseen, Running, Archive, Ended, Committed
<1> QED
    BY <1>6, <1>7, <1>8, <1>9, <1>10, <1>11 DEF IInv

\* What the state file and a card say of the running experiment.
LEMMA PersistedTyped ==
    ASSUME StateTypes
    PROVE  Persisted \in Titled /\ Persisted.exp = disk.exp
<1>1. disk.exp \in Identities
    BY DEF StateTypes, CutSet
<1>2. NoTitle \in Titles
    BY ExperimentConstants DEF NoTitle
<1>3. CASE disk.exp = NoExperiment
    BY <1>2, <1>3 DEF Persisted, NoInfo, Titled, Identities
<1>4. CASE disk.exp # NoExperiment
    <2>1. disk.exp \in Experiments
        BY <1>1, <1>4 DEF Identities
    <2>2. cards[disk.exp].title \in Titles
        BY <2>1 DEF StateTypes, CardSet
    <2> QED
        BY <1>1, <1>4, <2>2 DEF Persisted, Titled
<1> QED
    BY <1>3, <1>4

\* Unlink: the stores now tell by themselves what the journal told.
LEMMA UnlinkKeeps ==
    ASSUME IInv, Unlink
    PROVE  IInv' /\ Unseen
<1> DEFINE j == journal.exp
<1>1. /\ At("unlink") /\ journal' = NoJournal
      /\ job' = (IF job.replay THEN [job EXCEPT !.pc = "admit", !.replay = FALSE] ELSE NoJob)
      /\ memory' = (IF job.replay THEN disk ELSE memory)
      /\ active' = (IF job.replay /\ disk.exp # NoExperiment THEN Persisted ELSE active)
      /\ UNCHANGED <<rows, cards, disk, phase, snapshot, engine, holder, inherited, faults>>
    BY DEF Unlink, Return, aside
<1>2. /\ Pending /\ disk = Result /\ memory = disk /\ j \in Experiments
      /\ RowDone /\ CardDone /\ Authoritative
      /\ disk.exp = ResultIdentity /\ journal.op \in Transitions /\ ActiveAfter.exp = ResultIdentity
    <2>1. Pending /\ disk = Result /\ memory = disk /\ j \in Experiments
        BY <1>1 DEF IInv, Work, Transition, At
    <2>2. /\ Result # journal.predecessor /\ Result.exp = ResultIdentity /\ journal.op \in Transitions
          /\ ActiveAfter.exp = ResultIdentity
        BY <2>1, ResultIsNew DEF IInv
    <2> QED
        BY <2>1, <2>2 DEF IInv, Transition
<1>3. ~Pending' /\ ~Committed' /\ memory' = disk /\ Persisted' = Persisted
    BY <1>1, <1>2 DEF Pending, Committed, NoJournal, Persisted
<1>4. Persisted = ActiveAfter
    <2>1. NoExperiment \notin Experiments
        BY ExperimentConstants
    <2> QED
        BY <1>2, <2>1 DEF Persisted, ActiveAfter, ResultIdentity, CardDone
<1>5. engine = "up" => active = Persisted /\ active' = active
    BY <1>1, <1>2, <1>4 DEF IInv, InMemory
<1>6. /\ job' \in JobSet /\ job'.pc \in {"none", "admit"} /\ ~job'.replay
      /\ job'.pc = "none" => job' = NoJob
      /\ job'.pc = "admit" => job'.op = job.op /\ job'.exp = job.exp
    <2>1. CASE job.replay
        BY <1>1, <2>1 DEF IInv, StateTypes, JobSet
    <2>2. CASE ~job.replay
        BY <1>1, <2>2, JobsTyped
    <2> QED
        BY <2>1, <2>2
<1>7. StateTypes'
    <2>1. NoJournal \in JournalSet
        <3>1. NoTitle \in Titles
            BY ExperimentConstants DEF NoTitle
        <3>2. NoReceipt \in ReceiptSet
            BY <3>1 DEF NoReceipt, ReceiptSet, Identities
        <3>3. NoCut \in CutSet
            BY <3>2 DEF NoCut, CutSet, Identities
        <3> QED
            BY <3>1, <3>3 DEF NoJournal, JournalSet, Identities
    <2>2. active' \in Titled
        BY <1>1, PersistedTyped DEF IInv, StateTypes
    <2> QED
        BY <1>1, <1>3, <1>6, <2>1, <2>2 DEF IInv, StateTypes
<1>8. Work'
    BY <1>1, <1>2, <1>3, <1>6, JobsTyped DEF IInv, Work, At, MutationLockFree, Operations, Transitions
<1>9. Transition'
    BY <1>3 DEF Transition
<1>10. StoresAgree'
    <2>1. \A e \in Experiments \ {j} :
            /\ Agrees(e) /\ cards[e].status # "RUNNING" /\ rows[e].status # "RUNNING" /\ disk.exp # e
        BY <1>2, ExperimentConstants DEF IInv, Transition, ResultIdentity
    <2>2. /\ cards[j].status = "RUNNING" <=> disk.exp = j
          /\ rows[j].status = "RUNNING" => disk.exp = j
          /\ Agrees(j)
        BY <1>2, ExperimentConstants DEF RowDone, CardDone, ResultStatus, ResultIdentity, Agrees
    <2> QED
        BY <1>1, <2>1, <2>2 DEF StoresAgree, Agrees
<1>11. ArchivedSweepsAreClosed'
    BY <1>1 DEF IInv, ArchivedSweepsAreClosed, NoJournal
<1>12. InMemory'
    BY <1>1, <1>3, <1>5 DEF IInv, InMemory
<1>13. Unseen
    <2>1. Running' = Running
        BY <1>2, <1>3, <1>4 DEF Running, Committed
    <2>2. Ended' = Ended
        BY <1>1 DEF Ended
    <2>3. journal.op = "finalize" => [exp |-> j, title |-> journal.title] \in Ended
        BY <1>2 DEF Ended, CardDone, ResultStatus
    <2>4. Archive = Ended /\ Archive' = Ended'
        BY <1>2, <1>3, <2>3 DEF Archive, Committed
    <2> QED
        BY <2>1, <2>2, <2>4 DEF Unseen
<1> QED
    BY <1>7, <1>8, <1>9, <1>10, <1>11, <1>12, <1>13 DEF IInv

-----------------------------------------------------------------------------
(* Calls, returns, locks and the process.                                  *)

\* StepFails, RowMissing and Refuse: the command returns, all else stands.
LEMMA ReturnKeeps ==
    ASSUME IInv, StepFails \/ RowMissing \/ Refuse
    PROVE  IInv' /\ Unseen
<1>1. job' = NoJob /\ UNCHANGED <<durable, memory, active, phase, snapshot, engine, holder, inherited>>
    BY DEF StepFails, RowMissing, Refuse, Return, truth, aside
<1>2. UNCHANGED <<rows, cards, disk, journal>>
    BY <1>1 DEF durable
<1>3. StateTypes'
    BY <1>1, <1>2, JobsTyped DEF IInv, StateTypes
<1>4. Work'
    BY <1>1, <1>2, JobsTyped, SameJournal DEF IInv, Work, At, MutationLockFree, Operations, Transitions
<1>5. InMemory'
    BY <1>1, <1>2, SameJournal DEF IInv, InMemory, Persisted
<1>6. Transition' /\ StoresAgree' /\ ArchivedSweepsAreClosed' /\ Unseen
    BY <1>1, JobsTyped, StoresUntouched
<1> QED
    BY <1>3, <1>4, <1>5, <1>6 DEF IInv

\* Call: a command takes the locks, and first replays what it finds.
LEMMA CallKeeps ==
    ASSUME IInv, NEW op \in Operations \cup {"mode"}, NEW e \in Identities,
           op # "mode" => e \in Experiments, Call(op, e)
    PROVE  IInv' /\ Unseen
<1>1. /\ engine = "up" /\ At("none")
      /\ job' = [op |-> op, exp |-> e, replay |-> Pending,
                 pc |-> IF Pending THEN "authority" ELSE "admit"]
      /\ UNCHANGED <<durable, memory, active, phase, snapshot, engine, holder, inherited>>
    BY DEF Call, Called, truth, aside
<1>2. UNCHANGED <<rows, cards, disk, journal>>
    BY <1>1 DEF durable
<1>3. /\ job' \in JobSet /\ job'.op = op /\ job'.exp = e /\ (job'.replay <=> Pending)
      /\ job'.pc = IF Pending THEN "authority" ELSE "admit"
    <2>1. Pending \in BOOLEAN
        BY DEF Pending
    <2> QED
        BY <1>1, <2>1 DEF JobSet
<1>4. StateTypes'
    BY <1>1, <1>2, <1>3 DEF IInv, StateTypes
<1>5. Work'
    <2>1. op # "start" /\ (op \in Operations => e \in Experiments)
        BY DEF Operations, Transitions
    <2> QED
        BY <1>1, <1>2, <1>3, <2>1, SameJournal DEF IInv, Work, At, MutationLockFree
<1>6. InMemory'
    BY <1>1, <1>2, SameJournal DEF IInv, InMemory, Persisted
<1>7. Transition' /\ StoresAgree' /\ ArchivedSweepsAreClosed' /\ Unseen
    BY <1>1, <1>3, StoresUntouched
<1> QED
    BY <1>4, <1>5, <1>6, <1>7 DEF IInv

\* Reserve and Release: a log entry holds an identity, no mutation runs.
LEMMA ReservationKeeps ==
    ASSUME IInv, Release \/ \E e \in Experiments : Reserve(e)
    PROVE  IInv' /\ Unseen
<1>1. /\ holder' \in Identities /\ MutationLockFree /\ (engine = "up" \/ holder' = NoExperiment)
      /\ UNCHANGED <<durable, memory, active, phase, snapshot, engine, inherited, job>>
    BY DEF Release, Reserve, truth, Identities
<1>2. UNCHANGED <<rows, cards, disk, journal>>
    BY <1>1 DEF durable
<1>3. StateTypes'
    BY <1>1, <1>2 DEF IInv, StateTypes
<1>4. Work'
    BY <1>1, <1>2, SameJournal DEF IInv, Work, At, MutationLockFree, StateTypes
<1>5. InMemory'
    BY <1>1, <1>2, SameJournal DEF IInv, InMemory, Persisted
<1>6. Transition' /\ StoresAgree' /\ ArchivedSweepsAreClosed' /\ Unseen
    BY <1>1, StoresUntouched
<1> QED
    BY <1>3, <1>4, <1>5, <1>6 DEF IInv

\* Start: a new process reads the state file and replays a journal it finds.
LEMMA StartKeeps ==
    ASSUME IInv, Start
    PROVE  IInv' /\ Unseen
<1>1. /\ engine = "down" /\ At("none")
      /\ job' = [op |-> "start", exp |-> NoExperiment, replay |-> Pending,
                 pc |-> IF Pending THEN "authority" ELSE "admit"]
      /\ memory' = disk /\ active' = NoInfo /\ phase' = NoPhase
      /\ snapshot' = [exp |-> NoExperiment, phase |-> NoPhase]
      /\ UNCHANGED <<durable, engine, holder, inherited>>
    BY DEF Start, Called, aside
<1>2. UNCHANGED <<rows, cards, disk, journal>>
    BY <1>1 DEF durable
<1>3. /\ job' \in JobSet /\ job'.op = "start" /\ (job'.replay <=> Pending)
      /\ job'.pc = IF Pending THEN "authority" ELSE "admit"
    <2>1. Pending \in BOOLEAN
        BY DEF Pending
    <2> QED
        BY <1>1, <2>1 DEF JobSet, Identities
<1>4. NoInfo \in Titled /\ snapshot' \in [exp : Identities, phase : Phases \cup {NoPhase}]
    <2>1. NoTitle \in Titles
        BY ExperimentConstants DEF NoTitle
    <2> QED
        BY <1>1, <2>1 DEF NoInfo, Titled, Identities
<1>5. StateTypes'
    BY <1>1, <1>2, <1>3, <1>4 DEF IInv, StateTypes
<1>6. Work'
    BY <1>1, <1>2, <1>3, SameJournal DEF IInv, Work, At, MutationLockFree, Operations, Transitions
<1>7. InMemory'
    BY <1>1 DEF InMemory
<1>8. Transition' /\ StoresAgree' /\ ArchivedSweepsAreClosed' /\ Unseen
    BY <1>1, <1>3, StoresUntouched
<1> QED
    BY <1>5, <1>6, <1>7, <1>8 DEF IInv

\* Started: the manager is up with what the stores say.
LEMMA StartedKeeps ==
    ASSUME IInv, Started
    PROVE  IInv' /\ Unseen
<1>1. /\ At("admit") /\ job.op = "start" /\ engine' = "up"
      /\ active' = Persisted
      /\ phase' = (IF disk.exp = NoExperiment THEN NoPhase ELSE cards[disk.exp].phase)
      /\ snapshot' = [exp |-> disk.exp, phase |-> phase']
      /\ inherited' = {e \in {disk.exp} \ {NoExperiment} : cards[e].sweep = "RUNNING"}
      /\ job' = NoJob
      /\ UNCHANGED <<durable, memory, holder>>
    BY DEF Started, Return
<1>2. UNCHANGED <<rows, cards, disk, journal>>
    BY <1>1 DEF durable
<1>3. ~Pending /\ memory = disk /\ disk.exp \in Identities
    BY <1>1 DEF IInv, Work, StateTypes, CutSet
<1>4. StateTypes'
    <2>1. phase' \in Phases \cup {NoPhase}
        BY <1>1, <1>3 DEF IInv, StateTypes, CardSet, Identities
    <2>2. inherited' \subseteq Experiments
        BY <1>1, <1>3 DEF Identities
    <2> QED
        BY <1>1, <1>2, <1>3, <2>1, <2>2, JobsTyped, PersistedTyped DEF IInv, StateTypes
<1>5. Work'
    BY <1>1, <1>2, <1>3, JobsTyped, SameJournal DEF IInv, Work, At, MutationLockFree, Operations, Transitions
<1>6. InMemory'
    <2>1. Persisted' = Persisted /\ Persisted.exp = disk.exp
        BY <1>2, PersistedTyped DEF IInv, Persisted
    <2> QED
        BY <1>1, <1>2, <1>3, <2>1, SameJournal DEF InMemory
<1>7. Transition' /\ StoresAgree' /\ ArchivedSweepsAreClosed' /\ Unseen
    BY <1>1, JobsTyped, StoresUntouched
<1> QED
    BY <1>4, <1>5, <1>6, <1>7 DEF IInv

\* Crash: memory and locks are gone, the stores are as they were.
LEMMA CrashKeeps ==
    ASSUME IInv, Crash
    PROVE  IInv' /\ Unseen
<1>1. /\ engine' = "down" /\ memory' = NoCut /\ active' = NoInfo /\ phase' = NoPhase
      /\ snapshot' = [exp |-> NoExperiment, phase |-> NoPhase]
      /\ holder' = NoExperiment /\ inherited' = {} /\ job' = NoJob
      /\ UNCHANGED durable
    BY DEF Crash, Return
<1>2. UNCHANGED <<rows, cards, disk, journal>>
    BY <1>1 DEF durable
<1>3. NoTitle \in Titles
    BY ExperimentConstants DEF NoTitle
<1>4. NoCut \in CutSet
    <2>1. NoReceipt \in ReceiptSet
        BY <1>3 DEF NoReceipt, ReceiptSet, Identities
    <2> QED
        BY <2>1 DEF NoCut, CutSet, Identities
<1>5. NoInfo \in Titled /\ snapshot' \in [exp : Identities, phase : Phases \cup {NoPhase}]
    BY <1>1, <1>3 DEF NoInfo, Titled, Identities
<1>6. StateTypes'
    BY <1>1, <1>2, <1>4, <1>5, JobsTyped DEF IInv, StateTypes, Identities
<1>7. Work'
    BY <1>1, JobsTyped DEF Work, At, MutationLockFree, Operations, Transitions
<1>8. InMemory'
    BY <1>1 DEF InMemory
<1>9. Transition' /\ StoresAgree' /\ ArchivedSweepsAreClosed' /\ Unseen
    BY <1>1, JobsTyped, StoresUntouched
<1> QED
    BY <1>6, <1>7, <1>8, <1>9 DEF IInv

-----------------------------------------------------------------------------
(* The commands.                                                           *)

\* An admitted command finds no transition, and a memory that is true.
LEMMA AdmittedFinds ==
    ASSUME IInv, Admitted, job.op \in Operations \cup {"mode"}
    PROVE  /\ engine = "up" /\ ~Pending /\ ~Committed /\ holder = NoExperiment
           /\ active = Persisted /\ active.exp = disk.exp /\ memory.exp = disk.exp
           /\ job.op # "mode" => job.exp \in Experiments
           /\ journal.op = "none"
<1>1. job.op # "start"
    BY DEF Operations, Transitions
<1>2. /\ engine \in {"down", "up"} /\ At("admit") /\ ~At("none") /\ holder = NoExperiment
    BY DEF Admitted, At, IInv, StateTypes
<1>3. engine = "up" /\ ~Pending
    BY <1>1, <1>2 DEF IInv, Work
<1>4. active = Persisted /\ memory.exp = disk.exp
    BY <1>3 DEF IInv, InMemory
<1>5. active.exp = disk.exp
    BY <1>4, PersistedTyped DEF IInv
<1>6. job.op # "mode" => job.exp \in Experiments
    BY DEF IInv, Work
<1> QED
    BY <1>2, <1>3, <1>4, <1>5, <1>6 DEF Committed, Pending

\* A card that changes in its phase or its sweep tells the same story.
LEMMA CardTouched ==
    ASSUME IInv, ~Pending, UNCHANGED <<rows, disk, journal>>,
           \A e \in Experiments : cards'[e].status = cards[e].status /\ cards'[e].title = cards[e].title
    PROVE  Transition' /\ StoresAgree' /\ Unseen /\ Persisted' = Persisted
<1>1. ~Pending' /\ ~Committed /\ ~Committed'
    BY SameJournal DEF Committed
<1>2. Transition'
    BY <1>1 DEF Transition
<1>3. StoresAgree'
    BY DEF IInv, StoresAgree
<1>4. Persisted' = Persisted
    <2>1. disk.exp # NoExperiment => disk.exp \in Experiments
        BY DEF IInv, StateTypes, CutSet, Identities
    <2> QED
        BY <2>1 DEF Persisted
<1>5. Ended' = Ended
    BY DEF Ended
<1>6. Unseen
    BY <1>1, <1>4, <1>5 DEF Unseen, Running, Archive
<1> QED
    BY <1>2, <1>3, <1>4, <1>6

\* Advance: the card and memory take the same phase.
LEMMA AdvanceKeeps ==
    ASSUME IInv, Advance
    PROVE  /\ IInv' /\ Unseen
           /\ \A e \in Experiments \ {job.exp} : cards'[e].phase = cards[e].phase
<1> DEFINE a == active.exp
<1>1. /\ Admitted /\ job.op = "advance" /\ a = job.exp /\ job' = NoJob
      /\ UNCHANGED <<rows, disk, journal, memory, active, engine, holder, inherited>>
    BY DEF Advance, MayAdvance, Return, Addressed
<1>2. /\ engine = "up" /\ ~Pending /\ active = Persisted /\ memory.exp = disk.exp
      /\ a \in Experiments
    BY <1>1, AdmittedFinds DEF Operations
<1> DEFINE Same == \A e \in Experiments : /\ cards'[e].status = cards[e].status
                                            /\ cards'[e].title = cards[e].title
                                            /\ cards'[e].sweep = cards[e].sweep
<1>3. /\ cards' \in [Experiments -> CardSet]
      /\ Same
      /\ phase' \in Phases \cup {NoPhase} /\ phase' = cards'[a].phase
      /\ snapshot' = [exp |-> a, phase |-> phase']
    <2>1. CASE UNCHANGED <<cards, phase, snapshot>>
        BY <1>2, <2>1, ExperimentConstants DEF IInv, StateTypes, InMemory
    <2>2. CASE /\ phase' \in Phases
               /\ cards' = [cards EXCEPT ![a].phase = phase']
               /\ snapshot' = [exp |-> a, phase |-> phase']
        <3>1. cards \in [Experiments -> CardSet] /\ a \in Experiments
            BY <1>2 DEF IInv, StateTypes
        <3>2. PICK p : p = phase'
            OBVIOUS
        <3> DEFINE c == [cards[a] EXCEPT !.phase = p]
        <3>3. c \in CardSet /\ c.status = cards[a].status /\ c.title = cards[a].title
              /\ c.sweep = cards[a].sweep /\ c.phase = p
            BY <3>1, <3>2, <2>2 DEF CardSet
        <3>4. cards' = [cards EXCEPT ![a] = c]
            BY <2>2, <3>2
        <3> HIDE DEF c
        <3>5. cards' \in [Experiments -> CardSet] /\ cards'[a] = c
              /\ \A e \in Experiments \ {a} : cards'[e] = cards[e]
            BY <3>1, <3>3, <3>4
        <3> QED
            BY <2>2, <3>2, <3>3, <3>5
    <2>3. \/ UNCHANGED <<cards, phase, snapshot>>
          \/ /\ phase' \in Phases
             /\ cards' = [cards EXCEPT ![a].phase = phase']
             /\ snapshot' = [exp |-> a, phase |-> phase']
        BY Zenon DEF Advance
    <2> QED
        BY <2>1, <2>2, <2>3, Zenon
<1>4. StateTypes'
    BY <1>1, <1>2, <1>3, JobsTyped DEF IInv, StateTypes, Identities
<1>5. Work'
    BY <1>1, <1>2, JobsTyped, SameJournal DEF IInv, Work, At, MutationLockFree, Operations, Transitions
<1>6. Transition' /\ StoresAgree' /\ Unseen /\ Persisted' = Persisted
    BY <1>1, <1>2, <1>3, CardTouched
<1>7. ArchivedSweepsAreClosed'
    BY <1>1, <1>3 DEF IInv, ArchivedSweepsAreClosed
<1>8. InMemory'
    BY <1>1, <1>2, <1>3, <1>6, ExperimentConstants, SameJournal DEF IInv, InMemory
<1>9. \A e \in Experiments \ {a} : cards'[e].phase = cards[e].phase
    <2>1. cards \in [Experiments -> CardSet]
        BY DEF IInv, StateTypes
    <2> QED
        BY <2>1, Zenon DEF Advance
<1> QED
    BY <1>1, <1>4, <1>5, <1>6, <1>7, <1>8, <1>9 DEF IInv

\* Attach and Recover: the sweep of the running experiment's card.
LEMMA SweepKeeps ==
    ASSUME IInv, Attach \/ Recover
    PROVE  IInv' /\ Unseen /\ PhasesStay
<1> DEFINE a == active.exp
<1>1. /\ Admitted /\ job.op \in {"attach", "close", "recover"} /\ a = job.exp /\ job' = NoJob
      /\ inherited' \subseteq inherited
      /\ UNCHANGED <<rows, disk, journal, memory, active, phase, snapshot, engine, holder>>
    BY DEF Attach, MayAttach, Recover, MayRecover, Return, Addressed, truth
<1>2. /\ engine = "up" /\ ~Pending /\ active = Persisted /\ memory.exp = disk.exp
      /\ a \in Experiments /\ a = disk.exp
    BY <1>1, AdmittedFinds DEF Operations
<1>3. cards \in [Experiments -> CardSet] /\ NoExperiment \notin Experiments
    BY ExperimentConstants DEF IInv, StateTypes
<1>4. cards[a].status = "RUNNING" /\ cards[a].title = active.title
    BY <1>2, <1>3 DEF IInv, StoresAgree, Persisted
<1>5. \/ UNCHANGED cards
      \/ \E s \in {"RUNNING", "closed"} :
            cards' = [cards EXCEPT ![a] = [status |-> "RUNNING", title |-> active.title,
                                           phase |-> cards[a].phase, sweep |-> s]]
    <2>1. cards[a] \in CardSet
        BY <1>2, <1>3
    <2>2. CASE Attach
        <3>1. ASSUME NEW s PROVE [cards[a] EXCEPT !.status = "RUNNING", !.title = active.title, !.sweep = s]
                                = [status |-> "RUNNING", title |-> active.title,
                                   phase |-> cards[a].phase, sweep |-> s]
            <4> DEFINE one == [cards[a] EXCEPT !.status = "RUNNING"]
                       two == [one EXCEPT !.title = active.title]
                       three == [two EXCEPT !.sweep = s]
            <4>1. one = [status |-> "RUNNING", title |-> cards[a].title,
                         phase |-> cards[a].phase, sweep |-> cards[a].sweep]
                BY <2>1 DEF CardSet
            <4>2. three = [cards[a] EXCEPT !.status = "RUNNING", !.title = active.title, !.sweep = s]
                OBVIOUS
            <4> HIDE DEF one
            <4>3. two = [status |-> "RUNNING", title |-> active.title,
                         phase |-> cards[a].phase, sweep |-> cards[a].sweep]
                BY <4>1
            <4> HIDE DEF two
            <4>4. three = [status |-> "RUNNING", title |-> active.title,
                           phase |-> cards[a].phase, sweep |-> s]
                BY <4>3
            <4> HIDE DEF three
            <4> QED
                BY <4>2, <4>4
        <3>2. \/ UNCHANGED cards
              \/ cards' = [cards EXCEPT ![a] =
                    [cards[a] EXCEPT !.status = "RUNNING", !.title = active.title,
                                     !.sweep = IF job.op = "attach" THEN "RUNNING" ELSE "closed"]]
            <4>1. \/ cards' = [cards EXCEPT ![a] =
                         [@ EXCEPT !.status = "RUNNING", !.title = active.title,
                                   !.sweep = IF job.op = "attach" THEN "RUNNING" ELSE "closed"]]
                  \/ UNCHANGED cards
                BY <2>2, Zenon DEF Attach
            <4> QED
                BY <4>1, <1>2, <1>3
        <3>3. CASE job.op = "attach"
            BY <3>1, <3>2, <3>3
        <3>4. CASE job.op # "attach"
            BY <3>1, <3>2, <3>4
        <3> QED
            BY <3>3, <3>4
    <2>3. CASE Recover
        <3>1. [cards[a] EXCEPT !.sweep = "closed"]
                = [status |-> "RUNNING", title |-> active.title,
                   phase |-> cards[a].phase, sweep |-> "closed"]
            BY <2>1, <1>4 DEF CardSet
        <3> QED
            BY <2>3, <3>1, <1>2, <1>3 DEF Recover
    <2> QED
        BY <2>2, <2>3
<1>6. /\ cards' \in [Experiments -> CardSet]
      /\ \A e \in Experiments : /\ cards'[e].status = cards[e].status /\ cards'[e].title = cards[e].title
                                /\ cards'[e].phase = cards[e].phase
                                /\ e # a => cards'[e] = cards[e]
    <2>1. CASE UNCHANGED cards
        BY <1>3, <2>1
    <2>2. ASSUME NEW s \in {"RUNNING", "closed"},
                 cards' = [cards EXCEPT ![a] = [status |-> "RUNNING", title |-> active.title,
                                                phase |-> cards[a].phase, sweep |-> s]]
          PROVE  <1>6
        <3> DEFINE c == [status |-> "RUNNING", title |-> active.title,
                         phase |-> cards[a].phase, sweep |-> s]
        <3>1. c \in CardSet /\ c.status = "RUNNING" /\ c.title = active.title /\ c.phase = cards[a].phase
            <4>1. cards[a] \in CardSet /\ active \in Titled
                BY <1>2, <1>3 DEF IInv, StateTypes
            <4> QED
                BY <4>1 DEF CardSet, Statuses, Titled
        <3>2. cards' = [cards EXCEPT ![a] = c]
            BY <2>2
        <3> HIDE DEF c
        <3> QED
            BY <1>2, <1>3, <1>4, <3>1, <3>2
    <2> QED
        BY <1>5, <2>1, <2>2
<1>7. StateTypes'
    BY <1>1, <1>6, JobsTyped DEF IInv, StateTypes
<1>8. Work'
    BY <1>1, <1>2, JobsTyped, SameJournal DEF IInv, Work, At, MutationLockFree, Operations, Transitions
<1>9. Transition' /\ StoresAgree' /\ Unseen /\ Persisted' = Persisted
    BY <1>1, <1>2, <1>6, CardTouched
<1>10. ArchivedSweepsAreClosed'
    <2>1. journal'.op = "none"
        BY <1>1, <1>2 DEF Pending
    <2> QED
        BY <1>4, <1>6, <2>1 DEF IInv, ArchivedSweepsAreClosed
<1>11. InMemory'
    BY <1>1, <1>2, <1>6, <1>9, SameJournal DEF IInv, InMemory
<1>12. PhasesStay
    BY <1>6 DEF PhasesStay
<1> QED
    BY <1>7, <1>8, <1>9, <1>10, <1>11, <1>12 DEF IInv

\* ChangeMode: a mode without an experiment to lose.
LEMMA ChangeModeKeeps ==
    ASSUME IInv, ChangeMode
    PROVE  IInv' /\ Unseen
<1>1. /\ Admitted /\ job.op = "mode" /\ job' = NoJob
      /\ \/ /\ disk' = [mode |-> OtherMode, exp |-> memory.exp, revision |-> memory.revision + 1,
                        receipt |-> NoReceipt]
            /\ memory' = disk'
         \/ memory' = [memory EXCEPT !.mode = OtherMode] /\ UNCHANGED disk
      /\ UNCHANGED <<rows, cards, journal, active, phase, snapshot, engine, holder, inherited>>
    BY DEF ChangeMode, MayChangeMode, Return
<1>2. engine = "up" /\ ~Pending /\ active = Persisted /\ memory.exp = disk.exp
    BY <1>1, AdmittedFinds
<1>3. disk' \in CutSet /\ memory' \in CutSet /\ disk'.exp = disk.exp /\ memory'.exp = disk.exp
    <2>1. memory \in CutSet /\ disk \in CutSet /\ OtherMode \in {"experiment", "debug"}
        BY DEF IInv, StateTypes, OtherMode
    <2>2. NoReceipt \in ReceiptSet
        <3>1. NoTitle \in Titles
            BY ExperimentConstants DEF NoTitle
        <3> QED
            BY <3>1 DEF NoReceipt, ReceiptSet, Identities
    <2>3. CASE disk' = [mode |-> OtherMode, exp |-> memory.exp, revision |-> memory.revision + 1,
                        receipt |-> NoReceipt] /\ memory' = disk'
        BY <1>2, <2>1, <2>2, <2>3 DEF CutSet
    <2>4. CASE memory' = [memory EXCEPT !.mode = OtherMode] /\ UNCHANGED disk
        BY <1>2, <2>1, <2>4 DEF CutSet
    <2> QED
        BY <1>1, <2>3, <2>4
<1>4. ~Pending' /\ ~Committed /\ ~Committed' /\ Persisted' = Persisted
    BY <1>1, <1>2, <1>3, SameJournal DEF Committed, Pending, Persisted
<1>5. StateTypes'
    BY <1>1, <1>3, JobsTyped DEF IInv, StateTypes
<1>6. Work'
    BY <1>1, <1>2, <1>4, JobsTyped DEF IInv, Work, At, MutationLockFree, Operations, Transitions
<1>7. Transition' /\ StoresAgree' /\ ArchivedSweepsAreClosed'
    BY <1>1, <1>2, <1>3, <1>4 DEF IInv, Transition, StoresAgree, ArchivedSweepsAreClosed
<1>8. InMemory'
    BY <1>1, <1>2, <1>3, <1>4 DEF IInv, InMemory
<1>9. Unseen
    BY <1>1, <1>4 DEF Unseen, Running, Archive, Ended
<1> QED
    BY <1>5, <1>6, <1>7, <1>8, <1>9 DEF IInv

\* RotateFirstDay: the row of an old day goes, and nothing else knew it.
LEMMA RotationKeeps ==
    ASSUME IInv, NEW e \in Experiments, RotateFirstDay(e)
    PROVE  IInv' /\ Unseen
<1>1. /\ e \in Aged /\ rows' = [rows EXCEPT ![e] = NoRow]
      /\ UNCHANGED <<cards, disk, journal, memory, active, phase, snapshot, engine, holder, inherited, job>>
    BY DEF RotateFirstDay, truth, aside
<1>2. /\ rows' \in [Experiments -> RowSet] /\ rows'[e].status = "absent"
      /\ \A x \in Experiments \ {e} : rows'[x] = rows[x]
    <2>1. NoTitle \in Titles
        BY ExperimentConstants DEF NoTitle
    <2>2. NoRow \in RowSet /\ NoRow.status = "absent"
        BY <2>1 DEF NoRow, RowSet, Statuses
    <2>3. rows \in [Experiments -> RowSet]
        BY DEF IInv, StateTypes
    <2> QED
        BY <1>1, <2>2, <2>3
<1>3. StateTypes'
    BY <1>1, <1>2 DEF IInv, StateTypes
<1>4. Work'
    BY <1>1, SameJournal DEF IInv, Work, At, MutationLockFree
<1>5. \A x \in Experiments : Agrees(x) => Agrees(x)'
    BY <1>1, <1>2 DEF Agrees
<1>6. \A x \in Experiments : rows'[x].status = "RUNNING" => rows[x].status = "RUNNING"
    BY <1>2
<1>7. Transition'
    <2> SUFFICES ASSUME Pending PROVE Transition'
        BY <1>1, SameJournal DEF Transition
    <2>1. journal.exp \in Experiments
        BY DEF IInv, Transition
    <2>2. (RowDone => RowDone') /\ (CardDone => CardDone')
        BY <1>1, <1>2, <2>1, SameJournal DEF RowDone, CardDone
    <2>3. Halfway(journal.exp) => Halfway(journal.exp)'
        BY <1>1, <1>2, <2>1 DEF Halfway
    <2> QED
        BY <1>1, <1>5, <1>6, <2>1, <2>2, <2>3, SameJournal DEF IInv, Transition, At
<1>8. StoresAgree'
    BY <1>1, <1>5, <1>6, SameJournal DEF IInv, StoresAgree, Agrees
<1>9. ArchivedSweepsAreClosed' /\ InMemory'
    BY <1>1, SameJournal DEF IInv, ArchivedSweepsAreClosed, InMemory, Persisted
<1>10. Unseen
    BY <1>1, SameJournal DEF Unseen, Running, Archive, Ended, Persisted
<1> QED
    BY <1>3, <1>4, <1>7, <1>8, <1>9, <1>10 DEF IInv

-----------------------------------------------------------------------------
(* The steps that the ledger sees.                                         *)

EndedAs(e) == \E entry \in Archive : entry.exp = e

Opens(e, t) ==
    /\ Running.exp = NoExperiment /\ ~EndedAs(e)
    /\ Running' = [exp |-> e, title |-> t] /\ Archive' = Archive
Retitles(t) ==
    /\ Running.exp # NoExperiment
    /\ Running' = [Running EXCEPT !.title = t] /\ Archive' = Archive
Closes(t) ==
    /\ Running.exp # NoExperiment
    /\ Archive' = Archive \cup {[Running EXCEPT !.title = t]} /\ Running' = NoInfo
Records(e, t) ==
    /\ ~EndedAs(e) /\ e # Running.exp
    /\ Archive' = Archive \cup {[exp |-> e, title |-> t]} /\ Running' = Running

Seen == \E t \in Titles : \/ Retitles(t) \/ Closes(t)
                          \/ \E e \in Experiments : Opens(e, t) \/ Records(e, t)

\* Each of them is a step of ExperimentLedger, or stutters.
LEMMA MapsToLedger ==
    ASSUME Unseen \/ Seen
    PROVE  [Ledger!Next]_<<Running, Archive>>
<1>1. CASE Unseen
    BY <1>1 DEF Unseen
<1>2. ASSUME NEW t \in Titles, Retitles(t) PROVE Ledger!Retitle(t)
    BY <1>2 DEF Retitles, Ledger!Retitle, Running, Archive, Ended
<1>3. ASSUME NEW t \in Titles, Closes(t) PROVE Ledger!Close(t)
    BY <1>3 DEF Closes, Ledger!Close, Ledger!Nothing, NoInfo, NoTitle, Running, Archive, Ended
<1>4. ASSUME NEW t \in Titles, NEW e \in Experiments, Opens(e, t) PROVE Ledger!Open(e, t)
    BY <1>4 DEF Opens, EndedAs, Ledger!Open, Ledger!Archived, Running, Archive, Ended
<1>5. ASSUME NEW t \in Titles, NEW e \in Experiments, Records(e, t) PROVE Ledger!Record(e, t)
    BY <1>5 DEF Records, EndedAs, Ledger!Record, Ledger!Archived, Running, Archive, Ended
<1> QED
    BY <1>1, <1>2, <1>3, <1>4, <1>5 DEF Seen, Ledger!Next

\* Commit: the journal is the moment the ledger sees, when its predecessor is
\* one a replay accepts.
LEMMA CommitKeeps ==
    ASSUME IInv, Commit
    PROVE  IInv' /\ (Unseen \/ Seen)
<1>0. PICK e : e = job.exp
    OBVIOUS
<1>1. /\ e = job.exp /\ Admitted /\ job.op \in Transitions /\ memory' = disk
      /\ job.op = "create" => /\ active.exp = NoExperiment
                              /\ rows[e] = NoRow /\ cards[e] = NoCard
      /\ job.op # "create" => active.exp = e
      /\ job.op = "finalize" => cards[e].sweep # "RUNNING"
      /\ UNCHANGED <<rows, cards, disk, active, phase, snapshot, engine, holder, inherited>>
    BY <1>0 DEF Commit, MayTransit, Addressed, Transitions
<1>2. /\ engine = "up" /\ ~Pending /\ ~Committed /\ active = Persisted /\ active.exp = disk.exp
      /\ e \in Experiments /\ journal.op = "none" /\ job.op # "none" /\ At("admit") /\ ~job.replay
    <2>1. job.op \in Operations
        BY <1>1 DEF Operations
    <2>2. job.op # "mode" /\ job.op # "none"
        BY <1>1 DEF Transitions
    <2>3. At("admit") /\ ~job.replay
        BY <1>1 DEF Admitted, IInv, Work
    <2> QED
        BY <1>1, <2>1, <2>2, <2>3, AdmittedFinds
<1>3. CASE UNCHANGED journal /\ job' = NoJob
    <2>1. StateTypes'
        BY <1>1, <1>3, JobsTyped DEF IInv, StateTypes
    <2>2. Work'
        BY <1>1, <1>3, JobsTyped, SameJournal DEF IInv, Work, At, MutationLockFree, Operations, Transitions
    <2>3. InMemory'
        BY <1>1, <1>2, <1>3, SameJournal DEF IInv, InMemory, Persisted
    <2>4. Transition' /\ StoresAgree' /\ ArchivedSweepsAreClosed' /\ Unseen
        BY <1>1, <1>3, JobsTyped, StoresUntouched DEF durable
    <2> QED
        BY <2>1, <2>2, <2>3, <2>4 DEF IInv
<1>4. ASSUME NEW t \in Titles, journal' = Journalled(t), job' = [job EXCEPT !.pc = "authority"]
      PROVE  IInv' /\ (Unseen \/ Seen)
    <2>1. /\ journal'.op = job.op /\ journal'.exp = e /\ journal'.title = t
          /\ journal'.predecessor = disk /\ journal' \in JournalSet
        BY <1>1, <1>2, <1>4 DEF Journalled, JournalSet, IInv, StateTypes, Identities
    <2>2. /\ job' \in JobSet /\ job'.pc = "authority" /\ job'.op = job.op /\ job'.exp = e
          /\ ~job'.replay
        BY <1>1, <1>2, <1>4 DEF IInv, StateTypes, JobSet
    <2>3. Pending' /\ NoExperiment \notin Experiments
        BY <1>2, <2>1, ExperimentConstants DEF Pending
    <2>4. StateTypes'
        BY <1>1, <2>1, <2>2 DEF IInv, StateTypes
    <2>5. Work'
        BY <1>1, <1>2, <2>1, <2>2, <2>3 DEF Work, At, MutationLockFree, Admitted, Transitions
    <2>6. Transition'
        <3>1. disk.exp = IF job.op = "create" THEN NoExperiment ELSE e
            BY <1>1, <1>2
        <3>2. \A x \in Experiments \ {e} :
                  Agrees(x)' /\ cards'[x].status # "RUNNING" /\ rows'[x].status # "RUNNING"
            BY <1>1, <1>2, <2>3, <3>1 DEF IInv, StoresAgree, Agrees
        <3>3. Halfway(e)'
            <4>1. CASE job.op = "create"
                <5>1. rows'[e] = NoRow /\ cards'[e] = NoCard
                    BY <1>1, <4>1
                <5>2. rows'[e].status = "absent" /\ cards'[e].status = "absent" /\ cards'[e].phase = NoPhase
                    BY <5>1 DEF NoRow, NoCard
                <5> QED
                    BY <2>1, <4>1, <5>2 DEF Halfway
            <4>2. CASE job.op # "create"
                <5>1. cards[e].status = "RUNNING" /\ (rows[e].status = "absent" => e \in Aged)
                    BY <1>2, <3>1, <4>2 DEF IInv, StoresAgree
                <5> QED
                    BY <1>1, <2>1, <4>2, <5>1 DEF Halfway
            <4> QED
                BY <4>1, <4>2
        <3> QED
            BY <1>1, <1>2, <2>1, <2>2, <3>1, <3>2, <3>3 DEF Transition, At
    <2>7. StoresAgree'
        BY <2>3 DEF StoresAgree
    <2>8. ArchivedSweepsAreClosed'
        BY <1>1, <2>1 DEF IInv, ArchivedSweepsAreClosed
    <2>9. InMemory'
        <3>1. disk' # Result'
            <4>1. StateTypes' /\ Pending' /\ (journal.exp \in Experiments)'
                BY <1>2, <2>1, <2>3, <2>4
            <4>2. (Result # journal.predecessor)'
                BY <4>1, ResultIsNew, PTL
            <4> QED
                BY <1>1, <2>1, <4>2
        <3> QED
            BY <1>1, <1>2, <2>1, <2>3, <3>1 DEF IInv, InMemory
    <2>10. Unseen \/ Seen
        <3>1. Running = Persisted /\ Archive = Ended /\ Ended' = Ended
            BY <1>1, <1>2 DEF Running, Archive, Ended
        <3>2. CASE ~Committed'
            BY <1>1, <3>1, <3>2 DEF Unseen, Running, Archive, Persisted
        <3>3. CASE Committed'
            <4>1. Running' = IF job.op = "finalize" THEN NoInfo ELSE [exp |-> e, title |-> t]
                BY <2>1, <3>3 DEF Running, ActiveAfter
            <4>2. Archive' = Ended \cup IF job.op = "finalize" THEN {[exp |-> e, title |-> t]} ELSE {}
                BY <2>1, <3>1, <3>3 DEF Archive
            <4>3. CASE job.op = "create"
                <5>1. ~EndedAs(e)
                    BY <1>1, <3>1, <4>3 DEF EndedAs, Ended, NoCard
                <5>2. Running.exp = NoExperiment
                    BY <1>1, <1>2, <3>1, <4>3
                <5> QED
                    BY <1>2, <3>1, <4>1, <4>2, <4>3, <5>1, <5>2 DEF Seen, Opens
            <4>4. CASE job.op # "create"
                <5>1. Running.exp = e /\ Running.exp # NoExperiment /\ Running \in Titled
                    BY <1>1, <1>2, <2>3, <3>1, <4>4, PersistedTyped DEF IInv
                <5>2. [Running EXCEPT !.title = t] = [exp |-> e, title |-> t]
                    BY <5>1 DEF Titled
                <5>3. CASE job.op = "update"
                    BY <3>1, <4>1, <4>2, <5>1, <5>2, <5>3 DEF Seen, Retitles
                <5>4. CASE job.op = "finalize"
                    BY <3>1, <4>1, <4>2, <5>1, <5>2, <5>4 DEF Seen, Closes
                <5> QED
                    BY <1>1, <4>4, <5>3, <5>4 DEF Transitions
            <4> QED
                BY <4>3, <4>4
        <3> QED
            BY <3>2, <3>3
    <2> QED
        BY <2>4, <2>5, <2>6, <2>7, <2>8, <2>9, <2>10 DEF IInv
<1> QED
    BY <1>3, <1>4 DEF Commit, Goto, Return

\* Retroactive: an entry of its own, beside whatever runs or is pending.
LEMMA RetroactiveKeeps ==
    ASSUME IInv, NEW e \in Experiments, Retroactive(e)
    PROVE  IInv' /\ (Unseen \/ Seen) /\ PhasesStay
<1> DEFINE entry == [NoCard EXCEPT !.status = "COMPLETED"]
           row == [status |-> "COMPLETED", title |-> NoTitle]
<1>1. /\ engine = "up" /\ At("none")
      /\ rows[e] = NoRow /\ cards[e] = NoCard /\ e # journal.exp
      /\ rows' = [rows EXCEPT ![e] = row]
      /\ cards' = [cards EXCEPT ![e] = entry] \/ UNCHANGED cards
      /\ UNCHANGED <<disk, journal, memory, active, phase, snapshot, engine, holder, inherited, job>>
    BY DEF Retroactive, truth
<1>2. NoTitle \in Titles
    BY ExperimentConstants DEF NoTitle
<1>3. /\ entry \in CardSet /\ entry.status = "COMPLETED" /\ entry.title = NoTitle
      /\ entry.phase = NoCard.phase /\ entry.sweep = "none"
    BY <1>2 DEF NoCard, CardSet, Statuses
<1>4. row \in RowSet
    BY <1>2 DEF RowSet, Statuses
<1> HIDE DEF entry
<1>5. /\ rows' \in [Experiments -> RowSet] /\ rows'[e] = row
      /\ \A x \in Experiments \ {e} : rows'[x] = rows[x]
    BY <1>1, <1>4 DEF IInv, StateTypes
<1>6. /\ cards' \in [Experiments -> CardSet]
      /\ cards'[e] = entry \/ cards' = cards
      /\ \A x \in Experiments \ {e} : cards'[x] = cards[x]
    BY <1>1, <1>3 DEF IInv, StateTypes
<1>7. \A x \in Experiments : /\ cards'[x].title = cards[x].title /\ cards'[x].phase = cards[x].phase
                             /\ cards'[x].sweep = "RUNNING" => cards[x] = cards'[x]
    BY <1>1, <1>3, <1>6 DEF NoCard
<1>8. Agrees(e)' /\ cards'[e].status # "RUNNING" /\ rows'[e].status # "RUNNING"
    BY <1>1, <1>3, <1>5, <1>6 DEF Agrees, NoCard
<1>9. disk.exp # e /\ Running.exp # e
    <2>1. NoExperiment \notin Experiments
        BY ExperimentConstants
    <2>2. CASE ~Pending
        <3>1. disk.exp # e
            <4>1. cards[e].status = "absent"
                BY <1>1 DEF NoCard
            <4> QED
                BY <2>2, <4>1 DEF IInv, StoresAgree
        <3> QED
            BY <2>2, <3>1, PersistedTyped DEF IInv, Running, Committed
    <2>3. CASE Pending
        <3>1. journal.exp \in Experiments /\ journal.predecessor.exp \in {NoExperiment, journal.exp}
              /\ disk \in {journal.predecessor, Result}
            BY <2>3 DEF IInv, Transition
        <3>2. Result.exp = ResultIdentity /\ ActiveAfter.exp = ResultIdentity
            BY <2>3, <3>1, ResultIsNew DEF IInv
        <3>3. ResultIdentity \in {NoExperiment, journal.exp}
            BY DEF ResultIdentity
        <3> QED
            BY <1>1, <2>1, <3>1, <3>2, <3>3, PersistedTyped DEF IInv, Running
    <2> QED
        BY <2>2, <2>3
<1>10. StateTypes'
    BY <1>1, <1>5, <1>6 DEF IInv, StateTypes
<1>11. Work'
    BY <1>1, SameJournal DEF IInv, Work, At, MutationLockFree
<1>12. Transition'
    <2> SUFFICES ASSUME Pending PROVE Transition'
        BY <1>1, SameJournal DEF Transition
    <2>1. journal.exp \in Experiments \ {e}
        BY <1>1 DEF IInv, Transition
    <2>2. /\ rows'[journal.exp] = rows[journal.exp] /\ cards'[journal.exp] = cards[journal.exp]
        BY <1>5, <1>6, <2>1
    <2>3. (RowDone' <=> RowDone) /\ (CardDone' <=> CardDone)
        BY <1>1, <2>2, SameJournal DEF RowDone, CardDone
    <2>4. Halfway(journal.exp) => Halfway(journal.exp)'
        BY <1>1, <2>2 DEF Halfway
    <2>5. \A x \in Experiments \ {journal.exp} :
              Agrees(x)' /\ cards'[x].status # "RUNNING" /\ rows'[x].status # "RUNNING"
        BY <1>5, <1>6, <1>8 DEF IInv, Transition, Agrees
    <2> QED
        BY <1>1, <2>1, <2>3, <2>4, <2>5, SameJournal DEF IInv, Transition, At
<1>13. StoresAgree'
    <2> SUFFICES ASSUME ~Pending, NEW x \in Experiments
                 PROVE  /\ cards'[x].status = "RUNNING" <=> disk.exp = x
                        /\ rows'[x].status = "RUNNING" => disk.exp = x
                        /\ Agrees(x)'
        BY <1>1, SameJournal DEF StoresAgree, Agrees
    <2>1. CASE x = e
        BY <1>8, <1>9, <2>1
    <2>2. CASE x # e
        <3>1. rows'[x] = rows[x] /\ cards'[x] = cards[x]
            BY <1>5, <1>6, <2>2
        <3>2. /\ cards[x].status = "RUNNING" <=> disk.exp = x
              /\ rows[x].status = "RUNNING" => disk.exp = x
              /\ Agrees(x)
            BY DEF IInv, StoresAgree, Agrees
        <3>3. Agrees(x)'
            BY <3>1, <3>2 DEF Agrees
        <3> QED
            BY <3>1, <3>2, <3>3
    <2> QED
        BY <2>1, <2>2
<1>14. ArchivedSweepsAreClosed'
    BY <1>1, <1>7 DEF IInv, ArchivedSweepsAreClosed
<1>15. Persisted' = Persisted
    <2>1. disk.exp # NoExperiment => disk.exp \in Experiments
        BY DEF IInv, StateTypes, CutSet, Identities
    <2> QED
        BY <1>1, <1>7, <2>1 DEF Persisted
<1>16. InMemory'
    <2>1. active.exp # NoExperiment => active.exp \in Experiments
        BY DEF IInv, StateTypes, Titled, Identities
    <2> QED
        BY <1>1, <1>7, <1>15, <2>1, SameJournal DEF IInv, InMemory
<1>17. Unseen \/ Seen
    <2>1. Running' = Running
        BY <1>1, <1>15, SameJournal DEF Running
    <2>2. CASE UNCHANGED cards
        BY <1>1, <2>1, <2>2, SameJournal DEF Unseen, Archive, Ended
    <2>3. CASE cards'[e] = entry
        <3>1. ~EndedAs(e)
            BY <1>1 DEF EndedAs, Archive, Ended, NoCard
        <3>2. Ended' = Ended \cup {[exp |-> e, title |-> NoTitle]}
            <4>1. \A x \in Experiments : cards'[x].status = "COMPLETED" <=> x = e \/ cards[x].status = "COMPLETED"
                BY <1>3, <1>6, <2>3
            <4>2. cards'[e].title = NoTitle
                BY <1>3, <2>3
            <4> QED
                BY <1>7, <4>1, <4>2 DEF Ended
        <3>3. Archive' = Archive \cup {[exp |-> e, title |-> NoTitle]}
            BY <1>1, <3>2, SameJournal DEF Archive
        <3> QED
            BY <1>2, <1>9, <2>1, <3>1, <3>3 DEF Seen, Records
    <2> QED
        BY <1>6, <2>2, <2>3
<1>18. PhasesStay
    BY <1>7 DEF PhasesStay
<1> QED
    BY <1>10, <1>11, <1>12, <1>13, <1>14, <1>16, <1>17, <1>18 DEF IInv

-----------------------------------------------------------------------------
(* The invariant and the refinement.                                       *)

\* A data directory without an experiment.
LEMMA InitIInv == Init => IInv /\ Ledger!Init
<1> SUFFICES ASSUME Init PROVE IInv /\ Ledger!Init
    OBVIOUS
<1>1. NoTitle \in Titles /\ NoExperiment \notin Experiments
    BY ExperimentConstants DEF NoTitle
<1>2. NoRow \in RowSet /\ NoCard \in CardSet /\ NoInfo \in Titled
    BY <1>1 DEF NoRow, NoCard, RowSet, CardSet, Statuses, NoInfo, Titled, Identities
<1>3. NoCut \in CutSet
    <2>1. NoReceipt \in ReceiptSet
        BY <1>1 DEF NoReceipt, ReceiptSet, Identities
    <2> QED
        BY <2>1 DEF NoCut, CutSet, Identities
<1>4. NoJournal \in JournalSet
    BY <1>1, <1>3 DEF NoJournal, JournalSet, Identities
<1>5. StateTypes
    BY <1>2, <1>3, <1>4, JobsTyped DEF Init, StateTypes, Identities
<1>6. ~Pending /\ ~Committed /\ disk.exp = NoExperiment
    BY DEF Init, Pending, Committed, NoJournal, NoCut
<1>7. Work
    BY <1>6, JobsTyped DEF Init, Work, At, MutationLockFree, Operations, Transitions
<1>8. Transition /\ InMemory
    BY <1>6 DEF Init, Transition, InMemory
<1>9. StoresAgree /\ ArchivedSweepsAreClosed
    BY <1>1, <1>6 DEF Init, StoresAgree, ArchivedSweepsAreClosed, NoRow, NoCard
<1>10. Ledger!Init
    <2>1. Running = NoInfo
        BY <1>6 DEF Running, Persisted
    <2>2. Archive = {}
        BY <1>6 DEF Init, Archive, Ended, NoCard
    <2> QED
        BY <2>1, <2>2 DEF Ledger!Init, Ledger!Nothing, NoInfo, NoTitle, Running, Archive, Ended
<1> QED
    BY <1>5, <1>7, <1>8, <1>9, <1>10 DEF IInv

\* Every step keeps the invariant, and is a step of the ledger or none.
LEMMA NextIInv == IInv /\ [Next]_vars => IInv' /\ [Ledger!Next]_<<Running, Archive>>
<1> SUFFICES ASSUME IInv, [Next]_vars PROVE IInv' /\ (Unseen \/ Seen)
    BY MapsToLedger
<1>1. CASE Authority
    BY <1>1, AuthorityKeeps
<1>2. CASE WriteRow
    BY <1>2, WriteRowKeeps
<1>3. CASE WriteCard
    BY <1>3, WriteCardKeeps
<1>4. CASE CommitState
    BY <1>4, CommitStateKeeps
<1>5. CASE Unlink
    BY <1>5, UnlinkKeeps
<1>6. CASE StepFails \/ RowMissing \/ Refuse
    BY <1>6, ReturnKeeps
<1>7. CASE Commit
    BY <1>7, CommitKeeps
<1>8. CASE Advance
    BY <1>8, AdvanceKeeps
<1>9. CASE Attach \/ Recover
    BY <1>9, SweepKeeps
<1>10. CASE ChangeMode
    BY <1>10, ChangeModeKeeps
<1>11. CASE Call("mode", NoExperiment)
    BY <1>11, CallKeeps DEF Identities
<1>12. ASSUME NEW op \in Operations, NEW e \in Experiments, Call(op, e)
       PROVE  IInv' /\ Unseen
    BY <1>12, CallKeeps DEF Identities
<1>13. CASE Start
    BY <1>13, StartKeeps
<1>14. CASE Started
    BY <1>14, StartedKeeps
<1>15. CASE Crash
    BY <1>15, CrashKeeps
<1>16. CASE Release \/ \E e \in Experiments : Reserve(e)
    BY <1>16, ReservationKeeps
<1>17. ASSUME NEW e \in Experiments, RotateFirstDay(e)
       PROVE  IInv' /\ Unseen
    BY <1>17, RotationKeeps
<1>18. ASSUME NEW e \in Experiments, Retroactive(e)
       PROVE  IInv' /\ (Unseen \/ Seen)
    BY <1>18, RetroactiveKeeps
<1>19. CASE UNCHANGED vars
    <2>1. UNCHANGED <<durable, memory, active, phase, snapshot, engine, holder, inherited, job>>
        BY <1>19 DEF vars, truth, aside
    <2>2. UNCHANGED <<rows, cards, disk, journal>>
        BY <2>1 DEF durable
    <2>3. StateTypes' /\ Work' /\ InMemory'
        BY <2>1, <2>2, SameJournal
           DEF IInv, StateTypes, Work, InMemory, At, MutationLockFree, Persisted
    <2> QED
        BY <2>1, <2>3, StoresUntouched DEF IInv
<1> QED
    BY <1>1, <1>2, <1>3, <1>4, <1>5, <1>6, <1>7, <1>8, <1>9, <1>10, <1>11, <1>12, <1>13, <1>14,
       <1>15, <1>16, <1>17, <1>18, <1>19 DEF Next, Step, Body

\* Whatever is called, fails, crashes or is rotated, the invariant holds.
THEOREM LifecycleInvariant == Spec => []IInv
<1>1. Init => IInv
    BY InitIInv
<1>2. IInv /\ [Next]_vars => IInv'
    BY NextIInv
<1> QED
    BY <1>1, <1>2, PTL DEF Spec

\* Between transitions the stores, the manager's memory, the snapshot and the
\* autosweeps tell one story (_apply_transition, _set_active,
\* _refresh_operator_snapshot, finalize_experiment).
THEOREM LifecycleIsConsistent == Spec => []LifecycleConsistent
<1>1. IInv => LifecycleConsistent
    <2> SUFFICES ASSUME IInv PROVE ActiveIsDurable /\ SnapshotAgrees
        BY DEF IInv, LifecycleConsistent
    <2>1. ActiveIsDurable
        BY DEF IInv, InMemory, ActiveIsDurable
    <2>2. SnapshotAgrees
        BY DEF IInv, InMemory, SnapshotAgrees
    <2> QED
        BY <2>1, <2>2
<1> QED
    BY <1>1, LifecycleInvariant, PTL

\* The lifecycle is atomic at the journal: an experiment opens, changes its
\* title and ends in one step each, and stays as it ended, through failed
\* writes, crashes, replays and rotation (_commit_transition,
\* _recover_transition).
THEOREM ManagerImplementsLedger == Spec => ImplementsLedger
<1>1. Init => IInv /\ Ledger!Init
    BY InitIInv
<1>2. IInv /\ [Next]_vars => IInv' /\ [Ledger!Next]_<<Running, Archive>>
    BY NextIInv
<1> QED
    BY <1>1, <1>2, PTL DEF Spec, ImplementsLedger, Ledger!Spec, Ledger!ledger, Running, Archive, Ended

\* A command changes the experiment it was admitted for and no other: the
\* identity a log entry holds changes only in a replay, a phase reaches only
\* the experiment its command named (experiment_cas,
\* _serialized_lifecycle_mutation, advance_phase).
THEOREM CommandsStayTheirOwn == Spec => CommandsStayBound
<1> DEFINE Held == holder # NoExperiment /\ holder' = holder /\ active'.exp # active.exp => job.replay
           Own == \A e \in Experiments : cards'[e].phase # cards[e].phase =>
                                            job.op = "advance" /\ job.exp = e
<1>1. IInv /\ [Next]_vars => [Held]_vars
    <2> SUFFICES ASSUME IInv, Next PROVE Held
        OBVIOUS
    <2>1. CASE CommitState
        BY <2>1 DEF CommitState, IInv, Work, MutationLockFree, At
    <2>2. CASE Unlink
        BY <2>2 DEF Unlink
    <2>3. CASE Start
        BY <2>3 DEF Start, IInv, Work
    <2>4. CASE Started
        BY <2>4 DEF Started, IInv, StateTypes, Work
    <2>5. CASE Crash
        BY <2>5 DEF Crash
    <2>6. ASSUME ~CommitState, ~Unlink, ~Start, ~Started, ~Crash
          PROVE  active' = active
        <3>1. CASE Step
            BY <2>6, <3>1 DEF Step, Authority, WriteRow, WriteCard, StepFails, RowMissing, truth
        <3>2. CASE Body
            BY <3>2 DEF Body, Commit, Advance, Attach, Recover, ChangeMode, Refuse, truth
        <3>3. CASE Release \/ \E e \in Experiments : Reserve(e) \/ RotateFirstDay(e) \/ Retroactive(e)
            BY <3>3 DEF Release, Reserve, RotateFirstDay, Retroactive, truth
        <3>4. ASSUME NEW op, NEW e, Call(op, e) PROVE active' = active
            BY <3>4 DEF Call, truth
        <3> QED
            BY <2>6, <3>1, <3>2, <3>3, <3>4 DEF Next
    <2> QED
        BY <2>1, <2>2, <2>3, <2>4, <2>5, <2>6
<1>2. IInv /\ [Next]_vars => [Own]_vars
    <2> SUFFICES ASSUME IInv, Next PROVE Own
        OBVIOUS
    <2>1. CASE WriteCard
        BY <2>1, WriteCardKeeps DEF PhasesStay
    <2>2. CASE Attach \/ Recover
        BY <2>2, SweepKeeps DEF PhasesStay
    <2>3. ASSUME NEW e \in Experiments, Retroactive(e) PROVE Own
        BY <2>3, RetroactiveKeeps DEF PhasesStay
    <2>4. CASE Advance
        <3>1. job.op = "advance"
            BY <2>4 DEF Advance, MayAdvance
        <3> QED
            BY <2>4, <3>1, AdvanceKeeps
    <2>5. ASSUME ~WriteCard, ~(Attach \/ Recover), \A e \in Experiments : ~Retroactive(e), ~Advance
          PROVE  cards' = cards
        <3>1. CASE Step
            BY <2>5, <3>1 DEF Step, Authority, WriteRow, CommitState, Unlink, StepFails, RowMissing, durable
        <3>2. CASE Body
            BY <2>5, <3>2 DEF Body, Commit, ChangeMode, Refuse, durable
        <3>3. CASE Start \/ Started \/ Crash \/ Release \/ \E e \in Experiments : Reserve(e) \/ RotateFirstDay(e)
            BY <3>3 DEF Start, Started, Crash, Release, Reserve, RotateFirstDay, durable
        <3>4. ASSUME NEW op, NEW e, Call(op, e) PROVE cards' = cards
            BY <3>4 DEF Call, durable
        <3> QED
            BY <2>5, <3>1, <3>2, <3>3, <3>4 DEF Next
    <2> QED
        BY <2>1, <2>2, <2>3, <2>4, <2>5
<1> QED
    BY <1>1, <1>2, LifecycleInvariant, PTL
       DEF Spec, CommandsStayBound, ReservedIdentityHolds, PhaseStaysWithItsExperiment


-----------------------------------------------------------------------------
(* The bounds.                                                             *)

Capped(cut) == cut.revision <= MaxRevision /\ cut.receipt.revision <= MaxRevision

\* A journal is written only below the bound, so its result is within it.
Bounded ==
    /\ faults \in 0..MaxFaults
    /\ Capped(disk) /\ Capped(memory) /\ Capped(journal.predecessor)
    /\ Pending => journal.predecessor.revision < MaxRevision

\* The journaled transition counts one revision from its predecessor.
LEMMA ResultIsCapped ==
    ASSUME StateTypes, Bounded, Pending
    PROVE  /\ Capped(Result)
           /\ \A mode : Capped([Result EXCEPT !.mode = mode])
<1>1. journal.predecessor.revision \in Nat /\ MaxRevision \in Nat
    BY ExperimentConstants DEF StateTypes, JournalSet, CutSet
<1>2. journal.predecessor.revision + 1 <= MaxRevision
    BY <1>1 DEF Bounded
<1>3. Result.revision <= MaxRevision /\ Result.receipt.revision <= MaxRevision
    BY <1>2 DEF Result, Receipt
<1>4. \A mode : [Result EXCEPT !.mode = mode].revision = Result.revision
                /\ [Result EXCEPT !.mode = mode].receipt = Result.receipt
    BY DEF Result
<1> QED
    BY <1>3, <1>4 DEF Capped

\* A fault is counted, and no more than MaxFaults are.
LEMMA FaultsAreCounted ==
    ASSUME Bounded, Fault \/ NoFault
    PROVE  faults' \in 0..MaxFaults
BY ExperimentConstants DEF Bounded, Fault, NoFault

\* Every other writer of the state file, of memory or of the journal copies a
\* cut that is there, or counts one revision from one below the bound.
LEMMA BoundsKept ==
    ASSUME IInv, Bounded, [Next]_vars
    PROVE  Bounded'
<1> USE DEF IInv
<1>1. faults' \in 0..MaxFaults
    <2>1. Fault \/ NoFault
        BY DEF Next, Step, Body, Authority, WriteRow, WriteCard, CommitState, Unlink, StepFails, RowMissing,
               Commit, Advance, Attach, Recover, ChangeMode, Refuse, Call, Start, Started, Crash, Release,
               Reserve, RotateFirstDay, Retroactive, aside, vars, NoFault
    <2> QED
        BY <2>1, FaultsAreCounted
<1>2. Capped(NoCut)
    BY ExperimentConstants DEF Capped, NoCut, NoReceipt
<1>3. CASE CommitState
    <2>1. Pending
        BY <1>3 DEF CommitState, At, Work
    <2>2. /\ UNCHANGED journal
          /\ disk' \in {disk, [Result EXCEPT !.mode = memory.mode]}
          /\ memory' = disk' \/ memory' = [memory EXCEPT !.exp = ActiveAfter.exp]
        BY <1>3 DEF CommitState
    <2>3. Capped(disk')
        BY <2>1, <2>2, ResultIsCapped DEF Bounded
    <2>4. Capped(memory')
        BY <2>2, <2>3 DEF Bounded, Capped, StateTypes, CutSet
    <2> QED
        BY <1>1, <2>2, <2>3, <2>4 DEF Bounded, Pending
<1>4. CASE ChangeMode
    <2>1. memory.revision + 1 <= MaxRevision
        <3>1. memory.revision \in Nat /\ MaxRevision \in Nat /\ memory.revision < MaxRevision
            BY <1>4, ExperimentConstants DEF ChangeMode, StateTypes, CutSet
        <3> QED
            BY <3>1
    <2>2. UNCHANGED journal
        BY <1>4 DEF ChangeMode
    <2>3. CASE memory' = disk' /\ disk' = [mode |-> OtherMode, exp |-> memory.exp,
                                           revision |-> memory.revision + 1, receipt |-> NoReceipt]
        <3>1. Capped(disk')
            BY <2>1, <2>3, ExperimentConstants DEF Capped, NoReceipt
        <3> QED
            BY <1>1, <2>2, <2>3, <3>1 DEF Bounded, Pending
    <2>4. CASE memory' = [memory EXCEPT !.mode = OtherMode] /\ UNCHANGED disk
        <3>1. Capped(memory')
            BY <2>4 DEF Bounded, Capped, StateTypes, CutSet
        <3> QED
            BY <1>1, <2>2, <2>4, <3>1 DEF Bounded, Pending
    <2> QED
        BY <1>4, <2>3, <2>4 DEF ChangeMode
<1>5. CASE Commit
    <2>1. UNCHANGED disk /\ memory' = disk /\ disk.revision < MaxRevision
        BY <1>5 DEF Commit
    <2>2. journal' = journal \/ journal'.predecessor = disk
        BY <1>5 DEF Commit, Journalled
    <2> QED
        BY <1>1, <2>1, <2>2 DEF Bounded, Pending
<1>6. CASE Unlink
    <2>1. journal' = NoJournal /\ UNCHANGED disk /\ memory' \in {disk, memory}
        BY <1>6 DEF Unlink
    <2>2. journal'.predecessor = NoCut /\ ~Pending'
        BY <2>1 DEF NoJournal, Pending
    <2> QED
        BY <1>1, <1>2, <2>1, <2>2 DEF Bounded
<1>7. CASE UNCHANGED <<disk, journal>> /\ memory' \in {memory, disk, NoCut}
    BY <1>1, <1>2, <1>7 DEF Bounded, Pending
<1>8. CommitState \/ ChangeMode \/ Commit \/ Unlink
      \/ (UNCHANGED <<disk, journal>> /\ memory' \in {memory, disk, NoCut})
    BY DEF Next, Step, Body, Authority, WriteRow, WriteCard, StepFails, RowMissing, Advance, Attach, Recover,
           Refuse, Call, Start, Started, Crash, Release, Reserve, RotateFirstDay, Retroactive, durable, truth,
           vars
<1> QED
    BY <1>3, <1>4, <1>5, <1>6, <1>7, <1>8

\* The stores, the memory and the running command keep their types through
\* every failed write and crash, within the bounds of the model.
THEOREM ManagerKeepsTypes == Spec => []TypeOK
<1>1. Init => Bounded
    <2> SUFFICES ASSUME Init PROVE Bounded
        OBVIOUS
    <2>1. faults \in 0..MaxFaults /\ disk = NoCut /\ memory = NoCut /\ journal.predecessor = NoCut
          /\ journal.op = "none"
        BY ExperimentConstants DEF Init, NoJournal
    <2>2. Capped(NoCut)
        BY ExperimentConstants DEF Capped, NoCut, NoReceipt
    <2> QED
        BY <2>1, <2>2 DEF Bounded, Pending
<1>2. \A cut \in CutSet : Capped(cut) => cut \in Cuts
    <2> SUFFICES ASSUME NEW cut \in CutSet, Capped(cut) PROVE cut \in Cuts
        OBVIOUS
    <2>1. cut.revision \in 0..MaxRevision /\ cut.receipt.revision \in 0..MaxRevision
        BY ExperimentConstants DEF CutSet, ReceiptSet, Capped
    <2>2. cut.receipt \in Receipts
        BY <2>1 DEF CutSet, ReceiptSet, Receipts
    <2> QED
        BY <2>1, <2>2 DEF CutSet, Cuts
<1>3. IInv /\ Bounded => TypeOK
    <2> SUFFICES ASSUME StateTypes, Bounded PROVE TypeOK
        BY DEF IInv
    <2>1. disk \in Cuts /\ memory \in Cuts
        BY <1>2 DEF StateTypes, Bounded
    <2>2. journal.predecessor \in Cuts
        BY <1>2 DEF StateTypes, Bounded, JournalSet
    <2>3. journal \in [op : Transitions \cup {"none"}, exp : Identities, title : Titles, predecessor : Cuts]
        BY <2>2 DEF StateTypes, JournalSet
    <2>4. job.pc \in {"none", "admit", "authority", "row", "card", "state", "unlink"}
        BY DEF StateTypes, JobSet
    <2> QED
        BY <2>1, <2>3, <2>4 DEF StateTypes, Bounded, TypeOK, RowSet, CardSet, Titled
<1> QED
    BY <1>1, <1>3, BoundsKept, LifecycleInvariant, PTL DEF Spec
=============================================================================

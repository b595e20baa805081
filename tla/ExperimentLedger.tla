-------------------------- MODULE ExperimentLedger --------------------------
(***************************************************************************)
(* What the experiment manager promises, stores and failures left out: at  *)
(* most one experiment runs, it takes its title and its end in one step,   *)
(* and an ended experiment stays as it ended.                              *)
(***************************************************************************)
CONSTANTS Experiments, Titles, NoExperiment

VARIABLES
    running,   \* the running experiment and its title
    archive    \* ended experiments and the title each ended with

ledger == <<running, archive>>

Nothing == [exp |-> NoExperiment, title |-> CHOOSE t \in Titles : TRUE]
Archived == {entry.exp : entry \in archive}

Init == running = Nothing /\ archive = {}

\* create_experiment: only when nothing runs, under an unused identity.
Open(e, t) ==
    /\ running.exp = NoExperiment
    /\ e \notin Archived
    /\ running' = [exp |-> e, title |-> t]
    /\ UNCHANGED archive

\* update_experiment.
Retitle(t) ==
    /\ running.exp # NoExperiment
    /\ running' = [running EXCEPT !.title = t]
    /\ UNCHANGED archive

\* finalize_experiment and abort_experiment, with a last change of title.
Close(t) ==
    /\ running.exp # NoExperiment
    /\ archive' = archive \cup {[running EXCEPT !.title = t]}
    /\ running' = Nothing

\* create_retroactive_experiment: ended from the start.
Record(e, t) ==
    /\ e \notin Archived \cup {running.exp}
    /\ archive' = archive \cup {[exp |-> e, title |-> t]}
    /\ UNCHANGED running

Next ==
    \E t \in Titles :
        \/ Retitle(t) \/ Close(t)
        \/ \E e \in Experiments : Open(e, t) \/ Record(e, t)

Spec == Init /\ [][Next]_ledger
=============================================================================

----------------------------- MODULE DurableRows -----------------------------
(***************************************************************************)
(* What the storage of finished days promises, whatever files it uses: a   *)
(* row that was stored stays stored, unless the retention policy retired   *)
(* it.  ColdRotation implements this specification.                        *)
(***************************************************************************)
CONSTANTS Days, Rows

VARIABLES stored,    \* per day: the rows some file still holds
          retired    \* per day: the rows the retention policy gave up

TypeOK ==
  /\ stored \in [Days -> SUBSET Rows]
  /\ retired \in [Days -> SUBSET Rows]

Init ==
  /\ stored = [d \in Days |-> {}]
  /\ retired = [d \in Days |-> {}]

Add(d) ==
  /\ \E new \in SUBSET Rows : stored' = [stored EXCEPT ![d] = @ \cup new]
  /\ UNCHANGED retired

Retire(d) ==
  \E old \in SUBSET Rows :
    /\ stored' = [stored EXCEPT ![d] = @ \ old]
    /\ retired' = [retired EXCEPT ![d] = @ \cup old]

Next == \E d \in Days : Add(d) \/ Retire(d)

Spec == Init /\ [][Next]_<<stored, retired>>

=============================================================================

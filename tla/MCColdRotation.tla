--------------------------- MODULE MCColdRotation ---------------------------
(* Instances of ColdRotation: three installations in one run.              *)
EXTENDS ColdRotation

One == [days |-> {"d1"}, rows |-> Rows, legacy |-> FALSE, wal |-> FALSE, queried |-> FALSE,
        crashes |-> 2, restores |-> 2]

\* Rotation alone; the engine ran without rotation before, under a reader, both
\* with days that may end in their WAL and rows of every kind; two days are
\* rotated, restored and swept under a reader.
MCSites ==
  {[One EXCEPT !.wal = TRUE],
   [One EXCEPT !.legacy = TRUE, !.wal = TRUE, !.queried = TRUE],
   [One EXCEPT !.days = {"d1", "d2"}, !.rows = {"reading"}, !.queried = TRUE,
               !.crashes = 0, !.restores = 1]}
=============================================================================

------------------------- MODULE ColdRotationProofs -------------------------
(***************************************************************************)
(* The storage of finished days keeps its promise about the rows that are  *)
(* Covered, for any number of days, installations, crashes and restored    *)
(* files: ColdRotation implements DurableRows, and a query beside it       *)
(* misses no reading.                                                      *)
(***************************************************************************)
EXTENDS ColdRotation, TLAPS

Copying == {"write", "close", "index"}
Committed == {"verify", "unlink"}

Rotations ==
  [pc: {"idle", "next", "sweep", "reclaim"} \cup Copying \cup Committed,
   todo: SUBSET (Days \X {"hot", "gz"}), day: Days \cup {"none"}, from: {"hot", "gz"},
   cut: SUBSET Rows, left: SUBSET Artifacts, owned: SUBSET Artifacts]

Retentions == [pc: {"idle", "copy", "copied"}, day: Days \cup {"none"}, clean: BOOLEAN]

StateTypes ==
  /\ site \in Sites
  /\ aged \subseteq Days /\ indexed \subseteq aged
  /\ hot \in [Days -> [file: {"none", "db", "stub"}, rows: SUBSET Rows, wal: SUBSET Rows]]
  /\ gz \in [Days -> [file: {"none", "partial", "whole"}, rows: SUBSET Rows]]
  /\ art \in [Days -> [Artifacts -> {"none", "partial", "whole"}]]
  /\ index \in [Days -> SUBSET Rows]
  /\ enabled \in BOOLEAN
  /\ rot \in Rotations
  /\ hk \in Retentions
  /\ retired \in [Days -> SUBSET Covered]

\* Only a whole file holds rows, and no day with source rows has an entry.
Files ==
  \A d \in Days :
    /\ hot[d].file # "db" => hot[d].rows = {}
    /\ gz[d].file # "whole" => gz[d].rows = {}
    /\ "source" \notin index[d]

\* Rotation and compression exclude each other: the configuration of an
\* engine run switches one of them on.
Modes ==
  /\ rot.pc # "idle" => enabled
  /\ hk.pc # "idle" => ~enabled
  /\ ~enabled => site.legacy

\* What is still to be rotated has no entry, and each day comes once.
Todo ==
  rot.pc \in {"next"} \cup Copying \cup Committed =>
    \A c \in rot.todo :
      /\ c[1] \in aged \ indexed
      /\ \A e \in rot.todo : e[1] = c[1] => e = c
      /\ rot.pc # "next" => c[1] # rot.day

\* The source still is the cut until it is unlinked, and the entry is the cut
\* once it is committed.
Cut ==
  /\ rot.pc \in Copying \cup Committed =>
       /\ rot.day \in aged /\ "source" \notin rot.cut
       /\ rot.from = "hot" => hot[rot.day].file = "db" /\ hot[rot.day].rows = rot.cut
       /\ rot.from = "gz" => gz[rot.day].rows \subseteq rot.cut
  /\ rot.pc \in Copying => rot.day \notin indexed
  /\ rot.pc \in Committed => rot.day \in indexed /\ index[rot.day] = rot.cut
  /\ rot.pc = "unlink" => ArchiveWhole(rot.day)

\* Only days with an entry are swept, and the file about to be removed still
\* is what its archive holds.
Reclaim ==
  /\ rot.pc \in {"sweep", "reclaim"} => \A c \in rot.todo : c[1] \in indexed
  /\ rot.pc = "reclaim" =>
       /\ rot.day \in indexed
       /\ hot[rot.day].file = "db" /\ hot[rot.day].rows = index[rot.day]
       /\ ArchiveWhole(rot.day)

\* The file about to be replaced by its .gz is in it, if it had no WAL.
Copy ==
  /\ hk.pc # "idle" => hk.day \in aged /\ hot[hk.day].file = "db"
  /\ hk.pc = "copy" => gz[hk.day].file = "partial"
  /\ hk.pc = "copied" => /\ gz[hk.day].file = "whole"
                         /\ hk.clean => hot[hk.day].rows \subseteq gz[hk.day].rows

IInv == StateTypes /\ Files /\ Modes /\ Todo /\ Cut /\ Reclaim /\ Copy

-----------------------------------------------------------------------------
(* What a step does to the stored rows.                                    *)

Kept(d) == Preserved(d) \cap Covered

Untouched(d) == Kept(d)' = Kept(d)

Stays == (\A d \in Days : Untouched(d)) /\ retired' = retired

Adds(d) ==
  /\ Kept(d) \subseteq Kept(d)'
  /\ \A e \in Days \ {d} : Untouched(e)
  /\ retired' = retired

Retires(d) ==
  \E old \in SUBSET Covered :
    /\ Kept(d)' = Kept(d) \ old
    /\ \A e \in Days \ {d} : Untouched(e)
    /\ retired' = [retired EXCEPT ![d] = @ \cup old]

Maps == Stays \/ \E d \in Days : Adds(d) \/ Retires(d)

Preservation == [d \in Days |-> Preserved(d) \cap Covered]

\* Each of the three kinds is a step of DurableRows, or stutters.
LEMMA MapsIsStoreStep ==
  ASSUME Maps
  PROVE  [Store!Next]_<<Preservation, retired>>
<1>1. CASE Stays
  <2>1. Preservation' = Preservation
    BY <1>1 DEF Stays, Untouched, Preservation, Kept
  <2> QED
    BY <1>1, <2>1 DEF Stays
<1>2. ASSUME NEW d \in Days, Adds(d) PROVE Store!Add(d)
  <2> DEFINE new == Kept(d)'
  <2>1. new \in SUBSET Covered /\ Kept(d) \cup new = new /\ retired' = retired
    BY <1>2 DEF Adds, Kept
  <2>2. Preservation' = [Preservation EXCEPT ![d] = @ \cup new]
    <3>1. \A e \in Days : Kept(e)' = IF e = d THEN Kept(d) \cup new ELSE Kept(e)
      BY <1>2, <2>1 DEF Adds, Untouched
    <3> QED
      BY <3>1 DEF Preservation, Kept
  <2> QED
    BY <2>1, <2>2 DEF Store!Add, Preservation, Kept
<1>3. ASSUME NEW d \in Days, Retires(d) PROVE Store!Retire(d)
  <2>1. PICK old \in SUBSET Covered :
          /\ Kept(d)' = Kept(d) \ old
          /\ \A e \in Days \ {d} : Untouched(e)
          /\ retired' = [retired EXCEPT ![d] = @ \cup old]
    BY <1>3 DEF Retires
  <2>2. Preservation' = [Preservation EXCEPT ![d] = @ \ old]
    <3>1. \A e \in Days : Kept(e)' = IF e = d THEN Kept(d) \ old ELSE Kept(e)
      BY <2>1 DEF Untouched
    <3> QED
      BY <3>1 DEF Preservation, Kept
  <2> QED
    BY <2>1, <2>2 DEF Store!Retire, Preservation, Kept
<1> QED
  BY <1>1, <1>2, <1>3 DEF Maps, Store!Next

\* A step that changes no file, index or retired row.
LEMMA SameFilesStay ==
  ASSUME UNCHANGED <<hot, gz, art, index, indexed, retired>>
  PROVE  Stays
BY DEF Stays, Untouched, Kept, Preserved, Visible, Archived, ArchiveWhole

\* What the files of a day hold are rows.
LEMMA PreservedType ==
  ASSUME StateTypes, NEW d \in Days
  PROVE  Preserved(d) \subseteq Rows /\ Archived(d) \subseteq Rows /\ Visible(d) \subseteq Rows
BY DEF StateTypes, Preserved, Visible, Archived

-----------------------------------------------------------------------------
(* Steps of the pass that touch no file.                                   *)

\* The parts of the invariant about files survive any such step.
LEMMA RotOnlyKeepsFiles ==
  ASSUME IInv, UNCHANGED <<site, aged, fileVars, enabled, hk, retired>>, rot'.pc # "idle" => enabled,
         rot' \in Rotations
  PROVE  StateTypes' /\ Files' /\ Modes' /\ Copy' /\ Stays
<1>1. StateTypes' /\ Files' /\ Modes' /\ Copy'
  BY DEF IInv, StateTypes, Files, Modes, Copy, fileVars
<1>2. Stays
  BY SameFilesStay DEF fileVars
<1> QED
  BY <1>1, <1>2

\* PassBegins: the candidates are old days without an entry, each once.
LEMMA PassBeginsKeeps ==
  ASSUME IInv, PassBegins
  PROVE  IInv' /\ Stays
<1> DEFINE H == {x \in aged \ indexed : hot[x].file # "none"}
           G == {x \in aged \ indexed : hot[x].file = "none" /\ gz[x].file # "none"}
           T == {<<d, "hot">> : d \in H} \cup {<<d, "gz">> : d \in G}
<1>1. rot' = [RotIdle EXCEPT !.pc = "next", !.todo = T]
  BY DEF PassBegins
<1>2. T \in SUBSET (Days \X {"hot", "gz"})
  BY DEF IInv, StateTypes
<1>3. /\ rot'.pc = "next" /\ rot'.todo = T
      /\ rot' \in Rotations
  BY <1>1, <1>2 DEF RotIdle, Rotations
<1>4. StateTypes' /\ Files' /\ Modes' /\ Copy' /\ Stays
  BY <1>3, RotOnlyKeepsFiles DEF PassBegins, rotOnly
<1>5. \A c \in T : c[1] \in aged \ indexed /\ \A e \in T : e[1] = c[1] => e = c
  OBVIOUS
<1>6. Todo'
  BY <1>3, <1>5 DEF Todo, PassBegins, rotOnly, fileVars
<1>7. Cut' /\ Reclaim'
  BY <1>3 DEF Cut, Reclaim, Copying, Committed
<1> QED
  BY <1>4, <1>6, <1>7 DEF IInv

\* GivenUp: the pass goes on with the candidates that are left.
LEMMA GivingUpKeeps ==
  ASSUME IInv, NEW c, GivenUp(c), enabled, UNCHANGED <<aged, indexed, hot, gz, index, art>>,
         rot.pc \in {"next"} \cup Copying \cup Committed
  PROVE  rot' \in Rotations /\ rot'.pc = "next" /\ Todo' /\ Cut' /\ Reclaim'
<1>1. /\ rot' \in Rotations
      /\ rot'.pc = "next" /\ rot'.todo = rot.todo \ {c}
  BY DEF GivenUp, RotIdle, IInv, StateTypes, Rotations
<1>2. Todo'
  BY <1>1 DEF IInv, Todo
<1>3. Cut' /\ Reclaim'
  BY <1>1 DEF Cut, Reclaim, Copying, Committed
<1> QED
  BY <1>1, <1>2, <1>3

\* SkipDay and VerifyFails: a day is given up, its source stays.
LEMMA LeavingKeeps ==
  ASSUME IInv, VerifyFails \/ \E c \in rot.todo : SkipDay(c)
  PROVE  IInv' /\ Stays
<1>1. PICK c : GivenUp(c)
  BY DEF VerifyFails, SkipDay
<1>2. /\ UNCHANGED <<site, aged, fileVars, enabled, hk, retired>> /\ enabled
      /\ rot.pc \in {"next"} \cup Copying \cup Committed
  BY DEF VerifyFails, SkipDay, rotOnly, fileVars, IInv, Modes, Committed
<1>3. rot' \in Rotations /\ rot'.pc = "next" /\ Todo' /\ Cut' /\ Reclaim'
  BY <1>1, <1>2, GivingUpKeeps DEF fileVars
<1> QED
  BY <1>2, <1>3, RotOnlyKeepsFiles DEF IInv

\* TakeCut: the source becomes the cut.
LEMMA TakeCutKeeps ==
  ASSUME IInv, NEW c \in rot.todo, TakeCut(c)
  PROVE  IInv' /\ Stays
<1>1. /\ rot.pc = "next" /\ enabled
      /\ UNCHANGED <<site, aged, fileVars, enabled, hk, retired>>
      /\ IF c[2] = "hot" THEN hot[c[1]].file = "db" ELSE gz[c[1]].file = "whole"
  BY DEF TakeCut, rotOnly, IInv, Modes
<1>2. c[1] \in Days /\ c[2] \in {"hot", "gz"} /\ Content(c) \in SUBSET Rows
  BY DEF IInv, StateTypes, Rotations, Content
<1>3. Needed(Content(c)) \subseteq Artifacts
  BY DEF Needed, Artifacts
<1>4. /\ rot' \in Rotations
      /\ rot'.pc = "write" /\ rot'.todo = rot.todo \ {c} /\ rot'.day = c[1] /\ rot'.from = c[2]
      /\ rot'.cut = Content(c)
  BY <1>2, <1>3 DEF TakeCut, IInv, StateTypes, Rotations, Copying
<1>5. StateTypes' /\ Files' /\ Modes' /\ Copy' /\ Stays
  BY <1>1, <1>4, RotOnlyKeepsFiles
<1>6. Todo'
  BY <1>1, <1>4 DEF IInv, Todo, fileVars
<1>7. Cut'
  <2>1. c[1] \in aged \ indexed /\ "source" \notin Content(c)
    BY <1>1 DEF TakeCut, IInv, Todo
  <2>2. IF c[2] = "hot" THEN Content(c) = hot[c[1]].rows ELSE Content(c) = gz[c[1]].rows
    BY DEF Content
  <2> QED
    BY <1>1, <1>2, <1>4, <2>1, <2>2 DEF Cut, fileVars, Copying, Committed
<1>8. Reclaim'
  BY <1>4 DEF Reclaim
<1> QED
  BY <1>5, <1>6, <1>7, <1>8 DEF IInv

\* VerifyCommitted: the artifacts the entry needs are whole.
LEMMA VerifyCommittedKeeps ==
  ASSUME IInv, VerifyCommitted
  PROVE  IInv' /\ Stays
<1>1. /\ rot.pc = "verify" /\ enabled /\ ArchiveWhole(rot.day)
      /\ UNCHANGED <<site, aged, fileVars, enabled, hk, retired>>
      /\ rot' = [rot EXCEPT !.pc = "unlink"]
  BY DEF VerifyCommitted, rotOnly, IInv, Modes
<1>2. /\ rot' \in Rotations
      /\ rot'.pc = "unlink" /\ rot'.todo = rot.todo /\ rot'.day = rot.day /\ rot'.from = rot.from
      /\ rot'.cut = rot.cut
  BY <1>1 DEF IInv, StateTypes, Rotations, Committed
<1>3. StateTypes' /\ Files' /\ Modes' /\ Copy' /\ Stays
  BY <1>1, <1>2, RotOnlyKeepsFiles
<1>4. Todo' /\ Cut' /\ Reclaim'
  BY <1>1, <1>2 DEF IInv, Todo, Cut, Reclaim, fileVars, Copying, Committed, ArchiveWhole
<1> QED
  BY <1>3, <1>4 DEF IInv

\* The sweep's bookkeeping, and the proof that a stranded file is archived.
LEMMA SweepKeepsAll ==
  ASSUME IInv, SweepBegins \/ PassEnds \/ \E d \in Days : SweepKeeps(d) \/ SweepProves(d)
  PROVE  IInv' /\ Stays
<1>1. enabled /\ UNCHANGED <<site, aged, fileVars, enabled, hk, retired>>
  BY DEF SweepBegins, PassEnds, SweepKeeps, SweepProves, rotOnly, IInv, Modes
<1>2. /\ rot' \in Rotations /\ rot'.pc \in {"idle", "sweep", "reclaim"}
      /\ Reclaim'
  <2>1. CASE SweepBegins
    <3>1. {<<d, "hot">> : d \in indexed} \in SUBSET (Days \X {"hot", "gz"})
      BY DEF IInv, StateTypes
    <3>2. /\ rot' \in Rotations /\ rot'.pc = "sweep"
          /\ rot'.todo = {<<d, "hot">> : d \in indexed} /\ indexed' = indexed
      BY <2>1, <3>1, <1>1 DEF SweepBegins, IInv, StateTypes, Rotations, fileVars
    <3> QED
      BY <3>2 DEF Reclaim
  <2>2. CASE PassEnds
    BY <2>2 DEF PassEnds, RotIdle, Rotations, Reclaim
  <2>3. ASSUME NEW d \in Days, SweepKeeps(d)
        PROVE  rot' \in Rotations /\ rot'.pc = "sweep" /\ Reclaim'
    <3>1. /\ rot' \in Rotations /\ rot.pc = "sweep" /\ rot'.pc = "sweep" /\ rot'.todo \subseteq rot.todo
      BY <2>3 DEF SweepKeeps, IInv, StateTypes, Rotations
    <3> QED
      BY <3>1, <1>1 DEF IInv, Reclaim, fileVars
  <2>4. ASSUME NEW d \in Days, SweepProves(d)
        PROVE  rot' \in Rotations /\ rot'.pc = "reclaim" /\ Reclaim'
    <3>1. /\ rot' \in Rotations /\ rot.pc = "sweep" /\ rot'.pc = "reclaim" /\ rot'.day = d
          /\ rot'.todo \subseteq rot.todo
      BY <2>4 DEF SweepProves, IInv, StateTypes, Rotations
    <3>2. d \in indexed
      BY <2>4, <3>1 DEF SweepProves, IInv, Reclaim
    <3>3. hot[d].file = "db" /\ hot[d].rows = index[d] /\ ArchiveWhole(d)
      BY <2>4 DEF SweepProves
    <3> QED
      BY <3>1, <3>2, <3>3, <1>1 DEF IInv, Reclaim, fileVars, ArchiveWhole
  <2> QED
    BY <2>1, <2>2, <2>3, <2>4
<1>3. StateTypes' /\ Files' /\ Modes' /\ Copy' /\ Stays
  BY <1>1, <1>2, RotOnlyKeepsFiles
<1>4. Todo' /\ Cut'
  BY <1>2 DEF Todo, Cut, Copying, Committed
<1> QED
  BY <1>2, <1>3, <1>4 DEF IInv

-----------------------------------------------------------------------------
(* The artifacts, the entry and the source.                                *)

\* Before the entry is committed nobody refers to the artifacts of the day.
LEMMA CopyingStays ==
  ASSUME IInv, rot.pc \in Copying, UNCHANGED <<hot, gz, index, indexed, retired>>,
         \A d \in Days \ {rot.day} : art'[d] = art[d]
  PROVE  Stays
<1>1. rot.day \notin indexed
  BY DEF IInv, Cut
<1>2. \A d \in Days : Archived(d)' = Archived(d)
  BY <1>1 DEF Archived, ArchiveWhole, Needed
<1> QED
  BY <1>2 DEF Stays, Untouched, Kept, Preserved, Visible

\* OpenArtifact and CloseArtifact: the copy grows, the source and the cut stay.
LEMMA ArtifactKeeps ==
  ASSUME IInv, OpenArtifact \/ CloseArtifact
  PROVE  IInv' /\ Stays
<1>1. /\ rot.pc \in Copying /\ NextArtifact \in Artifacts
      /\ UNCHANGED <<site, aged, hot, gz, index, indexed, enabled, hk, retired>>
  BY DEF OpenArtifact, CloseArtifact, NextArtifact, Artifacts, Copying
<1>2. rot.day \in Days
  BY <1>1 DEF IInv, Cut, StateTypes
<1>3. PICK v \in {"partial", "whole"} : art' = [art EXCEPT ![rot.day][NextArtifact] = v]
  BY DEF OpenArtifact, CloseArtifact
<1>4. /\ art' \in [Days -> [Artifacts -> {"none", "partial", "whole"}]]
      /\ \A d \in Days \ {rot.day} : art'[d] = art[d]
  BY <1>1, <1>2, <1>3 DEF IInv, StateTypes
<1>5. /\ rot' \in Rotations
      /\ rot'.pc \in Copying /\ rot'.todo = rot.todo /\ rot'.day = rot.day /\ rot'.from = rot.from
      /\ rot'.cut = rot.cut
  <2>1. CASE OpenArtifact
    BY <2>1, <1>1 DEF OpenArtifact, IInv, StateTypes, Rotations, Copying
  <2>2. CASE CloseArtifact
    BY <2>2, <1>1 DEF CloseArtifact, IInv, StateTypes, Rotations, Copying
  <2> QED
    BY <2>1, <2>2
<1>6. StateTypes' /\ Files' /\ Copy'
  BY <1>1, <1>4, <1>5 DEF IInv, StateTypes, Files, Copy
<1>7. Modes' /\ Todo' /\ Cut' /\ Reclaim'
  BY <1>1, <1>5 DEF IInv, Modes, Todo, Cut, Reclaim, Copying, Committed
<1>8. Stays
  BY <1>1, <1>4, CopyingStays
<1> QED
  BY <1>6, <1>7, <1>8 DEF IInv

\* RotationFails: what the pass wrote goes, what the day had stays.
LEMMA RotationFailsKeeps ==
  ASSUME IInv, RotationFails
  PROVE  IInv' /\ Stays
<1>1. /\ rot.pc \in Copying /\ enabled
      /\ UNCHANGED <<site, aged, hot, gz, index, indexed, enabled, hk, retired>>
  BY DEF RotationFails, IInv, Modes, Copying
<1>2. PICK kept \in SUBSET rot.owned :
        art' = [art EXCEPT ![rot.day] =
                  [a \in Artifacts |-> IF a \in rot.owned \ kept THEN "none" ELSE @[a]]]
  BY DEF RotationFails
<1>3. /\ art' \in [Days -> [Artifacts -> {"none", "partial", "whole"}]]
      /\ \A d \in Days \ {rot.day} : art'[d] = art[d]
  BY <1>2 DEF IInv, StateTypes
<1>4. rot' \in Rotations /\ rot'.pc = "next" /\ Todo' /\ Cut' /\ Reclaim'
  <2>1. PICK c : GivenUp(c)
    BY DEF RotationFails
  <2>2. rot' \in Rotations /\ rot'.pc = "next" /\ rot'.todo = rot.todo \ {c}
    BY <2>1 DEF GivenUp, RotIdle, IInv, StateTypes, Rotations
  <2>3. Todo'
    BY <1>1, <2>2 DEF IInv, Todo
  <2> QED
    BY <2>2, <2>3 DEF Cut, Reclaim, Copying, Committed
<1>5. StateTypes' /\ Files' /\ Modes' /\ Copy'
  BY <1>1, <1>3, <1>4 DEF IInv, StateTypes, Files, Modes, Copy
<1>6. Stays
  BY <1>1, <1>3, CopyingStays
<1> QED
  BY <1>4, <1>5, <1>6 DEF IInv

\* CommitIndex: the entry takes effect while the source still is there, or,
\* when an old .gz was deleted under the pass, after it.
LEMMA CommitIndexKeeps ==
  ASSUME IInv, CommitIndex
  PROVE  IInv' /\ Maps
<1>1. /\ rot.pc = "index" /\ rot.day \in aged /\ rot.day \in Days /\ rot.day \notin indexed
      /\ rot.cut \in SUBSET Rows
      /\ UNCHANGED <<site, aged, hot, gz, art, enabled, hk, retired>>
      /\ indexed' = indexed \cup {rot.day} /\ index' = [index EXCEPT ![rot.day] = rot.cut]
  BY DEF CommitIndex, IInv, Cut, StateTypes, Rotations, Copying
<1>2. /\ rot' \in Rotations
      /\ rot'.pc = "verify" /\ rot'.todo = rot.todo /\ rot'.day = rot.day /\ rot'.from = rot.from
      /\ rot'.cut = rot.cut
  BY DEF CommitIndex, IInv, StateTypes, Rotations, Committed
<1>3. index'[rot.day] = rot.cut /\ \A d \in Days \ {rot.day} : index'[d] = index[d]
  BY <1>1 DEF IInv, StateTypes
<1>4. StateTypes' /\ Files' /\ Copy'
  <2>1. "source" \notin rot.cut
    BY <1>1 DEF IInv, Cut, Copying
  <2>2. index' \in [Days -> SUBSET Rows] /\ indexed' \subseteq aged'
    BY <1>1 DEF IInv, StateTypes
  <2>3. StateTypes' /\ Copy'
    BY <1>1, <1>2, <2>2 DEF IInv, StateTypes, Copy
  <2>4. Files'
    BY <1>1, <1>3, <2>1 DEF IInv, Files
  <2> QED
    BY <2>3, <2>4
<1>5. Modes' /\ Reclaim'
  BY <1>1, <1>2 DEF IInv, Modes, Reclaim
<1>6. Todo'
  BY <1>1, <1>2 DEF IInv, Todo, Copying, Committed
<1>7. Cut'
  BY <1>1, <1>2, <1>3 DEF IInv, Cut, Copying, Committed
<1>8. \A d \in Days : d = rot.day => Adds(d)
  <2>1. \A e \in Days \ {rot.day} : Archived(e)' = Archived(e)
    BY <1>1, <1>3 DEF Archived, ArchiveWhole
  <2>2. \A e \in Days \ {rot.day} : Untouched(e)
    BY <1>1, <2>1 DEF Untouched, Kept, Preserved, Visible
  <2>3. \A d \in Days : d = rot.day => Kept(d) \subseteq Kept(d)'
    BY <1>1 DEF Kept, Preserved, Visible, Archived
  <2> QED
    BY <1>1, <2>2, <2>3 DEF Adds
<1> QED
  BY <1>1, <1>4, <1>5, <1>6, <1>7, <1>8 DEF IInv, Maps

\* UnlinkSource: what the source held is archived, every artifact whole.
LEMMA UnlinkSourceKeeps ==
  ASSUME IInv, UnlinkSource
  PROVE  IInv' /\ Stays
<1>1. /\ rot.pc = "unlink" /\ enabled /\ rot.day \in Days /\ rot.day \in indexed
      /\ index[rot.day] = rot.cut /\ ArchiveWhole(rot.day) /\ "source" \notin rot.cut
      /\ rot.from = "hot" => hot[rot.day].rows = rot.cut
      /\ rot.from = "gz" => gz[rot.day].rows \subseteq rot.cut
  BY DEF UnlinkSource, IInv, Modes, Cut, StateTypes, Copying, Committed
<1>2. /\ UNCHANGED <<site, aged, art, index, indexed, enabled, hk, retired>>
      /\ \/ UNCHANGED <<hot, gz>>
         \/ rot.from = "hot" /\ hot' = [hot EXCEPT ![rot.day] = NoFile] /\ UNCHANGED gz
         \/ rot.from = "gz" /\ gz' = [gz EXCEPT ![rot.day] = NoGz] /\ UNCHANGED hot
  BY DEF UnlinkSource
<1>3. rot' \in Rotations /\ rot'.pc = "next" /\ Todo' /\ Cut' /\ Reclaim'
  <2>1. PICK c : GivenUp(c)
    BY DEF UnlinkSource
  <2>2. rot' \in Rotations /\ rot'.pc = "next" /\ rot'.todo = rot.todo \ {c}
    BY <2>1 DEF GivenUp, RotIdle, IInv, StateTypes, Rotations
  <2>3. Todo'
    BY <1>1, <1>2, <2>2 DEF IInv, Todo, Committed
  <2> QED
    BY <2>2, <2>3 DEF Cut, Reclaim, Copying, Committed
<1>4. StateTypes'
  <2>1. hot' \in [Days -> [file: {"none", "db", "stub"}, rows: SUBSET Rows, wal: SUBSET Rows]]
    BY <1>2 DEF IInv, StateTypes, NoFile
  <2>2. gz' \in [Days -> [file: {"none", "partial", "whole"}, rows: SUBSET Rows]]
    <3>1. gz' = gz \/ gz' = [gz EXCEPT ![rot.day] = NoGz]
      BY <1>2
    <3>2. NoGz \in [file: {"none", "partial", "whole"}, rows: SUBSET Rows]
      BY DEF NoGz
    <3> QED
      BY <3>1, <3>2 DEF IInv, StateTypes
  <2> QED
    BY <1>2, <1>3, <2>1, <2>2 DEF IInv, StateTypes
<1>5. Files'
  <2>1. \A d \in Days : /\ hot'[d] = hot[d] \/ hot'[d] = NoFile
                        /\ gz'[d] = gz[d] \/ gz'[d] = NoGz
    BY <1>2 DEF IInv, StateTypes
  <2>2. NoFile.rows = {} /\ NoGz.rows = {}
    BY DEF NoFile, NoGz
  <2> QED
    BY <1>2, <2>1, <2>2 DEF IInv, Files
<1>6. Modes' /\ Copy'
  BY <1>1, <1>2 DEF IInv, Modes, Copy
<1>7. \A d \in Days : Archived(d)' = Archived(d)
  BY <1>2 DEF Archived, ArchiveWhole
<1>8. rot.cut \cap Covered \subseteq Archived(rot.day)
  BY <1>1 DEF Archived, Covered
<1>9. Stays
  <2>1. CASE UNCHANGED <<hot, gz>>
    BY <2>1, <1>2, <1>7 DEF Stays, Untouched, Kept, Preserved, Visible
  <2>2. CASE rot.from = "hot" /\ hot' = [hot EXCEPT ![rot.day] = NoFile] /\ UNCHANGED gz
    <3>1. \A d \in Days : hot'[d].rows = IF d = rot.day THEN {} ELSE hot[d].rows
      BY <2>2 DEF IInv, StateTypes, NoFile
    <3>2. \A d \in Days : (Visible(d) \cap Covered)' = Visible(d) \cap Covered
      BY <1>1, <1>7, <1>8, <2>2, <3>1 DEF Visible
    <3> QED
      BY <2>2, <3>2, <1>2 DEF Stays, Untouched, Kept, Preserved
  <2>3. CASE rot.from = "gz" /\ gz' = [gz EXCEPT ![rot.day] = NoGz] /\ UNCHANGED hot
    <3>1. \A d \in Days : /\ d # rot.day => gz'[d] = gz[d]
                          /\ d = rot.day => gz'[d].file = "none"
      BY <2>3 DEF IInv, StateTypes, NoGz
    <3>2. \A d \in Days : Visible(d)' = Visible(d)
      BY <1>7, <2>3 DEF Visible
    <3>3. gz[rot.day].rows \cap Covered \subseteq Visible(rot.day)
      BY <1>1, <1>8, <2>3 DEF Visible
    <3> QED
      BY <3>1, <3>2, <3>3, <1>2 DEF Stays, Untouched, Kept, Preserved
  <2> QED
    BY <1>2, <2>1, <2>2, <2>3
<1> QED
  BY <1>3, <1>4, <1>5, <1>6, <1>9 DEF IInv

\* SweepUnlinks: the same for a stranded file.
LEMMA SweepUnlinksKeeps ==
  ASSUME IInv, SweepUnlinks
  PROVE  IInv' /\ Stays
<1>1. /\ rot.pc = "reclaim" /\ enabled /\ rot.day \in Days
      /\ hot[rot.day].rows \cap Covered \subseteq Archived(rot.day)
  BY DEF SweepUnlinks, IInv, Modes, Reclaim, StateTypes, Files, Archived, Covered
<1>2. /\ UNCHANGED <<site, aged, gz, art, index, indexed, enabled, hk, retired>>
      /\ hot' = hot \/ hot' = [hot EXCEPT ![rot.day] = NoFile]
  BY DEF SweepUnlinks
<1>3. rot' \in Rotations /\ rot'.pc = "sweep" /\ rot'.todo = rot.todo
  BY DEF SweepUnlinks, IInv, StateTypes, Rotations
<1>4. StateTypes'
  <2>1. NoFile \in [file: {"none", "db", "stub"}, rows: SUBSET Rows, wal: SUBSET Rows]
    BY DEF NoFile
  <2>2. hot' \in [Days -> [file: {"none", "db", "stub"}, rows: SUBSET Rows, wal: SUBSET Rows]]
    BY <1>2, <2>1 DEF IInv, StateTypes
  <2> QED
    BY <1>2, <1>3, <2>2 DEF IInv, StateTypes
<1>5. Files'
  <2>1. \A d \in Days : hot'[d] = hot[d] \/ hot'[d] = NoFile
    BY <1>2 DEF IInv, StateTypes
  <2> QED
    BY <1>2, <2>1 DEF IInv, Files, NoFile
<1>6. Modes' /\ Copy' /\ Todo' /\ Cut' /\ Reclaim'
  BY <1>1, <1>2, <1>3 DEF IInv, Modes, Copy, Todo, Cut, Reclaim, Copying, Committed
<1>7. Stays
  <2>1. \A d \in Days : Archived(d)' = Archived(d)
    BY <1>2 DEF Archived, ArchiveWhole
  <2>2. \A d \in Days : hot'[d].rows = hot[d].rows \/ (d = rot.day /\ hot'[d].rows = {})
    BY <1>2 DEF IInv, StateTypes, NoFile
  <2>3. \A d \in Days : (Visible(d) \cap Covered)' = Visible(d) \cap Covered
    BY <1>1, <2>1, <2>2 DEF Visible
  <2> QED
    BY <1>2, <2>3 DEF Stays, Untouched, Kept, Preserved
<1> QED
  BY <1>4, <1>5, <1>6, <1>7, <1>3 DEF IInv

-----------------------------------------------------------------------------
(* Days, retention, readers and restarts.                                  *)

\* A day outside the hands of rotation and retention, or one without a daily
\* file, gets one that holds at least what is visible of the day.
LEMMA HotFileKeeps ==
  ASSUME IInv, NEW d \in Days, d \notin aged \/ hot[d].file # "db",
         NEW rows \in SUBSET Rows, NEW wal \in SUBSET Rows,
         Visible(d) \subseteq rows \cup Archived(d),
         hot' = [hot EXCEPT ![d] = [file |-> "db", rows |-> rows, wal |-> wal]],
         UNCHANGED <<site, aged, gz, art, index, indexed, enabled, rot, hk, retired>>
  PROVE  IInv' /\ Adds(d)
<1>1. /\ hot' \in [Days -> [file: {"none", "db", "stub"}, rows: SUBSET Rows, wal: SUBSET Rows]]
      /\ hot'[d] = [file |-> "db", rows |-> rows, wal |-> wal]
      /\ \A e \in Days \ {d} : hot'[e] = hot[e]
  BY DEF IInv, StateTypes
<1>2. StateTypes' /\ Modes' /\ Todo'
  BY <1>1 DEF IInv, StateTypes, Modes, Todo
<1>3. Files'
  BY <1>1 DEF IInv, Files
<1>4. Cut'
  <2>1. ArchiveWhole(rot.day)' <=> ArchiveWhole(rot.day)
    BY DEF ArchiveWhole
  <2> QED
    BY <1>1, <2>1 DEF IInv, Cut, StateTypes
<1>5. Reclaim'
  <2>1. ArchiveWhole(rot.day)' <=> ArchiveWhole(rot.day)
    BY DEF ArchiveWhole
  <2> QED
    BY <1>1, <2>1 DEF IInv, Reclaim, StateTypes
<1>6. Copy'
  BY <1>1 DEF IInv, Copy, StateTypes
<1>7. Adds(d)
  <2>1. \A e \in Days : Archived(e)' = Archived(e)
    BY DEF Archived, ArchiveWhole
  <2>2. \A e \in Days \ {d} : Untouched(e)
    BY <1>1, <2>1 DEF Untouched, Kept, Preserved, Visible
  <2>3. Kept(d) \subseteq Kept(d)'
    BY <1>1, <2>1 DEF Kept, Preserved, Visible
  <2> QED
    BY <2>2, <2>3 DEF Adds
<1> QED
  BY <1>2, <1>3, <1>4, <1>5, <1>6, <1>7 DEF IInv

\* WriteRow: only days that nobody rotates or compresses grow.
LEMMA WriteRowKeeps ==
  ASSUME IInv, NEW d \in Days, WriteRow(d)
  PROVE  IInv' /\ Adds(d)
<1>1. PICK row \in site.rows \ (hot[d].rows \cup {"extra"}), w \in {FALSE, site.wal} :
        hot' = [hot EXCEPT ![d] = [file |-> "db", rows |-> hot[d].rows \cup {row},
                                   wal |-> IF w THEN hot[d].wal \cup {row} ELSE hot[d].wal]]
  BY DEF WriteRow, IInv, StateTypes
<1> DEFINE wal == IF w THEN hot[d].wal \cup {row} ELSE hot[d].wal
<1>2. site.rows \subseteq Rows
  BY ColdRotationAssumption DEF IInv, StateTypes
<1>3. hot[d].rows \cup {row} \in SUBSET Rows /\ wal \in SUBSET Rows
  BY <1>1, <1>2 DEF IInv, StateTypes
<1>4. Visible(d) \subseteq hot[d].rows \cup {row} \cup Archived(d)
  BY DEF Visible
<1>5. d \notin aged /\ UNCHANGED <<site, aged, gz, art, index, indexed, enabled, rot, hk, retired>>
  BY DEF WriteRow
<1> HIDE DEF wal
<1>6. hot' = [hot EXCEPT ![d] = [file |-> "db", rows |-> hot[d].rows \cup {row}, wal |-> wal]]
  BY <1>1 DEF wal
<1> QED
  BY <1>3, <1>4, <1>5, <1>6, HotFileKeeps

\* Restore: the operator puts back what was archived, or more.
LEMMA RestoreKeeps ==
  ASSUME IInv, NEW d \in Days, Restore(d)
  PROVE  IInv' /\ Adds(d)
<1>1. PICK old \in {index[d], Archived(d)}, new \in {{}, {"extra"} \cap site.rows} :
        hot' = [hot EXCEPT ![d] = [file |-> "db", rows |-> old \cup new, wal |-> {}]]
  BY DEF Restore
<1> DEFINE rows == old \cup new
           wal == {}
<1>2. rows \in SUBSET Rows /\ wal \in SUBSET Rows
  <2>1. Archived(d) \subseteq Rows /\ index[d] \subseteq Rows /\ "extra" \in Rows
    BY PreservedType DEF IInv, StateTypes, Rows
  <2> QED
    BY <1>1, <2>1
<1>3. hot[d].file # "db" /\ UNCHANGED <<site, aged, gz, art, index, indexed, enabled, rot, hk, retired>>
  BY DEF Restore
<1>4. Visible(d) \subseteq rows \cup Archived(d)
  BY <1>3 DEF Visible, IInv, Files
<1>5. hot' = [hot EXCEPT ![d] = [file |-> "db", rows |-> rows, wal |-> wal]]
  BY <1>1
<1> HIDE DEF rows, wal
<1> QED
  BY <1>2, <1>3, <1>4, <1>5, HotFileKeeps

\* Checkpoint: rows move inside the daily file, none comes or goes.
LEMMA CheckpointKeeps ==
  ASSUME IInv, NEW d \in Days, Checkpoint(d)
  PROVE  IInv' /\ Stays
<1>1. /\ UNCHANGED <<site, aged, gz, art, index, indexed, enabled, rot, hk, retired>>
      /\ hot' = [hot EXCEPT ![d].wal = {}]
  BY DEF Checkpoint
<1>2. /\ hot' \in [Days -> [file: {"none", "db", "stub"}, rows: SUBSET Rows, wal: SUBSET Rows]]
      /\ \A e \in Days : hot'[e].file = hot[e].file /\ hot'[e].rows = hot[e].rows
  <2> DEFINE after == [hot[d] EXCEPT !.wal = {}]
  <2>1. hot[d] \in [file: {"none", "db", "stub"}, rows: SUBSET Rows, wal: SUBSET Rows]
    BY DEF IInv, StateTypes
  <2>2. /\ after \in [file: {"none", "db", "stub"}, rows: SUBSET Rows, wal: SUBSET Rows]
        /\ after.file = hot[d].file /\ after.rows = hot[d].rows
    BY <2>1
  <2>3. hot' = [hot EXCEPT ![d] = after]
    BY <1>1
  <2> HIDE DEF after
  <2> QED
    BY <2>2, <2>3 DEF IInv, StateTypes
<1>3. StateTypes' /\ Files' /\ Modes' /\ Todo'
  BY <1>1, <1>2 DEF IInv, StateTypes, Files, Modes, Todo
<1>4. \A e \in Days : ArchiveWhole(e)' = ArchiveWhole(e) /\ Archived(e)' = Archived(e)
  BY <1>1 DEF Archived, ArchiveWhole
<1>5. Cut' /\ Reclaim'
  <2>1. ArchiveWhole(rot.day)' <=> ArchiveWhole(rot.day)
    BY <1>1 DEF ArchiveWhole
  <2>2. Cut'
    BY <1>1, <1>2, <2>1 DEF IInv, Cut, StateTypes
  <2>3. Reclaim'
    BY <1>1, <1>2, <2>1 DEF IInv, Reclaim, StateTypes
  <2> QED
    BY <2>2, <2>3
<1>6. Copy'
  BY <1>1, <1>2 DEF IInv, Copy, StateTypes
<1>7. Stays
  BY <1>1, <1>2, <1>4 DEF Stays, Untouched, Kept, Preserved, Visible
<1> QED
  BY <1>3, <1>5, <1>6, <1>7 DEF IInv

\* DayAges: from now on the day is a candidate.
LEMMA DayAgesKeeps ==
  ASSUME IInv, NEW d \in Days, DayAges(d)
  PROVE  IInv' /\ Stays
<1>1. aged' = aged \cup {d} /\ UNCHANGED <<site, hot, gz, art, index, indexed, enabled, rot, hk, retired>>
  BY DEF DayAges, fileVars
<1>2. StateTypes' /\ Files' /\ Modes' /\ Todo' /\ Copy'
  BY <1>1 DEF IInv, StateTypes, Files, Modes, Todo, Copy
<1>3. Cut' /\ Reclaim'
  BY <1>1 DEF IInv, Cut, Reclaim, ArchiveWhole
<1> QED
  BY <1>1, <1>2, <1>3, SameFilesStay DEF IInv

\* CompressBegins and CompressCopies: the copy grows beside the daily file.
LEMMA CompressKeeps ==
  ASSUME IInv, CompressCopies \/ \E d \in Days : CompressBegins(d)
  PROVE  IInv' /\ Maps
<1>1. PICK d \in Days, g \in [file: {"none", "partial", "whole"}, rows: SUBSET Rows],
           pc \in {"copy", "copied"}, clean \in BOOLEAN :
        /\ gz' = [gz EXCEPT ![d] = g] /\ hk' = [pc |-> pc, day |-> d, clean |-> clean]
        /\ ~enabled /\ d \in aged /\ hot[d].file = "db" /\ gz[d].file # "whole"
        /\ pc = "copy" => g = [file |-> "partial", rows |-> {}]
        /\ pc = "copied" => g.file = "whole" /\ (clean => g.rows = hot[d].rows)
  <2>1. ASSUME NEW d \in Days, CompressBegins(d)
        PROVE  /\ gz' = [gz EXCEPT ![d] = [file |-> "partial", rows |-> {}]]
               /\ hk' = [pc |-> "copy", day |-> d, clean |-> hot[d].wal = {}]
               /\ ~enabled /\ d \in aged /\ hot[d].file = "db" /\ gz[d].file # "whole"
    BY <2>1 DEF CompressBegins
  <2>2. CASE CompressCopies
    <3>1. hk.pc = "copy" /\ ~enabled /\ hk.day \in aged /\ hk.day \in Days /\ hot[hk.day].file = "db"
          /\ gz[hk.day].file # "whole" /\ hot[hk.day].rows \in SUBSET Rows /\ hk.clean \in BOOLEAN
      BY <2>2 DEF CompressCopies, IInv, Modes, Copy, StateTypes, Retentions
    <3>2. PICK rows \in IF hk.clean THEN {hot[hk.day].rows}
                        ELSE SUBSET (hot[hk.day].rows \ hot[hk.day].wal) :
            gz' = [gz EXCEPT ![hk.day] = [file |-> "whole", rows |-> rows]]
      BY <2>2 DEF CompressCopies
    <3>3. hk' = [pc |-> "copied", day |-> hk.day, clean |-> hk.clean]
      BY <2>2, <3>1 DEF CompressCopies, IInv, StateTypes, Retentions
    <3>4. rows \in SUBSET Rows /\ (hk.clean => rows = hot[hk.day].rows)
      BY <3>1, <3>2
    <3> DEFINE g == [file |-> "whole", rows |-> rows]
    <3>5. g \in [file: {"none", "partial", "whole"}, rows: SUBSET Rows] /\ g.file = "whole"
          /\ g.rows = rows
      BY <3>4
    <3> HIDE DEF g
    <3>6. gz' = [gz EXCEPT ![hk.day] = g]
      BY <3>2 DEF g
    <3> QED
      BY <3>1, <3>3, <3>4, <3>5, <3>6
  <2> QED
    BY <2>1, <2>2
<1>2. UNCHANGED <<site, aged, hot, art, index, indexed, enabled, rot, retired>>
  BY DEF CompressBegins, CompressCopies
<1>3. rot.pc = "idle"
  BY <1>1 DEF IInv, Modes
<1>4. /\ gz' \in [Days -> [file: {"none", "partial", "whole"}, rows: SUBSET Rows]]
      /\ gz'[d] = g /\ \A e \in Days \ {d} : gz'[e] = gz[e]
  BY <1>1 DEF IInv, StateTypes
<1>5. StateTypes' /\ Files'
  BY <1>1, <1>2, <1>4 DEF IInv, StateTypes, Files, Retentions
<1>6. Modes' /\ Todo' /\ Cut' /\ Reclaim' /\ Copy'
  BY <1>1, <1>2, <1>3, <1>4 DEF IInv, Modes, Todo, Cut, Reclaim, Copy, Copying, Committed
<1>7. Adds(d)
  <2>1. \A e \in Days : Visible(e)' = Visible(e)
    BY <1>2 DEF Visible, Archived, ArchiveWhole
  <2>2. \A e \in Days \ {d} : Untouched(e)
    BY <1>4, <2>1 DEF Untouched, Kept, Preserved
  <2>3. Kept(d) \subseteq Kept(d)'
    BY <1>1, <2>1 DEF Kept, Preserved
  <2> QED
    BY <1>2, <2>2, <2>3 DEF Adds
<1> QED
  BY <1>5, <1>6, <1>7 DEF IInv, Maps

\* CompressUnlinks: the .gz holds what the daily file held, or
\* what it misses of a file that had a WAL is retired.
LEMMA CompressUnlinksKeeps ==
  ASSUME IInv, CompressUnlinks
  PROVE  IInv' /\ Maps
<1>1. /\ hk.pc = "copied" /\ rot.pc = "idle" /\ hk.day \in Days
      /\ gz[hk.day].file = "whole" /\ (hk.clean => hot[hk.day].rows \subseteq gz[hk.day].rows)
  BY DEF CompressUnlinks, IInv, Modes, Copy, StateTypes
<1> DEFINE lost == Covered \cap (hot[hk.day].rows \ (Archived(hk.day) \cup gz[hk.day].rows))
<1>2. /\ UNCHANGED <<site, aged, gz, art, index, indexed, enabled, rot>>
      /\ hot' = [hot EXCEPT ![hk.day] = NoFile] /\ hk' = HkIdle
      /\ retired' = IF hk.clean THEN retired ELSE [retired EXCEPT ![hk.day] = @ \cup lost]
  BY DEF CompressUnlinks
<1>3. /\ hot' \in [Days -> [file: {"none", "db", "stub"}, rows: SUBSET Rows, wal: SUBSET Rows]]
      /\ hot'[hk.day] = NoFile /\ \A e \in Days \ {hk.day} : hot'[e] = hot[e]
  BY <1>1, <1>2 DEF IInv, StateTypes, NoFile
<1>4. hk' \in Retentions /\ hk'.pc = "idle"
  BY <1>2 DEF HkIdle, Retentions
<1>5. StateTypes' /\ Files'
  BY <1>2, <1>3, <1>4 DEF IInv, StateTypes, Files, NoFile
<1>6. Modes' /\ Todo' /\ Cut' /\ Reclaim' /\ Copy'
  BY <1>1, <1>2, <1>4 DEF IInv, Modes, Todo, Cut, Reclaim, Copy, Copying, Committed
<1>7. \A e \in Days : Archived(e)' = Archived(e)
  BY <1>2 DEF Archived, ArchiveWhole
<1>8. \A e \in Days \ {hk.day} : Untouched(e)
  BY <1>2, <1>3, <1>7 DEF Untouched, Kept, Preserved, Visible
<1>9. CASE hk.clean
  <2>1. \A e \in Days : e = hk.day => Untouched(e)
    BY <1>1, <1>2, <1>3, <1>7, <1>9 DEF Untouched, Kept, Preserved, Visible, NoFile
  <2>2. Stays
    BY <1>2, <1>8, <1>9, <2>1 DEF Stays
  <2> QED
    BY <1>5, <1>6, <2>2 DEF IInv, Maps
<1>10. CASE ~hk.clean
  <2>1. \A e \in Days : e = hk.day => Kept(e)' = Kept(e) \ lost
    BY <1>1, <1>2, <1>3, <1>7 DEF Kept, Preserved, Visible, NoFile
  <2>2. \A e \in Days : e = hk.day => Retires(e)
    BY <1>2, <1>8, <1>10, <2>1 DEF Retires
  <2> QED
    BY <1>1, <1>5, <1>6, <2>2 DEF IInv, Maps
<1> QED
  BY <1>9, <1>10

\* DeleteCompressed: what goes with the .gz is what the policy retires.
LEMMA DeleteCompressedKeeps ==
  ASSUME IInv, NEW d \in Days, DeleteCompressed(d)
  PROVE  IInv' /\ Retires(d)
<1>1. /\ hk.pc = "idle"
      /\ UNCHANGED <<site, aged, hot, art, index, indexed, enabled, rot, hk>>
      /\ gz' = [gz EXCEPT ![d] = NoGz]
      /\ retired' = [retired EXCEPT ![d] = @ \cup (Covered \cap (gz[d].rows \ Visible(d)))]
  BY DEF DeleteCompressed
<1>2. NoGz \in [file: {"none", "partial", "whole"}, rows: SUBSET Rows] /\ NoGz.file = "none"
      /\ NoGz.rows = {}
  BY DEF NoGz
<1>3. /\ gz' \in [Days -> [file: {"none", "partial", "whole"}, rows: SUBSET Rows]]
      /\ gz'[d] = NoGz /\ \A e \in Days \ {d} : gz'[e] = gz[e]
  BY <1>1, <1>2 DEF IInv, StateTypes
<1>4. Covered \cap (gz[d].rows \ Visible(d)) \in SUBSET Covered
  OBVIOUS
<1>5. StateTypes' /\ Files'
  BY <1>1, <1>2, <1>3, <1>4 DEF IInv, StateTypes, Files
<1>6. Modes' /\ Todo' /\ Reclaim' /\ Copy'
  BY <1>1 DEF IInv, Modes, Todo, Reclaim, Copy, ArchiveWhole
<1>7. Cut'
  <2>1. rot.day \in Days => gz'[rot.day].rows \subseteq gz[rot.day].rows
    BY <1>2, <1>3
  <2>2. ArchiveWhole(rot.day)' <=> ArchiveWhole(rot.day)
    BY <1>1 DEF ArchiveWhole
  <2> QED
    BY <1>1, <2>1, <2>2 DEF IInv, Cut, StateTypes
<1>8. Retires(d)
  <2>1. \A e \in Days : Visible(e)' = Visible(e)
    BY <1>1 DEF Visible, Archived, ArchiveWhole
  <2>2. \A e \in Days \ {d} : Untouched(e)
    BY <1>3, <2>1 DEF Untouched, Kept, Preserved
  <2>3. Kept(d)' = Kept(d) \ (Covered \cap (gz[d].rows \ Visible(d)))
    BY <1>2, <1>3, <2>1 DEF Kept, Preserved, IInv, Files
  <2> QED
    BY <1>1, <1>4, <2>2, <2>3 DEF Retires
<1> QED
  BY <1>5, <1>6, <1>7, <1>8 DEF IInv

\* A reader changes nothing but an empty stub where a daily file vanished.
LEMMA ReaderKeeps ==
  ASSUME IInv,
         \/ QueryBegins \/ QueryLists \/ QueryHot \/ QueryReturns \/ QueryForgotten
         \/ \E d \in Days : QueryArchive(d)
  PROVE  IInv' /\ Stays
<1>1. UNCHANGED <<site, aged, gz, art, index, indexed, enabled, rot, hk, retired>>
  BY DEF QueryBegins, QueryLists, QueryHot, QueryReturns, QueryForgotten, QueryArchive, readOnly
<1>2. \/ hot' = hot
      \/ hot[reader.day].file # "db" /\ hot' = [hot EXCEPT ![reader.day] = [NoFile EXCEPT !.file = "stub"]]
  BY DEF QueryBegins, QueryLists, QueryHot, QueryReturns, QueryForgotten, QueryArchive
<1>3. /\ hot' \in [Days -> [file: {"none", "db", "stub"}, rows: SUBSET Rows, wal: SUBSET Rows]]
      /\ \A d \in Days : \/ hot'[d] = hot[d]
                         \/ hot[d].file # "db" /\ hot'[d].file # "db" /\ hot'[d].rows = {}
                            /\ hot'[d].wal = {}
  <2> DEFINE stub == [NoFile EXCEPT !.file = "stub"]
  <2>1. /\ stub \in [file: {"none", "db", "stub"}, rows: SUBSET Rows, wal: SUBSET Rows]
        /\ stub.file # "db" /\ stub.rows = {} /\ stub.wal = {}
    BY DEF NoFile
  <2>2. hot' = hot \/ (hot[reader.day].file # "db" /\ hot' = [hot EXCEPT ![reader.day] = stub])
    BY <1>2
  <2> HIDE DEF stub
  <2>3. hot \in [Days -> [file: {"none", "db", "stub"}, rows: SUBSET Rows, wal: SUBSET Rows]]
    BY DEF IInv, StateTypes
  <2> QED
    BY <2>1, <2>2, <2>3
<1>4. StateTypes' /\ Files' /\ Modes' /\ Todo'
  BY <1>1, <1>3 DEF IInv, StateTypes, Files, Modes, Todo
<1>5. Cut' /\ Reclaim' /\ Copy'
  <2>1. ArchiveWhole(rot.day)' <=> ArchiveWhole(rot.day)
    BY <1>1 DEF ArchiveWhole
  <2>2. Cut'
    BY <1>1, <1>3, <2>1 DEF IInv, Cut, StateTypes
  <2>3. Reclaim'
    BY <1>1, <1>3, <2>1 DEF IInv, Reclaim, StateTypes
  <2>4. Copy'
    BY <1>1, <1>3 DEF IInv, Copy, StateTypes
  <2> QED
    BY <2>2, <2>3, <2>4
<1>6. Stays
  <2>1. \A d \in Days : Archived(d)' = Archived(d)
    BY <1>1 DEF Archived, ArchiveWhole
  <2>2. \A d \in Days : hot'[d].rows = hot[d].rows
    BY <1>3 DEF IInv, Files
  <2> QED
    BY <1>1, <2>1, <2>2 DEF Stays, Untouched, Kept, Preserved, Visible
<1> QED
  BY <1>4, <1>5, <1>6 DEF IInv

\* CrashRestart: files stay as they are, whatever was in progress is gone.
LEMMA CrashRestartKeeps ==
  ASSUME IInv, CrashRestart
  PROVE  IInv' /\ Stays
<1>1. /\ UNCHANGED <<site, aged, hot, gz, art, index, indexed, retired>>
      /\ enabled' \in {TRUE, ~site.legacy}
      /\ rot' = RotIdle /\ hk' = HkIdle
  BY DEF CrashRestart, fileVars
<1>2. rot' \in Rotations /\ rot'.pc = "idle"
  BY <1>1 DEF RotIdle, Rotations
<1>3. hk' \in Retentions /\ hk'.pc = "idle"
  BY <1>1 DEF HkIdle, Retentions
<1>4. site.legacy \in BOOLEAN
  BY ColdRotationAssumption DEF IInv, StateTypes
<1>5. StateTypes' /\ Files' /\ Modes'
  BY <1>1, <1>2, <1>3, <1>4 DEF IInv, StateTypes, Files, Modes
<1>6. Todo' /\ Cut' /\ Reclaim' /\ Copy'
  BY <1>2, <1>3 DEF Todo, Cut, Reclaim, Copy, Copying, Committed
<1>7. Stays
  BY <1>1, SameFilesStay
<1> QED
  BY <1>5, <1>6, <1>7 DEF IInv

-----------------------------------------------------------------------------
(* The theorem.                                                            *)

\* An installation begins with no files.
LEMMA InitIInv == Init => IInv /\ Store!Init
<1> SUFFICES ASSUME Init PROVE IInv /\ Store!Init
  OBVIOUS
<1>1. rot \in Rotations /\ rot.pc = "idle"
  BY DEF Init, RotIdle, Rotations
<1>2. hk \in Retentions /\ hk.pc = "idle"
  BY DEF Init, HkIdle, Retentions
<1>3. site.legacy \in BOOLEAN
  BY ColdRotationAssumption DEF Init
<1>4. /\ hot \in [Days -> [file: {"none", "db", "stub"}, rows: SUBSET Rows, wal: SUBSET Rows]]
      /\ gz \in [Days -> [file: {"none", "partial", "whole"}, rows: SUBSET Rows]]
      /\ \A d \in Days : hot[d].rows = {} /\ hot[d].wal = {} /\ gz[d].file = "none" /\ gz[d].rows = {}
  BY DEF Init, NoFile, NoGz
<1>5. StateTypes /\ Files
  BY <1>1, <1>2, <1>3, <1>4 DEF Init, StateTypes, Files
<1>6. Modes /\ Todo /\ Cut /\ Reclaim /\ Copy
  BY <1>1, <1>2, <1>3 DEF Init, Modes, Todo, Cut, Reclaim, Copy, Copying, Committed
<1>7. \A d \in Days : Preserved(d) \cap Covered = {}
  BY <1>4 DEF Init, Preserved, Visible, Archived
<1>8. Store!Init
  BY <1>7 DEF Init, Store!Init
<1> QED
  BY <1>5, <1>6, <1>8 DEF IInv

\* Every step keeps the invariant, and is a step of the abstract storage.
LEMMA NextIInv == IInv /\ [Next]_vars => IInv' /\ [Store!Next]_<<Preservation, retired>>
<1> SUFFICES ASSUME IInv, [Next]_vars PROVE IInv' /\ Maps
  BY MapsIsStoreStep
<1>1. CASE \E d \in Days : WriteRow(d) \/ Restore(d)
  BY <1>1, WriteRowKeeps, RestoreKeeps DEF Maps
<1>2. CASE \E d \in Days : DayAges(d) \/ Checkpoint(d)
  BY <1>2, DayAgesKeeps, CheckpointKeeps DEF Maps
<1>3. CASE PassBegins
  BY <1>3, PassBeginsKeeps DEF Maps
<1>4. CASE RotationStep
  <2>1. CASE VerifyFails \/ \E c \in rot.todo : SkipDay(c)
    BY <2>1, LeavingKeeps DEF Maps
  <2>2. CASE \E c \in rot.todo : TakeCut(c)
    BY <2>2, TakeCutKeeps DEF Maps
  <2>3. CASE OpenArtifact \/ CloseArtifact
    BY <2>3, ArtifactKeeps DEF Maps
  <2>4. CASE RotationFails
    BY <2>4, RotationFailsKeeps DEF Maps
  <2>5. CASE CommitIndex
    BY <2>5, CommitIndexKeeps
  <2>6. CASE VerifyCommitted
    BY <2>6, VerifyCommittedKeeps DEF Maps
  <2>7. CASE UnlinkSource
    BY <2>7, UnlinkSourceKeeps DEF Maps
  <2>8. CASE SweepBegins \/ PassEnds \/ \E d \in Days : SweepKeeps(d) \/ SweepProves(d)
    BY <2>8, SweepKeepsAll DEF Maps
  <2>9. CASE SweepUnlinks
    BY <2>9, SweepUnlinksKeeps DEF Maps
  <2> QED
    BY <1>4, <2>1, <2>2, <2>3, <2>4, <2>5, <2>6, <2>7, <2>8, <2>9 DEF RotationStep
<1>5. CASE CompressCopies \/ \E d \in Days : CompressBegins(d)
  BY <1>5, CompressKeeps
<1>6. CASE CompressUnlinks
  BY <1>6, CompressUnlinksKeeps
<1>7. CASE \E d \in Days : DeleteCompressed(d)
  BY <1>7, DeleteCompressedKeeps DEF Maps
<1>8. CASE \/ QueryBegins \/ QueryLists \/ QueryHot \/ QueryReturns \/ QueryForgotten
           \/ \E d \in Days : QueryArchive(d)
  BY <1>8, ReaderKeeps DEF Maps
<1>9. CASE CrashRestart
  BY <1>9, CrashRestartKeeps DEF Maps
<1>10. CASE UNCHANGED vars
  <2>1. UNCHANGED <<site, aged, hot, gz, art, index, indexed, enabled, rot, hk, retired>>
    BY <1>10 DEF vars, fileVars
  <2>2. IInv'
    BY <2>1 DEF IInv, StateTypes, Files, Modes, Todo, Cut, Reclaim, Copy, ArchiveWhole
  <2>3. Stays
    BY <2>1, SameFilesStay
  <2> QED
    BY <2>2, <2>3 DEF Maps
<1> QED
  BY <1>1, <1>2, <1>3, <1>4, <1>5, <1>6, <1>7, <1>8, <1>9, <1>10 DEF Next

\* ColdRotation implements DurableRows for readings, operator-log entries and
\* source rows: such a row leaves the last file that holds it only with an old
\* .gz that the retention deletes, or when the retention compresses a daily
\* file that still has a WAL.  A rotation pass, its sweep, a crash between any
\* two of their steps and the compression of a file without a WAL lose none.
THEOREM RotationKeepsRows == Spec => StoreSpec
<1>1. Init => IInv /\ Store!Init
  BY InitIInv
<1>2. IInv /\ [Next]_vars => IInv' /\ [Store!Next]_<<Preservation, retired>>
  BY NextIInv
<1> QED
  BY <1>1, <1>2, PTL DEF Spec, StoreSpec, Store!Spec, Preservation


-----------------------------------------------------------------------------
(* Queries.                                                                *)

\* The readings of a day that a query can still find, hot or behind its entry.
Filed(d) == IF d \in indexed THEN index[d] \cap Readings ELSE {}
Reachable(d) == (hot[d].rows \cap Readings) \cup Filed(d)

\* The readings of a day that the captured index promises.
Promised(d) == IF d \in reader.known THEN reader.snap[d] \cap Readings ELSE {}

\* A day that has been read has what was wanted of it; a day without a listed
\* file has all of it behind its entry.
Answered(d) ==
  /\ d \notin reader.seen => reader.want[d] \subseteq Promised(d)
  /\ IF reader.pc = "opening" /\ reader.day = d
     THEN Promised(d) \subseteq reader.got[d]
     ELSE d \notin reader.todo => reader.want[d] \subseteq reader.got[d]

Fresh ==
  /\ reader.snap = index
  /\ \A d \in Days : reader.want[d] \subseteq Reachable(d)
  /\ reader.pc # "listing" => \A d \in Days : Answered(d)

Asking == {"listing", "reading", "opening"}

\* While no day was indexed under it, a query misses nothing.
Asked ==
  enabled /\ reader.pc \in Asking =>
    reader.known \subseteq indexed /\ (reader.known = indexed => Fresh)

Readers ==
  [pc: {"idle", "done", "refused"} \cup Asking,
   snap: [Days -> SUBSET Rows], known: SUBSET Days, seen: SUBSET Days,
   todo: SUBSET Days, day: Days \cup {"none"},
   want: [Days -> SUBSET Rows], got: [Days -> SUBSET Rows]]

QInv == IInv /\ reader \in Readers /\ Asked /\ QueryComplete

\* A step of the engine leaves the reader alone and keeps every row in reach.
KeepsReach ==
  /\ reader' = reader /\ enabled' = enabled
  /\ enabled => /\ indexed \subseteq indexed'
                /\ indexed' = indexed => index' = index
                /\ \A d \in Days : Reachable(d) \subseteq Reachable(d)'

\* Such a step takes nothing from a query.
LEMMA ReachIsEnough ==
  ASSUME QInv, KeepsReach
  PROVE  Asked' /\ QueryComplete'
<1>1. QueryComplete'
  BY DEF QInv, QueryComplete, KeepsReach
<1>2. ASSUME enabled', reader'.pc \in Asking
      PROVE  reader'.known \subseteq indexed' /\ (reader'.known = indexed' => Fresh')
  <2>1. /\ reader' = reader /\ enabled /\ reader.pc \in Asking
        /\ reader.known \subseteq indexed /\ indexed \subseteq indexed'
    BY <1>2 DEF QInv, Asked, KeepsReach
  <2>2. ASSUME reader'.known = indexed' PROVE Fresh'
    <3>1. reader.known = indexed /\ indexed' = indexed
      BY <2>1, <2>2
    <3>2. Fresh /\ index' = index
      BY <2>1, <3>1 DEF QInv, Asked, KeepsReach
    <3>3. \A d \in Days : Answered(d)' <=> Answered(d)
      BY <2>1 DEF Answered, Promised
    <3>4. \A d \in Days : reader.want[d] \subseteq Reachable(d)'
      BY <2>1, <3>2 DEF Fresh, KeepsReach
    <3> QED
      BY <2>1, <3>2, <3>3, <3>4 DEF Fresh
  <2> QED
    BY <2>1, <2>2
<1> QED
  BY <1>1, <1>2 DEF Asked

\* Where neither the daily files nor the index change, the reach stays.
LEMMA SameReach ==
  ASSUME UNCHANGED <<reader, enabled, hot, indexed, index>>
  PROVE  KeepsReach
BY DEF KeepsReach, Reachable, Filed

\* The engine's steps: what leaves a daily file is behind its entry.
LEMMA EngineKeepsReach ==
  ASSUME QInv,
         \/ \E d \in Days : WriteRow(d) \/ DayAges(d) \/ Checkpoint(d) \/ Restore(d)
         \/ PassBegins \/ RotationStep
         \/ \E d \in Days : CompressBegins(d) \/ DeleteCompressed(d)
         \/ CompressCopies \/ CompressUnlinks
  PROVE  KeepsReach
<1>1. /\ hot \in [Days -> [file: {"none", "db", "stub"}, rows: SUBSET Rows, wal: SUBSET Rows]]
      /\ index \in [Days -> SUBSET Rows]
  BY DEF QInv, IInv, StateTypes
<1>2. ASSUME NEW d \in Days, WriteRow(d) \/ Restore(d) \/ Checkpoint(d) PROVE KeepsReach
  <2>1. UNCHANGED <<reader, enabled, indexed, index>>
    BY <1>2 DEF WriteRow, Restore, Checkpoint
  <2>2. \A e \in Days : hot[e].rows \subseteq hot'[e].rows
    <3>1. CASE WriteRow(d)
      <4>1. PICK row, wal : hot' = [hot EXCEPT ![d] = [file |-> "db", rows |-> hot[d].rows \cup {row},
                                                       wal |-> wal]]
        BY <3>1, <1>1 DEF WriteRow
      <4> QED
        BY <4>1, <1>1
    <3>2. CASE Restore(d)
      <4>1. PICK old, new :
              hot' = [hot EXCEPT ![d] = [file |-> "db", rows |-> old \cup new, wal |-> {}]]
        BY <3>2 DEF Restore
      <4>2. hot[d].rows = {}
        BY <3>2 DEF Restore, QInv, IInv, Files
      <4> QED
        BY <4>1, <4>2, <1>1
    <3>3. CASE Checkpoint(d)
      BY <3>3, <1>1 DEF Checkpoint
    <3> QED
      BY <1>2, <3>1, <3>2, <3>3
  <2> QED
    BY <2>1, <2>2 DEF KeepsReach, Reachable, Filed
<1>3. ASSUME UNCHANGED <<reader, enabled, indexed, index>>, rot.day \in indexed, rot.day \in Days,
             \/ hot' = hot
             \/ hot' = [hot EXCEPT ![rot.day] = NoFile] /\ hot[rot.day].rows = index[rot.day]
      PROVE  KeepsReach
  <2>1. \A e \in Days : hot[e].rows \subseteq hot'[e].rows \/ (e = rot.day /\ hot[e].rows = index[e])
    BY <1>1, <1>3
  <2> QED
    BY <1>3, <2>1 DEF KeepsReach, Reachable, Filed
<1>4. CASE UnlinkSource
  <2>1. /\ UNCHANGED <<reader, enabled, indexed, index>> /\ rot.pc = "unlink"
        /\ hot' = hot \/ (rot.from = "hot" /\ hot' = [hot EXCEPT ![rot.day] = NoFile])
    BY <1>4 DEF UnlinkSource
  <2>2. /\ rot.day \in indexed /\ rot.day \in Days
        /\ rot.from = "hot" => hot[rot.day].rows = index[rot.day]
    BY <2>1 DEF QInv, IInv, Cut, StateTypes, Copying, Committed
  <2> QED
    BY <1>3, <2>1, <2>2
<1>5. CASE SweepUnlinks
  <2>1. /\ UNCHANGED <<reader, enabled, indexed, index>> /\ rot.pc = "reclaim"
        /\ hot' = hot \/ hot' = [hot EXCEPT ![rot.day] = NoFile]
    BY <1>5 DEF SweepUnlinks
  <2>2. rot.day \in indexed /\ rot.day \in Days /\ hot[rot.day].rows = index[rot.day]
    BY <2>1 DEF QInv, IInv, Reclaim, StateTypes
  <2> QED
    BY <1>3, <2>1, <2>2
<1>6. CASE CommitIndex
  <2>1. /\ UNCHANGED <<reader, enabled, hot>> /\ rot.pc = "index"
        /\ indexed' = indexed \cup {rot.day} /\ index' = [index EXCEPT ![rot.day] = rot.cut]
    BY <1>6 DEF CommitIndex
  <2>2. rot.day \notin indexed
    BY <2>1 DEF QInv, IInv, Cut, Copying
  <2>3. \A d \in Days : Filed(d) \subseteq Filed(d)'
    BY <2>1, <2>2, <1>1 DEF Filed
  <2> QED
    BY <2>1, <2>2, <2>3 DEF KeepsReach, Reachable
<1>7. CASE CompressUnlinks
  <2>1. ~enabled /\ UNCHANGED <<reader, enabled>>
    BY <1>7 DEF CompressUnlinks, QInv, IInv, Modes
  <2> QED
    BY <2>1 DEF KeepsReach
<1>8. CASE \/ \E d \in Days : DayAges(d) \/ CompressBegins(d) \/ DeleteCompressed(d)
           \/ PassBegins \/ CompressCopies
           \/ \E c \in rot.todo : SkipDay(c) \/ TakeCut(c)
           \/ OpenArtifact \/ CloseArtifact \/ RotationFails
           \/ VerifyCommitted \/ VerifyFails \/ SweepBegins \/ PassEnds
           \/ \E d \in Days : SweepProves(d) \/ SweepKeeps(d)
  <2>1. UNCHANGED <<reader, enabled, hot, indexed, index>>
    BY <1>8 DEF DayAges, CompressBegins, DeleteCompressed, PassBegins, CompressCopies, SkipDay,
                TakeCut, OpenArtifact, CloseArtifact, RotationFails, VerifyCommitted, VerifyFails,
                SweepBegins, PassEnds, SweepProves, SweepKeeps, rotOnly, fileVars
  <2> QED
    BY <2>1, SameReach
<1> QED
  BY <1>2, <1>4, <1>5, <1>6, <1>7, <1>8 DEF RotationStep

\* QueryBegins: what is wanted is what is visible, and nothing is read yet.
LEMMA QueryBeginsKeeps ==
  ASSUME QInv, QueryBegins
  PROVE  reader' \in Readers /\ Asked' /\ QueryComplete'
<1>1. UNCHANGED <<hot, index, indexed, enabled>>
  BY DEF QueryBegins, readOnly
<1> DEFINE visible == [d \in Days |-> Visible(d) \cap Readings]
<1>2. visible \in [Days -> SUBSET Rows] /\ index \in [Days -> SUBSET Rows] /\ indexed \in SUBSET Days
  <2>1. \A d \in Days : Visible(d) \cap Readings \in SUBSET Rows
    BY PreservedType DEF QInv, IInv
  <2> QED
    BY <2>1 DEF QInv, IInv, StateTypes
<1>3. reader' = [ReaderIdle EXCEPT !.pc = "listing", !.snap = index, !.known = indexed, !.want = visible]
  BY DEF QueryBegins
<1> HIDE DEF visible
<1>4. /\ reader'.pc = "listing" /\ reader'.snap = index /\ reader'.known = indexed
      /\ reader'.want = visible
  BY <1>3 DEF ReaderIdle
<1>5. reader' \in Readers
  <2>1. ReaderIdle \in Readers
    BY DEF ReaderIdle, Readers
  <2> QED
    BY <1>2, <1>3, <2>1 DEF Readers, Asking
<1>6. \A d \in Days : Visible(d) \cap Readings \subseteq Reachable(d)
  BY DEF Visible, Archived, Reachable, Filed
<1>7. \A d \in Days : visible[d] \subseteq Reachable(d)'
  BY <1>1, <1>6 DEF visible, Reachable, Filed
<1> QED
  BY <1>1, <1>4, <1>5, <1>7 DEF Asked, Fresh, QueryComplete

\* QueryLists: a day with neither a listed file nor an entry has nothing.
LEMMA QueryListsKeeps ==
  ASSUME QInv, QueryLists
  PROVE  reader' \in Readers /\ Asked' /\ QueryComplete'
<1>1. UNCHANGED <<hot, index, indexed, enabled>> /\ reader.pc = "listing"
  BY DEF QueryLists, readOnly
<1> DEFINE dbs == {d \in Days : hot[d].file # "none"}
<1>2. /\ reader' = [reader EXCEPT !.pc = "reading", !.seen = dbs, !.todo = dbs \cup reader.known]
      /\ dbs \in SUBSET Days /\ \A d \in Days : d \notin dbs => hot[d].rows = {}
  BY DEF QueryLists, QInv, IInv, Files
<1> HIDE DEF dbs
<1>3. /\ reader'.pc = "reading" /\ reader'.snap = reader.snap /\ reader'.known = reader.known
      /\ reader'.want = reader.want /\ reader'.seen = dbs /\ reader'.todo = dbs \cup reader.known
  BY <1>2 DEF QInv, Readers
<1>4. reader' \in Readers
  BY <1>2 DEF QInv, Readers, Asking
<1>5. ASSUME enabled, reader.known = indexed PROVE Fresh'
  <2>1. Fresh
    BY <1>1, <1>5 DEF QInv, Asked, Asking
  <2>2. \A d \in Days : Reachable(d)' = Reachable(d) /\ Promised(d)' = Promised(d)
    BY <1>1, <1>3 DEF Reachable, Filed, Promised
  <2>3. \A d \in Days : Promised(d) = Filed(d)
    BY <1>5, <2>1 DEF Promised, Filed, Fresh
  <2>4. ASSUME NEW d \in Days PROVE Answered(d)'
    <3>1. d \notin dbs => reader.want[d] \subseteq Promised(d)
      BY <1>2, <2>1, <2>3 DEF Fresh, Reachable
    <3>2. d \notin dbs \cup reader.known => reader.want[d] = {}
      BY <3>1 DEF Promised
    <3> QED
      BY <1>3, <2>2, <3>1, <3>2 DEF Answered
  <2> QED
    BY <1>1, <1>3, <2>1, <2>2, <2>4 DEF Fresh
<1> QED
  BY <1>1, <1>3, <1>4, <1>5 DEF QInv, Asked, Asking, QueryComplete

\* QueryArchive: a day without a listed file is answered by its entry alone.
LEMMA QueryArchiveKeeps ==
  ASSUME QInv, NEW d \in Days, QueryArchive(d)
  PROVE  reader' \in Readers /\ Asked' /\ QueryComplete'
<1>1. UNCHANGED <<hot, index, indexed, enabled>> /\ reader.pc = "reading" /\ d \in reader.todo
  BY DEF QueryArchive, readOnly
<1> DEFINE got == [reader.got EXCEPT ![d] = Promised(d)]
<1>2. PICK pc \in {"refused", "reading", "opening"} :
        /\ reader' = [reader EXCEPT !.todo = reader.todo \ {d}, !.day = d, !.got = got, !.pc = pc]
        /\ pc = "reading" => d \notin reader.seen
  <2> DEFINE cold == d \in reader.known
             readable == ~cold \/ \A a \in Needed(reader.snap[d]) : art[d][a] = "whole"
             next == CASE ~readable -> "refused"
                       [] d \notin reader.seen -> "reading"
                       [] d \in reader.seen /\ hot[d].file # "none" -> "opening"
                       [] OTHER -> "refused"
  <2>1. reader' = [reader EXCEPT !.todo = reader.todo \ {d}, !.day = d, !.got = got, !.pc = next]
    BY DEF QueryArchive, Promised
  <2>2. next \in {"refused", "reading", "opening"} /\ (next = "reading" => d \notin reader.seen)
    OBVIOUS
  <2> QED
    BY <2>1, <2>2
<1>3. got \in [Days -> SUBSET Rows] /\ got[d] = Promised(d) /\ \A e \in Days \ {d} : got[e] = reader.got[e]
  <2>1. Promised(d) \in SUBSET Rows
    BY DEF QInv, Readers, Promised
  <2> QED
    BY <2>1 DEF QInv, Readers
<1> HIDE DEF got
<1>4. /\ reader'.pc = pc /\ reader'.todo = reader.todo \ {d}
      /\ reader'.day = d /\ reader'.got = got
      /\ reader'.snap = reader.snap /\ reader'.known = reader.known
      /\ reader'.want = reader.want /\ reader'.seen = reader.seen
  BY <1>2 DEF QInv, Readers
<1>5. reader' \in Readers
  BY <1>2, <1>3 DEF QInv, Readers, Asking
<1>6. ASSUME enabled, reader.known = indexed, pc # "refused" PROVE Fresh'
  <2>1. Fresh
    BY <1>1, <1>6 DEF QInv, Asked, Asking
  <2>2. \A e \in Days : Reachable(e)' = Reachable(e) /\ Promised(e)' = Promised(e)
    BY <1>1, <1>4 DEF Reachable, Filed, Promised
  <2>3. \A e \in Days : Answered(e)
    BY <1>1, <2>1 DEF Fresh
  <2>4. ASSUME NEW e \in Days PROVE Answered(e)'
    <3>1. CASE e = d
      <4>1. Answered(d) /\ Promised(d)' = Promised(d) /\ reader'.got[d] = Promised(d)
        BY <1>3, <1>4, <2>2, <2>3, <3>1
      <4>2. reader.pc # "opening" /\ (pc = "reading" => reader.want[d] \subseteq Promised(d))
        BY <1>1, <1>2, <4>1 DEF Answered
      <4>3. d \notin reader'.seen => reader'.want[d] \subseteq Promised(d)'
        BY <1>4, <4>1 DEF Answered
      <4>4. pc = "reading" \/ pc = "opening"
        BY <1>6
      <4> QED
        BY <1>4, <3>1, <4>1, <4>2, <4>3, <4>4 DEF Answered
    <3>2. CASE e # d
      BY <1>1, <1>3, <1>4, <2>2, <2>3, <3>2 DEF Answered
    <3> QED
      BY <3>1, <3>2
  <2> QED
    BY <1>1, <1>4, <2>1, <2>2, <2>4 DEF Fresh
<1> QED
  BY <1>1, <1>2, <1>4, <1>5, <1>6 DEF QInv, Asked, Asking, QueryComplete

\* QueryHot: what is wanted and not behind the entry still is in the daily
\* file that is read, or the query is refused.
LEMMA QueryHotKeeps ==
  ASSUME QInv, QueryHot
  PROVE  reader' \in Readers /\ Asked' /\ QueryComplete'
<1> DEFINE d == reader.day
<1>1. UNCHANGED <<index, indexed, enabled>> /\ reader.pc = "opening"
  BY DEF QueryHot, readOnly
<1>2. CASE hot[d].file # "db"
  <2>1. reader' = [reader EXCEPT !.pc = "refused"]
    BY <1>2 DEF QueryHot
  <2> QED
    BY <2>1 DEF QInv, Readers, Asking, Asked, QueryComplete
<1>3. CASE hot[d].file = "db"
  <2> DEFINE got == [reader.got EXCEPT ![d] = @ \cup (hot[d].rows \cap Readings)]
  <2>1. reader' = [reader EXCEPT !.pc = "reading", !.got = got] /\ hot' = hot
    BY <1>3 DEF QueryHot, QInv, Readers
  <2>2. /\ got \in [Days -> SUBSET Rows]
        /\ \A e \in Days : got[e] = IF e = d THEN reader.got[e] \cup (hot[e].rows \cap Readings) ELSE reader.got[e]
    BY DEF QInv, Readers, IInv, StateTypes
  <2> HIDE DEF got
  <2>3. /\ reader'.pc = "reading" /\ reader'.todo = reader.todo /\ reader'.got = got
        /\ reader'.snap = reader.snap /\ reader'.known = reader.known
        /\ reader'.want = reader.want /\ reader'.seen = reader.seen
    BY <2>1 DEF QInv, Readers
  <2>4. reader' \in Readers
    BY <2>1, <2>2 DEF QInv, Readers, Asking
  <2>5. ASSUME enabled, reader.known = indexed PROVE Fresh'
    <3>1. Fresh
      BY <1>1, <2>5 DEF QInv, Asked, Asking
    <3>2. \A e \in Days : Reachable(e)' = Reachable(e) /\ Promised(e)' = Promised(e)
      BY <1>1, <2>1, <2>3 DEF Reachable, Filed, Promised
    <3>3. \A e \in Days : Answered(e) /\ Promised(e) = Filed(e)
      BY <1>1, <2>5, <3>1 DEF Fresh, Promised, Filed
    <3>4. ASSUME NEW e \in Days PROVE Answered(e)'
      <4>1. CASE e = d
        <5>1. reader.want[e] \subseteq reader.got[e] \cup (hot[e].rows \cap Readings)
          BY <1>1, <3>1, <3>3, <4>1 DEF Answered, Fresh, Reachable
        <5> QED
          BY <2>2, <2>3, <3>2, <3>3, <4>1, <5>1 DEF Answered
      <4>2. CASE e # d
        BY <1>1, <2>2, <2>3, <3>2, <3>3, <4>2 DEF Answered
      <4> QED
        BY <4>1, <4>2
    <3> QED
      BY <1>1, <2>3, <3>1, <3>2, <3>4 DEF Fresh
  <2> QED
    BY <1>1, <2>3, <2>4, <2>5 DEF QInv, Asked, Asking, QueryComplete
<1> QED
  BY <1>2, <1>3

\* QueryReturns: the index is what it was, so every day is answered.
LEMMA QueryReturnsKeeps ==
  ASSUME QInv, QueryReturns
  PROVE  reader' \in Readers /\ Asked' /\ QueryComplete'
<1>1. UNCHANGED <<hot, index, indexed, enabled>> /\ reader.pc = "reading" /\ reader.todo = {}
  BY DEF QueryReturns, readOnly
<1>2. PICK pc \in {"done", "refused"} :
        reader' = [reader EXCEPT !.pc = pc] /\ (pc = "done" => reader.known = indexed)
  BY DEF QueryReturns
<1>3. reader' \in Readers /\ reader'.pc = pc /\ reader'.want = reader.want /\ reader'.got = reader.got
  BY <1>2 DEF QInv, Readers
<1>4. ASSUME enabled, pc = "done", NEW d \in Days PROVE reader.want[d] \subseteq reader.got[d]
  <2>1. Answered(d)
    BY <1>1, <1>2, <1>4 DEF QInv, Asked, Asking, Fresh
  <2> QED
    BY <1>1, <2>1 DEF Answered
<1> QED
  BY <1>1, <1>2, <1>3, <1>4 DEF Asked, Asking, QueryComplete

\* A forgotten query, and one whose process died, asks for nothing.
LEMMA QueryEndsKeeps ==
  ASSUME reader' = ReaderIdle
  PROVE  reader' \in Readers /\ Asked' /\ QueryComplete'
BY DEF ReaderIdle, Readers, Asked, Asking, QueryComplete

LEMMA InitQInv == Init => QInv
<1> SUFFICES ASSUME Init PROVE QInv
  OBVIOUS
<1>1. reader \in Readers /\ reader.pc = "idle"
  BY DEF Init, ReaderIdle, Readers
<1> QED
  BY <1>1, InitIInv DEF QInv, Asked, Asking, QueryComplete

LEMMA NextQInv == QInv /\ [Next]_vars => QInv'
<1> SUFFICES ASSUME QInv, [Next]_vars PROVE reader' \in Readers /\ Asked' /\ QueryComplete'
  BY NextIInv DEF QInv
<1>1. ASSUME KeepsReach PROVE reader' \in Readers /\ Asked' /\ QueryComplete'
  <2>1. reader' = reader
    BY <1>1 DEF KeepsReach
  <2> QED
    BY <1>1, <2>1, ReachIsEnough DEF QInv
<1>2. CASE \/ \E d \in Days : WriteRow(d) \/ DayAges(d) \/ Checkpoint(d) \/ Restore(d)
           \/ PassBegins \/ RotationStep
           \/ \E d \in Days : CompressBegins(d) \/ DeleteCompressed(d)
           \/ CompressCopies \/ CompressUnlinks
  BY <1>1, <1>2, EngineKeepsReach
<1>3. CASE QueryBegins
  BY <1>3, QueryBeginsKeeps
<1>4. CASE QueryLists
  BY <1>4, QueryListsKeeps
<1>5. CASE \E d \in Days : QueryArchive(d)
  BY <1>5, QueryArchiveKeeps
<1>6. CASE QueryHot
  BY <1>6, QueryHotKeeps
<1>7. CASE QueryReturns
  BY <1>7, QueryReturnsKeeps
<1>8. CASE QueryForgotten \/ CrashRestart
  BY <1>8, QueryEndsKeeps DEF QueryForgotten, CrashRestart
<1>9. CASE UNCHANGED vars
  <2>1. KeepsReach
    BY <1>9, SameReach DEF vars, fileVars
  <2> QED
    BY <1>1, <2>1
<1> QED
  BY <1>2, <1>3, <1>4, <1>5, <1>6, <1>7, <1>8, <1>9 DEF Next

\* A query of an engine that rotates, once it returns, has every reading that was
\* visible when it began, however days were rotated, swept and restored under
\* it (archive_reader.py, query_rows).
THEOREM QueriesMissNothing == Spec => []QueryComplete
<1>1. Init => QInv
  BY InitQInv
<1>2. QInv /\ [Next]_vars => QInv'
  BY NextQInv
<1>3. QInv => QueryComplete
  BY DEF QInv
<1> QED
  BY <1>1, <1>2, <1>3, PTL DEF Spec

-----------------------------------------------------------------------------
(* The types.                                                              *)

\* What the invariants above do not say: a WAL row is a row of its file, only
\* days are blocked, and the bounds of the installation hold.
Accounts ==
  /\ \A d \in Days : hot[d].wal \subseteq hot[d].rows
  /\ blocked \subseteq Days
  /\ crashes \in 0..site.crashes /\ restores \in 0..site.restores

\* Only a crash and a restored file are counted, and only a failed
\* verification blocks a day.
LEMMA BookkeepingKeeps ==
  ASSUME QInv, Accounts, [Next]_vars
  PROVE  /\ blocked' \subseteq Days
         /\ crashes' \in 0..site'.crashes /\ restores' \in 0..site'.restores
<1>1. /\ site' = site
      /\ blocked' \subseteq blocked \/ VerifyFails
      /\ crashes' = crashes \/ (crashes < site.crashes /\ crashes' = crashes + 1)
      /\ restores' = restores \/ (restores < site.restores /\ restores' = restores + 1)
  BY DEF Next, RotationStep, WriteRow, DayAges, Restore, PassBegins, SkipDay, TakeCut, OpenArtifact,
         CloseArtifact, RotationFails, CommitIndex, VerifyCommitted, VerifyFails, UnlinkSource,
         SweepBegins, SweepProves, SweepKeeps, SweepUnlinks, PassEnds, CompressBegins,
         DeleteCompressed, CompressCopies, CompressUnlinks, QueryBegins, QueryLists, QueryArchive,
         Checkpoint, QueryHot, QueryReturns, QueryForgotten, CrashRestart, vars, rotOnly, readOnly
<1>2. site.crashes \in Nat /\ site.restores \in Nat
  BY ColdRotationAssumption DEF QInv, IInv, StateTypes
<1>3. VerifyFails => blocked' \subseteq Days
  <2>1. VerifyFails => rot.day \in Days /\ blocked' = blocked \cup {rot.day}
    BY DEF VerifyFails, QInv, IInv, Cut, Committed, StateTypes
  <2> QED
    BY <2>1 DEF Accounts
<1> QED
  BY <1>1, <1>2, <1>3 DEF Accounts

\* A row enters the WAL with the file, and leaves it for the main file or with
\* the file.
LEMMA WalKeeps ==
  ASSUME QInv, Accounts, [Next]_vars
  PROVE  \A d \in Days : hot'[d].wal \subseteq hot'[d].rows
<1>1. hot \in [Days -> [file: {"none", "db", "stub"}, rows: SUBSET Rows, wal: SUBSET Rows]]
  BY DEF QInv, IInv, StateTypes
<1>2. ASSUME NEW d \in Days, WriteRow(d) PROVE \A e \in Days : hot'[e].wal \subseteq hot'[e].rows
  <2>1. PICK row \in site.rows \ (hot[d].rows \cup {"extra"}), w \in {FALSE, site.wal} :
          hot' = [hot EXCEPT ![d] = [file |-> "db", rows |-> hot[d].rows \cup {row},
                                     wal |-> IF w THEN hot[d].wal \cup {row} ELSE hot[d].wal]]
    BY <1>2 DEF WriteRow, QInv, IInv, StateTypes
  <2> QED
    BY <1>1, <2>1 DEF Accounts
<1>3. ASSUME NEW d \in Days, Restore(d) PROVE \A e \in Days : hot'[e].wal \subseteq hot'[e].rows
  <2>1. PICK old, new :
          hot' = [hot EXCEPT ![d] = [file |-> "db", rows |-> old \cup new, wal |-> {}]]
    BY <1>3 DEF Restore
  <2> QED
    BY <1>1, <2>1 DEF Accounts
<1>4. ASSUME UnlinkSource \/ SweepUnlinks \/ CompressUnlinks \/ QueryHot
      PROVE  \A e \in Days : hot'[e].wal \subseteq hot'[e].rows
  <2>1. PICK d, file : hot' = hot \/ hot' = [hot EXCEPT ![d] = [NoFile EXCEPT !.file = file]]
    <3>1. NoFile = [NoFile EXCEPT !.file = "none"]
      BY DEF NoFile
    <3>2. \/ hot' = hot
          \/ \E d : hot' = [hot EXCEPT ![d] = NoFile]
          \/ hot' = [hot EXCEPT ![reader.day] = [NoFile EXCEPT !.file = "stub"]]
      BY <1>4 DEF UnlinkSource, SweepUnlinks, CompressUnlinks, QueryHot
    <3> QED
      BY <3>1, <3>2
  <2> DEFINE empty == [NoFile EXCEPT !.file = file]
  <2>2. empty.wal = {} /\ empty.rows = {}
    BY DEF NoFile
  <2>3. hot' = hot \/ hot' = [hot EXCEPT ![d] = empty]
    BY <2>1
  <2> HIDE DEF empty
  <2> QED
    BY <1>1, <2>2, <2>3 DEF Accounts
<1>5. \/ hot' = hot
      \/ \E d \in Days : WriteRow(d) \/ Restore(d) \/ Checkpoint(d)
      \/ UnlinkSource \/ SweepUnlinks \/ CompressUnlinks \/ QueryHot
  BY DEF Next, RotationStep, DayAges, PassBegins, SkipDay, TakeCut, OpenArtifact,
         CloseArtifact, RotationFails, CommitIndex, VerifyCommitted, VerifyFails,
         SweepBegins, SweepProves, SweepKeeps, PassEnds, CompressBegins,
         DeleteCompressed, CompressCopies, QueryBegins, QueryLists, QueryArchive,
         QueryReturns, QueryForgotten, CrashRestart, vars, rotOnly, readOnly, fileVars
<1>6. ASSUME NEW d \in Days, Checkpoint(d) PROVE \A e \in Days : hot'[e].wal \subseteq hot'[e].rows
  BY <1>1, <1>6 DEF Checkpoint, Accounts
<1> QED
  BY <1>2, <1>3, <1>4, <1>5, <1>6 DEF Accounts

LEMMA TypesFollow == QInv /\ Accounts => TypeOK
BY DEF QInv, IInv, StateTypes, Files, Rotations, Retentions, Copying, Committed, Readers, Asking,
       Accounts, TypeOK

\* Files, cursors and counters stay what the code can make of them: a WAL row
\* is a row of its file, only a daily file holds rows, and neither a crash nor
\* a restored file exceeds its bound.
THEOREM RotationKeepsTypes == Spec => []TypeOK
<1>1. Init => QInv /\ Accounts
  <2> SUFFICES ASSUME Init PROVE QInv /\ Accounts
    OBVIOUS
  <2>1. \A d \in Days : hot[d].wal \subseteq hot[d].rows
    BY DEF Init, NoFile
  <2>2. crashes \in 0..site.crashes /\ restores \in 0..site.restores /\ blocked = {}
    BY ColdRotationAssumption DEF Init
  <2> QED
    BY <2>1, <2>2, InitQInv DEF Accounts
<1>2. QInv /\ Accounts /\ [Next]_vars => QInv' /\ Accounts'
  BY NextQInv, BookkeepingKeeps, WalKeeps DEF Accounts
<1> QED
  BY <1>1, <1>2, TypesFollow, PTL DEF Spec

=============================================================================

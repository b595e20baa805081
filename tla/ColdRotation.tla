---------------------------- MODULE ColdRotation ----------------------------
(***************************************************************************)
(* The life of a finished day's data: the daily SQLite file, its rotation  *)
(* into Parquet artifacts and an index (storage/cold_rotation.py), the     *)
(* older gzip retention (core/housekeeping.py), and a reader that queries  *)
(* hot and cold files while all this goes on (storage/archive_reader.py).  *)
(*                                                                         *)
(* A day is its set of rows; what a row is called says what decides its    *)
(* fate: a "reading", an operator-"log" entry, a "source" row (no export   *)
(* exists, so its day is not rotated), a row of the "experiments" table    *)
(* (no export exists, and its day is rotated all the same), an "extra"     *)
(* reading that only a restored file holds.                                *)
(* The process may die between any two file operations; what was written   *)
(* before stays written (no power failures).                               *)
(***************************************************************************)
EXTENDS Naturals, FiniteSets

CONSTANTS Days,     \* days, each with its own daily file
          Sites     \* installations; a behaviour belongs to one of them

Rows == {"reading", "log", "source", "experiments", "extra"}

Readings == {"reading", "extra"}            \* what query_rows returns
Exported == Readings \cup {"log"}            \* what a rotation writes to Parquet
Covered == Exported \cup {"source"}          \* what it writes, or leaves its day alone for

ASSUME ColdRotationAssumption ==
  Sites \subseteq
    [days: SUBSET Days, rows: SUBSET Rows,
     legacy: BOOLEAN,    \* the engine may run with cold rotation switched off
     wal: BOOLEAN,       \* a day may end with rows in its WAL only
     queried: BOOLEAN,   \* somebody queries the archive
     crashes: Nat,       \* bound: crashes in a behaviour
     restores: Nat]      \* bound: daily files an operator puts back

Artifacts == {"readings", "descriptors", "log"}

VARIABLES
  site,       \* the installation
  aged,       \* days older than age_days; the others still accept rows
  hot,        \* data_D.db: the file, its rows, and those only in its WAL
  gz,         \* data_D.db.gz
  art,        \* Parquet artifacts of a day on disk
  index,      \* index.json: per day the digest of its source, all rows of it
  indexed,    \* days with an entry
  enabled,    \* cold_rotation.enabled of this engine run
  rot,        \* the rotation pass
  blocked,    \* ColdRotationService._sweep_blocked
  hk,         \* the retention action being applied
  reader,     \* one ArchiveReader.query_rows over all days
  retired,    \* rows the retention deleted with a .gz, or left in a WAL
  crashes, restores

fileVars == <<hot, gz, art, index, indexed>>
vars == <<site, aged, fileVars, enabled, rot, blocked, hk, reader, retired, crashes, restores>>

NoFile == [file |-> "none", rows |-> {}, wal |-> {}]
NoGz == [file |-> "none", rows |-> {}]
RotIdle == [pc |-> "idle", todo |-> {}, day |-> "none", from |-> "hot", cut |-> {},
            left |-> {}, owned |-> {}]
HkIdle == [pc |-> "idle", day |-> "none", clean |-> TRUE]
ReaderIdle == [pc |-> "idle", snap |-> [d \in Days |-> {}], known |-> {}, seen |-> {}, todo |-> {},
               day |-> "none", want |-> [d \in Days |-> {}], got |-> [d \in Days |-> {}]]

TypeOK ==
  /\ site \in Sites
  /\ aged \subseteq Days /\ indexed \subseteq Days /\ blocked \subseteq Days
  /\ hot \in [Days -> [file: {"none", "db", "stub"}, rows: SUBSET Rows, wal: SUBSET Rows]]
  /\ \A d \in Days : hot[d].wal \subseteq hot[d].rows /\ (hot[d].file # "db" => hot[d].rows = {})
  /\ gz \in [Days -> [file: {"none", "partial", "whole"}, rows: SUBSET Rows]]
  /\ art \in [Days -> [Artifacts -> {"none", "partial", "whole"}]]
  /\ index \in [Days -> SUBSET Rows]
  /\ enabled \in BOOLEAN
  /\ rot \in [pc: {"idle", "next", "write", "close", "index", "verify", "unlink", "sweep", "reclaim"},
              todo: SUBSET (Days \X {"hot", "gz"}), day: Days \cup {"none"},
              from: {"hot", "gz"}, cut: SUBSET Rows, left: SUBSET Artifacts, owned: SUBSET Artifacts]
  /\ hk \in [pc: {"idle", "copy", "copied"}, day: Days \cup {"none"}, clean: BOOLEAN]
  /\ reader \in [pc: {"idle", "listing", "reading", "opening", "done", "refused"},
                 snap: [Days -> SUBSET Rows], known: SUBSET Days, seen: SUBSET Days,
                 todo: SUBSET Days, day: Days \cup {"none"},
                 want: [Days -> SUBSET Rows], got: [Days -> SUBSET Rows]]
  /\ retired \in [Days -> SUBSET Covered]
  /\ crashes \in 0..site.crashes /\ restores \in 0..site.restores

Init ==
  /\ site \in Sites
  /\ aged = {} /\ indexed = {} /\ blocked = {}
  /\ hot = [d \in Days |-> NoFile]
  /\ gz = [d \in Days |-> NoGz]
  /\ art = [d \in Days |-> [a \in Artifacts |-> "none"]]
  /\ index = [d \in Days |-> {}]
  /\ enabled \in {TRUE, ~site.legacy}
  /\ rot = RotIdle /\ hk = HkIdle /\ reader = ReaderIdle
  /\ retired = [d \in Days |-> {}]
  /\ crashes = 0 /\ restores = 0

-----------------------------------------------------------------------------
(* What the files of a day hold.                                           *)

\* Which artifacts an entry for these rows refers to.
Needed(rows) ==
  {"readings", "descriptors"} \cup (IF "log" \in rows THEN {"log"} ELSE {})

ArchiveWhole(d) == \A a \in Needed(index[d]) : art[d][a] = "whole"

\* The entry identifies the whole source; the artifacts hold what is exported.
Archived(d) == IF d \in indexed /\ ArchiveWhole(d) THEN index[d] \cap Exported ELSE {}

\* Rows a reader can reach, and rows that exist at all.
Visible(d) == hot[d].rows \cup Archived(d)
Preserved(d) == Visible(d) \cup (IF gz[d].file = "whole" THEN gz[d].rows ELSE {})

-----------------------------------------------------------------------------
(* Days fill up and grow old.                                              *)

\* A row is committed to a day that is not old enough to be rotated.
WriteRow(d) ==
  /\ d \in site.days \ aged
  /\ \E row \in site.rows \ (hot[d].rows \cup {"extra"}), w \in {FALSE, site.wal} :
       hot' = [hot EXCEPT ![d] = [file |-> "db", rows |-> @.rows \cup {row},
                                  wal |-> IF w THEN @.wal \cup {row} ELSE @.wal]]
  /\ UNCHANGED <<site, aged, gz, art, index, indexed, enabled, rot, blocked, hk, reader,
                 retired, crashes, restores>>

DayAges(d) ==
  /\ d \in site.days \ aged
  /\ aged' = aged \cup {d}
  /\ UNCHANGED <<site, fileVars, enabled, rot, blocked, hk, reader, retired, crashes, restores>>

\* SQLite moves the WAL into the main file: at the turn of the day, or later,
\* when some connection to the file (the reader's, the experiment manager's)
\* is the last to close.  Either may fail, and need never come.
Checkpoint(d) ==
  /\ hot[d].wal # {}
  /\ hot' = [hot EXCEPT ![d].wal = {}]
  /\ UNCHANGED <<site, aged, gz, art, index, indexed, enabled, rot, blocked, hk, reader,
                 retired, crashes, restores>>

\* An operator puts back a copy of the file that was archived, or of what the
\* archive holds, with or without an extra row.
Restore(d) ==
  /\ d \in aged /\ hot[d].file # "db" /\ restores < site.restores
  /\ restores' = restores + 1
  /\ \E old \in {index[d], Archived(d)}, new \in {{}, {"extra"} \cap site.rows} :
       hot' = [hot EXCEPT ![d] = [file |-> "db", rows |-> old \cup new, wal |-> {}]]
  /\ UNCHANGED <<site, aged, gz, art, index, indexed, enabled, rot, blocked, hk, reader,
                 retired, crashes>>

-----------------------------------------------------------------------------
(* A rotation pass: every candidate in turn, then the sweep.               *)

rotOnly == <<site, aged, fileVars, enabled, blocked, hk, reader, retired, crashes, restores>>

\* _find_candidates: old, not indexed; a .gz only where there is no .db.
PassBegins ==
  /\ enabled /\ rot.pc = "idle"
  /\ rot' = [RotIdle EXCEPT !.pc = "next",
               !.todo = {<<d, "hot">> : d \in {x \in aged \ indexed : hot[x].file # "none"}}
                   \cup {<<d, "gz">> : d \in {x \in aged \ indexed :
                                                 hot[x].file = "none" /\ gz[x].file # "none"}}]
  /\ UNCHANGED rotOnly

GivenUp(c) == rot' = [RotIdle EXCEPT !.pc = "next", !.todo = rot.todo \ {c}]

Content(c) == IF c[2] = "hot" THEN hot[c[1]].rows ELSE gz[c[1]].rows

\* The candidate is left alone: it cannot be locked, decompressed or read, it
\* holds source rows, or an artifact nobody indexed is in the way.
SkipDay(c) ==
  /\ rot.pc = "next" /\ c \in rot.todo
  /\ GivenUp(c)
  /\ UNCHANGED rotOnly

\* The writer lock is taken and the source is hashed, all tables of it.  Only
\* source rows keep the day from being rotated.
TakeCut(c) ==
  /\ rot.pc = "next" /\ c \in rot.todo
  /\ IF c[2] = "hot" THEN hot[c[1]].file = "db" ELSE gz[c[1]].file = "whole"
  /\ "source" \notin Content(c)
  /\ \A a \in {"readings", "descriptors"} : art[c[1]][a] = "none"
  /\ rot' = [rot EXCEPT !.pc = "write", !.todo = @ \ {c}, !.day = c[1], !.from = c[2],
                        !.cut = Content(c), !.left = Needed(Content(c)), !.owned = {}]
  /\ UNCHANGED rotOnly

\* The artifacts are written in this order; the operator log last.
NextArtifact ==
  IF "readings" \in rot.left THEN "readings"
  ELSE IF "descriptors" \in rot.left THEN "descriptors" ELSE "log"

\* A Parquet file is created; a log artifact in the way stops the rotation.
OpenArtifact ==
  /\ rot.pc = "write" /\ rot.left # {}
  /\ art[rot.day][NextArtifact] = "none"
  /\ art' = [art EXCEPT ![rot.day][NextArtifact] = "partial"]
  /\ rot' = [rot EXCEPT !.pc = "close", !.owned = @ \cup {NextArtifact}]
  /\ UNCHANGED <<site, aged, hot, gz, index, indexed, enabled, blocked, hk, reader, retired,
                 crashes, restores>>

\* It is complete and its row count, schema and references verify.
CloseArtifact ==
  /\ rot.pc = "close"
  /\ art' = [art EXCEPT ![rot.day][NextArtifact] = "whole"]
  /\ rot' = [rot EXCEPT !.left = @ \ {NextArtifact},
                        !.pc = IF rot.left = {NextArtifact} THEN "index" ELSE "write"]
  /\ UNCHANGED <<site, aged, hot, gz, index, indexed, enabled, blocked, hk, reader, retired, crashes,
                 restores>>

\* Any failure before the index: the pass removes what it wrote, best effort.
RotationFails ==
  /\ rot.pc \in {"write", "close", "index"}
  /\ \E kept \in SUBSET rot.owned :
       art' = [art EXCEPT ![rot.day] =
                 [a \in Artifacts |-> IF a \in rot.owned \ kept THEN "none" ELSE @[a]]]
  /\ GivenUp(<<rot.day, rot.from>>)
  /\ UNCHANGED <<site, aged, hot, gz, index, indexed, enabled, blocked, hk, reader, retired,
                 crashes, restores>>

\* _update_index: one atomic replace.
CommitIndex ==
  /\ rot.pc = "index"
  /\ indexed' = indexed \cup {rot.day}
  /\ index' = [index EXCEPT ![rot.day] = rot.cut]
  /\ rot' = [rot EXCEPT !.pc = "verify"]
  /\ UNCHANGED <<site, aged, hot, gz, art, enabled, blocked, hk, reader, retired, crashes,
                 restores>>

VerifyCommitted ==
  /\ rot.pc = "verify"
  /\ ArchiveWhole(rot.day)
  /\ rot' = [rot EXCEPT !.pc = "unlink"]
  /\ UNCHANGED rotOnly

\* The artifacts could not be reopened: the day is not swept in this process.
VerifyFails ==
  /\ rot.pc = "verify"
  /\ blocked' = blocked \cup {rot.day}
  /\ GivenUp(<<rot.day, rot.from>>)
  /\ UNCHANGED <<site, aged, fileVars, enabled, hk, reader, retired, crashes, restores>>

\* The source is deleted; a locked file stays for a later sweep.
UnlinkSource ==
  /\ rot.pc = "unlink"
  /\ \/ UNCHANGED <<hot, gz>>
     \/ rot.from = "hot" /\ hot' = [hot EXCEPT ![rot.day] = NoFile] /\ UNCHANGED gz
     \/ rot.from = "gz" /\ gz' = [gz EXCEPT ![rot.day] = NoGz] /\ UNCHANGED hot
  /\ GivenUp(<<rot.day, rot.from>>)
  /\ UNCHANGED <<site, aged, art, index, indexed, enabled, blocked, hk, reader, retired,
                 crashes, restores>>

SweepBegins ==
  /\ rot.pc = "next" /\ rot.todo = {}
  /\ rot' = [rot EXCEPT !.pc = "sweep", !.todo = {<<d, "hot">> : d \in indexed}]
  /\ UNCHANGED rotOnly

\* DEFECT: an archive and an entry exist, so the file is taken for archived.
SweepProvesExists(d) ==
  /\ rot.pc = "sweep" /\ <<d, "hot">> \in rot.todo
  /\ d \notin blocked /\ hot[d].file = "db"
  /\ ArchiveWhole(d)
  /\ rot' = [rot EXCEPT !.pc = "reclaim", !.day = d, !.todo = @ \ {<<d, "hot">>}]
  /\ UNCHANGED rotOnly

\* A stranded file without a WAL whose archive verifies and whose content is
\* the archived source, hashed under a writer lock that is then released.
SweepProves(d) ==
  /\ rot.pc = "sweep" /\ <<d, "hot">> \in rot.todo
  /\ d \notin blocked /\ hot[d].file = "db"
  /\ ArchiveWhole(d)
  /\ hot[d].rows = index[d] /\ hot[d].wal = {}
  /\ rot' = [rot EXCEPT !.pc = "reclaim", !.day = d, !.todo = @ \ {<<d, "hot">>}]
  /\ UNCHANGED rotOnly

SweepKeeps(d) ==
  /\ rot.pc = "sweep" /\ <<d, "hot">> \in rot.todo
  /\ rot' = [rot EXCEPT !.todo = @ \ {<<d, "hot">>}]
  /\ UNCHANGED rotOnly

\* DEFECT: the main file is removed and its WAL forgotten.
SweepUnlinksMain ==
  /\ rot.pc = "reclaim"
  /\ hot' = [hot EXCEPT ![rot.day] = [NoFile EXCEPT !.wal = hot[rot.day].rows]]
  /\ rot' = [rot EXCEPT !.pc = "sweep", !.day = "none"]
  /\ UNCHANGED <<site, aged, gz, art, index, indexed, enabled, blocked, hk, reader, retired,
                 crashes, restores>>

SweepUnlinks ==
  /\ rot.pc = "reclaim"
  /\ \/ hot' = [hot EXCEPT ![rot.day] = NoFile]
     \/ UNCHANGED hot
  /\ rot' = [rot EXCEPT !.pc = "sweep", !.day = "none"]
  /\ UNCHANGED <<site, aged, gz, art, index, indexed, enabled, blocked, hk, reader, retired,
                 crashes, restores>>

PassEnds ==
  /\ rot.pc = "sweep" /\ rot.todo = {}
  /\ rot' = RotIdle
  /\ UNCHANGED rotOnly

-----------------------------------------------------------------------------
(* Retention: gzip only while rotation is off; deletion of old .gz always. *)

CompressBegins(d) ==
  /\ ~enabled /\ hk.pc = "idle"
  /\ d \in aged /\ hot[d].file = "db" /\ gz[d].file = "none"
  /\ gz' = [gz EXCEPT ![d] = [file |-> "partial", rows |-> {}]]
  /\ hk' = [pc |-> "copy", day |-> d, clean |-> hot[d].wal = {}]
  /\ UNCHANGED <<site, aged, hot, art, index, indexed, enabled, rot, blocked, reader, retired,
                 crashes, restores>>

\* The main file is copied, byte by byte, without its WAL.  With a WAL beside
\* it the main file is what a checkpoint, finished or not, makes of it.
CompressCopies ==
  /\ hk.pc = "copy"
  /\ \E rows \in IF hk.clean THEN {hot[hk.day].rows}
                 ELSE SUBSET (hot[hk.day].rows \ hot[hk.day].wal) :
       gz' = [gz EXCEPT ![hk.day] = [file |-> "whole", rows |-> rows]]
  /\ hk' = [hk EXCEPT !.pc = "copied"]
  /\ UNCHANGED <<site, aged, hot, art, index, indexed, enabled, rot, blocked, reader, retired,
                 crashes, restores>>

\* What the .gz misses of a file that had a WAL goes with it.
CompressUnlinks ==
  /\ hk.pc = "copied"
  /\ hot' = [hot EXCEPT ![hk.day] = NoFile]
  /\ retired' = IF hk.clean THEN retired
                ELSE [retired EXCEPT ![hk.day] = @ \cup
                        (Covered \cap (hot[hk.day].rows \ (Archived(hk.day) \cup gz[hk.day].rows)))]
  /\ hk' = HkIdle
  /\ UNCHANGED <<site, aged, gz, art, index, indexed, enabled, rot, blocked, reader,
                 crashes, restores>>

\* delete_compressed_after_days has passed: the .gz goes, archived or not.
DeleteCompressed(d) ==
  /\ hk.pc = "idle"
  /\ d \in aged /\ gz[d].file # "none"
  /\ gz' = [gz EXCEPT ![d] = NoGz]
  /\ retired' = [retired EXCEPT ![d] = @ \cup (Covered \cap (gz[d].rows \ Visible(d)))]
  /\ UNCHANGED <<site, aged, hot, art, index, indexed, enabled, rot, blocked, hk, reader,
                 crashes, restores>>

-----------------------------------------------------------------------------
(* query_rows over all days, with the index captured first and checked     *)
(* last.                                                                   *)

readOnly == <<site, aged, gz, art, index, indexed, enabled, rot, blocked, hk, retired, crashes,
              restores>>

\* A Parquet file without any index is refused at once.
QueryBegins ==
  /\ site.queried
  /\ reader.pc = "idle"
  /\ indexed # {} \/ \A d \in Days, a \in Artifacts : art[d][a] = "none"
  /\ reader' = [ReaderIdle EXCEPT !.pc = "listing", !.snap = index, !.known = indexed,
                                  !.want = [d \in Days |-> Visible(d) \cap Readings]]
  /\ UNCHANGED <<hot, readOnly>>

QueryLists ==
  /\ reader.pc = "listing"
  /\ LET dbs == {d \in Days : hot[d].file # "none"}
     IN reader' = [reader EXCEPT !.pc = "reading", !.seen = dbs, !.todo = dbs \cup reader.known]
  /\ UNCHANGED <<hot, readOnly>>

\* A day's Parquet is opened and checked against its entry; then its daily
\* file, if one was listed, must still be there.
QueryArchive(d) ==
  /\ reader.pc = "reading" /\ d \in reader.todo
  /\ LET cold == d \in reader.known
         readable == ~cold \/ \A a \in Needed(reader.snap[d]) : art[d][a] = "whole"
         there == hot[d].file # "none"
         rows == IF cold THEN reader.snap[d] \cap Readings ELSE {}
     IN reader' = [reader EXCEPT
                     !.todo = @ \ {d}, !.day = d, !.got = [@ EXCEPT ![d] = rows],
                     !.pc = CASE ~readable -> "refused"
                              [] d \notin reader.seen -> "reading"
                              [] d \in reader.seen /\ there -> "opening"
                              [] OTHER -> "refused"]
  /\ UNCHANGED <<hot, readOnly>>

\* sqlite3.connect: a file that vanished after the check is created empty,
\* and an empty file has no readings table.
QueryHot ==
  /\ reader.pc = "opening"
  /\ IF hot[reader.day].file = "db"
     THEN /\ reader' = [reader EXCEPT !.pc = "reading",
                          !.got[reader.day] = @ \cup (hot[reader.day].rows \cap Readings)]
          /\ UNCHANGED hot
     ELSE /\ reader' = [reader EXCEPT !.pc = "refused"]
          /\ hot' = [hot EXCEPT ![reader.day] = [NoFile EXCEPT !.file = "stub"]]
  /\ UNCHANGED readOnly

\* DEFECT: the index captured at the start is not checked again.
QueryReturnsUnchecked ==
  /\ reader.pc = "reading" /\ reader.todo = {}
  /\ reader' = [reader EXCEPT !.pc = "done"]
  /\ UNCHANGED <<hot, readOnly>>

QueryReturns ==
  /\ reader.pc = "reading" /\ reader.todo = {}
  /\ reader' = [reader EXCEPT !.pc = IF reader.known = indexed THEN "done" ELSE "refused"]
  /\ UNCHANGED <<hot, readOnly>>

QueryForgotten ==
  /\ reader.pc \in {"done", "refused"}
  /\ reader' = ReaderIdle
  /\ UNCHANGED <<hot, readOnly>>

-----------------------------------------------------------------------------
(* Crash and restart, possibly with another configuration.                 *)

CrashRestart ==
  /\ crashes < site.crashes
  /\ crashes' = crashes + 1
  /\ enabled' \in {TRUE, ~site.legacy}
  /\ rot' = RotIdle /\ hk' = HkIdle /\ reader' = ReaderIdle /\ blocked' = {}
  /\ UNCHANGED <<site, aged, fileVars, retired, restores>>

RotationStep ==
  \/ \E c \in rot.todo : SkipDay(c) \/ TakeCut(c)
  \/ OpenArtifact \/ CloseArtifact \/ RotationFails
  \/ CommitIndex \/ VerifyCommitted \/ VerifyFails \/ UnlinkSource
  \/ SweepBegins \/ (\E d \in Days : SweepProves(d) \/ SweepKeeps(d))
  \/ SweepUnlinks \/ PassEnds

Next ==
  \/ \E d \in Days : WriteRow(d) \/ DayAges(d) \/ Checkpoint(d) \/ Restore(d)
  \/ PassBegins
  \/ RotationStep
  \/ \E d \in Days : CompressBegins(d) \/ DeleteCompressed(d)
  \/ CompressCopies \/ CompressUnlinks
  \/ QueryBegins \/ QueryLists \/ (\E d \in Days : QueryArchive(d))
  \/ QueryHot \/ QueryReturns \/ QueryForgotten
  \/ CrashRestart

Spec == Init /\ [][Next]_vars

-----------------------------------------------------------------------------
(* Properties.                                                             *)

Store == INSTANCE DurableRows
           WITH Rows <- Covered, stored <- [d \in Days |-> Preserved(d) \cap Covered]

\* For readings, operator-log entries and source rows, and whatever rotation,
\* sweep, retention, crashes of the process and restored files do: such a row
\* leaves the last file that holds it only by retention, with an old .gz that
\* is deleted, or when a daily file that still has a WAL is compressed
\* (compress_db copies the main file only).  Rows of the experiments table are
\* not promised anything: UnlinkSource destroys them, although a comment there
\* has it that "no table with rows is destroyed" (cold_rotation.py:720-722).
StoreSpec == Store!Spec

\* A query of an engine that rotates, once it returns, has every reading that
\* was visible when it began, although files move from hot to cold under it
\* (archive_reader.py, query_rows).  Without rotation a day may go into a .gz,
\* which no query reads, between the query's start and its listing.
QueryComplete ==
  enabled /\ reader.pc = "done" => \A d \in Days : reader.want[d] \subseteq reader.got[d]

=============================================================================

------------------------ MODULE CommandIngressProofs ------------------------
(***************************************************************************)
(* What the retained operator commands guarantee for any number of         *)
(* requests, contents, activations, engine processes and failures: an      *)
(* answer stays true in every later engine, the stores of the operator log *)
(* agree, and so do the alarm shown, the acknowledgement outbox and what   *)
(* was announced.                                                          *)
(***************************************************************************)
EXTENDS CommandIngress, TLAPS

-----------------------------------------------------------------------------
(* The operator log.                                                       *)

\* The registry was built from the retained rows in these phases.
Known == phase \in Phases \ {"registry", "down", "refused"}

\* A row is in some file, and an outbox row stands for no other content than
\* the daily row's; without a daily row it is at most a reservation.
Stored(k) ==
    /\ rows[k] = NoContent <=> tier[k] = {}
    /\ IF outbox[k].state = "absent" THEN outbox[k].content = NoContent
                                     ELSE outbox[k].content # NoContent
    /\ outbox[k].state = "reserved" => rows[k] \in {NoContent, outbox[k].content}
    /\ outbox[k].state \in {"intent", "published"} => rows[k] = outbox[k].content

\* A task past the append stands for the row that is there; past prepare the
\* publication is at least intended.
Tasked(k) ==
    /\ job[k].pc = "none" <=> job[k].content = NoContent
    /\ job[k].pc \in {"prepare", "emit", "mark"} => rows[k] = job[k].content
    /\ job[k].pc \in {"emit", "mark"} => outbox[k].state \in {"intent", "published"}

LogInv ==
    /\ LogTypeOK
    /\ \A k \in Keys : Stored(k) /\ Tasked(k)
    /\ ~Running => \A k \in Keys : job[k] = NoJob
    /\ Known => registry = rows \/ (Running /\ registry = NoRegistry)
    /\ EmittedIsCommitted
    /\ LogAnswersHold
    /\ RefusedOnlyOverStrandedDay

-----------------------------------------------------------------------------
(* Alarm acknowledgements.                                                 *)

Lost(r) == \E i \in 1..MaxIncarnation : <<r, i>> \in lost

\* The alarm has nothing to show for a durable acknowledgement: it is another
\* activation's, or the one shown is acknowledged.
Taken(r) == Concerns(r) => live.by # NoRequest

\* The live alarm is the newest activation, and every activation was shown
\* under one number of its own.
Annunciated ==
    /\ live = Clear \/ (live.src = sourceSeq /\ sourceSeq > 0)
    /\ live.src = 0 => live = Clear
    /\ shownSeq <= sourceSeq
    /\ live # Clear /\ shown.src # live.src => shownSeq < sourceSeq
    /\ shown = NotShown \/ (shown.id \in 1..shownSeq /\ shown.src \in 1..sourceSeq)
    /\ \A a \in seen : /\ a[1] <= incarnation
                       /\ phase \in Settling => a[1] < incarnation
                       /\ Running /\ a[1] = incarnation => a[2] <= shownSeq

\* The source id a request holds for its target is that of the record shown
\* under this number, if it is still shown.
Names(r, src) ==
    /\ src \in 1..sourceSeq
    /\ target[r] = <<incarnation, shown.id>> => src = shown.src

\* What a request stands for, on disk and in its task.
Requested(r) ==
    /\ target[r] \in seen \cup {NoTarget}
    /\ ackJob[r].pc # "none" \/ ackBox[r].state # "none" => target[r] \in seen
    /\ ackBox[r].state = "none" => ackBox[r] = NoRow
    /\ ackBox[r].state # "none" => ackBox[r].inc = target[r][1]
    /\ ackBox[r].state # "none" /\ ackBox[r].inc = incarnation /\ Running => Names(r, ackBox[r].src)
    /\ ackJob[r].pc = "prepare" =>
          ackBox[r].state = "none" /\ target[r][1] = incarnation /\ Names(r, ackJob[r].src)
    /\ ackJob[r].pc \in {"claim", "abort", "commit"} => ackBox[r].state = "prepared"
    /\ ackJob[r].pc \in {"apply", "emit", "mark", "refind"} => Durable(r)
    /\ ackJob[r].pc \in {"emit", "mark", "refind"} => Taken(r)

\* One owner per activation, from its claim to the application of what it
\* committed.
Owned ==
    /\ \A r \in Requests : ackJob[r].pc \in {"abort", "commit"} => r \in holders
    /\ \A r \in holders : ackJob[r].pc \in {"abort", "commit", "apply"}
    /\ \A q, r \in holders : q # r => target[q] # target[r]

\* A commit that did not raise is applied before its activation is released,
\* so whoever owns an activation next finds it taken.
Exclusive ==
    /\ \A q \in Requests : Durable(q) /\ ~Lost(q) => q \in holders \/ Taken(q)
    /\ \A q, r \in Requests :
          ackJob[r].pc = "commit" /\ q # r /\ Durable(q) /\ target[q] = target[r] => Lost(q)
    /\ OneAckPerActivation

\* No answer is overtaken; an activation that was stale is not shown again.
Answered(r) ==
    /\ <<r, "published">> \in ackAnswered => Taken(r)
    /\ <<r, "stale">> \in ackAnswered =>
          /\ ackBox[r].state = "none" /\ ackJob[r].pc \in {"none", "find"}
          /\ target[r] \in seen /\ target[r] # <<incarnation, shown.id>>

\* An engine settles what earlier ones left before it runs, and starts and
\* ends without memory.
Ingress ==
    /\ phase = "ack_replay" => \A r \in Requests : ackBox[r].state # "prepared"
    /\ Running => \A r \in Requests :
                     ackBox[r].inc # incarnation => ackBox[r].state \in {"none", "published", "aborted"}
    /\ ~Running => /\ live = Clear /\ sourceSeq = 0 /\ shown = NotShown /\ shownSeq = 0
                   /\ \A r \in Requests : ackJob[r] = NoAckJob
                   /\ holders = {} /\ acked = {}

AckInv ==
    /\ AckTypeOK
    /\ Annunciated
    /\ \A r \in Requests : Requested(r) /\ Answered(r)
    /\ Owned /\ Exclusive /\ Ingress
    /\ LiveAckIsDurable /\ AckAnswersHold /\ AnnouncedIsCommitted

EngineTypes == phase \in Phases /\ incarnation \in 1..MaxIncarnation

IInv == EngineTypes /\ LogInv /\ AckInv


-----------------------------------------------------------------------------
(* Steps on one request id of the operator log.                            *)

\* The answer given with a step, if any, is true after it.
TrueAnswer(k) ==
    \/ answered' = answered
    \/ \E c \in Contents : answered' = answered \cup {<<k, c, "pending">>} /\ rows'[k] = c
    \/ \E c \in Contents : /\ answered' = answered \cup {<<k, c, "success">>}
                           /\ outbox'[k] = [state |-> "published", content |-> c]

\* A step of a running engine on one request id, that takes back no row and no
\* published publication, keeps the invariant if what it leaves of this
\* request id agrees.
LEMMA KeyStep ==
    ASSUME LogInv, Running, phase' = phase, NEW k \in Keys, LogTypeOK',
           \A q \in Keys \ {k} : /\ rows'[q] = rows[q] /\ tier'[q] = tier[q] /\ outbox'[q] = outbox[q]
                                 /\ job'[q] = job[q] /\ emitted'[q] = emitted[q],
           Stored(k)', Tasked(k)',
           registry' \in {rows', NoRegistry},
           rows[k] \in {NoContent, rows'[k]},
           outbox[k].state = "published" => outbox'[k] = outbox[k],
           emitted'[k] \subseteq {rows'[k]},
           TrueAnswer(k)
    PROVE  LogInv'
<1>1. \A q \in Keys : Stored(q)' /\ Tasked(q)'
  BY DEF LogInv, Stored, Tasked
<1>2. Running' /\ phase' # "refused"
  BY DEF Running
<1>3. EmittedIsCommitted'
  BY DEF LogInv, EmittedIsCommitted
<1>4. ASSUME NEW q \in Keys, NEW c \in Contents
      PROVE  /\ <<q, c, "pending">> \in answered => rows'[q] = c
             /\ <<q, c, "success">> \in answered => outbox'[q] = [state |-> "published", content |-> c]
  <2>1. /\ <<q, c, "pending">> \in answered => rows[q] = c
        /\ <<q, c, "success">> \in answered => outbox[q] = [state |-> "published", content |-> c]
    BY DEF LogInv, LogAnswersHold
  <2>2. c # NoContent
    BY LogAssumption
  <2> QED
    BY <2>1, <2>2
<1>5. LogAnswersHold'
  <2> SUFFICES ASSUME NEW q \in Keys, NEW c \in Contents
               PROVE  /\ <<q, c, "pending">> \in answered' => rows'[q] = c
                      /\ <<q, c, "success">> \in answered' => outbox'[q] = [state |-> "published", content |-> c]
    BY DEF LogAnswersHold
  <2>1. CASE answered' = answered
    BY <1>4, <2>1
  <2>2. ASSUME NEW d \in Contents, answered' = answered \cup {<<k, d, "pending">>}, rows'[k] = d
        PROVE  /\ <<q, c, "pending">> \in answered' => rows'[q] = c
               /\ <<q, c, "success">> \in answered' => <<q, c, "success">> \in answered
    BY <1>4, <2>2
  <2>3. ASSUME NEW d \in Contents, answered' = answered \cup {<<k, d, "success">>},
               outbox'[k] = [state |-> "published", content |-> d]
        PROVE  /\ <<q, c, "success">> \in answered' => outbox'[q] = [state |-> "published", content |-> c]
               /\ <<q, c, "pending">> \in answered' => <<q, c, "pending">> \in answered
    BY <1>4, <2>3
  <2> QED
    BY <1>4, <2>1, <2>2, <2>3 DEF TrueAnswer
<1> QED
  BY <1>1, <1>2, <1>3, <1>5 DEF LogInv, RefusedOnlyOverStrandedDay

\* What the invariant says of one request id.
LEMMA LogFacts ==
    ASSUME LogInv, NEW k \in Keys
    PROVE  /\ rows[k] \in Contents \cup {NoContent} /\ tier[k] \in SUBSET {"hot", "cold"}
           /\ outbox[k] \in Publications /\ job[k] \in Jobs
           /\ emitted[k] \in SUBSET Contents /\ emitted[k] \subseteq {rows[k]}
           /\ rows[k] = NoContent => emitted[k] = {}
           /\ Stored(k) /\ Tasked(k)
           /\ job[k].pc # "none" => job[k].content \in Contents
           /\ Running => registry \in {rows, NoRegistry}
<1>1. Running => phase \in Phases \ {"registry", "down", "refused"}
  BY DEF Running, Phases
<1> QED
  BY <1>1, LogAssumption DEF LogInv, LogTypeOK, EmittedIsCommitted, Known, Tasked, Jobs

\* What a request id resolves to is what is stored for it.
LEMMA Resolved ==
    ASSUME LogInv, Running, NEW k \in Keys, NEW c \in Contents
    PROVE  /\ Resolve(k, c) = "absent" => registry = rows /\ rows[k] = NoContent
           /\ Resolve(k, c) = "retained" => registry = rows /\ rows[k] = c
<1>1. registry = rows \/ registry = NoRegistry
  BY LogFacts
<1> QED
  BY <1>1 DEF Resolve

\* The answers of a task change the job and what was answered.
LEMMA TasksAnswer ==
    ASSUME LogInv, NEW k \in Keys, NEW c \in Contents
    PROVE  /\ Drop(k) => /\ job' \in [Keys -> Jobs] /\ receipts' = receipts /\ answered' = answered
                         /\ job'[k] = NoJob /\ \A q \in Keys \ {k} : job'[q] = job[q]
           /\ Defer(k, c) => /\ job' \in [Keys -> Jobs] /\ receipts' = receipts
                             /\ answered' = answered \cup {<<k, c, "pending">>}
                             /\ job'[k] \in {NoJob, [pc |-> "prepare", content |-> c, background |-> TRUE]}
                             /\ \A q \in Keys \ {k} : job'[q] = job[q]
           /\ Succeed(k, c) => /\ job' \in [Keys -> Jobs]
                               /\ receipts' \in [Keys -> Contents \cup {NoContent}]
                               /\ answered' = answered \cup {<<k, c, "success">>}
                               /\ job'[k] = NoJob /\ \A q \in Keys \ {k} : job'[q] = job[q]
<1>1. /\ job \in [Keys -> Jobs] /\ receipts \in [Keys -> Contents \cup {NoContent}]
      /\ NoJob \in Jobs /\ [pc |-> "prepare", content |-> c, background |-> TRUE] \in Jobs
  BY DEF LogInv, LogTypeOK, NoJob, Jobs
<1>2. ASSUME NEW j \in Jobs, job' = [job EXCEPT ![k] = j]
      PROVE  job' \in [Keys -> Jobs] /\ job'[k] = j /\ \A q \in Keys \ {k} : job'[q] = job[q]
  BY <1>1, <1>2
<1>3. Succeed(k, c) => receipts' \in [Keys -> Contents \cup {NoContent}]
  BY <1>1 DEF Succeed
<1>4. Defer(k, c) => \/ job' = [job EXCEPT ![k] = NoJob]
                     \/ job' = [job EXCEPT ![k] = [pc |-> "prepare", content |-> c, background |-> TRUE]]
  BY DEF Defer
<1> QED
  BY <1>1, <1>2, <1>3, <1>4 DEF Drop, Defer, Succeed

\* A task goes on with the same content.
LEMMA JobMoves ==
    ASSUME LogInv, NEW k \in Keys, NEW pc \in {"append", "prepare", "emit", "mark"},
           job' = [job EXCEPT ![k].pc = pc]
    PROVE  /\ job' \in [Keys -> Jobs] /\ \A q \in Keys \ {k} : job'[q] = job[q]
           /\ job'[k].pc = pc /\ job'[k].content = job[k].content
<1>1. job \in [Keys -> Jobs] /\ job[k] \in Jobs
  BY DEF LogInv, LogTypeOK
<1>2. [job[k] EXCEPT !.pc = pc] \in Jobs
  BY <1>1 DEF Jobs
<1> QED
  BY <1>1, <1>2 DEF Jobs

\* Submit: a task that has promised nothing yet.
LEMMA SubmitKeeps ==
    ASSUME LogInv, NEW k \in Keys, NEW c \in Contents, Submit(k, c), UNCHANGED engine
    PROVE  LogInv'
<1>1. Running /\ phase' = phase
  BY DEF Submit, Accepting, Running, engine
<1>2. /\ UNCHANGED <<rows, tier, outbox, registry, receipts, emitted, answered>>
      /\ job' = [job EXCEPT ![k] = [pc |-> "find", content |-> c, background |-> FALSE]]
      /\ logSpent' = logSpent + 1 /\ logSpent < LogBudget
  BY DEF Submit, logDurable
<1>3. logSpent' \in 0..LogBudget
  BY <1>2, LogAssumption DEF LogInv, LogTypeOK
<1>4. LogTypeOK'
  BY <1>2, <1>3 DEF LogInv, LogTypeOK, Jobs
<1>5. job'[k] = [pc |-> "find", content |-> c, background |-> FALSE] /\ \A q \in Keys \ {k} : job'[q] = job[q]
  BY <1>2 DEF LogInv, LogTypeOK
<1>6. Stored(k)' /\ Tasked(k)'
  BY <1>2, <1>5, LogAssumption, LogFacts DEF Stored, Tasked
<1> QED
  BY <1>1, <1>2, <1>4, <1>5, <1>6, KeyStep, LogFacts DEF TrueAnswer

\* Find: a retained row of this content is there.
LEMMA FindKeeps ==
    ASSUME LogInv, NEW k \in Keys, Find(k), UNCHANGED engine
    PROVE  LogInv'
<1> DEFINE c == job[k].content
<1>1. Running /\ phase' = phase /\ job[k].pc = "find" /\ c \in Contents
  BY LogFacts DEF Find, engine
<1>2. UNCHANGED <<rows, tier, outbox, registry, emitted, logSpent>>
  BY DEF Find, logDurable
<1>3. CASE Drop(k)
  <2>1. /\ job' \in [Keys -> Jobs] /\ receipts' = receipts /\ answered' = answered
        /\ job'[k] = NoJob /\ \A q \in Keys \ {k} : job'[q] = job[q]
    BY <1>1, <1>3, TasksAnswer
  <2>2. LogTypeOK'
    BY <1>2, <2>1 DEF LogInv, LogTypeOK
  <2>3. Stored(k)' /\ Tasked(k)'
    BY <1>2, <2>1, LogFacts DEF Stored, Tasked, NoJob
  <2> QED
    BY <1>1, <1>2, <2>1, <2>2, <2>3, KeyStep, LogFacts DEF TrueAnswer
<1>4. ASSUME NEW pc \in {"append", "prepare"}, job' = [job EXCEPT ![k].pc = pc],
             pc = "prepare" => rows[k] = c, UNCHANGED <<receipts, answered>>
      PROVE  LogInv'
  <2>1. /\ job' \in [Keys -> Jobs] /\ \A q \in Keys \ {k} : job'[q] = job[q]
        /\ job'[k].pc = pc /\ job'[k].content = c
    BY <1>4, JobMoves
  <2>2. LogTypeOK'
    BY <1>2, <1>4, <2>1 DEF LogInv, LogTypeOK
  <2>3. Stored(k)' /\ Tasked(k)'
    BY <1>1, <1>2, <1>4, <2>1, LogFacts, LogAssumption DEF Stored, Tasked
  <2> QED
    BY <1>1, <1>2, <1>4, <2>1, <2>2, <2>3, KeyStep, LogFacts DEF TrueAnswer
<1>5. CASE /\ Resolve(k, c) \in {"absent", "retained"}
           /\ job' = [job EXCEPT ![k].pc = IF Resolve(k, c) = "absent" THEN "append" ELSE "prepare"]
           /\ UNCHANGED <<receipts, answered>>
  <2>1. Resolve(k, c) = "retained" => rows[k] = c
    BY <1>1, Resolved
  <2>2. CASE Resolve(k, c) = "absent"
    BY <1>4, <1>5, <2>2
  <2>3. CASE Resolve(k, c) = "retained"
    BY <1>4, <1>5, <2>1, <2>3
  <2> QED
    BY <1>5, <2>2, <2>3
<1> QED
  BY <1>3, <1>5 DEF Find

\* What an append leaves on disk up to its last stage.
LEMMA AppendedFacts ==
    ASSUME LogInv, NEW k \in Keys, NEW c \in Contents, NEW stage \in 1..3, Appended(k, c, stage)
    PROVE  /\ rows' \in [Keys -> Contents \cup {NoContent}]
           /\ tier' \in [Keys -> SUBSET {"hot", "cold"}]
           /\ outbox' \in [Keys -> Publications]
           /\ \A q \in Keys \ {k} : rows'[q] = rows[q] /\ tier'[q] = tier[q] /\ outbox'[q] = outbox[q]
           /\ outbox'[k].state = (IF stage = 3 THEN "intent" ELSE "reserved") /\ outbox'[k].content = c
           /\ stage = 1 => rows' = rows /\ tier' = tier
           /\ stage > 1 => rows'[k] = c /\ tier'[k] = {"hot"}
<1>1. /\ rows \in [Keys -> Contents \cup {NoContent}] /\ tier \in [Keys -> SUBSET {"hot", "cold"}]
      /\ outbox \in [Keys -> Publications]
  BY DEF LogInv, LogTypeOK
<1>2. [state |-> IF stage = 3 THEN "intent" ELSE "reserved", content |-> c] \in Publications
  BY DEF Publications
<1>3. /\ outbox' \in [Keys -> Publications] /\ \A q \in Keys \ {k} : outbox'[q] = outbox[q]
      /\ outbox'[k] = [state |-> IF stage = 3 THEN "intent" ELSE "reserved", content |-> c]
  BY <1>1, <1>2 DEF Appended
<1> QED
  BY <1>1, <1>3 DEF Appended

\* What a reservable request id of no row has left, with any append stage.
LEMMA AppendedStored ==
    ASSUME LogInv, Running, NEW k \in Keys, NEW c \in Contents, NEW stage \in 1..3,
           Resolve(k, c) = "absent", Reservable(k, c), Appended(k, c, stage)
    PROVE  /\ Stored(k)' /\ rows[k] = NoContent /\ registry = rows
           /\ outbox[k].state # "published" /\ emitted[k] = {}
<1>1. registry = rows /\ rows[k] = NoContent
  BY Resolved
<1>2. outbox[k].state # "published"
  BY DEF Reservable
<1>3. /\ outbox'[k].state = (IF stage = 3 THEN "intent" ELSE "reserved") /\ outbox'[k].content = c
      /\ stage = 1 => rows' = rows /\ tier' = tier
      /\ stage > 1 => rows'[k] = c /\ tier'[k] = {"hot"}
  BY AppendedFacts
<1>4. Stored(k) /\ emitted[k] = {} /\ c # NoContent
  BY <1>1, LogFacts, LogAssumption
<1>5. Stored(k)'
  <2>1. CASE stage = 1
    BY <1>1, <1>3, <1>4, <2>1 DEF Stored
  <2>2. CASE stage # 1
    BY <1>3, <1>4, <2>2 DEF Stored
  <2> QED
    BY <2>1, <2>2
<1> QED
  BY <1>1, <1>2, <1>4, <1>5

\* Append: the row is there with its intent, or the publication is deferred.
LEMMA AppendCommitsKeeps ==
    ASSUME LogInv, NEW k \in Keys, AppendCommits(k), UNCHANGED engine
    PROVE  LogInv'
<1> DEFINE c == job[k].content
<1>1. Running /\ phase' = phase /\ job[k].pc = "append" /\ c \in Contents
  BY LogFacts DEF AppendCommits, engine
<1>2. Resolve(k, c) = "absent" /\ Reservable(k, c) /\ emitted' = emitted /\ logSpent' = logSpent
      /\ registry' = [registry EXCEPT ![k] = c]
  BY DEF AppendCommits
<1>3. ASSUME NEW stage \in {2, 3}, Appended(k, c, stage), job' \in [Keys -> Jobs], receipts' = receipts,
             \A q \in Keys \ {k} : job'[q] = job[q], Tasked(k)',
             \/ answered' = answered
             \/ answered' = answered \cup {<<k, c, "pending">>}
      PROVE  LogInv'
  <2>1. /\ Stored(k)' /\ rows[k] = NoContent /\ registry = rows
        /\ outbox[k].state # "published" /\ emitted[k] = {}
    BY <1>1, <1>2, <1>3, AppendedStored
  <2>2. rows' = [rows EXCEPT ![k] = c]
    BY <1>3 DEF Appended
  <2>3. registry' = rows'
    BY <1>2, <2>1, <2>2
  <2>4. LogTypeOK'
    <3>1. /\ rows' \in [Keys -> Contents \cup {NoContent}]
          /\ tier' \in [Keys -> SUBSET {"hot", "cold"}]
          /\ outbox' \in [Keys -> Publications]
      BY <1>1, <1>3, AppendedFacts
    <3>2. answered' \subseteq Keys \X Contents \X {"success", "pending"}
      BY <1>1, <1>3 DEF LogInv, LogTypeOK
    <3> QED
      BY <1>2, <1>3, <2>3, <3>1, <3>2 DEF LogInv, LogTypeOK
  <2>5. TrueAnswer(k)
    BY <1>1, <1>3, AppendedFacts DEF TrueAnswer
  <2>6. \A q \in Keys \ {k} : rows'[q] = rows[q] /\ tier'[q] = tier[q] /\ outbox'[q] = outbox[q]
    BY <1>1, <1>3, AppendedFacts
  <2> QED
    BY <1>1, <1>2, <1>3, <2>1, <2>3, <2>4, <2>5, <2>6, KeyStep
<1>4. CASE Appended(k, c, 3) /\ job' = [job EXCEPT ![k].pc = "emit"] /\ UNCHANGED <<receipts, answered>>
  <2>1. /\ job' \in [Keys -> Jobs] /\ \A q \in Keys \ {k} : job'[q] = job[q]
        /\ job'[k].pc = "emit" /\ job'[k].content = c
    BY <1>4, JobMoves
  <2>2. Tasked(k)'
    BY <1>1, <1>4, <2>1, AppendedFacts, LogAssumption DEF Tasked
  <2> QED
    BY <1>3, <1>4, <2>1, <2>2
<1>5. CASE Appended(k, c, 2) /\ Defer(k, c)
  <2>1. /\ job' \in [Keys -> Jobs] /\ receipts' = receipts
        /\ answered' = answered \cup {<<k, c, "pending">>}
        /\ job'[k] \in {NoJob, [pc |-> "prepare", content |-> c, background |-> TRUE]}
        /\ \A q \in Keys \ {k} : job'[q] = job[q]
    BY <1>1, <1>5, TasksAnswer
  <2>2. rows'[k] = c
    BY <1>1, <1>5, AppendedFacts
  <2>3. Tasked(k)'
    BY <1>1, <2>1, <2>2, LogAssumption DEF Tasked, NoJob
  <2> QED
    BY <1>3, <1>5, <2>1, <2>3
<1> QED
  BY <1>4, <1>5 DEF AppendCommits

\* The append that is not proven and the reservation that fails answer
\* without a promise, whatever stage they reached.
LEMMA AppendFailsKeeps ==
    ASSUME LogInv, NEW k \in Keys, ReservationFails(k) \/ AppendUnproven(k), UNCHANGED engine
    PROVE  LogInv'
<1> DEFINE c == job[k].content
<1>1. Running /\ phase' = phase /\ job[k].pc = "append" /\ c \in Contents
  BY LogFacts DEF ReservationFails, AppendUnproven, engine
<1>2. emitted' = emitted /\ logSpent' = logSpent /\ Drop(k)
  BY DEF ReservationFails, AppendUnproven
<1>3. /\ job' \in [Keys -> Jobs] /\ receipts' = receipts /\ answered' = answered
      /\ job'[k] = NoJob /\ \A q \in Keys \ {k} : job'[q] = job[q]
  BY <1>1, <1>2, TasksAnswer
<1>4. Tasked(k)'
  BY <1>3 DEF Tasked, NoJob
<1>5. CASE ReservationFails(k) /\ UNCHANGED logDurable
  <2>1. UNCHANGED <<rows, tier, outbox, registry>>
    BY <1>5 DEF ReservationFails, logDurable
  <2>2. LogTypeOK'
    BY <1>2, <1>3, <2>1 DEF LogInv, LogTypeOK
  <2>3. Stored(k)'
    BY <2>1, LogFacts DEF Stored
  <2> QED
    BY <1>1, <1>2, <1>3, <1>4, <2>1, <2>2, <2>3, KeyStep, LogFacts DEF TrueAnswer
<1>6. ASSUME NEW stage \in {1, 2}, Resolve(k, c) = "absent", Reservable(k, c), Appended(k, c, stage),
             \/ registry' = NoRegistry
             \/ registry' = registry /\ stage = 1
      PROVE  LogInv'
  <2>1. /\ Stored(k)' /\ rows[k] = NoContent /\ registry = rows
        /\ outbox[k].state # "published" /\ emitted[k] = {}
    BY <1>1, <1>6, AppendedStored
  <2>2. /\ rows' \in [Keys -> Contents \cup {NoContent}]
        /\ tier' \in [Keys -> SUBSET {"hot", "cold"}]
        /\ outbox' \in [Keys -> Publications]
        /\ \A q \in Keys \ {k} : rows'[q] = rows[q] /\ tier'[q] = tier[q] /\ outbox'[q] = outbox[q]
        /\ stage = 1 => rows' = rows
    BY <1>1, <1>6, AppendedFacts
  <2>3. registry' \in {rows', NoRegistry}
    BY <1>6, <2>1, <2>2
  <2>4. LogTypeOK'
    BY <1>2, <1>3, <2>2, <2>3 DEF LogInv, LogTypeOK
  <2> QED
    BY <1>1, <1>2, <1>3, <1>4, <2>1, <2>2, <2>3, <2>4, KeyStep DEF TrueAnswer
<1>7. CASE AppendUnproven(k)
  BY <1>6, <1>7 DEF AppendUnproven
<1>8. CASE ReservationFails(k)
  BY <1>5, <1>6, <1>8 DEF ReservationFails
<1> QED
  BY <1>7, <1>8

\* A step of the publication, done or failed, that leaves the stores alone
\* up to the outbox and the delivery.
LEMMA PublicationKeeps ==
    ASSUME LogInv, NEW k \in Keys, NEW c \in Contents, UNCHANGED engine, Running,
           rows[k] = c, UNCHANGED <<rows, tier, registry>>,
           logSpent' \in 0..LogBudget,
           job' \in [Keys -> Jobs], \A q \in Keys \ {k} : job'[q] = job[q], Tasked(k)',
           receipts' \in [Keys -> Contents \cup {NoContent}],
           outbox' \in [Keys -> Publications], \A q \in Keys \ {k} : outbox'[q] = outbox[q],
           \/ outbox'[k] = outbox[k]
           \/ outbox'[k] = [state |-> "intent", content |-> c] /\ outbox[k].state # "published"
           \/ outbox'[k] = [state |-> "published", content |-> c],
           emitted' \in {emitted, [emitted EXCEPT ![k] = @ \cup {c}]},
           \/ answered' = answered
           \/ answered' = answered \cup {<<k, c, "pending">>}
           \/ /\ answered' = answered \cup {<<k, c, "success">>}
              /\ outbox'[k] = [state |-> "published", content |-> c]
    PROVE  LogInv'
<1>1. /\ Stored(k) /\ Tasked(k) /\ outbox[k] \in Publications
      /\ emitted[k] \subseteq {c} /\ registry \in {rows, NoRegistry}
  BY LogFacts
<1>2. phase' = phase
  BY DEF engine
<1>3. Stored(k)'
  BY <1>1, LogAssumption DEF Stored
<1>4. outbox[k].state = "published" => outbox'[k] = outbox[k]
  BY <1>1 DEF Stored, Publications
<1>5. /\ emitted' \in [Keys -> SUBSET Contents] /\ emitted'[k] \subseteq {c}
      /\ \A q \in Keys \ {k} : emitted'[q] = emitted[q]
  BY <1>1 DEF LogInv, LogTypeOK
<1>6. answered' \subseteq Keys \X Contents \X {"success", "pending"}
  BY DEF LogInv, LogTypeOK
<1>7. LogTypeOK'
  BY <1>5, <1>6 DEF LogInv, LogTypeOK
<1>8. TrueAnswer(k)
  BY DEF TrueAnswer
<1> QED
  BY <1>1, <1>2, <1>3, <1>4, <1>5, <1>7, <1>8, KeyStep

\* Prepare: a reservation is promoted, a missing publication made, a
\* published one answered.
LEMMA PrepareKeeps ==
    ASSUME LogInv, NEW k \in Keys, Prepare(k), UNCHANGED engine
    PROVE  LogInv'
<1> DEFINE c == job[k].content
<1>1. Running /\ job[k].pc = "prepare" /\ c \in Contents /\ rows[k] = c /\ Stored(k)
  BY LogFacts DEF Prepare, Tasked
<1>2. /\ outbox[k].state = "absent" \/ outbox[k].content = c
      /\ outbox' = [outbox EXCEPT ![k] = PreparedRow(k, c)]
      /\ UNCHANGED <<rows, tier, registry, emitted, logSpent>>
  BY DEF Prepare
<1>3. outbox \in [Keys -> Publications] /\ outbox[k] \in Publications /\ logSpent \in 0..LogBudget
      /\ receipts \in [Keys -> Contents \cup {NoContent}]
  BY DEF LogInv, LogTypeOK
<1>4. /\ PreparedRow(k, c) \in Publications
      /\ \/ PreparedRow(k, c) = outbox[k]
         \/ PreparedRow(k, c) = [state |-> "intent", content |-> c] /\ outbox[k].state # "published"
      /\ outbox[k].state = "published" => PreparedRow(k, c) = [state |-> "published", content |-> c]
      /\ PreparedRow(k, c).state \in {"intent", "published"}
  BY <1>1, <1>2, <1>3 DEF PreparedRow, Publications
<1>5. /\ outbox' \in [Keys -> Publications] /\ outbox'[k] = PreparedRow(k, c)
      /\ \A q \in Keys \ {k} : outbox'[q] = outbox[q]
  BY <1>2, <1>3, <1>4
<1>6. CASE outbox[k].state = "published" /\ Succeed(k, c)
  <2>1. /\ job' \in [Keys -> Jobs] /\ receipts' \in [Keys -> Contents \cup {NoContent}]
        /\ answered' = answered \cup {<<k, c, "success">>}
        /\ job'[k] = NoJob /\ \A q \in Keys \ {k} : job'[q] = job[q]
    BY <1>1, <1>6, TasksAnswer
  <2>2. Tasked(k)'
    BY <2>1 DEF Tasked, NoJob
  <2> QED
    BY <1>1, <1>2, <1>3, <1>4, <1>5, <1>6, <2>1, <2>2, PublicationKeeps
<1>7. CASE job' = [job EXCEPT ![k].pc = "emit"] /\ UNCHANGED <<receipts, answered>>
  <2>1. /\ job' \in [Keys -> Jobs] /\ \A q \in Keys \ {k} : job'[q] = job[q]
        /\ job'[k].pc = "emit" /\ job'[k].content = c
    BY <1>7, JobMoves
  <2>2. Tasked(k)'
    BY <1>1, <1>2, <1>4, <1>5, <2>1, LogAssumption DEF Tasked
  <2> QED
    BY <1>1, <1>2, <1>3, <1>4, <1>5, <1>7, <2>1, <2>2, PublicationKeeps
<1> QED
  BY <1>6, <1>7 DEF Prepare

\* Emit: what is delivered is the committed content.
LEMMA EmitKeeps ==
    ASSUME LogInv, NEW k \in Keys, Emit(k), UNCHANGED engine
    PROVE  LogInv'
<1> DEFINE c == job[k].content
<1>1. Running /\ job[k].pc = "emit" /\ c \in Contents /\ rows[k] = c /\ Tasked(k)
  BY LogFacts DEF Emit, Tasked
<1>2. /\ UNCHANGED <<rows, tier, outbox, registry, receipts, answered, logSpent>>
      /\ emitted' = [emitted EXCEPT ![k] = @ \cup {c}] /\ job' = [job EXCEPT ![k].pc = "mark"]
  BY DEF Emit, logDurable
<1>3. outbox \in [Keys -> Publications] /\ logSpent \in 0..LogBudget
      /\ receipts \in [Keys -> Contents \cup {NoContent}]
  BY DEF LogInv, LogTypeOK
<1>4. /\ job' \in [Keys -> Jobs] /\ \A q \in Keys \ {k} : job'[q] = job[q]
      /\ job'[k].pc = "mark" /\ job'[k].content = c
  BY <1>2, JobMoves
<1>5. Tasked(k)'
  BY <1>1, <1>2, <1>4, LogAssumption DEF Tasked
<1> QED
  BY <1>1, <1>2, <1>3, <1>4, <1>5, PublicationKeeps

\* Mark: the publication is settled before its success is answered.
LEMMA MarkKeeps ==
    ASSUME LogInv, NEW k \in Keys, Mark(k), UNCHANGED engine
    PROVE  LogInv'
<1> DEFINE c == job[k].content
<1>1. Running /\ job[k].pc = "mark" /\ c \in Contents /\ rows[k] = c /\ Stored(k)
  BY LogFacts DEF Mark, Tasked
<1>2. /\ outbox[k].state \in {"intent", "published"} /\ Succeed(k, c)
      /\ outbox' = [outbox EXCEPT ![k].state = "published"]
      /\ UNCHANGED <<rows, tier, registry, emitted, logSpent>>
  BY DEF Mark
<1>3. outbox \in [Keys -> Publications] /\ outbox[k] \in Publications /\ logSpent \in 0..LogBudget
  BY DEF LogInv, LogTypeOK
<1>4. outbox[k].content = c
  BY <1>1, <1>2 DEF Stored
<1>5. /\ outbox' \in [Keys -> Publications] /\ \A q \in Keys \ {k} : outbox'[q] = outbox[q]
      /\ outbox'[k] = [state |-> "published", content |-> c]
  BY <1>2, <1>3, <1>4 DEF Publications
<1>6. /\ job' \in [Keys -> Jobs] /\ receipts' \in [Keys -> Contents \cup {NoContent}]
      /\ answered' = answered \cup {<<k, c, "success">>}
      /\ job'[k] = NoJob /\ \A q \in Keys \ {k} : job'[q] = job[q]
  BY <1>1, <1>2, TasksAnswer
<1>7. Tasked(k)'
  BY <1>6 DEF Tasked, NoJob
<1> QED
  BY <1>1, <1>2, <1>3, <1>5, <1>6, <1>7, PublicationKeeps

\* A publication step fails: the commit stands and is reported as pending.
LEMMA PublicationStepFailsKeeps ==
    ASSUME LogInv, NEW k \in Keys, PublicationStepFails(k), UNCHANGED engine
    PROVE  LogInv'
<1> DEFINE c == job[k].content
<1>1. /\ Running /\ job[k].pc \in {"prepare", "emit", "mark"}
      /\ c \in Contents /\ rows[k] = c
  BY LogFacts DEF PublicationStepFails, Tasked
<1>2. /\ UNCHANGED <<rows, tier, outbox, registry>> /\ logSpent < LogBudget /\ logSpent' = logSpent + 1
      /\ emitted' \in {emitted, [emitted EXCEPT ![k] = @ \cup {c}]}
  BY DEF PublicationStepFails, logDurable
<1>3. /\ outbox \in [Keys -> Publications] /\ logSpent \in 0..LogBudget
      /\ receipts \in [Keys -> Contents \cup {NoContent}]
  BY DEF LogInv, LogTypeOK
<1>4. logSpent' \in 0..LogBudget
  BY <1>2, <1>3, LogAssumption
<1>5. ASSUME job' \in [Keys -> Jobs], \A q \in Keys \ {k} : job'[q] = job[q],
             job'[k] = NoJob \/ (job'[k].pc = "prepare" /\ job'[k].content = c),
             receipts' = receipts,
             answered' \in {answered, answered \cup {<<k, c, "pending">>}}
      PROVE  LogInv'
  <2>1. Tasked(k)'
    BY <1>1, <1>2, <1>5, LogAssumption DEF Tasked, NoJob
  <2> QED
    BY <1>1, <1>2, <1>3, <1>4, <1>5, <2>1, PublicationKeeps
<1>6. CASE Defer(k, c)
  <2>1. /\ job' \in [Keys -> Jobs] /\ receipts' = receipts
        /\ answered' = answered \cup {<<k, c, "pending">>}
        /\ job'[k] \in {NoJob, [pc |-> "prepare", content |-> c, background |-> TRUE]}
        /\ \A q \in Keys \ {k} : job'[q] = job[q]
    BY <1>1, <1>6, TasksAnswer
  <2>2. job'[k] = NoJob \/ (job'[k].pc = "prepare" /\ job'[k].content = c)
    BY <2>1
  <2> QED
    BY <1>5, <2>1, <2>2
<1>7. CASE /\ job' = [job EXCEPT ![k] = IF Accepting THEN [job[k] EXCEPT !.pc = "prepare"] ELSE NoJob]
           /\ UNCHANGED <<receipts, answered>>
  <2>1. /\ job' \in [Keys -> Jobs] /\ \A q \in Keys \ {k} : job'[q] = job[q]
        /\ job'[k] = NoJob \/ (job'[k].pc = "prepare" /\ job'[k].content = c)
    BY <1>7 DEF LogInv, LogTypeOK, Jobs, NoJob
  <2> QED
    BY <1>5, <1>7, <2>1
<1> QED
  BY <1>6, <1>7 DEF PublicationStepFails, SettleFails

\* A background task that wakes up frozen promises nothing.
LEMMA BackgroundEndsKeeps ==
    ASSUME LogInv, NEW k \in Keys, BackgroundEnds(k), UNCHANGED engine
    PROVE  LogInv'
<1> DEFINE c == job[k].content
<1>1. Running /\ job[k].pc = "prepare" /\ c \in Contents /\ rows[k] = c
  BY LogFacts DEF BackgroundEnds, Tasked, Running
<1>2. UNCHANGED <<rows, tier, outbox, registry, emitted, logSpent>> /\ Drop(k)
  BY DEF BackgroundEnds, logDurable
<1>3. /\ outbox \in [Keys -> Publications] /\ logSpent \in 0..LogBudget
      /\ receipts \in [Keys -> Contents \cup {NoContent}]
  BY DEF LogInv, LogTypeOK
<1>4. /\ job' \in [Keys -> Jobs] /\ receipts' = receipts /\ answered' = answered
      /\ job'[k] = NoJob /\ \A q \in Keys \ {k} : job'[q] = job[q]
  BY <1>1, <1>2, TasksAnswer
<1>5. Tasked(k)'
  BY <1>4 DEF Tasked, NoJob
<1> QED
  BY <1>1, <1>2, <1>3, <1>4, <1>5, PublicationKeeps

\* Rotation moves the row between files and leaves it in one.
LEMMA RotationKeeps ==
    ASSUME LogInv, NEW k \in Keys, ArchiveDay(k) \/ UnlinkDay(k), UNCHANGED engine
    PROVE  LogInv'
<1>1. /\ Running /\ phase' = phase /\ tier[k] # {}
      /\ UNCHANGED <<rows, outbox, registry, job, receipts, emitted, answered, logSpent>>
      /\ tier' \in {[tier EXCEPT ![k] = {"hot", "cold"}], [tier EXCEPT ![k] = {"cold"}]}
  BY DEF ArchiveDay, UnlinkDay, logMemory, engine
<1>2. tier \in [Keys -> SUBSET {"hot", "cold"}]
  BY DEF LogInv, LogTypeOK
<1>3. ASSUME NEW t \in SUBSET {"hot", "cold"}, t # {}, tier' = [tier EXCEPT ![k] = t]
      PROVE  /\ tier' \in [Keys -> SUBSET {"hot", "cold"}] /\ tier'[k] # {}
             /\ \A q \in Keys \ {k} : tier'[q] = tier[q]
  BY <1>2, <1>3
<1>4. /\ tier' \in [Keys -> SUBSET {"hot", "cold"}] /\ tier'[k] # {}
      /\ \A q \in Keys \ {k} : tier'[q] = tier[q]
  BY <1>1, <1>3
<1>5. LogTypeOK'
  BY <1>1, <1>4 DEF LogInv, LogTypeOK
<1>6. Stored(k)' /\ Tasked(k)'
  BY <1>1, <1>4, LogFacts DEF Stored, Tasked
<1> QED
  BY <1>1, <1>4, <1>5, <1>6, KeyStep, LogFacts DEF TrueAnswer

-----------------------------------------------------------------------------
(* The operator log across engines.                                        *)

\* The engine moves on, or another one starts, and the log is left alone.
LEMMA PhaseKeepsLog ==
    ASSUME LogInv, UNCHANGED logVars,
           \/ phase' = phase
           \/ <<phase, phase'>> \in {<<"replay", "ack_abort">>, <<"ack_abort", "ack_replay">>,
                                     <<"ack_replay", "open">>, <<"ack_replay", "down">>,
                                     <<"open", "frozen">>, <<"down", "registry">>,
                                     <<"refused", "registry">>}
    PROVE  LogInv'
<1>1. UNCHANGED <<rows, tier, outbox, registry, job, receipts, emitted, answered, logSpent>>
  BY DEF logVars
<1>2. /\ LogTypeOK' /\ EmittedIsCommitted' /\ LogAnswersHold'
      /\ \A k \in Keys : Stored(k)' /\ Tasked(k)'
  BY <1>1 DEF LogInv, LogTypeOK, EmittedIsCommitted, LogAnswersHold, Stored, Tasked
<1>3. ~Running' => ~Running
  BY DEF Running
<1>4. /\ phase' = "refused" => phase = "refused"
      /\ Known' => Known /\ (Running => Running')
  BY DEF Running, Known, Phases, Settling
<1> QED
  BY <1>1, <1>2, <1>3, <1>4 DEF LogInv, RefusedOnlyOverStrandedDay

\* What was answered stays true while no row and no published publication is
\* taken back.
LEMMA AnswersKept ==
    ASSUME LogInv, UNCHANGED answered,
           \A k \in Keys : /\ rows[k] \in {NoContent, rows'[k]}
                           /\ outbox[k].state = "published" => outbox'[k] = outbox[k]
    PROVE  LogAnswersHold'
<1> SUFFICES ASSUME NEW k \in Keys, NEW c \in Contents
             PROVE  /\ <<k, c, "pending">> \in answered => rows'[k] = c
                    /\ <<k, c, "success">> \in answered
                          => outbox'[k] = [state |-> "published", content |-> c]
  BY DEF LogAnswersHold
<1>1. /\ <<k, c, "pending">> \in answered => rows[k] = c
      /\ <<k, c, "success">> \in answered => outbox[k] = [state |-> "published", content |-> c]
  BY DEF LogInv, LogAnswersHold
<1> QED
  BY <1>1, LogAssumption

\* The registry built from the daily files and the archive is the rows.
LEMMA RegistryIsBuilt ==
    ASSUME LogInv, BuildRegistry
    PROVE  LogInv'
<1>1. /\ phase = "registry" /\ UNCHANGED <<rows, tier, outbox, job, receipts, emitted, answered, logSpent>>
      /\ \A k \in Keys : job[k] = NoJob
      /\ rows \in [Keys -> Contents \cup {NoContent}] /\ tier \in [Keys -> SUBSET {"hot", "cold"}]
  BY DEF BuildRegistry, logDurable, LogInv, LogTypeOK, Running
<1>2. CASE phase' = "refused" /\ UNCHANGED registry
           /\ \E k \in Keys : HotRegistry[k] # NoContent /\ ColdRegistry[k] # NoContent
  <2>1. PICK k \in Keys : HotRegistry[k] # NoContent /\ ColdRegistry[k] # NoContent
    BY <1>2
  <2>2. tier[k] = {"hot", "cold"}
    BY <1>1, <2>1 DEF HotRegistry, ColdRegistry
  <2>3. LogTypeOK' /\ RefusedOnlyOverStrandedDay'
    BY <1>1, <1>2, <2>2 DEF LogInv, LogTypeOK, RefusedOnlyOverStrandedDay
  <2>4. ~Known' /\ ~Running'
    BY <1>2 DEF Known, Running
  <2> QED
    BY <1>1, <2>3, <2>4 DEF LogInv, Stored, Tasked, EmittedIsCommitted, LogAnswersHold
<1>3. CASE /\ phase' = "outbox"
           /\ registry' = [k \in Keys |-> IF HotRegistry[k] # NoContent
                                          THEN HotRegistry[k] ELSE ColdRegistry[k]]
  <2>1. ASSUME NEW k \in Keys
        PROVE  rows[k] = IF HotRegistry[k] # NoContent THEN HotRegistry[k] ELSE ColdRegistry[k]
    BY <1>1, LogFacts DEF HotRegistry, ColdRegistry, Stored
  <2>2. registry' = rows'
    BY <1>1, <1>3, <2>1
  <2>3. LogTypeOK'
    BY <1>1, <2>2 DEF LogInv, LogTypeOK
  <2>4. ~Running' /\ phase' # "refused"
    BY <1>3 DEF Running
  <2> QED
    BY <1>1, <2>2, <2>3, <2>4 DEF LogInv, Stored, Tasked, EmittedIsCommitted, LogAnswersHold,
                                  RefusedOnlyOverStrandedDay
<1> QED
  BY <1>2, <1>3 DEF BuildRegistry, GoTo

\* What the outbox is reconciled to agrees with the rows.
LEMMA ReconciledStored ==
    ASSUME LogInv, phase = "outbox", NEW k \in Keys
    PROVE  /\ Bound(k) /\ Reconciled(k) \in Publications
           /\ Reconciled(k).state \in {"absent", "intent", "published"}
           /\ Reconciled(k).content = rows[k]
           /\ rows[k] = NoContent <=> Reconciled(k).state = "absent"
           /\ outbox[k].state = "published" => Reconciled(k) = outbox[k]
<1>1. registry = rows
  BY DEF LogInv, Known, Running, Phases, Settling
<1>2. Stored(k) /\ outbox[k] \in Publications /\ rows[k] \in Contents \cup {NoContent}
  BY LogFacts
<1> QED
  BY <1>1, <1>2 DEF Stored, Bound, Reconciled, NoPublication, Publications

\* Reconciliation is never refused, and gives every row its publication.
LEMMA ReconcileKeeps ==
    ASSUME LogInv, ReconcileOutbox
    PROVE  LogInv'
<1>1. phase = "outbox" /\ UNCHANGED <<rows, tier, registry, job, receipts, emitted, answered, logSpent>>
  BY DEF ReconcileOutbox, logMemory
<1>2. phase' = "replay" /\ outbox' = [k \in Keys |-> Reconciled(k)]
  BY <1>1, ReconciledStored DEF ReconcileOutbox, GoTo
<1>3. outbox' \in [Keys -> Publications]
  BY <1>1, <1>2, ReconciledStored
<1>4. ASSUME NEW k \in Keys
      PROVE  Stored(k)' /\ Tasked(k)' /\ (outbox[k].state = "published" => outbox'[k] = outbox[k])
  <2>1. job[k] = NoJob
    BY <1>1 DEF LogInv, Running
  <2>2. outbox'[k] = Reconciled(k)
    BY <1>2
  <2>3. Stored(k)
    BY LogFacts
  <2> QED
    BY <1>1, <2>1, <2>2, <2>3, ReconciledStored DEF Stored, Tasked, NoJob
<1>5. LogAnswersHold'
  BY <1>1, <1>4, AnswersKept
<1>6. LogTypeOK' /\ EmittedIsCommitted' /\ RefusedOnlyOverStrandedDay'
  BY <1>1, <1>2, <1>3 DEF LogInv, LogTypeOK, EmittedIsCommitted, RefusedOnlyOverStrandedDay
<1>7. ~Running /\ ~Running' /\ Known /\ registry = rows
  BY <1>1, <1>2 DEF LogInv, Running, Known, Phases, Settling
<1> QED
  BY <1>1, <1>4, <1>5, <1>6, <1>7 DEF LogInv

\* The replay of an intent delivers what is committed.
LEMMA ReplayIntentKeeps ==
    ASSUME LogInv, NEW k \in Keys, ReplayIntent(k)
    PROVE  LogInv'
<1> DEFINE c == outbox[k].content
<1>1. /\ phase = "replay" /\ outbox[k].state = "intent"
      /\ UNCHANGED <<rows, tier, registry, job, receipts, answered, logSpent>>
      /\ emitted' = [emitted EXCEPT ![k] = @ \cup {c}]
      /\ \/ outbox' = [outbox EXCEPT ![k].state = "published"] /\ phase' = phase
         \/ phase' = "down" /\ UNCHANGED outbox
  BY DEF ReplayIntent, Intents, logMemory, engine, GoTo
<1>2. /\ Stored(k) /\ outbox[k] \in Publications /\ rows[k] = c /\ c \in Contents
      /\ emitted[k] \subseteq {rows[k]}
  BY <1>1, LogFacts DEF Stored, Publications
<1>3. emitted' \in [Keys -> SUBSET Contents] /\ EmittedIsCommitted'
  BY <1>1, <1>2 DEF LogInv, LogTypeOK, EmittedIsCommitted
<1>4. [outbox[k] EXCEPT !.state = "published"] = [state |-> "published", content |-> c]
  BY <1>2 DEF Publications
<1>5. /\ outbox' \in [Keys -> Publications] /\ \A q \in Keys \ {k} : outbox'[q] = outbox[q]
      /\ outbox'[k] \in {outbox[k], [state |-> "published", content |-> c]}
  <2>1. outbox \in [Keys -> Publications] /\ [state |-> "published", content |-> c] \in Publications
    BY <1>2 DEF LogInv, LogTypeOK, Publications
  <2> QED
    BY <1>1, <1>4, <2>1
<1>6. ASSUME NEW q \in Keys
      PROVE  Stored(q)' /\ Tasked(q)' /\ (outbox[q].state = "published" => outbox'[q] = outbox[q])
  <2>1. job[q] = NoJob /\ Stored(q)
    BY <1>1, LogFacts DEF LogInv, Running
  <2>2. CASE q = k
    BY <1>1, <1>2, <1>5, <2>1, <2>2, LogAssumption DEF Stored, Tasked, NoJob
  <2>3. CASE q # k
    BY <1>1, <1>5, <2>1, <2>3 DEF Stored, Tasked, NoJob
  <2> QED
    BY <2>2, <2>3
<1>7. LogTypeOK'
  BY <1>1, <1>3, <1>5 DEF LogInv, LogTypeOK
<1>8. LogAnswersHold'
  BY <1>1, <1>6, AnswersKept
<1>9. /\ ~Running /\ ~Running' /\ phase' # "refused" /\ registry = rows
  BY <1>1 DEF LogInv, Running, Known, Phases, Settling
<1> QED
  BY <1>1, <1>3, <1>6, <1>7, <1>8, <1>9 DEF LogInv, RefusedOnlyOverStrandedDay

\* The death of a process leaves an append at one of its stages.
LEMMA LogDiesKeeps ==
    ASSUME LogInv, LogDies, phase' = "down"
    PROVE  LogInv'
<1>1. /\ registry' = NoRegistry /\ job' = [k \in Keys |-> NoJob]
      /\ receipts' = [k \in Keys |-> NoContent] /\ UNCHANGED <<emitted, answered, logSpent>>
  BY DEF LogDies
<1>2. /\ ~Running' /\ ~Known' /\ phase' # "refused"
  BY DEF Running, Known
<1>3. /\ job' \in [Keys -> Jobs] /\ receipts' \in [Keys -> Contents \cup {NoContent}]
      /\ \A k \in Keys : job'[k] = NoJob /\ Tasked(k)'
  BY <1>1 DEF Jobs, NoJob, Tasked
<1>4. ASSUME rows' \in [Keys -> Contents \cup {NoContent}], tier' \in [Keys -> SUBSET {"hot", "cold"}],
             outbox' \in [Keys -> Publications],
             \A k \in Keys : /\ Stored(k)'
                             /\ rows[k] \in {NoContent, rows'[k]}
                             /\ outbox[k].state = "published" => outbox'[k] = outbox[k]
      PROVE  LogInv'
  <2>1. LogTypeOK'
    BY <1>1, <1>3, <1>4 DEF LogInv, LogTypeOK
  <2>2. EmittedIsCommitted'
    BY <1>1, <1>4, LogFacts DEF EmittedIsCommitted
  <2>3. LogAnswersHold'
    BY <1>1, <1>4, AnswersKept
  <2> QED
    BY <1>2, <1>3, <1>4, <2>1, <2>2, <2>3 DEF LogInv, RefusedOnlyOverStrandedDay
<1>5. CASE UNCHANGED logDurable
  <2>1. UNCHANGED <<rows, tier, outbox>>
    BY <1>5 DEF logDurable
  <2>2. \A k \in Keys : Stored(k)'
    BY <2>1 DEF LogInv, Stored
  <2> QED
    BY <1>4, <2>1, <2>2 DEF LogInv, LogTypeOK
<1>6. ASSUME NEW k \in Keys, NEW stage \in {1, 2}, job[k].pc = "append",
             Resolve(k, job[k].content) = "absent", Reservable(k, job[k].content),
             Appended(k, job[k].content, stage)
      PROVE  LogInv'
  <2>1. Running /\ job[k].content \in Contents
    BY <1>6, LogFacts DEF LogInv, NoJob
  <2>2. Stored(k)' /\ rows[k] = NoContent /\ outbox[k].state # "published"
    BY <1>6, <2>1, AppendedStored
  <2>3. /\ rows' \in [Keys -> Contents \cup {NoContent}] /\ tier' \in [Keys -> SUBSET {"hot", "cold"}]
        /\ outbox' \in [Keys -> Publications]
        /\ \A q \in Keys \ {k} : rows'[q] = rows[q] /\ tier'[q] = tier[q] /\ outbox'[q] = outbox[q]
    BY <1>6, <2>1, AppendedFacts
  <2>4. ASSUME NEW q \in Keys \ {k}
        PROVE  Stored(q)'
    BY <2>3, LogFacts DEF Stored
  <2> QED
    BY <1>4, <2>2, <2>3, <2>4
<1> QED
  BY <1>5, <1>6 DEF LogDies

\* At the start nothing is stored and nobody was answered.
LEMMA LogInitKeeps ==
    ASSUME LogInit, EngineInit
    PROVE  LogInv
<1>1. LogTypeOK
  BY LogAssumption DEF LogInit, LogTypeOK, NoPublication, NoJob, Publications, Jobs
<1>2. ~Running /\ ~Known /\ phase # "refused"
  BY DEF EngineInit, Running, Known
<1>3. \A k \in Keys : Stored(k) /\ Tasked(k) /\ job[k] = NoJob
  BY DEF LogInit, Stored, Tasked, NoPublication, NoJob
<1> QED
  BY <1>1, <1>2, <1>3 DEF LogInv, LogInit, EmittedIsCommitted, LogAnswersHold, RefusedOnlyOverStrandedDay

\* Every step of the program keeps the stores of the log in agreement.
LEMMA LogKept ==
    ASSUME LogInv, [Next]_vars
    PROVE  LogInv'
<1>1. CASE LogStep
  <2>1. UNCHANGED engine
    BY <1>1 DEF LogStep
  <2>2. ASSUME NEW k \in Keys, NEW c \in Contents, Submit(k, c)
        PROVE  LogInv'
    BY <2>1, <2>2, SubmitKeeps
  <2>3. ASSUME NEW k \in Keys, LogTask(k)
        PROVE  LogInv'
    BY <2>1, <2>3, FindKeeps, AppendCommitsKeeps, AppendFailsKeeps, PrepareKeeps, EmitKeeps, MarkKeeps,
       PublicationStepFailsKeeps, BackgroundEndsKeeps DEF LogTask
  <2>4. ASSUME NEW k \in Keys, ArchiveDay(k) \/ UnlinkDay(k)
        PROVE  LogInv'
    BY <2>1, <2>4, RotationKeeps
  <2> QED
    BY <1>1, <2>2, <2>3, <2>4 DEF LogStep
<1>2. CASE AckStep
  BY <1>2, PhaseKeepsLog DEF AckStep, engine
<1>3. CASE LogSettlement
  <2>1. CASE ReplayDone
    BY <2>1, PhaseKeepsLog DEF ReplayDone, GoTo
  <2> QED
    BY <1>3, <2>1, RegistryIsBuilt, ReconcileKeeps, ReplayIntentKeeps DEF LogSettlement
<1>4. CASE AckSettlement /\ UNCHANGED logVars
  <2>1. CASE AbortPrepared
    BY <1>4, <2>1, PhaseKeepsLog DEF AbortPrepared, GoTo
  <2>2. ASSUME NEW r \in Requests, ReplayAck(r)
        PROVE  LogInv'
    <3>1. phase = "ack_replay" /\ (phase' = phase \/ phase' = "down")
      BY <2>2 DEF ReplayAck, GoTo, engine
    <3> QED
      BY <1>4, <3>1, PhaseKeepsLog
  <2>3. CASE OpenIngress
    BY <1>4, <2>3, PhaseKeepsLog DEF OpenIngress, GoTo
  <2> QED
    BY <1>4, <2>1, <2>2, <2>3 DEF AckSettlement
<1>5. CASE Freeze
  BY <1>5, PhaseKeepsLog DEF Freeze, Accepting, GoTo
<1>6. CASE Stop \/ Crash
  BY <1>6, LogDiesKeeps DEF Stop, Crash, GoTo
<1>7. CASE Start
  BY <1>7, PhaseKeepsLog DEF Start, Restart
<1>8. CASE UNCHANGED vars
  BY <1>8, PhaseKeepsLog DEF vars, engine
<1> QED
  BY <1>1, <1>2, <1>3, <1>4, <1>5, <1>6, <1>7, <1>8 DEF Next, Settle

-----------------------------------------------------------------------------
(* Steps of an acknowledgement task.                                       *)

AckRows == [state : {"none", "prepared", "committed", "published", "aborted"},
            inc : 0..MaxIncarnation, src : 0..MaxActivations]
AckJobs == [pc : {"none", "find", "prepare", "claim", "abort", "commit", "apply", "emit", "mark", "refind"},
            src : 0..MaxActivations, background : BOOLEAN]
Records == [id : 0..MaxActivations, src : 0..MaxActivations]

\* The alarm is at most shown anew or takes this acknowledgement, and the
\* other requests are left alone.
TaskStep(r) ==
    /\ Running /\ UNCHANGED engine /\ sourceSeq' = sourceSeq
    /\ Sync \/ UNCHANGED <<shown, shownSeq, seen>>
    /\ live' = live \/ (Durable(r) /\ live' = Applied(r))
    /\ \A q \in Requests \ {r} :
          /\ target'[q] = target[q] /\ ackBox'[q] = ackBox[q] /\ ackJob'[q] = ackJob[q]
          /\ q \in holders' <=> q \in holders
          /\ q \in ackEmitted' <=> q \in ackEmitted
          /\ \A w \in {"published", "pending", "aborted", "stale"} :
                <<q, w>> \in ackAnswered' => <<q, w>> \in ackAnswered
    /\ lost \subseteq lost'

\* The row of a request moves forward only, and what it stands for is fixed.
RowMoves(r) ==
    /\ \/ ackBox'[r] = ackBox[r]
       \/ ackBox[r].state = "none" /\ ackBox'[r].state = "prepared" /\ ackBox'[r].inc = incarnation
       \/ /\ ackBox'[r].inc = ackBox[r].inc /\ ackBox'[r].src = ackBox[r].src
          /\ \/ ackBox[r].state = "prepared" /\ ackBox'[r].state \in {"aborted", "committed"}
             \/ ackBox[r].state = "committed" /\ ackBox'[r].state = "published"
    /\ target'[r] = target[r] \/ (target[r] = NoTarget /\ ackBox'[r] = ackBox[r])

\* What the invariant says of the alarm.
LEMMA AlarmFacts ==
    ASSUME AckInv
    PROVE  /\ sourceSeq \in Nat /\ shownSeq \in Nat /\ sourceSeq <= MaxActivations /\ shownSeq <= sourceSeq
           /\ live \in [src : 0..MaxActivations, by : Requests \cup {NoRequest}]
           /\ live = Clear \/ (live.src = sourceSeq /\ live.src > 0)
           /\ shown \in Records /\ NotShown \in Records
           /\ shown = NotShown \/ (shown.id > 0 /\ shown.id <= shownSeq /\ shown.src > 0)
           /\ live # Clear /\ shown.src # live.src => shownSeq < sourceSeq
           /\ seen \subseteq Activations
           /\ Running => \A a \in seen : a[1] = incarnation => a[2] <= shownSeq
BY AckAssumption DEF AckInv, AckTypeOK, Annunciated, Records, NotShown

\* What the invariant says of one request.
LEMMA AckFacts ==
    ASSUME AckInv, NEW r \in Requests
    PROVE  /\ ackBox \in [Requests -> AckRows] /\ ackJob \in [Requests -> AckJobs]
           /\ ackBox[r] \in AckRows /\ ackJob[r] \in AckJobs
           /\ target[r] \in Activations \cup {NoTarget}
           /\ Requested(r) /\ Answered(r)
           /\ target[r] \in seen => target[r] # NoTarget /\ target[r][2] > 0
BY DEF AckInv, AckTypeOK, AckRows, AckJobs, Activations, NoTarget

\* A sync gives a number nobody has seen, or keeps the one shown.
LEMMA Synced ==
    ASSUME AckInv, EngineTypes, Running, UNCHANGED engine, sourceSeq' = sourceSeq,
           Sync \/ UNCHANGED <<shown, shownSeq, seen>>,
           live'.src = live.src, live' = Clear <=> live = Clear
    PROVE  /\ Annunciated'
           /\ shown' \in Records /\ shownSeq' \in 0..MaxActivations
           /\ seen' \subseteq Activations /\ seen \subseteq seen'
           /\ \A a \in seen : a = <<incarnation, shown'.id>> => shown' = shown
<1>1. /\ sourceSeq \in Nat /\ shownSeq \in Nat /\ sourceSeq <= MaxActivations /\ shownSeq <= sourceSeq
      /\ live.src \in 0..MaxActivations
      /\ live = Clear \/ (live.src = sourceSeq /\ live.src > 0)
      /\ shown \in Records /\ NotShown \in Records
      /\ shown = NotShown \/ (shown.id > 0 /\ shown.id <= shownSeq /\ shown.src > 0)
      /\ live # Clear /\ shown.src # live.src => shownSeq < sourceSeq
      /\ seen \subseteq Activations
      /\ \A a \in seen : a[1] = incarnation => a[2] <= shownSeq
  BY AlarmFacts
<1>2. /\ incarnation' = incarnation /\ Running' /\ phase \notin Settling /\ phase' \notin Settling
      /\ incarnation \in 1..MaxIncarnation
  BY DEF engine, Running, Settling, EngineTypes
<1>3. CASE UNCHANGED <<shown, shownSeq, seen>>
  BY <1>1, <1>2, <1>3, AckAssumption DEF AckInv, Annunciated, Clear, NotShown
<1>4. ASSUME NEW p \in Records, shown' = p, NEW s \in {shownSeq, shownSeq + 1}, shownSeq' = s,
             s <= sourceSeq, s <= MaxActivations,
             \/ p = NotShown /\ live = Clear /\ seen' = seen
             \/ /\ p.id > 0 /\ p.id <= s /\ p.src = live.src /\ live # Clear
                /\ seen' = seen \cup {<<incarnation, p.id>>}
                /\ p = shown \/ p.id = shownSeq + 1
      PROVE  /\ Annunciated'
             /\ seen' \subseteq Activations /\ seen \subseteq seen'
             /\ \A a \in seen : a = <<incarnation, p.id>> => p = shown
  <2>1. \A a \in seen' : a \in seen \/ a = <<incarnation, p.id>>
    BY <1>4
  <2>2. p.id \in 0..MaxActivations /\ p.src \in 0..MaxActivations
    BY <1>4 DEF Records
  <2>3. seen' \subseteq Activations /\ seen \subseteq seen'
    BY <1>1, <1>2, <1>4, <2>2 DEF Activations
  <2>4. \A a \in seen' : a[1] <= incarnation /\ (a[1] = incarnation => a[2] <= s)
    <3>1. \A a \in seen : a[1] <= incarnation
      BY DEF AckInv, Annunciated
    <3>2. \A a \in seen : a[2] \in Nat
      BY <1>1 DEF Activations
    <3> QED
      BY <1>1, <1>2, <1>4, <2>1, <2>2, <3>1, <3>2
  <2>5. \A a \in seen : a = <<incarnation, p.id>> => p = shown
    <3> SUFFICES ASSUME <<incarnation, p.id>> \in seen
                 PROVE  p = shown
      OBVIOUS
    <3>1. p.id <= shownSeq /\ p.id > 0
      BY <1>1, <2>2 DEF Activations
    <3> QED
      BY <1>1, <1>4, <2>2, <3>1 DEF NotShown
  <2>6. Annunciated'
    BY <1>1, <1>2, <1>4, <2>2, <2>4 DEF AckInv, Annunciated, Clear, NotShown
  <2> QED
    BY <2>3, <2>5, <2>6
<1>5. CASE Sync
  <2>1. /\ shown' = Projected
        /\ shownSeq' = IF Projected.id > shownSeq THEN Projected.id ELSE shownSeq
        /\ seen' = seen \cup (IF Projected = NotShown THEN {} ELSE {<<incarnation, Projected.id>>})
    BY <1>5 DEF Sync
  <2>2. CASE live = Clear
    <3>1. Projected = NotShown
      BY <2>2 DEF Projected
    <3> QED
      BY <1>1, <1>4, <2>1, <2>2, <3>1, AckAssumption DEF NotShown
  <2>3. CASE live # Clear /\ shown.src = live.src
    <3>1. Projected = shown /\ shown # NotShown
      BY <1>1, <2>3 DEF Projected, NotShown
    <3> QED
      BY <1>1, <1>4, <2>1, <2>3, <3>1, AckAssumption DEF Records
  <2>4. CASE live # Clear /\ shown.src # live.src
    <3>1. Projected = [id |-> shownSeq + 1, src |-> live.src]
      BY <2>4 DEF Projected
    <3>2. shownSeq + 1 <= sourceSeq /\ shownSeq + 1 \in 0..MaxActivations
      BY <1>1, <2>4, AckAssumption
    <3>3. /\ Projected \in Records /\ Projected # NotShown /\ Projected.id = shownSeq + 1
          /\ Projected.src = live.src
      BY <1>1, <3>1, <3>2 DEF Records, NotShown
    <3> QED
      BY <1>1, <1>4, <2>1, <2>4, <3>2, <3>3, AckAssumption
  <2> QED
    BY <2>2, <2>3, <2>4
<1> QED
  BY <1>3, <1>5

\* A task's step gives the live alarm at most its own acknowledgement.
LEMMA LiveStep ==
    ASSUME AckInv, NEW r \in Requests, TaskStep(r)
    PROVE  /\ live'.src = live.src /\ (live' = Clear <=> live = Clear)
           /\ live' \in [src : 0..MaxActivations, by : Requests \cup {NoRequest}]
           /\ live.by # NoRequest => live' = live
           /\ live' = live \/ (live'.by = r /\ Concerns(r) /\ Durable(r))
           /\ incarnation' = incarnation /\ phase' = phase
<1>1. /\ live \in [src : 0..MaxActivations, by : Requests \cup {NoRequest}]
      /\ live = Clear \/ (live.src = sourceSeq /\ live.src > 0)
  BY AlarmFacts
<1>2. CASE live' = live
  BY <1>1, <1>2 DEF TaskStep, engine
<1>3. CASE Durable(r) /\ live' = Applied(r) /\ live' # live
  <2>1. Concerns(r) /\ live.by = NoRequest /\ live' = [live EXCEPT !.by = r] /\ live # Clear
    BY <1>3 DEF Applied, Concerns
  <2>2. live'.src = live.src /\ live'.by = r
    BY <1>1, <2>1
  <2>3. live' # Clear
    BY <1>1, <2>1, <2>2 DEF Clear
  <2>4. live' \in [src : 0..MaxActivations, by : Requests \cup {NoRequest}]
    BY <1>1, <2>1
  <2> QED
    BY <1>3, <2>1, <2>2, <2>3, <2>4 DEF TaskStep, engine
<1> QED
  BY <1>2, <1>3 DEF TaskStep

\* A task's step changes what the alarm shows, never what a shown activation
\* stands for.
LEMMA ShownStep ==
    ASSUME AckInv, EngineTypes, NEW r \in Requests, TaskStep(r)
    PROVE  /\ Annunciated' /\ seen \subseteq seen'
           /\ shown' \in Records /\ shownSeq' \in 0..MaxActivations /\ seen' \subseteq Activations
           /\ \A a \in seen : a = <<incarnation, shown'.id>> => shown' = shown
BY Synced, LiveStep DEF TaskStep

\* A source id that named its target goes on naming it.
LEMMA NamesKept ==
    ASSUME AckInv, EngineTypes, NEW r \in Requests, TaskStep(r), NEW q \in Requests, NEW src,
           target[q] \in seen, target'[q] = target[q], Names(q, src)
    PROVE  Names(q, src)'
BY ShownStep DEF TaskStep, Names, engine

\* The other requests keep what the invariant says of them.
LEMMA OthersKept ==
    ASSUME AckInv, EngineTypes, NEW r \in Requests, TaskStep(r), NEW q \in Requests \ {r}
    PROVE  /\ Requested(q)' /\ Answered(q)'
           /\ Durable(q)' <=> Durable(q)
           /\ Taken(q) => Taken(q)'
           /\ Lost(q) => Lost(q)'
<1>1. /\ target'[q] = target[q] /\ ackBox'[q] = ackBox[q] /\ ackJob'[q] = ackJob[q]
      /\ \A w \in {"published", "pending", "aborted", "stale"} :
            <<q, w>> \in ackAnswered' => <<q, w>> \in ackAnswered
      /\ lost \subseteq lost'
  BY DEF TaskStep
<1>2. Requested(q) /\ Answered(q)
  BY AckFacts
<1>3. /\ incarnation' = incarnation /\ (Running' <=> Running)
      /\ seen \subseteq seen' /\ live'.src = live.src /\ (live' = Clear <=> live = Clear)
      /\ live.by # NoRequest => live'.by # NoRequest
  BY LiveStep, ShownStep DEF Running
<1>4. Durable(q)' <=> Durable(q)
  BY <1>1 DEF Durable
<1>5. Taken(q) => Taken(q)'
  BY <1>1, <1>3 DEF Taken, Concerns
<1>6. Lost(q) => Lost(q)'
  BY <1>1 DEF Lost
<1>7. Requested(q)'
  <2>1. \A src : target[q] \in seen /\ Names(q, src) => Names(q, src)'
    BY <1>1, NamesKept
  <2> QED
    BY <1>1, <1>2, <1>3, <1>4, <1>5, <2>1 DEF Requested
<1>8. Answered(q)'
  <2>1. target[q] \in seen /\ target[q] # <<incarnation, shown.id>>
           => target[q] # <<incarnation, shown'.id>>
    BY ShownStep
  <2> QED
    BY <1>1, <1>2, <1>3, <1>5, <2>1 DEF Answered
<1> QED
  BY <1>4, <1>5, <1>6, <1>7, <1>8

\* What moves forward stays durable and stands for the same.
LEMMA RowKept ==
    ASSUME AckInv, NEW r \in Requests, TaskStep(r), RowMoves(r)
    PROVE  /\ Durable(r) => /\ Durable(r)' /\ target'[r] = target[r]
                            /\ ackBox'[r].inc = ackBox[r].inc /\ ackBox'[r].src = ackBox[r].src
           /\ Taken(r) /\ ackBox[r].state # "none" => Taken(r)'
           /\ Lost(r) => Lost(r)'
<1>1. Requested(r) /\ (target[r] \in seen => target[r] # NoTarget)
  BY AckFacts
<1>2. /\ incarnation' = incarnation /\ live'.src = live.src /\ (live' = Clear <=> live = Clear)
      /\ live.by # NoRequest => live'.by # NoRequest
  BY LiveStep
<1>3. Lost(r) => Lost(r)'
  BY DEF TaskStep, Lost
<1>4. ackBox[r].state # "none" => ackBox'[r].inc = ackBox[r].inc /\ ackBox'[r].src = ackBox[r].src
  BY DEF RowMoves
<1>5. Durable(r) => Durable(r)' /\ target'[r] = target[r]
  BY <1>1 DEF RowMoves, Durable, Requested
<1>6. Taken(r) /\ ackBox[r].state # "none" => Taken(r)'
  BY <1>2, <1>4 DEF Taken, Concerns
<1> QED
  BY <1>3, <1>4, <1>5, <1>6 DEF Durable

\* What a step leaves of the ownership of its own activation, for a step that
\* may claim or release it.
Owning(r) ==
    /\ ackJob'[r].pc \in {"abort", "commit"} => r \in holders'
    /\ r \in holders' => /\ ackJob'[r].pc \in {"abort", "commit", "apply"}
                         /\ \A q \in holders \ {r} : target[q] # target'[r]

\* A commit is new only to the owner of the activation, and what is committed
\* is applied before the owner releases it; a step reaches "commit" only when
\* nobody else committed without an exception.
Committing(r) ==
    /\ Durable(r)' => Durable(r) \/ (ackJob[r].pc = "commit" /\ target'[r] = target[r])
    /\ Durable(r)' /\ ~Lost(r)' => r \in holders' \/ Taken(r)'
    /\ ackJob'[r].pc = "commit" =>
          \A q \in Requests \ {r} : Durable(q) /\ target[q] = target'[r] => Lost(q)

\* The answers of a step and what it announces are true after it.
TrueAnswers(r) ==
    /\ <<r, "published">> \in ackAnswered' => ackBox'[r].state = "published"
    /\ <<r, "pending">> \in ackAnswered' => Durable(r)'
    /\ <<r, "aborted">> \in ackAnswered' => ackBox'[r].state = "aborted"
    /\ r \in ackEmitted' => Durable(r)'

\* One owner per activation.
LEMMA OwnersKept ==
    ASSUME AckInv, NEW r \in Requests, TaskStep(r), Owning(r), holders' \subseteq Requests
    PROVE  Owned'
<1>1. \A q \in Requests \ {r} : /\ target'[q] = target[q] /\ ackJob'[q] = ackJob[q]
                                /\ q \in holders' <=> q \in holders
  BY DEF TaskStep
<1>2. /\ \A q \in Requests : ackJob[q].pc \in {"abort", "commit"} => q \in holders
      /\ \A q \in holders : ackJob[q].pc \in {"abort", "commit", "apply"}
      /\ \A q, s \in holders : q # s => target[q] # target[s]
  BY DEF AckInv, Owned
<1>3. ASSUME NEW q \in Requests
      PROVE  /\ ackJob'[q].pc \in {"abort", "commit"} => q \in holders'
             /\ q \in holders' => ackJob'[q].pc \in {"abort", "commit", "apply"}
  BY <1>1, <1>2 DEF Owning
<1>4. ASSUME NEW q \in holders', NEW s \in holders', q # s
      PROVE  target'[q] # target'[s]
  <2>1. CASE q = r
    BY <1>1, <1>4, <2>1 DEF Owning
  <2>2. CASE s = r
    BY <1>1, <1>4, <2>2 DEF Owning
  <2>3. CASE q # r /\ s # r
    BY <1>1, <1>2, <1>4, <2>3
  <2> QED
    BY <2>1, <2>2, <2>3
<1> QED
  BY <1>3, <1>4 DEF Owned

\* One acknowledgement per activation.
LEMMA ExclusionKept ==
    ASSUME AckInv, EngineTypes, NEW r \in Requests, TaskStep(r), RowMoves(r), Committing(r)
    PROVE  Exclusive'
<1>1. /\ \A q \in Requests \ {r} : /\ Durable(q)' <=> Durable(q)
                                   /\ Taken(q) => Taken(q)'
                                   /\ Lost(q) => Lost(q)'
      /\ Lost(r) => Lost(r)'
      /\ Durable(r) => Durable(r)' /\ target'[r] = target[r]
  BY OthersKept, RowKept
<1>2. \A q \in Requests \ {r} : /\ target'[q] = target[q] /\ ackJob'[q] = ackJob[q]
                                /\ q \in holders' <=> q \in holders
  BY DEF TaskStep
<1>3. /\ \A q \in Requests : Durable(q) /\ ~Lost(q) => q \in holders \/ Taken(q)
      /\ \A q, s \in Requests : ackJob[s].pc = "commit" /\ q # s /\ Durable(q) /\ target[q] = target[s] => Lost(q)
      /\ \A q, s \in Requests : q # s /\ Durable(q) /\ Durable(s) /\ target[q] = target[s] => Lost(q) \/ Lost(s)
      /\ \A q \in Requests : ackJob[q].pc = "commit" => q \in holders
      /\ \A q, s \in holders : q # s => target[q] # target[s]
  BY DEF AckInv, Exclusive, Owned, OneAckPerActivation, Lost
<1>4. ASSUME NEW q \in Requests, Durable(q)', ~Lost(q)'
      PROVE  q \in holders' \/ Taken(q)'
  BY <1>1, <1>2, <1>3, <1>4 DEF Committing
<1>5. ASSUME NEW q \in Requests, NEW s \in Requests, ackJob'[s].pc = "commit", q # s, Durable(q)',
             target'[q] = target'[s]
      PROVE  Lost(q)'
  <2>1. CASE s = r
    BY <1>1, <1>2, <1>5, <2>1 DEF Committing
  <2>2. CASE q = r
    <3>1. ackJob[s].pc = "commit" /\ target[q] = target[s]
      BY <1>1, <1>2, <1>5, <2>2 DEF Committing
    <3>2. ackJob[r].pc # "commit"
      BY <1>3, <1>5, <2>2, <3>1
    <3>3. Durable(r)
      BY <1>5, <2>2, <3>2 DEF Committing
    <3> QED
      BY <1>1, <1>3, <1>5, <2>2, <3>1, <3>3
  <2>3. CASE q # r /\ s # r
    BY <1>1, <1>2, <1>3, <1>5, <2>3
  <2> QED
    BY <2>1, <2>2, <2>3
<1>6. ASSUME NEW s \in Requests \ {r}, Durable(r)', Durable(s)', target'[r] = target'[s]
      PROVE  Lost(r)' \/ Lost(s)'
  <2>1. Durable(s) /\ target[r] = target[s]
    BY <1>1, <1>2, <1>6 DEF Committing
  <2>2. CASE Durable(r)
    BY <1>1, <1>3, <2>1, <2>2
  <2>3. CASE ackJob[r].pc = "commit"
    BY <1>1, <1>3, <2>1, <2>3
  <2> QED
    BY <1>6, <2>2, <2>3 DEF Committing
<1>7. ASSUME NEW q \in Requests, NEW s \in Requests, q # s, Durable(q)', Durable(s)', target'[q] = target'[s]
      PROVE  Lost(q)' \/ Lost(s)'
  <2>1. CASE q = r
    BY <1>6, <1>7, <2>1
  <2>2. CASE s = r
    BY <1>6, <1>7, <2>2
  <2>3. CASE q # r /\ s # r
    BY <1>1, <1>2, <1>3, <1>7, <2>3
  <2> QED
    BY <2>1, <2>2, <2>3
<1>8. OneAckPerActivation'
  BY <1>7 DEF OneAckPerActivation, Lost
<1> QED
  BY <1>4, <1>5, <1>8 DEF Exclusive

\* A step of a task that moves its own row forward and answers truly keeps
\* the invariant.
LEMMA RequestStep ==
    ASSUME AckInv, EngineTypes, NEW r \in Requests, TaskStep(r), RowMoves(r), AckTypeOK',
           Requested(r)', Answered(r)', Owning(r), Committing(r), TrueAnswers(r)
    PROVE  AckInv'
<1>1. Annunciated'
  BY ShownStep
<1>2. ASSUME NEW q \in Requests
      PROVE  Requested(q)' /\ Answered(q)' /\ (Durable(q) => Durable(q)')
  BY OthersKept, RowKept
<1>3. Owned'
  BY OwnersKept DEF AckTypeOK
<1>4. Exclusive'
  BY ExclusionKept
<1>5. /\ \A q \in Requests \ {r} : /\ target'[q] = target[q] /\ ackBox'[q] = ackBox[q]
                                   /\ q \in ackEmitted' <=> q \in ackEmitted
                                   /\ \A w \in {"published", "pending", "aborted", "stale"} :
                                         <<q, w>> \in ackAnswered' => <<q, w>> \in ackAnswered
      /\ Running /\ incarnation' = incarnation /\ phase' = phase
  BY DEF TaskStep, engine
<1>6. Ingress'
  <2>1. \A q \in Requests : ackBox[q].inc # incarnation => ackBox[q].state \in {"none", "published", "aborted"}
    BY <1>5 DEF AckInv, Ingress
  <2>2. \A q \in Requests : ackBox'[q].inc # incarnation => ackBox'[q].state \in {"none", "published", "aborted"}
    BY <1>5, <2>1 DEF RowMoves
  <2>3. Running' /\ phase' # "ack_replay"
    BY <1>5 DEF Running
  <2> QED
    BY <1>5, <2>2, <2>3 DEF Ingress
<1>7. LiveAckIsDurable'
  <2> SUFFICES ASSUME live'.by # NoRequest
               PROVE  /\ Durable(live.by)'
                      /\ ackBox'[live'.by].inc = incarnation /\ ackBox'[live'.by].src = live'.src
                      /\ target'[live'.by][1] = incarnation
    BY <1>5 DEF LiveAckIsDurable
  <2>0. PICK o \in Requests : o = live'.by
    BY LiveStep
  <2>1. live'.src = live.src /\ (live' = live \/ (o = r /\ Concerns(r) /\ Durable(r)))
    BY <2>0, LiveStep
  <2>2. Durable(o) /\ ackBox[o].inc = incarnation /\ ackBox[o].src = live.src /\ target[o][1] = incarnation
    <3>1. CASE live' = live
      BY <2>0, <3>1 DEF AckInv, LiveAckIsDurable
    <3>2. CASE o = r /\ Concerns(r) /\ Durable(r)
      BY <3>2, AckFacts DEF Concerns, Requested, Durable
    <3> QED
      BY <2>1, <3>1, <3>2
  <2>3. ackBox'[o].inc = ackBox[o].inc /\ ackBox'[o].src = ackBox[o].src /\ target'[o] = target[o]
    BY <1>5, <2>1, <2>2, RowKept
  <2>4. Durable(o)'
    BY <1>2, <2>2
  <2> QED
    BY <2>0, <2>1, <2>2, <2>3, <2>4
<1>8. AnnouncedIsCommitted'
  <2>1. ackEmitted' \subseteq Requests
    BY DEF AckTypeOK
  <2> QED
    BY <1>2, <1>5, <2>1 DEF AnnouncedIsCommitted, AckInv, TrueAnswers
<1>9. AckAnswersHold'
  <2> SUFFICES ASSUME NEW q \in Requests
               PROVE  /\ <<q, "published">> \in ackAnswered' => ackBox'[q].state = "published"
                      /\ <<q, "pending">> \in ackAnswered' => Durable(q)'
                      /\ <<q, "aborted">> \in ackAnswered' => ackBox'[q].state = "aborted"
                      /\ <<q, "stale">> \in ackAnswered' => ~Durable(q)'
    BY <1>8 DEF AckAnswersHold, AnnouncedIsCommitted, Durable
  <2>1. CASE q = r
    BY <2>1 DEF TrueAnswers, Answered, Durable
  <2>2. CASE q # r
    BY <1>5, <2>2 DEF AckInv, AckAnswersHold, Durable
  <2> QED
    BY <2>1, <2>2
<1> QED
  BY <1>1, <1>2, <1>3, <1>4, <1>6, <1>7, <1>8, <1>9 DEF AckInv

-----------------------------------------------------------------------------
(* The steps of a task, one by one.                                        *)

Words == {"published", "pending", "aborted", "stale"}

\* What a step may answer.
Tells(r, answers) ==
    /\ \A w \in Words : <<r, w>> \in ackAnswered' => <<r, w>> \in ackAnswered \/ w \in answers
    /\ "published" \in answers => ackBox'[r].state = "published" /\ Taken(r)'
    /\ "pending" \in answers => Durable(r)'
    /\ "aborted" \in answers => ackBox'[r].state = "aborted"
    /\ "stale" \in answers => target[r] # <<incarnation, shown'.id>>
    /\ <<r, "stale">> \in ackAnswered' => ackBox'[r].state = "none" /\ ackJob'[r].pc \in {"none", "find"}
    /\ r \in ackEmitted' => r \in ackEmitted \/ Durable(r)'

\* The types a task's step has to keep.
TaskTypes ==
    /\ ackBox' \in [Requests -> AckRows] /\ ackJob' \in [Requests -> AckJobs]
    /\ ackAnswered' \subseteq Requests \X Words
    /\ holders' \subseteq Requests /\ acked' \subseteq Requests /\ ackEmitted' \subseteq Requests
    /\ lost' \subseteq Requests \X (1..MaxIncarnation) /\ ackSpent' \in 0..AckBudget

\* A step of a task under way.
LEMMA TaskKeeps ==
    ASSUME AckInv, EngineTypes, NEW r \in Requests, TaskStep(r), RowMoves(r), TaskTypes,
           UNCHANGED target, target[r] \in seen,
           Requested(r)', Owning(r), Committing(r), NEW answers, Tells(r, answers)
    PROVE  AckInv'
<1>1. AckTypeOK'
  <2>1. /\ live' \in [src : 0..MaxActivations, by : Requests \cup {NoRequest}]
        /\ shown' \in Records /\ shownSeq' \in 0..MaxActivations /\ seen' \subseteq Activations
    BY LiveStep, ShownStep
  <2>2. sourceSeq' \in 0..MaxActivations /\ target' \in [Requests -> Activations \cup {NoTarget}]
    BY DEF AckInv, AckTypeOK, TaskStep
  <2> QED
    BY <2>1, <2>2 DEF AckTypeOK, TaskTypes, AckRows, AckJobs, Records, Words
<1>2. /\ <<r, "published">> \in ackAnswered => ackBox[r].state = "published" /\ Taken(r)
      /\ <<r, "pending">> \in ackAnswered => Durable(r)
      /\ <<r, "aborted">> \in ackAnswered => ackBox[r].state = "aborted"
      /\ <<r, "stale">> \in ackAnswered => target[r] # <<incarnation, shown.id>>
      /\ r \in ackEmitted => Durable(r)
  BY AckFacts DEF Answered, AckInv, AckAnswersHold, AnnouncedIsCommitted
<1>3. /\ Durable(r) => Durable(r)'
      /\ Taken(r) /\ ackBox[r].state # "none" => Taken(r)'
      /\ ackBox[r].state \in {"published", "aborted"} => ackBox'[r] = ackBox[r]
      /\ target[r] # <<incarnation, shown.id>> => target[r] # <<incarnation, shown'.id>>
      /\ seen \subseteq seen' /\ incarnation' = incarnation
  BY RowKept, ShownStep, LiveStep DEF RowMoves
<1>4. TrueAnswers(r)
  BY <1>2, <1>3 DEF Tells, TrueAnswers, Words
<1>5. Answered(r)'
  BY <1>2, <1>3 DEF Tells, Answered, Words
<1> QED
  BY <1>1, <1>4, <1>5, RequestStep

\* A row that stands keeps what it stands for.
LEMMA RequestedKept ==
    ASSUME AckInv, EngineTypes, NEW r \in Requests, TaskStep(r), RowMoves(r), UNCHANGED target,
           target[r] \in seen,
           ackBox'[r] = ackBox[r] \/ ackBox[r].state # "none",
           ackJob'[r].pc # "prepare",
           ackJob'[r].pc \in {"claim", "abort", "commit"} => ackBox'[r].state = "prepared",
           ackJob'[r].pc \in {"apply", "emit", "mark", "refind"} => Durable(r)',
           ackJob'[r].pc \in {"emit", "mark", "refind"} => Taken(r)'
    PROVE  Requested(r)'
<1>1. Requested(r)
  BY AckFacts
<1>2. seen \subseteq seen' /\ incarnation' = incarnation /\ (Running' <=> Running)
  BY ShownStep, LiveStep DEF Running
<1>3. /\ ackBox'[r].state = "none" => ackBox'[r] = ackBox[r] /\ ackBox[r].state = "none"
      /\ ackBox'[r].state # "none" => /\ ackBox[r].state # "none"
                                      /\ ackBox'[r].inc = ackBox[r].inc /\ ackBox'[r].src = ackBox[r].src
  BY DEF RowMoves
<1>4. \A src : Names(r, src) => Names(r, src)'
  BY NamesKept
<1> QED
  BY <1>1, <1>2, <1>3, <1>4 DEF Requested

\* A row that stays as it is asks for no new ground to stand on.
LEMMA CommittingKept ==
    ASSUME AckInv, EngineTypes, NEW r \in Requests, TaskStep(r), RowMoves(r), UNCHANGED target,
           Durable(r)' => Durable(r), ackJob'[r].pc # "commit",
           r \in holders => r \in holders' \/ (Durable(r) => Taken(r)')
    PROVE  Committing(r)
<1>1. Durable(r) /\ ~Lost(r) => r \in holders \/ Taken(r)
  BY DEF AckInv, Exclusive
<1>2. Durable(r) => ackBox[r].state # "none"
  BY DEF Durable
<1> QED
  BY <1>1, <1>2, RowKept DEF Committing

\* A task moves on.
LEMMA Steps ==
    ASSUME AckInv, NEW r \in Requests,
           NEW pc \in {"find", "claim", "abort", "commit", "apply", "emit", "mark"}, Step(r, pc)
    PROVE  /\ ackJob' \in [Requests -> AckJobs] /\ ackJob'[r].pc = pc
           /\ \A q \in Requests \ {r} : ackJob'[q] = ackJob[q]
<1>1. ackJob \in [Requests -> AckJobs] /\ ackJob[r] \in AckJobs
  BY AckFacts
<1>2. [ackJob[r] EXCEPT !.pc = pc] \in AckJobs /\ [ackJob[r] EXCEPT !.pc = pc].pc = pc
  BY <1>1 DEF AckJobs
<1> QED
  BY <1>1, <1>2 DEF Step

\* A task ends with its answers.
LEMMA Finishes ==
    ASSUME AckInv, NEW r \in Requests, NEW answers \in SUBSET Words, Finish(r, answers)
    PROVE  /\ ackJob' \in [Requests -> AckJobs] /\ ackJob'[r] = NoAckJob /\ ackJob'[r].pc = "none"
           /\ \A q \in Requests \ {r} : ackJob'[q] = ackJob[q]
           /\ ackAnswered' \subseteq Requests \X Words
           /\ \A q \in Requests \ {r}, w \in Words : <<q, w>> \in ackAnswered' => <<q, w>> \in ackAnswered
           /\ \A w \in Words : <<r, w>> \in ackAnswered' => <<r, w>> \in ackAnswered \/ w \in answers
<1>1. ackJob \in [Requests -> AckJobs] /\ NoAckJob \in AckJobs
  BY AckFacts, AckAssumption DEF NoAckJob, AckJobs
<1>2. ackAnswered \subseteq Requests \X Words
  BY DEF AckInv, AckTypeOK, Words
<1> QED
  BY <1>1, <1>2 DEF Finish, NoAckJob

\* What a running task finds of its own: its activation was seen, and past
\* the lookup it was not told that the activation is stale.
LEMMA Working ==
    ASSUME AckInv, NEW r \in Requests, ackJob[r].pc # "none"
    PROVE  /\ target[r] \in seen
           /\ ackJob[r].pc # "find" \/ ackBox[r].state # "none" => <<r, "stale">> \notin ackAnswered
           /\ ackJob[r].pc \in {"abort", "commit"} => r \in holders
           /\ r \in holders => /\ ackJob[r].pc \in {"abort", "commit", "apply"}
                               /\ \A q \in holders \ {r} : target[q] # target[r]
BY AckFacts DEF Requested, Answered, AckInv, Owned

\* The types before a step.
LEMMA TypesBefore ==
    ASSUME AckInv
    PROVE  /\ ackBox \in [Requests -> AckRows] /\ ackJob \in [Requests -> AckJobs]
           /\ ackAnswered \subseteq Requests \X Words
           /\ holders \subseteq Requests /\ acked \subseteq Requests /\ ackEmitted \subseteq Requests
           /\ lost \subseteq Requests \X (1..MaxIncarnation) /\ ackSpent \in 0..AckBudget
           /\ target \in [Requests -> Activations \cup {NoTarget}] /\ seen \subseteq Activations
BY DEF AckInv, AckTypeOK, AckRows, AckJobs, Words

\* A target that resolves is the live alarm.
LEMMA ResolvedIsLive ==
    ASSUME AckInv, NEW r \in Requests, Resolves(r), target[r] \in seen
    PROVE  live # Clear /\ Projected.src = live.src /\ live.src \in 1..sourceSeq
<1>1. target[r][2] > 0 /\ target[r] = <<incarnation, Projected.id>>
  BY AckFacts DEF Resolves
<1>2. live # Clear
  BY <1>1 DEF Projected, NotShown
<1> QED
  BY <1>2, AlarmFacts DEF Projected

\* The lookup of an unknown request: its activation is the one shown, or stale.
LEMMA FindUnknownKeeps ==
    ASSUME AckInv, EngineTypes, NEW r \in Requests, FindUnknown(r), UNCHANGED engine
    PROVE  AckInv'
<1>1. /\ Running /\ ackJob[r].pc = "find" /\ ackBox[r].state = "none" /\ Sync
      /\ UNCHANGED <<live, sourceSeq, target, ackBox, holders, acked, ackEmitted, lost, ackSpent>>
      /\ target[r] \in seen /\ r \notin holders
  BY Working DEF FindUnknown, At
<1>2. Requested(r) /\ ackJob \in [Requests -> AckJobs] /\ ackJob[r] \in AckJobs
  BY AckFacts
<1>3. CASE Resolves(r) /\ ackJob' = [ackJob EXCEPT ![r].pc = "prepare", ![r].src = Projected.src]
           /\ UNCHANGED ackAnswered
  <2>1. live # Clear /\ Projected.src = live.src /\ live.src \in 1..sourceSeq
    BY <1>1, <1>3, ResolvedIsLive
  <2>2. Projected.src \in 0..MaxActivations
    BY <2>1, AlarmFacts
  <2>3. PICK half : half = [ackJob EXCEPT ![r].pc = "prepare"]
    OBVIOUS
  <2>4. /\ ackJob' \in [Requests -> AckJobs] /\ ackJob'[r].pc = "prepare" /\ ackJob'[r].src = Projected.src
        /\ \A q \in Requests \ {r} : ackJob'[q] = ackJob[q]
    <3>1. [ackJob[r] EXCEPT !.pc = "prepare"] \in AckJobs
      BY <1>2 DEF AckJobs
    <3>2. /\ half \in [Requests -> AckJobs] /\ half[r] \in AckJobs /\ half[r].pc = "prepare"
          /\ \A q \in Requests \ {r} : half[q] = ackJob[q]
      BY <1>2, <2>3, <3>1 DEF AckJobs
    <3>3. ackJob' = [half EXCEPT ![r].src = Projected.src]
      BY <1>3, <2>3
    <3>4. [half[r] EXCEPT !.src = Projected.src] \in AckJobs
      BY <2>2, <3>2 DEF AckJobs
    <3> QED
      BY <3>2, <3>3, <3>4 DEF AckJobs
  <2>5. TaskStep(r) /\ RowMoves(r)
    BY <1>1, <1>3, <2>4 DEF TaskStep, RowMoves
  <2>6. target[r] = <<incarnation, shown'.id>> /\ shown'.src = Projected.src
    BY <1>1, <1>3 DEF Resolves, Sync
  <2>7. Requested(r)'
    <3>2. /\ ackJob'[r].src \in 1..sourceSeq' /\ ackJob'[r].src = shown'.src
          /\ target'[r][1] = incarnation'
      BY <1>1, <2>1, <2>4, <2>6 DEF engine
    <3> QED
      BY <1>1, <1>2, <2>4, <2>5, <3>2, ShownStep DEF Requested, Names
  <2>8. Owning(r)
    BY <1>1, <2>4 DEF Owning
  <2>9. Committing(r)
    BY <1>1, <2>4, <2>5, CommittingKept DEF Durable
  <2>10. <<r, "stale">> \notin ackAnswered
    BY <1>1, <2>5, <2>6, AckFacts, ShownStep DEF Answered
  <2>11. Tells(r, {})
    BY <1>1, <1>3, <2>10 DEF Tells
  <2>12. TaskTypes
    BY <1>1, <1>3, <2>4, TypesBefore DEF TaskTypes
  <2> QED
    BY <1>1, <2>5, <2>7, <2>8, <2>9, <2>11, <2>12, TaskKeeps
<1>4. CASE ~Resolves(r) /\ Finish(r, {"stale"})
  <2>1. /\ ackJob' \in [Requests -> AckJobs] /\ ackJob'[r].pc = "none"
        /\ \A q \in Requests \ {r} : ackJob'[q] = ackJob[q]
        /\ ackAnswered' \subseteq Requests \X Words
        /\ \A q \in Requests \ {r}, w \in Words : <<q, w>> \in ackAnswered' => <<q, w>> \in ackAnswered
        /\ \A w \in Words : <<r, w>> \in ackAnswered' => <<r, w>> \in ackAnswered \/ w \in {"stale"}
    BY <1>4, Finishes, {"stale"} \in SUBSET Words DEF Words
  <2>2. TaskStep(r) /\ RowMoves(r)
    BY <1>1, <2>1 DEF TaskStep, RowMoves, Words
  <2>3. target[r] # <<incarnation, shown'.id>>
    BY <1>1, <1>4 DEF Resolves, Sync
  <2>4. Requested(r)'
    BY <1>1, <2>1, <2>2, RequestedKept
  <2>5. Owning(r)
    BY <1>1, <2>1 DEF Owning
  <2>6. Committing(r)
    BY <1>1, <2>1, <2>2, CommittingKept DEF Durable
  <2>7. Tells(r, {"stale"})
    BY <1>1, <2>1, <2>3 DEF Tells
  <2>8. TaskTypes
    BY <1>1, <2>1, TypesBefore DEF TaskTypes
  <2> QED
    BY <1>1, <2>2, <2>4, <2>5, <2>6, <2>7, <2>8, TaskKeeps
<1> QED
  BY <1>3, <1>4 DEF FindUnknown

\* A step that leaves the row and what is shown, and takes no ownership.
LEMMA RowStands ==
    ASSUME AckInv, EngineTypes, NEW r \in Requests, Running, UNCHANGED engine, ackJob[r].pc # "none",
           UNCHANGED <<sourceSeq, shown, shownSeq, seen, target, ackBox, lost>>,
           live' = live \/ (Durable(r) /\ live' = Applied(r)),
           ackJob' \in [Requests -> AckJobs], \A q \in Requests \ {r} : ackJob'[q] = ackJob[q],
           ackJob'[r].pc \in {"none", "claim", "apply", "emit", "mark", "refind"},
           ackJob'[r].pc = "claim" => ackBox[r].state = "prepared",
           ackJob'[r].pc \in {"apply", "emit", "mark", "refind"} => Durable(r),
           ackJob'[r].pc \in {"emit", "mark", "refind"} => Taken(r)',
           holders' \in {holders, holders \ {r}}, r \in holders' => ackJob'[r].pc = "apply",
           r \in holders /\ r \notin holders' /\ Durable(r) => Taken(r)',
           ackAnswered' \subseteq Requests \X Words,
           \A q \in Requests \ {r}, w \in Words : <<q, w>> \in ackAnswered' => <<q, w>> \in ackAnswered,
           acked' \subseteq Requests, ackEmitted' \in {ackEmitted, ackEmitted \cup {r}},
           ackSpent' \in 0..AckBudget,
           NEW answers, Tells(r, answers)
    PROVE  AckInv'
<1>1. /\ target[r] \in seen
      /\ r \in holders => \A q \in holders \ {r} : target[q] # target[r]
  BY Working
<1>2. /\ holders' \subseteq Requests /\ ackEmitted' \subseteq Requests
      /\ \A q \in Requests \ {r} : (q \in holders' <=> q \in holders) /\ (q \in ackEmitted' <=> q \in ackEmitted)
  BY TypesBefore
<1>3. TaskStep(r)
  BY <1>2 DEF TaskStep, Words
<1>4. RowMoves(r) /\ (Durable(r)' <=> Durable(r))
  BY DEF RowMoves, Durable
<1>5. TaskTypes
  BY <1>2, TypesBefore DEF TaskTypes
<1>6. Requested(r)'
  BY <1>1, <1>3, <1>4, RequestedKept
<1>7. Owning(r)
  BY <1>1 DEF Owning
<1>8. Committing(r)
  BY <1>3, <1>4, CommittingKept
<1> QED
  BY <1>1, <1>3, <1>4, <1>5, <1>6, <1>7, <1>8, TaskKeeps

\* What was committed is applied, or finds the alarm acknowledged already.
LEMMA AppliedTakes ==
    ASSUME AckInv, NEW r \in Requests, UNCHANGED <<incarnation, ackBox>>,
           \/ Contradicts(r) /\ live' = live
           \/ ~Contradicts(r) /\ live' = Applied(r)
           \/ Taken(r) /\ live' = live
    PROVE  Taken(r)'
<1>1. live \in [src : 0..MaxActivations, by : Requests \cup {NoRequest}] /\ r # NoRequest
  BY AlarmFacts, AckAssumption
<1> QED
  BY <1>1 DEF Taken, Contradicts, Applied, Concerns

\* The lookup of a retained request goes on from its row.
LEMMA FindRetainedKeeps ==
    ASSUME AckInv, EngineTypes, NEW r \in Requests, FindRetained(r), UNCHANGED engine
    PROVE  AckInv'
<1>1. /\ Running /\ ackJob[r].pc = "find" /\ ackBox[r].state # "none"
      /\ UNCHANGED <<sourceSeq, shown, shownSeq, seen, target, ackBox, holders, ackEmitted, lost, ackSpent>>
      /\ r \notin holders /\ <<r, "stale">> \notin ackAnswered
      /\ incarnation' = incarnation
  BY Working DEF FindRetained, At, engine
<1>2. ASSUME NEW pc \in {"claim", "apply"}, Step(r, pc), UNCHANGED <<live, ackAnswered, acked>>,
             pc = "claim" => ackBox[r].state = "prepared", pc = "apply" => Durable(r)
      PROVE  AckInv'
  <2>1. /\ ackJob' \in [Requests -> AckJobs] /\ ackJob'[r].pc = pc
        /\ \A q \in Requests \ {r} : ackJob'[q] = ackJob[q]
    BY <1>2, Steps
  <2>2. Tells(r, {})
    BY <1>1, <1>2 DEF Tells
  <2> QED
    BY <1>1, <1>2, <2>1, <2>2, TypesBefore, RowStands
<1>3. ASSUME NEW answers \in {{}, {"aborted"}, {"published"}}, Finish(r, answers), acked' \subseteq Requests,
             live' = live \/ (Durable(r) /\ live' = Applied(r)),
             answers = {"aborted"} => ackBox[r].state = "aborted",
             answers = {"published"} => ackBox[r].state = "published" /\ Taken(r)'
      PROVE  AckInv'
  <2>1. answers \in SUBSET Words
    BY <1>3 DEF Words
  <2>2. /\ ackJob' \in [Requests -> AckJobs] /\ ackJob'[r].pc = "none"
        /\ \A q \in Requests \ {r} : ackJob'[q] = ackJob[q]
        /\ ackAnswered' \subseteq Requests \X Words
        /\ \A q \in Requests \ {r}, w \in Words : <<q, w>> \in ackAnswered' => <<q, w>> \in ackAnswered
        /\ \A w \in Words : <<r, w>> \in ackAnswered' => <<r, w>> \in ackAnswered \/ w \in answers
    BY <1>3, <2>1, Finishes
  <2>3. Tells(r, answers)
    BY <1>1, <1>3, <2>2 DEF Tells, Words
  <2> QED
    BY <1>1, <1>3, <2>2, <2>3, TypesBefore, RowStands
<1>4. CASE ackBox[r].state = "prepared"
  BY <1>1, <1>2, <1>4 DEF FindRetained
<1>5. CASE ackBox[r].state = "committed"
  BY <1>1, <1>2, <1>5 DEF FindRetained, Durable
<1>6. CASE ackBox[r].state = "aborted"
  BY <1>1, <1>3, <1>6, TypesBefore DEF FindRetained
<1>7. CASE ackBox[r].state = "published"
  <2>1. acked' \subseteq Requests
    BY <1>7, TypesBefore DEF FindRetained
  <2>2. CASE Contradicts(r)
    BY <1>3, <1>7, <2>1, <2>2 DEF FindRetained
  <2>3. CASE ~Contradicts(r)
    <3>1. Finish(r, {"published"}) /\ live' = Applied(r)
      BY <1>7, <2>3 DEF FindRetained
    <3>2. Taken(r)'
      BY <1>1, <2>3, <3>1, AppliedTakes
    <3> QED
      BY <1>3, <1>7, <2>1, <3>1, <3>2 DEF Durable
  <2> QED
    BY <2>2, <2>3
<1>8. ackBox[r].state \in {"prepared", "committed", "aborted", "published"}
  BY <1>1, AckFacts DEF AckRows
<1> QED
  BY <1>4, <1>5, <1>6, <1>7, <1>8

\* A step that ends the task with at most one answer, or goes on to announce,
\* with the row and the alarm as they are.
LEMMA RowAnswered ==
    ASSUME AckInv, EngineTypes, NEW r \in Requests, Running, UNCHANGED engine,
           ackJob[r].pc \notin {"none", "find"},
           UNCHANGED <<sourceSeq, shown, shownSeq, seen, target, ackBox, lost>>,
           live' = live \/ (Durable(r) /\ live' = Applied(r)),
           holders' = holders \ {r},
           r \in holders /\ Durable(r) => Taken(r)',
           ackEmitted' \in {ackEmitted, ackEmitted \cup {r}}, r \in ackEmitted' => r \in ackEmitted \/ Durable(r),
           acked' \subseteq Requests, ackSpent' \in 0..AckBudget,
           NEW answers \in {{}, {"published"}, {"pending"}},
           answers = {"published"} => ackBox[r].state = "published" /\ Taken(r)',
           answers = {"pending"} => Durable(r),
           \/ Finish(r, answers)
           \/ /\ ackJob' \in [Requests -> AckJobs] /\ \A q \in Requests \ {r} : ackJob'[q] = ackJob[q]
              /\ ackJob'[r].pc \in {"emit", "mark", "refind"} /\ Durable(r) /\ Taken(r)'
              /\ ackAnswered' = ackAnswered \cup ({r} \X answers)
    PROVE  AckInv'
<1>1. answers \in SUBSET Words
  BY DEF Words
<1>2. /\ ackJob' \in [Requests -> AckJobs] /\ ackJob'[r].pc \in {"none", "emit", "mark", "refind"}
      /\ \A q \in Requests \ {r} : ackJob'[q] = ackJob[q]
      /\ ackAnswered' = ackAnswered \cup ({r} \X answers)
      /\ ackJob'[r].pc # "none" => Durable(r) /\ Taken(r)'
  <2>1. CASE Finish(r, answers)
    BY <1>1, <2>1, Finishes DEF Finish
  <2>2. CASE ~Finish(r, answers)
    BY <2>2
  <2> QED
    BY <2>1, <2>2
<1>3. <<r, "stale">> \notin ackAnswered
  BY Working
<1>4. /\ ackAnswered' \subseteq Requests \X Words
      /\ \A q \in Requests \ {r}, w \in Words : <<q, w>> \in ackAnswered' => <<q, w>> \in ackAnswered
      /\ \A w \in Words : <<r, w>> \in ackAnswered' => <<r, w>> \in ackAnswered \/ w \in answers
  BY <1>1, <1>2, TypesBefore
<1>5. Tells(r, answers)
  BY <1>3, <1>4 DEF Tells, Words, Durable
<1> QED
  BY <1>2, <1>4, <1>5, RowStands

\* The claim of an unavailable projection: the row stays prepared.
LEMMA ClaimUnavailableKeeps ==
    ASSUME AckInv, EngineTypes, NEW r \in Requests, ClaimUnavailable(r), UNCHANGED engine
    PROVE  AckInv'
<1>1. /\ Running /\ ackJob[r].pc = "claim" /\ Finish(r, {})
      /\ UNCHANGED <<live, sourceSeq, shown, shownSeq, seen, target, ackBox, holders, acked, ackEmitted,
                     lost, ackSpent>>
  BY DEF ClaimUnavailable, At, alarmMemory
<1>2. r \notin holders
  BY <1>1, Working
<1> QED
  BY <1>1, <1>2, TypesBefore, RowAnswered

\* The application: the activation is released once it is acknowledged.
LEMMA ApplyKeeps ==
    ASSUME AckInv, EngineTypes, NEW r \in Requests, Apply(r), UNCHANGED engine
    PROVE  AckInv'
<1>1. /\ Running /\ ackJob[r].pc = "apply" /\ holders' = holders \ {r} /\ incarnation' = incarnation
      /\ UNCHANGED <<sourceSeq, shown, shownSeq, seen, target, ackBox, acked, ackEmitted, lost, ackSpent>>
      /\ IF Contradicts(r) THEN Finish(r, {}) /\ live' = live
         ELSE Step(r, "emit") /\ live' = Applied(r) /\ UNCHANGED ackAnswered
  BY DEF Apply, At, engine
<1>2. Durable(r)
  BY <1>1, AckFacts DEF Requested
<1>3. Taken(r)'
  BY <1>1, AppliedTakes
<1>4. CASE Contradicts(r)
  BY <1>1, <1>3, <1>4, TypesBefore, RowAnswered
<1>5. CASE ~Contradicts(r)
  <2>1. /\ ackJob' \in [Requests -> AckJobs] /\ ackJob'[r].pc = "emit"
        /\ \A q \in Requests \ {r} : ackJob'[q] = ackJob[q]
    BY <1>1, <1>5, Steps
  <2>2. ackAnswered' = ackAnswered \cup ({r} \X {})
    BY <1>1, <1>5
  <2> QED
    BY <1>1, <1>2, <1>3, <1>5, <2>1, <2>2, TypesBefore, RowAnswered
<1> QED
  BY <1>4, <1>5

\* A task that publishes owns nothing and finds the alarm acknowledged.
LEMMA Publishing ==
    ASSUME AckInv, NEW r \in Requests, ackJob[r].pc \in {"emit", "mark", "refind"}
    PROVE  Durable(r) /\ Taken(r) /\ r \notin holders /\ holders = holders \ {r}
<1>1. Durable(r) /\ Taken(r)
  BY AckFacts DEF Requested
<1>2. r \notin holders
  BY Working
<1> QED
  BY <1>1, <1>2

\* The announcement.
LEMMA EmitAckKeeps ==
    ASSUME AckInv, EngineTypes, NEW r \in Requests, EmitAck(r), UNCHANGED engine
    PROVE  AckInv'
<1>1. /\ Running /\ ackJob[r].pc = "emit" /\ Step(r, "mark") /\ ackEmitted' = ackEmitted \cup {r}
      /\ UNCHANGED <<live, sourceSeq, shown, shownSeq, seen, target, ackBox, holders, acked, ackAnswered,
                     lost, ackSpent, incarnation>>
  BY DEF EmitAck, At, alarmMemory, engine
<1>2. Durable(r) /\ Taken(r)' /\ holders = holders \ {r}
  BY <1>1, Publishing, AppliedTakes
<1>3. /\ ackJob' \in [Requests -> AckJobs] /\ ackJob'[r].pc = "mark"
      /\ \A q \in Requests \ {r} : ackJob'[q] = ackJob[q]
  BY <1>1, Steps
<1>4. ackAnswered' = ackAnswered \cup ({r} \X {})
  BY <1>1
<1> QED
  BY <1>1, <1>2, <1>3, <1>4, TypesBefore, RowAnswered

\* A failed publication is pending and taken over by the background task.
LEMMA AckPublicationFailsKeeps ==
    ASSUME AckInv, EngineTypes, NEW r \in Requests, AckPublicationFails(r), UNCHANGED engine
    PROVE  AckInv'
<1>1. /\ Running /\ ackJob[r].pc \in {"emit", "mark"} /\ PublicationFails(r)
      /\ ackSpent < AckBudget /\ ackSpent' = ackSpent + 1
      /\ ackEmitted' \in {ackEmitted, ackEmitted \cup {r}}
      /\ UNCHANGED <<live, sourceSeq, shown, shownSeq, seen, target, ackBox, holders, acked, lost, incarnation>>
  BY DEF AckPublicationFails, At, alarmMemory, engine
<1>2. Durable(r) /\ Taken(r)' /\ r \notin holders /\ holders = holders \ {r}
  BY <1>1, Publishing, AppliedTakes
<1>3. ackSpent' \in 0..AckBudget
  BY <1>1, TypesBefore, AckAssumption
<1>4. PICK answers \in {{}, {"pending"}} : ackAnswered' = ackAnswered \cup ({r} \X answers)
  BY <1>1 DEF PublicationFails
<1>5. CASE ackJob' = [ackJob EXCEPT ![r] = NoAckJob]
  <2>1. Finish(r, answers)
    BY <1>4, <1>5 DEF Finish
  <2> QED
    BY <1>1, <1>2, <1>3, <1>4, <2>1, TypesBefore, RowAnswered
<1>6. CASE ackJob' = [ackJob EXCEPT ![r] = [pc |-> "refind", src |-> 0, background |-> TRUE]]
  <2>1. [pc |-> "refind", src |-> 0, background |-> TRUE] \in AckJobs
    BY AckAssumption DEF AckJobs
  <2>2. /\ ackJob' \in [Requests -> AckJobs] /\ ackJob'[r].pc = "refind"
        /\ \A q \in Requests \ {r} : ackJob'[q] = ackJob[q]
    BY <1>6, <2>1, TypesBefore
  <2> QED
    BY <1>1, <1>2, <1>3, <1>4, <2>2, TypesBefore, RowAnswered
<1> QED
  BY <1>1, <1>5, <1>6 DEF PublicationFails

\* The background task looks at the row again.
LEMMA RefindKeeps ==
    ASSUME AckInv, EngineTypes, NEW r \in Requests, Refind(r), UNCHANGED engine
    PROVE  AckInv'
<1>1. /\ Running /\ ackJob[r].pc = "refind"
      /\ UNCHANGED <<live, sourceSeq, shown, shownSeq, seen, target, ackBox, holders, ackEmitted, lost,
                     ackSpent, incarnation>>
  BY DEF Refind, At, alarmMemory, engine
<1>2. Durable(r) /\ Taken(r)' /\ r \notin holders /\ holders = holders \ {r}
  BY <1>1, Publishing, AppliedTakes
<1>3. CASE Finish(r, {}) /\ UNCHANGED acked
  BY <1>1, <1>2, <1>3, TypesBefore, RowAnswered
<1>4. CASE ackBox[r].state = "published" /\ Finish(r, {"published"}) /\ acked' = acked \cup {r}
  BY <1>1, <1>2, <1>4, TypesBefore, RowAnswered
<1>5. CASE Step(r, "emit") /\ UNCHANGED <<ackAnswered, acked>>
  <2>1. /\ ackJob' \in [Requests -> AckJobs] /\ ackJob'[r].pc = "emit"
        /\ \A q \in Requests \ {r} : ackJob'[q] = ackJob[q]
    BY <1>5, Steps
  <2>2. ackAnswered' = ackAnswered \cup ({r} \X {})
    BY <1>5
  <2> QED
    BY <1>1, <1>2, <1>5, <2>1, <2>2, TypesBefore, RowAnswered
<1> QED
  BY <1>3, <1>4, <1>5 DEF Refind

\* A row that moves to its next state.
LEMMA RowForward ==
    ASSUME AckInv, NEW r \in Requests, UNCHANGED target,
           NEW s \in {"aborted", "committed", "published"}, ackBox' = [ackBox EXCEPT ![r].state = s],
           \/ ackBox[r].state = "prepared" /\ s \in {"aborted", "committed"}
           \/ ackBox[r].state = "committed" /\ s = "published"
           \/ ackBox[r].state = s
    PROVE  /\ ackBox' \in [Requests -> AckRows] /\ \A q \in Requests \ {r} : ackBox'[q] = ackBox[q]
           /\ ackBox'[r].state = s /\ RowMoves(r)
<1>1. ackBox \in [Requests -> AckRows] /\ ackBox[r] \in AckRows
  BY AckFacts
<1>2. PICK row : row = [ackBox[r] EXCEPT !.state = s]
  OBVIOUS
<1>3. /\ row \in AckRows /\ row.state = s /\ row.inc = ackBox[r].inc /\ row.src = ackBox[r].src
      /\ ackBox[r].state = s => row = ackBox[r]
  BY <1>1, <1>2 DEF AckRows
<1>4. ackBox' \in [Requests -> AckRows] /\ ackBox'[r] = row /\ \A q \in Requests \ {r} : ackBox'[q] = ackBox[q]
  BY <1>1, <1>2, <1>3
<1> QED
  BY <1>3, <1>4 DEF RowMoves

\* A task that ends with its row moved forward.
LEMMA RowEnds ==
    ASSUME AckInv, EngineTypes, NEW r \in Requests, Running, UNCHANGED engine,
           UNCHANGED <<live, sourceSeq, shown, shownSeq, seen, target, ackEmitted, ackSpent>>,
           NEW s \in {"aborted", "committed", "published"}, ackBox' = [ackBox EXCEPT ![r].state = s],
           s = "aborted" => ackJob[r].pc = "abort",
           s = "committed" => ackJob[r].pc = "commit" /\ Lost(r)',
           s = "published" => ackJob[r].pc = "mark",
           holders' = holders \ {r}, acked' \subseteq Requests,
           lost \subseteq lost', lost' \subseteq Requests \X (1..MaxIncarnation),
           NEW answers \in {{}, {"aborted"}, {"published"}}, Finish(r, answers),
           answers # {} => answers = {s}
    PROVE  AckInv'
<1>1. /\ ackJob[r].pc \in {"abort", "commit", "mark"} /\ target[r] \in seen
      /\ <<r, "stale">> \notin ackAnswered
      /\ s = "published" => Durable(r) /\ Taken(r)
  BY Working, Publishing
<1>2. /\ ackBox' \in [Requests -> AckRows] /\ \A q \in Requests \ {r} : ackBox'[q] = ackBox[q]
      /\ ackBox'[r].state = s /\ RowMoves(r)
  <2>1. Requested(r)
    BY AckFacts
  <2>2. \/ ackBox[r].state = "prepared" /\ s \in {"aborted", "committed"}
        \/ ackBox[r].state = "committed" /\ s = "published"
        \/ ackBox[r].state = s
    BY <1>1, <2>1 DEF Requested, Durable
  <2> QED
    BY <2>2, RowForward
<1>3. answers \in SUBSET Words
  BY DEF Words
<1>4. /\ ackJob' \in [Requests -> AckJobs] /\ ackJob'[r].pc = "none"
      /\ \A q \in Requests \ {r} : ackJob'[q] = ackJob[q]
      /\ ackAnswered' \subseteq Requests \X Words
      /\ \A q \in Requests \ {r}, w \in Words : <<q, w>> \in ackAnswered' => <<q, w>> \in ackAnswered
      /\ \A w \in Words : <<r, w>> \in ackAnswered' => <<r, w>> \in ackAnswered \/ w \in answers
  BY <1>3, Finishes
<1>5. TaskStep(r)
  BY <1>2, <1>4 DEF TaskStep, Words
<1>6. TaskTypes
  BY <1>2, <1>4, TypesBefore DEF TaskTypes
<1>7. Requested(r)'
  <2>1. ackBox[r].state # "none"
    BY <1>1, AckFacts DEF Requested, Durable
  <2> QED
    BY <1>1, <1>2, <1>4, <1>5, <2>1, RequestedKept
<1>8. Owning(r)
  BY <1>4 DEF Owning
<1>9. Taken(r) /\ Durable(r) => Taken(r)'
  BY <1>2, <1>5, RowKept DEF Durable
<1>10. Committing(r)
  BY <1>1, <1>2, <1>4, <1>9 DEF Committing, Durable
<1>11. Tells(r, answers)
  BY <1>1, <1>2, <1>4, <1>9 DEF Tells, Words
<1> QED
  BY <1>1, <1>2, <1>5, <1>6, <1>7, <1>8, <1>10, <1>11, TaskKeeps

\* The abort of a prepared row, proven or not.
LEMMA AbortAckKeeps ==
    ASSUME AckInv, EngineTypes, NEW r \in Requests, AbortAck(r), UNCHANGED engine
    PROVE  AckInv'
<1>1. /\ Running /\ ackJob[r].pc = "abort" /\ holders' = holders \ {r}
      /\ UNCHANGED <<live, sourceSeq, shown, shownSeq, seen, target, acked, ackEmitted, lost, ackSpent>>
      /\ ~Durable(r)
  BY AckFacts DEF AbortAck, At, alarmMemory, Requested, Durable
<1>2. CASE ackBox' = ackBox /\ Finish(r, {})
  BY <1>1, <1>2, TypesBefore, RowAnswered
<1>3. ASSUME NEW answers \in {{}, {"aborted"}}, ackBox' = AbortedBox(r), Finish(r, answers)
      PROVE  AckInv'
  <2>1. ackBox' = [ackBox EXCEPT ![r].state = "aborted"]
    BY <1>3 DEF AbortedBox
  <2>2. acked' \subseteq Requests /\ lost' \subseteq Requests \X (1..MaxIncarnation) /\ lost \subseteq lost'
    BY <1>1, TypesBefore
  <2> QED
    BY <1>1, <1>3, <2>1, <2>2, RowEnds
<1> QED
  BY <1>2, <1>3 DEF AbortAck

\* The commit: the owner alone makes its activation's row durable.
LEMMA CommitAckKeeps ==
    ASSUME AckInv, EngineTypes, NEW r \in Requests, CommitAck(r), UNCHANGED engine
    PROVE  AckInv'
<1>1. /\ Running /\ ackJob[r].pc = "commit" /\ ackBox' = [ackBox EXCEPT ![r].state = "committed"]
      /\ UNCHANGED <<live, sourceSeq, shown, shownSeq, seen, target, holders, acked, ackEmitted, ackAnswered,
                     lost, ackSpent>>
      /\ Step(r, "apply")
  BY DEF CommitAck, At, alarmMemory, ackHistory
<1>2. /\ ackBox[r].state = "prepared" /\ target[r] \in seen /\ r \in holders
      /\ <<r, "stale">> \notin ackAnswered
      /\ \A q \in holders \ {r} : target[q] # target[r]
  BY <1>1, AckFacts, Working DEF Requested
<1>3. /\ ackBox' \in [Requests -> AckRows] /\ \A q \in Requests \ {r} : ackBox'[q] = ackBox[q]
      /\ ackBox'[r].state = "committed" /\ RowMoves(r)
  BY <1>1, <1>2, RowForward
<1>4. /\ ackJob' \in [Requests -> AckJobs] /\ ackJob'[r].pc = "apply"
      /\ \A q \in Requests \ {r} : ackJob'[q] = ackJob[q]
  BY <1>1, Steps
<1>5. TaskStep(r)
  BY <1>1, <1>3, <1>4 DEF TaskStep
<1>6. TaskTypes
  BY <1>1, <1>3, <1>4, TypesBefore DEF TaskTypes
<1>7. Requested(r)'
  BY <1>1, <1>2, <1>3, <1>4, <1>5, RequestedKept DEF Durable
<1>8. Owning(r)
  BY <1>1, <1>2, <1>4 DEF Owning
<1>9. Committing(r)
  BY <1>1, <1>2, <1>4 DEF Committing
<1>10. Tells(r, {})
  BY <1>1, <1>2, <1>3 DEF Tells
<1> QED
  BY <1>1, <1>2, <1>3, <1>5, <1>6, <1>7, <1>8, <1>9, <1>10, TaskKeeps

\* A commit that raises leaves the row prepared, or durable and lost.
LEMMA CommitRaisesKeeps ==
    ASSUME AckInv, EngineTypes, NEW r \in Requests, CommitRaises(r), UNCHANGED engine
    PROVE  AckInv'
<1>1. /\ Running /\ ackJob[r].pc = "commit" /\ holders' = holders \ {r} /\ Finish(r, {})
      /\ UNCHANGED <<live, sourceSeq, shown, shownSeq, seen, target, acked, ackEmitted, ackSpent>>
      /\ ~Durable(r)
  BY AckFacts DEF CommitRaises, At, alarmMemory, Requested, Durable
<1>2. CASE UNCHANGED <<ackBox, lost>>
  BY <1>1, <1>2, TypesBefore, RowAnswered
<1>3. CASE ackBox' = [ackBox EXCEPT ![r].state = "committed"] /\ lost' = lost \cup {<<r, incarnation>>}
  <2>1. Lost(r)' /\ lost \subseteq lost' /\ lost' \subseteq Requests \X (1..MaxIncarnation)
    BY <1>3, TypesBefore DEF Lost, EngineTypes
  <2>2. acked' \subseteq Requests
    BY <1>1, TypesBefore
  <2> QED
    BY <1>1, <1>3, <2>1, <2>2, RowEnds
<1> QED
  BY <1>2, <1>3 DEF CommitRaises

\* The mark: published is answered once the row says so.
LEMMA MarkAckKeeps ==
    ASSUME AckInv, EngineTypes, NEW r \in Requests, MarkAck(r), UNCHANGED engine
    PROVE  AckInv'
<1>1. /\ Running /\ ackJob[r].pc = "mark" /\ ackBox' = [ackBox EXCEPT ![r].state = "published"]
      /\ UNCHANGED <<live, sourceSeq, shown, shownSeq, seen, target, holders, ackEmitted, lost, ackSpent>>
      /\ Finish(r, {"published"}) /\ acked' = acked \cup {r}
  BY DEF MarkAck, At, alarmMemory
<1>2. holders' = holders \ {r}
  BY <1>1, Publishing
<1>3. acked' \subseteq Requests /\ lost' \subseteq Requests \X (1..MaxIncarnation) /\ lost \subseteq lost'
  BY <1>1, TypesBefore
<1> QED
  BY <1>1, <1>2, <1>3, RowEnds

\* The intent is prepared for the activation that was shown.
LEMMA PrepareAckKeeps ==
    ASSUME AckInv, EngineTypes, NEW r \in Requests, PrepareAck(r), UNCHANGED engine
    PROVE  AckInv'
<1>1. /\ Running /\ ackJob[r].pc = "prepare" /\ incarnation' = incarnation
      /\ UNCHANGED <<live, sourceSeq, shown, shownSeq, holders, acked, seen, target, ackEmitted, ackAnswered,
                     lost, ackSpent>>
  BY DEF PrepareAck, At, alarmMemory, ackHistory, engine
<1>2. /\ ackBox[r].state = "none" /\ target[r] \in seen /\ target[r][1] = incarnation
      /\ Names(r, ackJob[r].src) /\ r \notin holders /\ <<r, "stale">> \notin ackAnswered
      /\ Requested(r) /\ ackJob[r] \in AckJobs /\ ~Durable(r)
  BY <1>1, AckFacts, Working DEF Requested, Durable
<1>3. CASE UNCHANGED ackBox /\ ackJob' = [ackJob EXCEPT ![r] = NoAckJob]
  <2>1. Finish(r, {}) /\ holders' = holders \ {r}
    BY <1>1, <1>2, <1>3 DEF Finish
  <2> QED
    BY <1>1, <1>3, <2>1, TypesBefore, RowAnswered
<1>4. CASE /\ ackBox' = [ackBox EXCEPT ![r] = [state |-> "prepared", inc |-> incarnation, src |-> ackJob[r].src]]
           /\ Step(r, "claim") \/ ackJob' = [ackJob EXCEPT ![r] = NoAckJob]
  <2>1. [state |-> "prepared", inc |-> incarnation, src |-> ackJob[r].src] \in AckRows
    BY <1>2 DEF AckRows, AckJobs, EngineTypes
  <2>2. /\ ackBox' \in [Requests -> AckRows] /\ \A q \in Requests \ {r} : ackBox'[q] = ackBox[q]
        /\ ackBox'[r] = [state |-> "prepared", inc |-> incarnation, src |-> ackJob[r].src]
    BY <1>4, <2>1, TypesBefore
  <2>3. /\ ackJob' \in [Requests -> AckJobs] /\ ackJob'[r].pc \in {"none", "claim"}
        /\ \A q \in Requests \ {r} : ackJob'[q] = ackJob[q]
    <3>1. CASE Step(r, "claim")
      BY <3>1, Steps
    <3>2. CASE ackJob' = [ackJob EXCEPT ![r] = NoAckJob]
      <4>1. Finish(r, {}) /\ {} \in SUBSET Words
        BY <1>1, <3>2 DEF Finish
      <4> QED
        BY <4>1, Finishes
    <3> QED
      BY <1>4, <3>1, <3>2
  <2>4. TaskStep(r) /\ RowMoves(r) /\ ~Durable(r)'
    BY <1>1, <1>2, <2>2, <2>3 DEF TaskStep, RowMoves, Durable
  <2>5. TaskTypes
    BY <1>1, <2>2, <2>3, TypesBefore DEF TaskTypes
  <2>6. Requested(r)'
    <3>1. /\ ackBox'[r].state = "prepared" /\ ackBox'[r].inc = incarnation' /\ ackBox'[r].src = ackJob[r].src
          /\ target'[r][1] = incarnation' /\ target'[r] \in seen'
      BY <1>1, <1>2, <2>2
    <3>2. /\ ackBox'[r].src \in 1..sourceSeq'
          /\ target'[r] = <<incarnation', shown'.id>> => ackBox'[r].src = shown'.src
      BY <1>1, <1>2, <3>1 DEF Names
    <3> QED
      BY <2>3, <3>1, <3>2 DEF Requested, Names
  <2>7. Owning(r)
    BY <1>1, <1>2, <2>3 DEF Owning
  <2>8. Committing(r)
    BY <2>3, <2>4 DEF Committing
  <2>9. Tells(r, {})
    BY <1>1, <1>2 DEF Tells
  <2> QED
    BY <1>1, <1>2, <2>4, <2>5, <2>6, <2>7, <2>8, <2>9, TaskKeeps
<1> QED
  BY <1>3, <1>4 DEF PrepareAck

\* Whoever finds the shown activation unacknowledged and unowned finds nobody
\* else's durable acknowledgement of it, unless its commit raised.
LEMMA ClaimIsExclusive ==
    ASSUME AckInv, EngineTypes, NEW r \in Requests, TaskStep(r), Running, Sync, Resolves(r), target[r] \in seen,
           live.by = NoRequest, \A q \in holders : target[q] # target[r],
           NEW q \in Requests \ {r}, Durable(q), target[q] = target[r]
    PROVE  Lost(q)
<1> SUFFICES ASSUME ~Lost(q)
             PROVE  FALSE
  OBVIOUS
<1>1. Taken(q)
  BY DEF AckInv, Exclusive
<1>2. live # Clear /\ Projected.src = live.src
  BY ResolvedIsLive
<1>3. target[q] = <<incarnation, shown'.id>> /\ shown'.src = live.src
  BY <1>2 DEF Resolves, Sync
<1>4. ackBox[q].inc = incarnation /\ Names(q, ackBox[q].src)
  BY <1>3, AckFacts DEF Requested, Durable
<1>5. target'[q] = target[q] /\ incarnation' = incarnation
  BY DEF TaskStep, engine
<1>6. shown' = shown
  BY <1>3, ShownStep
<1>7. ackBox[q].src = live.src
  BY <1>3, <1>4, <1>6 DEF Names
<1> QED
  BY <1>1, <1>2, <1>4, <1>7 DEF Taken, Concerns

\* The claim: one owner, who may commit only what is still to acknowledge.
LEMMA ClaimKeeps ==
    ASSUME AckInv, EngineTypes, NEW r \in Requests, Claim(r), UNCHANGED engine
    PROVE  AckInv'
<1>1. /\ Running /\ ackJob[r].pc = "claim" /\ holders' = holders \cup {r} /\ Sync
      /\ \A q \in holders : target[q] # target[r]
      /\ UNCHANGED <<live, sourceSeq, target, ackBox, acked, ackEmitted, ackAnswered, lost, ackSpent>>
      /\ \/ Resolves(r) /\ live.by = NoRequest /\ Step(r, "commit")
         \/ Step(r, "abort")
  BY DEF Claim, At
<1>2. /\ target[r] \in seen /\ <<r, "stale">> \notin ackAnswered /\ r \notin holders
      /\ ackBox[r].state = "prepared" /\ ~Durable(r)
  BY <1>1, AckFacts, Working DEF Requested, Durable
<1>3. /\ ackJob' \in [Requests -> AckJobs] /\ ackJob'[r].pc \in {"abort", "commit"}
      /\ \A q \in Requests \ {r} : ackJob'[q] = ackJob[q]
      /\ ackJob'[r].pc = "commit" => Resolves(r) /\ live.by = NoRequest
  <2>1. CASE Resolves(r) /\ live.by = NoRequest /\ Step(r, "commit")
    BY <2>1, Steps
  <2>2. CASE Step(r, "abort")
    BY <2>2, Steps
  <2> QED
    BY <1>1, <2>1, <2>2
<1>4. TaskStep(r) /\ RowMoves(r) /\ ~Durable(r)'
  BY <1>1, <1>2, <1>3 DEF TaskStep, RowMoves, Durable
<1>5. TaskTypes
  BY <1>1, <1>3, TypesBefore DEF TaskTypes
<1>6. Requested(r)'
  BY <1>1, <1>2, <1>3, <1>4, RequestedKept
<1>7. Owning(r)
  BY <1>1, <1>3 DEF Owning
<1>8. Committing(r)
  <2>1. ASSUME ackJob'[r].pc = "commit", NEW q \in Requests \ {r}, Durable(q), target[q] = target[r]
        PROVE  Lost(q)
    BY <1>1, <1>2, <1>3, <1>4, <2>1, ClaimIsExclusive
  <2> QED
    BY <1>1, <1>4, <2>1 DEF Committing
<1>9. Tells(r, {})
  BY <1>1, <1>2 DEF Tells
<1> QED
  BY <1>1, <1>2, <1>4, <1>5, <1>6, <1>7, <1>8, <1>9, TaskKeeps

\* A submission: the first use of a request id fixes its activation.
LEMMA AckSubmitKeeps ==
    ASSUME AckInv, EngineTypes, NEW r \in Requests, NEW a \in seen, AckSubmit(r, a), UNCHANGED engine
    PROVE  AckInv'
<1>1. /\ Running /\ ackJob[r].pc = "none" /\ Step(r, "find")
      /\ target[r] \in {NoTarget, a} /\ target' = [target EXCEPT ![r] = a]
      /\ ackSpent < AckBudget /\ ackSpent' = ackSpent + 1
      /\ UNCHANGED <<live, sourceSeq, shown, shownSeq, seen, ackBox, holders, acked, ackEmitted, ackAnswered, lost>>
      /\ incarnation' = incarnation /\ phase' = phase
  BY DEF AckSubmit, Accepting, Running, AckBusy, alarmMemory, engine
<1>2. r \notin holders /\ Requested(r) /\ Answered(r) /\ (target[r] \in seen => target[r] # NoTarget)
  BY <1>1, AckFacts DEF AckInv, Owned
<1>3. /\ ackJob' \in [Requests -> AckJobs] /\ ackJob'[r].pc = "find"
      /\ \A q \in Requests \ {r} : ackJob'[q] = ackJob[q]
  BY <1>1, Steps
<1>4. /\ target' \in [Requests -> Activations \cup {NoTarget}] /\ target'[r] = a
      /\ \A q \in Requests \ {r} : target'[q] = target[q]
      /\ target[r] # NoTarget => target'[r] = target[r]
  BY <1>1, TypesBefore
<1>5. TaskStep(r) /\ RowMoves(r) /\ (Durable(r)' <=> Durable(r))
  BY <1>1, <1>3, <1>4 DEF TaskStep, RowMoves, Durable
<1>6. AckTypeOK'
  <2>1. ackSpent' \in 0..AckBudget
    BY <1>1, TypesBefore, AckAssumption
  <2> QED
    BY <1>1, <1>3, <1>4, <2>1 DEF AckInv, AckTypeOK, AckJobs
<1>7. Requested(r)'
  <2>1. ackBox[r].state # "none" => target'[r] = target[r]
    BY <1>2, <1>4 DEF Requested
  <2>2. \A src : ackBox[r].state # "none" /\ Names(r, src) => Names(r, src)'
    BY <1>1, <2>1 DEF Names
  <2>3. (Running' <=> Running)
    BY <1>1 DEF Running
  <2> QED
    BY <1>1, <1>2, <1>3, <1>4, <2>1, <2>2, <2>3 DEF Requested
<1>8. Answered(r)'
  <2>1. Taken(r) => Taken(r)'
    BY <1>1 DEF Taken, Concerns
  <2> QED
    BY <1>1, <1>2, <1>3, <1>4, <2>1 DEF Answered
<1>9. Owning(r)
  BY <1>1, <1>2, <1>3 DEF Owning
<1>10. Committing(r)
  <2>1. Durable(r) /\ ~Lost(r) => Taken(r)
    BY <1>2 DEF AckInv, Exclusive
  <2>2. Lost(r) => Lost(r)'
    BY <1>5, RowKept
  <2>3. Taken(r) => Taken(r)'
    BY <1>1 DEF Taken, Concerns
  <2> QED
    BY <1>3, <1>5, <2>1, <2>2, <2>3 DEF Committing
<1>11. TrueAnswers(r)
  BY <1>1, <1>5 DEF TrueAnswers, AckInv, AckAnswersHold, AnnouncedIsCommitted
<1> QED
  BY <1>5, <1>6, <1>7, <1>8, <1>9, <1>10, <1>11, RequestStep

-----------------------------------------------------------------------------
(* Steps of the alarm and of the engine.                                   *)

\* What the invariant says of the requests among themselves holds on while
\* their rows, tasks and owners stay and no alarm taken is given back.
LEMMA RequestsStand ==
    ASSUME AckInv, UNCHANGED <<target, ackBox, ackJob, holders, ackEmitted, ackAnswered, lost>>,
           \A q \in Requests : Taken(q) => Taken(q)'
    PROVE  Owned' /\ Exclusive' /\ AckAnswersHold' /\ AnnouncedIsCommitted'
<1>1. \A q \in Requests : (Durable(q)' <=> Durable(q)) /\ (Lost(q)' <=> Lost(q))
  BY DEF Durable, Lost
<1>2. Owned'
  BY DEF AckInv, Owned
<1>3. OneAckPerActivation'
  BY <1>1 DEF AckInv, Exclusive, OneAckPerActivation
<1>4. Exclusive'
  BY <1>1, <1>3 DEF AckInv, Exclusive
<1>5. AckAnswersHold' /\ AnnouncedIsCommitted'
  BY <1>1 DEF AckInv, AckAnswersHold, AnnouncedIsCommitted, Durable
<1> QED
  BY <1>2, <1>4, <1>5

\* The alarm triggers: the new activation was never acknowledged.
LEMMA TriggerKeeps ==
    ASSUME AckInv, EngineTypes, Trigger, UNCHANGED engine
    PROVE  AckInv'
<1>1. /\ Running /\ live = Clear /\ sourceSeq < MaxActivations /\ sourceSeq' = sourceSeq + 1
      /\ live' = [src |-> sourceSeq + 1, by |-> NoRequest]
      /\ UNCHANGED <<shown, shownSeq, ackBox, ackJob, holders, acked, seen, target, ackEmitted, ackAnswered,
                     lost, ackSpent, incarnation, phase>>
  BY DEF Trigger, ackMemory, ackHistory, engine
<1>2. /\ sourceSeq \in Nat /\ shownSeq \in Nat /\ shownSeq <= sourceSeq
      /\ shown \in Records /\ (shown = NotShown \/ shown.id > 0)
  BY AlarmFacts
<1>3. AckTypeOK'
  BY <1>1, <1>2, AckAssumption DEF AckInv, AckTypeOK
<1>4. Annunciated'
  BY <1>1, <1>2, <1>3 DEF AckInv, Annunciated, Running, Clear, Records, AckTypeOK, NotShown
<1>5. ASSUME NEW q \in Requests
      PROVE  Taken(q)' /\ Requested(q)'
  <2>1. Requested(q)
    BY AckFacts
  <2>2. \A src : Names(q, src) => src \in 1..sourceSeq /\ Names(q, src)'
    BY <1>1, <1>2 DEF Names
  <2>3. ~Concerns(q)'
    <3>1. ackBox[q].inc = incarnation => ackBox[q].state # "none"
      BY <2>1 DEF Requested, NoRow, EngineTypes
    <3>2. ackBox[q].inc = incarnation => ackBox[q].src \in 1..sourceSeq
      BY <1>1, <2>1, <2>2, <3>1 DEF Requested
    <3> QED
      BY <1>1, <1>2, <3>2 DEF Concerns
  <2>4. Taken(q)'
    BY <2>3 DEF Taken
  <2> QED
    BY <1>1, <2>1, <2>2, <2>4 DEF Requested, Durable, Running
<1>6. \A q \in Requests : Answered(q)'
  BY <1>1, <1>5, AckFacts DEF Answered
<1>7. Owned' /\ Exclusive' /\ AckAnswersHold' /\ AnnouncedIsCommitted'
  BY <1>1, <1>5, RequestsStand
<1>8. Ingress' /\ LiveAckIsDurable'
  BY <1>1 DEF AckInv, Ingress, Running, LiveAckIsDurable
<1> QED
  BY <1>3, <1>4, <1>5, <1>6, <1>7, <1>8 DEF AckInv

\* A step of the alarm that leaves it no more to acknowledge than before.
LEMMA AlarmStands ==
    ASSUME AckInv, EngineTypes, Running, UNCHANGED engine,
           UNCHANGED <<sourceSeq, target, ackBox, ackJob, holders, acked, ackEmitted, ackAnswered, lost, ackSpent>>,
           live' = live \/ live' = Clear,
           Annunciated', seen \subseteq seen', AckTypeOK',
           \A a \in seen : a = <<incarnation, shown'.id>> => shown' = shown
    PROVE  AckInv'
<1>1. incarnation' = incarnation /\ phase' = phase /\ (Running' <=> Running)
  BY DEF engine, Running
<1>2. ASSUME NEW q \in Requests
      PROVE  (Taken(q) => Taken(q)') /\ Requested(q)' /\ Answered(q)'
  <2>1. Requested(q) /\ Answered(q)
    BY AckFacts
  <2>2. \A src : target[q] \in seen /\ Names(q, src) => Names(q, src)'
    BY <1>1 DEF Names
  <2>3. Taken(q) => Taken(q)'
    BY <1>1 DEF Taken, Concerns
  <2>4. Requested(q)'
    BY <1>1, <2>1, <2>2, <2>3 DEF Requested, Durable
  <2>5. Answered(q)'
    BY <1>1, <2>1, <2>3 DEF Answered
  <2> QED
    BY <2>3, <2>4, <2>5
<1>3. Owned' /\ Exclusive' /\ AckAnswersHold' /\ AnnouncedIsCommitted'
  BY <1>2, RequestsStand
<1>4. Ingress'
  BY <1>1 DEF AckInv, Ingress, Running
<1>5. LiveAckIsDurable'
  <2>1. CASE live' = live
    BY <1>1, <2>1 DEF AckInv, LiveAckIsDurable, Durable
  <2>2. CASE live' = Clear
    BY <2>2 DEF LiveAckIsDurable, Clear
  <2> QED
    BY <2>1, <2>2
<1> QED
  BY <1>2, <1>3, <1>4, <1>5 DEF AckInv

\* The alarm clears.
LEMMA ClearedKeeps ==
    ASSUME AckInv, EngineTypes, Cleared, UNCHANGED engine
    PROVE  AckInv'
<1>1. /\ Running /\ live' = Clear
      /\ UNCHANGED <<sourceSeq, shown, shownSeq, ackBox, ackJob, holders, acked, seen, target, ackEmitted,
                     ackAnswered, lost, ackSpent, incarnation, phase>>
  BY DEF Cleared, ackMemory, ackHistory, engine
<1>2. AckTypeOK'
  BY <1>1, AckAssumption DEF AckInv, AckTypeOK, Clear
<1>3. Annunciated'
  BY <1>1 DEF AckInv, Annunciated, Running
<1> QED
  BY <1>1, <1>2, <1>3, AlarmStands

\* A client polls what is shown.
LEMMA SnapshotKeeps ==
    ASSUME AckInv, EngineTypes, Snapshot, UNCHANGED engine
    PROVE  AckInv'
<1>1. /\ Running /\ Sync
      /\ UNCHANGED <<live, sourceSeq, target, ackBox, ackJob, holders, acked, ackEmitted, ackAnswered, lost,
                     ackSpent>>
  BY DEF Snapshot, ackMemory
<1>2. /\ Annunciated' /\ seen \subseteq seen'
      /\ shown' \in Records /\ shownSeq' \in 0..MaxActivations /\ seen' \subseteq Activations
      /\ \A a \in seen : a = <<incarnation, shown'.id>> => shown' = shown
  BY <1>1, Synced
<1>3. AckTypeOK'
  BY <1>1, <1>2 DEF AckInv, AckTypeOK, Records
<1> QED
  BY <1>1, <1>2, <1>3, AlarmStands

\* An engine that does not run has no memory; the rows it leaves or settles
\* stand for what they stood for.
LEMMA AtRest ==
    ASSUME AckInv, EngineTypes, EngineTypes', AckTypeOK', ~Running',
           live' = Clear, sourceSeq' = 0, shown' = NotShown, shownSeq' = 0,
           \A q \in Requests : ackJob'[q] = NoAckJob, holders' = {}, acked' = {},
           UNCHANGED <<seen, target, ackAnswered, lost>>,
           \A a \in seen : a[1] <= incarnation' /\ (phase' \in Settling => a[1] < incarnation'),
           \A q \in Requests :
              \/ ackBox'[q] = ackBox[q]
              \/ /\ ackBox'[q].inc = ackBox[q].inc /\ ackBox'[q].src = ackBox[q].src
                 /\ \/ ackBox[q].state = "prepared" /\ ackBox'[q].state = "aborted"
                    \/ ackBox[q].state = "committed" /\ ackBox'[q].state = "published",
           \A q \in ackEmitted' : q \in ackEmitted \/ Durable(q),
           phase' = "ack_replay" => \A q \in Requests : ackBox'[q].state # "prepared"
    PROVE  AckInv'
<1>1. Annunciated'
  BY DEF Annunciated, Clear, NotShown
<1>2. ASSUME NEW q \in Requests
      PROVE  /\ Durable(q)' <=> Durable(q)
             /\ Lost(q)' <=> Lost(q)
             /\ Taken(q)' /\ Requested(q)' /\ Answered(q)'
             /\ ackBox[q].state \in {"published", "aborted"} => ackBox'[q].state = ackBox[q].state
  <2>1. Requested(q) /\ Answered(q) /\ (target[q] \in seen => target[q][2] > 0)
    BY AckFacts
  <2>2. Durable(q)' <=> Durable(q)
    BY DEF Durable
  <2>3. Taken(q)'
    BY DEF Taken, Concerns
  <2>4. ackBox[q].state = "none" => ackBox'[q] = ackBox[q]
    OBVIOUS
  <2>5. Requested(q)'
    BY <2>1, <2>2, <2>3, <2>4 DEF Requested, NoAckJob
  <2>6. target[q] \in seen => target[q] # <<incarnation', 0>>
    BY <2>1
  <2>7. Answered(q)'
    BY <2>1, <2>3, <2>4, <2>6 DEF Answered, NoAckJob, NotShown
  <2> QED
    BY <2>2, <2>3, <2>5, <2>7 DEF Lost
<1>3. Owned'
  BY DEF Owned, NoAckJob
<1>4. Exclusive'
  <2>1. OneAckPerActivation'
    <3> SUFFICES ASSUME NEW q \in Requests, NEW s \in Requests, q # s, Durable(q)', Durable(s)',
                        target[q] = target[s]
                 PROVE  Lost(q)' \/ Lost(s)'
      BY DEF OneAckPerActivation, Lost
    <3> QED
      BY <1>2 DEF AckInv, Exclusive, OneAckPerActivation, Lost
  <2>2. \A s \in Requests : ackJob'[s].pc # "commit"
    BY DEF NoAckJob
  <2> QED
    BY <1>2, <2>1, <2>2 DEF Exclusive
<1>5. Ingress'
  BY DEF Ingress
<1>6. LiveAckIsDurable'
  BY DEF LiveAckIsDurable, Clear
<1>7. AnnouncedIsCommitted'
  <2>1. ackEmitted' \subseteq Requests
    BY DEF AckTypeOK
  <2> QED
    BY <1>2, <2>1 DEF AckInv, AnnouncedIsCommitted
<1>8. AckAnswersHold'
  <2> SUFFICES ASSUME NEW q \in Requests
               PROVE  /\ <<q, "published">> \in ackAnswered => ackBox'[q].state = "published"
                      /\ <<q, "pending">> \in ackAnswered => Durable(q)'
                      /\ <<q, "aborted">> \in ackAnswered => ackBox'[q].state = "aborted"
                      /\ <<q, "stale">> \in ackAnswered => ~Durable(q)'
    BY <1>7 DEF AckAnswersHold, AnnouncedIsCommitted, Durable
  <2> QED
    BY <1>2 DEF AckInv, AckAnswersHold
<1> QED
  BY <1>1, <1>2, <1>3, <1>4, <1>5, <1>6, <1>7, <1>8 DEF AckInv

\* The lane of the log, and a freeze, leave the acknowledgements alone.
LEMMA AckStands ==
    ASSUME AckInv, UNCHANGED <<ackVars, incarnation>>, Running' <=> Running,
           phase' \in Settling => phase \in Settling, phase' = "ack_replay" => phase = "ack_replay"
    PROVE  AckInv'
<1>1. UNCHANGED <<live, sourceSeq, shown, shownSeq, seen, target, ackBox, ackJob, holders, acked,
                  ackEmitted, ackAnswered, lost, ackSpent, incarnation>>
  BY DEF ackVars
<1>2. AckTypeOK' /\ Annunciated' /\ Ingress' /\ LiveAckIsDurable'
  BY <1>1 DEF AckInv, AckTypeOK, Annunciated, Ingress, LiveAckIsDurable, Durable
<1>3. \A q \in Requests : (Taken(q)' <=> Taken(q)) /\ (Durable(q)' <=> Durable(q))
  BY <1>1 DEF Taken, Concerns, Durable
<1>4. ASSUME NEW q \in Requests
      PROVE  Requested(q)' /\ Answered(q)'
  <2>1. Requested(q) /\ Answered(q)
    BY AckFacts
  <2>2. \A src : Names(q, src)' <=> Names(q, src)
    BY <1>1 DEF Names
  <2>3. Requested(q)'
    BY <1>1, <1>3, <2>1, <2>2 DEF Requested
  <2>4. Answered(q)'
    BY <1>1, <1>3, <2>1 DEF Answered
  <2> QED
    BY <2>3, <2>4
<1>5. Owned' /\ Exclusive' /\ AckAnswersHold' /\ AnnouncedIsCommitted'
  BY <1>1, <1>3, RequestsStand
<1> QED
  BY <1>2, <1>4, <1>5 DEF AckInv

\* An engine at rest has no memory to lose.
LEMMA AtRestNow ==
    ASSUME AckInv, ~Running
    PROVE  /\ live = Clear /\ sourceSeq = 0 /\ shown = NotShown /\ shownSeq = 0
           /\ \A q \in Requests : ackJob[q] = NoAckJob
           /\ holders = {} /\ acked = {}
           /\ \A a \in seen : a[1] \in Nat /\ a[1] <= incarnation /\ (phase \in Settling => a[1] < incarnation)
<1>1. \A a \in seen : a[1] \in Nat
  BY DEF AckInv, AckTypeOK, Activations
<1> QED
  BY <1>1 DEF AckInv, Ingress, Annunciated

\* The next engine starts: what was shown before was another engine's.
LEMMA StartKeepsAck ==
    ASSUME AckInv, EngineTypes, Start
    PROVE  AckInv'
<1>1. /\ phase \in {"down", "refused"} /\ incarnation < MaxIncarnation
      /\ incarnation' = incarnation + 1 /\ phase' = "registry"
      /\ UNCHANGED <<live, sourceSeq, shown, shownSeq, seen, target, ackBox, ackJob, holders, acked,
                     ackEmitted, ackAnswered, lost, ackSpent>>
  BY DEF Start, Restart, MayDie, ackVars
<1>2. ~Running /\ ~Running'
  BY <1>1 DEF Running
<1>3. EngineTypes'
  BY <1>1, IncarnationAssumption DEF EngineTypes, Phases, Settling
<1>4. AckTypeOK'
  BY <1>1 DEF AckInv, AckTypeOK
<1>5. \A a \in seen : a[1] <= incarnation' /\ a[1] < incarnation'
  BY <1>1, <1>2, AtRestNow DEF EngineTypes
<1> QED
  BY <1>1, <1>2, <1>3, <1>4, <1>5, AtRest, AtRestNow

\* The death of a process.
LEMMA AckDiesKeeps ==
    ASSUME AckInv, EngineTypes, AckDies, GoTo("down")
    PROVE  AckInv'
<1>1. /\ incarnation' = incarnation /\ phase' = "down"
      /\ live' = Clear /\ sourceSeq' = 0 /\ shown' = NotShown /\ shownSeq' = 0
      /\ ackJob' = [r \in Requests |-> NoAckJob] /\ holders' = {} /\ acked' = {}
      /\ UNCHANGED <<ackBox, seen, target, ackEmitted, ackAnswered, lost, ackSpent>>
  BY DEF AckDies, GoTo, ackHistory
<1>2. ~Running' /\ phase' \notin Settling /\ EngineTypes'
  BY <1>1 DEF Running, Settling, EngineTypes, Phases
<1>3. AckTypeOK'
  BY <1>1, AckAssumption DEF AckInv, AckTypeOK, Clear, NotShown, NoAckJob
<1>4. \A a \in seen : a[1] <= incarnation'
  BY <1>1 DEF AckInv, Annunciated
<1> QED
  BY <1>1, <1>2, <1>3, <1>4, AtRest

\* The settlement ends the intents of earlier engines ...
LEMMA AbortPreparedKeeps ==
    ASSUME AckInv, EngineTypes, AbortPrepared
    PROVE  AckInv'
<1>1. /\ phase = "ack_abort" /\ phase' = "ack_replay" /\ incarnation' = incarnation
      /\ ackBox' = [r \in Requests |-> IF ackBox[r].state = "prepared"
                                       THEN [ackBox[r] EXCEPT !.state = "aborted"] ELSE ackBox[r]]
      /\ UNCHANGED <<live, sourceSeq, shown, shownSeq, seen, target, ackJob, holders, acked,
                     ackEmitted, ackAnswered, lost, ackSpent>>
  BY DEF AbortPrepared, GoTo, alarmMemory, ackMemory, ackHistory
<1>2. ~Running /\ ~Running' /\ phase \in Settling /\ EngineTypes'
  BY <1>1 DEF Running, Settling, EngineTypes, Phases
<1>3. ASSUME NEW r \in Requests
      PROVE  /\ ackBox'[r] \in AckRows /\ ackBox'[r].state # "prepared"
             /\ \/ ackBox'[r] = ackBox[r]
                \/ /\ ackBox'[r].inc = ackBox[r].inc /\ ackBox'[r].src = ackBox[r].src
                   /\ ackBox[r].state = "prepared" /\ ackBox'[r].state = "aborted"
  BY <1>1, AckFacts DEF AckRows
<1>4. AckTypeOK'
  <2>1. ackBox' \in [Requests -> AckRows]
    BY <1>1, <1>3
  <2> QED
    BY <1>1, <2>1 DEF AckInv, AckTypeOK, AckRows
<1> QED
  BY <1>1, <1>2, <1>3, <1>4, AtRest, AtRestNow

\* ... publishes what they committed ...
LEMMA ReplayAckKeeps ==
    ASSUME AckInv, EngineTypes, NEW r \in Requests, ReplayAck(r)
    PROVE  AckInv'
<1>1. /\ phase = "ack_replay" /\ ackBox[r].state = "committed" /\ ackEmitted' = ackEmitted \cup {r}
      /\ \/ ackBox' = [ackBox EXCEPT ![r].state = "published"] /\ phase' = phase
         \/ ackBox' = ackBox /\ phase' = "down"
      /\ incarnation' = incarnation
      /\ UNCHANGED <<live, sourceSeq, shown, shownSeq, seen, target, ackJob, holders, acked,
                     ackAnswered, lost, ackSpent>>
  BY DEF ReplayAck, Unpublished, GoTo, alarmMemory, ackMemory, engine
<1>2. ~Running /\ ~Running' /\ phase \in Settling /\ EngineTypes'
  BY <1>1 DEF Running, Settling, EngineTypes, Phases
<1>3. /\ ackBox' \in [Requests -> AckRows] /\ \A q \in Requests \ {r} : ackBox'[q] = ackBox[q]
      /\ \/ ackBox' = ackBox
         \/ ackBox'[r].state = "published" /\ RowMoves(r)
  <2>1. CASE ackBox' = ackBox
    BY <2>1, TypesBefore
  <2>2. CASE ackBox' = [ackBox EXCEPT ![r].state = "published"]
    BY <1>1, <2>2, RowForward
  <2> QED
    BY <1>1, <2>1, <2>2
<1>4. ASSUME NEW q \in Requests
      PROVE  /\ ackBox'[q].state # "prepared"
             /\ \/ ackBox'[q] = ackBox[q]
                \/ /\ ackBox'[q].inc = ackBox[q].inc /\ ackBox'[q].src = ackBox[q].src
                   /\ ackBox[q].state = "committed" /\ ackBox'[q].state = "published"
  <2>1. ackBox[q].state # "prepared"
    BY <1>1 DEF AckInv, Ingress
  <2> QED
    BY <1>1, <1>3, <2>1 DEF RowMoves
<1>5. AckTypeOK'
  BY <1>1, <1>3 DEF AckInv, AckTypeOK, AckRows
<1>6. \A q \in ackEmitted' : q \in ackEmitted \/ Durable(q)
  BY <1>1 DEF Durable
<1> QED
  BY <1>1, <1>2, <1>4, <1>5, <1>6, AtRest, AtRestNow

\* ... and only then opens the command sockets.
LEMMA OpenIngressKeeps ==
    ASSUME AckInv, EngineTypes, OpenIngress
    PROVE  AckInv'
<1>1. /\ phase = "ack_replay" /\ Unpublished = {} /\ phase' = "open" /\ incarnation' = incarnation
      /\ UNCHANGED <<live, sourceSeq, shown, shownSeq, seen, target, ackBox, ackJob, holders, acked,
                     ackEmitted, ackAnswered, lost, ackSpent>>
  BY DEF OpenIngress, GoTo, ackVars
<1>2. ~Running /\ phase \in Settling /\ phase' \notin Settling /\ Running'
  BY <1>1 DEF Running, Settling
<1>3. \A a \in seen : a[1] \in Nat /\ a[1] < incarnation
  BY <1>2, AtRestNow
<1>4. \A r \in Requests : ackBox[r].state \in {"none", "published", "aborted"}
  BY <1>1, AckFacts DEF Unpublished, AckRows, AckInv, Ingress
<1>5. AckTypeOK' /\ LiveAckIsDurable'
  BY <1>1 DEF AckInv, AckTypeOK, LiveAckIsDurable, Durable
<1>6. Annunciated'
  BY <1>1, <1>2, <1>3 DEF AckInv, Annunciated, EngineTypes
<1>7. Ingress'
  BY <1>1, <1>2, <1>4 DEF Ingress
<1>8. ASSUME NEW q \in Requests
      PROVE  (Taken(q)' <=> Taken(q)) /\ Requested(q)' /\ Answered(q)'
  <2>1. Requested(q) /\ Answered(q) /\ ackJob[q] = NoAckJob
    BY <1>2, AckFacts, AtRestNow
  <2>2. Taken(q)' <=> Taken(q)
    BY <1>1 DEF Taken, Concerns
  <2>3. ackBox[q].state # "none" => ackBox[q].inc # incarnation
    BY <1>3, <2>1 DEF Requested, EngineTypes
  <2>4. Requested(q)'
    BY <1>1, <2>1, <2>3 DEF Requested, NoAckJob
  <2> QED
    BY <1>1, <2>1, <2>2, <2>4 DEF Answered
<1>9. Owned' /\ Exclusive' /\ AckAnswersHold' /\ AnnouncedIsCommitted'
  BY <1>1, <1>8, RequestsStand
<1> QED
  BY <1>5, <1>6, <1>7, <1>8, <1>9 DEF AckInv

\* At the start nothing is shown, asked or retained.
LEMMA AckInitKeeps ==
    ASSUME AckInit, EngineInit
    PROVE  AckInv
<1>1. AckTypeOK
  <2>1. NoRow \in AckRows /\ NoAckJob \in AckJobs /\ NotShown \in Records
    BY IncarnationAssumption, AckAssumption DEF NoRow, NoAckJob, NotShown, AckRows, AckJobs, Records
  <2>2. /\ ackBox \in [Requests -> AckRows] /\ ackJob \in [Requests -> AckJobs]
        /\ target \in [Requests -> Activations \cup {NoTarget}]
    BY <2>1 DEF AckInit
  <2>3. live \in [src : 0..MaxActivations, by : Requests \cup {NoRequest}]
    BY AckAssumption DEF AckInit, Clear
  <2> QED
    BY <2>1, <2>2, <2>3, AckAssumption DEF AckInit, AckTypeOK, AckRows, AckJobs, Records
<1>2. ~Running /\ phase # "ack_replay"
  BY DEF EngineInit, Running
<1>3. Annunciated
  BY DEF AckInit, Annunciated, Clear, NotShown
<1>4. \A r \in Requests : Requested(r) /\ Answered(r) /\ ~Durable(r)
  BY <1>2 DEF AckInit, Requested, Answered, Durable, NoRow, NoAckJob
<1>5. Owned /\ Exclusive /\ Ingress
  BY <1>2, <1>4 DEF AckInit, Owned, Exclusive, OneAckPerActivation, Ingress, NoAckJob
<1> QED
  BY <1>1, <1>3, <1>4, <1>5 DEF AckInv, AckInit, LiveAckIsDurable, AckAnswersHold, AnnouncedIsCommitted, Clear

\* Every step of the program keeps the acknowledgements in agreement.
LEMMA AckKept ==
    ASSUME LogInv, AckInv, EngineTypes, [Next]_vars
    PROVE  AckInv'
<1>1. CASE AckStep
  <2>1. UNCHANGED engine
    BY <1>1 DEF AckStep
  <2>2. ASSUME NEW r \in Requests, NEW a \in seen, AckSubmit(r, a)
        PROVE  AckInv'
    BY <2>1, <2>2, AckSubmitKeeps
  <2>3. ASSUME NEW r \in Requests, AckTask(r)
        PROVE  AckInv'
    BY <2>1, <2>3, FindUnknownKeeps, FindRetainedKeeps, PrepareAckKeeps, ClaimKeeps, ClaimUnavailableKeeps,
       AbortAckKeeps, CommitAckKeeps, CommitRaisesKeeps, ApplyKeeps, EmitAckKeeps, MarkAckKeeps,
       AckPublicationFailsKeeps, RefindKeeps DEF AckTask
  <2> QED
    BY <1>1, <2>1, <2>2, <2>3, TriggerKeeps, ClearedKeeps, SnapshotKeeps DEF AckStep
<1>2. CASE LogStep
  BY <1>2, AckStands DEF LogStep, engine, Running
<1>3. CASE LogSettlement /\ UNCHANGED ackVars
  <2>1. /\ incarnation' = incarnation
        /\ \/ phase' = phase
           \/ phase \in {"registry", "outbox", "replay"}
              /\ phase' \in {"outbox", "replay", "ack_abort", "refused", "down"}
    BY <1>3 DEF LogSettlement, BuildRegistry, ReconcileOutbox, ReplayIntent, ReplayDone, GoTo, engine
  <2> QED
    BY <1>3, <2>1, AckStands DEF Running, Settling
<1>4. CASE AckSettlement
  BY <1>4, AbortPreparedKeeps, ReplayAckKeeps, OpenIngressKeeps DEF AckSettlement
<1>5. CASE Freeze
  BY <1>5, AckStands DEF Freeze, Accepting, GoTo, Running, Settling
<1>6. CASE Stop \/ Crash
  BY <1>6, AckDiesKeeps DEF Stop, Crash
<1>7. CASE Start
  BY <1>7, StartKeepsAck
<1>8. CASE UNCHANGED vars
  BY <1>8, AckStands DEF vars, engine, Running
<1> QED
  BY <1>1, <1>2, <1>3, <1>4, <1>5, <1>6, <1>7, <1>8 DEF Next, Settle

\* The engine's phases and processes stay what they are.
LEMMA EngineKept ==
    ASSUME EngineTypes, [Next]_vars
    PROVE  EngineTypes'
<1>1. CASE UNCHANGED engine
  BY <1>1 DEF EngineTypes, engine
<1>2. ASSUME NEW p \in Phases, GoTo(p)
      PROVE  EngineTypes'
  BY <1>2 DEF EngineTypes, GoTo
<1>3. CASE Start
  BY <1>3, IncarnationAssumption DEF EngineTypes, Start, Restart, MayDie, Phases, Settling
<1>4. {"down", "open", "frozen", "refused", "outbox", "replay", "ack_abort", "ack_replay"} \subseteq Phases
  BY DEF Phases, Settling
<1>5. CASE Settle
  BY <1>1, <1>2, <1>4, <1>5 DEF Settle, LogSettlement, AckSettlement, BuildRegistry, ReconcileOutbox,
     ReplayIntent, ReplayDone, AbortPrepared, ReplayAck, OpenIngress
<1>6. CASE Freeze \/ Stop \/ Crash
  BY <1>2, <1>4, <1>6 DEF Freeze, Stop, Crash
<1> QED
  BY <1>1, <1>3, <1>5, <1>6 DEF Next, LogStep, AckStep, vars

-----------------------------------------------------------------------------
(* What the retained commands guarantee.                                   *)

\* The strengthening holds from the first engine on.
THEOREM IngressInvariant == Spec => []IInv
<1>1. Init => IInv
  BY LogInitKeeps, AckInitKeeps, IncarnationAssumption
     DEF Init, IInv, EngineTypes, EngineInit, Phases, Settling
<1>2. IInv /\ [Next]_vars => IInv'
  BY LogKept, AckKept, EngineKept DEF IInv
<1> QED
  BY <1>1, <1>2, PTL DEF Spec

\* The stores, tasks, histories and phases of the retained commands have
\* their types in every reachable state.
THEOREM IngressTypes == Spec => []TypeOK
<1>1. IInv => TypeOK
  BY DEF IInv, EngineTypes, LogInv, AckInv, TypeOK
<1> QED
  BY <1>1, IngressInvariant, PTL

\* Every answer given to an operator - committed, published, pending, aborted
\* or stale - is true in every later state, of whichever engine process, and
\* an activation answered as published does not show unacknowledged
\* (_submit_operator_log_entry, _submit_alarm_ack).
THEOREM AnswersAlwaysHold == Spec => []AnswersHold
<1>1. IInv => PublishedAckIsVisible
  BY DEF IInv, AckInv, Answered, Taken, PublishedAckIsVisible
<1>2. IInv => AnswersHold
  BY <1>1 DEF IInv, LogInv, AckInv, AnswersHold
<1> QED
  BY <1>2, IngressInvariant, PTL

\* Reservation, daily row, publication outbox and registry of the operator
\* log agree through every crash, unproven append, rotation and restart.
THEOREM LogStoresAlwaysAgree == Spec => []LogStoresAgree
<1>1. LogInv => OutboxIsBacked
  BY DEF LogInv, Stored, OutboxIsBacked
<1>2. LogInv => RegistryIsTruth
  BY LogFacts DEF LogInv, RegistryIsTruth, Running, Known, Phases
<1>3. IInv => LogStoresAgree
  BY <1>1, <1>2 DEF IInv, LogInv, LogStoresAgree
<1> QED
  BY <1>3, IngressInvariant, PTL

\* The alarm shown, the acknowledgement outbox and what was announced agree,
\* no two operators durably acknowledge one activation unless a commit raised,
\* and the command sockets open over settled rows only.
THEOREM AckStoresAlwaysAgree == Spec => []AckStoresAgree
<1>1. AckInv => IngressOpensSettled
  BY DEF AckInv, Ingress, IngressOpensSettled, Accepting, Running
<1>2. IInv => AckStoresAgree
  BY <1>1 DEF IInv, AckInv, Exclusive, AckStoresAgree
<1> QED
  BY <1>2, IngressInvariant, PTL
=============================================================================

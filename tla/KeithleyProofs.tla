--------------------------- MODULE KeithleyProofs ---------------------------
(***************************************************************************)
(* For any channels, any number of OFF callers and any bounds on epochs    *)
(* and reconnects: the OFF evidence of the driver is honest, what its OFF  *)
(* calls report stays true, no live output is forgotten, no write or close *)
(* acts on the instrument after it lost its authority.                     *)
(*                                                                         *)
(* The argument follows one channel.  An OUTPUT_ON reaches the instrument  *)
(* only if its start owned the channel's command epoch when the write was  *)
(* queued.  An OFF takes the epoch over in its first step, its write is    *)
(* queued behind every OUTPUT_ON that still had it, and so the channel is  *)
(* quiet once that write has been acknowledged and the epoch still stands. *)
(***************************************************************************)
EXTENDS KeithleySource, FiniteSetTheorems, TLAPS

\* A coroutine has a command with the transport: queued, or answered.
Busy(t) == t \in waiting \/ reply[t] # "none"

\* The output is off, front panel aside ...
Off(c) == ~outputOn[c] \/ c \in tampered

\* ... and no OUTPUT_ON is on its way to it.
Calm(c) == Off(c) /\ ~(c \in waiting /\ start[c] = "on")

\* Nor can a start queue one without a new command epoch.
Quiet(c) == Calm(c) /\ startToken[c] # epoch[c] /\ epoch[c] # 0

\* The OFF write of a sequence to one of its targets was acknowledged.
Written(o, c) ==
  /\ c \in op[o].chans \ op[o].failed
  /\ \/ op[o].pc = "read"
     \/ op[o].pc = "write" /\ c \notin op[o].todo /\ (c \in op[o].cur => reply[o] = "ok")

\* The sequence has confirmed the target and may still end as a success.
Accepted(o, c) ==
  /\ c \in op[o].chans /\ op[o].ok
  /\ op[o].pc = "settled" \/ (op[o].pc = "read" /\ c \notin op[o].todo \cup op[o].cur)

\* The OFF sequences that hold the channel.
OffHolders(c) == {o \in OffOwners : c \in op[o].chans}

Issuing == {"configure", "on", "readback"}

\* Every coroutine has at most one command with the transport, and the
\* ordinary-I/O lock is held exactly for the ordinary ones.
WireInv ==
  /\ \A t \in Tasks : reply[t] # "none" => t \notin waiting
  /\ \A c \in Channels :
       /\ ioOwner = c <=> start[c] \in Issuing /\ Busy(c)
       /\ start[c] = "idle" => ~Busy(c)
       /\ start[c] \in {"configure", "on"} => reply[c] \in {"none", "ok", "raised"}
  /\ ioOwner = "reader" <=> Busy("reader")
  /\ rd.pc = "idle" => ~Busy("reader")
  /\ life \in {"idle", "opening", "connect_tail"} => ~Busy("life")
  /\ \A o \in Callers : op[o].pc = "idle" => ~Busy(o)

\* An OFF sequence visits its targets one by one ...
Visiting(o) ==
  /\ op[o].pc = "idle" => op[o] = NoOp
  /\ op[o].pc = "settled" => op[o].todo = {}
  /\ op[o].todo \subseteq op[o].chans /\ op[o].cur \subseteq op[o].chans \ op[o].todo
  /\ op[o].cur # {} => Busy(o) /\ op[o].pc \in {"write", "read"}
  /\ op[o].pc # "idle" /\ Busy(o) => \E c \in Channels : op[o].cur = {c}
  /\ op[o].pc = "write" => reply[o] \in {"none", "ok", "raised"}

\* ... and belongs to its owner.
SequenceInv ==
  /\ \A c \in Channels : op[c].pc # "idle" <=> start[c] = "cleanup"
  /\ op["life"].pc # "idle" <=> life \in {"connect_off", "disconnect_off"}
  /\ life \in {"connect_off", "disconnect_off"} => op["life"].chans = Channels
  /\ \A o \in OffOwners : Visiting(o)

\* Epochs grow, and nobody else ever holds the epoch an OFF or a start claimed.
TokenInv ==
  /\ \A c \in Channels : startToken[c] =< epoch[c] /\ (startToken[c] # 0 <=> start[c] # "idle")
  /\ \A o \in OffOwners : \A c \in op[o].chans :
       op[o].tok[c] # 0 /\ op[o].tok[c] =< epoch[c] /\ op[o].tok[c] # startToken[c]

\* The OFF depth of a channel counts the sequences that hold it.
DepthInv ==
  \A c \in Channels : IsFiniteSet(OffHolders(c)) /\ Cardinality(OffHolders(c)) = offDepth[c]

\* The stages of the connection owner, and what it has made sure of.
LifeInv ==
  /\ connecting <=> life \in {"opening", "connect_off", "connect_tail"}
  /\ disconnecting <=> life \in {"disconnect_off", "closing"}
  /\ connecting => \A c \in Channels : start[c] = "idle"
  /\ life \in {"connect_tail", "closing"} => \A c \in Channels : Calm(c)

\* An OFF write waits behind every OUTPUT_ON whose start it has taken over.
BehindOns ==
  \A o \in OffOwners : \A c \in op[o].cur :
    /\ op[o].pc = "write" /\ o \in waiting /\ op[o].tok[c] = epoch[c]
    /\ c \in waiting /\ start[c] = "on"
    => c \in ahead[o]

\* Evidence of the current epoch is evidence of a quiet channel.
EvidenceInv ==
  /\ \A c \in Channels : proof[c] # NoProof => proof[c].epoch = epoch[c] /\ Quiet(c)
  /\ \A o \in OffOwners, c \in Channels : Written(o, c) /\ op[o].tok[c] = epoch[c] => Quiet(c)
  /\ \A o \in OffOwners, c \in Channels : Accepted(o, c) => Calm(c)

\* A false output_state_unverified stands for a current proof of every channel.
CertaintyInv == TransportAvailable /\ ~unsafe => \A c \in Channels : HasCurrentOffProof(c)

\* Where a live output may come from: an active channel, or a start that has
\* come far enough to have sent its OUTPUT_ON.  A failed start cleans up its own
\* channel.
TrackedInv ==
  \A c \in Channels :
    /\ connected => Off(c) \/ active[c] \/ startToken[c] # 0
    /\ start[c] # "idle" /\ ~attempted[c] => Off(c)
    /\ start[c] \in {"on", "readback"} => attempted[c]
    /\ start[c] = "cleanup" => c \in op[c].chans

\* An unsafe observation is of the current epoch, which no OFF and no start shares.
ObservationInv ==
  /\ \A c \in Channels : obs[c].kind # "none" =>
       /\ start[c] = "idle" /\ \A o \in OffOwners : c \notin op[o].chans
       /\ obs[c].kind = "output_on" => outputOn[c]
  /\ rd.pc = "query" /\ reply["reader"] = "on" => outputOn[rd.ch]

\* Between the configuration of a start and its OUTPUT_ON the level stays zero.
LevelInv ==
  \A c \in Channels :
    start[c] = "on" \/ (start[c] = "configure" /\ reply[c] = "ok") =>
      level[c] = "zero" /\ ~(rd.pc = "level" /\ rd.ch = c /\ Busy("reader"))

IInv ==
  /\ TypeOK /\ WireInv /\ SequenceInv /\ TokenInv /\ DepthInv /\ LifeInv
  /\ BehindOns /\ EvidenceInv /\ CertaintyInv /\ TrackedInv /\ ObservationInv /\ LevelInv

(***************************************************************************)
(* What the steps do to an OFF sequence.                                   *)
(***************************************************************************)

Ops == [pc : {"idle", "write", "read", "settled"}, chans : SUBSET Channels, todo : SUBSET Channels,
        cur : SUBSET Channels, tok : [Channels -> Nat], gen : Nat,
        failed : SUBSET Channels, ok : BOOLEAN]

\* Everything a sequence fixes when it begins.
SameClaim(q, r) == q.chans = r.chans /\ q.tok = r.tok /\ q.gen = r.gen

\* The command to one target is over: the fields of the sequence afterwards.
LEMMA VisitedFields ==
  ASSUME NEW q \in Ops, NEW c \in Channels, NEW failed \in SUBSET Channels, NEW ok \in BOOLEAN
  PROVE  LET r == Visited(q, c, failed, ok) IN
         /\ r \in Ops /\ SameClaim(r, q) /\ r.cur = {} /\ r.failed = failed /\ r.ok = ok
         /\ q.todo \ {c} # {} => r.pc = q.pc /\ r.todo = q.todo \ {c}
         /\ q.todo \ {c} = {} /\ q.pc = "write" => r.pc = "read" /\ r.todo = q.chans
         /\ q.todo \ {c} = {} /\ q.pc # "write" => r.pc = "settled" /\ r.todo = {}
BY DEF Visited, Ops, SameClaim

\* The next command of a sequence goes to one of its targets.
LEMMA OffIssueFields ==
  ASSUME NEW o \in OffOwners, op \in [OffOwners -> Ops], OffIssue(o)
  PROVE  \E c \in op[o].todo, q \in Ops :
           /\ op' = [op EXCEPT ![o] = q] /\ SameClaim(q, op[o]) /\ q.pc = op[o].pc
           /\ q.failed = op[o].failed /\ q.ok = op[o].ok
           /\ q.cur = {c} /\ q.todo = op[o].todo \ {c}
<1>1. PICK c \in op[o].todo : op' = [op EXCEPT ![o].cur = {c}, ![o].todo = @ \ {c}]
  BY DEF OffIssue
<1> DEFINE q1 == [op[o] EXCEPT !.cur = {c}]
           q2 == [q1 EXCEPT !.todo = op[o].todo \ {c}]
<1>2. op' = [op EXCEPT ![o] = q2]
  BY <1>1
<1>3. /\ q1 \in Ops /\ q1.cur = {c} /\ q1.pc = op[o].pc /\ q1.failed = op[o].failed /\ q1.ok = op[o].ok
      /\ SameClaim(q1, op[o])
  BY DEF Ops, SameClaim
<1> HIDE DEF q1
<1>4. /\ q2 \in Ops /\ q2.cur = {c} /\ q2.pc = op[o].pc /\ q2.failed = op[o].failed /\ q2.ok = op[o].ok
      /\ SameClaim(q2, op[o]) /\ q2.todo = op[o].todo \ {c}
  BY <1>3 DEF Ops, SameClaim
<1> HIDE DEF q2
<1> QED BY <1>2, <1>4

\* Sequence o has settled the command to c, with these verdicts.
Settles(o, c, failed, ok) ==
  /\ c \in op[o].cur \cup op[o].todo /\ (op[o].cur = {} \/ (op[o].cur = {c} /\ c \notin op[o].todo))
  /\ failed \in SUBSET Channels /\ ok \in BOOLEAN
  /\ op' = [op EXCEPT ![o] = Visited(op[o], c, failed, ok)]

\* A write that raised leaves its target unconfirmed.
LEMMA OffWriteReplySettles ==
  ASSUME NEW o \in OffOwners, op \in [OffOwners -> Ops], OffWriteReply(o), SequenceInv
  PROVE  \E c \in op[o].cur :
           Settles(o, c, IF reply[o] = "raised" THEN op[o].failed \cup {c} ELSE op[o].failed, op[o].ok)
<1>1. PICK c \in Channels : op[o].cur = {c} /\ c \notin op[o].todo
  BY DEF SequenceInv, Visiting, OffWriteReply, Busy
<1>2. op[o].failed \in SUBSET Channels /\ op[o].ok \in BOOLEAN
  BY DEF Ops
<1>3. op' = [op EXCEPT ![o] =
        Visited(op[o], c, IF reply[o] = "raised" THEN op[o].failed \cup {c} ELSE op[o].failed, op[o].ok)]
  BY <1>1 DEF OffWriteReply
<1> QED BY <1>1, <1>2, <1>3 DEF Settles

\* Without a transport a target cannot be confirmed.
LEMMA OffUnverifiableSettles ==
  ASSUME NEW o \in OffOwners, op \in [OffOwners -> Ops], OffUnverifiable(o)
  PROVE  \E c \in op[o].todo : Settles(o, c, op[o].failed, FALSE) /\ InvalidateIfOwned(o, c)
<1>1. PICK c \in op[o].todo :
        op' = [op EXCEPT ![o] = Visited(op[o], c, op[o].failed, FALSE)] /\ InvalidateIfOwned(o, c)
  BY DEF OffUnverifiable
<1>2. op[o].failed \in SUBSET Channels /\ op[o].cur = {}
  BY DEF Ops, OffUnverifiable
<1>3. c \in op[o].cur \cup op[o].todo /\ FALSE \in BOOLEAN
  OBVIOUS
<1>4. Settles(o, c, op[o].failed, FALSE)
  BY <1>1, <1>2, <1>3 DEF Settles
<1> QED BY <1>1, <1>4

\* The challenge confirms its target only for the epoch and connection it was taken for.
LEMMA OffReadReplySettles ==
  ASSUME NEW o \in OffOwners, op \in [OffOwners -> Ops], OffReadReply(o), SequenceInv
  PROVE  \E c \in op[o].cur :
           \/ /\ reply[o] = "off" /\ c \notin op[o].failed
              /\ Settles(o, c, op[o].failed, op[o].ok /\ MarkAccepted(o, c))
              /\ UNCHANGED <<epoch, startToken, offDepth, lifecycle>>
              /\ IF MarkAccepted(o, c)
                 THEN MarkChannelOffVerified(c) /\ RefreshOutputUncertainty
                 ELSE UNCHANGED <<regEpoch, active, obs, proof, unsafe>>
           \/ /\ Settles(o, c, op[o].failed, FALSE)
              /\ IF reply[o] = "raised" /\ connected
                 THEN /\ EnterRecovery
                      /\ regEpoch' = IF op[o].tok[c] = epoch[c] THEN [regEpoch EXCEPT ![c] = 0] ELSE regEpoch
                 ELSE InvalidateIfOwned(o, c) /\ UNCHANGED <<connected, recovery>>
              /\ UNCHANGED <<epoch, startToken, offDepth, active, gen, connecting, disconnecting, teardown>>
<1>1. PICK c \in Channels : op[o].cur = {c} /\ c \notin op[o].todo
  BY DEF SequenceInv, Visiting, OffReadReply, Busy
<1>2. op[o].failed \in SUBSET Channels /\ op[o].ok \in BOOLEAN
  BY DEF Ops
<1>3. CASE reply[o] = "off" /\ c \notin op[o].failed
  <2>1. /\ op' = [op EXCEPT ![o] = Visited(op[o], c, op[o].failed, op[o].ok /\ MarkAccepted(o, c))]
        /\ UNCHANGED <<epoch, startToken, offDepth, lifecycle>>
        /\ IF MarkAccepted(o, c)
           THEN MarkChannelOffVerified(c) /\ RefreshOutputUncertainty
           ELSE UNCHANGED <<regEpoch, active, obs, proof, unsafe>>
    BY <1>1, <1>3 DEF OffReadReply
  <2>2. (op[o].ok /\ MarkAccepted(o, c)) \in BOOLEAN
    OBVIOUS
  <2> QED BY <1>1, <1>2, <1>3, <2>1, <2>2 DEF Settles
<1>4. CASE ~(reply[o] = "off" /\ c \notin op[o].failed)
  <2>1. /\ op' = [op EXCEPT ![o] = Visited(op[o], c, op[o].failed, FALSE)]
        /\ IF reply[o] = "raised" /\ connected
           THEN /\ EnterRecovery
                /\ regEpoch' = IF op[o].tok[c] = epoch[c] THEN [regEpoch EXCEPT ![c] = 0] ELSE regEpoch
           ELSE InvalidateIfOwned(o, c) /\ UNCHANGED <<connected, recovery>>
        /\ UNCHANGED <<epoch, startToken, offDepth, active, gen, connecting, disconnecting, teardown>>
    BY <1>1, <1>4 DEF OffReadReply
  <2> QED BY <1>1, <1>2, <2>1 DEF Settles
<1> QED BY <1>3, <1>4

\* Nothing is left of a sequence that has been given up.
LEMMA NoOpTyped == NoOp \in Ops /\ NoOp.pc = "idle" /\ NoOp.chans = {} /\ NoOp.todo = {} /\ NoOp.cur = {}
BY DEF NoOp, Ops

(***************************************************************************)
(* Types.                                                                  *)
(***************************************************************************)

Observations == [gen : Nat, epoch : Nat, kind : {"none", "output_on", "invalid_readback"}]

EvidenceTypes ==
  /\ epoch \in [Channels -> Nat] /\ startToken \in [Channels -> Nat]
  /\ offDepth \in [Channels -> Nat] /\ regEpoch \in [Channels -> Nat]
  /\ proof \in [Channels -> [gen : Nat, epoch : Nat]]
  /\ active \in [Channels -> BOOLEAN]
  /\ obs \in [Channels -> Observations]
  /\ unsafe \in BOOLEAN

LifecycleTypes ==
  /\ gen \in Nat
  /\ connected \in BOOLEAN /\ recovery \in BOOLEAN
  /\ connecting \in BOOLEAN /\ disconnecting \in BOOLEAN
  /\ teardown \in {"no", "settleable", "terminal"}
  /\ life \in {"idle", "opening", "connect_off", "connect_tail", "failed_close",
               "disconnect_off", "closing", "settling"}

TaskTypes ==
  /\ start \in [Channels -> {"idle", "configure", "on", "readback", "cleanup"}]
  /\ attempted \in [Channels -> BOOLEAN]
  /\ op \in [OffOwners -> Ops]
  /\ rd \in [pc : {"idle", "query", "measure", "level"}, ch : Channels, gen : Nat, epoch : Nat]

WireTypes ==
  /\ waiting \subseteq Tasks /\ ahead \in [Tasks -> SUBSET Tasks]
  /\ reply \in [Tasks -> {"none", "ok", "raised", "on", "off", "bad"}]
  /\ ioOwner \in Channels \cup {"reader", "none"}
  /\ session \in {"closed", "open", "desync", "dead"}

PlantTypes ==
  /\ outputOn \in [Channels -> BOOLEAN] /\ level \in [Channels -> {"zero", "nonzero"}]
  /\ tampered \subseteq Channels

\* The type invariant in five parts, and who holds the ordinary-I/O lock.
LEMMA TypeParts ==
  TypeOK <=> /\ EvidenceTypes /\ LifecycleTypes /\ TaskTypes /\ WireTypes /\ PlantTypes
             /\ (ioOwner # "none" => Busy(ioOwner))
BY DEF TypeOK, EvidenceTypes, LifecycleTypes, TaskTypes, WireTypes, PlantTypes, Ops, Observations, Busy

\* The names of the coroutines, and no channel among the other ones.
LEMMA TaskNames ==
  /\ Channels \subseteq OffOwners /\ Callers \subseteq OffOwners /\ "life" \in OffOwners
  /\ OffOwners \subseteq Tasks /\ "reader" \in Tasks
  /\ "reader" \notin OffOwners /\ "none" \notin Tasks
  /\ Channels \cap Callers = {} /\ "life" \notin Channels \cup Callers
  /\ "none" \notin Channels /\ "reader" \notin Channels
BY TasksDistinct DEF OffOwners, Tasks

\* Where no evidence is: the null records have their types.
LEMMA NullRecords ==
  /\ NoProof \in [gen : Nat, epoch : Nat] /\ NoObs \in Observations /\ NoObs.kind = "none"
BY DEF NoProof, NoObs, Observations

\* A new sequence q of owner o claims the channels C in one step.
Claims(o, C, q) ==
  /\ q \in Ops /\ op' = [op EXCEPT ![o] = q]
  /\ q.pc = "write" /\ q.chans = C /\ q.todo = C /\ q.cur = {} /\ q.ok = TRUE /\ q.failed = {}
  /\ \A c \in Channels : q.tok[c] = IF c \in C THEN epoch[c] + 1 ELSE 0

LEMMA BeginOffClaims ==
  ASSUME EvidenceTypes, LifecycleTypes, NEW o \in OffOwners, NEW C \in SUBSET Channels, NEW lost,
         BeginOff(o, C, lost)
  PROVE  \E q : Claims(o, C, q)
<1> DEFINE tok == [c \in Channels |-> IF c \in C THEN epoch[c] + 1 ELSE 0]
           q == [pc |-> "write", chans |-> C, todo |-> C, cur |-> {}, tok |-> tok,
                 gen |-> gen, failed |-> {}, ok |-> TRUE]
<1>1. tok \in [Channels -> Nat] /\ \A c \in Channels : tok[c] = IF c \in C THEN epoch[c] + 1 ELSE 0
  BY DEF EvidenceTypes
<1>2. op' = [op EXCEPT ![o] = q]
  BY DEF BeginOff
<1> HIDE DEF tok
<1>3. q \in Ops
  BY <1>1 DEF Ops, LifecycleTypes
<1>4. Claims(o, C, q)
  BY <1>1, <1>2, <1>3 DEF Claims
<1> QED BY <1>4

\* A new sequence leaves evidence of the right types, and none of its channels'.
LEMMA BeginOffTypes ==
  ASSUME EvidenceTypes, TaskTypes, LifecycleTypes, NEW o \in OffOwners, NEW C \in SUBSET Channels,
         NEW lost \in BOOLEAN, BeginOff(o, C, lost), UNCHANGED <<startToken, active>>
  PROVE  /\ EvidenceTypes' /\ op' \in [OffOwners -> Ops]
         /\ connected' \in BOOLEAN /\ recovery' \in BOOLEAN
<1>1. epoch' \in [Channels -> Nat] /\ offDepth' \in [Channels -> Nat] /\ regEpoch' \in [Channels -> Nat]
  BY DEF EvidenceTypes, BeginOff
<1>2. proof' \in [Channels -> [gen : Nat, epoch : Nat]] /\ obs' \in [Channels -> Observations]
  BY NullRecords DEF EvidenceTypes, BeginOff
<1>3. EvidenceTypes'
  BY <1>1, <1>2 DEF EvidenceTypes, BeginOff
<1>4. op' \in [OffOwners -> Ops]
  <2>1. PICK q : Claims(o, C, q)
    BY BeginOffClaims
  <2> QED BY <2>1 DEF Claims, TaskTypes
<1> QED BY <1>3, <1>4 DEF BeginOff, LifecycleTypes

\* So does the end of one.
LEMMA FinishOffTypes ==
  ASSUME EvidenceTypes, TaskTypes, NEW o \in OffOwners, FinishOff(o)
  PROVE  op' \in [OffOwners -> Ops] /\ offDepth' \in [Channels -> Nat]
BY NoOpTyped DEF FinishOff, EvidenceTypes, TaskTypes

\* Settling a target leaves the record of the sequence well typed.
LEMMA SettlesTypes ==
  ASSUME TaskTypes, NEW o \in OffOwners, NEW c, NEW failed, NEW ok, Settles(o, c, failed, ok)
  PROVE  op' \in [OffOwners -> Ops]
<1>1. op[o] \in Ops /\ c \in Channels
  BY DEF TaskTypes, Settles, Ops
<1>2. Visited(op[o], c, failed, ok) \in Ops
  BY <1>1, VisitedFields DEF Settles
<1> QED BY <1>2 DEF TaskTypes, Settles

\* Dropping evidence keeps the types.
LEMMA DropsTypes ==
  ASSUME EvidenceTypes, LifecycleTypes, UNCHANGED <<epoch, startToken, offDepth>>,
         \/ UNCHANGED <<regEpoch, active>> /\ (EnterRecovery \/ RevokeOffEvidence)
         \/ \E o \in OffOwners, c \in Channels : InvalidateIfOwned(o, c) /\ UNCHANGED active
  PROVE  EvidenceTypes'
<1>1. CASE UNCHANGED <<regEpoch, active>> /\ EnterRecovery
  <2>1. CASE connected
    BY <1>1, <2>1, NullRecords DEF EvidenceTypes, EnterRecovery
  <2>2. CASE ~connected
    BY <1>1, <2>2, NullRecords DEF EvidenceTypes, EnterRecovery
  <2> QED BY <2>1, <2>2
<1>2. CASE UNCHANGED <<regEpoch, active>> /\ RevokeOffEvidence
  BY <1>2, NullRecords DEF EvidenceTypes, RevokeOffEvidence
<1>3. ASSUME NEW o \in OffOwners, NEW c \in Channels, InvalidateIfOwned(o, c), UNCHANGED active
      PROVE  EvidenceTypes'
  <2>1. /\ regEpoch' = [regEpoch EXCEPT ![c] = 0] \/ regEpoch' = regEpoch
        /\ proof' = [proof EXCEPT ![c] = NoProof] \/ proof' = proof
        /\ obs' = [obs EXCEPT ![c] = NoObs] \/ obs' = obs
        /\ unsafe' \in {TRUE, unsafe}
    BY <1>3 DEF InvalidateIfOwned
  <2>2. regEpoch' \in [Channels -> Nat]
    BY <2>1 DEF EvidenceTypes
  <2>3. proof' \in [Channels -> [gen : Nat, epoch : Nat]]
    BY <2>1, NullRecords DEF EvidenceTypes
  <2>4. obs' \in [Channels -> Observations]
    BY <2>1, NullRecords DEF EvidenceTypes
  <2> QED BY <1>3, <2>1, <2>2, <2>3, <2>4 DEF EvidenceTypes
<1> QED BY <1>1, <1>2, <1>3

(***************************************************************************)
(* What the transport may do with one command.                             *)
(***************************************************************************)

\* The transport has served the command of coroutine t with reply r.
Served(t, r) ==
  /\ t \in Tasks /\ t \in waiting /\ ahead[t] = {} /\ ~LockHeld
  /\ waiting' = waiting \ {t} /\ ahead' = [u \in Tasks |-> ahead[u] \ {t}]
  /\ reply' = [reply EXCEPT ![t] = r]
  /\ r \in {"ok", "raised", "on", "off", "bad"} /\ session' \in {"closed", "open", "desync", "dead"}
  /\ UNCHANGED <<epoch, startToken, offDepth, regEpoch, proof, active, obs, unsafe,
                 gen, connected, recovery, connecting, disconnecting, teardown,
                 start, attempted, op, rd, life, ioOwner>>

\* An output goes off at level zero, which also ends what the front panel did.
SwitchedOff(c) ==
  /\ outputOn' \in [Channels -> BOOLEAN] /\ level' \in [Channels -> {"zero", "nonzero"}]
  /\ ~outputOn'[c] /\ level'[c] = "zero" /\ tampered' = tampered \ {c}
  /\ \A d \in Channels \ {c} : outputOn'[d] = outputOn[d] /\ level'[d] = level[d]

SamePlant == outputOn' = outputOn /\ level' = level /\ tampered' = tampered

\* The commands that act on a channel, and those that only ask.
ServesConfigure(c, r) ==
  /\ start[c] = "configure" /\ Served(c, r) /\ r \in {"ok", "raised"}
  /\ SwitchedOff(c) \/ (SamePlant /\ r = "raised")

ServesOn(c, r) ==
  /\ start[c] = "on" /\ Served(c, r) /\ r \in {"ok", "raised"}
  /\ outputOn' \in {outputOn, [outputOn EXCEPT ![c] = TRUE]} /\ level' = level /\ tampered' = tampered

ServesReadback(c, r) == start[c] = "readback" /\ Served(c, r) /\ SamePlant

ServesPoll(r) ==
  /\ rd.pc \in {"query", "measure"} /\ Served("reader", r) /\ SamePlant
  /\ rd.pc = "query" /\ r = "on" => outputOn[rd.ch]

ServesLevel(r) ==
  /\ rd.pc = "level" /\ Served("reader", r)
  /\ level' \in {level, [level EXCEPT ![rd.ch] = "nonzero"]}
  /\ outputOn' = outputOn /\ tampered' = tampered

ServesOff(o, c, r) ==
  /\ op[o].pc = "write" /\ op[o].cur = {c} /\ Served(o, r) /\ r \in {"ok", "raised"}
  /\ SwitchedOff(c) \/ (SamePlant /\ r = "raised")

ServesChallenge(o, r) == op[o].pc = "read" /\ Served(o, r) /\ SamePlant

ServesClose(r) == life \in {"closing", "failed_close", "settling"} /\ Served("life", r) /\ SamePlant

\* Every step of the transport is one of these.
LEMMA ExecuteServes ==
  ASSUME TypeOK, WireInv, SequenceInv, Execute
  PROVE  \E r : \/ \E c \in Channels : ServesConfigure(c, r) \/ ServesOn(c, r) \/ ServesReadback(c, r)
                \/ ServesPoll(r) \/ ServesLevel(r)
                \/ \E o \in OffOwners : (\E c \in op[o].cur : ServesOff(o, c, r)) \/ ServesChallenge(o, r)
                \/ ServesClose(r)
<1> USE TaskNames DEF evidence, lifecycle, plant
<1>0. /\ session \in {"closed", "open", "desync", "dead"} /\ op \in [OffOwners -> Ops]
      /\ outputOn \in [Channels -> BOOLEAN] /\ level \in [Channels -> {"zero", "nonzero"}]
      /\ tampered \subseteq Channels /\ waiting \subseteq Tasks
  BY TypeParts DEF WireTypes, TaskTypes, PlantTypes
<1>1. ASSUME NEW c \in Channels, ExecConfigure(c) PROVE \E r : ServesConfigure(c, r)
  <2>1. PICK out \in WriteOutcomes(TRUE) :
         /\ reply' = [reply EXCEPT ![c] = out.r] /\ session' = out.s
         /\ level' = IF out.acts THEN [level EXCEPT ![c] = "zero"] ELSE level
         /\ outputOn' = IF out.acts THEN [outputOn EXCEPT ![c] = FALSE] ELSE outputOn
         /\ tampered' = IF out.acts THEN tampered \ {c} ELSE tampered
    BY <1>1 DEF ExecConfigure
  <2>2. /\ out.r \in {"ok", "raised"} /\ out.s \in {session, "dead"} /\ (out.r = "ok" => out.acts)
    BY DEF WriteOutcomes
  <2>3. Served(c, out.r)
    BY <1>0, <1>1, <2>1, <2>2 DEF ExecConfigure, Dequeue, Served
  <2>4. CASE out.acts
    <3>1. SwitchedOff(c)
      BY <1>0, <2>1, <2>4 DEF SwitchedOff
    <3> QED BY <1>1, <2>2, <2>3, <3>1 DEF ServesConfigure, ExecConfigure
  <2>5. CASE ~out.acts
    <3>1. SamePlant
      BY <2>1, <2>5 DEF SamePlant
    <3> QED BY <1>1, <2>2, <2>3, <2>5, <3>1 DEF ServesConfigure, ExecConfigure
  <2> QED BY <2>4, <2>5
<1>2. ASSUME NEW c \in Channels, ExecOn(c) PROVE \E r : ServesOn(c, r)
  <2>1. PICK out \in WriteOutcomes(TRUE) :
         /\ reply' = [reply EXCEPT ![c] = out.r] /\ session' = out.s
         /\ outputOn' = IF out.acts THEN [outputOn EXCEPT ![c] = TRUE] ELSE outputOn
    BY <1>2 DEF ExecOn
  <2>2. out.r \in {"ok", "raised"} /\ out.s \in {session, "dead"}
    BY DEF WriteOutcomes
  <2>3. Served(c, out.r)
    BY <1>0, <1>2, <2>1, <2>2 DEF ExecOn, Dequeue, Served
  <2>4. outputOn' \in {outputOn, [outputOn EXCEPT ![c] = TRUE]}
    BY <2>1
  <2> QED BY <1>2, <2>2, <2>3, <2>4 DEF ServesOn, ExecOn
<1>3. ASSUME NEW c \in Channels, ExecStartReadback(c) PROVE \E r : ServesReadback(c, r)
  <2>1. PICK out \in QueryOutcomes(TRUE, OutputValue(c)) :
          reply' = [reply EXCEPT ![c] = out.r] /\ session' = out.s
    BY <1>3 DEF ExecStartReadback
  <2>2. out.r \in {"on", "off", "bad", "raised"} /\ out.s \in {session, "desync", "dead"}
    BY DEF QueryOutcomes, OutputValue
  <2>3. Served(c, out.r)
    BY <1>0, <1>3, <2>1, <2>2 DEF ExecStartReadback, Dequeue, Served
  <2> QED BY <1>3, <2>3 DEF ServesReadback, ExecStartReadback, SamePlant
<1>4. ASSUME ExecPollQuery PROVE \E r : ServesPoll(r)
  <2> DEFINE value == IF rd.pc = "query" THEN OutputValue(rd.ch) ELSE "ok"
  <2>1. PICK out \in QueryOutcomes(TRUE, value) :
          reply' = [reply EXCEPT !["reader"] = out.r] /\ session' = out.s
    BY <1>4 DEF ExecPollQuery
  <2>2. out.r \in {value, "bad", "raised"} /\ out.s \in {session, "desync", "dead"}
    BY DEF QueryOutcomes
  <2>3. value \in {"ok", "on", "off"} /\ (rd.pc = "query" /\ value = "on" => outputOn[rd.ch])
    BY DEF OutputValue
  <2> HIDE DEF value
  <2>4. Served("reader", out.r)
    BY <1>0, <1>4, <2>1, <2>2, <2>3 DEF ExecPollQuery, Dequeue, Served
  <2>5. rd.pc = "query" /\ out.r = "on" => outputOn[rd.ch]
    BY <2>2, <2>3
  <2> QED BY <1>4, <2>4, <2>5 DEF ServesPoll, ExecPollQuery, SamePlant
<1>5. ASSUME ExecLevel PROVE \E r : ServesLevel(r)
  <2>1. PICK out \in WriteOutcomes(TRUE) :
         /\ reply' = [reply EXCEPT !["reader"] = out.r] /\ session' = out.s
         /\ level' = IF out.acts THEN [level EXCEPT ![rd.ch] = "nonzero"] ELSE level
    BY <1>5 DEF ExecLevel
  <2>2. out.r \in {"ok", "raised"} /\ out.s \in {session, "dead"}
    BY DEF WriteOutcomes
  <2>3. Served("reader", out.r)
    BY <1>0, <1>5, <2>1, <2>2 DEF ExecLevel, Dequeue, Served
  <2>4. level' \in {level, [level EXCEPT ![rd.ch] = "nonzero"]}
    BY <2>1
  <2> QED BY <1>5, <2>3, <2>4 DEF ServesLevel, ExecLevel
<1>6. ASSUME NEW o \in OffOwners, ExecOff(o) PROVE \E r : \E c \in op[o].cur : ServesOff(o, c, r)
  <2>1. PICK out \in WriteOutcomes(FALSE) :
         /\ reply' = [reply EXCEPT ![o] = out.r] /\ session' = out.s
         /\ outputOn' = [c \in Channels |-> outputOn[c] /\ ~(out.acts /\ c \in op[o].cur)]
         /\ level' = [c \in Channels |-> IF out.acts /\ c \in op[o].cur THEN "zero" ELSE level[c]]
         /\ tampered' = IF out.acts THEN tampered \ op[o].cur ELSE tampered
    BY <1>6 DEF ExecOff
  <2>2. /\ out.r \in {"ok", "raised"} /\ out.s \in {session, "dead"} /\ (out.r = "ok" => out.acts)
    BY DEF WriteOutcomes
  <2>3. Served(o, out.r)
    BY <1>0, <1>6, <2>1, <2>2 DEF ExecOff, Dequeue, Served
  <2>4. PICK c \in Channels : op[o].cur = {c}
    BY <1>6 DEF SequenceInv, Visiting, Busy, ExecOff, Dequeue
  <2>5. CASE out.acts
    <3>1. SwitchedOff(c)
      BY <1>0, <2>1, <2>4, <2>5 DEF SwitchedOff
    <3> QED BY <1>6, <2>2, <2>3, <2>4, <3>1 DEF ServesOff, ExecOff
  <2>6. CASE ~out.acts
    <3>1. outputOn' = outputOn /\ level' = level /\ tampered' = tampered
      BY <1>0, <2>1, <2>6
    <3> QED BY <1>6, <2>2, <2>3, <2>4, <2>6, <3>1 DEF ServesOff, ExecOff, SamePlant
  <2> QED BY <2>5, <2>6
<1>7. ASSUME NEW o \in OffOwners, ExecOffChallenge(o) PROVE \E r : ServesChallenge(o, r)
  <2>1. PICK c \in op[o].cur : \E out \in QueryOutcomes(FALSE, OutputValue(c)) :
          reply' = [reply EXCEPT ![o] = out.r] /\ session' = out.s
    BY <1>7 DEF ExecOffChallenge
  <2>2. PICK out \in QueryOutcomes(FALSE, OutputValue(c)) :
          reply' = [reply EXCEPT ![o] = out.r] /\ session' = out.s
    BY <2>1
  <2>3. out.r \in {"on", "off", "bad", "raised"} /\ out.s \in {session, "desync", "dead"}
    BY DEF QueryOutcomes, OutputValue
  <2>4. Served(o, out.r)
    BY <1>0, <1>7, <2>2, <2>3 DEF ExecOffChallenge, Dequeue, Served
  <2> QED BY <1>7, <2>4 DEF ServesChallenge, ExecOffChallenge, SamePlant
<1>8. ASSUME ExecClose PROVE \E r : ServesClose(r)
  <2>1. PICK r \in {"ok", "raised"} : reply' = [reply EXCEPT !["life"] = r] /\ session' \in {"closed", "dead"}
    BY <1>8 DEF ExecClose
  <2>2. Served("life", r)
    BY <1>0, <1>8, <2>1 DEF ExecClose, Dequeue, Served
  <2> QED BY <1>8, <2>2 DEF ServesClose, ExecClose, SamePlant
<1> QED BY <1>1, <1>2, <1>3, <1>4, <1>5, <1>6, <1>7, <1>8 DEF Execute

(***************************************************************************)
(* Every step keeps the types.                                             *)
(***************************************************************************)

\* The transport changes only its own state and the instrument.
LEMMA ExecuteTypes ==
  ASSUME TypeOK, WireInv, SequenceInv, Execute
  PROVE  EvidenceTypes' /\ LifecycleTypes' /\ TaskTypes' /\ WireTypes' /\ PlantTypes'
<1> USE TaskNames
<1>0. EvidenceTypes /\ LifecycleTypes /\ TaskTypes /\ WireTypes /\ PlantTypes
  BY TypeParts
<1>1. ASSUME NEW t, NEW r, Served(t, r)
      PROVE  EvidenceTypes' /\ LifecycleTypes' /\ TaskTypes' /\ WireTypes'
  <2>1. EvidenceTypes' /\ LifecycleTypes'
    BY <1>0, <1>1 DEF Served, EvidenceTypes, LifecycleTypes
  <2>2. TaskTypes' /\ WireTypes'
    BY <1>0, <1>1 DEF Served, TaskTypes, WireTypes
  <2> QED BY <2>1, <2>2
<1>2. ASSUME SamePlant PROVE PlantTypes'
  BY <1>0, <1>2 DEF SamePlant, PlantTypes
<1>3. ASSUME NEW c \in Channels, SwitchedOff(c) PROVE PlantTypes'
  BY <1>0, <1>3 DEF SwitchedOff, PlantTypes
<1>4. ASSUME NEW c \in Channels, NEW r, ServesOn(c, r) PROVE PlantTypes'
  BY <1>0, <1>4 DEF ServesOn, PlantTypes
<1>5. ASSUME NEW r, ServesLevel(r) PROVE PlantTypes'
  <2>1. level' \in [Channels -> {"zero", "nonzero"}]
    BY <1>0, <1>5 DEF ServesLevel, PlantTypes, TaskTypes
  <2> QED BY <1>0, <1>5, <2>1 DEF ServesLevel, PlantTypes
<1>6. PICK r : \/ \E c \in Channels : ServesConfigure(c, r) \/ ServesOn(c, r) \/ ServesReadback(c, r)
               \/ ServesPoll(r) \/ ServesLevel(r)
               \/ \E o \in OffOwners : (\E c \in op[o].cur : ServesOff(o, c, r)) \/ ServesChallenge(o, r)
               \/ ServesClose(r)
  BY ExecuteServes
<1>7. \A o \in OffOwners : op[o].cur \subseteq Channels
  BY <1>0 DEF TaskTypes, Ops
<1>8. PlantTypes'
  BY <1>2, <1>3, <1>4, <1>5, <1>6, <1>7
     DEF ServesConfigure, ServesReadback, ServesPoll, ServesOff, ServesChallenge, ServesClose
<1>9. \E t : Served(t, r)
  BY <1>6 DEF ServesConfigure, ServesOn, ServesReadback, ServesPoll, ServesLevel, ServesOff, ServesChallenge,
              ServesClose
<1> QED BY <1>1, <1>8, <1>9

\* A coroutine that queues a command keeps the types of the wire.
LEMMA EnqueueTypes ==
  ASSUME WireTypes, NEW t \in Tasks, Enqueue(t)
  PROVE  waiting' \subseteq Tasks /\ ahead' \in [Tasks -> SUBSET Tasks]
BY DEF WireTypes, Enqueue

\* The steps of an OFF sequence.
LEMMA SequenceTypes ==
  ASSUME TypeOK, SequenceInv, NEW o \in OffOwners, OffStep(o)
  PROVE  EvidenceTypes' /\ LifecycleTypes' /\ TaskTypes' /\ WireTypes' /\ PlantTypes'
<1> USE TaskNames DEF evidence, lifecycle, plant, wire
<1>0. EvidenceTypes /\ LifecycleTypes /\ TaskTypes /\ WireTypes /\ PlantTypes /\ op \in [OffOwners -> Ops]
  BY TypeParts DEF TaskTypes
<1>1. op[o].cur \subseteq Channels /\ op[o].todo \subseteq Channels
  BY <1>0 DEF Ops
<1>2. CASE OffIssue(o)
  <2>1. op' \in [OffOwners -> Ops]
    BY <1>0, <1>2, OffIssueFields
  <2>2. WireTypes'
    BY <1>0, <1>2, EnqueueTypes DEF OffIssue, WireTypes
  <2>3. EvidenceTypes' /\ LifecycleTypes'
    BY <1>0, <1>2 DEF OffIssue, EvidenceTypes, LifecycleTypes
  <2>4. TaskTypes' /\ PlantTypes'
    BY <1>0, <1>2, <2>1 DEF OffIssue, TaskTypes, PlantTypes
  <2> QED BY <2>2, <2>3, <2>4
<1>3. CASE OffUnverifiable(o)
  <2>1. PICK c \in op[o].todo : Settles(o, c, op[o].failed, FALSE) /\ InvalidateIfOwned(o, c)
    BY <1>0, <1>3, OffUnverifiableSettles
  <2>2. op' \in [OffOwners -> Ops]
    BY <1>0, <2>1, SettlesTypes
  <2>3. EvidenceTypes'
    BY <1>0, <1>1, <1>3, <2>1, DropsTypes DEF OffUnverifiable
  <2>4. UNCHANGED <<lifecycle, start, attempted, rd, life, wire, reply, ioOwner, session, plant>>
    BY <1>3 DEF OffUnverifiable
  <2>5. LifecycleTypes' /\ TaskTypes'
    BY <1>0, <2>2, <2>4 DEF LifecycleTypes, TaskTypes
  <2> QED BY <1>0, <2>3, <2>4, <2>5 DEF WireTypes, PlantTypes
<1>4. CASE OffWriteReply(o)
  <2>1. op' \in [OffOwners -> Ops]
    BY <1>0, <1>4, OffWriteReplySettles, SettlesTypes
  <2>2. EnterRecovery \/ UNCHANGED <<connected, recovery, proof, obs, unsafe>>
    BY <1>4 DEF OffWriteReply
  <2>3. EvidenceTypes'
    BY <1>0, <1>4, <2>2, DropsTypes DEF OffWriteReply, EvidenceTypes
  <2>4. connected' \in BOOLEAN /\ recovery' \in BOOLEAN
    BY <1>0, <2>2 DEF LifecycleTypes, EnterRecovery
  <2>5. reply' = [reply EXCEPT ![o] = "none"]
    BY <1>4 DEF OffWriteReply
  <2>6. WireTypes'
    BY <1>0, <1>4, <2>5 DEF OffWriteReply, WireTypes
  <2> QED BY <1>0, <1>4, <2>1, <2>3, <2>4, <2>6 DEF OffWriteReply, LifecycleTypes, TaskTypes, PlantTypes
<1>5. CASE OffReadReply(o)
  <2>1. PICK c \in op[o].cur :
          \/ /\ reply[o] = "off" /\ c \notin op[o].failed
             /\ Settles(o, c, op[o].failed, op[o].ok /\ MarkAccepted(o, c))
             /\ UNCHANGED <<epoch, startToken, offDepth, lifecycle>>
             /\ IF MarkAccepted(o, c)
                THEN MarkChannelOffVerified(c) /\ RefreshOutputUncertainty
                ELSE UNCHANGED <<regEpoch, active, obs, proof, unsafe>>
          \/ /\ Settles(o, c, op[o].failed, FALSE)
             /\ IF reply[o] = "raised" /\ connected
                THEN /\ EnterRecovery
                     /\ regEpoch' = IF op[o].tok[c] = epoch[c] THEN [regEpoch EXCEPT ![c] = 0] ELSE regEpoch
                ELSE InvalidateIfOwned(o, c) /\ UNCHANGED <<connected, recovery>>
             /\ UNCHANGED <<epoch, startToken, offDepth, active, gen, connecting, disconnecting, teardown>>
    BY <1>0, <1>5, OffReadReplySettles
  <2>2. op' \in [OffOwners -> Ops] /\ c \in Channels
    BY <1>0, <1>1, <2>1, SettlesTypes
  <2>3. EvidenceTypes' /\ LifecycleTypes'
    <3>0. life' = life
      BY <1>5 DEF OffReadReply
    <3>1. CASE MarkChannelOffVerified(c) /\ RefreshOutputUncertainty /\ UNCHANGED <<epoch, startToken, offDepth, lifecycle>>
      <4>1. /\ regEpoch' \in [Channels -> Nat] /\ active' \in [Channels -> BOOLEAN]
            /\ obs' \in [Channels -> Observations] /\ unsafe' \in BOOLEAN
        BY <1>0, <3>1, NullRecords DEF MarkChannelOffVerified, RefreshOutputUncertainty, EvidenceTypes
      <4>2. [gen |-> gen, epoch |-> epoch[c]] \in [gen : Nat, epoch : Nat]
        BY <1>0, <2>2 DEF EvidenceTypes, LifecycleTypes
      <4>3. proof' \in [Channels -> [gen : Nat, epoch : Nat]]
        BY <1>0, <3>1, <4>2 DEF MarkChannelOffVerified, EvidenceTypes
      <4> QED BY <1>0, <3>0, <3>1, <4>1, <4>3 DEF EvidenceTypes, LifecycleTypes
    <3>2. CASE UNCHANGED <<regEpoch, active, obs, proof, unsafe, epoch, startToken, offDepth, lifecycle>>
      BY <1>0, <3>0, <3>2 DEF EvidenceTypes, LifecycleTypes
    <3>3. CASE /\ EnterRecovery /\ connected
               /\ regEpoch' = IF op[o].tok[c] = epoch[c] THEN [regEpoch EXCEPT ![c] = 0] ELSE regEpoch
               /\ UNCHANGED <<epoch, startToken, offDepth, active, gen, connecting, disconnecting, teardown>>
      <4>1. regEpoch' \in [Channels -> Nat]
        BY <1>0, <3>3 DEF EvidenceTypes
      <4>2. /\ proof' \in [Channels -> [gen : Nat, epoch : Nat]]
            /\ obs' \in [Channels -> Observations] /\ unsafe' \in BOOLEAN
            /\ connected' \in BOOLEAN /\ recovery' \in BOOLEAN
        BY <3>3, NullRecords DEF EnterRecovery
      <4> QED BY <1>0, <3>0, <3>3, <4>1, <4>2 DEF EvidenceTypes, LifecycleTypes
    <3>4. CASE /\ InvalidateIfOwned(o, c) /\ UNCHANGED <<connected, recovery>>
               /\ UNCHANGED <<epoch, startToken, offDepth, active, gen, connecting, disconnecting, teardown>>
      <4>1. EvidenceTypes'
        BY <1>0, <2>2, <3>4, DropsTypes
      <4> QED BY <1>0, <3>0, <3>4, <4>1 DEF LifecycleTypes
    <3> QED BY <2>1, <3>1, <3>2, <3>3, <3>4
  <2>4. WireTypes'
    BY <1>0, <1>5 DEF OffReadReply, WireTypes
  <2> QED BY <1>0, <1>5, <2>2, <2>3, <2>4 DEF OffReadReply, TaskTypes, PlantTypes
<1> QED BY <1>2, <1>3, <1>4, <1>5 DEF OffStep

\* A start that fails turns into the OFF of its channel.
LEMMA StartFailsTypes ==
  ASSUME EvidenceTypes, TaskTypes, LifecycleTypes, NEW c \in Channels, NEW lost \in BOOLEAN,
         StartFails(c, lost), UNCHANGED <<rd, life>>
  PROVE  EvidenceTypes' /\ LifecycleTypes' /\ TaskTypes'
<1>1. BeginOff(c, {c}, lost) /\ UNCHANGED <<startToken, active, attempted, gen, connecting, disconnecting, teardown>>
      /\ start' = [start EXCEPT ![c] = "cleanup"]
  BY DEF StartFails
<1>2. EvidenceTypes' /\ op' \in [OffOwners -> Ops] /\ connected' \in BOOLEAN /\ recovery' \in BOOLEAN
  <2>1. c \in OffOwners /\ {c} \in SUBSET Channels
    BY TaskNames
  <2> QED BY <1>1, <2>1, BeginOffTypes
<1>3. LifecycleTypes'
  BY <1>1, <1>2 DEF LifecycleTypes
<1>4. TaskTypes'
  BY <1>1, <1>2 DEF TaskTypes
<1> QED BY <1>2, <1>3, <1>4

\* The steps of a start.
LEMMA StartTypes ==
  ASSUME TypeOK, NEW c \in Channels, StartBegin(c) \/ StartIssue(c) \/ StartReply(c) \/ StartCleanupDone(c)
  PROVE  EvidenceTypes' /\ LifecycleTypes' /\ TaskTypes' /\ WireTypes' /\ PlantTypes'
<1> USE TaskNames DEF lifecycle, plant, wire
<1>0. EvidenceTypes /\ LifecycleTypes /\ TaskTypes /\ WireTypes /\ PlantTypes /\ c \in Tasks /\ c \in OffOwners
  BY TypeParts
<1>1. CASE StartBegin(c)
  <2>1. /\ epoch' \in [Channels -> Nat] /\ startToken' \in [Channels -> Nat]
        /\ regEpoch' \in [Channels -> Nat]
    BY <1>0, <1>1 DEF StartBegin, EvidenceTypes
  <2>2. /\ proof' \in [Channels -> [gen : Nat, epoch : Nat]]
        /\ obs' \in [Channels -> Observations] /\ unsafe' \in BOOLEAN
    BY <1>0, <1>1, NullRecords DEF StartBegin, EvidenceTypes
  <2>3. EvidenceTypes' /\ LifecycleTypes'
    BY <1>0, <1>1, <2>1, <2>2 DEF StartBegin, EvidenceTypes, LifecycleTypes
  <2>4. TaskTypes'
    BY <1>0, <1>1 DEF StartBegin, TaskTypes
  <2> QED BY <1>0, <1>1, <2>3, <2>4 DEF StartBegin, WireTypes, PlantTypes
<1>2. CASE StartIssue(c)
  <2>1. CASE ioOwner' = c /\ Enqueue(c) /\ UNCHANGED <<evidence, lifecycle, start, attempted, op>>
    <3>1. EvidenceTypes' /\ LifecycleTypes'
      BY <1>0, <1>2, <2>1 DEF StartIssue, evidence, EvidenceTypes, LifecycleTypes
    <3>2. WireTypes'
      BY <1>0, <1>2, <2>1, EnqueueTypes DEF StartIssue, WireTypes
    <3> QED BY <1>0, <1>2, <2>1, <3>1, <3>2 DEF StartIssue, TaskTypes, PlantTypes
  <2>2. CASE StartFails(c, FALSE) /\ UNCHANGED <<ioOwner, wire>>
    <3>1. UNCHANGED <<rd, life, reply, session, plant>>
      BY <1>2 DEF StartIssue
    <3>2. EvidenceTypes' /\ LifecycleTypes' /\ TaskTypes'
      BY <1>0, <2>2, <3>1, StartFailsTypes
    <3> QED BY <1>0, <2>2, <3>1, <3>2 DEF WireTypes, PlantTypes
  <2> QED BY <1>2, <2>1, <2>2 DEF StartIssue
<1>3. CASE StartReply(c)
  <2>1. /\ UNCHANGED <<rd, life, wire, session, plant>>
        /\ reply' = [reply EXCEPT ![c] = "none"] /\ ioOwner' = "none"
    BY <1>3 DEF StartReply
  <2>2. WireTypes' /\ PlantTypes'
    BY <1>0, <2>1 DEF WireTypes, PlantTypes
  <2>3. CASE StartFails(c, reply[c] = "raised")
    <3>1. EvidenceTypes' /\ LifecycleTypes' /\ TaskTypes'
      BY <1>0, <2>1, <2>3, StartFailsTypes
    <3> QED BY <2>2, <3>1
  <2>4. CASE ~StartFails(c, reply[c] = "raised")
    <3>1. /\ start[c] \in {"configure", "on", "readback"}
          /\ start' = [start EXCEPT ![c] = CASE start[c] = "configure" -> "on" [] start[c] = "on" -> "readback"
                                            [] OTHER -> "idle"]
          /\ active' = [active EXCEPT ![c] = TRUE]
          /\ attempted' = [attempted EXCEPT ![c] = TRUE]
          /\ \/ /\ regEpoch' = [regEpoch EXCEPT ![c] = startToken[c]]
                /\ startToken' = [startToken EXCEPT ![c] = 0]
             \/ UNCHANGED <<regEpoch, startToken>>
          /\ UNCHANGED <<epoch, offDepth, proof, obs, lifecycle, op>>
          /\ RefreshOutputUncertainty \/ UNCHANGED unsafe
      BY <1>3, <2>4 DEF StartReply
    <3>2. start' \in [Channels -> {"idle", "configure", "on", "readback", "cleanup"}]
      <4>1. (CASE start[c] = "configure" -> "on" [] start[c] = "on" -> "readback" [] OTHER -> "idle")
              \in {"idle", "configure", "on", "readback", "cleanup"}
        BY <3>1
      <4> QED BY <1>0, <3>1, <4>1 DEF TaskTypes
    <3>3. TaskTypes' /\ LifecycleTypes'
      BY <1>0, <2>1, <3>1, <3>2 DEF TaskTypes, LifecycleTypes
    <3>4. startToken' \in [Channels -> Nat] /\ regEpoch' \in [Channels -> Nat] /\ active' \in [Channels -> BOOLEAN]
      BY <1>0, <3>1 DEF EvidenceTypes
    <3>5. unsafe' \in BOOLEAN
      BY <1>0, <3>1 DEF EvidenceTypes, RefreshOutputUncertainty
    <3> QED BY <1>0, <2>2, <3>1, <3>3, <3>4, <3>5 DEF EvidenceTypes
  <2> QED BY <2>3, <2>4
<1>4. CASE StartCleanupDone(c)
  <2>1. op' \in [OffOwners -> Ops] /\ offDepth' \in [Channels -> Nat]
    BY <1>0, <1>4, FinishOffTypes DEF StartCleanupDone
  <2>2. startToken' \in [Channels -> Nat] /\ unsafe' \in BOOLEAN
    BY <1>0, <1>4 DEF StartCleanupDone, RefreshOutputUncertainty, EvidenceTypes
  <2>3. regEpoch' \in [Channels -> Nat] /\ active' \in [Channels -> BOOLEAN]
    <3>1. /\ regEpoch' = regEpoch \/ regEpoch' = [regEpoch EXCEPT ![c] = 0]
          /\ active' = active \/ active' = [active EXCEPT ![c] = attempted[c]]
      BY <1>4 DEF StartCleanupDone
    <3>2. regEpoch' \in [Channels -> Nat]
      BY <1>0, <3>1 DEF EvidenceTypes
    <3>3. attempted[c] \in BOOLEAN
      BY <1>0 DEF TaskTypes
    <3>4. active' \in [Channels -> BOOLEAN]
      BY <1>0, <3>1, <3>3 DEF EvidenceTypes
    <3> QED BY <3>2, <3>4
  <2>4. EvidenceTypes' /\ LifecycleTypes'
    BY <1>0, <1>4, <2>1, <2>2, <2>3 DEF StartCleanupDone, EvidenceTypes, LifecycleTypes
  <2>5. TaskTypes'
    BY <1>0, <1>4, <2>1 DEF StartCleanupDone, TaskTypes
  <2> QED BY <1>0, <1>4, <2>4, <2>5 DEF StartCleanupDone, WireTypes, PlantTypes
<1> QED BY <1>1, <1>2, <1>3, <1>4

\* emergency_off and stop_source.
LEMMA CallerTypes ==
  ASSUME TypeOK, NEW o \in Callers,
         \/ OffReturn(o) \/ \E C \in SUBSET Channels : EmergencyOff(o, C)
         \/ \E c \in Channels : StopSource(o, c)
  PROVE  EvidenceTypes' /\ LifecycleTypes' /\ TaskTypes' /\ WireTypes' /\ PlantTypes'
<1> USE TaskNames DEF lifecycle, plant, wire
<1>0. EvidenceTypes /\ LifecycleTypes /\ TaskTypes /\ WireTypes /\ PlantTypes /\ o \in OffOwners
  BY TypeParts
<1>1. CASE OffReturn(o)
  <2>1. op' \in [OffOwners -> Ops] /\ offDepth' \in [Channels -> Nat]
    BY <1>0, <1>1, FinishOffTypes DEF OffReturn
  <2>2. EvidenceTypes' /\ LifecycleTypes'
    BY <1>0, <1>1, <2>1 DEF OffReturn, RefreshOutputUncertainty, EvidenceTypes, LifecycleTypes
  <2> QED BY <1>0, <1>1, <2>1, <2>2 DEF OffReturn, TaskTypes, WireTypes, PlantTypes
<1>2. ASSUME NEW C \in SUBSET Channels, BeginOff(o, C, FALSE),
             UNCHANGED <<startToken, active, gen, connecting, disconnecting, teardown, start, attempted, rd, life,
                         wire, reply, ioOwner, session, plant>>
      PROVE  EvidenceTypes' /\ LifecycleTypes' /\ TaskTypes' /\ WireTypes' /\ PlantTypes'
  <2>1. EvidenceTypes' /\ op' \in [OffOwners -> Ops] /\ connected' \in BOOLEAN /\ recovery' \in BOOLEAN
    BY <1>0, <1>2, BeginOffTypes
  <2> QED BY <1>0, <1>2, <2>1 DEF LifecycleTypes, TaskTypes, WireTypes, PlantTypes
<1> QED BY <1>1, <1>2 DEF EmergencyOff, StopSource

\* The poll.
LEMMA ReadTypes ==
  ASSUME TypeOK, \/ ReadIssue \/ ReadReply \/ \E c \in Channels : ReadBegin(c)
  PROVE  EvidenceTypes' /\ LifecycleTypes' /\ TaskTypes' /\ WireTypes' /\ PlantTypes'
<1> USE TaskNames DEF lifecycle, plant, wire
<1>0. EvidenceTypes /\ LifecycleTypes /\ TaskTypes /\ WireTypes /\ PlantTypes
  BY TypeParts
<1>1. ASSUME NEW c \in Channels, ReadBegin(c)
      PROVE  EvidenceTypes' /\ LifecycleTypes' /\ TaskTypes' /\ WireTypes' /\ PlantTypes'
  <2>1. rd' \in [pc : {"idle", "query", "measure", "level"}, ch : Channels, gen : Nat, epoch : Nat]
    BY <1>0, <1>1 DEF ReadBegin, EvidenceTypes, LifecycleTypes
  <2>2. EvidenceTypes' /\ LifecycleTypes'
    BY <1>0, <1>1 DEF ReadBegin, evidence, EvidenceTypes, LifecycleTypes
  <2> QED BY <1>0, <1>1, <2>1, <2>2 DEF ReadBegin, TaskTypes, WireTypes, PlantTypes
<1>2. CASE ReadIssue
  <2>1. rd' \in [pc : {"idle", "query", "measure", "level"}, ch : Channels, gen : Nat, epoch : Nat]
    BY <1>0, <1>2 DEF ReadIssue, TaskTypes
  <2>2. EvidenceTypes' /\ LifecycleTypes'
    BY <1>0, <1>2 DEF ReadIssue, evidence, EvidenceTypes, LifecycleTypes
  <2>3. WireTypes'
    BY <1>0, <1>2, EnqueueTypes DEF ReadIssue, WireTypes
  <2> QED BY <1>0, <1>2, <2>1, <2>2, <2>3 DEF ReadIssue, TaskTypes, PlantTypes
<1>3. CASE ReadReply
  <2>0. /\ UNCHANGED <<startToken, offDepth, active, gen, connecting, disconnecting, teardown, start, attempted,
                       op, life, wire, session, plant>>
        /\ reply' = [reply EXCEPT !["reader"] = "none"] /\ ioOwner' = "none"
        /\ \/ EnterRecovery /\ UNCHANGED <<epoch, regEpoch>>
           \/ UNCHANGED <<connected, recovery, epoch, regEpoch, proof, obs, unsafe>>
           \/ \E kind \in {"output_on", "invalid_readback"} :
                RecordUnsafeOutput(rd.ch, kind) /\ UNCHANGED <<connected, recovery>>
    BY <1>3 DEF ReadReply
  <2>1. rd' \in [pc : {"idle", "query", "measure", "level"}, ch : Channels, gen : Nat, epoch : Nat]
    <3>1. \E pc \in {"idle", "level"} : rd' = [rd EXCEPT !.pc = pc]
      BY <1>3 DEF ReadReply
    <3> QED BY <1>0, <3>1 DEF TaskTypes
  <2>2. TaskTypes' /\ WireTypes' /\ PlantTypes'
    BY <1>0, <2>0, <2>1 DEF TaskTypes, WireTypes, PlantTypes
  <2>3. CASE EnterRecovery /\ UNCHANGED <<epoch, regEpoch>>
    <3>1. EvidenceTypes'
      BY <1>0, <2>0, <2>3, DropsTypes
    <3>2. connected' \in BOOLEAN /\ recovery' \in BOOLEAN
      BY <1>0, <2>3 DEF LifecycleTypes, EnterRecovery
    <3> QED BY <1>0, <2>0, <2>2, <3>1, <3>2 DEF LifecycleTypes
  <2>4. CASE UNCHANGED <<connected, recovery, epoch, regEpoch, proof, obs, unsafe>>
    BY <1>0, <2>0, <2>2, <2>4 DEF EvidenceTypes, LifecycleTypes
  <2>5. ASSUME NEW kind \in {"output_on", "invalid_readback"},
               RecordUnsafeOutput(rd.ch, kind), UNCHANGED <<connected, recovery>>
        PROVE  EvidenceTypes' /\ LifecycleTypes'
    <3> DEFINE o == [gen |-> gen, epoch |-> epoch[rd.ch] + 1, kind |-> kind]
    <3>1. o \in Observations /\ rd.ch \in Channels
      BY <1>0 DEF Observations, EvidenceTypes, LifecycleTypes, TaskTypes
    <3>2. \/ UNCHANGED <<epoch, regEpoch, proof, obs, unsafe>>
          \/ /\ epoch' = [epoch EXCEPT ![rd.ch] = @ + 1]
             /\ regEpoch' = [regEpoch EXCEPT ![rd.ch] = 0]
             /\ proof' = [proof EXCEPT ![rd.ch] = NoProof]
             /\ obs' = [obs EXCEPT ![rd.ch] = o]
             /\ unsafe' = TRUE
      BY <2>5 DEF RecordUnsafeOutput
    <3> HIDE DEF o
    <3>3. epoch' \in [Channels -> Nat] /\ regEpoch' \in [Channels -> Nat]
      BY <1>0, <3>1, <3>2 DEF EvidenceTypes
    <3>4. proof' \in [Channels -> [gen : Nat, epoch : Nat]]
      BY <1>0, <3>1, <3>2, NullRecords DEF EvidenceTypes
    <3>5. obs' \in [Channels -> Observations]
      BY <1>0, <3>1, <3>2, NullRecords DEF EvidenceTypes
    <3>6. unsafe' \in BOOLEAN
      BY <1>0, <3>2 DEF EvidenceTypes
    <3> QED BY <1>0, <2>0, <2>5, <3>3, <3>4, <3>5, <3>6 DEF EvidenceTypes, LifecycleTypes
  <2> QED BY <2>0, <2>2, <2>3, <2>4, <2>5
<1> QED BY <1>1, <1>2, <1>3

\* connect and disconnect.
Connects ==
  \/ ConnectSettle \/ ConnectSettled \/ ConnectBegin \/ ConnectOpened \/ ConnectOpenFailed
  \/ ConnectOffDone \/ ConnectSucceeds \/ ConnectTailFailed \/ FailedConnectClosed
  \/ DisconnectBegin \/ DisconnectOffDone \/ Disconnected

LEMMA ConnectTypes ==
  ASSUME TypeOK, Connects
  PROVE  EvidenceTypes' /\ LifecycleTypes' /\ TaskTypes' /\ WireTypes' /\ PlantTypes'
<1> USE TaskNames DEF lifecycle, plant, wire
<1>0. /\ EvidenceTypes /\ LifecycleTypes /\ TaskTypes /\ WireTypes /\ PlantTypes
      /\ "life" \in OffOwners /\ "life" \in Tasks
  BY TypeParts
<1>1. ASSUME Enqueue("life") \/ UNCHANGED wire, UNCHANGED ioOwner,
             reply' = reply \/ reply' = [reply EXCEPT !["life"] = "none"],
             session' \in {"closed", "open", "desync", "dead"}
      PROVE  WireTypes'
  BY <1>0, <1>1, EnqueueTypes DEF WireTypes
<1>2. ASSUME UNCHANGED <<epoch, startToken, offDepth, regEpoch, active>>,
             RevokeOffEvidence \/ UNCHANGED <<proof, obs>>, unsafe' \in BOOLEAN
      PROVE  EvidenceTypes'
  BY <1>0, <1>2, NullRecords DEF EvidenceTypes, RevokeOffEvidence
<1>3. \A s \in {"open", "desync", "dead"} : s \in {"closed", "open", "desync", "dead"}
  OBVIOUS
<1>4. session \in {"closed", "open", "desync", "dead"} /\ unsafe \in BOOLEAN
  BY <1>0 DEF WireTypes, EvidenceTypes
<1>5. ASSUME UNCHANGED <<start, attempted, rd>>, op' \in [OffOwners -> Ops] \/ UNCHANGED op, UNCHANGED plant
      PROVE  TaskTypes' /\ PlantTypes'
  BY <1>0, <1>5 DEF TaskTypes, PlantTypes
<1>6. ASSUME FinishOff("life"), UNCHANGED <<epoch, startToken, regEpoch, proof, active, obs>>, unsafe' \in BOOLEAN
      PROVE  EvidenceTypes' /\ op' \in [OffOwners -> Ops]
  <2>1. op' \in [OffOwners -> Ops] /\ offDepth' \in [Channels -> Nat]
    BY <1>0, <1>6, FinishOffTypes
  <2> QED BY <1>0, <1>6, <2>1 DEF EvidenceTypes
<1>7. CASE ConnectSettle
  <2>1. EvidenceTypes' /\ LifecycleTypes'
    BY <1>0, <1>7 DEF ConnectSettle, evidence, EvidenceTypes, LifecycleTypes
  <2> QED BY <1>1, <1>4, <1>5, <1>7, <2>1 DEF ConnectSettle
<1>8. CASE ConnectSettled
  <2>1. LifecycleTypes'
    BY <1>0, <1>8 DEF ConnectSettled, LifecycleTypes
  <2>2. EvidenceTypes'
    BY <1>2, <1>4, <1>8 DEF ConnectSettled, RevokeOffEvidence
  <2> QED BY <1>1, <1>4, <1>5, <1>8, <2>1, <2>2 DEF ConnectSettled
<1>9. CASE ConnectBegin
  <2>1. LifecycleTypes'
    BY <1>0, <1>9 DEF ConnectBegin, LifecycleTypes
  <2>2. epoch' \in [Channels -> Nat] /\ startToken' \in [Channels -> Nat] /\ active' \in [Channels -> BOOLEAN]
    BY <1>0, <1>9 DEF ConnectBegin, EvidenceTypes
  <2>3. EvidenceTypes'
    BY <1>0, <1>9, <2>2, NullRecords DEF ConnectBegin, RevokeOffEvidence, EvidenceTypes
  <2> QED BY <1>1, <1>4, <1>5, <1>9, <2>1, <2>3 DEF ConnectBegin
<1>10. CASE ConnectOpened
  <2>1. EvidenceTypes' /\ op' \in [OffOwners -> Ops] /\ connected' \in BOOLEAN /\ recovery' \in BOOLEAN
    BY <1>0, <1>10, BeginOffTypes DEF ConnectOpened
  <2>2. LifecycleTypes'
    BY <1>0, <1>10, <2>1 DEF ConnectOpened, LifecycleTypes
  <2> QED BY <1>1, <1>5, <1>10, <2>1, <2>2 DEF ConnectOpened
<1>11. CASE ConnectOpenFailed
  <2>1. LifecycleTypes'
    BY <1>0, <1>11 DEF ConnectOpenFailed, FailedConnectCloses, LifecycleTypes
  <2>2. EvidenceTypes'
    BY <1>2, <1>11 DEF ConnectOpenFailed, FailedConnectCloses, RevokeOffEvidence
  <2>3. session' \in {"closed", "open", "desync", "dead"}
    BY <1>4, <1>11 DEF ConnectOpenFailed
  <2> QED BY <1>1, <1>5, <1>11, <2>1, <2>2, <2>3 DEF ConnectOpenFailed, FailedConnectCloses
<1>12. CASE ConnectOffDone
  <2>1. LifecycleTypes'
    BY <1>0, <1>12 DEF ConnectOffDone, LifecycleTypes
  <2>2. EvidenceTypes' /\ op' \in [OffOwners -> Ops]
    BY <1>6, <1>12 DEF ConnectOffDone, RefreshOutputUncertainty
  <2> QED BY <1>1, <1>4, <1>5, <1>12, <2>1, <2>2 DEF ConnectOffDone
<1>13. CASE ConnectSucceeds
  <2>1. EvidenceTypes' /\ LifecycleTypes'
    BY <1>0, <1>13 DEF ConnectSucceeds, evidence, EvidenceTypes, LifecycleTypes
  <2> QED BY <1>1, <1>4, <1>5, <1>13, <2>1 DEF ConnectSucceeds
<1>14. CASE ConnectTailFailed
  <2>1. /\ LifecycleTypes' /\ (RevokeOffEvidence \/ UNCHANGED <<proof, obs>>) /\ unsafe' \in BOOLEAN
        /\ Enqueue("life") \/ UNCHANGED wire
    <3>1. CASE FailedConnectCloses
      BY <1>0, <1>14, <3>1 DEF ConnectTailFailed, FailedConnectCloses, LifecycleTypes, RevokeOffEvidence
    <3>2. CASE ~FailedConnectCloses
      BY <1>0, <1>14, <3>2 DEF ConnectTailFailed, ConnectRaises, LifecycleTypes
    <3> QED BY <3>1, <3>2
  <2>2. EvidenceTypes'
    BY <1>2, <1>14, <2>1 DEF ConnectTailFailed
  <2>3. session' \in {"closed", "open", "desync", "dead"}
    BY <1>4, <1>14 DEF ConnectTailFailed
  <2> QED BY <1>1, <1>5, <1>14, <2>1, <2>2, <2>3 DEF ConnectTailFailed
<1>15. CASE FailedConnectClosed
  <2>1. LifecycleTypes'
    BY <1>0, <1>15 DEF FailedConnectClosed, LifecycleTypes
  <2>2. EvidenceTypes'
    BY <1>2, <1>15 DEF FailedConnectClosed, RevokeOffEvidence
  <2> QED BY <1>1, <1>4, <1>5, <1>15, <2>1, <2>2 DEF FailedConnectClosed
<1>16. CASE DisconnectBegin
  <2>1. CASE Enqueue("life") /\ life' = "closing" /\ UNCHANGED <<epoch, offDepth, regEpoch, proof, obs, unsafe, connected, recovery, op>>
    <3>1. EvidenceTypes' /\ LifecycleTypes'
      BY <1>0, <1>16, <2>1 DEF DisconnectBegin, EvidenceTypes, LifecycleTypes
    <3> QED BY <1>1, <1>4, <1>5, <1>16, <2>1, <3>1 DEF DisconnectBegin
  <2>2. CASE life' = "disconnect_off" /\ BeginOff("life", Channels, FALSE) /\ UNCHANGED wire
    <3>1. EvidenceTypes' /\ op' \in [OffOwners -> Ops] /\ connected' \in BOOLEAN /\ recovery' \in BOOLEAN
      BY <1>0, <1>16, <2>2, BeginOffTypes DEF DisconnectBegin
    <3>2. LifecycleTypes'
      BY <1>0, <1>16, <2>2, <3>1 DEF DisconnectBegin, LifecycleTypes
    <3> QED BY <1>1, <1>4, <1>5, <1>16, <2>2, <3>1, <3>2 DEF DisconnectBegin
  <2> QED BY <1>16, <2>1, <2>2 DEF DisconnectBegin
<1>17. CASE DisconnectOffDone
  <2>1. LifecycleTypes'
    BY <1>0, <1>17 DEF DisconnectOffDone, LifecycleTypes
  <2>2. EvidenceTypes' /\ op' \in [OffOwners -> Ops]
    BY <1>6, <1>17 DEF DisconnectOffDone, RefreshOutputUncertainty
  <2> QED BY <1>1, <1>4, <1>5, <1>17, <2>1, <2>2 DEF DisconnectOffDone
<1>18. CASE Disconnected
  <2>1. LifecycleTypes'
    BY <1>0, <1>18 DEF Disconnected, LifecycleTypes
  <2>2. EvidenceTypes'
    BY <1>2, <1>18 DEF Disconnected, RevokeOffEvidence
  <2> QED BY <1>1, <1>4, <1>5, <1>18, <2>1, <2>2 DEF Disconnected
<1> QED BY <1>7, <1>8, <1>9, <1>10, <1>11, <1>12, <1>13, <1>14, <1>15, <1>16, <1>17, <1>18 DEF Connects

\* Every step keeps the types; the clause on the ordinary-I/O lock follows from WireInv.
LEMMA NextTypes ==
  ASSUME TypeOK, WireInv, SequenceInv, Next
  PROVE  EvidenceTypes' /\ LifecycleTypes' /\ TaskTypes' /\ WireTypes' /\ PlantTypes'
<1>0. EvidenceTypes /\ LifecycleTypes /\ TaskTypes /\ WireTypes /\ PlantTypes
  BY TypeParts
<1>1. ASSUME NEW c \in Channels, FrontPanelOn(c)
      PROVE  EvidenceTypes' /\ LifecycleTypes' /\ TaskTypes' /\ WireTypes' /\ PlantTypes'
  <2>1. EvidenceTypes' /\ LifecycleTypes'
    BY <1>0, <1>1 DEF FrontPanelOn, evidence, lifecycle, EvidenceTypes, LifecycleTypes
  <2>2. TaskTypes' /\ WireTypes'
    BY <1>0, <1>1 DEF FrontPanelOn, wire, TaskTypes, WireTypes
  <2>3. PlantTypes'
    BY <1>0, <1>1 DEF FrontPanelOn, PlantTypes
  <2> QED BY <2>1, <2>2, <2>3
<1>2. CASE OffUnavailable
  <2>1. EvidenceTypes' /\ LifecycleTypes'
    BY <1>0, <1>2 DEF OffUnavailable, lifecycle, EvidenceTypes, LifecycleTypes
  <2>2. TaskTypes' /\ WireTypes' /\ PlantTypes'
    BY <1>0, <1>2 DEF OffUnavailable, wire, plant, TaskTypes, WireTypes, PlantTypes
  <2> QED BY <2>1, <2>2
<1> QED BY <1>1, <1>2, ExecuteTypes, SequenceTypes, CallerTypes, StartTypes, ReadTypes, ConnectTypes DEF Next, Connects

LEMMA TypeFromParts ==
  ASSUME EvidenceTypes', LifecycleTypes', TaskTypes', WireTypes', PlantTypes', WireInv'
  PROVE  TypeOK'
<1>1. ioOwner' # "none" => Busy(ioOwner)'
  BY DEF WireTypes, WireInv
<1> QED BY <1>1 DEF TypeOK, EvidenceTypes, LifecycleTypes, TaskTypes, WireTypes, PlantTypes, Ops, Observations, Busy

(***************************************************************************)
(* The steps as the proofs use them.                                       *)
(***************************************************************************)

\* Owner o begins an OFF of the channels C: a caller, the connection owner, or a
\* start that failed, before or after a command of its own.
Begins(o, C) ==
  /\ o \in OffOwners /\ C \subseteq Channels /\ op[o].pc = "idle"
  /\ \E q : Claims(o, C, q)
  /\ \A c \in Channels :
       /\ epoch'[c] = IF c \in C THEN epoch[c] + 1 ELSE epoch[c]
       /\ offDepth'[c] = IF c \in C THEN offDepth[c] + 1 ELSE offDepth[c]
       /\ proof'[c] = NoProof \/ (c \notin C /\ proof'[c] = proof[c])
       /\ obs'[c] = NoObs \/ (c \notin C /\ obs'[c] = obs[c])
  /\ unsafe' = TRUE /\ (connected' => connected)
  /\ UNCHANGED <<startToken, active, gen, connecting, teardown, attempted, rd, waiting, ahead,
                 outputOn, level, tampered>>
  /\ \/ o \in Callers /\ UNCHANGED <<start, life, disconnecting, reply, ioOwner>>
     \/ /\ o = "life" /\ C = Channels /\ UNCHANGED <<start, reply, ioOwner>>
        /\ \/ life = "opening" /\ life' = "connect_off" /\ UNCHANGED disconnecting
           \/ life = "idle" /\ life' = "disconnect_off" /\ disconnecting' = TRUE
     \/ /\ o \in Channels /\ C = {o} /\ start[o] \in Issuing /\ o \notin waiting
        /\ start' = [start EXCEPT ![o] = "cleanup"] /\ UNCHANGED <<life, disconnecting>>
        /\ reply' = [reply EXCEPT ![o] = "none"]
        /\ \/ reply[o] = "none" /\ UNCHANGED ioOwner
           \/ reply[o] # "none" /\ ioOwner' = "none"

\* A start that still owns its channel queues its next command ...
StartQueues(c) ==
  /\ start[c] \in Issuing /\ ~Busy(c) /\ ioOwner = "none" /\ Operational
  /\ start[c] \in {"configure", "on"} => StartOperationIsCurrent(c, startToken[c])
  /\ ioOwner' = c /\ Enqueue(c)
  /\ UNCHANGED <<epoch, startToken, offDepth, regEpoch, proof, active, obs, unsafe,
                 gen, connected, recovery, connecting, disconnecting, teardown,
                 start, attempted, op, rd, life, reply, session, outputOn, level, tampered>>

\* ... and goes on once it was answered.
StartProceeds(c) ==
  /\ start[c] \in Issuing /\ reply[c] # "none" /\ reply[c] # "raised"
  /\ StartOperationIsCurrent(c, startToken[c])
  /\ reply' = [reply EXCEPT ![c] = "none"] /\ ioOwner' = "none"
  /\ active' = [active EXCEPT ![c] = TRUE] /\ attempted' = [attempted EXCEPT ![c] = TRUE]
  /\ \/ /\ \/ start[c] = "configure" /\ start' = [start EXCEPT ![c] = "on"]
           \/ start[c] = "on" /\ start' = [start EXCEPT ![c] = "readback"]
        /\ UNCHANGED <<startToken, unsafe>>
     \/ /\ start[c] = "readback" /\ start' = [start EXCEPT ![c] = "idle"]
        /\ startToken' = [startToken EXCEPT ![c] = 0] /\ RefreshOutputUncertainty
  /\ UNCHANGED <<epoch, offDepth, proof, obs, gen, connected, recovery, connecting, disconnecting, teardown,
                 op, rd, life, waiting, ahead, session, outputOn, level, tampered>>

\* A disconnect over current OFF proofs closes at once.
DisconnectProved ==
  /\ life = "idle" /\ teardown = "no" /\ ~connecting /\ ~disconnecting /\ (connected \/ recovery)
  /\ \A c \in Channels : HasCurrentOffProof(c)
  /\ disconnecting' = TRUE /\ life' = "closing" /\ Enqueue("life")
  /\ UNCHANGED <<epoch, startToken, offDepth, regEpoch, proof, active, obs, unsafe,
                 gen, connected, recovery, connecting, teardown,
                 start, attempted, op, rd, reply, ioOwner, session, outputOn, level, tampered>>

Steps ==
  \/ Execute \/ OffUnavailable \/ ReadIssue \/ ReadReply
  \/ \E o \in OffOwners : OffStep(o) \/ \E C \in SUBSET Channels : Begins(o, C)
  \/ \E o \in Callers : OffReturn(o)
  \/ \E c \in Channels :
       FrontPanelOn(c) \/ StartBegin(c) \/ StartQueues(c) \/ StartProceeds(c) \/ StartCleanupDone(c) \/ ReadBegin(c)
  \/ ConnectSettle \/ ConnectSettled \/ ConnectBegin \/ ConnectOpenFailed \/ ConnectOffDone \/ ConnectSucceeds
  \/ ConnectTailFailed \/ FailedConnectClosed \/ DisconnectProved \/ DisconnectOffDone \/ Disconnected

LEMMA NextSteps ==
  ASSUME TypeOK, WireInv, SequenceInv, Next
  PROVE  Steps
<1> USE TaskNames
<1>0. EvidenceTypes /\ LifecycleTypes /\ TaskTypes /\ WireTypes /\ PlantTypes
  BY TypeParts
<1>1. ASSUME NEW o \in OffOwners, NEW C \in SUBSET Channels, NEW lost \in BOOLEAN, BeginOff(o, C, lost)
      PROVE  /\ \E q : Claims(o, C, q)
             /\ \A c \in Channels :
                  /\ epoch'[c] = IF c \in C THEN epoch[c] + 1 ELSE epoch[c]
                  /\ offDepth'[c] = IF c \in C THEN offDepth[c] + 1 ELSE offDepth[c]
                  /\ proof'[c] = NoProof \/ (c \notin C /\ proof'[c] = proof[c])
                  /\ obs'[c] = NoObs \/ (c \notin C /\ obs'[c] = obs[c])
             /\ unsafe' = TRUE /\ (connected' => connected)
  <2>1. \E q : Claims(o, C, q)
    BY <1>0, <1>1, BeginOffClaims
  <2> QED BY <1>1, <2>1 DEF BeginOff
<1>2. ASSUME NEW o \in Callers, NEW C \in SUBSET Channels, EmergencyOff(o, C) PROVE Begins(o, C)
  BY <1>1, <1>2 DEF EmergencyOff, Begins, wire, plant
<1>3. ASSUME NEW o \in Callers, NEW c \in Channels, StopSource(o, c) PROVE Begins(o, {c})
  BY <1>1, <1>3 DEF StopSource, Begins, wire, plant
<1>4. ASSUME ConnectOpened PROVE \E C \in SUBSET Channels : Begins("life", C)
  <2>1. op["life"].pc = "idle"
    BY <1>4 DEF ConnectOpened, SequenceInv, Visiting
  <2>2. Begins("life", Channels)
    BY <1>1, <1>4, <2>1 DEF ConnectOpened, Begins, wire, plant
  <2> QED BY <2>2
<1>5. ASSUME DisconnectBegin PROVE DisconnectProved \/ Begins("life", Channels)
  <2>1. CASE life' = "closing"
    BY <1>5, <2>1 DEF DisconnectBegin, DisconnectProved, plant
  <2>2. CASE life' # "closing"
    <3>1. op["life"].pc = "idle"
      BY <1>5 DEF DisconnectBegin, SequenceInv, Visiting
    <3> QED BY <1>1, <1>5, <2>2, <3>1 DEF DisconnectBegin, Begins, wire, plant
  <2> QED BY <2>1, <2>2
<1>6. ASSUME NEW c \in Channels, StartIssue(c) PROVE StartQueues(c) \/ Begins(c, {c})
  <2>1. CASE ioOwner' = c /\ Enqueue(c)
    BY <1>6, <2>1 DEF StartIssue, StartFails, StartQueues, Busy, Issuing, evidence, lifecycle, plant
  <2>2. CASE StartFails(c, FALSE) /\ UNCHANGED <<ioOwner, wire>>
    <3>1. op[c].pc = "idle"
      BY <1>6 DEF StartIssue, SequenceInv, Visiting
    <3>2. reply' = [reply EXCEPT ![c] = "none"]
      BY <1>0, <1>6 DEF StartIssue, WireTypes
    <3> QED BY <1>1, <1>6, <2>2, <3>1, <3>2 DEF StartIssue, StartFails, Begins, Issuing, wire, plant
  <2> QED BY <1>6, <2>1, <2>2 DEF StartIssue
<1>7. ASSUME NEW c \in Channels, StartReply(c) PROVE StartProceeds(c) \/ Begins(c, {c})
  <2>1. CASE StartFails(c, reply[c] = "raised")
    <3>1. op[c].pc = "idle"
      BY <1>7 DEF StartReply, SequenceInv, Visiting
    <3>2. c \notin waiting
      BY <1>7 DEF StartReply, WireInv
    <3>3. (reply[c] = "raised") \in BOOLEAN
      OBVIOUS
    <3> QED BY <1>1, <1>7, <2>1, <3>1, <3>2, <3>3 DEF StartReply, StartFails, Begins, Issuing, wire, plant
  <2>2. CASE ~StartFails(c, reply[c] = "raised")
    <3>1. /\ ~(reply[c] = "raised" \/ ~StartOperationIsCurrent(c, startToken[c])
                                   \/ (start[c] = "readback" /\ reply[c] # "on"))
          /\ start' = [start EXCEPT ![c] = CASE start[c] = "configure" -> "on" [] start[c] = "on" -> "readback"
                                            [] OTHER -> "idle"]
          /\ IF start[c] = "readback"
             THEN startToken' = [startToken EXCEPT ![c] = 0] /\ RefreshOutputUncertainty
             ELSE UNCHANGED <<startToken, unsafe>>
      BY <1>7, <2>2 DEF StartReply
    <3>2. /\ start[c] = "configure" => start' = [start EXCEPT ![c] = "on"]
          /\ start[c] = "on" => start' = [start EXCEPT ![c] = "readback"]
          /\ start[c] = "readback" => start' = [start EXCEPT ![c] = "idle"]
      BY <3>1
    <3> QED BY <1>7, <2>2, <3>1, <3>2 DEF StartReply, StartProceeds, Issuing, lifecycle, wire, plant
  <2> QED BY <2>1, <2>2
<1>8. \A c \in Channels : {c} \in SUBSET Channels /\ Channels \in SUBSET Channels
  OBVIOUS
<1>9. ASSUME NEW o \in Callers,
             \/ OffReturn(o) \/ EmergencyOff(o, Channels)
             \/ \E c \in Channels : EmergencyOff(o, {c}) \/ StopSource(o, c)
      PROVE  OffReturn(o) \/ \E C \in SUBSET Channels : Begins(o, C)
  BY <1>2, <1>3, <1>8, <1>9
<1>10. ASSUME NEW c \in Channels,
              StartBegin(c) \/ StartIssue(c) \/ StartReply(c) \/ StartCleanupDone(c) \/ ReadBegin(c)
       PROVE  \/ StartBegin(c) \/ StartQueues(c) \/ StartProceeds(c) \/ StartCleanupDone(c) \/ ReadBegin(c)
              \/ \E C \in SUBSET Channels : Begins(c, C)
  BY <1>6, <1>7, <1>8, <1>10
<1>11. CASE Execute \/ OffUnavailable \/ ReadIssue \/ ReadReply \/ \E c \in Channels : FrontPanelOn(c)
  BY <1>11 DEF Steps
<1>12. CASE \E o \in OffOwners : OffStep(o)
  BY <1>12 DEF Steps
<1>13. CASE \E o \in Callers :
              \/ OffReturn(o) \/ EmergencyOff(o, Channels)
              \/ \E c \in Channels : EmergencyOff(o, {c}) \/ StopSource(o, c)
  BY <1>9, <1>13 DEF Steps
<1>14. CASE \E c \in Channels :
              StartBegin(c) \/ StartIssue(c) \/ StartReply(c) \/ StartCleanupDone(c) \/ ReadBegin(c)
  BY <1>10, <1>14 DEF Steps
<1>15. CASE Connects
  BY <1>4, <1>5, <1>15 DEF Connects, Steps
<1> QED BY <1>11, <1>12, <1>13, <1>14, <1>15 DEF Next, Connects

\* What a step of an OFF sequence leaves alone.
OffFrame(o) ==
  /\ op[o].pc # "idle" /\ op'[o].pc # "idle" /\ SameClaim(op'[o], op[o])
  /\ op' \in [OffOwners -> Ops] /\ \A x \in OffOwners \ {o} : op'[x] = op[x]
  /\ \A t \in Tasks \ {o} : reply'[t] = reply[t] /\ (t \in waiting' <=> t \in waiting)
  /\ \A t, u \in Tasks : u \in waiting /\ u # o => (t \in ahead'[u] <=> t \in ahead[u])
  /\ (connected' => connected)
  /\ UNCHANGED <<epoch, startToken, offDepth, gen, connecting, disconnecting, teardown,
                 start, attempted, rd, life, ioOwner, outputOn, level, tampered>>

\* The sequence after a settled target.
LEMMA SettlesFields ==
  ASSUME op \in [OffOwners -> Ops], NEW o \in OffOwners, NEW c, NEW failed, NEW ok, Settles(o, c, failed, ok)
  PROVE  /\ op' \in [OffOwners -> Ops] /\ \A x \in OffOwners \ {o} : op'[x] = op[x]
         /\ c \in Channels /\ SameClaim(op'[o], op[o]) /\ op'[o].cur = {}
         /\ op'[o].failed = failed /\ op'[o].ok = ok
         /\ op[o].todo \ {c} # {} => op'[o].pc = op[o].pc /\ op'[o].todo = op[o].todo \ {c}
         /\ op[o].todo \ {c} = {} /\ op[o].pc = "write" => op'[o].pc = "read" /\ op'[o].todo = op[o].chans
         /\ op[o].todo \ {c} = {} /\ op[o].pc # "write" => op'[o].pc = "settled" /\ op'[o].todo = {}
<1> DEFINE r == Visited(op[o], c, failed, ok)
<1>1. op[o] \in Ops /\ c \in Channels /\ failed \in SUBSET Channels /\ ok \in BOOLEAN
  BY DEF Settles, Ops
<1>2. /\ r \in Ops /\ SameClaim(r, op[o]) /\ r.cur = {} /\ r.failed = failed /\ r.ok = ok
      /\ op[o].todo \ {c} # {} => r.pc = op[o].pc /\ r.todo = op[o].todo \ {c}
      /\ op[o].todo \ {c} = {} /\ op[o].pc = "write" => r.pc = "read" /\ r.todo = op[o].chans
      /\ op[o].todo \ {c} = {} /\ op[o].pc # "write" => r.pc = "settled" /\ r.todo = {}
  BY <1>1, VisitedFields
<1>3. op' = [op EXCEPT ![o] = r]
  BY DEF Settles
<1> HIDE DEF r
<1>4. op'[o] = r /\ op' \in [OffOwners -> Ops] /\ \A x \in OffOwners \ {o} : op'[x] = op[x]
  BY <1>2, <1>3
<1> QED BY <1>1, <1>2, <1>4

\* The target of the command that came back.
LEMMA OffStepFrame ==
  ASSUME TypeOK, SequenceInv, NEW o \in OffOwners, OffStep(o)
  PROVE  OffFrame(o)
<1> USE TaskNames DEF evidence, lifecycle, plant, wire
<1>0. /\ op \in [OffOwners -> Ops] /\ o \in Tasks /\ waiting \subseteq Tasks
      /\ ahead \in [Tasks -> SUBSET Tasks] /\ reply \in [Tasks -> {"none", "ok", "raised", "on", "off", "bad"}]
  BY TypeParts DEF TaskTypes, WireTypes
<1>1. CASE OffIssue(o)
  <2>1. PICK c \in op[o].todo, q \in Ops :
           /\ op' = [op EXCEPT ![o] = q] /\ SameClaim(q, op[o]) /\ q.pc = op[o].pc
    BY <1>0, <1>1, OffIssueFields
  <2>2. /\ op[o].pc # "idle" /\ op'[o].pc # "idle" /\ SameClaim(op'[o], op[o])
        /\ op' \in [OffOwners -> Ops] /\ \A x \in OffOwners \ {o} : op'[x] = op[x]
    BY <1>0, <1>1, <2>1 DEF OffIssue
  <2>3. UNCHANGED <<evidence, lifecycle, start, attempted, rd, life, reply, ioOwner, session, plant>>
    BY <1>1 DEF OffIssue
  <2>4. waiting' = waiting \cup {o} /\ ahead' = [ahead EXCEPT ![o] = waiting]
    BY <1>1 DEF OffIssue, Enqueue
  <2>5. \A t, u \in Tasks : u \in waiting /\ u # o => (t \in ahead'[u] <=> t \in ahead[u])
    BY <1>0, <2>4
  <2> QED BY <1>0, <2>2, <2>3, <2>4, <2>5 DEF OffFrame
<1>2. CASE OffUnverifiable(o)
  <2>1. PICK c \in op[o].todo : Settles(o, c, op[o].failed, FALSE)
    BY <1>0, <1>2, OffUnverifiableSettles
  <2>2. op[o].pc = "read" /\ UNCHANGED <<epoch, startToken, offDepth, active, lifecycle, start, attempted, rd, life,
                                         wire, reply, ioOwner, session, plant>>
    BY <1>2 DEF OffUnverifiable
  <2> QED BY <1>0, <2>1, <2>2, SettlesFields DEF OffFrame
<1>3. CASE OffWriteReply(o)
  <2>1. PICK c \in op[o].cur :
          Settles(o, c, IF reply[o] = "raised" THEN op[o].failed \cup {c} ELSE op[o].failed, op[o].ok)
    BY <1>0, <1>3, OffWriteReplySettles
  <2>2. /\ op[o].pc = "write" /\ reply' = [reply EXCEPT ![o] = "none"]
        /\ UNCHANGED <<epoch, startToken, offDepth, regEpoch, active, gen, connecting, disconnecting, teardown,
                       start, attempted, rd, life, wire, ioOwner, session, plant>>
    BY <1>3 DEF OffWriteReply
  <2>3. connected' => connected
    BY <1>3 DEF OffWriteReply, EnterRecovery
  <2>4. op'[o].pc # "idle" /\ SameClaim(op'[o], op[o]) /\ op' \in [OffOwners -> Ops]
        /\ \A x \in OffOwners \ {o} : op'[x] = op[x]
    BY <1>0, <2>1, <2>2, SettlesFields
  <2> QED BY <1>0, <2>2, <2>3, <2>4 DEF OffFrame
<1>4. CASE OffReadReply(o)
  <2>1. PICK c, failed, ok : Settles(o, c, failed, ok)
    BY <1>0, <1>4, OffReadReplySettles
  <2>2. /\ op[o].pc = "read" /\ reply' = [reply EXCEPT ![o] = "none"]
        /\ UNCHANGED <<start, attempted, rd, life, wire, ioOwner, session, plant>>
    BY <1>4 DEF OffReadReply
  <2>3. UNCHANGED <<epoch, startToken, offDepth, gen, connecting, disconnecting, teardown>> /\ (connected' => connected)
    BY <1>0, <1>4, OffReadReplySettles DEF EnterRecovery
  <2>4. op'[o].pc # "idle" /\ SameClaim(op'[o], op[o]) /\ op' \in [OffOwners -> Ops]
        /\ \A x \in OffOwners \ {o} : op'[x] = op[x]
    BY <1>0, <2>1, <2>2, SettlesFields
  <2> QED BY <1>0, <2>2, <2>3, <2>4 DEF OffFrame
<1> QED BY <1>1, <1>2, <1>3, <1>4 DEF OffStep

\* The steps that neither claim nor release a channel.
PlainSteps ==
  \/ Execute \/ OffUnavailable \/ ReadIssue
  \/ \E c \in Channels : FrontPanelOn(c) \/ StartQueues(c) \/ ReadBegin(c)
  \/ ConnectSettle \/ ConnectSettled \/ ConnectOpenFailed \/ ConnectSucceeds
  \/ ConnectTailFailed \/ FailedConnectClosed \/ DisconnectProved \/ Disconnected

LEMMA PlainFrame ==
  ASSUME PlainSteps
  PROVE  UNCHANGED <<epoch, startToken, offDepth, start, attempted, op, active, gen>>
<1> USE DEF evidence, lifecycle
<1>1. CASE Execute
  BY <1>1 DEF Execute, ExecConfigure, ExecOn, ExecStartReadback, ExecPollQuery, ExecLevel, ExecOff,
              ExecOffChallenge, ExecClose
<1>2. CASE OffUnavailable \/ ReadIssue \/ \E c \in Channels : FrontPanelOn(c) \/ StartQueues(c) \/ ReadBegin(c)
  BY <1>2 DEF OffUnavailable, ReadIssue, FrontPanelOn, StartQueues, ReadBegin
<1>3. CASE ConnectSettle \/ ConnectSettled \/ ConnectOpenFailed \/ ConnectSucceeds
           \/ ConnectTailFailed \/ FailedConnectClosed \/ DisconnectProved \/ Disconnected
  BY <1>3 DEF ConnectSettle, ConnectSettled, ConnectOpenFailed, ConnectSucceeds,
              ConnectTailFailed, FailedConnectClosed, DisconnectProved, Disconnected
<1> QED BY <1>1, <1>2, <1>3 DEF PlainSteps

\* The end of a sequence, whoever owns it.
Ends(o) ==
  \/ o \in Callers /\ OffReturn(o)
  \/ o \in Channels /\ StartCleanupDone(o)
  \/ o = "life" /\ (ConnectOffDone \/ DisconnectOffDone)

LEMMA EndsFrame ==
  ASSUME op \in [OffOwners -> Ops], NEW o \in OffOwners, Ends(o)
  PROVE  /\ FinishOff(o) /\ op[o].pc = "settled" /\ op'[o] = NoOp
         /\ op' \in [OffOwners -> Ops] /\ \A x \in OffOwners \ {o} : op'[x] = op[x]
         /\ UNCHANGED <<epoch, gen, teardown, proof, obs, attempted, rd, reply, ioOwner, outputOn, level, tampered>>
<1>1. FinishOff(o)
  BY DEF Ends, OffReturn, StartCleanupDone, ConnectOffDone, DisconnectOffDone
<1>2. UNCHANGED <<epoch, gen, teardown, proof, obs, attempted, rd, reply, ioOwner, outputOn, level, tampered>>
  BY DEF Ends, OffReturn, StartCleanupDone, ConnectOffDone, DisconnectOffDone, lifecycle, plant
<1> QED BY <1>1, <1>2, NoOpTyped DEF FinishOff

\* Every step, by what it does to the claims on the channels.
LEMMA StepGroups ==
  ASSUME Steps
  PROVE  \/ PlainSteps \/ ReadReply \/ ConnectBegin
         \/ \E o \in OffOwners : OffStep(o) \/ Ends(o) \/ \E C \in SUBSET Channels : Begins(o, C)
         \/ \E c \in Channels : StartBegin(c) \/ StartProceeds(c)
BY TaskNames DEF Steps, PlainSteps, Ends

(***************************************************************************)
(* Command epochs and OFF depths.                                          *)
(***************************************************************************)

\* A poll moves an epoch only forward.
LEMMA ReadReplyEpochs ==
  ASSUME EvidenceTypes, TaskTypes, ReadReply
  PROVE  /\ \A c \in Channels : epoch'[c] \in {epoch[c], epoch[c] + 1}
         /\ UNCHANGED <<startToken, offDepth, active, gen, connecting, disconnecting, teardown, start, attempted,
                        op, life, waiting, ahead, session, outputOn, level, tampered>>
<1>1. UNCHANGED epoch \/ epoch' = [epoch EXCEPT ![rd.ch] = @ + 1]
  BY DEF ReadReply, RecordUnsafeOutput
<1> QED BY <1>1 DEF ReadReply, wire, plant, EvidenceTypes, TaskTypes

LEMMA TokenPreserved ==
  ASSUME TypeOK, SequenceInv, TokenInv, Steps
  PROVE  TokenInv'
<1> USE TaskNames
<1>0. EvidenceTypes /\ LifecycleTypes /\ TaskTypes /\ op \in [OffOwners -> Ops]
  BY TypeParts DEF TaskTypes
<1>t. \A x \in OffOwners : op[x].chans \subseteq Channels /\ op[x].tok \in [Channels -> Nat]
  BY <1>0 DEF Ops
<1>e. \A c \in Channels : epoch[c] \in Nat /\ startToken[c] \in Nat
  BY <1>0 DEF EvidenceTypes
<1>1. CASE PlainSteps
  BY <1>1, PlainFrame DEF TokenInv
<1>2. CASE ReadReply
  BY <1>0, <1>2, <1>t, <1>e, ReadReplyEpochs DEF TokenInv
<1>3. CASE ConnectBegin
  <2>1. UNCHANGED op /\ UNCHANGED start /\ \A c \in Channels : epoch'[c] = epoch[c] + 1 /\ startToken'[c] = 0 /\ startToken[c] = 0
    BY <1>3 DEF ConnectBegin
  <2> QED BY <2>1, <1>t, <1>e DEF TokenInv
<1>4. ASSUME NEW o \in OffOwners, OffStep(o) PROVE TokenInv'
  <2>1. OffFrame(o)
    BY <1>4, OffStepFrame
  <2> QED BY <2>1 DEF OffFrame, SameClaim, TokenInv
<1>5. ASSUME NEW o \in OffOwners, Ends(o) PROVE TokenInv'
  <2>1. op'[o].chans = {} /\ UNCHANGED epoch /\ \A x \in OffOwners \ {o} : op'[x] = op[x]
    BY <1>0, <1>5, EndsFrame, NoOpTyped
  <2>2. \/ UNCHANGED <<startToken, start>>
        \/ /\ o \in Channels /\ startToken' = [startToken EXCEPT ![o] = 0] /\ start' = [start EXCEPT ![o] = "idle"]
    BY <1>5 DEF Ends, OffReturn, StartCleanupDone, ConnectOffDone, DisconnectOffDone
  <2>3. \A c \in Channels : startToken'[c] =< epoch'[c] /\ (startToken'[c] # 0 <=> start'[c] # "idle")
    BY <1>0, <1>e, <2>1, <2>2 DEF TokenInv, EvidenceTypes, TaskTypes
  <2>4. \A c \in Channels : startToken'[c] \in {startToken[c], 0}
    BY <1>0, <2>2 DEF EvidenceTypes
  <2> QED BY <1>t, <2>1, <2>3, <2>4 DEF TokenInv
<1>6. ASSUME NEW o \in OffOwners, NEW C \in SUBSET Channels, Begins(o, C) PROVE TokenInv'
  <2>1. PICK q : Claims(o, C, q)
    BY <1>6 DEF Begins
  <2>2. /\ op'[o].chans = C /\ \A c \in C : op'[o].tok[c] = epoch[c] + 1
        /\ \A x \in OffOwners \ {o} : op'[x] = op[x]
    BY <1>0, <2>1 DEF Claims
  <2>3. UNCHANGED startToken /\ \A c \in Channels : epoch'[c] = IF c \in C THEN epoch[c] + 1 ELSE epoch[c]
    BY <1>6 DEF Begins
  <2>4. \A c \in Channels : start'[c] # "idle" <=> start[c] # "idle"
    BY <1>0, <1>6 DEF Begins, Issuing, TaskTypes
  <2> QED BY <1>t, <1>e, <2>2, <2>3, <2>4 DEF TokenInv
<1>7. ASSUME NEW c \in Channels, StartBegin(c) PROVE TokenInv'
  <2>1. /\ UNCHANGED op /\ start[c] = "idle" /\ start'[c] = "configure"
        /\ epoch'[c] = epoch[c] + 1 /\ startToken'[c] = epoch[c] + 1
        /\ \A d \in Channels \ {c} : epoch'[d] = epoch[d] /\ startToken'[d] = startToken[d] /\ start'[d] = start[d]
    BY <1>0, <1>7 DEF StartBegin, EvidenceTypes, TaskTypes
  <2> QED BY <1>t, <1>e, <2>1 DEF TokenInv
<1>8. ASSUME NEW c \in Channels, StartProceeds(c) PROVE TokenInv'
  <2>1. UNCHANGED <<op, epoch>> /\ \A d \in Channels \ {c} : startToken'[d] = startToken[d] /\ start'[d] = start[d]
    BY <1>0, <1>8 DEF StartProceeds, EvidenceTypes, TaskTypes
  <2>2. \/ startToken'[c] = startToken[c] /\ start[c] # "idle" /\ start'[c] # "idle"
        \/ startToken'[c] = 0 /\ start'[c] = "idle"
    BY <1>0, <1>8 DEF StartProceeds, EvidenceTypes, TaskTypes
  <2> QED BY <1>t, <1>e, <2>1, <2>2 DEF TokenInv
<1> QED BY <1>1, <1>2, <1>3, <1>4, <1>5, <1>6, <1>7, <1>8, StepGroups

\* The depth counts the holders: one more when a sequence begins, one less when it ends.
LEMMA DepthPreserved ==
  ASSUME TypeOK, SequenceInv, DepthInv, Steps
  PROVE  DepthInv'
<1> USE TaskNames
<1>0. EvidenceTypes /\ TaskTypes /\ op \in [OffOwners -> Ops]
  BY TypeParts DEF TaskTypes
<1>s. ASSUME UNCHANGED offDepth, \A o \in OffOwners : op'[o].chans = op[o].chans PROVE DepthInv'
  <2>1. \A c \in Channels : OffHolders(c)' = OffHolders(c)
    BY <1>s DEF OffHolders
  <2> QED BY <1>s, <2>1 DEF DepthInv
<1>1. CASE PlainSteps
  BY <1>1, <1>s, PlainFrame
<1>2. CASE ReadReply
  BY <1>0, <1>2, <1>s, ReadReplyEpochs
<1>3. CASE ConnectBegin \/ \E c \in Channels : StartBegin(c) \/ StartProceeds(c)
  BY <1>3, <1>s DEF ConnectBegin, StartBegin, StartProceeds
<1>4. ASSUME NEW o \in OffOwners, OffStep(o) PROVE DepthInv'
  <2>1. OffFrame(o)
    BY <1>4, OffStepFrame
  <2> QED BY <1>s, <2>1 DEF OffFrame, SameClaim
<1>5. ASSUME NEW o \in OffOwners, Ends(o) PROVE DepthInv'
  <2>1. op'[o].chans = {} /\ FinishOff(o) /\ \A x \in OffOwners \ {o} : op'[x] = op[x]
    BY <1>0, <1>5, EndsFrame, NoOpTyped
  <2>2. SUFFICES ASSUME NEW c \in Channels
                 PROVE  IsFiniteSet(OffHolders(c)') /\ Cardinality(OffHolders(c)') = offDepth'[c]
    BY DEF DepthInv
  <2>3. IsFiniteSet(OffHolders(c)) /\ Cardinality(OffHolders(c)) = offDepth[c] /\ offDepth[c] \in Nat
    BY <1>0 DEF DepthInv, EvidenceTypes
  <2>4. offDepth'[c] = IF c \in op[o].chans /\ offDepth[c] > 0 THEN offDepth[c] - 1 ELSE offDepth[c]
    BY <2>1 DEF FinishOff
  <2>5. CASE c \in op[o].chans
    <3>1. OffHolders(c)' = OffHolders(c) \ {o} /\ o \in OffHolders(c)
      BY <2>1, <2>5 DEF OffHolders
    <3>2. /\ IsFiniteSet(OffHolders(c) \ {o}) /\ Cardinality(OffHolders(c) \ {o}) = Cardinality(OffHolders(c)) - 1
      BY <2>3, <3>1, FS_RemoveElement
    <3>3. IsFiniteSet(OffHolders(c)') /\ Cardinality(OffHolders(c)') = offDepth[c] - 1
      BY <2>3, <3>1, <3>2
    <3>4. offDepth[c] > 0
      <4>1. Cardinality(OffHolders(c) \ {o}) \in Nat
        BY <3>2, FS_CardinalityType
      <4> QED BY <2>3, <3>2, <4>1
    <3> QED BY <2>4, <2>5, <3>3, <3>4
  <2>6. CASE c \notin op[o].chans
    <3>1. OffHolders(c)' = OffHolders(c)
      BY <2>1, <2>6 DEF OffHolders
    <3> QED BY <2>3, <2>4, <2>6, <3>1
  <2> QED BY <2>5, <2>6
<1>6. ASSUME NEW o \in OffOwners, NEW C \in SUBSET Channels, Begins(o, C) PROVE DepthInv'
  <2>1. PICK q : Claims(o, C, q)
    BY <1>6 DEF Begins
  <2>2. op'[o].chans = C /\ (\A x \in OffOwners \ {o} : op'[x] = op[x]) /\ op[o].chans = {}
    BY <1>0, <1>6, <2>1, NoOpTyped DEF Claims, Begins, SequenceInv, Visiting
  <2>3. SUFFICES ASSUME NEW c \in Channels
                 PROVE  IsFiniteSet(OffHolders(c)') /\ Cardinality(OffHolders(c)') = offDepth'[c]
    BY DEF DepthInv
  <2>4. IsFiniteSet(OffHolders(c)) /\ Cardinality(OffHolders(c)) = offDepth[c]
    BY <1>0 DEF DepthInv
  <2>5. offDepth'[c] = IF c \in C THEN offDepth[c] + 1 ELSE offDepth[c]
    BY <1>6 DEF Begins
  <2>6. CASE c \in C
    <3>1. OffHolders(c)' = OffHolders(c) \cup {o} /\ o \notin OffHolders(c)
      BY <2>2, <2>6 DEF OffHolders
    <3>2. IsFiniteSet(OffHolders(c) \cup {o}) /\ Cardinality(OffHolders(c) \cup {o}) = Cardinality(OffHolders(c)) + 1
      BY <2>4, <3>1, FS_AddElement
    <3> QED BY <2>4, <2>5, <2>6, <3>1, <3>2
  <2>7. CASE c \notin C
    <3>1. OffHolders(c)' = OffHolders(c)
      BY <2>2, <2>7 DEF OffHolders
    <3> QED BY <2>4, <2>5, <2>7, <3>1
  <2> QED BY <2>6, <2>7
<1> QED BY <1>1, <1>2, <1>3, <1>4, <1>5, <1>6, StepGroups

(***************************************************************************)
(* Who has a command with the transport.                                   *)
(***************************************************************************)

\* A reply takes the place of the request.
LEMMA ServedBusy ==
  ASSUME WireTypes, NEW t, NEW r, Served(t, r)
  PROVE  /\ \A u \in Tasks : Busy(u)' <=> Busy(u)
         /\ \A u \in Tasks \ {t} : reply'[u] = reply[u]
         /\ reply'[t] = r /\ t \notin waiting' /\ t \in Tasks
BY DEF Served, WireTypes, Busy

LEMMA EnqueueBusy ==
  ASSUME WireTypes, NEW t \in Tasks, Enqueue(t)
  PROVE  t \in waiting' /\ \A u \in Tasks \ {t} : u \in waiting' <=> u \in waiting
BY DEF Enqueue, WireTypes

\* What coroutine o with reply r is doing while the transport answers it.
LEMMA ExecuteEffect ==
  ASSUME TypeOK, WireInv, SequenceInv, Execute
  PROVE  \E t, r :
           /\ Served(t, r)
           /\ t \in Channels /\ start[t] \in {"configure", "on"} => r \in {"ok", "raised"}
           /\ t \in OffOwners /\ op[t].pc = "write" => r \in {"ok", "raised"}
<1> USE TaskNames
<1>1. PICK r : \/ \E c \in Channels : ServesConfigure(c, r) \/ ServesOn(c, r) \/ ServesReadback(c, r)
               \/ ServesPoll(r) \/ ServesLevel(r)
               \/ \E o \in OffOwners : (\E c \in op[o].cur : ServesOff(o, c, r)) \/ ServesChallenge(o, r)
               \/ ServesClose(r)
  BY ExecuteServes
<1>2. ASSUME NEW c \in Channels, ServesConfigure(c, r) \/ ServesOn(c, r) \/ ServesReadback(c, r)
      PROVE  /\ Served(c, r) /\ (start[c] \in {"configure", "on"} => r \in {"ok", "raised"})
             /\ op[c].pc # "write"
  BY <1>2 DEF ServesConfigure, ServesOn, ServesReadback, SequenceInv, Visiting
<1>3. ASSUME NEW o \in OffOwners, (\E c \in op[o].cur : ServesOff(o, c, r)) \/ ServesChallenge(o, r)
      PROVE  /\ Served(o, r) /\ (op[o].pc = "write" => r \in {"ok", "raised"})
             /\ (o \in Channels => start[o] = "cleanup")
  BY <1>3 DEF ServesOff, ServesChallenge, SequenceInv, Visiting
<1>4. ASSUME ServesPoll(r) \/ ServesLevel(r) PROVE Served("reader", r)
  BY <1>4 DEF ServesPoll, ServesLevel
<1>5. ASSUME ServesClose(r) PROVE Served("life", r) /\ op["life"].pc = "idle"
  BY <1>5 DEF ServesClose, SequenceInv, Visiting
<1> QED BY <1>1, <1>2, <1>3, <1>4, <1>5

\* The other plain steps touch the wire for one coroutine only.
LEMMA PlainWire ==
  ASSUME TypeOK, WireInv, PlainSteps, ~Execute
  PROVE  \/ UNCHANGED <<waiting, ahead, reply, ioOwner, life>> /\ (rd.pc # "idle" => rd'.pc = rd.pc)
         \/ \E c \in Channels : StartQueues(c)
         \/ /\ rd.pc # "idle" /\ ~Busy("reader") /\ ioOwner = "none" /\ UNCHANGED <<reply, life>>
            /\ \/ ioOwner' = "reader" /\ Enqueue("reader") /\ UNCHANGED rd
               \/ UNCHANGED <<ioOwner, waiting, ahead>>
         \/ /\ UNCHANGED <<ioOwner, rd>> /\ life \notin {"connect_off", "disconnect_off"}
            /\ \/ /\ life \in {"idle", "opening", "connect_tail"} /\ Enqueue("life")
                  /\ life' \in {"settling", "failed_close", "closing"} /\ UNCHANGED reply
               \/ UNCHANGED <<waiting, ahead, reply>> /\ life = "connect_tail" /\ life' = "idle"
               \/ /\ reply["life"] # "none" /\ reply' = [reply EXCEPT !["life"] = "none"]
                  /\ life' = "idle" /\ UNCHANGED <<waiting, ahead>>
<1> USE DEF wire
<1>1. CASE OffUnavailable \/ \E c \in Channels : FrontPanelOn(c) \/ StartQueues(c) \/ ReadBegin(c)
  BY <1>1 DEF OffUnavailable, FrontPanelOn, ReadBegin
<1>2. CASE ReadIssue
  BY <1>2 DEF ReadIssue, Busy
<1>3. CASE ConnectSettle \/ ConnectOpenFailed \/ DisconnectProved
  BY <1>3 DEF ConnectSettle, ConnectOpenFailed, DisconnectProved, FailedConnectCloses
<1>4. CASE ConnectSettled \/ FailedConnectClosed \/ Disconnected
  BY <1>4 DEF ConnectSettled, FailedConnectClosed, Disconnected
<1>5. CASE ConnectSucceeds \/ ConnectTailFailed
  BY <1>5 DEF ConnectSucceeds, ConnectTailFailed, ConnectRaises, FailedConnectCloses
<1> QED BY <1>1, <1>2, <1>3, <1>4, <1>5 DEF PlainSteps

\* A step outside the OFF sequences leaves them where they are.
LEMMA SequenceKept ==
  ASSUME SequenceInv, UNCHANGED op,
         \A c \in Channels : start'[c] = "cleanup" <=> start[c] = "cleanup",
         life' = life \/ (life \notin {"connect_off", "disconnect_off"} /\ life' \notin {"connect_off", "disconnect_off"}),
         \A o \in OffOwners : op[o].pc # "idle" =>
           (Busy(o)' <=> Busy(o)) /\ (op[o].pc = "write" => reply'[o] \in {"none", "ok", "raised"})
  PROVE  SequenceInv'
<1>1. \A o \in OffOwners : op[o].pc = "idle" => op[o].cur = {}
  BY NoOpTyped DEF SequenceInv, Visiting
<1>2. \A o \in OffOwners : op[o].cur # {} => Busy(o)' /\ op[o].pc \in {"write", "read"}
  BY <1>1 DEF SequenceInv, Visiting
<1>3. \A o \in OffOwners : op[o].pc # "idle" /\ Busy(o)' => \E c \in Channels : op[o].cur = {c}
  BY DEF SequenceInv, Visiting
<1> QED BY <1>2, <1>3 DEF SequenceInv, Visiting

LEMMA PlainSequence ==
  ASSUME TypeOK, WireInv, SequenceInv, PlainSteps
  PROVE  SequenceInv'
<1> USE TaskNames
<1>0. EvidenceTypes /\ TaskTypes /\ WireTypes /\ op \in [OffOwners -> Ops]
  BY TypeParts DEF TaskTypes
<1>1. UNCHANGED <<op, start>>
  BY PlainFrame
<1>2. CASE Execute
  <2>1. PICK t, r : /\ Served(t, r)
                    /\ t \in OffOwners /\ op[t].pc = "write" => r \in {"ok", "raised"}
    BY <1>2, ExecuteEffect
  <2>2. \A o \in OffOwners : (Busy(o)' <=> Busy(o)) /\ (op[o].pc = "write" => reply'[o] \in {"none", "ok", "raised"})
    BY <1>0, <2>1, ServedBusy DEF SequenceInv, Visiting
  <2>3. life' = life
    BY <2>1 DEF Served
  <2> QED BY <1>1, <2>2, <2>3, SequenceKept
<1>3. CASE ~Execute
  <2>1. ASSUME UNCHANGED <<waiting, ahead, reply, ioOwner, life>> PROVE SequenceInv'
    <3>1. \A o \in OffOwners : (Busy(o)' <=> Busy(o)) /\ (op[o].pc = "write" => reply'[o] \in {"none", "ok", "raised"})
      BY <2>1 DEF SequenceInv, Visiting, Busy
    <3> QED BY <1>1, <2>1, <3>1, SequenceKept
  <2>2. ASSUME NEW c \in Channels, StartQueues(c) PROVE SequenceInv'
    <3>1. Enqueue(c) /\ UNCHANGED <<reply, life>> /\ op[c].pc = "idle"
      BY <2>2 DEF StartQueues, SequenceInv, Visiting, Issuing
    <3>2. \A o \in OffOwners : op[o].pc # "idle" =>
            (Busy(o)' <=> Busy(o)) /\ (op[o].pc = "write" => reply'[o] \in {"none", "ok", "raised"})
      BY <1>0, <3>1, EnqueueBusy DEF SequenceInv, Visiting, Busy
    <3> QED BY <1>1, <3>1, <3>2, SequenceKept
  <2>3. ASSUME UNCHANGED <<reply, life>>, Enqueue("reader") \/ UNCHANGED waiting PROVE SequenceInv'
    <3>1. \A o \in OffOwners : (Busy(o)' <=> Busy(o)) /\ (op[o].pc = "write" => reply'[o] \in {"none", "ok", "raised"})
      BY <1>0, <2>3, EnqueueBusy DEF SequenceInv, Visiting, Busy
    <3> QED BY <1>1, <2>3, <3>1, SequenceKept
  <2>4. ASSUME life \notin {"connect_off", "disconnect_off"}, life' \in {"settling", "failed_close", "closing", "idle"},
               \/ Enqueue("life") /\ UNCHANGED reply
               \/ UNCHANGED waiting /\ (reply' = reply \/ reply' = [reply EXCEPT !["life"] = "none"])
        PROVE  SequenceInv'
    <3>1. op["life"].pc = "idle"
      BY <2>4 DEF SequenceInv, Visiting
    <3>2. \A t \in Tasks \ {"life"} : reply'[t] = reply[t] /\ (t \in waiting' <=> t \in waiting)
      BY <1>0, <2>4, EnqueueBusy DEF WireTypes
    <3>3. \A o \in OffOwners : op[o].pc # "idle" =>
            (Busy(o)' <=> Busy(o)) /\ (op[o].pc = "write" => reply'[o] \in {"none", "ok", "raised"})
      BY <3>1, <3>2 DEF SequenceInv, Visiting, Busy
    <3> QED BY <1>1, <2>4, <3>3, SequenceKept
  <2> QED BY <1>3, <2>1, <2>2, <2>3, <2>4, PlainWire
<1> QED BY <1>2, <1>3

\* A sequence goes from target to target.
LEMMA OffStepSequence ==
  ASSUME TypeOK, WireInv, SequenceInv, NEW o \in OffOwners, OffStep(o)
  PROVE  SequenceInv'
<1> USE TaskNames
<1>0. /\ TaskTypes /\ WireTypes /\ op \in [OffOwners -> Ops]
      /\ reply \in [Tasks -> {"none", "ok", "raised", "on", "off", "bad"}] /\ waiting \subseteq Tasks
  BY TypeParts DEF TaskTypes, WireTypes
<1>1. OffFrame(o)
  BY OffStepFrame
<1>2. /\ op[o].todo \subseteq op[o].chans /\ op[o].cur \subseteq op[o].chans \ op[o].todo
      /\ (op[o].cur = {} => ~Busy(o)) /\ op[o].pc \in {"write", "read"}
  <2>1. op[o].pc \in {"write", "read"}
    BY DEF OffStep, OffIssue, OffUnverifiable, OffWriteReply, OffReadReply
  <2> QED BY <2>1 DEF SequenceInv, Visiting
<1>3. Visiting(o)'
  <2>1. ASSUME NEW c, NEW failed, NEW ok, Settles(o, c, failed, ok), ~Busy(o)', reply'[o] = "none"
        PROVE  Visiting(o)'
    BY <1>0, <1>2, <2>1, SettlesFields DEF SameClaim, Visiting
  <2>2. CASE OffIssue(o)
    <3>1. PICK c \in op[o].todo, q \in Ops :
            /\ op' = [op EXCEPT ![o] = q] /\ SameClaim(q, op[o]) /\ q.pc = op[o].pc
            /\ q.cur = {c} /\ q.todo = op[o].todo \ {c}
      BY <1>0, <2>2, OffIssueFields
    <3>2. op'[o] = q /\ c \in Channels
      BY <1>0, <1>2, <3>1 DEF Ops
    <3>3. Busy(o)' /\ reply'[o] = "none"
      BY <1>0, <1>2, <2>2, EnqueueBusy DEF OffIssue, Busy
    <3> QED BY <1>2, <3>1, <3>2, <3>3 DEF SameClaim, Visiting
  <2>3. CASE OffUnverifiable(o)
    <3>1. ~Busy(o)' /\ reply'[o] = "none"
      BY <1>2, <2>3 DEF OffUnverifiable, Busy, wire
    <3> QED BY <1>0, <2>1, <2>3, <3>1, OffUnverifiableSettles
  <2>4. CASE OffWriteReply(o) \/ OffReadReply(o)
    <3>1. reply[o] # "none" /\ reply' = [reply EXCEPT ![o] = "none"] /\ waiting' = waiting
      BY <2>4 DEF OffWriteReply, OffReadReply, wire
    <3>2. ~Busy(o)' /\ reply'[o] = "none"
      BY <1>0, <3>1 DEF Busy, WireInv
    <3>3. PICK c, failed, ok : Settles(o, c, failed, ok)
      BY <1>0, <2>4, OffWriteReplySettles, OffReadReplySettles
    <3> QED BY <2>1, <3>2, <3>3
  <2> QED BY <2>2, <2>3, <2>4 DEF OffStep
<1>4. ASSUME NEW x \in OffOwners \ {o}
      PROVE  op'[x] = op[x] /\ (Busy(x)' <=> Busy(x)) /\ reply'[x] = reply[x]
  BY <1>1 DEF OffFrame, Busy
<1>5. op[o].pc # "idle" /\ op'[o].pc # "idle" /\ op'[o].chans = op[o].chans /\ UNCHANGED <<start, life>>
  BY <1>1 DEF OffFrame, SameClaim
<1>6. /\ \A c \in Channels : op'[c].pc # "idle" <=> start'[c] = "cleanup"
      /\ op'["life"].pc # "idle" <=> life' \in {"connect_off", "disconnect_off"}
      /\ life' \in {"connect_off", "disconnect_off"} => op'["life"].chans = Channels
  <2>1. \A x \in OffOwners : (op'[x].pc # "idle" <=> op[x].pc # "idle") /\ op'[x].chans = op[x].chans
    BY <1>4, <1>5
  <2> QED BY <1>5, <2>1 DEF SequenceInv, Visiting
<1>7. ASSUME NEW x \in OffOwners \ {o} PROVE Visiting(x)'
  BY <1>4 DEF SequenceInv, Visiting
<1> QED BY <1>3, <1>6, <1>7 DEF SequenceInv

\* A sequence that has settled has nothing left with the transport.
LEMMA SettledNotBusy ==
  ASSUME SequenceInv, NEW o \in OffOwners, op[o].pc = "settled"
  PROVE  ~Busy(o)
BY DEF SequenceInv, Visiting

LEMMA SequencePreserved ==
  ASSUME TypeOK, WireInv, SequenceInv, Steps
  PROVE  SequenceInv'
<1> USE TaskNames
<1>0. /\ TaskTypes /\ WireTypes /\ op \in [OffOwners -> Ops]
      /\ reply \in [Tasks -> {"none", "ok", "raised", "on", "off", "bad"}] /\ waiting \subseteq Tasks
      /\ start \in [Channels -> {"idle", "configure", "on", "readback", "cleanup"}]
  BY TypeParts DEF TaskTypes, WireTypes
<1>1. CASE PlainSteps
  BY <1>1, PlainSequence
<1>2. CASE ReadReply
  <2>1. UNCHANGED <<op, start, life, waiting>> /\ reply' = [reply EXCEPT !["reader"] = "none"]
    BY <1>2 DEF ReadReply, wire
  <2>2. \A o \in OffOwners : (Busy(o)' <=> Busy(o)) /\ (op[o].pc = "write" => reply'[o] \in {"none", "ok", "raised"})
    BY <1>0, <2>1 DEF SequenceInv, Visiting, Busy
  <2> QED BY <2>1, <2>2, SequenceKept
<1>3. CASE ConnectBegin
  <2>1. UNCHANGED <<op, start, waiting, reply>> /\ life = "idle" /\ life' = "opening"
    BY <1>3 DEF ConnectBegin, wire
  <2>2. \A o \in OffOwners : (Busy(o)' <=> Busy(o)) /\ (op[o].pc = "write" => reply'[o] \in {"none", "ok", "raised"})
    BY <1>0, <2>1 DEF SequenceInv, Visiting, Busy
  <2> QED BY <2>1, <2>2, SequenceKept
<1>4. ASSUME NEW c \in Channels, StartBegin(c) \/ StartProceeds(c) PROVE SequenceInv'
  <2>1. UNCHANGED <<op, life, waiting>> /\ reply' \in {reply, [reply EXCEPT ![c] = "none"]}
    BY <1>4 DEF StartBegin, StartProceeds, wire
  <2>2. start[c] # "cleanup" /\ \A d \in Channels : start'[d] = "cleanup" <=> start[d] = "cleanup"
    BY <1>0, <1>4 DEF StartBegin, StartProceeds, Issuing
  <2>3. op[c].pc = "idle"
    BY <2>2 DEF SequenceInv, Visiting
  <2>4. \A o \in OffOwners : op[o].pc # "idle" => reply'[o] = reply[o]
    BY <1>0, <2>1, <2>3
  <2>5. \A o \in OffOwners : op[o].pc # "idle" =>
           (Busy(o)' <=> Busy(o)) /\ (op[o].pc = "write" => reply'[o] \in {"none", "ok", "raised"})
    BY <2>1, <2>4 DEF SequenceInv, Visiting, Busy
  <2> QED BY <2>1, <2>2, <2>5, SequenceKept
<1>5. ASSUME NEW o \in OffOwners, OffStep(o) PROVE SequenceInv'
  BY <1>5, OffStepSequence
<1>6. ASSUME NEW o \in OffOwners, Ends(o) PROVE SequenceInv'
  <2>1. op'[o] = NoOp /\ op[o].pc = "settled" /\ UNCHANGED reply /\ \A x \in OffOwners \ {o} : op'[x] = op[x]
    BY <1>0, <1>6, EndsFrame
  <2>2. \A t \in Tasks \ {o} : t \in waiting' <=> t \in waiting
    <3>1. UNCHANGED waiting \/ (o = "life" /\ Enqueue("life"))
      BY <1>6 DEF Ends, OffReturn, StartCleanupDone, ConnectOffDone, DisconnectOffDone, wire
    <3> QED BY <1>0, <3>1, EnqueueBusy
  <2>3. \A x \in OffOwners \ {o} : Visiting(x)'
    BY <2>1, <2>2 DEF SequenceInv, Visiting, Busy
  <2>4. Visiting(o)'
    BY <2>1, NoOpTyped DEF Visiting
  <2>5. \/ o \in Callers /\ UNCHANGED <<start, life>>
        \/ o \in Channels /\ start' = [start EXCEPT ![o] = "idle"] /\ UNCHANGED life
        \/ o = "life" /\ life' \in {"idle", "connect_tail", "closing"} /\ UNCHANGED start
    BY <1>6 DEF Ends, OffReturn, StartCleanupDone, ConnectOffDone, DisconnectOffDone
  <2>6. op'[o].pc = "idle"
    BY <2>1, NoOpTyped
  <2>7. /\ \A c \in Channels : op'[c].pc # "idle" <=> start'[c] = "cleanup"
        /\ op'["life"].pc # "idle" <=> life' \in {"connect_off", "disconnect_off"}
        /\ life' \in {"connect_off", "disconnect_off"} => op'["life"].chans = Channels
    <3>1. CASE o \in Callers
      BY <2>1, <2>5, <3>1 DEF SequenceInv
    <3>2. CASE o \in Channels
      BY <1>0, <2>1, <2>5, <2>6, <3>2 DEF SequenceInv
    <3>3. CASE o = "life"
      BY <1>0, <2>1, <2>5, <2>6, <3>3 DEF SequenceInv
    <3> QED BY <2>5, <3>1, <3>2, <3>3
  <2> QED BY <2>3, <2>4, <2>7 DEF SequenceInv
<1>7. ASSUME NEW o \in OffOwners, NEW C \in SUBSET Channels, Begins(o, C) PROVE SequenceInv'
  <2>1. PICK q : Claims(o, C, q)
    BY <1>7 DEF Begins
  <2>2. /\ op'[o] = q /\ \A x \in OffOwners \ {o} : op'[x] = op[x]
        /\ q.pc = "write" /\ q.chans = C /\ q.todo = C /\ q.cur = {}
    BY <1>0, <2>1 DEF Claims
  <2>3. UNCHANGED waiting /\ (reply' = reply \/ (o \in Channels /\ reply' = [reply EXCEPT ![o] = "none"]))
    BY <1>7 DEF Begins
  <2>4. ~Busy(o)' /\ reply'[o] = "none"
    <3>1. CASE o \in Callers \/ o = "life"
      BY <1>0, <1>7, <3>1 DEF Begins, WireInv, Busy
    <3>2. CASE o \in Channels
      BY <1>0, <1>7, <3>2 DEF Begins, Busy
    <3> QED BY <1>7, <3>1, <3>2 DEF Begins
  <2>5. \A x \in OffOwners \ {o} : Visiting(x)'
    BY <1>0, <2>2, <2>3 DEF SequenceInv, Visiting, Busy
  <2>6. Visiting(o)'
    BY <2>2, <2>4 DEF Visiting
  <2>7. \/ o \in Callers /\ UNCHANGED <<start, life>>
        \/ o \in Channels /\ start' = [start EXCEPT ![o] = "cleanup"] /\ UNCHANGED life
        \/ o = "life" /\ life' \in {"connect_off", "disconnect_off"} /\ C = Channels /\ UNCHANGED start
    BY <1>7 DEF Begins
  <2>8. /\ \A c \in Channels : op'[c].pc # "idle" <=> start'[c] = "cleanup"
        /\ op'["life"].pc # "idle" <=> life' \in {"connect_off", "disconnect_off"}
        /\ life' \in {"connect_off", "disconnect_off"} => op'["life"].chans = Channels
    <3>1. CASE o \in Callers
      BY <2>2, <2>7, <3>1 DEF SequenceInv
    <3>2. CASE o \in Channels
      BY <1>0, <2>2, <2>7, <3>2 DEF SequenceInv
    <3>3. CASE o = "life"
      BY <1>0, <2>2, <2>7, <3>3 DEF SequenceInv
    <3> QED BY <2>7, <3>1, <3>2, <3>3
  <2> QED BY <2>5, <2>6, <2>8 DEF SequenceInv
<1> QED BY <1>1, <1>2, <1>3, <1>4, <1>5, <1>6, <1>7, StepGroups

\* One coroutine's command comes or goes, and with it its hold on the wire.
LEMMA WireKept ==
  ASSUME WireInv, NEW t \in Tasks,
         \A u \in Tasks \ {t} : reply'[u] = reply[u] /\ (u \in waiting' <=> u \in waiting),
         reply'[t] # "none" => t \notin waiting',
         \A c \in Channels \ {t} : start'[c] = start[c] /\ (ioOwner' = c <=> ioOwner = c),
         t \in Channels =>
           /\ ioOwner' = t <=> start'[t] \in Issuing /\ Busy(t)'
           /\ start'[t] = "idle" => ~Busy(t)'
           /\ start'[t] \in {"configure", "on"} => reply'[t] \in {"none", "ok", "raised"},
         t = "reader" \/ ((ioOwner' = "reader" <=> ioOwner = "reader") /\ (rd'.pc = "idle" => rd.pc = "idle")),
         t = "reader" => (ioOwner' = "reader" <=> Busy(t)') /\ (rd'.pc = "idle" => ~Busy(t)'),
         t = "life" \/ life' = life \/ (life \in {"idle", "opening", "connect_tail"} /\ life' \in {"idle", "opening", "connect_tail", "disconnect_off", "connect_off"}),
         t = "life" => (life' \in {"idle", "opening", "connect_tail"} => ~Busy(t)'),
         \A o \in Callers \ {t} : op'[o].pc = "idle" => op[o].pc = "idle",
         t \in Callers => (op'[t].pc = "idle" => ~Busy(t)')
  PROVE  WireInv'
<1> USE TaskNames
<1>1. \A u \in Tasks \ {t} : Busy(u)' <=> Busy(u)
  BY DEF Busy
<1>2. \A u \in Tasks : reply'[u] # "none" => u \notin waiting'
  BY DEF WireInv
<1>3. ASSUME NEW c \in Channels
      PROVE  /\ ioOwner' = c <=> start'[c] \in Issuing /\ Busy(c)'
             /\ start'[c] = "idle" => ~Busy(c)'
             /\ start'[c] \in {"configure", "on"} => reply'[c] \in {"none", "ok", "raised"}
  BY <1>1 DEF WireInv
<1>4. (ioOwner' = "reader" <=> Busy("reader")') /\ (rd'.pc = "idle" => ~Busy("reader")')
  BY <1>1 DEF WireInv
<1>5. life' \in {"idle", "opening", "connect_tail"} => ~Busy("life")'
  BY <1>1 DEF WireInv
<1>6. \A o \in Callers : op'[o].pc = "idle" => ~Busy(o)'
  BY <1>1 DEF WireInv
<1> QED BY <1>2, <1>3, <1>4, <1>5, <1>6 DEF WireInv

LEMMA PlainWirePreserved ==
  ASSUME TypeOK, WireInv, SequenceInv, PlainSteps
  PROVE  WireInv'
<1> USE TaskNames
<1>0. WireTypes /\ waiting \subseteq Tasks /\ reply \in [Tasks -> {"none", "ok", "raised", "on", "off", "bad"}]
  BY TypeParts DEF WireTypes
<1>1. UNCHANGED <<op, start>>
  BY PlainFrame
<1>2. CASE Execute
  <2>1. PICK t, r : /\ Served(t, r)
                    /\ t \in Channels /\ start[t] \in {"configure", "on"} => r \in {"ok", "raised"}
    BY <1>2, ExecuteEffect
  <2>2. UNCHANGED <<ioOwner, rd, life>>
    BY <2>1 DEF Served
  <2>3. /\ \A u \in Tasks : Busy(u)' <=> Busy(u)
        /\ \A u \in Tasks \ {t} : reply'[u] = reply[u]
        /\ reply'[t] = r /\ t \notin waiting' /\ t \in Tasks
    BY <1>0, <2>1, ServedBusy
  <2>4. \A u \in Tasks : reply'[u] # "none" => u \notin waiting'
    BY <2>1, <2>3 DEF WireInv, Served
  <2>5. \A c \in Channels : start'[c] \in {"configure", "on"} => reply'[c] \in {"none", "ok", "raised"}
    BY <1>1, <2>1, <2>3 DEF WireInv
  <2>6. /\ (ioOwner' = "reader" <=> Busy("reader")') /\ (rd'.pc = "idle" => ~Busy("reader")')
        /\ life' \in {"idle", "opening", "connect_tail"} => ~Busy("life")'
        /\ \A o \in Callers : op'[o].pc = "idle" => ~Busy(o)'
        /\ \A c \in Channels : /\ ioOwner' = c <=> start'[c] \in Issuing /\ Busy(c)'
                               /\ start'[c] = "idle" => ~Busy(c)'
    BY <1>1, <2>2, <2>3 DEF WireInv
  <2> QED BY <2>4, <2>5, <2>6 DEF WireInv
<1>3. CASE ~Execute
  <2>1. CASE UNCHANGED <<waiting, ahead, reply, ioOwner, life>> /\ (rd.pc # "idle" => rd'.pc = rd.pc)
    BY <1>1, <2>1 DEF WireInv, Busy
  <2>2. ASSUME NEW c \in Channels, StartQueues(c) PROVE WireInv'
    <3>1. /\ start[c] \in Issuing /\ ~Busy(c) /\ ioOwner = "none" /\ ioOwner' = c /\ Enqueue(c)
          /\ UNCHANGED <<reply, rd, life>>
      BY <2>2 DEF StartQueues
    <3>2. c \in waiting' /\ \A u \in Tasks \ {c} : u \in waiting' <=> u \in waiting
      BY <1>0, <3>1, EnqueueBusy
    <3>3. reply'[c] = "none" /\ Busy(c)'
      BY <3>1, <3>2 DEF Busy
    <3>4. start'[c] \in Issuing /\ start'[c] # "idle"
      BY <1>1, <3>1 DEF Issuing
    <3> QED BY <1>1, <3>1, <3>2, <3>3, <3>4, WireKept
  <2>3. CASE /\ rd.pc # "idle" /\ ~Busy("reader") /\ ioOwner = "none" /\ UNCHANGED <<reply, life>>
             /\ ioOwner' = "reader" /\ Enqueue("reader") /\ UNCHANGED rd
    <3>1. "reader" \in waiting' /\ \A u \in Tasks \ {"reader"} : u \in waiting' <=> u \in waiting
      BY <1>0, <2>3, EnqueueBusy
    <3>2. reply'["reader"] = "none" /\ Busy("reader")'
      BY <2>3, <3>1 DEF Busy
    <3> QED BY <1>1, <2>3, <3>1, <3>2, WireKept
  <2>4. CASE /\ rd.pc # "idle" /\ ~Busy("reader") /\ ioOwner = "none" /\ UNCHANGED <<reply, life>>
             /\ UNCHANGED <<ioOwner, waiting, ahead>>
    BY <1>1, <2>4 DEF WireInv, Busy
  <2>5. CASE /\ UNCHANGED <<ioOwner, rd>> /\ life \notin {"connect_off", "disconnect_off"}
             /\ \/ /\ life \in {"idle", "opening", "connect_tail"} /\ Enqueue("life")
                   /\ life' \in {"settling", "failed_close", "closing"} /\ UNCHANGED reply
                \/ UNCHANGED <<waiting, ahead, reply>> /\ life = "connect_tail" /\ life' = "idle"
                \/ /\ reply["life"] # "none" /\ reply' = [reply EXCEPT !["life"] = "none"]
                   /\ life' = "idle" /\ UNCHANGED <<waiting, ahead>>
    <3>1. \A u \in Tasks \ {"life"} : reply'[u] = reply[u] /\ (u \in waiting' <=> u \in waiting)
      BY <1>0, <2>5, EnqueueBusy
    <3>2. life' \in {"idle", "opening", "connect_tail"} => ~Busy("life")'
      BY <1>0, <2>5 DEF WireInv, Busy
    <3>3. reply'["life"] # "none" => "life" \notin waiting'
      BY <1>0, <2>5 DEF WireInv, Busy
    <3> QED BY <1>1, <2>5, <3>1, <3>2, <3>3, WireKept
  <2> QED BY <1>3, <2>1, <2>2, <2>3, <2>4, <2>5, PlainWire
<1> QED BY <1>2, <1>3

LEMMA WirePreserved ==
  ASSUME TypeOK, WireInv, SequenceInv, Steps
  PROVE  WireInv'
<1> USE TaskNames
<1>0. /\ WireTypes /\ TaskTypes /\ waiting \subseteq Tasks /\ reply \in [Tasks -> {"none", "ok", "raised", "on", "off", "bad"}]
      /\ start \in [Channels -> {"idle", "configure", "on", "readback", "cleanup"}] /\ op \in [OffOwners -> Ops]
  BY TypeParts DEF WireTypes, TaskTypes
<1>1. CASE PlainSteps
  BY <1>1, PlainWirePreserved
<1>2. CASE ReadReply
  <2>1. /\ reply["reader"] # "none" /\ reply' = [reply EXCEPT !["reader"] = "none"] /\ ioOwner' = "none"
        /\ UNCHANGED <<op, life, start, waiting>>
    BY <1>2 DEF ReadReply, wire
  <2>2. ioOwner = "reader"
    BY <2>1 DEF WireInv, Busy
  <2>3. ~Busy("reader")'
    BY <1>0, <2>1 DEF WireInv, Busy
  <2>4. \A u \in Tasks \ {"reader"} : reply'[u] = reply[u] /\ (u \in waiting' <=> u \in waiting)
    BY <1>0, <2>1
  <2> QED BY <2>1, <2>2, <2>3, <2>4, WireKept DEF Busy
<1>3. CASE ConnectBegin
  <2>1. UNCHANGED <<op, start, waiting, reply, ioOwner, rd>> /\ life = "idle" /\ life' = "opening"
    BY <1>3 DEF ConnectBegin, wire
  <2> QED BY <2>1 DEF WireInv, Busy
<1>4. ASSUME NEW c \in Channels, StartBegin(c) PROVE WireInv'
  <2>1. /\ UNCHANGED <<op, waiting, reply, ioOwner, rd, life>> /\ start[c] = "idle"
        /\ start'[c] = "configure" /\ \A d \in Channels \ {c} : start'[d] = start[d]
    BY <1>0, <1>4 DEF StartBegin, wire
  <2>2. ~Busy(c) /\ ~Busy(c)' /\ ioOwner # c /\ reply[c] = "none"
    BY <2>1 DEF WireInv, Busy, Issuing
  <2> QED BY <2>1, <2>2, WireKept DEF Busy
<1>5. ASSUME NEW c \in Channels, StartProceeds(c) PROVE WireInv'
  <2>1. /\ UNCHANGED <<op, waiting, rd, life>> /\ reply[c] # "none" /\ start[c] \in Issuing
        /\ reply' = [reply EXCEPT ![c] = "none"] /\ ioOwner' = "none"
        /\ \A d \in Channels \ {c} : start'[d] = start[d]
    BY <1>0, <1>5 DEF StartProceeds
  <2>2. ioOwner = c /\ c \notin waiting
    BY <2>1 DEF WireInv, Busy
  <2>3. ~Busy(c)' /\ reply'[c] = "none" /\ c # "none" /\ c # "reader"
    BY <1>0, <2>1, <2>2 DEF Busy
  <2>4. \A u \in Tasks \ {c} : reply'[u] = reply[u] /\ (u \in waiting' <=> u \in waiting)
    BY <1>0, <2>1
  <2> QED BY <2>1, <2>2, <2>3, <2>4, WireKept
<1>6. ASSUME NEW o \in OffOwners, OffStep(o) PROVE WireInv'
  <2>1. OffFrame(o)
    BY <1>6, OffStepFrame
  <2>2. reply'[o] # "none" => o \notin waiting'
    <3>1. CASE OffIssue(o)
      <4>1. ~Busy(o) /\ UNCHANGED reply
        BY <1>6, <3>1 DEF OffIssue, SequenceInv, Visiting
      <4> QED BY <4>1 DEF Busy
    <3>2. CASE OffUnverifiable(o)
      BY <3>2 DEF OffUnverifiable, WireInv, wire
    <3>3. CASE OffWriteReply(o) \/ OffReadReply(o)
      BY <1>0, <3>3 DEF OffWriteReply, OffReadReply
    <3> QED BY <1>6, <3>1, <3>2, <3>3 DEF OffStep
  <2>3. /\ o \in Channels => start[o] = "cleanup"
        /\ o = "life" => life \in {"connect_off", "disconnect_off"}
    BY <2>1 DEF OffFrame, SequenceInv
  <2>4. /\ UNCHANGED <<start, rd, life, ioOwner>> /\ op'[o].pc # "idle"
        /\ \A x \in OffOwners \ {o} : op'[x] = op[x]
        /\ \A u \in Tasks \ {o} : reply'[u] = reply[u] /\ (u \in waiting' <=> u \in waiting)
    BY <2>1 DEF OffFrame
  <2>5. o \in Channels => ioOwner # o
    BY <2>3 DEF WireInv, Issuing
  <2>6. o \in Channels => /\ (ioOwner' = o <=> start'[o] \in Issuing /\ Busy(o)')
                          /\ start'[o] = "cleanup"
    BY <2>3, <2>4, <2>5 DEF Issuing
  <2> QED BY <2>2, <2>3, <2>4, <2>6, WireKept
<1>7. ASSUME NEW o \in OffOwners, Ends(o) PROVE WireInv'
  <2>1. op[o].pc = "settled" /\ UNCHANGED <<reply, ioOwner, rd>> /\ \A x \in OffOwners \ {o} : op'[x] = op[x]
    BY <1>0, <1>7, EndsFrame
  <2>2. ~Busy(o)
    BY <2>1, SettledNotBusy
  <2>3. CASE o \in Callers
    <3>1. UNCHANGED <<start, life, waiting>>
      BY <1>7, <2>3 DEF Ends, OffReturn, wire
    <3> QED BY <2>1, <2>2, <2>3, <3>1, WireKept DEF Busy
  <2>4. CASE o \in Channels
    <3>1. UNCHANGED <<life, waiting>> /\ start' = [start EXCEPT ![o] = "idle"]
      BY <1>7, <2>4 DEF Ends, StartCleanupDone, wire
    <3>2. ioOwner # o /\ start'[o] = "idle" /\ ~Busy(o)'
      BY <1>0, <2>1, <2>2, <2>4, <3>1 DEF WireInv, Busy
    <3>3. \A d \in Channels \ {o} : start'[d] = start[d]
      BY <1>0, <3>1
    <3> QED BY <2>1, <2>4, <3>1, <3>2, <3>3, WireKept DEF Busy, Issuing
  <2>5. CASE o = "life"
    <3>1. UNCHANGED start
      BY <1>7, <2>5 DEF Ends, ConnectOffDone, DisconnectOffDone
    <3>2. \/ UNCHANGED waiting
          \/ Enqueue("life") /\ life' = "closing"
      BY <1>7, <2>5 DEF Ends, ConnectOffDone, DisconnectOffDone, wire
    <3>3. \A u \in Tasks \ {"life"} : reply'[u] = reply[u] /\ (u \in waiting' <=> u \in waiting)
      BY <1>0, <2>1, <3>2, EnqueueBusy
    <3>4. life' \in {"idle", "opening", "connect_tail"} => ~Busy("life")'
      BY <2>1, <2>2, <2>5, <3>2 DEF Busy
    <3>5. reply'["life"] = "none"
      BY <2>1, <2>2, <2>5 DEF Busy
    <3> QED BY <2>1, <2>5, <3>1, <3>3, <3>4, <3>5, WireKept
  <2> QED BY <1>7, <2>3, <2>4, <2>5 DEF Ends
<1>8. ASSUME NEW o \in OffOwners, NEW C \in SUBSET Channels, Begins(o, C) PROVE WireInv'
  <2>1. PICK q : Claims(o, C, q)
    BY <1>8 DEF Begins
  <2>2. op'[o].pc = "write" /\ \A x \in OffOwners \ {o} : op'[x] = op[x]
    BY <1>0, <2>1 DEF Claims
  <2>3. UNCHANGED <<rd, waiting>>
    BY <1>8 DEF Begins
  <2>4. CASE o \in Callers
    <3>1. UNCHANGED <<start, life, reply, ioOwner>> /\ ~Busy(o)
      BY <1>8, <2>4 DEF Begins, WireInv
    <3> QED BY <2>2, <2>3, <2>4, <3>1, WireKept DEF Busy
  <2>5. CASE o = "life"
    <3>1. UNCHANGED <<start, reply, ioOwner>> /\ ~Busy(o) /\ life' \in {"connect_off", "disconnect_off"}
      BY <1>8, <2>5 DEF Begins, WireInv
    <3> QED BY <2>2, <2>3, <2>5, <3>1, WireKept DEF Busy
  <2>6. CASE o \in Channels
    <3>1. /\ UNCHANGED life /\ start' = [start EXCEPT ![o] = "cleanup"] /\ reply' = [reply EXCEPT ![o] = "none"]
          /\ start[o] \in Issuing /\ o \notin waiting
          /\ \/ reply[o] = "none" /\ UNCHANGED ioOwner
             \/ reply[o] # "none" /\ ioOwner' = "none"
      BY <1>8, <2>6 DEF Begins
    <3>2. (reply[o] = "none" => ioOwner # o) /\ (reply[o] # "none" => ioOwner = o)
      BY <2>6, <3>1 DEF WireInv, Busy
    <3>3. /\ \A d \in Channels \ {o} : start'[d] = start[d] /\ (ioOwner' = d <=> ioOwner = d)
          /\ ioOwner' # o /\ (ioOwner' = "reader" <=> ioOwner = "reader")
      BY <1>0, <2>6, <3>1, <3>2
    <3>4. start'[o] = "cleanup" /\ reply'[o] = "none"
      BY <1>0, <2>6, <3>1
    <3>5. \A u \in Tasks \ {o} : reply'[u] = reply[u] /\ (u \in waiting' <=> u \in waiting)
      BY <1>0, <2>3, <3>1
    <3> QED BY <2>2, <2>3, <2>6, <3>1, <3>3, <3>4, <3>5, WireKept DEF Issuing
  <2> QED BY <1>8, <2>4, <2>5, <2>6 DEF Begins
<1> QED BY <1>1, <1>2, <1>3, <1>4, <1>5, <1>6, <1>7, <1>8, StepGroups

(***************************************************************************)
(* A quiet channel stays quiet until its epoch moves on.                   *)
(***************************************************************************)

\* Only the transport and a hand at the front panel act on the instrument.
LEMMA PlantKept ==
  ASSUME Steps, TypeOK, SequenceInv, ~Execute, \A c \in Channels : ~FrontPanelOn(c)
  PROVE  UNCHANGED <<outputOn, level, tampered>>
<1> USE DEF plant
<1>1. CASE PlainSteps
  BY <1>1 DEF PlainSteps, OffUnavailable, ReadIssue, StartQueues, ReadBegin, ConnectSettle, ConnectSettled,
              ConnectOpenFailed, ConnectSucceeds, ConnectTailFailed, FailedConnectClosed, DisconnectProved, Disconnected
<1>2. CASE ReadReply \/ ConnectBegin \/ \E c \in Channels : StartBegin(c) \/ StartProceeds(c)
  BY <1>2 DEF ReadReply, ConnectBegin, StartBegin, StartProceeds
<1>3. ASSUME NEW o \in OffOwners, OffStep(o) PROVE UNCHANGED <<outputOn, level, tampered>>
  BY <1>3, OffStepFrame DEF OffFrame
<1>4. ASSUME NEW o \in OffOwners, Ends(o) PROVE UNCHANGED <<outputOn, level, tampered>>
  BY <1>4, EndsFrame, TypeParts DEF TaskTypes
<1>5. ASSUME NEW o \in OffOwners, NEW C \in SUBSET Channels, Begins(o, C) PROVE UNCHANGED <<outputOn, level, tampered>>
  BY <1>5 DEF Begins
<1> QED BY <1>1, <1>2, <1>3, <1>4, <1>5, StepGroups

\* What serving coroutine t with reply r does to channel c ...
Untouched(c) == outputOn'[c] = outputOn[c] /\ level'[c] = level[c] /\ (c \in tampered' <=> c \in tampered)

Acts(t, c) ==
  \/ Untouched(c)
  \/ /\ ~outputOn'[c] /\ level'[c] = "zero"
     /\ (t = c /\ start[c] = "configure") \/ (t \in OffOwners /\ op[t].pc = "write" /\ op[t].cur = {c})
  \/ t = c /\ start[c] = "on" /\ level'[c] = level[c] /\ (c \in tampered' <=> c \in tampered)
  \/ /\ t = "reader" /\ rd.pc = "level" /\ rd.ch = c
     /\ outputOn'[c] = outputOn[c] /\ (c \in tampered' <=> c \in tampered)

\* ... and what the reply says of the channel.
Tells(t, r, c) ==
  /\ t = c /\ start[c] = "configure" /\ r = "ok" => level'[c] = "zero"
  /\ t \in OffOwners /\ op[t].pc = "write" /\ op[t].cur = {c} /\ r = "ok" => ~outputOn'[c]
  /\ t = "reader" /\ rd.pc = "query" /\ rd.ch = c /\ r = "on" => outputOn'[c]

LEMMA ExecuteActs ==
  ASSUME TypeOK, WireInv, SequenceInv, Execute
  PROVE  \E t, r : Served(t, r) /\ \A c \in Channels : Acts(t, c) /\ Tells(t, r, c)
<1> USE TaskNames
<1>0. /\ PlantTypes /\ outputOn \in [Channels -> BOOLEAN] /\ level \in [Channels -> {"zero", "nonzero"}]
      /\ rd.ch \in Channels
  BY TypeParts DEF PlantTypes, TaskTypes
<1>1. PICK r : \/ \E c \in Channels : ServesConfigure(c, r) \/ ServesOn(c, r) \/ ServesReadback(c, r)
               \/ ServesPoll(r) \/ ServesLevel(r)
               \/ \E o \in OffOwners : (\E c \in op[o].cur : ServesOff(o, c, r)) \/ ServesChallenge(o, r)
               \/ ServesClose(r)
  BY ExecuteServes
<1>2. ASSUME SamePlant PROVE \A c \in Channels : Untouched(c)
  BY <1>2 DEF SamePlant, Untouched
<1>3. ASSUME NEW d \in Channels, SwitchedOff(d)
      PROVE  ~outputOn'[d] /\ level'[d] = "zero" /\ \A c \in Channels \ {d} : Untouched(c)
  BY <1>3 DEF SwitchedOff, Untouched
<1>4. ASSUME NEW d \in Channels, ServesConfigure(d, r)
      PROVE  Served(d, r) /\ \A c \in Channels : Acts(d, c) /\ Tells(d, r, c)
  <2>1. Served(d, r) /\ start[d] = "configure" /\ op[d].pc # "write"
    BY <1>4 DEF ServesConfigure, SequenceInv
  <2>2. CASE SwitchedOff(d)
    BY <1>3, <2>1, <2>2 DEF Acts, Tells
  <2>3. CASE SamePlant /\ r = "raised"
    BY <1>2, <2>1, <2>3 DEF Acts, Tells
  <2> QED BY <1>4, <2>1, <2>2, <2>3 DEF ServesConfigure
<1>5. ASSUME NEW d \in Channels, ServesOn(d, r)
      PROVE  Served(d, r) /\ \A c \in Channels : Acts(d, c) /\ Tells(d, r, c)
  <2>1. Served(d, r) /\ start[d] = "on" /\ op[d].pc # "write" /\ level' = level /\ tampered' = tampered
    BY <1>5 DEF ServesOn, SequenceInv
  <2>2. \A c \in Channels \ {d} : Untouched(c)
    BY <1>0, <1>5 DEF ServesOn, Untouched
  <2> QED BY <2>1, <2>2 DEF Acts, Tells
<1>6. ASSUME NEW d \in Channels, ServesReadback(d, r)
      PROVE  Served(d, r) /\ \A c \in Channels : Acts(d, c) /\ Tells(d, r, c)
  <2>1. Served(d, r) /\ start[d] = "readback" /\ op[d].pc # "write" /\ SamePlant
    BY <1>6 DEF ServesReadback, SequenceInv
  <2> QED BY <1>2, <2>1 DEF Acts, Tells
<1>7. ASSUME ServesPoll(r)
      PROVE  Served("reader", r) /\ \A c \in Channels : Acts("reader", c) /\ Tells("reader", r, c)
  BY <1>2, <1>7 DEF ServesPoll, SamePlant, Acts, Tells
<1>8. ASSUME ServesLevel(r)
      PROVE  Served("reader", r) /\ \A c \in Channels : Acts("reader", c) /\ Tells("reader", r, c)
  <2>1. Served("reader", r) /\ rd.pc = "level" /\ outputOn' = outputOn /\ tampered' = tampered
    BY <1>8 DEF ServesLevel
  <2>2. \A c \in Channels \ {rd.ch} : Untouched(c)
    BY <1>0, <1>8 DEF ServesLevel, Untouched
  <2> QED BY <2>1, <2>2 DEF Acts, Tells
<1>9. ASSUME NEW o \in OffOwners, NEW d \in op[o].cur, ServesOff(o, d, r)
      PROVE  Served(o, r) /\ \A c \in Channels : Acts(o, c) /\ Tells(o, r, c)
  <2>1. Served(o, r) /\ op[o].pc = "write" /\ op[o].cur = {d} /\ (o \in Channels => start[o] = "cleanup")
    BY <1>9 DEF ServesOff, SequenceInv
  <2>2. d \in Channels
    BY <1>9, TypeParts DEF TaskTypes, Ops
  <2>3. CASE SwitchedOff(d)
    BY <1>3, <2>1, <2>2, <2>3 DEF Acts, Tells
  <2>4. CASE SamePlant /\ r = "raised"
    BY <1>2, <2>1, <2>4 DEF Acts, Tells
  <2> QED BY <1>9, <2>1, <2>3, <2>4 DEF ServesOff
<1>10. ASSUME NEW o \in OffOwners, ServesChallenge(o, r)
       PROVE  Served(o, r) /\ \A c \in Channels : Acts(o, c) /\ Tells(o, r, c)
  <2>1. Served(o, r) /\ op[o].pc = "read" /\ SamePlant /\ (o \in Channels => start[o] = "cleanup")
    BY <1>10 DEF ServesChallenge, SequenceInv
  <2> QED BY <1>2, <2>1 DEF Acts, Tells
<1>11. ASSUME ServesClose(r)
       PROVE  Served("life", r) /\ \A c \in Channels : Acts("life", c) /\ Tells("life", r, c)
  <2>1. Served("life", r) /\ op["life"].pc = "idle" /\ SamePlant
    BY <1>11 DEF ServesClose, SequenceInv
  <2> QED BY <1>2, <2>1 DEF Acts, Tells
<1> QED BY <1>1, <1>4, <1>5, <1>6, <1>7, <1>8, <1>9, <1>10, <1>11

\* An output comes on only by the OUTPUT_ON of its start (or at the front panel).
LEMMA OffStays ==
  ASSUME TypeOK, WireInv, SequenceInv, Steps, NEW c \in Channels, Off(c), ~Off(c)'
  PROVE  /\ start[c] = "on" /\ c \in waiting
         /\ UNCHANGED <<connected, active, startToken, attempted, start, op, rd, life>>
<1>1. CASE Execute
  <2>1. PICK t, r : Served(t, r) /\ Acts(t, c)
    BY <1>1, ExecuteActs
  <2>2. t = c /\ start[c] = "on"
    BY <2>1 DEF Acts, Untouched, Off
  <2> QED BY <2>1, <2>2 DEF Served
<1>2. ASSUME NEW d \in Channels, FrontPanelOn(d) PROVE FALSE
  <2>1. outputOn \in [Channels -> BOOLEAN]
    BY TypeParts DEF PlantTypes
  <2> QED BY <1>2, <2>1 DEF FrontPanelOn, Off
<1>3. CASE ~Execute /\ \A d \in Channels : ~FrontPanelOn(d)
  BY <1>3, PlantKept DEF Off
<1> QED BY <1>1, <1>2, <1>3

\* A channel is called for OUTPUT_ON only by a start that owns it.
LEMMA OnQueued ==
  ASSUME TypeOK, WireInv, SequenceInv, Steps, NEW c \in Channels,
         ~(c \in waiting /\ start[c] = "on"), c \in waiting', start'[c] = "on"
  PROVE  StartQueues(c) /\ start[c] = "on"
<1> USE TaskNames
<1>0. WireTypes /\ start \in [Channels -> {"idle", "configure", "on", "readback", "cleanup"}] /\ op \in [OffOwners -> Ops]
  BY TypeParts DEF WireTypes, TaskTypes
<1>1. CASE PlainSteps
  <2>1. start[c] = "on" /\ c \notin waiting
    BY <1>1, PlainFrame
  <2>2. CASE Execute
    BY <2>1, <2>2, ExecuteActs DEF Served
  <2>3. CASE ~Execute
    BY <1>0, <1>1, <2>1, <2>3, PlainWire, EnqueueBusy DEF StartQueues
  <2> QED BY <2>1, <2>2, <2>3
<1>2. CASE ReadReply \/ ConnectBegin
  BY <1>2 DEF ReadReply, ConnectBegin, wire
<1>3. ASSUME NEW d \in Channels, StartBegin(d) \/ StartProceeds(d) PROVE FALSE
  BY <1>0, <1>3 DEF StartBegin, StartProceeds, WireInv, wire
<1>4. ASSUME NEW o \in OffOwners, OffStep(o) PROVE FALSE
  BY <1>4, OffStepFrame DEF OffFrame, SequenceInv
<1>5. ASSUME NEW o \in OffOwners, Ends(o) PROVE FALSE
  <2>1. UNCHANGED waiting \/ (o = "life" /\ Enqueue("life"))
    BY <1>5 DEF Ends, OffReturn, StartCleanupDone, ConnectOffDone, DisconnectOffDone, wire
  <2>2. start' = start \/ \E d \in Channels : start' = [start EXCEPT ![d] = "idle"]
    BY <1>5 DEF Ends, OffReturn, StartCleanupDone, ConnectOffDone, DisconnectOffDone
  <2> QED BY <1>0, <2>1, <2>2, EnqueueBusy
<1>6. ASSUME NEW o \in OffOwners, NEW C \in SUBSET Channels, Begins(o, C) PROVE FALSE
  BY <1>0, <1>6 DEF Begins
<1> QED BY <1>1, <1>2, <1>3, <1>4, <1>5, <1>6, StepGroups

\* Nothing but a start that owns the channel disturbs it.
LEMMA CalmStays ==
  ASSUME TypeOK, WireInv, SequenceInv, Steps, NEW c \in Channels, Calm(c),
         ~StartOperationIsCurrent(c, startToken[c])
  PROVE  Calm(c)'
<1>1. Off(c)'
  BY OffStays DEF Calm
<1>2. ~(c \in waiting' /\ start'[c] = "on")
  BY OnQueued DEF Calm, StartQueues
<1> QED BY <1>1, <1>2 DEF Calm

\* Epochs move on by one, and a start token is given out only with a new epoch.
LEMMA EpochSteps ==
  ASSUME TypeOK, SequenceInv, Steps, NEW c \in Channels
  PROVE  /\ epoch[c] \in Nat /\ epoch'[c] \in {epoch[c], epoch[c] + 1}
         /\ epoch'[c] = epoch[c] => startToken'[c] \in {startToken[c], 0}
<1>0. EvidenceTypes /\ TaskTypes /\ op \in [OffOwners -> Ops] /\ epoch[c] \in Nat
  BY TypeParts DEF TaskTypes, EvidenceTypes
<1>1. CASE PlainSteps
  BY <1>0, <1>1, PlainFrame
<1>2. CASE ReadReply
  BY <1>0, <1>2, ReadReplyEpochs
<1>3. CASE ConnectBegin
  BY <1>0, <1>3 DEF ConnectBegin
<1>4. ASSUME NEW d \in Channels, StartBegin(d)
      PROVE  epoch'[c] \in {epoch[c], epoch[c] + 1} /\ (epoch'[c] = epoch[c] => startToken'[c] \in {startToken[c], 0})
  BY <1>0, <1>4 DEF StartBegin, EvidenceTypes
<1>5. ASSUME NEW d \in Channels, StartProceeds(d)
      PROVE  epoch'[c] = epoch[c] /\ startToken'[c] \in {startToken[c], 0}
  BY <1>0, <1>5 DEF StartProceeds, EvidenceTypes
<1>6. ASSUME NEW o \in OffOwners, OffStep(o) PROVE epoch'[c] = epoch[c] /\ startToken'[c] = startToken[c]
  BY <1>6, OffStepFrame DEF OffFrame
<1>7. ASSUME NEW o \in OffOwners, Ends(o) PROVE epoch'[c] = epoch[c] /\ startToken'[c] \in {startToken[c], 0}
  <2>1. epoch' = epoch
    BY <1>0, <1>7, EndsFrame
  <2>2. startToken' = startToken \/ \E d \in Channels : startToken' = [startToken EXCEPT ![d] = 0]
    BY <1>7 DEF Ends, OffReturn, StartCleanupDone, ConnectOffDone, DisconnectOffDone
  <2> QED BY <1>0, <2>1, <2>2 DEF EvidenceTypes
<1>8. ASSUME NEW o \in OffOwners, NEW C \in SUBSET Channels, Begins(o, C)
      PROVE  epoch'[c] \in {epoch[c], epoch[c] + 1} /\ startToken'[c] = startToken[c]
  BY <1>8 DEF Begins
<1> QED BY <1>0, <1>1, <1>2, <1>3, <1>4, <1>5, <1>6, <1>7, <1>8, StepGroups

LEMMA QuietStays ==
  ASSUME TypeOK, WireInv, SequenceInv, Steps, NEW c \in Channels, Quiet(c), epoch'[c] = epoch[c]
  PROVE  Quiet(c)'
<1>1. Calm(c)'
  BY CalmStays DEF Quiet, StartOperationIsCurrent
<1> QED BY <1>1, EpochSteps DEF Quiet

\* Where the steps of the sequences come from: the sequence o after a step either
\* has the claim it had before, or is new, or is over.
LEMMA ClaimSteps ==
  ASSUME TypeOK, SequenceInv, Steps, NEW o \in OffOwners
  PROVE  \/ op'[o] = op[o]
         \/ OffStep(o) /\ SameClaim(op'[o], op[o])
         \/ Ends(o) /\ op'[o] = NoOp
         \/ \E C \in SUBSET Channels : Begins(o, C) /\ op'[o].pc = "write" /\ op'[o].chans = C
                                       /\ op'[o].todo = C /\ op'[o].cur = {}
<1>0. op \in [OffOwners -> Ops]
  BY TypeParts DEF TaskTypes
<1>1. CASE PlainSteps \/ ConnectBegin \/ \E c \in Channels : StartBegin(c) \/ StartProceeds(c)
  BY <1>1, PlainFrame DEF ConnectBegin, StartBegin, StartProceeds
<1>2. CASE ReadReply
  BY <1>2 DEF ReadReply
<1>3. ASSUME NEW x \in OffOwners, OffStep(x) PROVE op'[o] = op[o] \/ (o = x /\ SameClaim(op'[o], op[o]))
  BY <1>3, OffStepFrame DEF OffFrame
<1>4. ASSUME NEW x \in OffOwners, Ends(x) PROVE op'[o] = op[o] \/ (o = x /\ op'[o] = NoOp)
  BY <1>0, <1>4, EndsFrame
<1>5. ASSUME NEW x \in OffOwners, NEW C \in SUBSET Channels, Begins(x, C)
      PROVE  op'[o] = op[o] \/ (o = x /\ op'[o].pc = "write" /\ op'[o].chans = C /\ op'[o].todo = C /\ op'[o].cur = {})
  <2>1. PICK q : Claims(x, C, q)
    BY <1>5 DEF Begins
  <2> QED BY <1>0, <2>1 DEF Claims
<1> QED BY <1>1, <1>2, <1>3, <1>4, <1>5, StepGroups

\* Coroutines wait behind the same ones until those have been served.
LEMMA AheadSteps ==
  ASSUME TypeOK, WireInv, SequenceInv, Steps, NEW o \in OffOwners, op[o].cur # {}, op'[o] = op[o],
         NEW c \in Channels, c # o, o \in waiting', c \in waiting'
  PROVE  (o \in waiting /\ (c \in ahead[o] => c \in ahead'[o])) \/ StartQueues(c) \/ OffIssue(c)
<1> USE TaskNames
<1>0. /\ WireTypes /\ waiting \subseteq Tasks /\ ahead \in [Tasks -> SUBSET Tasks] /\ op \in [OffOwners -> Ops]
      /\ op[o].pc \in {"write", "read"}
  BY TypeParts DEF WireTypes, TaskTypes, SequenceInv, Visiting
<1>e. ASSUME NEW t \in Tasks \ {o, c}, Enqueue(t) PROVE o \in waiting /\ (c \in ahead[o] => c \in ahead'[o])
  BY <1>0, <1>e, EnqueueBusy DEF Enqueue
<1>u. ASSUME UNCHANGED <<waiting, ahead>> PROVE o \in waiting /\ (c \in ahead[o] => c \in ahead'[o])
  BY <1>u
<1>n. o # "life" \/ life \in {"connect_off", "disconnect_off"}
  BY <1>0 DEF SequenceInv
<1>1. CASE PlainSteps
  <2>1. CASE Execute
    <3>1. PICK t, r : Served(t, r)
      BY <2>1, ExecuteActs
    <3> QED BY <1>0, <3>1 DEF Served
  <2>2. ASSUME NEW d \in Channels, StartQueues(d)
        PROVE  (o \in waiting /\ (c \in ahead[o] => c \in ahead'[o])) \/ StartQueues(c)
    <3>1. Enqueue(d) /\ d # o
      BY <1>0, <2>2 DEF StartQueues, SequenceInv, Issuing
    <3> QED BY <1>e, <2>2, <3>1
  <2>3. CASE ~Execute /\ \A d \in Channels : ~StartQueues(d)
    BY <1>1, <1>e, <1>n, <1>u, <2>3, PlainWire
  <2> QED BY <2>1, <2>2, <2>3
<1>2. CASE ReadReply \/ ConnectBegin \/ \E d \in Channels : StartBegin(d) \/ StartProceeds(d)
  BY <1>2, <1>u DEF ReadReply, ConnectBegin, StartBegin, StartProceeds, wire
<1>3. ASSUME NEW x \in OffOwners, OffStep(x)
      PROVE  (o \in waiting /\ (c \in ahead[o] => c \in ahead'[o])) \/ OffIssue(c)
  <2>1. CASE OffIssue(x)
    <3>1. x # o
      BY <2>1 DEF OffIssue
    <3> QED BY <1>e, <2>1, <3>1 DEF OffIssue
  <2>2. CASE ~OffIssue(x)
    BY <1>3, <1>u, <2>2 DEF OffStep, OffUnverifiable, OffWriteReply, OffReadReply, wire
  <2> QED BY <2>1, <2>2
<1>4. ASSUME NEW x \in OffOwners, Ends(x) PROVE o \in waiting /\ (c \in ahead[o] => c \in ahead'[o])
  <2>1. op'[x] = NoOp /\ op[x].pc = "settled"
    BY <1>0, <1>4, EndsFrame
  <2>2. x # o
    BY <1>0, <2>1
  <2>3. UNCHANGED <<waiting, ahead>> \/ (x = "life" /\ Enqueue("life"))
    BY <1>4 DEF Ends, OffReturn, StartCleanupDone, ConnectOffDone, DisconnectOffDone, wire
  <2> QED BY <1>e, <1>u, <2>2, <2>3
<1>5. ASSUME NEW x \in OffOwners, NEW C \in SUBSET Channels, Begins(x, C) PROVE o \in waiting /\ (c \in ahead[o] => c \in ahead'[o])
  BY <1>5, <1>u DEF Begins
<1> QED BY <1>1, <1>2, <1>3, <1>4, <1>5, StepGroups

LEMMA BehindPreserved ==
  ASSUME TypeOK, WireInv, SequenceInv, TokenInv, BehindOns, Steps
  PROVE  BehindOns'
<1> USE TaskNames
<1>0. /\ WireTypes /\ waiting \subseteq Tasks /\ ahead \in [Tasks -> SUBSET Tasks] /\ op \in [OffOwners -> Ops]
  BY TypeParts DEF WireTypes, TaskTypes
<1>1. SUFFICES ASSUME NEW o \in OffOwners, NEW c \in op'[o].cur, op'[o].pc = "write", o \in waiting',
                      op'[o].tok[c] = epoch'[c], c \in waiting', start'[c] = "on"
               PROVE  c \in ahead'[o]
  BY DEF BehindOns
<1>2. SequenceInv'
  BY SequencePreserved
<1>3. c \in Channels /\ c # o
  <2>1. c \in Channels
    BY <1>1, <1>2 DEF SequenceInv, Visiting
  <2> QED BY <1>1, <1>2, <2>1 DEF SequenceInv
<1>4. ~OffIssue(c)
  <2>1. ASSUME OffIssue(c) PROVE FALSE
    <3>1. start[c] = "cleanup" /\ UNCHANGED start
      BY <1>3, <2>1 DEF OffIssue, SequenceInv
    <3> QED BY <1>1, <3>1
  <2> QED BY <2>1
<1>5. CASE op'[o] = op[o]
  <2>1. op[o].tok[c] =< epoch[c] /\ op[o].tok[c] # startToken[c] /\ c \in op[o].chans /\ op[o].tok[c] \in Nat
    BY <1>0, <1>1, <1>3, <1>5 DEF TokenInv, SequenceInv, Visiting, Ops
  <2>2. epoch'[c] = epoch[c]
    BY <1>1, <1>3, <1>5, <2>1, EpochSteps
  <2>3. ~StartQueues(c) \/ start[c] # "on"
    BY <1>1, <1>5, <2>1, <2>2 DEF StartQueues, StartOperationIsCurrent
  <2>4. c \in waiting /\ start[c] = "on"
    BY <1>1, <1>3, <2>3, OnQueued
  <2>5. ~StartQueues(c)
    BY <2>4 DEF StartQueues, Busy
  <2>6. op[o].cur # {}
    BY <1>1, <1>5
  <2>7. o \in waiting /\ (c \in ahead[o] => c \in ahead'[o])
    BY <1>1, <1>3, <1>4, <1>5, <2>5, <2>6, AheadSteps
  <2>8. c \in ahead[o]
    BY <1>1, <1>3, <1>5, <2>2, <2>4, <2>7 DEF BehindOns
  <2> QED BY <2>7, <2>8
<1>6. CASE op'[o] # op[o]
  <2>1. OffStep(o)
    BY <1>1, <1>6, ClaimSteps, NoOpTyped
  <2>2. ASSUME NEW d, NEW failed, NEW ok, Settles(o, d, failed, ok) PROVE FALSE
    BY <1>0, <1>1, <2>2, SettlesFields
  <2>3. OffIssue(o)
    BY <1>0, <2>1, <2>2, OffUnverifiableSettles, OffWriteReplySettles, OffReadReplySettles DEF OffStep
  <2>4. c \in waiting
    BY <1>0, <1>1, <1>3, <2>3, EnqueueBusy DEF OffIssue
  <2> QED BY <1>0, <2>3, <2>4 DEF OffIssue, Enqueue
<1> QED BY <1>5, <1>6

(***************************************************************************)
(* Where evidence comes from.                                              *)
(***************************************************************************)

\* The challenge of o confirms channel c.
Confirms(o, c) ==
  /\ OffReadReply(o) /\ op[o].cur = {c} /\ c \notin op[o].failed /\ MarkAccepted(o, c)

\* An OFF proof appears only by the confirmation of an OFF challenge; otherwise it
\* is what it was, of the same epoch, or gone.
LEMMA ProofSteps ==
  ASSUME TypeOK, WireInv, SequenceInv, Steps, NEW c \in Channels
  PROVE  \/ proof'[c] = NoProof
         \/ proof'[c] = proof[c] /\ epoch'[c] = epoch[c]
         \/ /\ \E o \in OffOwners : Confirms(o, c)
            /\ proof'[c].epoch = epoch[c] /\ epoch'[c] = epoch[c]
<1>0. EvidenceTypes /\ TaskTypes /\ op \in [OffOwners -> Ops] /\ proof \in [Channels -> [gen : Nat, epoch : Nat]]
  BY TypeParts DEF EvidenceTypes, TaskTypes
<1> USE DEF evidence, lifecycle
<1>1. CASE PlainSteps
  <2>1. epoch' = epoch
    BY <1>1, PlainFrame
  <2>2. CASE Execute
    <3>1. PICK t, r : Served(t, r)
      BY <2>2, ExecuteActs
    <3>2. proof' = proof
      BY <3>1 DEF Served
    <3> QED BY <2>1, <3>2
  <2>3. CASE OffUnavailable \/ ReadIssue \/ \E d \in Channels : FrontPanelOn(d) \/ StartQueues(d) \/ ReadBegin(d)
    <3>1. proof' = proof
      BY <2>3 DEF OffUnavailable, ReadIssue, FrontPanelOn, StartQueues, ReadBegin
    <3> QED BY <2>1, <3>1
  <2>4. CASE ConnectSettle \/ ConnectSettled \/ ConnectOpenFailed \/ ConnectSucceeds
             \/ ConnectTailFailed \/ FailedConnectClosed \/ DisconnectProved \/ Disconnected
    <3>1. UNCHANGED proof \/ RevokeOffEvidence
      BY <2>4 DEF ConnectSettle, ConnectSettled, ConnectOpenFailed, ConnectSucceeds, ConnectTailFailed,
                  FailedConnectClosed, DisconnectProved, Disconnected, FailedConnectCloses, ConnectRaises
    <3> QED BY <2>1, <3>1 DEF RevokeOffEvidence
  <2> QED BY <1>1, <2>2, <2>3, <2>4 DEF PlainSteps
<1>2. CASE ReadReply
  <2>1. \/ UNCHANGED epoch /\ (UNCHANGED proof \/ EnterRecovery)
        \/ epoch' = [epoch EXCEPT ![rd.ch] = @ + 1] /\ proof' = [proof EXCEPT ![rd.ch] = NoProof]
    BY <1>2 DEF ReadReply, RecordUnsafeOutput
  <2> QED BY <1>0, <2>1 DEF EnterRecovery, EvidenceTypes
<1>3. CASE ConnectBegin
  BY <1>3 DEF ConnectBegin, RevokeOffEvidence
<1>4. ASSUME NEW d \in Channels, StartBegin(d)
      PROVE  proof'[c] = NoProof \/ (proof'[c] = proof[c] /\ epoch'[c] = epoch[c])
  BY <1>0, <1>4 DEF StartBegin, EvidenceTypes
<1>5. ASSUME NEW d \in Channels, StartProceeds(d) PROVE proof'[c] = proof[c] /\ epoch'[c] = epoch[c]
  BY <1>5 DEF StartProceeds
<1>6. ASSUME NEW o \in OffOwners, OffStep(o)
      PROVE  \/ proof'[c] = NoProof
             \/ proof'[c] = proof[c] /\ epoch'[c] = epoch[c]
             \/ Confirms(o, c) /\ proof'[c].epoch = epoch[c] /\ epoch'[c] = epoch[c]
  <2>1. UNCHANGED epoch
    BY <1>6, OffStepFrame DEF OffFrame
  <2>2. ASSUME NEW d \in Channels, InvalidateIfOwned(o, d) PROVE proof'[c] = NoProof \/ proof'[c] = proof[c]
    BY <1>0, <2>2 DEF InvalidateIfOwned
  <2>3. ASSUME EnterRecovery PROVE proof'[c] = NoProof \/ proof'[c] = proof[c]
    BY <2>3 DEF EnterRecovery
  <2>4. CASE OffIssue(o)
    BY <2>1, <2>4 DEF OffIssue
  <2>5. CASE OffUnverifiable(o)
    <3>1. PICK d \in op[o].todo : InvalidateIfOwned(o, d)
      BY <1>0, <2>5, OffUnverifiableSettles
    <3> QED BY <1>0, <2>1, <2>2, <3>1 DEF Ops
  <2>6. CASE OffWriteReply(o)
    <3>1. EnterRecovery \/ UNCHANGED proof
      BY <2>6 DEF OffWriteReply
    <3> QED BY <2>1, <2>3, <3>1
  <2>7. CASE OffReadReply(o)
    <3>1. PICK d \in op[o].cur :
            \/ /\ d \notin op[o].failed
               /\ IF MarkAccepted(o, d) THEN MarkChannelOffVerified(d) ELSE UNCHANGED proof
            \/ EnterRecovery \/ InvalidateIfOwned(o, d)
      BY <1>0, <2>7, OffReadReplySettles
    <3>2. op[o].cur = {d} /\ d \in Channels
      BY <2>7, <3>1 DEF OffReadReply, SequenceInv, Visiting, Busy
    <3>3. CASE d \notin op[o].failed /\ MarkAccepted(o, d) /\ MarkChannelOffVerified(d)
      <4>1. CASE c = d
        <5>1. proof'[c] = [gen |-> gen, epoch |-> epoch[c]]
          BY <1>0, <3>3, <4>1 DEF MarkChannelOffVerified
        <5> QED BY <2>1, <2>7, <3>2, <3>3, <4>1, <5>1 DEF Confirms
      <4>2. CASE c # d
        BY <1>0, <2>1, <3>2, <3>3, <4>2 DEF MarkChannelOffVerified
      <4> QED BY <4>1, <4>2
    <3> QED BY <2>1, <2>2, <2>3, <3>1, <3>2, <3>3
  <2> QED BY <1>6, <2>4, <2>5, <2>6, <2>7 DEF OffStep
<1>7. ASSUME NEW o \in OffOwners, Ends(o) PROVE proof'[c] = proof[c] /\ epoch'[c] = epoch[c]
  BY <1>0, <1>7, EndsFrame
<1>8. ASSUME NEW o \in OffOwners, NEW C \in SUBSET Channels, Begins(o, C)
      PROVE  proof'[c] = NoProof \/ (proof'[c] = proof[c] /\ epoch'[c] = epoch[c])
  BY <1>8 DEF Begins
<1> QED BY <1>1, <1>2, <1>3, <1>4, <1>5, <1>6, <1>7, <1>8, StepGroups

\* What a sequence confirms it has switched off before.
LEMMA ConfirmsWritten ==
  ASSUME SequenceInv, NEW o \in OffOwners, NEW c \in Channels, Confirms(o, c)
  PROVE  Written(o, c) /\ op[o].tok[c] = epoch[c]
BY DEF Confirms, Written, MarkAccepted, OffReadReply, SequenceInv, Visiting

\* The record of an OFF write that a step of the sequence itself finds is no news.
LEMMA OffStepWritten ==
  ASSUME TypeOK, WireInv, SequenceInv, NEW o \in OffOwners, OffStep(o), NEW c \in Channels, Written(o, c)'
  PROVE  Written(o, c)
<1> USE TaskNames
<1>0. /\ op \in [OffOwners -> Ops] /\ reply \in [Tasks -> {"none", "ok", "raised", "on", "off", "bad"}]
      /\ Visiting(o)
  BY TypeParts DEF TaskTypes, WireTypes, SequenceInv
<1>1. CASE OffIssue(o)
  <2>1. PICK d \in op[o].todo, q \in Ops :
           /\ op' = [op EXCEPT ![o] = q] /\ SameClaim(q, op[o]) /\ q.pc = op[o].pc
           /\ q.failed = op[o].failed /\ q.cur = {d} /\ q.todo = op[o].todo \ {d}
    BY <1>0, <1>1, OffIssueFields
  <2>2. op'[o] = q
    BY <1>0, <2>1
  <2>3. reply'[o] = "none" /\ op[o].cur = {}
    BY <1>0, <1>1 DEF OffIssue, Visiting, Busy
  <2> QED BY <2>1, <2>2, <2>3 DEF Written, SameClaim
<1>2. ASSUME NEW d, NEW failed, NEW ok, Settles(o, d, failed, ok), op[o].failed \subseteq failed,
             op[o].pc = "write" => op[o].cur = {d} /\ d \notin op[o].todo /\ (d \in failed \/ reply[o] = "ok"),
             op[o].pc \in {"write", "read"}
      PROVE  Written(o, c)
  <2>1. /\ op'[o].chans = op[o].chans /\ op'[o].failed = failed /\ op'[o].cur = {}
        /\ op[o].todo \ {d} # {} => op'[o].pc = op[o].pc /\ op'[o].todo = op[o].todo \ {d}
        /\ op[o].todo \ {d} = {} /\ op[o].pc = "write" => op'[o].pc = "read" /\ op'[o].todo = op[o].chans
        /\ op[o].todo \ {d} = {} /\ op[o].pc # "write" => op'[o].pc = "settled" /\ op'[o].todo = {}
    BY <1>0, <1>2, SettlesFields DEF SameClaim
  <2>2. c \in op[o].chans /\ c \notin op[o].failed /\ c \notin failed
    BY <1>2, <2>1 DEF Written
  <2>3. CASE op[o].pc = "read"
    BY <2>2, <2>3 DEF Written
  <2>4. CASE op[o].pc = "write"
    <3>1. c \notin op[o].todo
      BY <1>2, <2>1, <2>4 DEF Written
    <3> QED BY <1>2, <2>2, <2>4, <3>1 DEF Written
  <2> QED BY <1>2, <2>3, <2>4
<1>3. CASE OffUnverifiable(o)
  BY <1>0, <1>2, <1>3, OffUnverifiableSettles DEF OffUnverifiable
<1>4. CASE OffWriteReply(o)
  <2>1. PICK d \in op[o].cur :
          Settles(o, d, IF reply[o] = "raised" THEN op[o].failed \cup {d} ELSE op[o].failed, op[o].ok)
    BY <1>0, <1>4, OffWriteReplySettles
  <2>2. /\ op[o].pc = "write" /\ op[o].cur = {d} /\ d \notin op[o].todo
        /\ reply[o] \in {"ok", "raised"}
    BY <1>0, <1>4, <2>1 DEF OffWriteReply, Visiting, Busy
  <2> QED BY <1>2, <2>1, <2>2
<1>5. CASE OffReadReply(o)
  <2>1. \E d, ok : Settles(o, d, op[o].failed, ok)
    BY <1>0, <1>5, OffReadReplySettles
  <2> QED BY <1>2, <1>5, <2>1 DEF OffReadReply
<1> QED BY <1>1, <1>3, <1>4, <1>5 DEF OffStep

\* Replies of the owners of sequences change only as the sequence goes on.
LEMMA ReplySteps ==
  ASSUME TypeOK, WireInv, SequenceInv, Steps, NEW o \in OffOwners, op'[o] = op[o], op[o].pc # "idle"
  PROVE  reply'[o] = reply[o] \/ (Execute /\ \E r : Served(o, r) /\ \A c \in Channels : Tells(o, r, c) /\ reply'[o] = r)
<1> USE TaskNames
<1>0. WireTypes /\ reply \in [Tasks -> {"none", "ok", "raised", "on", "off", "bad"}] /\ op \in [OffOwners -> Ops]
  BY TypeParts DEF WireTypes, TaskTypes
<1>1. CASE Execute
  <2>1. PICK t, r : Served(t, r) /\ \A c \in Channels : Tells(t, r, c)
    BY <1>1, ExecuteActs
  <2> QED BY <1>0, <1>1, <2>1, ServedBusy
<1>2. CASE PlainSteps /\ ~Execute
  <2>1. o = "life" => life \in {"connect_off", "disconnect_off"}
    BY DEF SequenceInv
  <2> QED BY <1>0, <1>2, <2>1, PlainWire DEF StartQueues
<1>3. CASE ReadReply \/ ConnectBegin
  BY <1>0, <1>3 DEF ReadReply, ConnectBegin
<1>4. ASSUME NEW d \in Channels, StartBegin(d) \/ StartProceeds(d) PROVE reply'[o] = reply[o]
  <2>1. reply' = reply \/ (op[d].pc = "idle" /\ reply' = [reply EXCEPT ![d] = "none"])
    BY <1>4 DEF StartBegin, StartProceeds, SequenceInv, Issuing
  <2> QED BY <1>0, <2>1
<1>5. ASSUME NEW x \in OffOwners, OffStep(x) PROVE reply'[o] = reply[o]
  <2>1. OffFrame(x)
    BY <1>5, OffStepFrame
  <2>2. CASE x = o
    <3>1. ASSUME OffIssue(o) PROVE reply'[o] = reply[o]
      BY <3>1 DEF OffIssue
    <3>2. ASSUME OffUnverifiable(o) PROVE reply'[o] = reply[o]
      BY <3>2 DEF OffUnverifiable
    <3>3. ASSUME OffWriteReply(o) \/ OffReadReply(o) PROVE FALSE
      <4>1. PICK d \in op[o].cur : \E failed, ok : Settles(o, d, failed, ok)
        BY <1>0, <3>3, OffWriteReplySettles, OffReadReplySettles
      <4> QED BY <1>0, <4>1, SettlesFields
    <3> QED BY <1>5, <2>2, <3>1, <3>2, <3>3 DEF OffStep
  <2>3. CASE x # o
    BY <2>1, <2>3 DEF OffFrame
  <2> QED BY <2>2, <2>3
<1>6. ASSUME NEW x \in OffOwners, Ends(x) PROVE reply'[o] = reply[o]
  BY <1>0, <1>6, EndsFrame
<1>7. ASSUME NEW x \in OffOwners, NEW C \in SUBSET Channels, Begins(x, C) PROVE reply'[o] = reply[o]
  <2>1. op[x].pc = "idle" /\ (reply' = reply \/ reply' = [reply EXCEPT ![x] = "none"])
    BY <1>7 DEF Begins
  <2> QED BY <1>0, <2>1
<1> QED BY <1>1, <1>2, <1>3, <1>4, <1>5, <1>6, <1>7, StepGroups

\* The write of o to c was acknowledged in this step, or earlier.
LEMMA WrittenSteps ==
  ASSUME TypeOK, WireInv, SequenceInv, Steps, NEW o \in OffOwners, NEW c \in Channels, Written(o, c)'
  PROVE  /\ op'[o].tok = op[o].tok /\ c \in op[o].chans
         /\ \/ Written(o, c)
            \/ /\ op[o].pc = "write" /\ op[o].cur = {c} /\ ~outputOn'[c] /\ o \in waiting /\ ahead[o] = {}
               /\ UNCHANGED <<epoch, startToken, start>> /\ waiting' \subseteq waiting
<1>0. op \in [OffOwners -> Ops]
  BY TypeParts DEF TaskTypes
<1>1. CASE op'[o] = op[o]
  <2>1. op[o].pc # "idle" /\ c \in op[o].chans /\ c \notin op[o].failed
    BY <1>1 DEF Written
  <2>2. CASE reply'[o] = reply[o]
    <3>1. Written(o, c)
      BY <1>1, <2>2 DEF Written
    <3> QED BY <1>1, <2>1, <3>1
  <2>3. CASE reply'[o] # reply[o]
    <3>1. PICK r : Served(o, r) /\ (\A d \in Channels : Tells(o, r, d)) /\ reply'[o] = r
      BY <1>1, <2>1, <2>3, ReplySteps
    <3>2. CASE op[o].pc = "write" /\ c \in op[o].cur
      <4>1. op[o].cur = {c}
        BY <3>1, <3>2 DEF SequenceInv, Visiting, Busy, Served
      <4>2. r = "ok"
        BY <1>1, <3>1, <3>2 DEF Written
      <4>3. ~outputOn'[c]
        BY <3>1, <3>2, <4>1, <4>2 DEF Tells
      <4> QED BY <1>1, <2>1, <3>1, <3>2, <4>1, <4>3 DEF Served
    <3>3. CASE ~(op[o].pc = "write" /\ c \in op[o].cur)
      <4>1. Written(o, c)
        BY <1>1, <3>3 DEF Written
      <4> QED BY <1>1, <2>1, <4>1
    <3> QED BY <3>2, <3>3
  <2> QED BY <2>2, <2>3
<1>2. CASE OffStep(o) /\ SameClaim(op'[o], op[o])
  <2>1. Written(o, c)
    BY <1>2, OffStepWritten
  <2> QED BY <1>2, <2>1 DEF SameClaim, Written
<1>3. CASE op'[o] = NoOp
  BY <1>3, NoOpTyped DEF Written
<1>4. ASSUME NEW C, op'[o].pc = "write", op'[o].chans = C, op'[o].todo = C PROVE FALSE
  BY <1>4 DEF Written
<1> QED BY <1>1, <1>2, <1>3, <1>4, ClaimSteps

\* The target was confirmed in this step, or earlier.
LEMMA AcceptedSteps ==
  ASSUME TypeOK, WireInv, SequenceInv, Steps, NEW o \in OffOwners, NEW c \in Channels, Accepted(o, c)'
  PROVE  Accepted(o, c) \/ Confirms(o, c)
<1>0. op \in [OffOwners -> Ops] /\ Visiting(o)
  BY TypeParts DEF TaskTypes, SequenceInv
<1>1. CASE op'[o] = op[o]
  BY <1>1 DEF Accepted
<1>2. CASE OffStep(o)
  <2>1. CASE OffIssue(o)
    <3>1. PICK d \in op[o].todo, q \in Ops :
           /\ op' = [op EXCEPT ![o] = q] /\ SameClaim(q, op[o]) /\ q.pc = op[o].pc
           /\ q.failed = op[o].failed /\ q.ok = op[o].ok /\ q.cur = {d} /\ q.todo = op[o].todo \ {d}
      BY <1>0, <2>1, OffIssueFields
    <3>2. op'[o] = q /\ op[o].cur = {} /\ op[o].pc \in {"write", "read"}
      BY <1>0, <2>1, <3>1 DEF OffIssue
    <3> QED BY <3>1, <3>2 DEF Accepted, SameClaim
  <2>2. ASSUME NEW d, NEW failed, NEW ok, Settles(o, d, failed, ok), op[o].pc \in {"write", "read"}
        PROVE  op[o].pc # "write" /\ (op[o].pc = "read" /\ op[o].ok /\ c # d => Accepted(o, c)) /\ ok = TRUE
    <3>1. /\ op'[o].chans = op[o].chans /\ op'[o].cur = {} /\ op'[o].ok = ok
          /\ op[o].todo \ {d} # {} => op'[o].pc = op[o].pc /\ op'[o].todo = op[o].todo \ {d}
          /\ op[o].todo \ {d} = {} /\ op[o].pc = "write" => op'[o].pc = "read" /\ op'[o].todo = op[o].chans
          /\ op[o].todo \ {d} = {} /\ op[o].pc # "write" => op'[o].pc = "settled" /\ op'[o].todo = {}
      BY <1>0, <2>2, SettlesFields DEF SameClaim
    <3>2. ok \in BOOLEAN /\ (op[o].cur = {} \/ op[o].cur = {d})
      BY <2>2 DEF Settles
    <3>3. ok = TRUE
      BY <3>1, <3>2 DEF Accepted
    <3>4. op[o].pc # "write"
      BY <3>1 DEF Accepted
    <3>5. c # d => c \notin op[o].todo \cup op[o].cur
      BY <2>2, <3>1, <3>2, <3>4 DEF Accepted
    <3> QED BY <3>1, <3>3, <3>4, <3>5 DEF Accepted
  <2>3. CASE OffUnverifiable(o)
    <3>1. op[o].pc = "read" /\ \E d : Settles(o, d, op[o].failed, FALSE)
      BY <1>0, <2>3, OffUnverifiableSettles DEF OffUnverifiable
    <3> QED BY <2>2, <3>1
  <2>4. CASE OffWriteReply(o)
    <3>1. op[o].pc = "write" /\ \E d, failed : Settles(o, d, failed, op[o].ok)
      BY <1>0, <2>4, OffWriteReplySettles DEF OffWriteReply
    <3> QED BY <2>2, <3>1
  <2>5. CASE OffReadReply(o)
    <3>1. PICK d \in op[o].cur :
            \/ d \notin op[o].failed /\ Settles(o, d, op[o].failed, op[o].ok /\ MarkAccepted(o, d))
            \/ Settles(o, d, op[o].failed, FALSE)
      BY <1>0, <2>5, OffReadReplySettles
    <3>2. op[o].pc = "read" /\ op[o].cur = {d}
      BY <1>0, <2>5, <3>1 DEF OffReadReply, Visiting, Busy
    <3>3. ~Settles(o, d, op[o].failed, FALSE)
      BY <2>2, <3>2
    <3>4. d \notin op[o].failed /\ Settles(o, d, op[o].failed, op[o].ok /\ MarkAccepted(o, d))
      BY <3>1, <3>3
    <3>5. op[o].ok /\ MarkAccepted(o, d) /\ (op[o].pc = "read" /\ op[o].ok /\ c # d => Accepted(o, c))
      BY <2>2, <3>2, <3>4
    <3> QED BY <2>5, <3>2, <3>4, <3>5 DEF Confirms
  <2> QED BY <1>2, <2>1, <2>3, <2>4, <2>5 DEF OffStep
<1>3. CASE op'[o] = NoOp
  BY <1>3, NoOpTyped DEF Accepted
<1>4. CASE op'[o].pc = "write"
  BY <1>4 DEF Accepted
<1> QED BY <1>1, <1>2, <1>3, <1>4, ClaimSteps

\* No start owns a channel that an OFF sequence holds.
LEMMA HeldNotCurrent ==
  ASSUME TypeOK, DepthInv, NEW o \in OffOwners, NEW c \in op[o].chans
  PROVE  ~StartOperationIsCurrent(c, startToken[c])
<1>1. c \in Channels
  BY TypeParts DEF TaskTypes, Ops
<1>2. IsFiniteSet(OffHolders(c)) /\ Cardinality(OffHolders(c)) = offDepth[c] /\ o \in OffHolders(c)
  BY <1>1 DEF DepthInv, OffHolders
<1>3. offDepth[c] # 0
  BY <1>2, FS_EmptySet
<1> QED BY <1>3 DEF StartOperationIsCurrent

LEMMA EvidencePreserved ==
  ASSUME TypeOK, WireInv, SequenceInv, TokenInv, DepthInv, BehindOns, EvidenceInv, Steps
  PROVE  EvidenceInv'
<1> USE TaskNames
<1>0. op \in [OffOwners -> Ops]
  BY TypeParts DEF TaskTypes
<1>1. ASSUME NEW c \in Channels, proof'[c] # NoProof
      PROVE  proof'[c].epoch = epoch'[c] /\ Quiet(c)'
  <2>1. CASE proof'[c] = proof[c] /\ epoch'[c] = epoch[c]
    BY <1>1, <2>1, QuietStays DEF EvidenceInv
  <2>2. ASSUME NEW o \in OffOwners, Confirms(o, c), proof'[c].epoch = epoch[c], epoch'[c] = epoch[c]
        PROVE  proof'[c].epoch = epoch'[c] /\ Quiet(c)'
    BY <2>2, ConfirmsWritten, QuietStays DEF EvidenceInv
  <2> QED BY <1>1, <2>1, <2>2, ProofSteps
<1>2. ASSUME NEW o \in OffOwners, NEW c \in Channels, Written(o, c)', op'[o].tok[c] = epoch'[c]
      PROVE  Quiet(c)'
  <2>1. /\ op'[o].tok = op[o].tok /\ c \in op[o].chans
        /\ \/ Written(o, c)
           \/ /\ op[o].pc = "write" /\ op[o].cur = {c} /\ ~outputOn'[c] /\ o \in waiting /\ ahead[o] = {}
              /\ UNCHANGED <<epoch, startToken, start>> /\ waiting' \subseteq waiting
    BY <1>2, WrittenSteps
  <2>2. op[o].tok[c] # 0 /\ op[o].tok[c] =< epoch[c] /\ op[o].tok[c] # startToken[c] /\ op[o].tok[c] \in Nat
    BY <1>0, <2>1 DEF TokenInv, Ops
  <2>3. epoch'[c] = epoch[c] /\ op[o].tok[c] = epoch[c]
    BY <1>2, <2>1, <2>2, EpochSteps
  <2>4. CASE Written(o, c)
    BY <2>3, <2>4, QuietStays DEF EvidenceInv
  <2>5. CASE /\ op[o].pc = "write" /\ op[o].cur = {c} /\ ~outputOn'[c] /\ o \in waiting /\ ahead[o] = {}
             /\ UNCHANGED <<epoch, startToken, start>> /\ waiting' \subseteq waiting
    <3>1. ~(c \in waiting /\ start[c] = "on")
      BY <2>3, <2>5 DEF BehindOns
    <3> QED BY <2>2, <2>3, <2>5, <3>1 DEF Quiet, Calm, Off
  <2> QED BY <2>1, <2>4, <2>5
<1>3. ASSUME NEW o \in OffOwners, NEW c \in Channels, Accepted(o, c)'
      PROVE  Calm(c)'
  <2>1. Calm(c) /\ c \in op[o].chans
    <3>1. CASE Accepted(o, c)
      BY <3>1 DEF EvidenceInv, Accepted
    <3>2. CASE Confirms(o, c)
      BY <3>2, ConfirmsWritten DEF EvidenceInv, Quiet, Written
    <3> QED BY <1>3, <3>1, <3>2, AcceptedSteps
  <2> QED BY <2>1, HeldNotCurrent, CalmStays
<1> QED BY <1>1, <1>2, <1>3 DEF EvidenceInv

(***************************************************************************)
(* The connection owner.                                                   *)
(***************************************************************************)

\* What a current proof of every channel, or a sequence that ended well, entitles
\* the connection owner to: all channels are calm.
LEMMA ProvedIsCalm ==
  ASSUME EvidenceInv, \A c \in Channels : HasCurrentOffProof(c)
  PROVE  \A c \in Channels : Calm(c)
BY DEF EvidenceInv, HasCurrentOffProof, HasCurrentOffReadback, Quiet

LEMMA EndedWellIsCalm ==
  ASSUME EvidenceInv, NEW o \in OffOwners, op[o].pc = "settled", op[o].ok, NEW c \in Channels, c \in op[o].chans
  PROVE  Calm(c)
BY DEF EvidenceInv, Accepted

\* The stages of the owner, step by step.
LEMMA LifeSteps ==
  ASSUME TypeOK, WireInv, SequenceInv, LifeInv, Steps
  PROVE  \/ UNCHANGED <<life, connecting, disconnecting>>
         \/ ConnectBegin
         \/ /\ ~connecting' /\ ~disconnecting'
            /\ life' \in {"idle", "settling", "failed_close"}
         \/ life = "opening" /\ life' = "connect_off" /\ UNCHANGED <<connecting, disconnecting, start>>
         \/ ConnectOffDone /\ op["life"].ok /\ life' = "connect_tail" /\ UNCHANGED <<connecting, disconnecting>>
         \/ life = "idle" /\ life' = "disconnect_off" /\ disconnecting' = TRUE /\ UNCHANGED connecting
         \/ DisconnectProved
         \/ DisconnectOffDone /\ op["life"].ok /\ life' = "closing" /\ UNCHANGED <<connecting, disconnecting>>
<1> USE TaskNames DEF lifecycle
<1>0. op \in [OffOwners -> Ops]
  BY TypeParts DEF TaskTypes
<1>1. CASE Execute
  <2>1. PICK t, r : Served(t, r)
    BY <1>1, ExecuteActs
  <2>2. UNCHANGED <<life, connecting, disconnecting>>
    BY <2>1 DEF Served
  <2> QED BY <2>2
<1>2. CASE OffUnavailable \/ ReadIssue \/ ReadReply
           \/ \E c \in Channels : FrontPanelOn(c) \/ StartBegin(c) \/ StartQueues(c) \/ StartProceeds(c)
                                  \/ StartCleanupDone(c) \/ ReadBegin(c)
  <2>1. UNCHANGED <<life, connecting, disconnecting>>
    BY <1>2 DEF OffUnavailable, ReadIssue, ReadReply, FrontPanelOn, StartBegin, StartQueues, StartProceeds,
                StartCleanupDone, ReadBegin
  <2> QED BY <2>1
<1>3. CASE \/ \E o \in OffOwners : OffStep(o)
           \/ \E o \in Callers : OffReturn(o)
  BY <1>3, OffStepFrame DEF OffFrame, OffReturn
<1>4. ASSUME NEW o \in OffOwners, NEW C \in SUBSET Channels, Begins(o, C)
      PROVE  \/ UNCHANGED <<life, connecting, disconnecting>>
             \/ life = "opening" /\ life' = "connect_off" /\ UNCHANGED <<connecting, disconnecting, start>>
             \/ life = "idle" /\ life' = "disconnect_off" /\ disconnecting' = TRUE /\ UNCHANGED connecting
  BY <1>4 DEF Begins
<1>5. CASE ConnectSettle \/ ConnectSettled \/ ConnectOpenFailed \/ ConnectSucceeds \/ ConnectTailFailed
           \/ FailedConnectClosed \/ Disconnected
  BY <1>5 DEF ConnectSettle, ConnectSettled, ConnectOpenFailed, ConnectSucceeds, ConnectTailFailed,
              FailedConnectClosed, Disconnected, ConnectRaises, FailedConnectCloses, LifeInv
<1>6. CASE ConnectOffDone
  BY <1>6 DEF ConnectOffDone, LifeInv
<1>7. CASE DisconnectOffDone
  BY <1>7 DEF DisconnectOffDone, LifeInv
<1> QED BY <1>1, <1>2, <1>3, <1>4, <1>5, <1>6, <1>7 DEF Steps

LEMMA LifePreserved ==
  ASSUME TypeOK, WireInv, SequenceInv, TokenInv, LifeInv, EvidenceInv, Steps
  PROVE  LifeInv'
<1> USE TaskNames
<1>0. /\ op \in [OffOwners -> Ops] /\ connecting \in BOOLEAN /\ disconnecting \in BOOLEAN
      /\ start \in [Channels -> {"idle", "configure", "on", "readback", "cleanup"}]
  BY TypeParts DEF TaskTypes, LifecycleTypes
<1>1. /\ connecting' <=> life' \in {"opening", "connect_off", "connect_tail"}
      /\ disconnecting' <=> life' \in {"disconnect_off", "closing"}
  <2>0. /\ connecting <=> life \in {"opening", "connect_off", "connect_tail"}
        /\ disconnecting <=> life \in {"disconnect_off", "closing"}
    BY DEF LifeInv
  <2>1. CASE ConnectBegin
    <3>1. connecting' = TRUE /\ life' = "opening" /\ life = "idle" /\ UNCHANGED disconnecting
      BY <2>1 DEF ConnectBegin
    <3> QED BY <2>0, <3>1
  <2>2. CASE DisconnectProved
    <3>1. disconnecting' = TRUE /\ life' = "closing" /\ life = "idle" /\ UNCHANGED connecting
      BY <2>2 DEF DisconnectProved
    <3> QED BY <2>0, <3>1
  <2>3. CASE ConnectOffDone /\ life' = "connect_tail" /\ UNCHANGED <<connecting, disconnecting>>
    <3>1. life = "connect_off"
      BY <2>3 DEF ConnectOffDone
    <3> QED BY <2>0, <2>3, <3>1
  <2>4. CASE DisconnectOffDone /\ life' = "closing" /\ UNCHANGED <<connecting, disconnecting>>
    <3>1. life = "disconnect_off"
      BY <2>4 DEF DisconnectOffDone
    <3> QED BY <2>0, <2>4, <3>1
  <2>5. CASE UNCHANGED <<life, connecting, disconnecting>>
    BY <2>0, <2>5
  <2>6. CASE ~connecting' /\ ~disconnecting' /\ life' \in {"idle", "settling", "failed_close"}
    BY <2>6
  <2>7. CASE life = "opening" /\ life' = "connect_off" /\ UNCHANGED <<connecting, disconnecting>>
    BY <2>0, <2>7
  <2>8. CASE life = "idle" /\ life' = "disconnect_off" /\ disconnecting' = TRUE /\ UNCHANGED connecting
    BY <2>0, <2>8
  <2> QED BY <2>1, <2>2, <2>3, <2>4, <2>5, <2>6, <2>7, <2>8, LifeSteps
<1>2. connecting' => \A c \in Channels : start'[c] = "idle"
  <2>1. CASE connecting /\ connecting'
    <3>1. SUFFICES ASSUME NEW c \in Channels PROVE start'[c] = "idle"
      OBVIOUS
    <3>2. \A d \in Channels : start[d] = "idle"
      BY <2>1 DEF LifeInv
    <3>3. CASE PlainSteps \/ ReadReply \/ ConnectBegin
      BY <3>2, <3>3, PlainFrame DEF ReadReply, ConnectBegin
    <3>4. ASSUME NEW o \in OffOwners, OffStep(o) PROVE start'[c] = "idle"
      BY <3>2, <3>4, OffStepFrame DEF OffFrame
    <3>5. ASSUME NEW o \in OffOwners, Ends(o) PROVE start'[c] = "idle"
      BY <1>0, <3>2, <3>5 DEF Ends, OffReturn, StartCleanupDone, ConnectOffDone, DisconnectOffDone
    <3>6. ASSUME NEW o \in OffOwners, NEW C \in SUBSET Channels, Begins(o, C) PROVE start'[c] = "idle"
      BY <3>2, <3>6 DEF Begins, Issuing
    <3>7. ASSUME NEW d \in Channels, StartBegin(d) \/ StartProceeds(d) PROVE FALSE
      BY <2>1, <3>7 DEF StartBegin, StartProceeds, Operational, StartOperationIsCurrent
    <3> QED BY <3>3, <3>4, <3>5, <3>6, <3>7, StepGroups
  <2>2. CASE ~connecting /\ connecting'
    <3>1. ConnectBegin
      BY <2>2, LifeSteps DEF DisconnectProved
    <3> QED BY <3>1 DEF ConnectBegin, TokenInv
  <2> QED BY <1>0, <2>1, <2>2
<1>3. life' \in {"connect_tail", "closing"} => \A c \in Channels : Calm(c)'
  <2>1. SUFFICES ASSUME life' \in {"connect_tail", "closing"}, NEW c \in Channels PROVE Calm(c)'
    OBVIOUS
  <2>2. CASE connecting \/ disconnecting
    <3>1. ~StartOperationIsCurrent(c, startToken[c])
      BY <2>2 DEF StartOperationIsCurrent
    <3>2. Calm(c)
      <4>1. CASE life' = life
        BY <2>1, <4>1 DEF LifeInv
      <4>2. CASE (ConnectOffDone \/ DisconnectOffDone) /\ op["life"].ok
        <5>1. op["life"].pc = "settled" /\ op["life"].chans = Channels
          BY <4>2 DEF ConnectOffDone, DisconnectOffDone, FinishOff, SequenceInv
        <5> QED BY <4>2, <5>1, EndedWellIsCalm
      <4>3. CASE DisconnectProved
        BY <4>3, ProvedIsCalm DEF DisconnectProved
      <4> QED BY <2>1, <4>1, <4>2, <4>3, LifeSteps DEF ConnectBegin
    <3> QED BY <3>1, <3>2, CalmStays
  <2>3. CASE ~(connecting \/ disconnecting)
    <3>1. DisconnectProved
      BY <2>1, <2>3, LifeSteps DEF ConnectBegin, LifeInv, ConnectOffDone, DisconnectOffDone
    <3>2. Calm(c)
      BY <3>1, ProvedIsCalm DEF DisconnectProved
    <3>3. UNCHANGED <<outputOn, tampered, start>> /\ (c \in waiting' => c \in waiting)
      BY <3>1 DEF DisconnectProved, Enqueue
    <3> QED BY <3>2, <3>3 DEF Calm, Off
  <2> QED BY <2>2, <2>3
<1> QED BY <1>1, <1>2, <1>3 DEF LifeInv

\* output_state_unverified is withdrawn only over a current proof of every channel.
LEMMA CertaintyPreserved ==
  ASSUME TypeOK, WireInv, SequenceInv, CertaintyInv, LifeInv, Steps
  PROVE  CertaintyInv'
<1> USE TaskNames DEF evidence, lifecycle
<1>0. op \in [OffOwners -> Ops]
  BY TypeParts DEF TaskTypes
<1>u. ASSUME unsafe' = TRUE PROVE CertaintyInv'
  BY <1>u DEF CertaintyInv
<1>r. ASSUME RefreshOutputUncertainty PROVE CertaintyInv'
  BY <1>r DEF CertaintyInv, RefreshOutputUncertainty
<1>s. ASSUME UNCHANGED <<epoch, startToken, offDepth, proof, unsafe, gen>>, TransportAvailable' => TransportAvailable
      PROVE  CertaintyInv'
  BY <1>s DEF CertaintyInv, HasCurrentOffProof, HasCurrentOffReadback
<1>e. ASSUME UNCHANGED <<epoch, startToken, offDepth, gen, connecting>>, EnterRecovery PROVE CertaintyInv'
  <2>1. CASE connected
    BY <1>e, <1>u, <2>1 DEF EnterRecovery
  <2>2. CASE ~connected
    BY <1>e, <1>s, <2>2 DEF EnterRecovery, TransportAvailable
  <2> QED BY <2>1, <2>2
<1>1. CASE Execute \/ ReadIssue \/ \E c \in Channels : FrontPanelOn(c) \/ StartQueues(c) \/ ReadBegin(c)
  <2>1. UNCHANGED <<epoch, startToken, offDepth, proof, unsafe, gen, connected, recovery, connecting>>
    BY <1>1, ExecuteActs DEF Served, ReadIssue, FrontPanelOn, StartQueues, ReadBegin
  <2> QED BY <1>s, <2>1 DEF TransportAvailable
<1>2. CASE OffUnavailable \/ ConnectBegin \/ ConnectOpenFailed \/ ConnectTailFailed \/ FailedConnectClosed
           \/ Disconnected \/ \E c \in Channels : StartBegin(c)
  <2>1. unsafe' = TRUE
    BY <1>2 DEF OffUnavailable, ConnectBegin, ConnectOpenFailed, ConnectTailFailed, FailedConnectClosed,
                Disconnected, StartBegin, ConnectRaises, FailedConnectCloses, RevokeOffEvidence
  <2> QED BY <1>u, <2>1
<1>3. CASE ReadReply
  <2>1. UNCHANGED <<startToken, offDepth, gen, connecting>>
    BY <1>3 DEF ReadReply
  <2>2. CASE EnterRecovery /\ UNCHANGED epoch
    BY <1>e, <2>1, <2>2
  <2>3. CASE UNCHANGED <<connected, recovery, epoch, proof, unsafe>>
    BY <1>s, <2>1, <2>3 DEF TransportAvailable
  <2>4. CASE unsafe' = TRUE
    BY <1>u, <2>4
  <2> QED BY <1>3, <2>2, <2>3, <2>4 DEF ReadReply, RecordUnsafeOutput
<1>4. ASSUME NEW o \in OffOwners, OffStep(o) PROVE CertaintyInv'
  <2>1. UNCHANGED <<epoch, startToken, offDepth, gen, connecting>>
    BY <1>4, OffStepFrame DEF OffFrame
  <2>2. ASSUME NEW c \in Channels, InvalidateIfOwned(o, c), UNCHANGED <<connected, recovery>> PROVE CertaintyInv'
    BY <1>s, <1>u, <2>1, <2>2 DEF InvalidateIfOwned, TransportAvailable
  <2>3. op[o].cur \subseteq Channels /\ op[o].todo \subseteq Channels
    BY <1>0 DEF Ops
  <2>4. CASE OffIssue(o)
    BY <1>s, <2>1, <2>4 DEF OffIssue, TransportAvailable
  <2>5. CASE OffUnverifiable(o)
    <3>1. PICK c \in op[o].todo : InvalidateIfOwned(o, c)
      BY <1>0, <2>5, OffUnverifiableSettles
    <3>2. UNCHANGED <<connected, recovery>>
      BY <2>5 DEF OffUnverifiable
    <3> QED BY <2>2, <2>3, <3>1, <3>2
  <2>6. CASE OffWriteReply(o)
    <3>1. EnterRecovery \/ UNCHANGED <<connected, recovery, proof, unsafe>>
      BY <2>6 DEF OffWriteReply
    <3> QED BY <1>e, <1>s, <2>1, <3>1 DEF TransportAvailable
  <2>7. CASE OffReadReply(o)
    <3>1. PICK c \in op[o].cur :
            \/ RefreshOutputUncertainty
            \/ UNCHANGED <<proof, unsafe, connected, recovery>>
            \/ EnterRecovery
            \/ InvalidateIfOwned(o, c) /\ UNCHANGED <<connected, recovery>>
      BY <1>0, <2>7, OffReadReplySettles
    <3> QED BY <1>e, <1>r, <1>s, <2>1, <2>2, <2>3, <3>1 DEF TransportAvailable
  <2> QED BY <1>4, <2>4, <2>5, <2>6, <2>7 DEF OffStep
<1>5. ASSUME NEW o \in OffOwners, Ends(o) PROVE CertaintyInv'
  <2>1. unsafe' = TRUE \/ RefreshOutputUncertainty
    BY <1>5 DEF Ends, OffReturn, StartCleanupDone, ConnectOffDone, DisconnectOffDone
  <2> QED BY <1>r, <1>u, <2>1
<1>6. ASSUME NEW o \in OffOwners, NEW C \in SUBSET Channels, Begins(o, C) PROVE CertaintyInv'
  BY <1>6, <1>u DEF Begins
<1>7. ASSUME NEW c \in Channels, StartProceeds(c) PROVE CertaintyInv'
  <2>1. \/ RefreshOutputUncertainty
        \/ UNCHANGED <<epoch, startToken, offDepth, proof, unsafe, gen, connected, recovery, connecting>>
    BY <1>7 DEF StartProceeds
  <2> QED BY <1>r, <1>s, <2>1 DEF TransportAvailable
<1>8. CASE ConnectSettle \/ DisconnectProved
  <2>1. UNCHANGED <<epoch, startToken, offDepth, proof, unsafe, gen, connected, recovery, connecting>>
    BY <1>8 DEF ConnectSettle, DisconnectProved
  <2> QED BY <1>s, <2>1 DEF TransportAvailable
<1>9. CASE ConnectSettled
  <2>1. unsafe' = TRUE \/ UNCHANGED <<epoch, startToken, offDepth, proof, unsafe, gen, connected, recovery, connecting>>
    BY <1>9 DEF ConnectSettled, RevokeOffEvidence
  <2> QED BY <1>s, <1>u, <2>1 DEF TransportAvailable
<1>10. CASE ConnectSucceeds
  <2>1. UNCHANGED <<epoch, startToken, offDepth, proof, unsafe, gen>> /\ connecting
    BY <1>10 DEF ConnectSucceeds, LifeInv
  <2> QED BY <1>s, <2>1 DEF TransportAvailable
<1> QED BY <1>1, <1>2, <1>3, <1>4, <1>5, <1>6, <1>7, <1>8, <1>9, <1>10, StepGroups DEF PlainSteps

(***************************************************************************)
(* Live outputs are accounted for.                                         *)
(***************************************************************************)

\* How a channel comes to be managed, and how it ceases to be.
LEMMA ManagedSteps ==
  ASSUME TypeOK, WireInv, SequenceInv, Steps, NEW c \in Channels
  PROVE  \/ /\ start'[c] = start[c] /\ attempted'[c] = attempted[c]
            /\ \/ startToken'[c] = startToken[c] /\ active'[c] = active[c]
               \/ startToken'[c] = startToken[c] /\ \E o \in OffOwners : Confirms(o, c)
               \/ ConnectBegin
         \/ StartBegin(c) /\ start'[c] = "configure" /\ startToken'[c] # 0
         \/ /\ start[c] \in Issuing /\ start'[c] \in {"on", "readback", "idle"}
            /\ attempted'[c] = TRUE /\ active'[c] = TRUE
         \/ /\ start[c] \in Issuing /\ start'[c] = "cleanup" /\ Begins(c, {c})
            /\ attempted'[c] = attempted[c] /\ startToken'[c] = startToken[c] /\ active'[c] = active[c]
         \/ StartCleanupDone(c) /\ start'[c] = "idle"
<1> USE TaskNames
<1>0. /\ EvidenceTypes /\ TaskTypes /\ op \in [OffOwners -> Ops]
      /\ start \in [Channels -> {"idle", "configure", "on", "readback", "cleanup"}]
      /\ attempted \in [Channels -> BOOLEAN] /\ active \in [Channels -> BOOLEAN]
      /\ startToken \in [Channels -> Nat] /\ epoch \in [Channels -> Nat]
  BY TypeParts DEF TaskTypes, EvidenceTypes
<1> DEFINE Same == /\ start'[c] = start[c] /\ attempted'[c] = attempted[c]
                   /\ startToken'[c] = startToken[c] /\ active'[c] = active[c]
<1>1. CASE PlainSteps
  BY <1>1, PlainFrame
<1>2. CASE ReadReply
  <2>1. Same
    BY <1>2 DEF ReadReply
  <2> QED BY <2>1
<1>3. CASE ConnectBegin
  <2>1. start'[c] = start[c] /\ attempted'[c] = attempted[c]
    BY <1>3 DEF ConnectBegin
  <2> QED BY <1>3, <2>1
<1>4. ASSUME NEW d \in Channels, StartBegin(d)
      PROVE  Same \/ (d = c /\ start'[c] = "configure" /\ startToken'[c] # 0)
  <2>1. /\ start' = [start EXCEPT ![d] = "configure"] /\ attempted' = [attempted EXCEPT ![d] = FALSE]
        /\ startToken' = [startToken EXCEPT ![d] = epoch[d] + 1] /\ active' = active
    BY <1>4 DEF StartBegin
  <2>2. startToken'[d] # 0 /\ start'[d] = "configure"
    BY <1>0, <2>1
  <2> QED BY <1>0, <2>1, <2>2
<1>5. ASSUME NEW d \in Channels, StartProceeds(d)
      PROVE  \/ Same
             \/ /\ start[c] \in Issuing /\ start'[c] \in {"on", "readback", "idle"}
                /\ attempted'[c] = TRUE /\ active'[c] = TRUE
  <2>1. /\ start[d] \in Issuing
        /\ active' = [active EXCEPT ![d] = TRUE] /\ attempted' = [attempted EXCEPT ![d] = TRUE]
        /\ \E s \in {"on", "readback", "idle"} : start' = [start EXCEPT ![d] = s]
        /\ startToken' = startToken \/ startToken' = [startToken EXCEPT ![d] = 0]
    BY <1>5 DEF StartProceeds
  <2> QED BY <1>0, <2>1
<1>6. ASSUME NEW o \in OffOwners, OffStep(o)
      PROVE  \/ Same
             \/ start'[c] = start[c] /\ attempted'[c] = attempted[c] /\ startToken'[c] = startToken[c] /\ Confirms(o, c)
  <2>1. UNCHANGED <<start, attempted, startToken>>
    BY <1>6, OffStepFrame DEF OffFrame
  <2>2. CASE OffIssue(o) \/ OffUnverifiable(o) \/ OffWriteReply(o)
    <3>1. active' = active
      BY <2>2 DEF OffIssue, OffUnverifiable, OffWriteReply, evidence
    <3> QED BY <2>1, <3>1
  <2>3. CASE OffReadReply(o)
    <3>1. PICK d \in op[o].cur :
            \/ d \notin op[o].failed /\ MarkAccepted(o, d) /\ MarkChannelOffVerified(d)
            \/ UNCHANGED active
      BY <1>0, <2>3, OffReadReplySettles
    <3>2. op[o].cur = {d} /\ d \in Channels
      BY <2>3, <3>1 DEF OffReadReply, SequenceInv, Visiting, Busy
    <3>3. CASE d = c /\ d \notin op[o].failed /\ MarkAccepted(o, d)
      <4>1. Confirms(o, c)
        BY <2>3, <3>2, <3>3 DEF Confirms
      <4> QED BY <2>1, <4>1
    <3>4. CASE UNCHANGED active
      BY <2>1, <3>4
    <3>5. CASE d # c /\ MarkChannelOffVerified(d)
      <4>1. active'[c] = active[c]
        BY <1>0, <3>2, <3>5 DEF MarkChannelOffVerified
      <4> QED BY <2>1, <4>1
    <3> QED BY <3>1, <3>3, <3>4, <3>5
  <2> QED BY <1>6, <2>2, <2>3 DEF OffStep
<1>7. ASSUME NEW o \in OffOwners, Ends(o)
      PROVE  Same \/ (StartCleanupDone(c) /\ start'[c] = "idle")
  <2>1. CASE o = "life" \/ o \in Callers
    <3>1. UNCHANGED <<start, attempted, startToken, active>>
      BY <1>7, <2>1 DEF Ends, OffReturn, ConnectOffDone, DisconnectOffDone
    <3> QED BY <3>1
  <2>2. CASE o \in Channels
    <3>1. StartCleanupDone(o)
      BY <1>7, <2>2 DEF Ends
    <3>2. /\ start' = [start EXCEPT ![o] = "idle"] /\ startToken' = [startToken EXCEPT ![o] = 0]
          /\ attempted' = attempted
          /\ active' = active \/ active' = [active EXCEPT ![o] = attempted[o]]
      BY <3>1 DEF StartCleanupDone
    <3> QED BY <1>0, <2>2, <3>1, <3>2
  <2> QED BY <1>7, <2>1, <2>2 DEF Ends
<1>8. ASSUME NEW o \in OffOwners, NEW C \in SUBSET Channels, Begins(o, C)
      PROVE  \/ Same
             \/ /\ start[c] \in Issuing /\ start'[c] = "cleanup" /\ Begins(c, {c})
                /\ attempted'[c] = attempted[c] /\ startToken'[c] = startToken[c] /\ active'[c] = active[c]
  <2>1. UNCHANGED <<attempted, startToken, active>>
    BY <1>8 DEF Begins
  <2>2. CASE UNCHANGED start
    BY <2>1, <2>2
  <2>3. CASE o \in Channels /\ C = {o} /\ start[o] \in Issuing /\ start' = [start EXCEPT ![o] = "cleanup"]
    <3>1. CASE o = c
      <4>1. start'[c] = "cleanup"
        BY <1>0, <2>3, <3>1
      <4> QED BY <1>8, <2>1, <2>3, <3>1, <4>1
    <3>2. CASE o # c
      BY <1>0, <2>1, <2>3, <3>2
    <3> QED BY <3>1, <3>2
  <2> QED BY <1>8, <2>2, <2>3 DEF Begins
<1> QED BY <1>1, <1>2, <1>3, <1>4, <1>5, <1>6, <1>7, <1>8, StepGroups

\* The driver connects only at the end of connect().
LEMMA ConnectedSteps ==
  ASSUME TypeOK, WireInv, SequenceInv, Steps, connected'
  PROVE  connected \/ life = "connect_tail"
<1> USE TaskNames DEF lifecycle
<1>1. CASE Execute
  <2>1. PICK t, r : Served(t, r)
    BY <1>1, ExecuteActs
  <2> QED BY <2>1 DEF Served
<1>2. CASE OffUnavailable \/ ReadIssue \/ \E c \in Channels : FrontPanelOn(c) \/ StartQueues(c) \/ ReadBegin(c)
  BY <1>2 DEF OffUnavailable, ReadIssue, FrontPanelOn, StartQueues, ReadBegin
<1>3. CASE ConnectSettle \/ ConnectSettled \/ ConnectOpenFailed \/ ConnectSucceeds
           \/ ConnectTailFailed \/ FailedConnectClosed \/ DisconnectProved \/ Disconnected
  BY <1>3 DEF ConnectSettle, ConnectSettled, ConnectOpenFailed, ConnectSucceeds, ConnectTailFailed,
              FailedConnectClosed, DisconnectProved, Disconnected, FailedConnectCloses, ConnectRaises
<1>4. CASE ReadReply \/ ConnectBegin \/ \E c \in Channels : StartBegin(c) \/ StartProceeds(c)
  BY <1>4 DEF ReadReply, EnterRecovery, ConnectBegin, StartBegin, StartProceeds
<1>5. ASSUME NEW o \in OffOwners, OffStep(o) PROVE connected
  BY <1>5, OffStepFrame DEF OffFrame
<1>6. ASSUME NEW o \in OffOwners, Ends(o) PROVE connected
  BY <1>6 DEF Ends, OffReturn, StartCleanupDone, ConnectOffDone, DisconnectOffDone
<1>7. ASSUME NEW o \in OffOwners, NEW C \in SUBSET Channels, Begins(o, C) PROVE connected
  BY <1>7 DEF Begins
<1> QED BY <1>1, <1>2, <1>3, <1>4, <1>5, <1>6, <1>7, StepGroups DEF PlainSteps

LEMMA TrackedPreserved ==
  ASSUME TypeOK, WireInv, SequenceInv, TokenInv, LifeInv, EvidenceInv, TrackedInv, Steps
  PROVE  TrackedInv'
<1> USE TaskNames
<1>0. op \in [OffOwners -> Ops] /\ attempted \in [Channels -> BOOLEAN]
  BY TypeParts DEF TaskTypes
<1> SUFFICES ASSUME NEW c \in Channels
             PROVE  /\ connected' => Off(c)' \/ active'[c] \/ startToken'[c] # 0
                    /\ start'[c] # "idle" /\ ~attempted'[c] => Off(c)'
                    /\ start'[c] \in {"on", "readback"} => attempted'[c]
                    /\ start'[c] = "cleanup" => c \in op'[c].chans
  BY DEF TrackedInv
<1>t. /\ connected => Off(c) \/ active[c] \/ startToken[c] # 0
      /\ start[c] # "idle" /\ ~attempted[c] => Off(c)
      /\ start[c] \in {"on", "readback"} => attempted[c]
      /\ start[c] = "cleanup" => c \in op[c].chans
  BY DEF TrackedInv
<1>m. start'[c] # "idle" => \/ start'[c] = start[c] /\ attempted'[c] = attempted[c]
                            \/ StartBegin(c) /\ start'[c] = "configure"
                            \/ start[c] \in Issuing /\ attempted'[c] /\ start'[c] # "cleanup"
                            \/ start[c] \in Issuing /\ attempted'[c] = attempted[c] /\ start'[c] = "cleanup"
  BY ManagedSteps
<1>1. CASE Off(c) /\ ~Off(c)'
  <2>1. start[c] = "on" /\ UNCHANGED <<startToken, attempted, start>>
    BY <1>1, OffStays
  <2>2. startToken[c] # 0
    BY <2>1 DEF TokenInv
  <2> QED BY <1>t, <2>1, <2>2
<1>2. ASSUME connected', ~Off(c)', ~Off(c) PROVE active'[c] \/ startToken'[c] # 0
  <2>1. connected
    BY <1>2, ConnectedSteps DEF LifeInv, Calm
  <2>2. active[c] \/ startToken[c] # 0
    BY <1>2, <1>t, <2>1
  <2>3. ~ConnectBegin
    BY <2>1 DEF ConnectBegin
  <2>4. \A o \in OffOwners : ~Confirms(o, c)
    BY <1>2, ConfirmsWritten DEF EvidenceInv, Quiet, Calm
  <2>5. CASE StartCleanupDone(c)
    <3>1. start[c] = "cleanup" /\ op[c].pc = "settled"
      BY <2>5 DEF StartCleanupDone, FinishOff
    <3>2. ~op[c].ok
      BY <1>2, <1>t, <3>1, EndedWellIsCalm DEF Calm
    <3>3. active' = [active EXCEPT ![c] = attempted[c]] /\ attempted[c]
      BY <1>2, <1>t, <2>5, <3>1, <3>2 DEF StartCleanupDone
    <3>4. active \in [Channels -> BOOLEAN]
      BY TypeParts DEF EvidenceTypes
    <3> QED BY <3>3, <3>4
  <2> QED BY <2>2, <2>3, <2>4, <2>5, ManagedSteps
<1>3. ASSUME start'[c] # "idle", ~attempted'[c], ~Off(c)', ~Off(c) PROVE FALSE
  <2>1. ~StartBegin(c)
    BY <1>3 DEF StartBegin, HasCurrentOffProof, HasCurrentOffReadback, EvidenceInv, Quiet, Calm
  <2> QED BY <1>3, <1>m, <1>t, <2>1 DEF Issuing
<1>4. start'[c] \in {"on", "readback"} => attempted'[c]
  BY <1>m, <1>t
<1>5. start'[c] = "cleanup" => c \in op'[c].chans
  <2>1. SUFFICES ASSUME start'[c] = "cleanup" PROVE c \in op'[c].chans
    OBVIOUS
  <2>2. CASE Begins(c, {c})
    <3>1. PICK q : Claims(c, {c}, q)
      BY <2>2 DEF Begins
    <3>2. op'[c] = q
      BY <1>0, <3>1 DEF Claims
    <3> QED BY <3>1, <3>2 DEF Claims
  <2>3. CASE StartCleanupDone(c)
    <3>1. start' = [start EXCEPT ![c] = "idle"]
      BY <2>3 DEF StartCleanupDone
    <3>2. start \in [Channels -> {"idle", "configure", "on", "readback", "cleanup"}]
      BY TypeParts DEF TaskTypes
    <3> QED BY <2>1, <3>1, <3>2
  <2>4. CASE start[c] = "cleanup" /\ ~StartCleanupDone(c) /\ ~Begins(c, {c})
    <3>1. op[c].pc # "idle" /\ ~Ends(c)
      BY <2>4 DEF SequenceInv, Ends
    <3>2. \A C \in SUBSET Channels : ~Begins(c, C)
      BY <3>1 DEF Begins
    <3> QED BY <1>t, <2>4, <3>1, <3>2, ClaimSteps DEF SameClaim
  <2> QED BY <2>1, <2>2, <2>3, <2>4, ManagedSteps
<1> QED BY <1>1, <1>2, <1>3, <1>4, <1>5

(***************************************************************************)
(* Unsafe observations.                                                    *)
(***************************************************************************)

\* Whatever the other coroutines do, the poll stays where it is.
LEMMA ReaderSteps ==
  ASSUME TypeOK, WireInv, SequenceInv, Steps
  PROVE  \/ Execute \/ ReadIssue \/ ReadReply \/ \E c \in Channels : ReadBegin(c)
         \/ rd' = rd /\ reply'["reader"] = reply["reader"] /\ ("reader" \in waiting' <=> "reader" \in waiting)
<1> USE TaskNames DEF wire
<1>0. /\ WireTypes /\ reply \in [Tasks -> {"none", "ok", "raised", "on", "off", "bad"}] /\ op \in [OffOwners -> Ops]
  BY TypeParts DEF WireTypes, TaskTypes
<1>e. ASSUME NEW t \in OffOwners, Enqueue(t) PROVE "reader" \in waiting' <=> "reader" \in waiting
  BY <1>0, <1>e, EnqueueBusy
<1>1. CASE OffUnavailable \/ \E c \in Channels : FrontPanelOn(c)
  BY <1>1 DEF OffUnavailable, FrontPanelOn
<1>2. ASSUME NEW c \in Channels, StartQueues(c)
      PROVE  rd' = rd /\ reply'["reader"] = reply["reader"] /\ ("reader" \in waiting' <=> "reader" \in waiting)
  BY <1>2, <1>e DEF StartQueues
<1>3. CASE ConnectSettle \/ ConnectSettled \/ ConnectOpenFailed \/ ConnectSucceeds
           \/ ConnectTailFailed \/ FailedConnectClosed \/ DisconnectProved \/ Disconnected
  <2>1. rd' = rd /\ (reply' = reply \/ reply' = [reply EXCEPT !["life"] = "none"])
    BY <1>3 DEF ConnectSettle, ConnectSettled, ConnectOpenFailed, ConnectSucceeds,
                ConnectTailFailed, FailedConnectClosed, DisconnectProved, Disconnected
  <2>2. UNCHANGED waiting \/ Enqueue("life")
    BY <1>3 DEF ConnectSettle, ConnectSettled, ConnectOpenFailed, ConnectSucceeds, ConnectRaises, FailedConnectCloses,
                ConnectTailFailed, FailedConnectClosed, DisconnectProved, Disconnected
  <2> QED BY <1>0, <1>e, <2>1, <2>2
<1>4. CASE ConnectBegin \/ \E c \in Channels : StartBegin(c)
  BY <1>4 DEF ConnectBegin, StartBegin
<1>5. ASSUME NEW c \in Channels, StartProceeds(c)
      PROVE  rd' = rd /\ reply'["reader"] = reply["reader"] /\ ("reader" \in waiting' <=> "reader" \in waiting)
  BY <1>0, <1>5 DEF StartProceeds
<1>6. ASSUME NEW o \in OffOwners, OffStep(o)
      PROVE  rd' = rd /\ reply'["reader"] = reply["reader"] /\ ("reader" \in waiting' <=> "reader" \in waiting)
  BY <1>6, OffStepFrame DEF OffFrame
<1>7. ASSUME NEW o \in OffOwners, Ends(o)
      PROVE  rd' = rd /\ reply'["reader"] = reply["reader"] /\ ("reader" \in waiting' <=> "reader" \in waiting)
  <2>1. rd' = rd /\ reply' = reply
    BY <1>0, <1>7, EndsFrame
  <2>2. UNCHANGED waiting \/ Enqueue("life")
    BY <1>7 DEF Ends, OffReturn, StartCleanupDone, ConnectOffDone, DisconnectOffDone
  <2> QED BY <1>e, <2>1, <2>2
<1>8. ASSUME NEW o \in OffOwners, NEW C \in SUBSET Channels, Begins(o, C)
      PROVE  rd' = rd /\ reply'["reader"] = reply["reader"] /\ ("reader" \in waiting' <=> "reader" \in waiting)
  <2>1. rd' = rd /\ waiting' = waiting /\ (reply' = reply \/ reply' = [reply EXCEPT ![o] = "none"])
    BY <1>8 DEF Begins
  <2> QED BY <1>0, <2>1
<1> QED BY <1>1, <1>2, <1>3, <1>4, <1>5, <1>6, <1>7, <1>8, StepGroups DEF PlainSteps

\* An output goes off only by the configuration of a start or the OFF write of a
\* sequence that holds its channel.
LEMMA OutputFalls ==
  ASSUME TypeOK, WireInv, SequenceInv, Steps, NEW c \in Channels, outputOn[c], ~outputOn'[c], start[c] = "idle"
  PROVE  \E o \in OffOwners : c \in op[o].chans
<1>1. CASE Execute
  <2>1. PICK t, r : Served(t, r) /\ Acts(t, c)
    BY <1>1, ExecuteActs
  <2>2. t \in OffOwners /\ op[t].cur = {c}
    BY <2>1 DEF Acts, Untouched
  <2> QED BY <2>2 DEF SequenceInv, Visiting
<1>2. ASSUME NEW d \in Channels, FrontPanelOn(d) PROVE FALSE
  <2>1. outputOn \in [Channels -> BOOLEAN]
    BY TypeParts DEF PlantTypes
  <2> QED BY <1>2, <2>1 DEF FrontPanelOn
<1>3. CASE ~Execute /\ \A d \in Channels : ~FrontPanelOn(d)
  BY <1>3, PlantKept
<1> QED BY <1>1, <1>2, <1>3

\* A poll commits what it saw of the channel only if nothing was begun there since.
Observes(c) ==
  /\ ReadReply /\ rd.ch = c /\ startToken[c] = 0 /\ offDepth[c] = 0
  /\ obs'[c].kind = "output_on" => rd.pc = "query" /\ reply["reader"] = "on"

\* Otherwise an observation is what it was, or gone.
LEMMA ObservationSteps ==
  ASSUME TypeOK, WireInv, SequenceInv, Steps, NEW c \in Channels
  PROVE  obs'[c] = NoObs \/ obs'[c] = obs[c] \/ Observes(c)
<1>0. EvidenceTypes /\ TaskTypes /\ op \in [OffOwners -> Ops] /\ obs \in [Channels -> Observations] /\ rd.ch \in Channels
  BY TypeParts DEF EvidenceTypes, TaskTypes
<1> USE DEF evidence
<1>1. CASE Execute
  <2>1. PICK t, r : Served(t, r)
    BY <1>1, ExecuteActs
  <2>2. obs' = obs
    BY <2>1 DEF Served
  <2> QED BY <2>2
<1>2. CASE OffUnavailable \/ ReadIssue \/ \E d \in Channels : FrontPanelOn(d) \/ StartQueues(d) \/ ReadBegin(d)
  <2>1. obs' = obs
    BY <1>2 DEF OffUnavailable, ReadIssue, FrontPanelOn, StartQueues, ReadBegin
  <2> QED BY <2>1
<1>3. CASE ConnectSettle \/ ConnectSettled \/ ConnectOpenFailed \/ ConnectSucceeds \/ ConnectBegin
           \/ ConnectTailFailed \/ FailedConnectClosed \/ DisconnectProved \/ Disconnected
  <2>1. UNCHANGED obs \/ RevokeOffEvidence
    BY <1>3 DEF ConnectSettle, ConnectSettled, ConnectOpenFailed, ConnectSucceeds, ConnectTailFailed, ConnectBegin,
                FailedConnectClosed, DisconnectProved, Disconnected, FailedConnectCloses, ConnectRaises
  <2> QED BY <2>1 DEF RevokeOffEvidence
<1>4. CASE ReadReply
  <2>1. CASE UNCHANGED obs \/ EnterRecovery
    BY <2>1 DEF EnterRecovery
  <2>2. CASE ~(UNCHANGED obs \/ EnterRecovery)
    <3>1. /\ rd.pc = "query"
          /\ RecordUnsafeOutput(rd.ch, IF reply["reader"] = "on" THEN "output_on" ELSE "invalid_readback")
      BY <1>4, <2>2 DEF ReadReply
    <3> DEFINE kind == IF reply["reader"] = "on" THEN "output_on" ELSE "invalid_readback"
    <3>2. /\ startToken[rd.ch] = 0 /\ offDepth[rd.ch] = 0
          /\ obs' = [obs EXCEPT ![rd.ch] = [gen |-> gen, epoch |-> epoch[rd.ch] + 1, kind |-> kind]]
      BY <2>2, <3>1 DEF RecordUnsafeOutput
    <3>3. CASE rd.ch = c
      <4>1. obs'[c].kind = kind
        BY <1>0, <3>2, <3>3
      <4> QED BY <1>4, <3>1, <3>2, <3>3, <4>1 DEF Observes
    <3>4. CASE rd.ch # c
      BY <1>0, <3>2, <3>4
    <3> QED BY <3>3, <3>4
  <2> QED BY <2>1, <2>2
<1>5. ASSUME NEW d \in Channels, StartBegin(d) PROVE obs'[c] = NoObs \/ obs'[c] = obs[c]
  BY <1>0, <1>5 DEF StartBegin
<1>6. ASSUME NEW d \in Channels, StartProceeds(d) PROVE obs'[c] = obs[c]
  BY <1>6 DEF StartProceeds
<1>7. ASSUME NEW o \in OffOwners, OffStep(o) PROVE obs'[c] = NoObs \/ obs'[c] = obs[c]
  <2>1. ASSUME NEW d, InvalidateIfOwned(o, d) \/ MarkChannelOffVerified(d)
        PROVE  obs'[c] = NoObs \/ obs'[c] = obs[c]
    <3>1. obs' = obs \/ obs' = [obs EXCEPT ![d] = NoObs]
      BY <2>1 DEF InvalidateIfOwned, MarkChannelOffVerified
    <3> QED BY <1>0, <3>1
  <2>2. ASSUME EnterRecovery PROVE obs'[c] = NoObs \/ obs'[c] = obs[c]
    BY <2>2 DEF EnterRecovery
  <2>3. CASE OffIssue(o)
    BY <2>3 DEF OffIssue
  <2>4. CASE OffUnverifiable(o)
    <3>1. \E d : InvalidateIfOwned(o, d)
      BY <1>0, <2>4, OffUnverifiableSettles
    <3> QED BY <2>1, <3>1
  <2>5. CASE OffWriteReply(o)
    <3>1. EnterRecovery \/ UNCHANGED obs
      BY <2>5 DEF OffWriteReply
    <3> QED BY <2>2, <3>1
  <2>6. CASE OffReadReply(o)
    <3>1. \E d : MarkChannelOffVerified(d) \/ UNCHANGED obs \/ EnterRecovery \/ InvalidateIfOwned(o, d)
      BY <1>0, <2>6, OffReadReplySettles
    <3> QED BY <2>1, <2>2, <3>1
  <2> QED BY <1>7, <2>3, <2>4, <2>5, <2>6 DEF OffStep
<1>8. ASSUME NEW o \in OffOwners, Ends(o) PROVE obs'[c] = obs[c]
  BY <1>0, <1>8, EndsFrame
<1>9. ASSUME NEW o \in OffOwners, NEW C \in SUBSET Channels, Begins(o, C) PROVE obs'[c] = NoObs \/ obs'[c] = obs[c]
  BY <1>9 DEF Begins
<1> QED BY <1>1, <1>2, <1>3, <1>4, <1>5, <1>6, <1>7, <1>8, <1>9, StepGroups DEF PlainSteps

LEMMA ObservationPreserved ==
  ASSUME TypeOK, WireInv, SequenceInv, TokenInv, DepthInv, ObservationInv, Steps
  PROVE  ObservationInv'
<1> USE TaskNames
<1>0. /\ op \in [OffOwners -> Ops] /\ reply \in [Tasks -> {"none", "ok", "raised", "on", "off", "bad"}]
      /\ rd \in [pc : {"idle", "query", "measure", "level"}, ch : Channels, gen : Nat, epoch : Nat]
      /\ outputOn \in [Channels -> BOOLEAN]
  BY TypeParts DEF TaskTypes, WireTypes, PlantTypes
<1>1. ASSUME NEW c \in Channels, obs'[c].kind # "none"
      PROVE  /\ start'[c] = "idle" /\ \A o \in OffOwners : c \notin op'[o].chans
             /\ obs'[c].kind = "output_on" => outputOn'[c]
  <2>1. obs'[c] = obs[c] \/ Observes(c)
    BY <1>1, NullRecords, ObservationSteps
  <2>2. CASE Observes(c)
    <3>1. start[c] = "idle" /\ UNCHANGED <<start, op, outputOn>>
      BY <2>2 DEF Observes, ReadReply, TokenInv, plant
    <3>2. OffHolders(c) = {}
      <4>1. IsFiniteSet(OffHolders(c)) /\ Cardinality(OffHolders(c)) = 0
        BY <2>2 DEF Observes, DepthInv
      <4> QED BY <4>1, FS_EmptySet
    <3>3. \A o \in OffOwners : c \notin op'[o].chans
      BY <3>1, <3>2 DEF OffHolders
    <3> QED BY <2>2, <3>1, <3>3 DEF Observes, ObservationInv
  <2>3. CASE obs'[c] = obs[c]
    <3>1. start[c] = "idle" /\ (\A o \in OffOwners : c \notin op[o].chans) /\ (obs[c].kind = "output_on" => outputOn[c])
      BY <1>1, <2>3 DEF ObservationInv
    <3>2. ~StartBegin(c)
      <4>1. ASSUME StartBegin(c) PROVE FALSE
        <5>1. obs' = [obs EXCEPT ![c] = NoObs] /\ obs \in [Channels -> Observations]
          BY <4>1, TypeParts DEF StartBegin, EvidenceTypes
        <5> QED BY <1>1, <5>1, NullRecords
      <4> QED BY <4>1
    <3>3. start'[c] = "idle"
      BY <3>1, <3>2, ManagedSteps DEF Issuing
    <3>4. ASSUME NEW o \in OffOwners PROVE c \notin op'[o].chans
      <4>1. ASSUME NEW C \in SUBSET Channels, Begins(o, C) PROVE c \notin C
        <5>1. c \in C => obs'[c] = NoObs
          BY <4>1 DEF Begins
        <5> QED BY <1>1, <5>1, NullRecords
      <4> QED BY <3>1, <4>1, ClaimSteps, NoOpTyped DEF SameClaim
    <3>5. obs[c].kind = "output_on" => outputOn'[c]
      BY <3>1, OutputFalls
    <3> QED BY <2>3, <3>3, <3>4, <3>5
  <2> QED BY <2>1, <2>2, <2>3
<1>2. ASSUME rd'.pc = "query", reply'["reader"] = "on" PROVE outputOn'[rd'.ch]
  <2>1. CASE Execute
    <3>1. PICK t, r : Served(t, r) /\ \A c \in Channels : Tells(t, r, c)
      BY <2>1, ExecuteActs
    <3>2. rd' = rd
      BY <3>1 DEF Served
    <3>3. t = "reader"
      <4>1. ASSUME t # "reader" PROVE FALSE
        <5>1. reply["reader"] = "on"
          BY <1>0, <1>2, <3>1, <4>1 DEF Served
        <5> QED BY <3>1, <5>1 DEF Served, LockHeld
      <4> QED BY <4>1
    <3>4. r = "on"
      BY <1>0, <1>2, <3>1, <3>3 DEF Served
    <3> QED BY <1>0, <1>2, <3>1, <3>2, <3>3, <3>4 DEF Tells
  <2>2. CASE ReadIssue \/ ReadReply \/ \E c \in Channels : ReadBegin(c)
    BY <1>0, <1>2, <2>2 DEF ReadIssue, ReadReply, ReadBegin, WireInv, Busy
  <2>3. CASE ~Execute /\ rd' = rd /\ reply'["reader"] = reply["reader"]
    <3>1. outputOn[rd.ch]
      BY <1>2, <2>3 DEF ObservationInv
    <3>2. CASE \E c \in Channels : FrontPanelOn(c)
      BY <1>0, <2>3, <3>1, <3>2 DEF FrontPanelOn
    <3>3. CASE \A c \in Channels : ~FrontPanelOn(c)
      BY <2>3, <3>1, <3>3, PlantKept
    <3> QED BY <3>2, <3>3
  <2> QED BY <2>1, <2>2, <2>3, ReaderSteps
<1> QED BY <1>1, <1>2 DEF ObservationInv

(***************************************************************************)
(* The level of a channel about to be switched on.                         *)
(***************************************************************************)

\* The start of the channel is past the write that set the level to zero and
\* has not read its output back yet.
Levelled(c) == start[c] = "on" \/ (start[c] = "configure" /\ reply[c] = "ok")

\* It gets there by the acknowledgement of that write.
LEMMA LevelledSteps ==
  ASSUME TypeOK, WireInv, SequenceInv, Steps, NEW c \in Channels, Levelled(c)'
  PROVE  \/ Levelled(c) /\ ~StartBegin(c)
         \/ /\ start[c] = "configure" /\ c \in waiting
            /\ \E r : Served(c, r) /\ (\A d \in Channels : Tells(c, r, d)) /\ r = "ok"
<1> USE TaskNames
<1>0. /\ WireTypes /\ TaskTypes /\ op \in [OffOwners -> Ops]
      /\ reply \in [Tasks -> {"none", "ok", "raised", "on", "off", "bad"}]
      /\ start \in [Channels -> {"idle", "configure", "on", "readback", "cleanup"}]
  BY TypeParts DEF WireTypes, TaskTypes
<1>s. ASSUME start'[c] = start[c], reply'[c] = reply[c] PROVE Levelled(c) /\ ~StartBegin(c)
  <2>1. Levelled(c) /\ start[c] # "idle"
    BY <1>s DEF Levelled
  <2> QED BY <2>1 DEF StartBegin
<1>1. CASE Execute
  <2>1. PICK t, r : Served(t, r) /\ \A d \in Channels : Tells(t, r, d)
    BY <1>1, ExecuteActs
  <2>2. start' = start
    BY <2>1 DEF Served
  <2>3. CASE t = c
    <3>1. reply'[c] = r /\ reply[c] # "ok"
      BY <1>0, <2>1, <2>3 DEF Served, WireInv
    <3>2. CASE start[c] = "on"
      BY <3>2 DEF Levelled, StartBegin
    <3>3. CASE start[c] # "on"
      <4>1. start[c] = "configure" /\ r = "ok" /\ c \in waiting
        BY <2>1, <2>2, <2>3, <3>1, <3>3 DEF Levelled, Served
      <4> QED BY <2>1, <2>3, <4>1
    <3> QED BY <3>2, <3>3
  <2>4. CASE t # c
    BY <1>0, <1>s, <2>1, <2>2, <2>4 DEF Served
  <2> QED BY <2>3, <2>4
<1>2. CASE PlainSteps /\ ~Execute
  <2>1. start' = start
    BY <1>2, PlainFrame
  <2>2. reply'[c] = reply[c]
    BY <1>0, <1>2, PlainWire DEF StartQueues
  <2> QED BY <1>s, <2>1, <2>2
<1>3. CASE ReadReply
  BY <1>0, <1>3, <1>s DEF ReadReply
<1>4. CASE ConnectBegin
  BY <1>4, <1>s DEF ConnectBegin
<1>5. ASSUME NEW d \in Channels, StartBegin(d) PROVE Levelled(c) /\ ~StartBegin(c)
  <2>1. start' = [start EXCEPT ![d] = "configure"] /\ reply' = reply /\ start[d] = "idle"
    BY <1>5 DEF StartBegin
  <2>2. CASE d = c
    <3>1. reply[c] = "none" /\ start'[c] = "configure"
      BY <1>0, <2>1, <2>2 DEF WireInv, Busy
    <3> QED BY <2>1, <3>1 DEF Levelled
  <2>3. CASE d # c
    BY <1>0, <1>s, <2>1, <2>3
  <2> QED BY <2>2, <2>3
<1>6. ASSUME NEW d \in Channels, StartProceeds(d) PROVE Levelled(c) /\ ~StartBegin(c)
  <2>1. CASE d = c
    <3>1. reply'[c] = "none" /\ start[c] \in Issuing /\ reply[c] \notin {"none", "raised"}
      BY <1>0, <1>6, <2>1 DEF StartProceeds
    <3>2. start'[c] = "on"
      BY <3>1 DEF Levelled
    <3>3. start[c] = "configure"
      BY <1>0, <1>6, <2>1, <3>2 DEF StartProceeds
    <3> QED BY <3>1, <3>3 DEF WireInv, Levelled, StartBegin
  <2>2. CASE d # c
    <3>1. (\E s : start' = [start EXCEPT ![d] = s]) /\ reply' = [reply EXCEPT ![d] = "none"]
      BY <1>6 DEF StartProceeds
    <3> QED BY <1>0, <1>s, <2>2, <3>1
  <2> QED BY <2>1, <2>2
<1>7. ASSUME NEW o \in OffOwners, OffStep(o) PROVE Levelled(c) /\ ~StartBegin(c)
  <2>1. OffFrame(o)
    BY <1>7, OffStepFrame
  <2>2. o # c
    BY <2>1 DEF OffFrame, SequenceInv, Levelled
  <2> QED BY <1>s, <2>1, <2>2 DEF OffFrame
<1>8. ASSUME NEW o \in OffOwners, Ends(o) PROVE Levelled(c) /\ ~StartBegin(c)
  <2>1. reply' = reply
    BY <1>0, <1>8, EndsFrame
  <2>2. start' = start \/ \E d \in Channels : start' = [start EXCEPT ![d] = "idle"]
    BY <1>8 DEF Ends, OffReturn, StartCleanupDone, ConnectOffDone, DisconnectOffDone
  <2>3. start'[c] = start[c]
    BY <1>0, <2>2 DEF Levelled
  <2> QED BY <1>s, <2>1, <2>3
<1>9. ASSUME NEW o \in OffOwners, NEW C \in SUBSET Channels, Begins(o, C) PROVE Levelled(c) /\ ~StartBegin(c)
  <2>1. CASE UNCHANGED <<start, reply>>
    BY <1>s, <2>1
  <2>2. CASE start' = [start EXCEPT ![o] = "cleanup"] /\ reply' = [reply EXCEPT ![o] = "none"]
    <3>1. o # c
      BY <1>0, <2>2 DEF Levelled
    <3> QED BY <1>0, <1>s, <2>2, <3>1
  <2> QED BY <1>9, <2>1, <2>2 DEF Begins
<1> QED BY <1>1, <1>2, <1>3, <1>4, <1>5, <1>6, <1>7, <1>8, <1>9, StepGroups

\* A regulation write on its way to channel c.
Regulates(c) == rd.pc = "level" /\ rd.ch = c /\ Busy("reader")

\* It is sent only while no start has the channel.
LEMMA RegulatesSteps ==
  ASSUME TypeOK, WireInv, SequenceInv, TokenInv, Steps, NEW c \in Channels, Regulates(c)'
  PROVE  Regulates(c) \/ (start'[c] = start[c] /\ start[c] = "idle")
<1> USE TaskNames
<1>0. WireTypes /\ reply \in [Tasks -> {"none", "ok", "raised", "on", "off", "bad"}] /\ waiting \subseteq Tasks
      /\ rd \in [pc : {"idle", "query", "measure", "level"}, ch : Channels, gen : Nat, epoch : Nat]
  BY TypeParts DEF WireTypes, TaskTypes
<1>1. CASE Execute
  <2>1. PICK t, r : Served(t, r)
    BY <1>1, ExecuteActs
  <2>2. rd' = rd /\ (Busy("reader")' <=> Busy("reader"))
    <3>1. rd' = rd
      BY <2>1 DEF Served
    <3> QED BY <1>0, <2>1, <3>1, ServedBusy
  <2> QED BY <2>2 DEF Regulates
<1>2. CASE ReadIssue
  <2>1. UNCHANGED <<start, reply>> /\ rd.pc # "idle" /\ ~Busy("reader")
    BY <1>2 DEF ReadIssue, Busy
  <2>2. CASE UNCHANGED waiting
    BY <2>1, <2>2 DEF Regulates, Busy
  <2>3. CASE rd' = rd /\ (rd.pc = "level" => RegulationIsCurrent(rd.ch, rd.gen, rd.epoch))
    <3>1. startToken[c] = 0
      BY <2>3 DEF Regulates, RegulationIsCurrent
    <3> QED BY <2>1, <3>1 DEF TokenInv
  <2> QED BY <1>2, <2>2, <2>3 DEF ReadIssue, wire
<1>3. CASE ReadReply
  BY <1>0, <1>3 DEF ReadReply, Regulates, Busy, WireInv, wire
<1>4. ASSUME NEW d \in Channels, ReadBegin(d) PROVE FALSE
  <2>1. rd' = [pc |-> IF active[d] THEN "measure" ELSE "query", ch |-> d, gen |-> gen, epoch |-> epoch[d]]
    BY <1>4 DEF ReadBegin
  <2> QED BY <2>1 DEF Regulates
<1>5. CASE rd' = rd /\ reply'["reader"] = reply["reader"] /\ ("reader" \in waiting' <=> "reader" \in waiting)
  BY <1>5 DEF Regulates, Busy
<1> QED BY <1>1, <1>2, <1>3, <1>4, <1>5, ReaderSteps

LEMMA LevelPreserved ==
  ASSUME TypeOK, WireInv, SequenceInv, TokenInv, LevelInv, Steps
  PROVE  LevelInv'
<1> USE TaskNames
<1>0. WireTypes /\ level \in [Channels -> {"zero", "nonzero"}]
  BY TypeParts DEF WireTypes, PlantTypes
<1> SUFFICES ASSUME NEW c \in Channels, Levelled(c)'
             PROVE  level'[c] = "zero" /\ ~Regulates(c)'
  BY DEF LevelInv, Levelled, Regulates
<1>1. CASE Levelled(c) /\ ~StartBegin(c)
  <2>1. level[c] = "zero" /\ ~Regulates(c)
    BY <1>1 DEF LevelInv, Levelled, Regulates
  <2>2. start[c] # "idle"
    BY <1>1 DEF Levelled
  <2>3. level'[c] = "zero"
    <3>1. CASE Execute
      <4>1. PICK t, r : Served(t, r) /\ Acts(t, c)
        BY <3>1, ExecuteActs
      <4>2. ~(t = "reader" /\ rd.pc = "level" /\ rd.ch = c)
        BY <2>1, <4>1 DEF Served, Regulates, Busy
      <4> QED BY <2>1, <4>1, <4>2 DEF Acts, Untouched
    <3>2. ASSUME NEW d \in Channels, FrontPanelOn(d) PROVE level' = level
      BY <3>2 DEF FrontPanelOn
    <3>3. CASE ~Execute /\ \A d \in Channels : ~FrontPanelOn(d)
      BY <2>1, <3>3, PlantKept
    <3> QED BY <2>1, <3>1, <3>2, <3>3
  <2> QED BY <2>1, <2>2, <2>3, RegulatesSteps
<1>2. ASSUME start[c] = "configure", c \in waiting, NEW r, Served(c, r), \A d \in Channels : Tells(c, r, d), r = "ok"
      PROVE  level'[c] = "zero" /\ ~Regulates(c)'
  <2>1. level'[c] = "zero"
    BY <1>2 DEF Tells
  <2>2. ioOwner = c
    BY <1>2 DEF WireInv, Busy, Issuing
  <2>3. ~Busy("reader")
    BY <2>2 DEF WireInv
  <2>4. ~Busy("reader")'
    BY <1>0, <1>2, <2>3, ServedBusy
  <2> QED BY <2>1, <2>4 DEF Regulates
<1> QED BY <1>1, <1>2, LevelledSteps

(***************************************************************************)
(* The inductive invariant.                                                *)
(***************************************************************************)

\* A process that starts has claimed nothing and concluded nothing.
LEMMA InitInv == Init => IInv
<1> SUFFICES ASSUME Init PROVE IInv
  OBVIOUS
<1> USE TaskNames
<1>1. /\ op = [o \in OffOwners |-> NoOp] /\ start = [c \in Channels |-> "idle"]
      /\ waiting = {} /\ reply = [t \in Tasks |-> "none"] /\ ioOwner = "none" /\ life = "idle"
      /\ proof = [c \in Channels |-> NoProof] /\ obs = [c \in Channels |-> NoObs]
      /\ startToken = [c \in Channels |-> 0] /\ epoch = [c \in Channels |-> 0] /\ offDepth = [c \in Channels |-> 0]
      /\ unsafe = TRUE /\ connected = FALSE /\ connecting = FALSE /\ disconnecting = FALSE
      /\ \E c \in Channels : rd = NoRead(c)
  BY DEF Init
<1>2. /\ \A c \in Channels : /\ start[c] = "idle" /\ proof[c] = NoProof /\ obs[c] = NoObs
                             /\ startToken[c] = 0 /\ epoch[c] = 0 /\ offDepth[c] = 0
      /\ \A o \in OffOwners : op[o] = NoOp
      /\ \A t \in Tasks : reply[t] = "none" /\ ~Busy(t)
      /\ rd.pc = "idle"
  BY <1>1 DEF Busy, NoRead
<1>3. /\ NoOp.pc = "idle" /\ NoOp.chans = {} /\ NoOp.todo = {} /\ NoOp.cur = {} /\ NoObs.kind = "none"
  BY NoOpTyped, NullRecords
<1>4. EvidenceTypes
  BY NullRecords DEF Init, EvidenceTypes
<1>5. LifecycleTypes /\ WireTypes /\ PlantTypes
  BY DEF Init, LifecycleTypes, WireTypes, PlantTypes
<1>6. TaskTypes
  <2>1. rd \in [pc : {"idle", "query", "measure", "level"}, ch : Channels, gen : Nat, epoch : Nat]
    BY <1>1 DEF NoRead
  <2>2. attempted \in [Channels -> BOOLEAN]
    BY DEF Init
  <2> QED BY <1>1, <2>1, <2>2, NoOpTyped DEF TaskTypes
<1>7. TypeOK
  BY <1>1, <1>4, <1>5, <1>6, TypeParts
<1>8. WireInv
  BY <1>1, <1>2 DEF WireInv, Issuing
<1>9. SequenceInv
  BY <1>1, <1>2, <1>3 DEF SequenceInv, Visiting
<1>10. TokenInv /\ BehindOns /\ LifeInv
  BY <1>1, <1>2, <1>3 DEF TokenInv, BehindOns, LifeInv
<1>11. DepthInv
  <2>1. ASSUME NEW c \in Channels PROVE OffHolders(c) = {}
    BY <1>2, <1>3 DEF OffHolders
  <2> QED BY <1>2, <2>1, FS_EmptySet DEF DepthInv
<1>12. EvidenceInv
  BY <1>2, <1>3 DEF EvidenceInv, Written, Accepted
<1>13. CertaintyInv /\ TrackedInv
  BY <1>1, <1>2 DEF CertaintyInv, TrackedInv
<1>14. ObservationInv /\ LevelInv
  BY <1>2, <1>3 DEF ObservationInv, LevelInv
<1> QED BY <1>7, <1>8, <1>9, <1>10, <1>11, <1>12, <1>13, <1>14 DEF IInv

\* Every step of the driver keeps it.
LEMMA StepInv == IInv /\ Next => IInv'
<1> SUFFICES ASSUME IInv, Next PROVE IInv'
  OBVIOUS
<1>1. /\ TypeOK /\ WireInv /\ SequenceInv /\ TokenInv /\ DepthInv /\ LifeInv
      /\ BehindOns /\ EvidenceInv /\ CertaintyInv /\ TrackedInv /\ ObservationInv /\ LevelInv
  BY DEF IInv
<1>2. Steps
  BY <1>1, NextSteps
<1>3. WireInv' /\ SequenceInv' /\ TokenInv' /\ DepthInv'
  BY <1>1, <1>2, WirePreserved, SequencePreserved, TokenPreserved, DepthPreserved
<1>4. TypeOK'
  <2>1. EvidenceTypes' /\ LifecycleTypes' /\ TaskTypes' /\ WireTypes' /\ PlantTypes'
    BY <1>1, NextTypes
  <2> QED BY <1>3, <2>1, TypeFromParts
<1>5. LifeInv' /\ BehindOns' /\ EvidenceInv' /\ CertaintyInv'
  BY <1>1, <1>2, LifePreserved, BehindPreserved, EvidencePreserved, CertaintyPreserved
<1>6. TrackedInv' /\ ObservationInv' /\ LevelInv'
  BY <1>1, <1>2, TrackedPreserved, ObservationPreserved, LevelPreserved
<1> QED BY <1>3, <1>4, <1>5, <1>6 DEF IInv

\* So does a step that changes nothing.
LEMMA StutterInv == IInv /\ UNCHANGED vars => IInv'
<1> SUFFICES ASSUME IInv, UNCHANGED vars PROVE IInv'
  OBVIOUS
<1>1. UNCHANGED <<epoch, startToken, offDepth, regEpoch, proof, active, obs, unsafe,
                  gen, connected, recovery, connecting, disconnecting, teardown,
                  start, attempted, op, rd, life, waiting, ahead, reply, ioOwner, session,
                  outputOn, level, tampered>>
  BY DEF vars, evidence, lifecycle, wire, plant
<1>2. WireInv'
  BY <1>1 DEF IInv, WireInv, Busy
<1>3. TypeOK'
  <2>1. EvidenceTypes /\ LifecycleTypes /\ TaskTypes /\ WireTypes /\ PlantTypes
    BY TypeParts DEF IInv
  <2>2. EvidenceTypes' /\ LifecycleTypes' /\ PlantTypes'
    BY <1>1, <2>1 DEF EvidenceTypes, LifecycleTypes, PlantTypes
  <2>3. TaskTypes' /\ WireTypes'
    BY <1>1, <2>1 DEF TaskTypes, WireTypes
  <2> QED BY <1>2, <2>2, <2>3, TypeFromParts
<1>4. SequenceInv'
  BY <1>1 DEF IInv, SequenceInv, Visiting, Busy
<1>5. TokenInv' /\ DepthInv'
  BY <1>1 DEF IInv, TokenInv, DepthInv, OffHolders
<1>6. LifeInv' /\ BehindOns'
  BY <1>1 DEF IInv, LifeInv, Calm, Off, BehindOns
<1>7. EvidenceInv'
  BY <1>1 DEF IInv, EvidenceInv, Quiet, Calm, Off, Written, Accepted
<1>8. CertaintyInv'
  BY <1>1 DEF IInv, CertaintyInv, TransportAvailable, HasCurrentOffProof, HasCurrentOffReadback
<1>9. TrackedInv'
  BY <1>1 DEF IInv, TrackedInv, Off
<1>10. ObservationInv' /\ LevelInv'
  BY <1>1 DEF IInv, ObservationInv, LevelInv, Busy
<1> QED BY <1>2, <1>3, <1>4, <1>5, <1>6, <1>7, <1>8, <1>9, <1>10 DEF IInv

LEMMA InvHolds == Spec => []IInv
<1>1. IInv /\ [Next]_vars => IInv'
  BY StepInv, StutterInv
<1> QED BY InitInv, <1>1, PTL DEF Spec

(***************************************************************************)
(* What the driver may rely on.                                            *)
(***************************************************************************)

\* The driver's tables are well typed, and the ordinary-I/O lock is held only by
\* a coroutine that has a command with the transport, whatever raises meanwhile.
THEOREM SourceTypes == Spec => []TypeOK
<1>1. IInv => TypeOK
  BY DEF IInv
<1> QED BY <1>1, InvHolds, PTL

\* A current OFF readback of _mark_channel_off_verified is of an output that is
\* off, front panel aside: no start that was superseded can still switch it on.
THEOREM EvidenceIsHonest == Spec => []OffEvidenceHonest
<1>1. IInv => OffEvidenceHonest
  BY DEF IInv, EvidenceInv, Quiet, Calm, Off, OffEvidenceHonest, HasCurrentOffReadback
<1> QED BY <1>1, InvHolds, PTL

\* When emergency_off or stop_source (or the OFF of a failed start or of a
\* connection) ends with True, its outputs are off and no OUTPUT_ON is queued.
THEOREM ReportsAreTrue == Spec => []ReportedOffIsOff
<1>1. IInv => ReportedOffIsOff
  <2> SUFFICES ASSUME IInv, NEW o \in OffOwners, op[o].pc = "settled", op[o].ok, NEW c \in op[o].chans
               PROVE  (~outputOn[c] \/ c \in tampered) /\ ~(c \in waiting /\ start[c] = "on")
    BY DEF ReportedOffIsOff
  <2>1. c \in Channels
    BY TypeParts DEF IInv, TaskTypes, Ops
  <2> QED BY <2>1, EndedWellIsCalm DEF IInv, Calm, Off
<1> QED BY <1>1, InvHolds, PTL

\* output_state_unverified is False on a session only over current proofs of
\* every channel, and so over outputs that are off.
THEOREM VerifiedIsOff == Spec => []VerifiedMeansOff
<1>1. IInv => VerifiedMeansOff
  <2> SUFFICES ASSUME IInv, connected \/ recovery, ~unsafe, NEW c \in Channels
               PROVE  HasCurrentOffProof(c) /\ (~outputOn[c] \/ c \in tampered)
    BY DEF VerifiedMeansOff
  <2>1. \A d \in Channels : HasCurrentOffProof(d)
    BY DEF IInv, CertaintyInv, TransportAvailable
  <2>2. Calm(c)
    BY <2>1, ProvedIsCalm DEF IInv
  <2> QED BY <2>1, <2>2 DEF Calm, Off
<1> QED BY <1>1, InvHolds, PTL

\* While connected, a live output is active, being switched, or of the front
\* panel; an ON observation given to others is of an output that is on.
THEOREM OutputsAreKnown == Spec => []OutputsAccountedFor
<1>1. IInv => LiveOutputIsTracked
  BY DEF IInv, TrackedInv, Off, LiveOutputIsTracked
<1>2. IInv => ObservationNotStale
  BY DEF IInv, ObservationInv, ObservationNotStale, ObservationIsCurrent
<1>3. IInv => OutputsAccountedFor
  BY <1>1, <1>2 DEF OutputsAccountedFor
<1> QED BY <1>3, InvHolds, PTL

\* OUTPUT_ON acts at level zero, and the session of an authorised instrument is
\* closed over outputs that are off: neither the regulation write of an earlier
\* poll nor an OUTPUT_ON of a superseded start acts in between.
THEOREM WireIsAuthorised == Spec => WireAuthorised
<1>1. IInv /\ Next => \A c \in Channels : ~outputOn[c] /\ outputOn'[c] /\ c \notin tampered' => level'[c] = "zero"
  <2> SUFFICES ASSUME IInv, Next, NEW c \in Channels, ~outputOn[c], outputOn'[c], c \notin tampered'
               PROVE  level'[c] = "zero"
    OBVIOUS
  <2>1. TypeOK /\ WireInv /\ SequenceInv
    BY DEF IInv
  <2>2. Steps
    BY <2>1, NextSteps
  <2>3. start'[c] = "on"
    BY <2>1, <2>2, OffStays DEF Off
  <2>4. LevelInv'
    BY StepInv DEF IInv
  <2> QED BY <2>3, <2>4 DEF LevelInv
<1>2. IInv /\ Next => (session # "closed" /\ session' = "closed" /\ life = "closing" =>
                         \A c \in Channels : ~outputOn[c] \/ c \in tampered)
  BY DEF IInv, LifeInv, Calm, Off
<1>3. IInv /\ [Next]_vars => [\A c \in Channels : ~outputOn[c] /\ outputOn'[c] /\ c \notin tampered' => level'[c] = "zero"]_vars
  BY <1>1
<1>4. IInv /\ [Next]_vars => [session # "closed" /\ session' = "closed" /\ life = "closing" =>
                                \A c \in Channels : ~outputOn[c] \/ c \in tampered]_vars
  BY <1>2
<1> QED BY <1>3, <1>4, InvHolds, PTL DEF Spec, WireAuthorised, OnAtZeroLevel, ClosedOnlyWhenOff
=============================================================================

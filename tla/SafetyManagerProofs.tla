------------------------ MODULE SafetyManagerProofs ------------------------
(***************************************************************************)
(* For any number of channels, callers and alarms: the state keeps its     *)
(* types; the safety layer's verified-OFF evidence never stands over a     *)
(* live output; overtaken RUNs start nothing; a latched fault is not       *)
(* overwritten; success means what it says; and once everybody has         *)
(* returned the state agrees with what is owned.                           *)
(*                                                                         *)
(* ContractInv is an invariant of the driver contract alone.  On top of it *)
(* the manager either leaves the evidence as it was, or sets it by a       *)
(* refresh, which requires every channel proved, and gives it up in the    *)
(* step that begins a start.  Safe says who may be where, Claims what the  *)
(* holder of the lock has settled, SettlingInv who is still to name the    *)
(* state.                                                                  *)
(***************************************************************************)
EXTENDS SafetyManager, TLAPS

USE OpsAssumption

\* A driver call, at rest or in flight.
Calls == [kind : {"none", "off", "start", "refused"}, chans : SUBSET Channels, stale : BOOLEAN]

\* What is in flight excludes each other; the part of ContractInv about calls.
CallsExclude ==
  /\ \A o \in Owners : call[o].kind \in {"none", "refused"} => call[o].chans = {}
  /\ \A o, u \in Owners :
       call[u].kind = "start" /\ ~call[u].stale /\ o # u =>
         call[o].chans \cap call[u].chans = {}

\* No owner's call becomes a start.
NothingStarts == \A u \in Owners : call'[u].kind = "start" => call[u].kind = "start"

\* A step of the driver after which nothing new is starting.
Calming ==
  /\ ContractInv'
  /\ Starting' \subseteq Starting
  /\ out' \subseteq out \cup Starting
  /\ NothingStarts

(***************************************************************************)
(* The driver contract.                                                    *)
(***************************************************************************)

\* Beginning an OFF call keeps the contract: it supersedes what is starting.
LEMMA BeginOffCalms ==
  ASSUME ContractInv, NEW o \in Owners, NEW C \in SUBSET Channels, BeginOffCall(o, C)
  PROVE  Calming
<1>1. ContractTypeOK'
  <2>1. out' \subseteq Channels /\ proved' \subseteq Channels /\ running' \subseteq Channels
    BY DEF ContractInv, ContractTypeOK, BeginOffCall, Starting
  <2>2. ASSUME NEW u \in Owners
        PROVE  (IF u = o THEN [kind |-> "off", chans |-> C, stale |-> FALSE]
                ELSE IF call[u].chans \cap C # {} THEN [call[u] EXCEPT !.stale = TRUE] ELSE call[u]) \in Calls
    <3>1. call[u] \in Calls
      BY DEF ContractInv, ContractTypeOK, Calls
    <3> QED BY <3>1 DEF Calls
  <2>3. call' \in [Owners -> Calls]
    BY <2>2 DEF BeginOffCall
  <2> QED BY <2>1, <2>3 DEF ContractTypeOK, Calls
<1>2. Starting' \subseteq Starting
  BY DEF ContractInv, ContractTypeOK, BeginOffCall, Starting
<1>3. out' \subseteq out \cup Starting
  BY DEF BeginOffCall
<1>4. (proved \cap (out \cup Starting) = {})'
  BY <1>2, <1>3 DEF ContractInv, BeginOffCall
<1>5. CallsExclude'
  BY DEF ContractInv, CallsExclude, ContractTypeOK, BeginOffCall
<1>6. NothingStarts
  <2> SUFFICES ASSUME NEW u \in Owners, call'[u].kind = "start" PROVE call[u].kind = "start"
    BY DEF NothingStarts
  <2>1. call[u] \in Calls
    BY DEF ContractInv, ContractTypeOK, Calls
  <2>2. call'[u] = IF u = o THEN [kind |-> "off", chans |-> C, stale |-> FALSE]
                   ELSE IF call[u].chans \cap C # {} THEN [call[u] EXCEPT !.stale = TRUE] ELSE call[u]
    BY DEF BeginOffCall
  <2> QED BY <2>1, <2>2 DEF Calls
<1> QED BY <1>1, <1>2, <1>3, <1>4, <1>5, <1>6 DEF Calming, ContractInv, CallsExclude

\* Beginning a start keeps the contract: its channel had a proof.
LEMMA BeginStartKeeps ==
  ASSUME ContractInv, NEW o \in Owners, NEW c \in Channels, BeginStartCall(o, c)
  PROVE  ContractInv'
<1>1. ContractTypeOK'
  <2>1. /\ [kind |-> "start", chans |-> {c}, stale |-> FALSE] \in Calls
        /\ [kind |-> "refused", chans |-> {}, stale |-> TRUE] \in Calls
    BY DEF Calls
  <2>2. call' \in [Owners -> Calls]
    <3>1. call \in [Owners -> Calls]
      BY DEF ContractInv, ContractTypeOK, Calls
    <3>2. \E k \in Calls : call' = [call EXCEPT ![o] = k]
      BY <2>1 DEF BeginStartCall
    <3> QED BY <3>1, <3>2
  <2> QED BY <2>2 DEF ContractInv, ContractTypeOK, BeginStartCall, Calls
<1>2. Starting' \subseteq Starting \cup (proved \ proved')
  <2>1. \A u \in Owners \ {o} : call'[u] = call[u]
    BY DEF ContractInv, ContractTypeOK, BeginStartCall
  <2>2. \/ call'[o].chans = {c} /\ c \in proved /\ c \notin proved'
        \/ call'[o].chans = {}
    BY DEF ContractInv, ContractTypeOK, BeginStartCall
  <2> QED BY <2>1, <2>2 DEF Starting
<1>3. (proved \cap (out \cup Starting) = {})'
  BY <1>2 DEF ContractInv, BeginStartCall
<1>4. CallsExclude'
  BY DEF ContractInv, CallsExclude, ContractTypeOK, BeginStartCall, Starting, Busy
<1> QED BY <1>1, <1>3, <1>4 DEF ContractInv, CallsExclude

\* A call that ends without success proves only what it leaves off.
LEMMA LeftUnsettledKeeps ==
  ASSUME ContractInv, NEW C \in SUBSET Channels, NEW mayBeOn, NEW mayBeHeld \in SUBSET Channels,
         proved \cap C \cap mayBeOn = {}, LeftUnsettled(C, mayBeOn, mayBeHeld)
  PROVE  /\ out' \subseteq Channels /\ proved' \subseteq Channels /\ running' \subseteq Channels
         /\ out' \subseteq out \cup (C \cap mayBeOn)
         /\ proved' \subseteq proved \cup C
         /\ proved' \cap out' = {}
<1>1. PICK on \in SUBSET (C \cap mayBeOn) : \E gained \in SUBSET (C \ on) :
        /\ out' = (out \ C) \cup on
        /\ proved' \in {proved \cup gained, {}}
        /\ \E held \in SUBSET (mayBeHeld \ gained) : running' = (running \ gained) \cup held
  BY DEF LeftUnsettled
<1>2. PICK gained \in SUBSET (C \ on) :
        /\ out' = (out \ C) \cup on
        /\ proved' \in {proved \cup gained, {}}
        /\ \E held \in SUBSET (mayBeHeld \ gained) : running' = (running \ gained) \cup held
  BY <1>1
<1> QED BY <1>1, <1>2 DEF ContractInv, ContractTypeOK

\* The end of an OFF call keeps the contract.
LEMMA OffReturnsCalms ==
  ASSUME ContractInv, NEW o \in Owners, NEW ok \in BOOLEAN, OffReturns(o, ok)
  PROVE  Calming
<1> DEFINE C == call[o].chans
<1>0. C \in SUBSET Channels /\ NoCall \in Calls /\ call \in [Owners -> Calls]
  BY DEF ContractInv, ContractTypeOK, NoCall, Calls
<1>1. call' = [call EXCEPT ![o] = NoCall] /\ call[o].kind = "off"
  BY DEF OffReturns
<1>2. Starting' \subseteq Starting /\ C \cap Starting = {}
  BY <1>0, <1>1 DEF ContractInv, Starting, NoCall
<1>3. CallsExclude'
  BY <1>0, <1>1 DEF ContractInv, CallsExclude, NoCall
<1>4. /\ out' \subseteq out /\ proved' \subseteq proved \cup C /\ proved' \cap out' = {}
      /\ out' \subseteq Channels /\ proved' \subseteq Channels /\ running' \subseteq Channels
  <2>1. CASE ok
    BY <1>0, <2>1 DEF OffReturns, ContractInv, ContractTypeOK
  <2>2. CASE ~ok
    <3>1. proved \cap C \cap out = {} /\ LeftUnsettled(C, out, {}) /\ {} \in SUBSET Channels
      BY <2>2 DEF OffReturns, ContractInv
    <3> QED BY <1>0, <3>1, LeftUnsettledKeeps
  <2> QED BY <2>1, <2>2
<1>5. ContractTypeOK'
  BY <1>0, <1>1, <1>4 DEF ContractTypeOK, Calls
<1>6. (proved \cap (out \cup Starting) = {})'
  BY <1>2, <1>4 DEF ContractInv
<1>7. NothingStarts
  BY <1>0, <1>1 DEF NothingStarts, NoCall
<1> QED BY <1>2, <1>3, <1>4, <1>5, <1>6, <1>7 DEF Calming, ContractInv, CallsExclude

\* So does the end of a start.
LEMMA StartReturnsCalms ==
  ASSUME ContractInv, NEW o \in Owners, NEW ok \in BOOLEAN, StartReturns(o, ok)
  PROVE  Calming
<1> DEFINE C == call[o].chans
<1>0. C \in SUBSET Channels /\ NoCall \in Calls /\ call \in [Owners -> Calls]
  BY DEF ContractInv, ContractTypeOK, NoCall, Calls
<1>1. call' = [call EXCEPT ![o] = NoCall] /\ call[o].kind \in {"start", "refused"}
  BY DEF StartReturns
<1>2. Starting' \subseteq Starting /\ C \cap Starting' = {}
  BY <1>0, <1>1 DEF ContractInv, Starting, NoCall
<1>3. CallsExclude'
  BY <1>0, <1>1 DEF ContractInv, CallsExclude, NoCall
<1>4. C \subseteq Starting \/ call[o].stale \/ C = {}
  BY <1>0, <1>1 DEF ContractInv, Starting
<1>5. /\ out' \subseteq out \cup Starting /\ proved' \subseteq proved \cup C /\ proved' \cap out' = {}
      /\ out' \subseteq Channels /\ proved' \subseteq Channels /\ running' \subseteq Channels
  <2>1. CASE ok
    <3>1. C \subseteq Starting /\ UNCHANGED proved /\ out' = out \cup C /\ running' = running \cup C
      BY <1>0, <2>1 DEF StartReturns, Starting
    <3> QED BY <1>0, <3>1 DEF ContractInv, ContractTypeOK
  <2>2. CASE ~ok
    <3> DEFINE mayBeOn == IF call[o].stale THEN out ELSE Channels
    <3>1. LeftUnsettled(C, mayBeOn, C)
      BY <2>2 DEF StartReturns
    <3>2. proved \cap C \cap mayBeOn = {} /\ C \cap mayBeOn \subseteq out \cup Starting
      BY <1>4 DEF ContractInv
    <3> HIDE DEF mayBeOn, C
    <3> QED BY <1>0, <3>1, <3>2, LeftUnsettledKeeps
  <2> QED BY <2>1, <2>2
<1>6. ContractTypeOK'
  BY <1>0, <1>1, <1>5 DEF ContractTypeOK, Calls
<1>7. (proved \cap (out \cup Starting) = {})'
  BY <1>2, <1>5 DEF ContractInv
<1>8. NothingStarts
  BY <1>0, <1>1 DEF NothingStarts, NoCall
<1> QED BY <1>2, <1>3, <1>5, <1>6, <1>7, <1>8 DEF Calming, ContractInv, CallsExclude

\* Losing the proofs keeps the contract, and so does a step without the driver.
LEMMA ProofsLostCalms ==
  ASSUME ContractInv, ProofsLost \/ UNCHANGED drv
  PROVE  Calming
BY DEF ContractInv, ContractTypeOK, ProofsLost, drv, Calming, Starting, NothingStarts

(***************************************************************************)
(* What the building blocks do to the types and to the driver.             *)
(***************************************************************************)

\* The operations, with their types.
Typed(f) == f \in [Ops -> OpRecords]

\* An operation at rest, or just submitted, has its type.
LEMMA RestingTyped ==
  ASSUME NEW pc \in Points
  PROVE  Resting(pc) \in OpRecords
BY DEF Resting, OpRecords

LEMMA PointsHave ==
  /\ Rest \subseteq Points /\ DriverAwaits \subseteq Points /\ LockWaits \subseteq Points
  /\ {"run_lock", "probe", "warn", "publish", "stop_publish"} \subseteq Points
BY DEF Points

\* Registering an abort keeps the types.
LEMMA MarkTyped ==
  ASSUME NEW f, Typed(f), NEW scope \in {"channel", "full"}
  PROVE  Typed(Mark(f, scope))
<1>1. ASSUME NEW p \in Ops
      PROVE  [f[p] EXCEPT !.seen = @ \cup {scope}] \in OpRecords
  BY DEF Typed, OpRecords
<1> QED BY <1>1 DEF Typed, Mark

\* Returning keeps them.
LEMMA ReturnTyped ==
  ASSUME TypesOK, NEW f, Typed(f), NEW p \in Ops, NEW verdict \in Rest, Return(p, f, verdict)
  PROVE  /\ Typed(op') /\ lock' \in Ops \cup {"none"} /\ runLock' \in Ops \cup {"none"}
<1>1. Resting(verdict) \in OpRecords
  BY RestingTyped, PointsHave
<1> QED BY <1>1 DEF Typed, Return, TypesOK

\* Awaiting a driver call keeps them.
LEMMA AwaitTyped ==
  ASSUME NEW f, Typed(f), NEW p \in Ops, NEW u \in Ops, NEW pc \in DriverAwaits, NEW scope \in SUBSET Channels
  PROVE  Typed([f EXCEPT ![p].pc = pc, ![p].via = u, ![p].res = "none", ![p].scope = scope])
<1>1. pc \in Points
  BY PointsHave
<1>2. [f[p] EXCEPT !.pc = pc, !.via = u, !.res = "none", !.scope = scope] \in OpRecords
  <2> DEFINE r == f[p]
  <2>1. r \in OpRecords
    BY DEF Typed
  <2> HIDE DEF r
  <2>2. [r EXCEPT !.pc = pc, !.via = u] \in OpRecords
    BY <1>1, <2>1 DEF OpRecords
  <2>3. [[r EXCEPT !.pc = pc, !.via = u] EXCEPT !.res = "none", !.scope = scope] \in OpRecords
    BY <2>2 DEF OpRecords
  <2> QED BY <2>1, <2>3 DEF r
<1>3. [f EXCEPT ![p].pc = pc, ![p].via = u, ![p].res = "none", ![p].scope = scope] =
        [f EXCEPT ![p] = [f[p] EXCEPT !.pc = pc, !.via = u, !.res = "none", !.scope = scope]]
  BY DEF Typed, OpRecords
<1> QED BY <1>2, <1>3 DEF Typed

LEMMA AwaitOffSound ==
  ASSUME ContractInv, NEW f, Typed(f), NEW p \in Ops, NEW pc \in DriverAwaits, NEW scope \in SUBSET Channels,
         AwaitOff(p, f, pc, scope)
  PROVE  Typed(op') /\ Calming
BY AwaitTyped, BeginOffCalms DEF AwaitOff

\* Joining the retained global OFF, or starting one.
LEMMA AwaitGlobalOffSound ==
  ASSUME ContractInv, TypesOK, NEW f, Typed(f), NEW p \in Ops, NEW pc \in DriverAwaits, NEW latch \in BOOLEAN,
         AwaitGlobalOff(p, f, pc, latch)
  PROVE  Typed(op') /\ Calming /\ retained' \in Tasks
<1>1. CASE retained.task # "none" /\ (IF latch THEN retained.latch ELSE retained.now)
  <2>1. retained.task \in Ops
    BY <1>1 DEF TypesOK, Tasks
  <2>2. Typed(op')
    <3>1. op' = [f EXCEPT ![p].pc = pc, ![p].via = retained.task, ![p].res = "none", ![p].scope = Channels]
      BY <1>1 DEF AwaitGlobalOff
    <3>2. Channels \in SUBSET Channels
      OBVIOUS
    <3>3. Typed([f EXCEPT ![p].pc = pc, ![p].via = retained.task, ![p].res = "none", ![p].scope = Channels])
      BY <2>1, <3>2, AwaitTyped
    <3> QED BY <3>1, <3>3
  <2> QED BY <1>1, <2>2, ProofsLostCalms DEF AwaitGlobalOff, TypesOK
<1>2. CASE ~(retained.task # "none" /\ (IF latch THEN retained.latch ELSE retained.now))
  <2>1. AwaitOff(p, f, pc, Channels)
    BY <1>2 DEF AwaitGlobalOff
  <2>2. retained' \in Tasks
    <3>1. /\ (latch => latchNow) \in BOOLEAN
          /\ (latch \/ latchNow) \in BOOLEAN
      OBVIOUS
    <3>2. retained' = [task |-> p, now |-> latch => latchNow, latch |-> latch \/ latchNow]
      BY <1>2 DEF AwaitGlobalOff
    <3> QED BY <3>1, <3>2, Zenon DEF Tasks
  <2> QED BY <2>1, <2>2, AwaitOffSound
<1> QED BY <1>1, <1>2

LEMMA EnsureOffSound ==
  ASSUME ContractInv, TypesOK, NEW f, Typed(f), NEW p \in Ops, NEW pc \in DriverAwaits, NEW scope \in SUBSET Channels,
         EnsureOff(p, f, pc, scope)
  PROVE  Typed(op') /\ Calming /\ retained' \in Tasks /\ latchNow' \in BOOLEAN
BY AwaitOffSound, AwaitGlobalOffSound DEF EnsureOff, TypesOK

\* Latching a fault and beginning the OFF that settles it.
LEMMA LatchSound ==
  ASSUME ContractInv, NEW f, Typed(f), NEW p \in Ops, NEW pc \in DriverAwaits,
         NEW src, Latch(p, f, src, pc)
  PROVE  /\ Typed(op') /\ Calming /\ retained' \in Tasks /\ latchNow' \in BOOLEAN
         /\ state' \in States /\ sources' = {src}
<1>1. Typed(Mark(f, "full"))
  BY MarkTyped
<1>2. Typed(op') /\ Calming
  BY <1>1, AwaitOffSound DEF Latch
<1> QED BY <1>2 DEF Latch, Tasks, States

(***************************************************************************)
(* Steps of the manager.                                                   *)
(***************************************************************************)

Sources == Origins \cup {Reconciliation, PostPublication}

\* The types of all that a building block may change, after the step.
StepTyped ==
  /\ Typed(op') /\ retained' \in Tasks /\ latchNow' \in BOOLEAN
  /\ state' \in States /\ sources' \subseteq Sources
  /\ lock' \in Ops \cup {"none"} /\ runLock' \in Ops \cup {"none"}

\* What is sourcing, and the evidence that nothing does, after a step that
\* starts nothing: it is the old evidence, or every channel has its proof.
StepCalm ==
  /\ Calming /\ active' \subseteq Channels /\ evidence' \in BOOLEAN
  /\ evidence' => evidence \/ proved = Channels

\* The inductive invariant.
IInv ==
  /\ TypesOK /\ ContractInv
  /\ evidence => out = {} /\ Starting = {}

\* The evidence is refreshed against the proofs of every channel.
LEMMA RefreshedNeedsProofs ==
  \A e : /\ Refreshed(e) \in BOOLEAN
         /\ Refreshed(e) => proved = Channels
BY DEF Refreshed

LEMMA EvidenceAfterNeedsProofs ==
  \A scope, ok : /\ EvidenceAfter(scope, ok) \in BOOLEAN
                 /\ EvidenceAfter(scope, ok) => proved = Channels
BY DEF EvidenceAfter, Refreshed

\* An operation that ends by latching a fault, or by joining one.
LEMMA FaultAndReturnSound ==
  ASSUME TypesOK, ContractInv, NEW f, Typed(f), NEW p \in Ops, NEW src \in Sources, FaultAndReturn(p, f, src)
  PROVE  StepTyped /\ Calming
<1>1. CASE Faulted
  <2>1. Return(p, f, "idle") /\ UNCHANGED <<state, tasks, drv>> /\ sources' = sources \cup {src}
    BY <1>1 DEF FaultAndReturn
  <2>2. Typed(op') /\ lock' \in Ops \cup {"none"} /\ runLock' \in Ops \cup {"none"}
    BY <2>1, ReturnTyped DEF Rest
  <2>3. Calming
    BY <2>1, ProofsLostCalms
  <2> QED BY <2>1, <2>2, <2>3 DEF StepTyped, TypesOK, Sources, tasks
<1>2. CASE ~Faulted
  <2>1. Latch(p, f, src, "settle") /\ UNCHANGED locks
    BY <1>2 DEF FaultAndReturn
  <2>2. "settle" \in DriverAwaits
    BY DEF DriverAwaits
  <2> QED BY <2>1, <2>2, LatchSound DEF StepTyped, TypesOK, locks
<1> QED BY <1>1, <1>2

\* A reconciliation begins its OFF.
LEMMA ReconcileSound ==
  ASSUME TypesOK, ContractInv, NEW p \in Ops, Reconcile(p, op)
  PROVE  StepTyped /\ Calming
<1>1. Typed(op) /\ "settle_then_proof" \in DriverAwaits
  BY DEF Typed, TypesOK, DriverAwaits
<1>2. CASE Faulted
  <2>1. /\ sources' = sources \cup {Reconciliation} /\ UNCHANGED <<state, latchNow>> /\ UNCHANGED locks
        /\ AwaitGlobalOff(p, op, "settle_then_proof", TRUE)
    BY <1>2 DEF Reconcile
  <2>2. Typed(op') /\ Calming /\ retained' \in Tasks
    BY <1>1, <2>1, AwaitGlobalOffSound
  <2> QED BY <2>1, <2>2 DEF StepTyped, TypesOK, Sources, locks
<1>3. CASE ~Faulted
  <2>1. Latch(p, op, Reconciliation, "settle_then_proof") /\ UNCHANGED locks
    BY <1>3 DEF Reconcile
  <2> QED BY <1>1, <2>1, LatchSound DEF StepTyped, TypesOK, Sources, locks
<1> QED BY <1>2, <1>3

\* An operation that ends without touching the driver.
LEMMA ReturnSteps ==
  ASSUME TypesOK, ContractInv, NEW p \in Ops, NEW verdict \in Rest, Return(p, op, verdict),
         UNCHANGED <<retained, drv>>, latchNow' \in BOOLEAN, state' \in States, sources' \subseteq Sources
  PROVE  StepTyped /\ Calming
<1>1. Typed(op') /\ lock' \in Ops \cup {"none"} /\ runLock' \in Ops \cup {"none"}
  BY ReturnTyped DEF Typed, TypesOK
<1>2. Calming
  BY ProofsLostCalms
<1> QED BY <1>1, <1>2 DEF StepTyped, TypesOK

\* ... nor the retained task and the latch's generation.
LEMMA ReturnSound ==
  ASSUME TypesOK, ContractInv, NEW p \in Ops, NEW verdict \in Rest, Return(p, op, verdict),
         UNCHANGED <<tasks, drv>>, state' \in States, sources' \subseteq Sources
  PROVE  StepTyped /\ Calming
<1>1. UNCHANGED <<retained, drv>> /\ latchNow' \in BOOLEAN
  BY DEF tasks, TypesOK
<1> QED BY <1>1, ReturnSteps

\* An OFF of one scope begins, and nothing of the manager's own changes.
LEMMA EnsureOffSteps ==
  ASSUME TypesOK, ContractInv, NEW p \in Ops, NEW pc \in DriverAwaits, NEW scope \in SUBSET Channels,
         EnsureOff(p, op, pc, scope), UNCHANGED <<state, sources, locks>>
  PROVE  StepTyped /\ Calming
<1>1. Typed(op') /\ Calming /\ retained' \in Tasks /\ latchNow' \in BOOLEAN
  BY EnsureOffSound DEF Typed, TypesOK
<1> QED BY <1>1 DEF StepTyped, TypesOK, Sources, locks

\* What an operation has to do lies within the channels.
LEMMA OpFields ==
  ASSUME TypesOK, NEW p \in Ops
  PROVE  /\ Typed(op) /\ op[p] \in OpRecords
         /\ op[p].scope \in SUBSET Channels /\ op[p].todo \in SUBSET Channels
BY DEF TypesOK, Typed, OpRecords

\* Submissions only wait: the driver is untouched and the evidence stands.
LEMMA WaitSound ==
  ASSUME TypesOK, ContractInv, Typed(op'), lock' \in Ops \cup {"none"}, runLock' \in Ops \cup {"none"},
         retained' \in Tasks, latchNow' \in BOOLEAN, UNCHANGED <<mgr, drv>>
  PROVE  StepTyped /\ StepCalm
<1>1. Calming
  BY ProofsLostCalms
<1> QED BY <1>1 DEF StepTyped, StepCalm, TypesOK, Sources, mgr

LEMMA SubmitSound ==
  ASSUME TypesOK, ContractInv, NEW p \in Ops,
         \/ \E scope \in SUBSET Channels : SubmitEmergency(p, scope) \/ SubmitStop(p, scope)
         \/ SubmitInterlockStop(p) \/ SubmitAcknowledge(p) \/ \E c \in Channels : SubmitRun(p, c)
  PROVE  StepTyped /\ StepCalm
<1>0. Resting("lock") \in OpRecords /\ Resting("run_lock") \in OpRecords
  BY RestingTyped, PointsHave DEF LockWaits
<1>1. /\ Typed(op) /\ Typed(Mark(op, "full")) /\ Typed(Mark(op, "channel"))
  BY MarkTyped DEF TypesOK, Typed
<1>2. AbortRegistered => retained' \in Tasks /\ latchNow' \in BOOLEAN
  BY DEF AbortRegistered, TypesOK, Tasks
<1>3. CASE \E scope \in SUBSET Channels : SubmitEmergency(p, scope)
  <2>1. PICK scope \in SUBSET Channels : SubmitEmergency(p, scope)
    BY <1>3
  <2>2. [Resting("lock") EXCEPT !.kind = "emergency", !.scope = scope] \in OpRecords
    BY <1>0 DEF OpRecords
  <2>3. Typed(op')
    BY <1>1, <2>1, <2>2 DEF SubmitEmergency, Typed
  <2> QED BY <1>2, <2>1, <2>3, WaitSound DEF SubmitEmergency, Enqueue, TypesOK
<1>4. CASE \E scope \in SUBSET Channels : SubmitStop(p, scope)
  <2>1. PICK scope \in SUBSET Channels : SubmitStop(p, scope)
    BY <1>4
  <2>2. [Resting("lock") EXCEPT !.kind = "stop", !.scope = scope, !.todo = scope] \in OpRecords
    BY <1>0 DEF OpRecords
  <2>3. Typed(op')
    BY <1>1, <2>1, <2>2 DEF SubmitStop, Typed
  <2> QED BY <1>2, <2>1, <2>3, WaitSound DEF SubmitStop, Enqueue, TypesOK
<1>5. CASE SubmitInterlockStop(p)
  <2>2. [Resting("lock") EXCEPT !.kind = "interlock", !.scope = Channels] \in OpRecords
    BY <1>0 DEF OpRecords
  <2>3. Typed(op')
    BY <1>1, <1>5, <2>2 DEF SubmitInterlockStop, Typed
  <2> QED BY <1>2, <1>5, <2>3, WaitSound DEF SubmitInterlockStop, Enqueue, TypesOK
<1>6. CASE SubmitAcknowledge(p)
  <2>2. [Resting("lock") EXCEPT !.kind = "acknowledge"] \in OpRecords
    BY <1>0 DEF OpRecords
  <2>3. Typed(op')
    BY <1>1, <1>6, <2>2 DEF SubmitAcknowledge, Typed
  <2> QED BY <1>6, <2>3, WaitSound DEF SubmitAcknowledge, Enqueue, TypesOK, tasks
<1>7. CASE \E c \in Channels : SubmitRun(p, c)
  <2>1. PICK c \in Channels : SubmitRun(p, c)
    BY <1>7
  <2>2. [Resting("run_lock") EXCEPT !.kind = "run", !.scope = {c}] \in OpRecords
    BY <1>0 DEF OpRecords
  <2>3. Typed(op')
    BY <1>1, <2>1, <2>2 DEF SubmitRun, Typed
  <2> QED BY <2>1, <2>3, WaitSound DEF SubmitRun, TypesOK, tasks, locks
<1> QED BY <1>3, <1>4, <1>5, <1>6, <1>7

\* emergency_off, at the lock and when its OFF has answered.
LEMMA EmergencySound ==
  ASSUME TypesOK, ContractInv, NEW p \in Ops, EmergencyLocked(p) \/ EmergencySettled(p)
  PROVE  StepTyped /\ StepCalm
<1>0. op[p].scope \in SUBSET Channels /\ Typed(op) /\ "emergency" \in DriverAwaits
      /\ "safety_manager" \in Sources
  BY OpFields DEF DriverAwaits, Sources, Origins
<1>1. CASE EmergencyLocked(p)
  <2>1. PICK hazard \in Hazards :
          IF Conflict(active, hazard)
          THEN Reconcile(p, op)
          ELSE EnsureOff(p, op, "emergency", op[p].scope) /\ UNCHANGED <<state, sources, locks>>
    BY <1>1 DEF EmergencyLocked
  <2>2. StepTyped /\ Calming
    BY <1>0, <2>1, ReconcileSound, EnsureOffSteps
  <2>3. evidence' = Refreshed(evidence) /\ UNCHANGED active
    BY <1>1 DEF EmergencyLocked
  <2> QED BY <2>2, <2>3, RefreshedNeedsProofs DEF StepCalm, TypesOK
<1>2. CASE EmergencySettled(p)
  <2>1. /\ evidence' = EvidenceAfter(op[p].scope, Succeeded(p))
        /\ active' \subseteq Channels
    BY <1>2 DEF EmergencySettled, TypesOK
  <2>2. StepTyped /\ Calming
    <3>1. CASE ~Succeeded(p)
      BY <1>0, <1>2, <3>1, FaultAndReturnSound DEF EmergencySettled
    <3>2. CASE Succeeded(p)
      <4>1. PICK hazard \in Hazards :
              IF Conflict(active', hazard) THEN Reconcile(p, op)
              ELSE /\ state' = IF Faulted \/ active' # {} THEN state ELSE "safe_off"
                   /\ Return(p, op, IF p \in Runs THEN "idle" ELSE "ok")
                   /\ UNCHANGED <<sources, tasks, drv>>
        BY <1>2, <3>2 DEF EmergencySettled
      <4>2. CASE Conflict(active', hazard)
        BY <4>1, <4>2, ReconcileSound
      <4>3. CASE ~Conflict(active', hazard)
        <5>1. (IF p \in Runs THEN "idle" ELSE "ok") \in Rest
          BY DEF Rest
        <5>2. state' \in States /\ sources' \subseteq Sources
          BY <4>1, <4>3 DEF TypesOK, States, Sources
        <5> QED BY <4>1, <4>3, <5>1, <5>2, ReturnSound
      <4> QED BY <4>2, <4>3
    <3> QED BY <3>1, <3>2
  <2> QED BY <2>1, <2>2, EvidenceAfterNeedsProofs DEF StepCalm
<1> QED BY <1>1, <1>2

\* stop_source of the next channel begins.
LEMMA StopNextSound ==
  ASSUME ContractInv, NEW f, Typed(f), NEW p \in Ops, StopNext(p, f)
  PROVE  Typed(op') /\ Calming
<1>1. PICK c \in f[p].todo :
        /\ op' = [f EXCEPT ![p].pc = "stop", ![p].via = p, ![p].res = "none", ![p].todo = @ \ {c}]
        /\ BeginOffCall(p, {c})
  BY DEF StopNext
<1> DEFINE r == f[p]
           d == [r EXCEPT !.pc = "stop", !.via = p]
<1>2. r \in OpRecords /\ {c} \in SUBSET Channels /\ r.todo \ {c} \in SUBSET Channels /\ "stop" \in Points
  BY <1>1, PointsHave DEF Typed, OpRecords, DriverAwaits
<1>3. op' = [f EXCEPT ![p] = [d EXCEPT !.res = "none", !.todo = r.todo \ {c}]]
  BY <1>1, <1>2 DEF Typed, OpRecords
<1> HIDE DEF r
<1>4. d \in OpRecords
  BY <1>2 DEF OpRecords
<1> HIDE DEF d
<1>5. [d EXCEPT !.res = "none", !.todo = r.todo \ {c}] \in OpRecords
  BY <1>2, <1>4 DEF OpRecords
<1>6. Typed(op')
  BY <1>3, <1>5 DEF Typed
<1> QED BY <1>1, <1>2, <1>6, BeginOffCalms

\* request_stop at the lock, beside a fault, and at its end.
LEMMA StopSound ==
  ASSUME TypesOK, ContractInv, NEW p \in Ops, StopLocked(p) \/ FaultStopSettled(p) \/ StopReconcile(p)
  PROVE  StepTyped /\ StepCalm
<1>0. op[p].scope \in SUBSET Channels /\ Typed(op) /\ "fault_stop" \in DriverAwaits /\ "idle" \in Rest
  BY OpFields DEF DriverAwaits, Rest
<1>1. CASE StopLocked(p)
  <2>1. PICK hazard \in Hazards :
       IF Conflict(active, hazard) THEN Reconcile(p, op)
       ELSE /\ IF Faulted THEN EnsureOff(p, op, "fault_stop", op[p].scope)
                          ELSE StopNext(p, op) /\ UNCHANGED tasks
            /\ UNCHANGED <<state, sources, locks>>
    BY <1>1 DEF StopLocked
  <2>2. ASSUME StopNext(p, op), UNCHANGED tasks, UNCHANGED <<state, sources, locks>>
        PROVE  StepTyped /\ Calming
    <3>1. Typed(op') /\ Calming
      BY <1>0, <2>2, StopNextSound
    <3> QED BY <2>2, <3>1 DEF StepTyped, TypesOK, Sources, locks, tasks
  <2>3. StepTyped /\ Calming
    BY <1>0, <2>1, <2>2, ReconcileSound, EnsureOffSteps
  <2>4. evidence' = Refreshed(evidence) /\ UNCHANGED active
    BY <1>1 DEF StopLocked
  <2> QED BY <2>3, <2>4, RefreshedNeedsProofs DEF StepCalm, TypesOK
<1>2. CASE FaultStopSettled(p)
  <2>1. StepTyped /\ Calming
    BY <1>0, <1>2, ReturnSound DEF FaultStopSettled, TypesOK, Sources
  <2> QED BY <1>2, <2>1, EvidenceAfterNeedsProofs DEF FaultStopSettled, StepCalm, TypesOK
<1>3. CASE StopReconcile(p)
  <2>1. PICK hazard \in Hazards :
       IF Conflict(active, hazard) THEN Reconcile(p, op)
       ELSE /\ op' = [op EXCEPT ![p].pc = "stop_publish", ![p].res = "none"]
            /\ UNCHANGED <<state, sources, locks, tasks, drv>>
    BY <1>3 DEF StopReconcile
  <2>2. ASSUME op' = [op EXCEPT ![p].pc = "stop_publish", ![p].res = "none"],
               UNCHANGED <<state, sources, locks, tasks, drv>>
        PROVE  StepTyped /\ Calming
    <3>1. "stop_publish" \in Points /\ op[p] \in OpRecords
      BY OpFields, PointsHave
    <3>2. Typed(op')
      BY <1>0, <2>2, <3>1 DEF Typed, OpRecords
    <3>3. Calming
      BY <2>2, ProofsLostCalms
    <3> QED BY <2>2, <3>2, <3>3 DEF StepTyped, TypesOK, Sources, locks, tasks
  <2>3. StepTyped /\ Calming
    BY <2>1, <2>2, ReconcileSound
  <2>4. evidence' = Refreshed(evidence) /\ UNCHANGED active
    BY <1>3 DEF StopReconcile
  <2> QED BY <2>3, <2>4, RefreshedNeedsProofs DEF StepCalm, TypesOK
<1> QED BY <1>1, <1>2, <1>3

\* _safe_off after one stop_source.
LEMMA StopSettledSound ==
  ASSUME TypesOK, ContractInv, NEW p \in Ops, StopSettled(p)
  PROVE  StepTyped /\ StepCalm
<1> DEFINE cut == op[p].cut \/ ~Succeeded(p) \/ Faulted \/ op[p].seen # {}
           f == [op EXCEPT ![p].cut = cut, ![p].pc = "stop_reconcile"]
<1>0. /\ op[p].scope \in SUBSET Channels /\ Typed(op) /\ op[p] \in OpRecords
      /\ "stop_reconcile" \in Points /\ "settle_then_stop" \in DriverAwaits /\ "safety_manager" \in Sources
  BY OpFields, PointsHave DEF DriverAwaits, Sources, Origins
<1>1. cut \in BOOLEAN
  <2>1. op[p].cut \in BOOLEAN
    BY <1>0 DEF OpRecords
  <2> QED BY <2>1, Zenon
<1>2. Typed(f)
  <2> HIDE DEF cut
  <2> QED BY <1>0, <1>1 DEF Typed, OpRecords
<1>3. CASE ~Succeeded(p)
  <2>1. /\ evidence' = Refreshed(evidence) /\ UNCHANGED <<active, locks>>
        /\ IF Faulted
           THEN /\ sources' = sources \cup {"safety_manager"}
                /\ op' = f /\ UNCHANGED <<state, tasks, drv>>
           ELSE Latch(p, f, "safety_manager", "settle_then_stop")
    BY <1>3 DEF StopSettled
  <2> HIDE DEF f
  <2>2. CASE Faulted
    <3>1. Calming
      BY <2>1, <2>2, ProofsLostCalms
    <3> QED BY <1>0, <1>2, <2>1, <2>2, <3>1, RefreshedNeedsProofs
            DEF StepTyped, StepCalm, TypesOK, Sources, locks, tasks
  <2>3. CASE ~Faulted
    BY <1>0, <1>2, <2>1, <2>3, LatchSound, RefreshedNeedsProofs
       DEF StepTyped, StepCalm, TypesOK, locks
  <2> QED BY <2>2, <2>3
<1>4. CASE Succeeded(p)
  <2>1. /\ active' = active \ (op[p].scope \ op[p].todo)
        /\ IF op[p].todo # {}
           THEN StopNext(p, f) /\ evidence' = Refreshed(evidence) /\ UNCHANGED state
           ELSE /\ op' = f /\ UNCHANGED drv
                /\ state' = IF cut THEN state ELSE IF active' # {} THEN "running" ELSE "safe_off"
                /\ evidence' = (Refreshed(evidence) /\ (cut \/ active' # {}))
        /\ UNCHANGED <<sources, locks, tasks>>
    BY <1>4 DEF StopSettled
  <2> HIDE DEF f, cut
  <2>2. Typed(op') /\ Calming
    BY <1>2, <2>1, StopNextSound, ProofsLostCalms
  <2>3. state' \in States
    BY <2>1 DEF TypesOK, States
  <2>4. evidence' \in BOOLEAN /\ (evidence' => proved = Channels)
    BY <2>1, RefreshedNeedsProofs
  <2> QED BY <2>1, <2>2, <2>3, <2>4 DEF StepTyped, StepCalm, TypesOK, Sources, locks, tasks
<1> QED BY <1>3, <1>4

\* Interlock stop and acknowledgement.
LEMMA InterlockSound ==
  ASSUME TypesOK, ContractInv, NEW p \in Ops, InterlockLocked(p) \/ InterlockSettled(p) \/ AcknowledgeLocked(p)
  PROVE  StepTyped /\ StepCalm
<1>0. /\ Typed(op) /\ "interlock" \in DriverAwaits /\ "idle" \in Rest /\ "ok" \in Rest
      /\ "safety_manager" \in Sources
  BY OpFields DEF DriverAwaits, Rest, Sources, Origins
<1>1. CASE InterlockLocked(p)
  <2>1. Typed(op') /\ Calming
    BY <1>0, <1>1, AwaitOffSound DEF InterlockLocked
  <2> QED BY <1>1, <2>1 DEF InterlockLocked, StepTyped, StepCalm, TypesOK, Sources, mgr, locks, tasks
<1>2. CASE InterlockSettled(p)
  <2>1. CASE ~Succeeded(p)
    <3>1. StepTyped /\ Calming
      BY <1>0, <1>2, <2>1, FaultAndReturnSound DEF InterlockSettled
    <3> QED BY <1>2, <2>1, <3>1, RefreshedNeedsProofs DEF InterlockSettled, StepCalm, TypesOK
  <2>2. CASE Succeeded(p)
    <3>1. /\ active' = {} /\ evidence' = Refreshed(TRUE)
          /\ state' = IF state \in {"fault_latched", "manual_recovery"} THEN state ELSE "safe_off"
          /\ Return(p, op, "ok")
          /\ UNCHANGED <<sources, tasks, drv>>
      BY <1>2, <2>2 DEF InterlockSettled
    <3>2. state' \in States /\ sources' \subseteq Sources
      BY <3>1 DEF TypesOK, States, Sources
    <3>3. StepTyped /\ Calming
      BY <1>0, <3>1, <3>2, ReturnSound
    <3> QED BY <3>1, <3>3, RefreshedNeedsProofs DEF StepCalm
  <2> QED BY <2>1, <2>2
<1>3. CASE AcknowledgeLocked(p)
  <2>1. state' \in States /\ sources' \subseteq Sources
    BY <1>3 DEF AcknowledgeLocked, TypesOK, States, Sources
  <2>2. StepTyped /\ Calming
    BY <1>0, <1>3, <2>1, ReturnSound DEF AcknowledgeLocked
  <2> QED BY <1>3, <2>2, RefreshedNeedsProofs DEF AcknowledgeLocked, StepCalm, TypesOK
<1> QED BY <1>1, <1>2, <1>3

\* Faults, and their settlement.
LEMMA FaultSound ==
  ASSUME TypesOK, ContractInv, NEW p \in Ops,
         (\E src \in Origins : RaiseFault(p, src)) \/ FaultSettled(p) \/ ProofSettled(p)
  PROVE  StepTyped /\ StepCalm
<1>0. /\ Typed(op) /\ op[p] \in OpRecords /\ {"settle", "proof", "stop_reconcile"} \subseteq DriverAwaits
      /\ "idle" \in Rest
  BY OpFields DEF DriverAwaits, Rest
<1>1. CASE \E src \in Origins : RaiseFault(p, src)
  <2>1. PICK src \in Origins : RaiseFault(p, src)
    BY <1>1
  <2>2. Typed([op EXCEPT ![p].kind = "fault"])
    BY <1>0 DEF Typed, OpRecords
  <2>3. CASE Faulted
    <3>1. Calming
      BY <2>1, <2>3, ProofsLostCalms DEF RaiseFault
    <3> QED BY <1>0, <2>1, <2>3, <3>1, RefreshedNeedsProofs
            DEF RaiseFault, StepTyped, StepCalm, TypesOK, Sources, locks, tasks
  <2>4. CASE ~Faulted
    BY <1>0, <2>1, <2>2, <2>4, LatchSound, RefreshedNeedsProofs
       DEF RaiseFault, StepTyped, StepCalm, TypesOK, Sources, locks
  <2> QED BY <2>3, <2>4
<1>2. CASE FaultSettled(p)
  <2>1. /\ active' = (IF Succeeded(p) THEN {} ELSE active)
        /\ evidence' = Refreshed(Succeeded(p))
        /\ UNCHANGED <<state, sources>>
        /\ op[p].pc \in {"settle", "settle_then_proof", "settle_then_stop"}
    BY <1>2 DEF FaultSettled
  <2>2. StepTyped /\ Calming
    <3>1. CASE op[p].pc = "settle"
      BY <1>0, <1>2, <2>1, <3>1, ReturnSound DEF FaultSettled, TypesOK, Sources
    <3>2. CASE op[p].pc = "settle_then_proof"
      <4>1. AwaitGlobalOff(p, op, "proof", FALSE) /\ UNCHANGED <<locks, latchNow>>
        BY <1>2, <3>2 DEF FaultSettled
      <4>2. Typed(op') /\ Calming /\ retained' \in Tasks
        BY <1>0, <4>1, AwaitGlobalOffSound
      <4> QED BY <2>1, <4>1, <4>2 DEF StepTyped, TypesOK, Sources, locks
    <3>3. CASE op[p].pc = "settle_then_stop"
      <4>1. op' = [op EXCEPT ![p].pc = "stop_reconcile", ![p].res = "ok"] /\ UNCHANGED <<locks, tasks, drv>>
        BY <1>2, <3>3 DEF FaultSettled
      <4>2. Typed(op')
        BY <1>0, <4>1, PointsHave DEF Typed, OpRecords
      <4>3. Calming
        BY <4>1, ProofsLostCalms
      <4> QED BY <2>1, <4>1, <4>2, <4>3 DEF StepTyped, TypesOK, Sources, locks, tasks
    <3> QED BY <2>1, <3>1, <3>2, <3>3
  <2> QED BY <2>1, <2>2, RefreshedNeedsProofs DEF StepCalm, TypesOK
<1>3. CASE ProofSettled(p)
  <2>1. StepTyped /\ Calming
    BY <1>0, <1>3, ReturnSound DEF ProofSettled, TypesOK, Sources
  <2> QED BY <1>3, <2>1, EvidenceAfterNeedsProofs DEF ProofSettled, StepCalm, TypesOK
<1> QED BY <1>1, <1>2, <1>3

(***************************************************************************)
(* request_run.  The step that begins a start gives the evidence up.       *)
(***************************************************************************)

\* Who may begin one: a RUN that no abort has overtaken, into a state that
\* permits it.  That the commit follows no probe is known only of the whole
\* invariant.
MayStart(u) ==
  /\ op[u].seen = {} \/ (op[u].pc = "probe" /\ op[u].phase = "commit")
  /\ state' \in {"run_permitted", "running"}

StepStarts ==
  /\ ContractInv' /\ active' \subseteq Channels /\ evidence' = FALSE
  /\ \A u \in Ops : call[u].kind = "none" /\ call'[u].kind = "start" => MayStart(u)

\* start_source is called.
LEMMA StartSourceSound ==
  ASSUME TypesOK, ContractInv, NEW p \in Ops, NEW st, StartSource(p, st),
         op[p].seen = {} \/ (op[p].pc = "probe" /\ op[p].phase = "commit")
  PROVE  /\ Typed(op') /\ ContractInv' /\ evidence' = FALSE /\ state' \in States
         /\ \A u \in Ops : call[u].kind = "none" /\ call'[u].kind = "start" => MayStart(u)
<1>1. PICK c \in Target(p) : BeginStartCall(p, c)
  BY DEF StartSource
<1>2. c \in Channels /\ p \in Owners
  BY <1>1, OpFields DEF Target
<1>3. ContractInv'
  BY <1>1, <1>2, BeginStartKeeps
<1>4. op' = [op EXCEPT ![p].pc = "start", ![p].via = p, ![p].res = "none"]
  BY DEF StartSource
<1>5. "start" \in Points /\ op[p] \in OpRecords /\ Typed(op)
  BY OpFields, PointsHave DEF DriverAwaits
<1>6. [op[p] EXCEPT !.pc = "start", !.via = p] \in OpRecords
  BY <1>5 DEF OpRecords
<1>7. [[op[p] EXCEPT !.pc = "start", !.via = p] EXCEPT !.res = "none"] \in OpRecords
  BY <1>6 DEF OpRecords
<1>8. op' = [op EXCEPT ![p] = [[op[p] EXCEPT !.pc = "start", !.via = p] EXCEPT !.res = "none"]]
  BY <1>4, <1>5 DEF Typed, OpRecords
<1>9. Typed(op')
  BY <1>5, <1>7, <1>8 DEF Typed
<1>10. ASSUME NEW u \in Ops, call[u].kind = "none", call'[u].kind = "start" PROVE MayStart(u)
  <2>1. u = p
    BY <1>1, <1>10 DEF BeginStartCall, ContractInv, ContractTypeOK
  <2> QED BY <2>1 DEF MayStart, StartSource
<1> QED BY <1>3, <1>9, <1>10 DEF StartSource, States

\* The checks of an admission, and what they let through.
LEMMA AdmitSound ==
  ASSUME TypesOK, ContractInv, NEW p \in Ops, NEW st \in States, Admit(p, st),
         UNCHANGED <<active, retained>>, latchNow' \in BOOLEAN, sources' \subseteq Sources,
         op[p].seen = {} \/ op[p].pc = "probe"
  PROVE  StepTyped /\ (StepCalm \/ StepStarts)
<1>0. /\ Typed(op) /\ op[p] \in OpRecords /\ "target_off" \in DriverAwaits /\ "warn" \in Points
      /\ "idle" \in Rest /\ Target(p) \in SUBSET Channels
  BY OpFields, PointsHave DEF DriverAwaits, Rest, Target
<1>1. CASE state' = st /\ evidence' = Refreshed(evidence) /\ Return(p, op, "idle") /\ UNCHANGED drv
  <2>1. StepTyped /\ Calming
    BY <1>0, <1>1, ReturnSteps
  <2> QED BY <1>1, <2>1, RefreshedNeedsProofs DEF StepCalm, TypesOK
<1>2. CASE /\ state' = st /\ evidence' = Refreshed(evidence)
           /\ op' = [op EXCEPT ![p].pc = "warn", ![p].res = "none"]
           /\ lock' = "none" /\ UNCHANGED <<queue, runLock, drv>>
  <2>1. Typed(op')
    BY <1>0, <1>2 DEF Typed, OpRecords
  <2>2. Calming
    BY <1>2, ProofsLostCalms
  <2> QED BY <1>2, <2>1, <2>2, RefreshedNeedsProofs DEF StepTyped, StepCalm, TypesOK
<1>3. CASE /\ state' = st /\ evidence' = Refreshed(evidence)
           /\ AwaitOff(p, op, "target_off", Target(p)) /\ UNCHANGED locks
  <2>1. Typed(op') /\ Calming
    BY <1>0, <1>3, AwaitOffSound
  <2> QED BY <1>3, <2>1, RefreshedNeedsProofs DEF StepTyped, StepCalm, TypesOK, locks
<1>4. CASE op[p].phase = "commit" /\ StartSource(p, st) /\ UNCHANGED locks
  BY <1>4, StartSourceSound DEF StepTyped, StepStarts, TypesOK, locks
<1> QED BY <1>1, <1>2, <1>3, <1>4 DEF Admit

\* Both admissions, and the writer's probe.
LEMMA AdmissionSound ==
  ASSUME TypesOK, ContractInv, NEW p \in Ops, RunAdmission(p) \/ ProbeReturns(p)
  PROVE  StepTyped /\ (StepCalm \/ StepStarts)
<1>0. /\ Typed(op) /\ op[p] \in OpRecords /\ "probe" \in Points /\ "idle" \in Rest
      /\ "safe_off" \in States /\ state \in States /\ sources \subseteq Sources
  BY OpFields, PointsHave DEF Rest, States, Sources, TypesOK
<1>1. UNCHANGED <<active, retained>>
  BY DEF RunAdmission, ProbeReturns
<1>2. ASSUME Return(p, op, "idle"), UNCHANGED <<state, sources, evidence, latchNow, drv>>
      PROVE  StepTyped /\ StepCalm
  <2>1. StepTyped /\ Calming
    BY <1>0, <1>1, <1>2, ReturnSteps DEF TypesOK
  <2> QED BY <1>1, <1>2, <2>1 DEF StepCalm, TypesOK
<1>3. ASSUME op' = [op EXCEPT ![p].pc = "probe", ![p].res = "none"],
             UNCHANGED <<state, sources, evidence, locks, latchNow, drv>>
      PROVE  StepTyped /\ StepCalm
  <2>1. Typed(op')
    BY <1>0, <1>3 DEF Typed, OpRecords
  <2>2. Calming
    BY <1>3, ProofsLostCalms
  <2> QED BY <1>0, <1>1, <1>3, <2>1, <2>2 DEF StepTyped, StepCalm, TypesOK, locks
<1>4. ASSUME ConsumeLatch(p), op[p].seen = {} \/ op[p].pc = "probe"
      PROVE  StepTyped /\ (StepCalm \/ StepStarts)
  BY <1>0, <1>1, <1>4, AdmitSound DEF ConsumeLatch
<1>5. ASSUME UNCHANGED <<sources, latchNow>>, Admit(p, state), op[p].seen = {}
      PROVE  StepTyped /\ (StepCalm \/ StepStarts)
  BY <1>0, <1>1, <1>5, AdmitSound DEF TypesOK
<1> QED BY <1>2, <1>3, <1>4, <1>5 DEF RunAdmission, ProbeReturns

\* A RUN continues as an emergency OFF.
LEMMA BecomeEmergencySound ==
  ASSUME TypesOK, ContractInv, NEW p \in Ops, BecomeEmergency(p)
  PROVE  StepTyped /\ StepCalm
<1>1. Resting("lock") \in OpRecords /\ Typed(op)
  BY RestingTyped, PointsHave, OpFields DEF LockWaits
<1>2. Typed(Mark(op, "full"))
  BY <1>1, MarkTyped
<1>3. [Resting("lock") EXCEPT !.kind = "emergency", !.scope = Channels, !.res = "ok"] \in OpRecords
  BY <1>1 DEF OpRecords
<1>4. Typed(op')
  BY <1>2, <1>3 DEF BecomeEmergency, Typed
<1>5. retained' \in Tasks /\ latchNow' \in BOOLEAN
  BY DEF BecomeEmergency, AbortRegistered, TypesOK, Tasks
<1> QED BY <1>4, <1>5, WaitSound DEF BecomeEmergency, TypesOK, locks

\* Waiting for a lock or for the receipt, and giving up.
LEMMA RunWaitSound ==
  ASSUME TypesOK, ContractInv, NEW p \in Ops,
         \/ AcquireRunLock(p) \/ RunCancelled(p) \/ WarningSettled(p) \/ StopPublished(p) \/ Grant(p)
         \/ StartCallerGone(p) \/ RunUnacknowledged(p)
  PROVE  StepTyped /\ StepCalm
<1>0. /\ Typed(op) /\ op[p] \in OpRecords /\ "idle" \in Rest /\ "ok" \in Rest
      /\ "preflight" \in Points /\ "commit" \in Points /\ Resting("idle") \in OpRecords
      /\ lock \in Ops \cup {"none"} /\ runLock \in Ops \cup {"none"}
      /\ retained \in Tasks /\ latchNow \in BOOLEAN
  BY OpFields, PointsHave, RestingTyped DEF Rest, LockWaits, TypesOK
<1>1. CASE AcquireRunLock(p)
  <2>1. Typed(op')
    BY <1>0, <1>1 DEF AcquireRunLock, Typed, OpRecords
  <2> QED BY <1>0, <1>1, <2>1, WaitSound DEF AcquireRunLock, Enqueue, tasks
<1>2. CASE RunCancelled(p)
  <2>1. Typed(op')
    BY <1>0, <1>2 DEF RunCancelled, Typed
  <2> QED BY <1>0, <1>2, <2>1, WaitSound DEF RunCancelled, tasks
<1>3. CASE WarningSettled(p)
  <2>1. CASE op[p].seen # {}
    <3>1. Typed(op') /\ lock' \in Ops \cup {"none"} /\ runLock' \in Ops \cup {"none"}
      BY <1>0, <1>3, <2>1, ReturnTyped DEF WarningSettled
    <3> QED BY <1>0, <1>3, <3>1, WaitSound DEF WarningSettled, tasks
  <2>2. CASE op[p].seen = {}
    <3>1. Typed(op')
      BY <1>0, <1>3, <2>2 DEF WarningSettled, Typed, OpRecords
    <3> QED BY <1>0, <1>3, <2>2, <3>1, WaitSound DEF WarningSettled, Enqueue, tasks
  <2> QED BY <2>1, <2>2
<1>4. CASE StopPublished(p)
  <2>1. (IF op[p].cut \/ Faulted \/ op[p].seen # {} THEN "idle" ELSE "ok") \in Rest
    BY <1>0
  <2>2. Typed(op') /\ lock' \in Ops \cup {"none"} /\ runLock' \in Ops \cup {"none"}
    BY <1>0, <1>4, <2>1, ReturnTyped DEF StopPublished
  <2> QED BY <1>0, <1>4, <2>2, WaitSound DEF StopPublished, tasks
<1>5. CASE Grant(p)
  <2>1. Typed(op')
    <3>1. [op[p] EXCEPT !.res = "ok"] \in OpRecords
      BY <1>0 DEF OpRecords
    <3>2. op' = [op EXCEPT ![p] = [op[p] EXCEPT !.res = "ok"]]
      BY <1>0, <1>5 DEF Grant, Typed
    <3> QED BY <1>0, <3>1, <3>2 DEF Typed
  <2>2. lock' \in Ops \cup {"none"} /\ runLock' \in Ops \cup {"none"}
    BY <1>5 DEF Grant, TypesOK
  <2>3. UNCHANGED <<mgr, drv>> /\ retained' \in Tasks /\ latchNow' \in BOOLEAN
    BY <1>5 DEF Grant, tasks, TypesOK
  <2> QED BY <2>1, <2>2, <2>3, WaitSound
<1>6. CASE StartCallerGone(p) \/ RunUnacknowledged(p)
  BY <1>6, BecomeEmergencySound DEF StartCallerGone, RunUnacknowledged
<1> QED BY <1>1, <1>2, <1>3, <1>4, <1>5, <1>6

\* The target's own OFF proof, and the OFF that follows a lost authority.
LEMMA TargetOffSound ==
  ASSUME TypesOK, ContractInv, NEW p \in Ops, TargetOffSettled(p) \/ AuthorityOffSettled(p)
  PROVE  StepTyped /\ (StepCalm \/ StepStarts)
<1>0. /\ Typed(op) /\ "safety_manager" \in Sources /\ "authority_off" \in DriverAwaits
      /\ Channels \in SUBSET Channels /\ "idle" \in Rest
  BY OpFields DEF DriverAwaits, Sources, Origins, Rest
<1>1. CASE TargetOffSettled(p)
  <2>0. active' = active
    BY <1>1 DEF TargetOffSettled
  <2>1. CASE ~Succeeded(p)
    <3>1. StepTyped /\ Calming
      BY <1>0, <1>1, <2>1, FaultAndReturnSound DEF TargetOffSettled
    <3> QED BY <1>1, <2>0, <2>1, <3>1, RefreshedNeedsProofs DEF TargetOffSettled, StepCalm, TypesOK
  <2>2. CASE Succeeded(p) /\ (Faulted \/ "full" \in op[p].seen)
    <3>1. EnsureOff(p, op, "authority_off", Channels) /\ evidence' = Refreshed(evidence)
          /\ UNCHANGED <<state, sources, locks>>
      BY <1>1, <2>2 DEF TargetOffSettled
    <3>2. StepTyped /\ Calming
      BY <1>0, <3>1, EnsureOffSteps
    <3> QED BY <2>0, <3>1, <3>2, RefreshedNeedsProofs DEF StepCalm, TypesOK
  <2>3. CASE Succeeded(p) /\ ~(Faulted \/ "full" \in op[p].seen) /\ op[p].seen # {}
    <3>1. Return(p, op, "idle") /\ UNCHANGED <<state, sources, evidence, tasks, drv>>
      BY <1>1, <2>3 DEF TargetOffSettled
    <3>2. StepTyped /\ Calming
      BY <1>0, <3>1, ReturnSound DEF TypesOK, Sources
    <3> QED BY <2>0, <3>1, <3>2 DEF StepCalm, TypesOK
  <2>4. CASE Succeeded(p) /\ ~(Faulted \/ "full" \in op[p].seen) /\ op[p].seen = {}
    <3>1. StartSource(p, state) /\ UNCHANGED <<sources, locks, tasks>>
      BY <1>1, <2>4 DEF TargetOffSettled
    <3>2. /\ Typed(op') /\ ContractInv' /\ evidence' = FALSE /\ state' \in States
          /\ \A u \in Ops : call[u].kind = "none" /\ call'[u].kind = "start" => MayStart(u)
      BY <2>4, <3>1, StartSourceSound
    <3> QED BY <2>0, <3>1, <3>2 DEF StepTyped, StepStarts, TypesOK, Sources, tasks, locks
  <2> QED BY <2>1, <2>2, <2>3, <2>4
<1>2. CASE AuthorityOffSettled(p)
  <2>1. StepTyped /\ Calming
    <3>1. CASE Succeeded(p)
      BY <1>0, <1>2, <3>1, ReturnSound DEF AuthorityOffSettled, TypesOK, Sources
    <3>2. CASE ~Succeeded(p)
      BY <1>0, <1>2, <3>2, FaultAndReturnSound DEF AuthorityOffSettled
    <3> QED BY <3>1, <3>2
  <2> QED BY <1>2, <2>1, EvidenceAfterNeedsProofs DEF AuthorityOffSettled, StepCalm, TypesOK
<1> QED BY <1>1, <1>2

\* start_source has answered.
LEMMA StartSettledSound ==
  ASSUME TypesOK, ContractInv, NEW p \in Ops, StartSettled(p)
  PROVE  StepTyped /\ StepCalm
<1>0. /\ Typed(op) /\ op[p] \in OpRecords /\ "safety_manager" \in Sources
      /\ "late_off" \in DriverAwaits /\ "abort_off" \in DriverAwaits /\ "publish" \in Points
      /\ Channels \in SUBSET Channels /\ Target(p) \in SUBSET Channels
      /\ state \in States /\ sources \subseteq Sources
      /\ active \subseteq Channels /\ evidence \in BOOLEAN
  BY OpFields, PointsHave DEF DriverAwaits, Sources, Origins, Target, TypesOK
<1>1. CASE ~Succeeded(p)
  <2>1. StepTyped /\ Calming
    BY <1>0, <1>1, FaultAndReturnSound DEF StartSettled
  <2> QED BY <1>0, <1>1, <2>1 DEF StartSettled, StepCalm
<1>2. CASE Succeeded(p) /\ Faulted
  <2>1. EnsureOff(p, op, "late_off", Channels) /\ UNCHANGED <<mgr, locks>>
    BY <1>2 DEF StartSettled
  <2>2. StepTyped /\ Calming
    BY <1>0, <2>1, EnsureOffSteps DEF mgr
  <2> QED BY <1>0, <2>1, <2>2 DEF StepCalm, mgr
<1>3. CASE Succeeded(p) /\ ~Faulted /\ op[p].seen # {}
  <2> DEFINE scope == IF "full" \in op[p].seen THEN Channels ELSE Target(p)
  <2>1. EnsureOff(p, op, "abort_off", scope) /\ UNCHANGED <<mgr, locks>>
    BY <1>3 DEF StartSettled
  <2>2. scope \in SUBSET Channels
    BY <1>0
  <2> HIDE DEF scope
  <2>3. StepTyped /\ Calming
    BY <1>0, <2>1, <2>2, EnsureOffSteps DEF mgr
  <2> QED BY <1>0, <2>1, <2>3 DEF StepCalm, mgr
<1>4. CASE Succeeded(p) /\ ~Faulted /\ op[p].seen = {}
  <2>1. /\ active' = active \cup Target(p) /\ state' = "running"
        /\ op' = [op EXCEPT ![p].pc = "publish", ![p].res = "none"]
        /\ UNCHANGED <<sources, evidence, locks, tasks, drv>>
    BY <1>4 DEF StartSettled
  <2>2. Typed(op')
    BY <1>0, <2>1 DEF Typed, OpRecords
  <2>3. Calming
    BY <2>1, ProofsLostCalms
  <2> QED BY <1>0, <2>1, <2>2, <2>3 DEF StepTyped, StepCalm, TypesOK, States, locks, tasks
<1> QED BY <1>1, <1>2, <1>3, <1>4

\* The OFFs that undo a start, and the publication.
LEMMA UndoSound ==
  ASSUME TypesOK, ContractInv, NEW p \in Ops,
         LateOffSettled(p) \/ AbortOffSettled(p) \/ RevokeOffSettled(p) \/ RunPublished(p)
  PROVE  StepTyped /\ StepCalm
<1>0. /\ Typed(op) /\ "safety_manager" \in Sources /\ "idle" \in Rest /\ "ok" \in Rest
      /\ "settle" \in DriverAwaits /\ "revoke_off" \in DriverAwaits
      /\ Channels \in SUBSET Channels /\ Target(p) \in SUBSET Channels
      /\ state \in States /\ sources \subseteq Sources
      /\ active \subseteq Channels /\ evidence \in BOOLEAN
  BY OpFields DEF DriverAwaits, Sources, Origins, Target, TypesOK, Rest
<1>s. \A a : Settle(a) \in States
  BY <1>0 DEF Settle, States
<1>1. CASE LateOffSettled(p)
  <2>1. StepTyped /\ Calming
    BY <1>0, <1>1, ReturnSound DEF LateOffSettled
  <2> QED BY <1>0, <1>1, <2>1, EvidenceAfterNeedsProofs DEF LateOffSettled, StepCalm
<1>2. CASE AbortOffSettled(p)
  <2>1. StepTyped /\ Calming
    <3>1. CASE Succeeded(p)
      BY <1>0, <1>s, <1>2, <3>1, ReturnSound DEF AbortOffSettled
    <3>2. CASE ~Succeeded(p)
      BY <1>0, <1>2, <3>2, FaultAndReturnSound DEF AbortOffSettled
    <3> QED BY <3>1, <3>2
  <2>2. active' \subseteq Channels
    BY <1>0, <1>2 DEF AbortOffSettled
  <2> QED BY <1>2, <2>1, <2>2, EvidenceAfterNeedsProofs DEF AbortOffSettled, StepCalm
<1>3. CASE RevokeOffSettled(p)
  <2>1. active' \subseteq Channels
    BY <1>0, <1>3 DEF RevokeOffSettled
  <2>2. StepTyped /\ Calming
    <3>1. CASE ~Succeeded(p) /\ ~Faulted
      <4>1. Latch(p, op, PostPublication, "settle") /\ UNCHANGED locks
        BY <1>3, <3>1 DEF RevokeOffSettled
      <4> QED BY <1>0, <4>1, LatchSound DEF StepTyped, TypesOK, Sources, locks
    <3>2. CASE ~(~Succeeded(p) /\ ~Faulted)
      <4>1. /\ state' = Settle(active')
            /\ Return(p, op, "idle") /\ UNCHANGED <<sources, tasks, drv>>
        BY <1>3, <3>2 DEF RevokeOffSettled
      <4> QED BY <1>0, <1>s, <4>1, ReturnSound
    <3> QED BY <3>1, <3>2
  <2> QED BY <1>3, <2>1, <2>2, EvidenceAfterNeedsProofs DEF RevokeOffSettled, StepCalm
<1>4. CASE RunPublished(p)
  <2> DEFINE scope == IF Faulted \/ "full" \in op[p].seen THEN Channels ELSE Target(p)
  <2>1. scope \in SUBSET Channels
    BY <1>0
  <2>2. \/ Latch(p, op, PostPublication, "settle") /\ UNCHANGED <<active, evidence, locks>>
        \/ EnsureOff(p, op, "revoke_off", scope) /\ UNCHANGED <<mgr, locks>>
        \/ Return(p, op, "ok") /\ UNCHANGED <<mgr, tasks, drv>>
    BY <1>4 DEF RunPublished
  <2> HIDE DEF scope
  <2>3. CASE Latch(p, op, PostPublication, "settle") /\ UNCHANGED <<active, evidence, locks>>
    BY <1>0, <2>3, LatchSound DEF StepTyped, StepCalm, TypesOK, Sources, locks
  <2>4. CASE EnsureOff(p, op, "revoke_off", scope) /\ UNCHANGED <<mgr, locks>>
    <3>1. StepTyped /\ Calming
      BY <1>0, <2>1, <2>4, EnsureOffSteps DEF mgr
    <3> QED BY <1>0, <2>4, <3>1 DEF StepCalm, mgr
  <2>5. CASE Return(p, op, "ok") /\ UNCHANGED <<mgr, tasks, drv>>
    <3>1. StepTyped /\ Calming
      BY <1>0, <2>5, ReturnSound DEF mgr
    <3> QED BY <1>0, <2>5, <3>1 DEF StepCalm, mgr
  <2> QED BY <2>2, <2>3, <2>4, <2>5
<1> QED BY <1>1, <1>2, <1>3, <1>4

\* A driver call answers.
LEMMA DeliverSound ==
  ASSUME TypesOK, ContractInv, NEW p \in Ops, OffCallReturns(p) \/ StartCallReturns(p)
  PROVE  StepTyped /\ StepCalm
<1>1. PICK ok \in BOOLEAN : Deliver(p, ok) /\ (OffReturns(p, ok) \/ StartReturns(p, ok))
  BY DEF OffCallReturns, StartCallReturns
<1>2. Calming
  BY <1>1, OffReturnsCalms, StartReturnsCalms
<1>3. Typed(op')
  <2>1. ASSUME NEW q \in Ops
        PROVE  [op[q] EXCEPT !.via = "none", !.res = IF ok THEN "ok" ELSE "failed"] \in OpRecords
    <3>1. op[q] \in OpRecords
      BY OpFields
    <3> QED BY <3>1 DEF OpRecords
  <2> QED BY <1>1, <2>1 DEF Deliver, Typed, TypesOK
<1>4. retained' \in Tasks
  BY <1>1 DEF Deliver, TypesOK, Tasks, NoTask
<1> QED BY <1>1, <1>2, <1>3, <1>4 DEF Deliver, StepTyped, StepCalm, TypesOK, Sources, mgr, locks

\* The monitor, outside every lock.
LEMMA MonitorSound ==
  ASSUME TypesOK, ContractInv, MonitorReady \/ EvidenceExpires \/ DriverLosesProofs
  PROVE  StepTyped /\ StepCalm
<1>1. Calming
  BY ProofsLostCalms DEF MonitorReady, EvidenceExpires, DriverLosesProofs
<1>2. UNCHANGED <<op, locks, tasks, active, sources>> /\ state' \in States
  BY DEF MonitorReady, EvidenceExpires, DriverLosesProofs, States, TypesOK, mgr
<1>3. evidence' \in BOOLEAN /\ (evidence' => evidence \/ proved = Channels)
  <2>1. evidence \in BOOLEAN
    BY DEF TypesOK
  <2>2. CASE MonitorReady
    BY <2>2, RefreshedNeedsProofs DEF MonitorReady
  <2>3. CASE EvidenceExpires
    BY <2>3 DEF EvidenceExpires
  <2>4. CASE DriverLosesProofs
    BY <2>1, <2>4 DEF DriverLosesProofs, mgr
  <2> QED BY <2>2, <2>3, <2>4
<1> QED BY <1>1, <1>2, <1>3 DEF StepTyped, StepCalm, TypesOK, Typed, Sources, locks, tasks

(***************************************************************************)
(* The invariant.                                                          *)
(***************************************************************************)

LEMMA InitIInv == Init => IInv
<1> SUFFICES ASSUME Init PROVE IInv
  OBVIOUS
<1>1. NoCall \in Calls
  BY DEF NoCall, Calls
<1>2. ContractTypeOK
  BY <1>1 DEF Init, ContractInit, ContractTypeOK, Calls
<1>3. Starting = {}
  BY DEF Init, ContractInit, Starting, NoCall
<1>4. ContractInv
  BY <1>2, <1>3 DEF Init, ContractInit, ContractInv, NoCall
<1>5. op \in [Ops -> OpRecords]
  <2>1. Resting("idle") \in OpRecords
    BY RestingTyped, PointsHave DEF Rest
  <2> QED BY <2>1 DEF Init
<1>6. TypesOK
  BY <1>2, <1>5 DEF Init, TypesOK, States, Tasks, NoTask
<1> QED BY <1>3, <1>4, <1>6 DEF IInv, Init, ContractInit

\* Every step of the event loop is typed, and calm unless it begins a start.
LEMMA StepSound ==
  ASSUME TypesOK, ContractInv, Step
  PROVE  StepTyped /\ (StepCalm \/ StepStarts)
<1>1. ASSUME NEW p \in Ops, Resume(p) PROVE StepTyped /\ (StepCalm \/ StepStarts)
  BY <1>1, EmergencySound, StopSound, StopSettledSound, InterlockSound, FaultSound, AdmissionSound,
     TargetOffSound, StartSettledSound, RunWaitSound, UndoSound DEF Resume
<1>2. ASSUME NEW p \in Ops, AwaitEnds(p) PROVE StepTyped /\ (StepCalm \/ StepStarts)
  BY <1>2, RunWaitSound, AdmissionSound, UndoSound DEF AwaitEnds
<1>3. ASSUME Submit PROVE StepTyped /\ StepCalm
  <2>1. ASSUME NEW p \in Runs, (\E c \in Channels : SubmitRun(p, c)) \/ RunCancelled(p)
        PROVE  StepTyped /\ StepCalm
    <3>1. p \in Ops
      BY DEF Ops
    <3> QED BY <2>1, <3>1, SubmitSound, RunWaitSound
  <2>2. ASSUME NEW p \in Stops,
               \/ \E scope \in Scopes : SubmitEmergency(p, scope) \/ SubmitStop(p, scope)
               \/ SubmitInterlockStop(p) \/ SubmitAcknowledge(p)
        PROVE  StepTyped /\ StepCalm
    <3>1. p \in Ops
      BY DEF Ops
    <3>2. Scopes \subseteq SUBSET Channels
      BY DEF Scopes
    <3> QED BY <2>2, <3>1, <3>2, SubmitSound
  <2>3. ASSUME NEW p \in Alarms, NEW src \in Origins, RaiseFault(p, src)
        PROVE  StepTyped /\ StepCalm
    <3>1. p \in Ops
      BY DEF Ops
    <3> QED BY <2>3, <3>1, FaultSound
  <2> QED BY <1>3, <2>1, <2>2, <2>3 DEF Submit
<1> QED BY <1>1, <1>2, <1>3, RunWaitSound, DeliverSound, MonitorSound DEF Step

LEMMA NextIInv == IInv /\ [Next]_vars => IInv'
<1> SUFFICES ASSUME IInv, [Next]_vars PROVE IInv'
  OBVIOUS
<1>0. TypesOK /\ ContractInv /\ (evidence => out = {} /\ Starting = {})
  BY DEF IInv
<1>1. CASE Step /\ FaultClock
  <2>1. StepTyped /\ (StepCalm \/ StepStarts)
    BY <1>0, <1>1, StepSound
  <2>2. cooled' \in BOOLEAN
    BY <1>1 DEF FaultClock
  <2>3. ContractInv' /\ active' \subseteq Channels /\ evidence' \in BOOLEAN
    BY <2>1 DEF StepCalm, StepStarts, Calming
  <2>4. (evidence => out = {} /\ Starting = {})'
    <3>1. CASE StepStarts
      BY <3>1 DEF StepStarts
    <3>2. CASE StepCalm
      <4>1. proved = Channels => out = {} /\ Starting = {}
        BY <1>0 DEF ContractInv, ContractTypeOK, Starting
      <4> QED BY <1>0, <3>2, <4>1 DEF StepCalm, Calming
    <3> QED BY <2>1, <3>1, <3>2
  <2>5. TypesOK'
    BY <2>1, <2>2, <2>3 DEF StepTyped, Typed, TypesOK, Sources, ContractInv
  <2> QED BY <2>3, <2>4, <2>5 DEF IInv
<1>2. CASE CooldownElapses \/ UNCHANGED vars
  <2>1. UNCHANGED <<mgr, op, lock, runLock, tasks, drv>> /\ cooled' \in BOOLEAN
    BY <1>0, <1>2 DEF CooldownElapses, vars, locks, TypesOK
  <2>2. ContractInv' /\ Starting' = Starting /\ out' = out
    BY <1>0, <2>1 DEF ContractInv, ContractTypeOK, Starting, drv
  <2>3. TypesOK'
    BY <1>0, <2>1, <2>2 DEF TypesOK, ContractInv, mgr, tasks
  <2> QED BY <1>0, <2>1, <2>2, <2>3 DEF IInv, mgr
<1> QED BY <1>1, <1>2 DEF Next

(***************************************************************************)
(* Who holds the command lock, who waits for it, and whose call is whose.  *)
(*                                                                         *)
(* A step is often a sequence of building blocks, so what the operations   *)
(* are like is stated of any values f, l, q, c, t, st, src of op, lock,    *)
(* queue, call, retained.task, state and sources.                          *)
(***************************************************************************)

\* An operation past its wait for _cmd_lock; a fault settles without it.
Holding(r) ==
  /\ r.kind # "fault"
  /\ \/ r.pc \in DriverAwaits \cup {"probe", "publish", "stop_publish"}
     \/ r.pc \in LockWaits /\ r.res = "ok"

Waiting(r) == r.pc \in LockWaits /\ r.res = "none"

\* The queue of the lock: those that wait, once each.
Line(f, q) ==
  /\ q \in Seq(Ops)
  /\ \A i \in DOMAIN q : Waiting(f[q[i]])
  /\ \A i, j \in DOMAIN q : q[i] = q[j] => i = j

\* Points only a RUN passes.
RunPoints == {"run_lock", "preflight", "commit", "probe", "warn", "target_off", "authority_off", "start",
              "late_off", "abort_off", "publish", "revoke_off", "settle"}

\* Where an operation of each kind can be, and whose it can be.
Fits(p, kind, pc) ==
  \/ kind = "none" /\ pc \in Rest
  \/ kind = "run" /\ p \in Runs /\ pc \in RunPoints
  \/ kind = "emergency" /\ p \in Runs \cup Stops
     /\ pc \in {"lock", "emergency", "settle", "settle_then_proof", "proof"}
  \/ kind = "stop" /\ p \in Stops
     /\ pc \in {"lock", "stop", "fault_stop", "stop_reconcile", "stop_publish",
                "settle_then_stop", "settle_then_proof", "proof"}
  \/ kind = "interlock" /\ p \in Stops /\ pc \in {"lock", "interlock", "settle"}
  \/ kind = "acknowledge" /\ p \in Stops /\ pc = "lock"
  \/ kind = "fault" /\ p \in Alarms /\ pc = "settle"

\* While a RUN is on its way to its start, its scope is the one channel it names.
Targeting == {"run_lock", "preflight", "commit", "probe", "warn", "target_off"}

Placed(p, r) ==
  /\ Fits(p, r.kind, r.pc)
  /\ r.pc = "probe" => r.phase = "preflight"
  /\ r.pc \notin DriverAwaits \cup LockWaits => r.res = "none"
  /\ r.pc \in LockWaits => r.res # "failed"
  /\ r.pc \in Targeting => \E c \in Channels : r.scope = {c}

\* Whoever awaits a call has no answer yet; the call is its own, or a global OFF
\* it joined, and it is what its owner came for.
Called(p, r, c) ==
  /\ r.via # "none" => r.pc \in DriverAwaits \ {"stop_reconcile"} /\ r.res = "none"
  /\ c[p].kind # "none" <=> r.via = p
  /\ r.via \notin {"none", p} =>
       /\ c[r.via].kind = "off" /\ c[r.via].chans = Channels
       /\ r.scope = Channels /\ r.pc \notin {"start", "stop"}
  /\ r.via = p /\ r.pc = "start" =>
       c[p].kind \in {"start", "refused"} /\ (c[p].kind = "start" => c[p].chans = r.scope)
  /\ r.via = p /\ r.pc # "start" =>
       /\ c[p].kind = "off"
       /\ IF r.pc = "stop" THEN c[p].chans \cap r.todo = {} ELSE c[p].chans = r.scope

\* A RUN past its first admission.
Committing(r) == r.kind = "run" /\ (r.pc = "warn" \/ r.phase = "commit")

\* A probe is made for a latched persistence fault; a RUN past its first
\* admission has seen whatever fault is latched.
Guarded(r, st, src) ==
  /\ r.pc = "probe" => st = "fault_latched" /\ "persistence" \in src
  /\ Committing(r) /\ st = "fault_latched" => "full" \in r.seen

Control(f, l, q, c, t, st, src) ==
  /\ \A p \in Ops : l = p <=> Holding(f[p])
  /\ Line(f, q)
  /\ \A p \in Ops : Placed(p, f[p]) /\ Called(p, f[p], c) /\ Guarded(f[p], st, src)
  /\ t # "none" => c[t].kind = "off" /\ c[t].chans = Channels

Safe == Control(op, lock, queue, call, retained.task, state, sources)

\* One operation moves on: what has to be shown of it, and of what it touches.
LEMMA Replaced ==
  ASSUME NEW f, NEW l, NEW q, NEW c, NEW t, NEW st, NEW src, Typed(f), Control(f, l, q, c, t, st, src),
         NEW p \in Ops, NEW r, NEW l2, NEW q2, NEW c2, NEW t2, NEW st2, NEW src2,
         Placed(p, r), Called(p, r, c2), Guarded(r, st2, src2),
         l2 = p <=> Holding(r), \A u \in Ops \ {p} : l2 = u <=> l = u,
         Line([f EXCEPT ![p] = r], q2),
         \A u \in Ops \ {p} : c2[u].kind = c[u].kind /\ c2[u].chans = c[u].chans,
         \A u \in Ops \ {p} : f[u].via = p => c2[p].kind = c[p].kind /\ c2[p].chans = c[p].chans,
         t2 # "none" => c2[t2].kind = "off" /\ c2[t2].chans = Channels,
         \/ st2 = st /\ src \subseteq src2
         \/ st2 # "fault_latched" /\ \A u \in Ops \ {p} : f[u].pc # "probe"
  PROVE  Control([f EXCEPT ![p] = r], l2, q2, c2, t2, st2, src2)
<1> DEFINE g == [f EXCEPT ![p] = r]
<1>1. g[p] = r /\ \A u \in Ops \ {p} : g[u] = f[u]
  BY DEF Typed
<1> HIDE DEF g
<1>2. ASSUME NEW u \in Ops \ {p}
      PROVE  /\ l2 = u <=> Holding(g[u])
             /\ Placed(u, g[u]) /\ Called(u, g[u], c2) /\ Guarded(g[u], st2, src2)
  <2>1. /\ g[u] = f[u] /\ Placed(u, f[u]) /\ Called(u, f[u], c) /\ Guarded(f[u], st, src) /\ u \in Ops
        /\ (l = u <=> Holding(f[u])) /\ f[u].via \in Ops \cup {"none"}
    BY <1>1, <1>2 DEF Control, Typed, OpRecords
  <2>2. Called(u, f[u], c2)
    BY <1>2, <2>1 DEF Called
  <2>3. Guarded(f[u], st2, src2)
    BY <1>2, <2>1 DEF Guarded
  <2> QED BY <1>2, <2>1, <2>2, <2>3
<1>3. ASSUME NEW u \in Ops
      PROVE  /\ l2 = u <=> Holding(g[u])
             /\ Placed(u, g[u]) /\ Called(u, g[u], c2) /\ Guarded(g[u], st2, src2)
  BY <1>1, <1>2
<1>4. Line(g, q2)
  BY DEF g
<1>5. Control(g, l2, q2, c2, t2, st2, src2)
  BY <1>3, <1>4 DEF Control
<1> QED BY <1>5 DEF g

\* Another state of the manager that withdraws nothing a probe relies on.
Sustained(f, p, st, src, st2, src2) ==
  \/ st2 = st /\ src \subseteq src2
  \/ st2 # "fault_latched" /\ \A u \in Ops \ {p} : f[u].pc # "probe"

\* Registering an abort changes no place; latching a fault besides leaves no RUN
\* past its first admission unaware.
LEMMA MarkControls ==
  ASSUME NEW f, NEW l, NEW q, NEW c, NEW t, NEW st, NEW src, Typed(f), Control(f, l, q, c, t, st, src),
         NEW scope \in {"channel", "full"}, NEW st2, NEW src2,
         \/ st2 = st /\ src2 = src
         \/ scope = "full" /\ st # "fault_latched"
  PROVE  Control(Mark(f, scope), l, q, c, t, st2, src2)
<1> DEFINE g == Mark(f, scope)
<1>1. ASSUME NEW u \in Ops
      PROVE  /\ g[u] \in OpRecords
             /\ g[u].pc = f[u].pc /\ g[u].kind = f[u].kind /\ g[u].scope = f[u].scope /\ g[u].todo = f[u].todo
             /\ g[u].phase = f[u].phase /\ g[u].cut = f[u].cut /\ g[u].via = f[u].via /\ g[u].res = f[u].res
             /\ f[u].seen \subseteq g[u].seen
             /\ g[u].kind = "run" => scope \in g[u].seen
  <2>1. f[u] \in OpRecords /\ g[u] = IF f[u].kind \in {"run", "stop"} THEN [f[u] EXCEPT !.seen = @ \cup {scope}] ELSE f[u]
    BY DEF Typed, Mark
  <2> HIDE DEF g
  <2> QED BY <2>1 DEF OpRecords
<1> HIDE DEF g
<1>2. ASSUME NEW u \in Ops
      PROVE  /\ l = u <=> Holding(g[u])
             /\ Placed(u, g[u]) /\ Called(u, g[u], c) /\ Guarded(g[u], st2, src2)
  <2>1. /\ Placed(u, f[u]) /\ Called(u, f[u], c) /\ Guarded(f[u], st, src)
        /\ (l = u <=> Holding(f[u]))
    BY DEF Control
  <2>2. l = u <=> Holding(g[u])
    BY <1>1, <2>1 DEF Holding
  <2>3. Placed(u, g[u]) /\ Called(u, g[u], c)
    BY <1>1, <2>1 DEF Placed, Called
  <2>4. Guarded(g[u], st2, src2)
    BY <1>1, <2>1 DEF Guarded, Committing
  <2> QED BY <2>2, <2>3, <2>4
<1>3. Line(g, q)
  BY <1>1 DEF Line, Control, Waiting
<1>4. Control(g, l, q, c, t, st2, src2)
  BY <1>2, <1>3 DEF Control
<1> QED BY <1>4 DEF g

\* Whoever does not wait for the lock may change without disturbing the line.
LEMMA LineStands ==
  ASSUME NEW f, NEW q, Typed(f), Line(f, q), NEW p \in Ops, ~Waiting(f[p]), NEW r
  PROVE  Line([f EXCEPT ![p] = r], q)
<1>1. \A i \in DOMAIN q : q[i] \in Ops /\ q[i] # p
  BY DEF Line
<1> QED BY <1>1 DEF Line, Typed

\* Nobody has joined the call of one that has none.
LEMMA NotJoined ==
  ASSUME NEW f, NEW l, NEW q, NEW c, NEW t, NEW st, NEW src, Typed(f), Control(f, l, q, c, t, st, src),
         NEW p \in Ops, f[p].via = "none"
  PROVE  c[p].kind = "none" /\ t # p /\ \A u \in Ops \ {p} : f[u].via # p
<1>1. c[p].kind = "none"
  BY DEF Control, Called
<1>2. t # p
  BY <1>1 DEF Control
<1>3. ASSUME NEW u \in Ops \ {p}, f[u].via = p PROVE FALSE
  BY <1>1, <1>3 DEF Control, Called
<1> QED BY <1>1, <1>2, <1>3

\* An operation returns: it gives up the lock.
LEMMA ReturnControls ==
  ASSUME NEW f, NEW t, NEW st, NEW src, Typed(f), Control(f, lock, queue, call, t, st, src), lock \in Ops \cup {"none"},
         NEW p \in Ops, NEW verdict \in Rest, Return(p, f, verdict), f[p].via = "none", ~Waiting(f[p]),
         NEW st2, NEW src2, Sustained(f, p, st, src, st2, src2), UNCHANGED call
  PROVE  Control(op', lock', queue', call', t, st2, src2)
<1> DEFINE r == Resting(verdict)
<1>1. op' = [f EXCEPT ![p] = r] /\ UNCHANGED queue
  BY DEF Return
<1>2. r.pc = verdict /\ r.kind = "none" /\ r.via = "none" /\ r.res = "none" /\ r.phase = "none"
  BY DEF Resting
<1> HIDE DEF r
<1>3. verdict \notin DriverAwaits \cup LockWaits \cup Targeting \cup {"probe", "publish", "stop_publish", "warn"}
  BY DEF Rest, DriverAwaits, LockWaits, Targeting
<1>4. Placed(p, r) /\ Guarded(r, st2, src2) /\ ~Holding(r)
  BY <1>2, <1>3 DEF Placed, Fits, Guarded, Committing, Holding
<1>5. Called(p, r, call')
  BY <1>2, NotJoined DEF Called
<1>6. lock' # p /\ \A u \in Ops \ {p} : lock' = u <=> lock = u
  BY DEF Return
<1>7. Line([f EXCEPT ![p] = r], queue')
  BY <1>1, LineStands DEF Control
<1>8. t # "none" => call'[t].kind = "off" /\ call'[t].chans = Channels
  BY DEF Control
<1>9. \/ st2 = st /\ src \subseteq src2
      \/ st2 # "fault_latched" /\ \A u \in Ops \ {p} : f[u].pc # "probe"
  BY DEF Sustained
<1>10. lock' = p <=> Holding(r)
  BY <1>4, <1>6
<1>11. \A u \in Ops \ {p} : call'[u].kind = call[u].kind /\ call'[u].chans = call[u].chans
  OBVIOUS
<1>12. \A u \in Ops \ {p} : f[u].via # p
  BY NotJoined
<1>13. Control([f EXCEPT ![p] = r], lock', queue', call', t, st2, src2)
  BY <1>4, <1>5, <1>6, <1>7, <1>8, <1>9, <1>10, <1>11, <1>12, Replaced
<1> QED BY <1>1, <1>13

Awaiting(f, p, u, pc, scope) ==
  [f EXCEPT ![p].pc = pc, ![p].via = u, ![p].res = "none", ![p].scope = scope]

\* What an operation is like once it awaits the call of u.
AwaitsAs(f, p, u, pc, scope, r) ==
  /\ Awaiting(f, p, u, pc, scope) = [f EXCEPT ![p] = r]
  /\ r.pc = pc /\ r.via = u /\ r.res = "none" /\ r.scope = scope
  /\ r.kind = f[p].kind /\ r.todo = f[p].todo /\ r.phase = f[p].phase
  /\ r.seen = f[p].seen /\ r.cut = f[p].cut

LEMMA AwaitRecord ==
  ASSUME NEW f, Typed(f), NEW p \in Ops, NEW u \in Ops, NEW pc \in DriverAwaits, NEW scope \in SUBSET Channels
  PROVE  \E r \in OpRecords : AwaitsAs(f, p, u, pc, scope, r)
<1> DEFINE o == f[p]
           d == [o EXCEPT !.pc = pc, !.via = u]
           r == [d EXCEPT !.res = "none", !.scope = scope]
<1>1. o \in OpRecords /\ pc \in Points
  BY PointsHave DEF Typed
<1>2. Awaiting(f, p, u, pc, scope) = [f EXCEPT ![p] = r]
  BY DEF Awaiting, Typed, OpRecords
<1> HIDE DEF o
<1>3. d \in OpRecords /\ d.pc = pc /\ d.via = u /\ d.kind = o.kind /\ d.todo = o.todo /\ d.phase = o.phase
      /\ d.seen = o.seen /\ d.cut = o.cut
  BY <1>1 DEF OpRecords
<1> HIDE DEF d
<1>4. r \in OpRecords /\ r.pc = pc /\ r.via = u /\ r.res = "none" /\ r.scope = scope /\ r.kind = o.kind
      /\ r.todo = o.todo /\ r.phase = o.phase /\ r.seen = o.seen /\ r.cut = o.cut
  BY <1>3 DEF OpRecords
<1> HIDE DEF r
<1> QED BY <1>2, <1>4 DEF o, AwaitsAs

\* Beginning an OFF call changes nobody else's, but for its staleness.
LEMMA OffCallOfItsOwn ==
  ASSUME ContractTypeOK, NEW o \in Ops, NEW C, BeginOffCall(o, C)
  PROVE  /\ call'[o].kind = "off" /\ call'[o].chans = C
         /\ \A u \in Ops \ {o} : call'[u].kind = call[u].kind /\ call'[u].chans = call[u].chans
<1>1. call'[o] = [kind |-> "off", chans |-> C, stale |-> FALSE]
  BY DEF BeginOffCall
<1>2. ASSUME NEW u \in Ops \ {o}
      PROVE  call'[u].kind = call[u].kind /\ call'[u].chans = call[u].chans
  <2>1. call[u] \in Calls
    BY DEF ContractTypeOK, Calls
  <2>2. call'[u] = IF call[u].chans \cap C # {} THEN [call[u] EXCEPT !.stale = TRUE] ELSE call[u]
    BY DEF BeginOffCall
  <2> QED BY <2>1, <2>2 DEF Calls
<1> QED BY <1>1, <1>2

\* An OFF is awaited, by the holder of the lock or by a fault.
LEMMA AwaitOffMoves ==
  ASSUME ContractTypeOK,
         NEW f, NEW t \in Ops \cup {"none"}, NEW st, NEW src, Typed(f), Control(f, lock, queue, call, t, st, src),
         NEW p \in Ops, f[p].via = "none", ~Waiting(f[p]),
         NEW pc \in DriverAwaits \ {"start", "stop", "stop_reconcile"}, NEW scope \in SUBSET Channels,
         AwaitOff(p, f, pc, scope), UNCHANGED <<lock, queue>>,
         Fits(p, f[p].kind, pc), lock = p \/ f[p].kind = "fault",
         NEW t2, t2 = t \/ (t2 = p /\ scope = Channels), pc = "target_off" => \E c \in Channels : scope = {c},
         NEW st2, NEW src2, Sustained(f, p, st, src, st2, src2)
  PROVE  Control(op', lock', queue', call', t2, st2, src2)
<1>1. PICK r \in OpRecords :
        /\ op' = [f EXCEPT ![p] = r]
        /\ r.pc = pc /\ r.via = p /\ r.res = "none" /\ r.scope = scope
        /\ r.kind = f[p].kind /\ r.todo = f[p].todo /\ r.phase = f[p].phase
        /\ r.seen = f[p].seen /\ r.cut = f[p].cut
  <2>1. op' = Awaiting(f, p, p, pc, scope)
    BY DEF AwaitOff, Awaiting
  <2>2. PICK r \in OpRecords : AwaitsAs(f, p, p, pc, scope, r)
    BY AwaitRecord
  <2> QED BY <2>1, <2>2 DEF AwaitsAs
<1>2. /\ call'[p].kind = "off" /\ call'[p].chans = scope
      /\ \A u \in Ops \ {p} : call'[u].kind = call[u].kind /\ call'[u].chans = call[u].chans
  BY OffCallOfItsOwn DEF AwaitOff
<1>3. Placed(p, r)
  BY <1>1, <1>2 DEF Placed, DriverAwaits, LockWaits, Targeting
<1>4. Called(p, r, call')
  BY <1>1, <1>2 DEF Called
<1>5. Guarded(r, st2, src2)
  <2>1. Guarded(f[p], st, src)
    BY DEF Control
  <2> QED BY <1>1, <2>1 DEF Guarded, Committing, DriverAwaits, Sustained
<1>6. lock' = p <=> Holding(r)
  <2>1. lock = p <=> Holding(f[p])
    BY DEF Control
  <2> QED BY <1>1, <2>1 DEF Holding
<1>7. Line([f EXCEPT ![p] = r], queue')
  BY LineStands DEF Control
<1>8. t2 # "none" => call'[t2].kind = "off" /\ call'[t2].chans = Channels
  <2>1. t # p
    BY NotJoined
  <2>2. t # "none" => call[t].kind = "off" /\ call[t].chans = Channels
    BY DEF Control
  <2> QED BY <1>2, <2>1, <2>2
<1>9. \A u \in Ops \ {p} : f[u].via # p
  BY NotJoined
<1>10. \/ st2 = st /\ src \subseteq src2
       \/ st2 # "fault_latched" /\ \A u \in Ops \ {p} : f[u].pc # "probe"
  BY DEF Sustained
<1>11. Control([f EXCEPT ![p] = r], lock', queue', call', t2, st2, src2)
  BY <1>2, <1>3, <1>4, <1>5, <1>6, <1>7, <1>8, <1>9, <1>10, Replaced
<1> QED BY <1>1, <1>11

\* ... where the state does not change.
LEMMA AwaitOffControls ==
  ASSUME ContractTypeOK,
         NEW f, NEW t \in Ops \cup {"none"}, NEW st, NEW src, Typed(f), Control(f, lock, queue, call, t, st, src),
         NEW p \in Ops, f[p].via = "none", ~Waiting(f[p]),
         NEW pc \in DriverAwaits \ {"start", "stop", "stop_reconcile", "target_off"}, NEW scope \in SUBSET Channels,
         AwaitOff(p, f, pc, scope), UNCHANGED <<lock, queue>>,
         Fits(p, f[p].kind, pc), lock = p \/ f[p].kind = "fault",
         NEW t2, t2 = t \/ (t2 = p /\ scope = Channels), NEW src2, src \subseteq src2
  PROVE  Control(op', lock', queue', call', t2, st, src2)
<1>1. Sustained(f, p, st, src, st, src2) /\ pc \in DriverAwaits \ {"start", "stop", "stop_reconcile"} /\ pc # "target_off"
  BY DEF Sustained
<1> QED BY <1>1, AwaitOffMoves

\* ... by joining the retained task, or as the task that is retained.
LEMMA AwaitGlobalOffControls ==
  ASSUME TypesOK,
         NEW f, NEW st, NEW src, Typed(f), Control(f, lock, queue, call, retained.task, st, src),
         NEW p \in Ops, f[p].via = "none", ~Waiting(f[p]),
         NEW pc \in DriverAwaits \ {"start", "stop", "stop_reconcile", "target_off"}, NEW latch \in BOOLEAN,
         AwaitGlobalOff(p, f, pc, latch), UNCHANGED <<lock, queue>>,
         Fits(p, f[p].kind, pc), lock = p \/ f[p].kind = "fault", NEW src2, src \subseteq src2
  PROVE  Control(op', lock', queue', call', retained'.task, st, src2)
<1>0. ContractTypeOK /\ retained.task \in Ops \cup {"none"}
  BY DEF TypesOK, Tasks
<1>1. CASE retained.task # "none" /\ (IF latch THEN retained.latch ELSE retained.now)
  <2>1. PICK r \in OpRecords :
          /\ op' = [f EXCEPT ![p] = r]
          /\ r.pc = pc /\ r.via = retained.task /\ r.res = "none" /\ r.scope = Channels
          /\ r.kind = f[p].kind /\ r.todo = f[p].todo /\ r.phase = f[p].phase
          /\ r.seen = f[p].seen /\ r.cut = f[p].cut
    <3>1. op' = Awaiting(f, p, retained.task, pc, Channels)
      BY <1>1 DEF AwaitGlobalOff, Awaiting
    <3>2. pc \in DriverAwaits /\ retained.task \in Ops /\ Channels \in SUBSET Channels
      BY <1>0, <1>1
    <3>3. PICK r \in OpRecords : AwaitsAs(f, p, retained.task, pc, Channels, r)
      BY <3>2, AwaitRecord
    <3> QED BY <3>1, <3>3 DEF AwaitsAs
  <2>2. UNCHANGED <<retained, call>>
    BY <1>1 DEF AwaitGlobalOff, drv
  <2>3. retained.task # p /\ call[p].kind = "none" /\ \A u \in Ops \ {p} : f[u].via # p
    BY NotJoined
  <2>4. call[retained.task].kind = "off" /\ call[retained.task].chans = Channels
    BY <1>1 DEF Control
  <2>5. Placed(p, r)
    BY <2>1 DEF Placed, DriverAwaits, Targeting, LockWaits
  <2>6. Called(p, r, call')
    BY <1>1, <2>1, <2>2, <2>3, <2>4 DEF Called
  <2>7. Guarded(r, st, src2)
    <3>1. Guarded(f[p], st, src)
      BY DEF Control
    <3> QED BY <2>1, <3>1 DEF Guarded, Committing, DriverAwaits
  <2>8. lock' = p <=> Holding(r)
    <3>1. lock = p <=> Holding(f[p])
      BY DEF Control
    <3> QED BY <2>1, <3>1 DEF Holding
  <2>9. Line([f EXCEPT ![p] = r], queue')
    BY LineStands DEF Control
  <2>10. Control([f EXCEPT ![p] = r], lock', queue', call', retained'.task, st, src2)
    BY <2>2, <2>3, <2>4, <2>5, <2>6, <2>7, <2>8, <2>9, Replaced
  <2> QED BY <2>1, <2>10
<1>2. CASE ~(retained.task # "none" /\ (IF latch THEN retained.latch ELSE retained.now))
  <2>1. AwaitOff(p, f, pc, Channels) /\ retained'.task = p
    BY <1>2 DEF AwaitGlobalOff
  <2> QED BY <1>0, <2>1, AwaitOffControls
<1> QED BY <1>1, <1>2

\* _ensure_output_off of a channel, or of all.
LEMMA EnsureOffControls ==
  ASSUME TypesOK,
         NEW f, NEW st, NEW src, Typed(f), Control(f, lock, queue, call, retained.task, st, src),
         NEW p \in Ops, f[p].via = "none", ~Waiting(f[p]),
         NEW pc \in DriverAwaits \ {"start", "stop", "stop_reconcile", "target_off"}, NEW scope \in SUBSET Channels,
         EnsureOff(p, f, pc, scope), UNCHANGED <<lock, queue>>,
         Fits(p, f[p].kind, pc), lock = p \/ f[p].kind = "fault", NEW src2, src \subseteq src2
  PROVE  Control(op', lock', queue', call', retained'.task, st, src2)
<1>1. ContractTypeOK /\ retained.task \in Ops \cup {"none"}
  BY DEF TypesOK, Tasks
<1>2. CASE scope = Channels
  BY <1>2, AwaitGlobalOffControls DEF EnsureOff
<1>3. CASE scope # Channels
  <2>1. AwaitOff(p, f, pc, scope) /\ retained'.task = retained.task
    BY <1>3 DEF EnsureOff
  <2> QED BY <1>1, <2>1, AwaitOffControls
<1> QED BY <1>2, <1>3

\* What registering an abort leaves alone.
LEMMA MarkFields ==
  ASSUME NEW f, Typed(f), NEW scope \in {"channel", "full"}, NEW u \in Ops
  PROVE  LET g == Mark(f, scope) IN
           /\ g[u].pc = f[u].pc /\ g[u].kind = f[u].kind /\ g[u].scope = f[u].scope /\ g[u].todo = f[u].todo
           /\ g[u].phase = f[u].phase /\ g[u].cut = f[u].cut /\ g[u].via = f[u].via /\ g[u].res = f[u].res
           /\ f[u].seen \subseteq g[u].seen
           /\ g[u].kind \in {"run", "stop"} => scope \in g[u].seen
           /\ g[u].kind \notin {"run", "stop"} => g[u].seen = f[u].seen
<1> DEFINE g == Mark(f, scope)
<1>1. f[u] \in OpRecords /\ g[u] = IF f[u].kind \in {"run", "stop"} THEN [f[u] EXCEPT !.seen = @ \cup {scope}] ELSE f[u]
  BY DEF Typed, Mark
<1> HIDE DEF g
<1>2. /\ g[u].pc = f[u].pc /\ g[u].kind = f[u].kind /\ g[u].scope = f[u].scope /\ g[u].todo = f[u].todo
      /\ g[u].phase = f[u].phase /\ g[u].cut = f[u].cut /\ g[u].via = f[u].via /\ g[u].res = f[u].res
      /\ f[u].seen \subseteq g[u].seen
      /\ g[u].kind \in {"run", "stop"} => scope \in g[u].seen
      /\ g[u].kind \notin {"run", "stop"} => g[u].seen = f[u].seen
  BY <1>1 DEF OpRecords
<1> QED BY <1>2 DEF g

\* A fault is latched by the holder of the lock, or outside it.
LEMMA LatchControls ==
  ASSUME TypesOK, ~Faulted,
         NEW f, Typed(f), Control(f, lock, queue, call, retained.task, state, sources),
         NEW p \in Ops, f[p].via = "none", ~Waiting(f[p]),
         NEW pc \in DriverAwaits \ {"start", "stop", "stop_reconcile", "target_off"}, NEW s,
         Latch(p, f, s, pc), UNCHANGED <<lock, queue>>,
         Fits(p, f[p].kind, pc), lock = p \/ f[p].kind = "fault"
  PROVE  Safe'
<1> DEFINE g == Mark(f, "full")
<1>1. Typed(g) /\ g[p].via = "none" /\ ~Waiting(g[p]) /\ g[p].kind = f[p].kind
  BY MarkTyped, MarkFields DEF Waiting
<1>2. Control(g, lock, queue, call, retained.task, "fault_latched", {s})
  BY MarkControls DEF Faulted
<1>3. AwaitOff(p, g, pc, Channels) /\ state' = "fault_latched" /\ sources' = {s} /\ retained'.task = p
  BY DEF Latch
<1>4. ContractTypeOK /\ retained.task \in Ops \cup {"none"}
  BY DEF TypesOK, Tasks
<1> HIDE DEF g
<1>5. Control(op', lock', queue', call', retained'.task, "fault_latched", {s})
  BY <1>1, <1>2, <1>3, <1>4, AwaitOffControls
<1> QED BY <1>3, <1>5 DEF Safe

\* An operation ends by latching a fault, or by joining one.
LEMMA FaultAndReturnControls ==
  ASSUME TypesOK, Safe, NEW p \in Ops, op[p].via = "none", ~Waiting(op[p]), lock = p, NEW s,
         FaultAndReturn(p, op, s), Fits(p, op[p].kind, "settle")
  PROVE  Safe'
<1>0. Typed(op) /\ Control(op, lock, queue, call, retained.task, state, sources) /\ lock \in Ops \cup {"none"}
  BY DEF TypesOK, Typed, Safe
<1>1. CASE Faulted
  <2>1. Return(p, op, "idle") /\ UNCHANGED <<state, retained, call>> /\ sources \subseteq sources'
    BY <1>1 DEF FaultAndReturn, tasks, drv
  <2>2. Sustained(op, p, state, sources, state', sources')
    BY <2>1 DEF Sustained
  <2>3. Control(op', lock', queue', call', retained.task, state', sources')
    BY <1>0, <2>1, <2>2, ReturnControls DEF Rest
  <2> QED BY <2>1, <2>3 DEF Safe
<1>2. CASE ~Faulted
  <2>1. Latch(p, op, s, "settle") /\ UNCHANGED <<lock, queue>>
    BY <1>2 DEF FaultAndReturn, locks
  <2>2. "settle" \in DriverAwaits \ {"start", "stop", "stop_reconcile", "target_off"}
    BY DEF DriverAwaits
  <2> QED BY <1>0, <1>2, <2>1, <2>2, LatchControls
<1> QED BY <1>1, <1>2

\* A reconciliation begins its OFF.
LEMMA ReconcileControls ==
  ASSUME TypesOK, Safe, NEW p \in Ops, op[p].via = "none", ~Waiting(op[p]), lock = p,
         Reconcile(p, op), Fits(p, op[p].kind, "settle_then_proof")
  PROVE  Safe'
<1>0. Typed(op) /\ Control(op, lock, queue, call, retained.task, state, sources)
      /\ "settle_then_proof" \in DriverAwaits \ {"start", "stop", "stop_reconcile", "target_off"}
      /\ UNCHANGED <<lock, queue>>
  BY DEF TypesOK, Typed, Safe, DriverAwaits, Reconcile, locks
<1>1. CASE Faulted
  <2>1. /\ sources \subseteq sources' /\ state' = state
        /\ AwaitGlobalOff(p, op, "settle_then_proof", TRUE)
    BY <1>1 DEF Reconcile
  <2>2. Control(op', lock', queue', call', retained'.task, state, sources')
    BY <1>0, <2>1, AwaitGlobalOffControls
  <2> QED BY <2>1, <2>2 DEF Safe
<1>2. CASE ~Faulted
  <2>1. Latch(p, op, Reconciliation, "settle_then_proof")
    BY <1>2 DEF Reconcile
  <2> QED BY <1>0, <1>2, <2>1, LatchControls
<1> QED BY <1>1, <1>2

\* An operation moves on without a call and without the lock changing hands.
LEMMA MoveControls ==
  ASSUME NEW f, Typed(f), NEW t, NEW st, NEW src, Control(f, lock, queue, call, t, st, src),
         NEW p \in Ops, f[p].via = "none", ~Waiting(f[p]),
         NEW r, op' = [f EXCEPT ![p] = r], r.via = "none", Placed(p, r), Holding(r) <=> Holding(f[p]),
         NEW st2, NEW src2, Guarded(r, st2, src2), Sustained(f, p, st, src, st2, src2),
         UNCHANGED <<lock, queue, call>>
  PROVE  Control(op', lock', queue', call', t, st2, src2)
<1>1. call[p].kind = "none" /\ \A u \in Ops \ {p} : f[u].via # p
  BY NotJoined
<1>2. Called(p, r, call')
  BY <1>1 DEF Called
<1>3. lock' = p <=> Holding(r)
  BY DEF Control
<1>4. Line([f EXCEPT ![p] = r], queue')
  BY LineStands DEF Control
<1>5. t # "none" => call'[t].kind = "off" /\ call'[t].chans = Channels
  BY DEF Control
<1>6. \/ st2 = st /\ src \subseteq src2
      \/ st2 # "fault_latched" /\ \A u \in Ops \ {p} : f[u].pc # "probe"
  BY DEF Sustained
<1>7. Control([f EXCEPT ![p] = r], lock', queue', call', t, st2, src2)
  BY <1>1, <1>2, <1>3, <1>4, <1>5, <1>6, Replaced
<1> QED BY <1>7

\* An operation joins the line.
LEMMA EnqueueControls ==
  ASSUME NEW f, Typed(f), NEW t, NEW st, NEW src, Control(f, lock, queue, call, t, st, src),
         NEW p \in Ops, f[p].via = "none", ~Waiting(f[p]), ~Holding(f[p]),
         NEW r, op' = [f EXCEPT ![p] = r], r.via = "none", Placed(p, r), Waiting(r), Guarded(r, st, src),
         Enqueue(p), UNCHANGED call
  PROVE  Control(op', lock', queue', call', t, st, src)
<1>1. call[p].kind = "none" /\ \A u \in Ops \ {p} : f[u].via # p
  BY NotJoined
<1>2. Called(p, r, call')
  BY <1>1 DEF Called
<1>3. ~Holding(r)
  BY DEF Waiting, Holding, LockWaits, DriverAwaits
<1>4. UNCHANGED lock /\ queue' = Append(queue, p)
  BY DEF Enqueue
<1>9. lock' = p <=> Holding(r)
  BY <1>3, <1>4 DEF Control
<1>5. Line([f EXCEPT ![p] = r], queue')
  <2> DEFINE g == [f EXCEPT ![p] = r]
  <2>1. Line(g, queue)
    BY LineStands DEF Control
  <2>2. g[p] = r
    BY DEF Typed
  <2>3. \A i \in DOMAIN queue : queue[i] # p
    BY DEF Control, Line
  <2> HIDE DEF g
  <2>4. queue \in Seq(Ops) /\ queue' = Append(queue, p)
    BY <1>4, <2>1 DEF Line
  <2>5. /\ queue' \in Seq(Ops) /\ DOMAIN queue' = 1..(Len(queue) + 1) /\ DOMAIN queue = 1..Len(queue)
        /\ queue'[Len(queue) + 1] = p /\ \A i \in 1..Len(queue) : queue'[i] = queue[i]
        /\ Len(queue) \in Nat
    BY <2>4
  <2>6. \A i \in DOMAIN queue' : Waiting(g[queue'[i]])
    BY <2>1, <2>2, <2>5 DEF Line
  <2>7. \A i, j \in DOMAIN queue' : queue'[i] = queue'[j] => i = j
    BY <2>1, <2>3, <2>5 DEF Line
  <2>8. Line(g, queue')
    BY <2>5, <2>6, <2>7 DEF Line
  <2> QED BY <2>8 DEF g
<1>6. t # "none" => call'[t].kind = "off" /\ call'[t].chans = Channels
  BY DEF Control
<1>7. /\ \A u \in Ops \ {p} : lock' = u <=> lock = u
      /\ \A u \in Ops \ {p} : call'[u].kind = call[u].kind /\ call'[u].chans = call[u].chans
      /\ \A u \in Ops \ {p} : f[u].via = p => call'[p].kind = call[p].kind /\ call'[p].chans = call[p].chans
  BY <1>4
<1>10. \/ st = st /\ src \subseteq src
       \/ st # "fault_latched" /\ \A u \in Ops \ {p} : f[u].pc # "probe"
  OBVIOUS
<1>8. Control([f EXCEPT ![p] = r], lock', queue', call', t, st, src)
  BY <1>1, <1>2, <1>5, <1>6, <1>7, <1>9, <1>10, Replaced
<1> QED BY <1>8

\* What is known of an operation that continues.
LEMMA Continues ==
  ASSUME TypesOK, Safe, NEW p \in Ops, op[p].via = "none" \/ op[p].res # "none"
  PROVE  /\ op[p].via = "none" /\ Placed(p, op[p]) /\ Guarded(op[p], state, sources)
         /\ lock = p <=> Holding(op[p])
         /\ Typed(op) /\ op[p] \in OpRecords /\ lock \in Ops \cup {"none"}
         /\ Control(op, lock, queue, call, retained.task, state, sources)
         /\ retained.task \in Ops \cup {"none"} /\ ContractTypeOK
BY DEF TypesOK, Typed, Safe, Control, Called, Tasks

\* ... after an answer to its driver call or its place at the lock.
LEMMA Answered ==
  ASSUME TypesOK, Safe, NEW p \in Ops, op[p].pc \in DriverAwaits \cup LockWaits, op[p].res # "none"
  PROVE  op[p].via = "none" /\ ~Waiting(op[p]) /\ (op[p].kind # "fault" => lock = p)
<1>1. op[p].via = "none" /\ Placed(p, op[p]) /\ (lock = p <=> Holding(op[p])) /\ op[p] \in OpRecords
  BY Continues
<1>2. op[p].pc \in LockWaits => op[p].res = "ok"
  BY <1>1 DEF Placed, OpRecords
<1> QED BY <1>1, <1>2 DEF Waiting, Holding

\* The manager's own state moves on, and no fault goes unseen.
LEMMA StateMoves ==
  ASSUME Safe, NEW p \in Ops, lock = p,
         \/ state' = state
         \/ state' # "fault_latched",
         \/ sources \subseteq sources'
         \/ state' # "fault_latched"
  PROVE  Sustained(op, p, state, sources, state', sources')
<1>1. ASSUME NEW u \in Ops \ {p} PROVE op[u].pc # "probe"
  <2>1. ~Holding(op[u]) /\ Placed(u, op[u])
    BY DEF Safe, Control
  <2> QED BY <2>1 DEF Holding, Placed, Fits, Rest, RunPoints, LockWaits
<1> QED BY <1>1 DEF Sustained

\* The holder of the lock returns.
LEMMA HolderReturns ==
  ASSUME TypesOK, Safe, NEW p \in Ops, op[p].via = "none", ~Waiting(op[p]), NEW verdict \in Rest, Return(p, op, verdict),
         lock = p \/ (state' = state /\ sources \subseteq sources'),
         state' = state \/ state' # "fault_latched",
         sources \subseteq sources' \/ state' # "fault_latched",
         UNCHANGED <<retained, call>>
  PROVE  Safe'
<1>1. Sustained(op, p, state, sources, state', sources')
  BY StateMoves DEF Sustained
<1>2. Control(op', lock', queue', call', retained.task, state', sources')
  BY <1>1, Continues, ReturnControls
<1> QED BY <1>2 DEF Safe

\* emergency_off, at the lock and when its OFF has answered.
LEMMA EmergencyControls ==
  ASSUME TypesOK, Safe, NEW p \in Ops, EmergencyLocked(p) \/ EmergencySettled(p)
  PROVE  Safe'
<1>0. op[p].pc \in DriverAwaits \cup LockWaits /\ op[p].res # "none"
  BY DEF EmergencyLocked, EmergencySettled, Resumed, DriverAwaits, LockWaits
<1>1. op[p].kind = "emergency"
  <2>1. CASE EmergencyLocked(p)
    BY <2>1 DEF EmergencyLocked
  <2>2. CASE EmergencySettled(p)
    <3>1. op[p].pc = "emergency" /\ Placed(p, op[p])
      BY <1>0, <2>2, Continues DEF EmergencySettled, Resumed
    <3> QED BY <3>1 DEF Placed, Fits, Rest, RunPoints
  <2> QED BY <2>1, <2>2
<1>2. op[p].via = "none" /\ ~Waiting(op[p]) /\ lock = p /\ op[p].scope \in SUBSET Channels
  BY <1>0, <1>1, Answered, OpFields
<1>3. \A pc \in {"settle", "settle_then_proof", "emergency"} : Fits(p, op[p].kind, pc)
  <2>1. Fits(p, op[p].kind, op[p].pc)
    BY <1>0, Continues DEF Placed
  <2> QED BY <1>1, <2>1 DEF Fits
<1>4. CASE EmergencyLocked(p)
  <2>1. PICK hazard \in Hazards :
          IF Conflict(active, hazard)
          THEN Reconcile(p, op)
          ELSE EnsureOff(p, op, "emergency", op[p].scope) /\ UNCHANGED <<state, sources, locks>>
    BY <1>4 DEF EmergencyLocked
  <2>2. CASE Reconcile(p, op)
    BY <1>2, <1>3, <2>2, ReconcileControls
  <2>3. CASE EnsureOff(p, op, "emergency", op[p].scope) /\ UNCHANGED <<state, sources, locks>>
    <3>1. "emergency" \in DriverAwaits \ {"start", "stop", "stop_reconcile", "target_off"} /\ UNCHANGED <<lock, queue>>
      BY <2>3 DEF DriverAwaits, locks
    <3>2. Control(op', lock', queue', call', retained'.task, state, sources')
      BY <1>2, <1>3, <2>3, <3>1, Continues, EnsureOffControls
    <3> QED BY <2>3, <3>2 DEF Safe
  <2> QED BY <2>1, <2>2, <2>3
<1>5. CASE EmergencySettled(p)
  <2>1. CASE ~Succeeded(p)
    BY <1>2, <1>3, <1>5, <2>1, FaultAndReturnControls DEF EmergencySettled
  <2>2. CASE Succeeded(p)
    <3>1. PICK hazard \in Hazards :
            IF Conflict(active', hazard) THEN Reconcile(p, op)
            ELSE /\ state' = IF Faulted \/ active' # {} THEN state ELSE "safe_off"
                 /\ Return(p, op, IF p \in Runs THEN "idle" ELSE "ok")
                 /\ UNCHANGED <<sources, tasks, drv>>
      BY <1>5, <2>2 DEF EmergencySettled
    <3>2. CASE Reconcile(p, op)
      BY <1>2, <1>3, <3>2, ReconcileControls
    <3>3. CASE ~Conflict(active', hazard)
      <4>1. (IF p \in Runs THEN "idle" ELSE "ok") \in Rest
        BY DEF Rest
      <4>2. UNCHANGED <<retained, call, sources>> /\ (state' = state \/ state' # "fault_latched")
        BY <3>1, <3>3 DEF tasks, drv
      <4> QED BY <1>2, <3>1, <3>3, <4>1, <4>2, HolderReturns
    <3> QED BY <3>1, <3>2, <3>3
  <2> QED BY <2>1, <2>2
<1> QED BY <1>4, <1>5

StopsNext(f, p, c, r) ==
  /\ BeginOffCall(p, {c}) /\ c \in Channels
  /\ op' = [f EXCEPT ![p] = r]
  /\ r.pc = "stop" /\ r.via = p /\ r.res = "none" /\ r.todo = f[p].todo \ {c}
  /\ r.kind = f[p].kind /\ r.scope = f[p].scope /\ r.phase = f[p].phase
  /\ r.seen = f[p].seen /\ r.cut = f[p].cut

\* stop_source of the next channel is awaited.
LEMMA StopNextRecord ==
  ASSUME NEW f, Typed(f), NEW p \in Ops, StopNext(p, f)
  PROVE  \E c \in f[p].todo : \E r \in OpRecords : StopsNext(f, p, c, r)
<1>1. PICK c \in f[p].todo :
        /\ op' = [f EXCEPT ![p].pc = "stop", ![p].via = p, ![p].res = "none", ![p].todo = @ \ {c}]
        /\ BeginOffCall(p, {c})
  BY DEF StopNext
<1> DEFINE o == f[p]
           d == [o EXCEPT !.pc = "stop", !.via = p]
           r == [d EXCEPT !.res = "none", !.todo = o.todo \ {c}]
<1>2. o \in OpRecords /\ c \in Channels /\ o.todo \ {c} \in SUBSET Channels /\ "stop" \in Points
  BY <1>1, PointsHave DEF Typed, OpRecords, DriverAwaits
<1>3. op' = [f EXCEPT ![p] = r]
  BY <1>1, <1>2 DEF Typed, OpRecords
<1> HIDE DEF o
<1>4. d \in OpRecords /\ d.pc = "stop" /\ d.via = p /\ d.kind = o.kind /\ d.scope = o.scope /\ d.phase = o.phase
      /\ d.seen = o.seen /\ d.cut = o.cut
  BY <1>2 DEF OpRecords
<1> HIDE DEF d
<1>5. r \in OpRecords /\ r.pc = "stop" /\ r.via = p /\ r.res = "none" /\ r.todo = o.todo \ {c} /\ r.kind = o.kind
      /\ r.scope = o.scope /\ r.phase = o.phase /\ r.seen = o.seen /\ r.cut = o.cut
  BY <1>2, <1>4 DEF OpRecords
<1> HIDE DEF r
<1> QED BY <1>1, <1>2, <1>3, <1>5 DEF o, StopsNext

LEMMA StopNextControls ==
  ASSUME ContractTypeOK,
         NEW f, NEW t \in Ops \cup {"none"}, NEW st, NEW src, Typed(f), Control(f, lock, queue, call, t, st, src),
         NEW p \in Ops, f[p].via = "none", ~Waiting(f[p]), Fits(p, f[p].kind, "stop"), lock = p,
         StopNext(p, f), UNCHANGED <<lock, queue>>
  PROVE  Control(op', lock', queue', call', t, st, src)
<1>0. PICK c \in f[p].todo : \E r \in OpRecords : StopsNext(f, p, c, r)
  BY StopNextRecord
<1>r. PICK r \in OpRecords : StopsNext(f, p, c, r)
  BY <1>0
<1>1. /\ BeginOffCall(p, {c}) /\ c \in Channels
        /\ op' = [f EXCEPT ![p] = r]
        /\ r.pc = "stop" /\ r.via = p /\ r.res = "none" /\ r.todo = f[p].todo \ {c}
        /\ r.kind = f[p].kind /\ r.scope = f[p].scope /\ r.phase = f[p].phase
        /\ r.seen = f[p].seen /\ r.cut = f[p].cut
  BY <1>r DEF StopsNext
<1>2. /\ call'[p].kind = "off" /\ call'[p].chans = {c}
      /\ \A u \in Ops \ {p} : call'[u].kind = call[u].kind /\ call'[u].chans = call[u].chans
  BY <1>1, OffCallOfItsOwn
<1>3. Placed(p, r)
  BY <1>1 DEF Placed, DriverAwaits, LockWaits, Targeting
<1>4. Called(p, r, call')
  BY <1>1, <1>2 DEF Called, DriverAwaits
<1>5. Guarded(r, st, src)
  <2>1. Guarded(f[p], st, src)
    BY DEF Control
  <2> QED BY <1>1, <2>1 DEF Guarded, Committing
<1>6. lock' = p <=> Holding(r)
  <2>1. Holding(f[p])
    BY DEF Control
  <2> QED BY <1>1, <2>1 DEF Holding, DriverAwaits
<1>7. Line([f EXCEPT ![p] = r], queue')
  BY LineStands DEF Control
<1>8. t # "none" => call'[t].kind = "off" /\ call'[t].chans = Channels
  <2>1. t # p
    BY NotJoined
  <2>2. t # "none" => call[t].kind = "off" /\ call[t].chans = Channels
    BY DEF Control
  <2> QED BY <1>2, <2>1, <2>2
<1>9. \A u \in Ops \ {p} : f[u].via # p
  BY NotJoined
<1>10. \/ st = st /\ src \subseteq src
       \/ st # "fault_latched" /\ \A u \in Ops \ {p} : f[u].pc # "probe"
  OBVIOUS
<1>11. Control([f EXCEPT ![p] = r], lock', queue', call', t, st, src)
  BY <1>2, <1>3, <1>4, <1>5, <1>6, <1>7, <1>8, <1>9, <1>10, Replaced
<1> QED BY <1>1, <1>11

\* A step that changes fields of the holder only.
LEMMA HolderMoves ==
  ASSUME TypesOK, Safe, NEW p \in Ops, op[p].via = "none", ~Waiting(op[p]), lock = p,
         NEW r, op' = [op EXCEPT ![p] = r], r.via = "none", Placed(p, r), Holding(r), Guarded(r, state', sources'),
         state' = state \/ state' # "fault_latched",
         sources \subseteq sources' \/ state' # "fault_latched",
         UNCHANGED <<lock, queue, call, retained>>
  PROVE  Safe'
<1>1. Sustained(op, p, state, sources, state', sources')
  BY StateMoves
<1>2. /\ Holding(r) <=> Holding(op[p])
      /\ Typed(op) /\ Control(op, lock, queue, call, retained.task, state, sources)
  BY Continues
<1>3. Control(op', lock', queue', call', retained.task, state', sources')
  BY <1>1, <1>2, MoveControls
<1> QED BY <1>3 DEF Safe

\* request_stop: at the lock, beside a fault, at its end, and published.
LEMMA StopControls ==
  ASSUME TypesOK, Safe, NEW p \in Ops, StopLocked(p) \/ FaultStopSettled(p) \/ StopReconcile(p) \/ StopPublished(p)
  PROVE  Safe'
<1>0. /\ op[p].pc \in {"lock", "fault_stop", "stop_reconcile", "stop_publish"}
      /\ op[p].pc # "stop_publish" => op[p].res # "none"
  BY DEF StopLocked, FaultStopSettled, StopReconcile, StopPublished, Resumed
<1>1. op[p].kind = "stop"
  <2>1. CASE StopLocked(p)
    BY <2>1 DEF StopLocked
  <2>2. CASE ~StopLocked(p)
    <3>1. op[p].pc \in {"fault_stop", "stop_reconcile", "stop_publish"} /\ Placed(p, op[p])
      BY <2>2 DEF FaultStopSettled, StopReconcile, StopPublished, Resumed, Safe, Control
    <3> QED BY <3>1 DEF Placed, Fits, Rest, RunPoints
  <2> QED BY <2>1, <2>2
<1>2. op[p].via = "none" /\ ~Waiting(op[p]) /\ lock = p /\ op[p].scope \in SUBSET Channels /\ op[p] \in OpRecords
  <2>1. CASE op[p].pc = "stop_publish"
    <3>1. op[p].via = "none" /\ lock = p
      BY <1>1, <2>1 DEF Safe, Control, Called, Holding, DriverAwaits
    <3> QED BY <2>1, <3>1, OpFields DEF Waiting, LockWaits
  <2>2. CASE op[p].pc # "stop_publish"
    BY <1>0, <1>1, <2>2, Answered, OpFields DEF DriverAwaits, LockWaits
  <2> QED BY <2>1, <2>2
<1>3. \A pc \in {"settle_then_proof", "fault_stop", "stop", "stop_publish"} : Fits(p, op[p].kind, pc)
  <2>1. Fits(p, op[p].kind, op[p].pc)
    BY DEF Safe, Control, Placed
  <2> QED BY <1>1, <2>1 DEF Fits
<1>4. /\ Control(op, lock, queue, call, retained.task, state, sources) /\ Typed(op)
      /\ retained.task \in Ops \cup {"none"} /\ ContractTypeOK /\ Guarded(op[p], state, sources)
  BY <1>2, Continues
<1>5. CASE StopLocked(p)
  <2>1. PICK hazard \in Hazards :
          IF Conflict(active, hazard) THEN Reconcile(p, op)
          ELSE /\ IF Faulted THEN EnsureOff(p, op, "fault_stop", op[p].scope)
                             ELSE StopNext(p, op) /\ UNCHANGED tasks
               /\ UNCHANGED <<state, sources, locks>>
    BY <1>5 DEF StopLocked
  <2>2. CASE Reconcile(p, op)
    BY <1>2, <1>3, <2>2, ReconcileControls
  <2>3. CASE EnsureOff(p, op, "fault_stop", op[p].scope) /\ UNCHANGED <<state, sources, locks>>
    <3>1. "fault_stop" \in DriverAwaits \ {"start", "stop", "stop_reconcile", "target_off"} /\ UNCHANGED <<lock, queue>>
      BY <2>3 DEF DriverAwaits, locks
    <3>2. Control(op', lock', queue', call', retained'.task, state, sources')
      BY <1>2, <1>3, <1>4, <2>3, <3>1, EnsureOffControls
    <3> QED BY <2>3, <3>2 DEF Safe
  <2>4. CASE StopNext(p, op) /\ UNCHANGED tasks /\ UNCHANGED <<state, sources, locks>>
    <3>1. UNCHANGED <<lock, queue, retained>>
      BY <2>4 DEF tasks, locks
    <3>2. Control(op', lock', queue', call', retained.task, state, sources)
      BY <1>2, <1>3, <1>4, <2>4, <3>1, StopNextControls
    <3> QED BY <2>4, <3>1, <3>2 DEF Safe
  <2> QED BY <2>1, <2>2, <2>3, <2>4
<1>6. CASE FaultStopSettled(p) \/ StopPublished(p)
  <2>1. \E verdict \in Rest : Return(p, op, verdict)
    BY <1>6 DEF FaultStopSettled, StopPublished, Rest
  <2>2. UNCHANGED <<retained, call, state, sources>>
    BY <1>6 DEF FaultStopSettled, StopPublished, tasks, drv, mgr
  <2> QED BY <1>2, <2>1, <2>2, HolderReturns
<1>7. CASE StopReconcile(p)
  <2>1. PICK hazard \in Hazards :
       IF Conflict(active, hazard) THEN Reconcile(p, op)
       ELSE /\ op' = [op EXCEPT ![p].pc = "stop_publish", ![p].res = "none"]
            /\ UNCHANGED <<state, sources, locks, tasks, drv>>
    BY <1>7 DEF StopReconcile
  <2>2. CASE Reconcile(p, op)
    BY <1>2, <1>3, <2>2, ReconcileControls
  <2>3. CASE /\ op' = [op EXCEPT ![p].pc = "stop_publish", ![p].res = "none"]
             /\ UNCHANGED <<state, sources, locks, tasks, drv>>
    <3> DEFINE r == [op[p] EXCEPT !.pc = "stop_publish", !.res = "none"]
    <3>1. op' = [op EXCEPT ![p] = r]
      BY <1>2, <1>4, <2>3 DEF Typed, OpRecords
    <3>2. r.via = "none" /\ r.pc = "stop_publish" /\ r.res = "none" /\ r.kind = "stop" /\ r.phase = op[p].phase
          /\ r.seen = op[p].seen
      BY <1>1, <1>2 DEF OpRecords
    <3> HIDE DEF r
    <3>3. Placed(p, r) /\ Holding(r) /\ Guarded(r, state, sources)
      BY <1>1, <1>3, <3>2 DEF Placed, Holding, Guarded, Committing, LockWaits, Targeting
    <3>4. UNCHANGED <<lock, queue, call, retained, state, sources>>
      BY <2>3 DEF locks, tasks, drv
    <3> QED BY <1>2, <3>1, <3>2, <3>3, <3>4, HolderMoves
  <2> QED BY <2>1, <2>2, <2>3
<1> QED BY <1>5, <1>6, <1>7

\* _safe_off after one stop_source.
LEMMA StopSettledControls ==
  ASSUME TypesOK, Safe, NEW p \in Ops, StopSettled(p)
  PROVE  Safe'
<1> DEFINE cut == op[p].cut \/ ~Succeeded(p) \/ Faulted \/ op[p].seen # {}
           r == [op[p] EXCEPT !.cut = cut, !.pc = "stop_reconcile"]
           f == [op EXCEPT ![p].cut = cut, ![p].pc = "stop_reconcile"]
<1>0. op[p].pc = "stop" /\ op[p].pc \in DriverAwaits /\ op[p].res # "none"
  BY DEF StopSettled, Resumed, DriverAwaits
<1>1. /\ Placed(p, op[p]) /\ op[p] \in OpRecords /\ Typed(op) /\ Guarded(op[p], state, sources)
      /\ Control(op, lock, queue, call, retained.task, state, sources)
      /\ retained.task \in Ops \cup {"none"} /\ ContractTypeOK
  BY <1>0, Continues
<1>2. op[p].kind = "stop" /\ p \in Stops
  BY <1>0, <1>1 DEF Placed, Fits, Rest, RunPoints
<1>3. op[p].via = "none" /\ ~Waiting(op[p]) /\ lock = p
  BY <1>0, <1>2, Answered
<1>4. cut \in BOOLEAN
  <2>1. op[p].cut \in BOOLEAN
    BY <1>1 DEF OpRecords
  <2> QED BY <2>1, Zenon
<1> HIDE DEF cut
<1>5. f = [op EXCEPT ![p] = r] /\ r \in OpRecords
  BY <1>1, <1>4, PointsHave DEF Typed, OpRecords, DriverAwaits
<1>6. r.pc = "stop_reconcile" /\ r.via = "none" /\ r.kind = "stop" /\ r.res = op[p].res /\ r.seen = op[p].seen
      /\ r.todo = op[p].todo /\ r.phase = op[p].phase
  BY <1>1, <1>2, <1>3 DEF OpRecords
<1> HIDE DEF r
<1>7. Placed(p, r) /\ Holding(r)
  BY <1>2, <1>6 DEF Placed, Fits, Holding, DriverAwaits, LockWaits, Targeting
<1>8. Guarded(r, state, sources)
  BY <1>2, <1>6 DEF Guarded, Committing
<1>9. Typed(f) /\ f[p] = r
  BY <1>1, <1>5 DEF Typed
<1>10. Control(f, lock, queue, call, retained.task, state, sources)
  <2>1. call[p].kind = "none" /\ \A u \in Ops \ {p} : op[u].via # p
    BY <1>1, <1>3, NotJoined
  <2>2. Called(p, r, call)
    BY <1>6, <2>1 DEF Called
  <2>3. Line([op EXCEPT ![p] = r], queue)
    BY <1>1, <1>3, LineStands DEF Control
  <2>4. lock = p <=> Holding(r)
    BY <1>3, <1>7
  <2>5. retained.task # "none" => call[retained.task].kind = "off" /\ call[retained.task].chans = Channels
    BY <1>1 DEF Control
  <2>6. \/ state = state /\ sources \subseteq sources
        \/ state # "fault_latched" /\ \A u \in Ops \ {p} : op[u].pc # "probe"
    OBVIOUS
  <2>7. Control([op EXCEPT ![p] = r], lock, queue, call, retained.task, state, sources)
    BY <1>1, <1>7, <1>8, <2>1, <2>2, <2>3, <2>4, <2>5, <2>6, Replaced
  <2> QED BY <1>5, <2>7
<1>11. \A pc \in {"stop", "settle_then_stop"} : Fits(p, f[p].kind, pc)
  BY <1>2, <1>6, <1>9 DEF Fits
<1>12. f[p].via = "none" /\ ~Waiting(f[p])
  BY <1>6, <1>9 DEF Waiting, LockWaits
<1>13. CASE ~Succeeded(p)
  <2>1. /\ UNCHANGED locks
        /\ IF Faulted
           THEN /\ sources' = sources \cup {"safety_manager"}
                /\ op' = f /\ UNCHANGED <<state, tasks, drv>>
           ELSE Latch(p, f, "safety_manager", "settle_then_stop")
    BY <1>13 DEF StopSettled, cut
  <2>2. UNCHANGED <<lock, queue>> /\ "settle_then_stop" \in DriverAwaits \ {"start", "stop", "stop_reconcile", "target_off"}
    BY <2>1 DEF locks, DriverAwaits
  <2> HIDE DEF f
  <2>3. CASE Faulted
    <3>1. op' = [op EXCEPT ![p] = r] /\ UNCHANGED <<retained, call, state>> /\ sources \subseteq sources'
      BY <1>5, <2>1, <2>3 DEF tasks, drv
    <3>2. Guarded(r, state', sources')
      BY <1>8, <3>1 DEF Guarded
    <3> QED BY <1>3, <1>6, <1>7, <2>2, <3>1, <3>2, HolderMoves
  <2>4. CASE ~Faulted
    BY <1>3, <1>9, <1>10, <1>11, <1>12, <2>1, <2>2, <2>4, LatchControls
  <2> QED BY <2>3, <2>4
<1>14. CASE Succeeded(p)
  <2>1. /\ IF op[p].todo # {}
           THEN StopNext(p, f) /\ UNCHANGED state
           ELSE /\ op' = f /\ UNCHANGED drv
                /\ state' = IF cut THEN state ELSE IF active' # {} THEN "running" ELSE "safe_off"
        /\ UNCHANGED <<sources, locks, tasks>>
    BY <1>14 DEF StopSettled, cut
  <2>2. UNCHANGED <<lock, queue, retained, sources>>
    BY <2>1 DEF locks, tasks
  <2> HIDE DEF f
  <2>3. CASE op[p].todo # {}
    <3>1. Control(op', lock', queue', call', retained.task, state, sources)
      BY <1>1, <1>3, <1>9, <1>10, <1>11, <1>12, <2>1, <2>2, <2>3, StopNextControls
    <3> QED BY <2>1, <2>2, <2>3, <3>1 DEF Safe
  <2>4. CASE op[p].todo = {}
    <3>1. op' = [op EXCEPT ![p] = r] /\ UNCHANGED call /\ (state' = state \/ state' # "fault_latched")
      BY <1>5, <2>1, <2>4 DEF drv
    <3>2. Guarded(r, state', sources')
      BY <1>8, <2>2, <3>1, <1>6 DEF Guarded, Committing
    <3> QED BY <1>3, <1>6, <1>7, <2>2, <3>1, <3>2, HolderMoves
  <2> QED BY <2>3, <2>4
<1> QED BY <1>13, <1>14

\* Interlock stop and acknowledgement.
LEMMA InterlockControls ==
  ASSUME TypesOK, Safe, NEW p \in Ops, InterlockLocked(p) \/ InterlockSettled(p) \/ AcknowledgeLocked(p)
  PROVE  Safe'
<1>0. op[p].pc \in {"lock", "interlock"} /\ op[p].pc \in DriverAwaits \cup LockWaits /\ op[p].res # "none"
  BY DEF InterlockLocked, InterlockSettled, AcknowledgeLocked, Resumed, DriverAwaits, LockWaits
<1>1. /\ Placed(p, op[p]) /\ Typed(op) /\ Fits(p, op[p].kind, op[p].pc)
      /\ Control(op, lock, queue, call, retained.task, state, sources)
      /\ retained.task \in Ops \cup {"none"} /\ ContractTypeOK
  BY <1>0, Continues DEF Placed
<1>2. op[p].kind \in {"interlock", "acknowledge"}
  BY <1>1 DEF InterlockLocked, InterlockSettled, AcknowledgeLocked, Resumed, Fits, Rest, RunPoints
<1>3. op[p].via = "none" /\ ~Waiting(op[p]) /\ lock = p
  BY <1>0, <1>2, Answered
<1>4. CASE InterlockLocked(p)
  <2>1. Fits(p, op[p].kind, "interlock") /\ Channels \in SUBSET Channels
        /\ "interlock" \in DriverAwaits \ {"start", "stop", "stop_reconcile", "target_off"}
    BY <1>1, <1>4 DEF InterlockLocked, Fits, DriverAwaits
  <2>2. AwaitOff(p, op, "interlock", Channels) /\ UNCHANGED <<lock, queue, state, sources, retained>>
    BY <1>4 DEF InterlockLocked, locks, tasks, mgr
  <2>3. Control(op', lock', queue', call', retained.task, state, sources)
    BY <1>1, <1>3, <2>1, <2>2, AwaitOffControls
  <2> QED BY <2>2, <2>3 DEF Safe
<1>5. CASE InterlockSettled(p)
  <2>1. CASE ~Succeeded(p)
    <3>1. Fits(p, op[p].kind, "settle")
      BY <1>1, <1>2, <1>5 DEF InterlockSettled, Resumed, Fits
    <3> QED BY <1>3, <1>5, <2>1, <3>1, FaultAndReturnControls DEF InterlockSettled
  <2>2. CASE Succeeded(p)
    <3>1. /\ state' = state \/ state' # "fault_latched"
          /\ Return(p, op, "ok") /\ "ok" \in Rest /\ UNCHANGED <<sources, retained, call>>
      BY <1>5, <2>2 DEF InterlockSettled, tasks, drv, Rest
    <3> QED BY <1>3, <3>1, HolderReturns
  <2> QED BY <2>1, <2>2
<1>6. CASE AcknowledgeLocked(p)
  <2>1. \E verdict \in Rest : Return(p, op, verdict)
    BY <1>6 DEF AcknowledgeLocked, Rest
  <2>2. UNCHANGED <<sources, retained, call>> /\ (state' = state \/ state' # "fault_latched")
    BY <1>6 DEF AcknowledgeLocked, tasks, drv
  <2> QED BY <1>3, <2>1, <2>2, HolderReturns
<1> QED BY <1>4, <1>5, <1>6

\* Faults are raised by whoever is at rest.
LEMMA RaiseControls ==
  ASSUME TypesOK, Safe, NEW p \in Alarms, NEW s \in Origins, RaiseFault(p, s)
  PROVE  Safe'
<1>0. p \in Ops /\ op[p].pc \in Rest
  BY DEF Ops, RaiseFault
<1>1. /\ Placed(p, op[p]) /\ Typed(op) /\ op[p] \in OpRecords /\ Guarded(op[p], state, sources)
      /\ Control(op, lock, queue, call, retained.task, state, sources) /\ (lock = p <=> Holding(op[p]))
  BY <1>0 DEF TypesOK, Typed, Safe, Control
<1>2. op[p].pc \notin DriverAwaits \cup LockWaits \cup {"probe", "publish", "stop_publish", "warn"}
  BY <1>0 DEF Rest, DriverAwaits, LockWaits
<1>3. op[p].kind = "none" /\ op[p].via = "none" /\ op[p].res = "none" /\ ~Waiting(op[p]) /\ lock # p
  <2>1. op[p].kind = "none"
    BY <1>0, <1>1 DEF Placed, Fits, Rest, RunPoints
  <2>2. op[p].res = "none" /\ ~Waiting(op[p]) /\ lock # p
    BY <1>1, <1>2 DEF Placed, Waiting, Holding
  <2>3. op[p].via = "none"
    BY <1>0, <1>1, <1>2 DEF Control, Called
  <2> QED BY <2>1, <2>2, <2>3
<1>4. CASE Faulted
  <2>1. UNCHANGED <<state, op, retained, call, lock, queue>> /\ sources \subseteq sources'
    BY <1>4 DEF RaiseFault, tasks, drv, locks
  <2>2. \A u \in Ops : Guarded(op[u], state, sources)
    BY <1>1 DEF Control
  <2>3. \A u \in Ops : Guarded(op[u], state, sources')
    BY <2>1, <2>2 DEF Guarded
  <2> QED BY <1>1, <2>1, <2>3 DEF Safe, Control
<1>5. CASE ~Faulted
  <2> DEFINE r == [op[p] EXCEPT !.kind = "fault"]
             f == [op EXCEPT ![p].kind = "fault"]
  <2>1. f = [op EXCEPT ![p] = r] /\ r \in OpRecords
    BY <1>1 DEF Typed, OpRecords
  <2>2. r.kind = "fault" /\ r.pc = op[p].pc /\ r.via = "none" /\ r.res = "none" /\ r.phase = op[p].phase
        /\ r.seen = op[p].seen
    BY <1>1, <1>3 DEF OpRecords
  <2> HIDE DEF r, f
  <2>3. Typed(f) /\ f[p] = r /\ \A u \in Ops \ {p} : f[u] = op[u]
    BY <1>0, <1>1, <2>1 DEF Typed
  <2> DEFINE g == Mark(f, "full")
  <2>4. Latch(p, f, s, "settle") /\ UNCHANGED <<lock, queue>>
    BY <1>5 DEF RaiseFault, locks, f
  <2>5. /\ AwaitOff(p, g, "settle", Channels) /\ state' = "fault_latched" /\ sources' = {s} /\ retained'.task = p
    BY <2>4 DEF Latch
  <2>6. PICK o \in OpRecords :
          /\ op' = [g EXCEPT ![p] = o]
          /\ o.pc = "settle" /\ o.via = p /\ o.res = "none" /\ o.scope = Channels
          /\ o.kind = g[p].kind /\ o.todo = g[p].todo /\ o.phase = g[p].phase
          /\ o.seen = g[p].seen /\ o.cut = g[p].cut
    <3>1. op' = Awaiting(g, p, p, "settle", Channels)
      BY <2>5 DEF AwaitOff, Awaiting
    <3>2. "settle" \in DriverAwaits /\ Channels \in SUBSET Channels /\ Typed(g)
      BY <2>3, MarkTyped DEF DriverAwaits
    <3> HIDE DEF g
    <3>3. PICK o \in OpRecords : AwaitsAs(g, p, p, "settle", Channels, o)
      BY <1>0, <3>2, AwaitRecord
    <3> QED BY <3>1, <3>3 DEF AwaitsAs
  <2>7. op' = [Mark(op, "full") EXCEPT ![p] = o]
    <3>1. \A u \in Ops \ {p} : g[u] = Mark(op, "full")[u]
      BY <2>3 DEF Mark
    <3>2. DOMAIN g = Ops /\ DOMAIN Mark(op, "full") = Ops /\ g = [u \in Ops |-> g[u]]
          /\ Mark(op, "full") = [u \in Ops |-> Mark(op, "full")[u]]
      BY DEF Mark
    <3> HIDE DEF g
    <3> QED BY <2>6, <3>1, <3>2
  <2>8. o.kind = "fault"
    BY <1>0, <2>2, <2>3, <2>6, MarkFields
  <2> HIDE DEF g
  <2> DEFINE m == Mark(op, "full")
  <2>9. /\ Typed(m) /\ m[p].via = "none" /\ ~Waiting(m[p]) /\ ~Holding(m[p])
    BY <1>0, <1>1, <1>3, MarkTyped, MarkFields DEF Waiting, Holding
  <2>10. Control(m, lock, queue, call, retained.task, "fault_latched", {s})
    BY <1>1, <1>5, MarkControls DEF Faulted
  <2>11. /\ call'[p].kind = "off" /\ call'[p].chans = Channels
         /\ \A u \in Ops \ {p} : call'[u].kind = call[u].kind /\ call'[u].chans = call[u].chans
    BY <1>0, <2>5, OffCallOfItsOwn DEF AwaitOff, TypesOK
  <2> HIDE DEF m
  <2>12. Placed(p, o)
    BY <2>6, <2>8 DEF Placed, Fits, DriverAwaits, LockWaits, Targeting
  <2>13. Called(p, o, call')
    BY <1>0, <2>6, <2>11 DEF Called, DriverAwaits
  <2>14. Guarded(o, "fault_latched", {s}) /\ ~Holding(o)
    BY <2>6, <2>8 DEF Guarded, Committing, Holding
  <2>15. Line([m EXCEPT ![p] = o], queue')
    BY <1>0, <2>4, <2>9, <2>10, LineStands DEF Control
  <2>16. \A u \in Ops \ {p} : m[u].via # p
    BY <1>0, <2>9, <2>10, NotJoined
  <2>17. \/ "fault_latched" = "fault_latched" /\ {s} \subseteq {s}
         \/ "fault_latched" # "fault_latched" /\ \A u \in Ops \ {p} : m[u].pc # "probe"
    OBVIOUS
  <2>18. lock' = p <=> Holding(o)
    BY <1>3, <2>4, <2>14
  <2>19. Control([m EXCEPT ![p] = o], lock', queue', call', p, "fault_latched", {s})
    BY <1>0, <2>4, <2>9, <2>10, <2>11, <2>12, <2>13, <2>14, <2>15, <2>16, <2>17, <2>18, Replaced
  <2> QED BY <2>5, <2>7, <2>19 DEF Safe, m
<1> QED BY <1>4, <1>5

\* The settlement of a fault, and the last proof of a reconciliation.
LEMMA SettlementControls ==
  ASSUME TypesOK, Safe, NEW p \in Ops, FaultSettled(p) \/ ProofSettled(p)
  PROVE  Safe'
<1>0. op[p].pc \in {"settle", "settle_then_proof", "settle_then_stop", "proof"}
      /\ op[p].pc \in DriverAwaits \cup LockWaits /\ op[p].res # "none"
  BY DEF FaultSettled, ProofSettled, Resumed, DriverAwaits
<1>1. /\ Placed(p, op[p]) /\ Typed(op) /\ op[p] \in OpRecords /\ Guarded(op[p], state, sources)
      /\ Control(op, lock, queue, call, retained.task, state, sources) /\ Fits(p, op[p].kind, op[p].pc)
  BY <1>0, Continues DEF Placed
<1>2. op[p].via = "none" /\ ~Waiting(op[p]) /\ (op[p].kind # "fault" => lock = p)
  BY <1>0, Answered
<1>3. CASE (FaultSettled(p) /\ op[p].pc = "settle") \/ ProofSettled(p)
  <2>1. Return(p, op, "idle") /\ UNCHANGED <<retained, call, state, sources>> /\ "idle" \in Rest
    BY <1>3 DEF FaultSettled, ProofSettled, Resumed, tasks, drv, Rest
  <2> QED BY <1>2, <2>1, HolderReturns
<1>4. CASE FaultSettled(p) /\ op[p].pc = "settle_then_proof"
  <2>1. AwaitGlobalOff(p, op, "proof", FALSE) /\ UNCHANGED <<lock, queue, state, sources>>
    BY <1>4 DEF FaultSettled, locks
  <2>2. Fits(p, op[p].kind, "proof") /\ op[p].kind # "fault"
    BY <1>1, <1>4 DEF Fits, Rest, RunPoints
  <2>3. "proof" \in DriverAwaits \ {"start", "stop", "stop_reconcile", "target_off"} /\ FALSE \in BOOLEAN /\ sources \subseteq sources
    BY DEF DriverAwaits
  <2>4. Control(op', lock', queue', call', retained'.task, state, sources)
    BY <1>1, <1>2, <2>1, <2>2, <2>3, AwaitGlobalOffControls
  <2> QED BY <2>1, <2>4 DEF Safe
<1>5. CASE FaultSettled(p) /\ op[p].pc = "settle_then_stop"
  <2> DEFINE r == [op[p] EXCEPT !.pc = "stop_reconcile", !.res = "ok"]
  <2>1. op' = [op EXCEPT ![p].pc = "stop_reconcile", ![p].res = "ok"] /\ UNCHANGED <<lock, queue, call, retained, state, sources>>
    BY <1>5 DEF FaultSettled, locks, tasks, drv
  <2>2. op' = [op EXCEPT ![p] = r]
    BY <1>1, <2>1 DEF Typed, OpRecords
  <2>3. r.via = "none" /\ r.pc = "stop_reconcile" /\ r.res = "ok" /\ r.kind = op[p].kind /\ r.phase = op[p].phase
        /\ r.seen = op[p].seen
    BY <1>1, <1>2 DEF OpRecords
  <2> HIDE DEF r
  <2>4. op[p].kind = "stop" /\ p \in Stops
    BY <1>1, <1>5 DEF Fits, Rest, RunPoints
  <2>5. Placed(p, r) /\ Holding(r) /\ Guarded(r, state, sources)
    BY <2>3, <2>4 DEF Placed, Fits, Holding, Guarded, Committing, DriverAwaits, LockWaits, Targeting
  <2> QED BY <1>2, <2>1, <2>2, <2>3, <2>4, <2>5, HolderMoves
<1> QED BY <1>0, <1>3, <1>4, <1>5 DEF FaultSettled, ProofSettled, Resumed

\* Whoever rests holds nothing and awaits nothing.
LEMMA Rested ==
  ASSUME TypesOK, Safe, NEW p \in Ops, op[p].pc \in Rest
  PROVE  op[p].kind = "none" /\ op[p].via = "none" /\ op[p].res = "none" /\ ~Waiting(op[p]) /\ ~Holding(op[p]) /\ lock # p
<1>1. /\ Placed(p, op[p]) /\ (lock = p <=> Holding(op[p])) /\ Called(p, op[p], call)
  BY DEF Safe, Control
<1>2. op[p].pc \notin DriverAwaits \cup LockWaits \cup {"probe", "publish", "stop_publish", "warn"}
  BY DEF Rest, DriverAwaits, LockWaits
<1>3. op[p].kind = "none"
  BY <1>1 DEF Placed, Fits, Rest, RunPoints
<1>4. op[p].res = "none" /\ ~Waiting(op[p]) /\ ~Holding(op[p]) /\ op[p].via = "none"
  BY <1>1, <1>2 DEF Placed, Waiting, Holding, Called
<1> QED BY <1>1, <1>3, <1>4

\* A request is submitted, over the abort it registers, and joins the line.
LEMMA SubmissionControls ==
  ASSUME TypesOK, Safe, NEW p \in Stops, op[p].pc \in Rest, NEW f,
         f = op \/ \E scope \in {"channel", "full"} : f = Mark(op, scope),
         NEW r, op' = [f EXCEPT ![p] = r], r.pc = "lock", r.kind \in {"emergency", "stop", "interlock", "acknowledge"},
         r.via = "none", r.res = "none", r.phase = "none",
         Enqueue(p), UNCHANGED <<call, state, sources>>, retained'.task = retained.task
  PROVE  Safe'
<1>0. p \in Ops
  BY DEF Ops
<1>1. Typed(op) /\ Control(op, lock, queue, call, retained.task, state, sources)
  BY DEF TypesOK, Typed, Safe
<1>2. Typed(f) /\ Control(f, lock, queue, call, retained.task, state, sources)
  BY <1>1, MarkTyped, MarkControls
<1>3. f[p].via = "none" /\ ~Waiting(f[p]) /\ ~Holding(f[p])
  <2>1. op[p].via = "none" /\ ~Waiting(op[p]) /\ ~Holding(op[p])
    BY <1>0, Rested
  <2>2. CASE f = op
    BY <2>1, <2>2
  <2>3. ASSUME NEW scope \in {"channel", "full"}, f = Mark(op, scope)
        PROVE  f[p].via = "none" /\ ~Waiting(f[p]) /\ ~Holding(f[p])
    BY <1>0, <1>1, <2>1, <2>3, MarkFields DEF Waiting, Holding
  <2> QED BY <2>2, <2>3
<1>4. Placed(p, r) /\ Waiting(r) /\ Guarded(r, state, sources)
  BY DEF Placed, Fits, Waiting, LockWaits, Guarded, Committing, Targeting
<1>5. Control(op', lock', queue', call', retained.task, state, sources)
  BY <1>0, <1>2, <1>3, <1>4, EnqueueControls
<1> QED BY <1>5 DEF Safe

\* The requests of the command lock.
LEMMA SubmitControls ==
  ASSUME TypesOK, Safe, NEW p \in Stops, NEW scope \in Scopes,
         SubmitEmergency(p, scope) \/ SubmitStop(p, scope) \/ SubmitInterlockStop(p) \/ SubmitAcknowledge(p)
  PROVE  Safe'
<1> DEFINE s == IF scope = Channels THEN "full" ELSE "channel"
<1>0. s \in {"channel", "full"} /\ op[p].pc \in Rest
  BY DEF SubmitEmergency, SubmitStop, SubmitInterlockStop, SubmitAcknowledge
<1>1. CASE SubmitEmergency(p, scope)
  <2> DEFINE r == [Resting("lock") EXCEPT !.kind = "emergency", !.scope = scope]
  <2>1. r.pc = "lock" /\ r.kind = "emergency" /\ r.via = "none" /\ r.res = "none" /\ r.phase = "none"
    BY DEF Resting
  <2>2. op' = [Mark(op, s) EXCEPT ![p] = r] /\ Enqueue(p) /\ UNCHANGED <<call, state, sources>>
        /\ retained'.task = retained.task
    BY <1>1 DEF SubmitEmergency, mgr, drv, AbortRegistered, TypesOK, Tasks
  <2> HIDE DEF r, s
  <2> QED BY <1>0, <2>1, <2>2, SubmissionControls
<1>2. CASE SubmitStop(p, scope)
  <2> DEFINE r == [Resting("lock") EXCEPT !.kind = "stop", !.scope = scope, !.todo = scope]
  <2>1. r.pc = "lock" /\ r.kind = "stop" /\ r.via = "none" /\ r.res = "none" /\ r.phase = "none"
    BY DEF Resting
  <2>2. op' = [Mark(op, s) EXCEPT ![p] = r] /\ Enqueue(p) /\ UNCHANGED <<call, state, sources>>
        /\ retained'.task = retained.task
    BY <1>2 DEF SubmitStop, mgr, drv, AbortRegistered, TypesOK, Tasks
  <2> HIDE DEF r, s
  <2> QED BY <1>0, <2>1, <2>2, SubmissionControls
<1>3. CASE SubmitInterlockStop(p)
  <2> DEFINE r == [Resting("lock") EXCEPT !.kind = "interlock", !.scope = Channels]
  <2>1. r.pc = "lock" /\ r.kind = "interlock" /\ r.via = "none" /\ r.res = "none" /\ r.phase = "none"
    BY DEF Resting
  <2>2. op' = [Mark(op, "full") EXCEPT ![p] = r] /\ Enqueue(p) /\ UNCHANGED <<call, state, sources>>
        /\ retained'.task = retained.task
    BY <1>3 DEF SubmitInterlockStop, mgr, drv, AbortRegistered, TypesOK, Tasks
  <2> HIDE DEF r
  <2> QED BY <1>0, <2>1, <2>2, SubmissionControls
<1>4. CASE SubmitAcknowledge(p)
  <2> DEFINE r == [Resting("lock") EXCEPT !.kind = "acknowledge"]
  <2>1. r.pc = "lock" /\ r.kind = "acknowledge" /\ r.via = "none" /\ r.res = "none" /\ r.phase = "none"
    BY DEF Resting
  <2>2. op' = [op EXCEPT ![p] = r] /\ Enqueue(p) /\ UNCHANGED <<call, state, sources>>
        /\ retained'.task = retained.task
    BY <1>4 DEF SubmitAcknowledge, mgr, drv, tasks
  <2> HIDE DEF r
  <2> QED BY <1>0, <2>1, <2>2, SubmissionControls
<1> QED BY <1>1, <1>2, <1>3, <1>4

\* A RUN is submitted, and takes its place at the lock once it has _run_request_lock.
LEMMA SubmitRunControls ==
  ASSUME TypesOK, Safe, NEW p \in Runs, NEW c \in Channels, SubmitRun(p, c)
  PROVE  Safe'
<1>0. p \in Ops /\ op[p].pc \in Rest
  BY DEF Ops, SubmitRun
<1>1. Typed(op) /\ Control(op, lock, queue, call, retained.task, state, sources)
  BY DEF TypesOK, Typed, Safe
<1> DEFINE r == [Resting("run_lock") EXCEPT !.kind = "run", !.scope = {c}]
<1>2. op' = [op EXCEPT ![p] = r] /\ UNCHANGED <<lock, queue, call, retained, state, sources>>
  BY DEF SubmitRun, locks, drv, tasks, mgr
<1>3. r.pc = "run_lock" /\ r.kind = "run" /\ r.via = "none" /\ r.res = "none" /\ r.phase = "none" /\ r.scope = {c}
  BY DEF Resting
<1> HIDE DEF r
<1>4. Placed(p, r) /\ ~Holding(r) /\ Guarded(r, state, sources)
  BY <1>3 DEF Placed, Fits, RunPoints, Holding, DriverAwaits, LockWaits, Guarded, Committing, Targeting
<1>5. op[p].via = "none" /\ ~Waiting(op[p]) /\ (Holding(r) <=> Holding(op[p]))
  BY <1>0, <1>4, Rested
<1>6. Sustained(op, p, state, sources, state, sources)
  BY DEF Sustained
<1>7. Control(op', lock', queue', call', retained.task, state, sources)
  BY <1>0, <1>1, <1>2, <1>3, <1>4, <1>5, <1>6, MoveControls
<1> QED BY <1>2, <1>7 DEF Safe

LEMMA AcquireRunLockControls ==
  ASSUME TypesOK, Safe, NEW p \in Ops, AcquireRunLock(p)
  PROVE  Safe'
<1>0. op[p].pc = "run_lock"
  BY DEF AcquireRunLock
<1>1. /\ Typed(op) /\ op[p] \in OpRecords /\ Control(op, lock, queue, call, retained.task, state, sources)
      /\ Placed(p, op[p]) /\ Called(p, op[p], call)
  BY DEF TypesOK, Typed, Safe, Control
<1>2. op[p].kind = "run" /\ p \in Runs /\ op[p].via = "none" /\ ~Waiting(op[p]) /\ ~Holding(op[p])
  BY <1>0, <1>1 DEF Placed, Fits, Rest, Called, Waiting, Holding, DriverAwaits, LockWaits
<1> DEFINE r == [op[p] EXCEPT !.pc = "preflight", !.phase = "preflight"]
<1>3. op' = [op EXCEPT ![p] = r] /\ UNCHANGED <<call, retained, state, sources>> /\ Enqueue(p)
  BY <1>1 DEF AcquireRunLock, drv, tasks, mgr, Typed, OpRecords
<1>4. r.pc = "preflight" /\ r.kind = "run" /\ r.via = "none" /\ r.res = op[p].res /\ r.phase = "preflight"
      /\ \E c \in Channels : r.scope = {c}
  BY <1>0, <1>1, <1>2 DEF OpRecords, Placed, Targeting
<1>5. op[p].res = "none"
  BY <1>0, <1>1 DEF Placed, DriverAwaits, LockWaits
<1> HIDE DEF r
<1>6. Placed(p, r) /\ Waiting(r) /\ Guarded(r, state, sources)
  BY <1>2, <1>4, <1>5 DEF Placed, Fits, RunPoints, Waiting, LockWaits, Guarded, Committing, Targeting
<1>7. Control(op', lock', queue', call', retained.task, state, sources)
  BY <1>1, <1>2, <1>3, <1>4, <1>6, EnqueueControls
<1> QED BY <1>3, <1>7 DEF Safe

\* The warning receipt: the RUN gives up, or waits for the lock once more.
LEMMA WarningControls ==
  ASSUME TypesOK, Safe, NEW p \in Ops, WarningSettled(p)
  PROVE  Safe'
<1>0. op[p].pc = "warn" /\ UNCHANGED <<call, retained, state, sources>>
  BY DEF WarningSettled, drv, tasks, mgr
<1>1. /\ Typed(op) /\ op[p] \in OpRecords /\ Control(op, lock, queue, call, retained.task, state, sources)
      /\ Placed(p, op[p]) /\ Called(p, op[p], call) /\ Guarded(op[p], state, sources)
  BY DEF TypesOK, Typed, Safe, Control
<1>2. op[p].kind = "run" /\ p \in Runs /\ op[p].via = "none" /\ ~Waiting(op[p]) /\ ~Holding(op[p]) /\ op[p].res = "none"
  BY <1>0, <1>1 DEF Placed, Fits, Rest, Called, Waiting, Holding, DriverAwaits, LockWaits
<1>3. CASE op[p].seen # {}
  BY <1>0, <1>2, <1>3, HolderReturns DEF WarningSettled, Rest
<1>4. CASE op[p].seen = {}
  <2> DEFINE r == [op[p] EXCEPT !.pc = "commit", !.phase = "commit"]
  <2>1. op' = [op EXCEPT ![p] = r] /\ Enqueue(p)
    BY <1>1, <1>4 DEF WarningSettled, Typed, OpRecords
  <2>2. r.pc = "commit" /\ r.kind = "run" /\ r.via = "none" /\ r.res = "none" /\ r.phase = "commit" /\ r.seen = {}
        /\ \E c \in Channels : r.scope = {c}
    BY <1>0, <1>1, <1>2, <1>4 DEF OpRecords, Placed, Targeting
  <2> HIDE DEF r
  <2>3. state # "fault_latched"
    BY <1>0, <1>1, <1>2, <1>4 DEF Guarded, Committing
  <2>4. Placed(p, r) /\ Waiting(r) /\ Guarded(r, state, sources)
    BY <1>2, <2>2, <2>3 DEF Placed, Fits, RunPoints, Waiting, LockWaits, Guarded, Targeting
  <2>5. Control(op', lock', queue', call', retained.task, state, sources)
    BY <1>1, <1>2, <2>1, <2>2, <2>4, <1>0, EnqueueControls
  <2> QED BY <1>0, <2>5 DEF Safe
<1> QED BY <1>3, <1>4

\* The lock is granted to the first in the line.
LEMMA GrantControls ==
  ASSUME TypesOK, Safe, NEW p \in Ops, Grant(p)
  PROVE  Safe'
<1>1. /\ Typed(op) /\ op[p] \in OpRecords /\ Control(op, lock, queue, call, retained.task, state, sources)
      /\ Placed(p, op[p]) /\ Called(p, op[p], call) /\ Guarded(op[p], state, sources)
  BY DEF TypesOK, Typed, Safe, Control
<1>2. /\ lock = "none" /\ queue # <<>> /\ p = Head(queue) /\ lock' = p /\ queue' = Tail(queue)
      /\ op' = [op EXCEPT ![p].res = "ok"] /\ UNCHANGED <<call, retained, state, sources>>
  BY DEF Grant, mgr, tasks, drv
<1>3. queue \in Seq(Ops) /\ 1 \in DOMAIN queue /\ queue[1] = p
  BY <1>1, <1>2 DEF Control, Line
<1>4. Waiting(op[p])
  BY <1>1, <1>3 DEF Control, Line
<1>5. op[p].via = "none" /\ op[p].kind # "fault" /\ op[p].pc \in LockWaits
  BY <1>1, <1>4 DEF Waiting, Called, Placed, Fits, Rest, LockWaits, DriverAwaits
<1> DEFINE r == [op[p] EXCEPT !.res = "ok"]
<1>6. op' = [op EXCEPT ![p] = r]
  BY <1>1, <1>2 DEF Typed, OpRecords
<1>7. r.pc = op[p].pc /\ r.kind = op[p].kind /\ r.via = "none" /\ r.res = "ok" /\ r.phase = op[p].phase
      /\ r.seen = op[p].seen /\ r.scope = op[p].scope
  BY <1>1, <1>5 DEF OpRecords
<1> HIDE DEF r
<1>8. call[p].kind = "none" /\ \A u \in Ops \ {p} : op[u].via # p
  BY <1>1, <1>5, NotJoined
<1>9. Placed(p, r) /\ Called(p, r, call') /\ Guarded(r, state, sources) /\ Holding(r)
  <2>1. Placed(p, r)
    BY <1>1, <1>5, <1>7 DEF Placed, LockWaits, Targeting
  <2>2. Called(p, r, call')
    BY <1>2, <1>7, <1>8 DEF Called
  <2>3. Guarded(r, state, sources) /\ Holding(r)
    BY <1>1, <1>5, <1>7 DEF Guarded, Committing, Holding
  <2> QED BY <2>1, <2>2, <2>3
<1>10. Line([op EXCEPT ![p] = r], queue')
  <2> DEFINE g == [op EXCEPT ![p] = r]
  <2>1. \A u \in Ops \ {p} : g[u] = op[u]
    BY <1>1 DEF Typed
  <2> HIDE DEF g
  <2>2. /\ queue' \in Seq(Ops) /\ DOMAIN queue = 1..Len(queue) /\ DOMAIN queue' = 1..(Len(queue) - 1)
        /\ Len(queue) \in Nat /\ \A i \in DOMAIN queue' : queue'[i] = queue[i + 1]
    BY <1>2, <1>3
  <2>3. \A i \in DOMAIN queue' : i + 1 \in DOMAIN queue /\ i \in Nat /\ queue[i + 1] # p /\ queue[i + 1] \in Ops
    BY <1>1, <1>3, <2>2 DEF Control, Line
  <2>4. \A i \in DOMAIN queue' : Waiting(g[queue'[i]])
    BY <1>1, <2>1, <2>2, <2>3 DEF Control, Line
  <2>5. \A i, j \in DOMAIN queue' : queue'[i] = queue'[j] => i = j
    BY <1>1, <2>2, <2>3 DEF Control, Line
  <2>6. Line(g, queue')
    BY <2>2, <2>4, <2>5 DEF Line
  <2> QED BY <2>6 DEF g
<1>11. \A u \in Ops \ {p} : lock' = u <=> lock = u
  BY <1>2
<1>12. retained.task # "none" => call'[retained.task].kind = "off" /\ call'[retained.task].chans = Channels
  BY <1>1, <1>2 DEF Control
<1>13. /\ \A u \in Ops \ {p} : call'[u].kind = call[u].kind /\ call'[u].chans = call[u].chans
       /\ \A u \in Ops \ {p} : op[u].via = p => call'[p].kind = call[p].kind /\ call'[p].chans = call[p].chans
       /\ lock' = p <=> Holding(r)
  BY <1>2, <1>9
<1>14. \/ state = state /\ sources \subseteq sources
       \/ state # "fault_latched" /\ \A u \in Ops \ {p} : op[u].pc # "probe"
  OBVIOUS
<1>15. Control([op EXCEPT ![p] = r], lock', queue', call', retained.task, state, sources)
  BY <1>1, <1>9, <1>10, <1>11, <1>12, <1>13, <1>14, Replaced
<1> QED BY <1>2, <1>6, <1>15 DEF Safe

\* A waiter that is cancelled leaves the line to the others.
LEMMA LeaveLine ==
  ASSUME NEW f, Typed(f), Line(f, queue), NEW p \in Ops, NEW r, Leave(p)
  PROVE  Line([f EXCEPT ![p] = r], queue')
<1> DEFINE g == [f EXCEPT ![p] = r]
<1>1. \A u \in Ops \ {p} : g[u] = f[u]
  BY DEF Typed
<1>2. queue \in Seq(Ops) /\ DOMAIN queue = 1..Len(queue) /\ Len(queue) \in Nat
  BY DEF Line
<1> HIDE DEF g
<1>3. CASE (\A i \in DOMAIN queue : queue[i] # p) /\ UNCHANGED queue
  <2>1. \A i \in DOMAIN queue : queue[i] \in Ops \ {p}
    BY <1>2, <1>3
  <2>2. Line(g, queue)
    BY <1>1, <1>2, <2>1 DEF Line
  <2> QED BY <1>3, <2>2 DEF g
<1>4. ASSUME NEW i \in DOMAIN queue, queue[i] = p,
             queue' = SubSeq(queue, 1, i - 1) \o SubSeq(queue, i + 1, Len(queue))
      PROVE  Line(g, queue')
  <2> DEFINE a == SubSeq(queue, 1, i - 1)
             b == SubSeq(queue, i + 1, Len(queue))
  <2>0. i \in 1..Len(queue) /\ i \in Nat
    BY <1>2
  <2>1. /\ a \in Seq(Ops) /\ Len(a) = i - 1
        /\ \A j \in 1..(i - 1) : a[j] = queue[j]
    BY <1>2, <2>0
  <2>2. /\ b \in Seq(Ops) /\ Len(b) = Len(queue) - i
        /\ \A j \in 1..(Len(queue) - i) : b[j] = queue[i + j]
    BY <1>2, <2>0
  <2> HIDE DEF a, b
  <2>3. queue' = a \o b
    BY <1>4 DEF a, b
  <2>a. /\ a \o b \in Seq(Ops) /\ Len(a \o b) = Len(a) + Len(b)
        /\ \A j \in 1..(Len(a) + Len(b)) : (a \o b)[j] = IF j <= Len(a) THEN a[j] ELSE b[j - Len(a)]
    <3>1. a \in Seq(Ops) /\ b \in Seq(Ops)
      BY <2>1, <2>2
    <3> QED BY <3>1
  <2>b. Len(a) + Len(b) = Len(queue) - 1
    BY <1>2, <2>0, <2>1, <2>2
  <2>4. queue' \in Seq(Ops) /\ Len(queue') = Len(queue) - 1 /\ DOMAIN queue' = 1..(Len(queue) - 1)
    BY <2>3, <2>a, <2>b
  <2>5. \A j \in DOMAIN queue' : queue'[j] = IF j < i THEN queue[j] ELSE queue[j + 1]
    <3>1. SUFFICES ASSUME NEW j \in 1..(Len(queue) - 1)
                   PROVE  queue'[j] = IF j < i THEN queue[j] ELSE queue[j + 1]
      BY <2>4
    <3>2. CASE j < i
      BY <1>2, <2>0, <2>1, <2>3, <2>a, <2>b, <3>1, <3>2
    <3>3. CASE ~(j < i)
      <4>1. queue'[j] = b[j - (i - 1)]
        BY <1>2, <2>0, <2>1, <2>3, <2>a, <2>b, <3>1, <3>3
      <4>2. j - (i - 1) \in 1..(Len(queue) - i) /\ i + (j - (i - 1)) = j + 1
        BY <1>2, <2>0, <3>1, <3>3
      <4> QED BY <2>2, <3>3, <4>1, <4>2
    <3> QED BY <3>2, <3>3
  <2>6. \A j \in DOMAIN queue' :
          \E k \in DOMAIN queue : k # i /\ queue'[j] = queue[k] /\ k = IF j < i THEN j ELSE j + 1
    BY <1>2, <2>0, <2>4, <2>5
  <2>7. \A k \in DOMAIN queue : k # i => queue[k] \in Ops \ {p} /\ Waiting(g[queue[k]])
    BY <1>1, <1>2, <1>4 DEF Line
  <2>8. \A j \in DOMAIN queue' : Waiting(g[queue'[j]])
    BY <2>6, <2>7
  <2>9. ASSUME NEW j \in DOMAIN queue', NEW k \in DOMAIN queue', queue'[j] = queue'[k] PROVE j = k
    <3>1. (IF j < i THEN j ELSE j + 1) = (IF k < i THEN k ELSE k + 1)
      BY <2>6, <2>9 DEF Line
    <3> QED BY <1>2, <2>0, <2>4, <3>1
  <2> QED BY <2>4, <2>8, <2>9 DEF Line
<1> QED BY <1>3, <1>4 DEF Leave, g

\* A RUN is cancelled while it waits.
LEMMA CancelControls ==
  ASSUME TypesOK, Safe, NEW p \in Ops, RunCancelled(p)
  PROVE  Safe'
<1>0. op[p].kind = "run" /\ op[p].res = "none" /\ op[p].pc \in {"run_lock", "preflight", "commit", "probe", "warn"}
      /\ op' = [op EXCEPT ![p] = Resting("idle")] /\ Leave(p) /\ UNCHANGED <<call, retained, state, sources>>
      /\ lock' = (IF lock = p THEN "none" ELSE lock)
  BY DEF RunCancelled, drv, tasks, mgr
<1>1. /\ Typed(op) /\ op[p] \in OpRecords /\ Control(op, lock, queue, call, retained.task, state, sources)
      /\ Called(p, op[p], call)
  BY DEF TypesOK, Typed, Safe, Control
<1>2. op[p].via = "none"
  BY <1>0, <1>1 DEF Called, DriverAwaits
<1> DEFINE r == Resting("idle")
<1>3. r.pc = "idle" /\ r.kind = "none" /\ r.via = "none" /\ r.res = "none" /\ r.phase = "none"
  BY DEF Resting
<1>4. op' = [op EXCEPT ![p] = r]
  BY <1>0
<1> HIDE DEF r
<1>5. Placed(p, r) /\ Guarded(r, state, sources) /\ ~Holding(r)
  BY <1>3 DEF Placed, Fits, Rest, Guarded, Committing, Holding, DriverAwaits, LockWaits, Targeting
<1>6. call[p].kind = "none" /\ \A u \in Ops \ {p} : op[u].via # p
  BY <1>1, <1>2, NotJoined
<1>7. Called(p, r, call')
  BY <1>0, <1>3, <1>6 DEF Called
<1>8. Line([op EXCEPT ![p] = r], queue')
  BY <1>0, <1>1, LeaveLine DEF Control
<1>9. (lock' = p <=> Holding(r)) /\ \A u \in Ops \ {p} : lock' = u <=> lock = u
  BY <1>0, <1>5
<1>10. retained.task # "none" => call'[retained.task].kind = "off" /\ call'[retained.task].chans = Channels
  BY <1>0, <1>1 DEF Control
<1>11. /\ \A u \in Ops \ {p} : call'[u].kind = call[u].kind /\ call'[u].chans = call[u].chans
       /\ \A u \in Ops \ {p} : op[u].via = p => call'[p].kind = call[p].kind /\ call'[p].chans = call[p].chans
  BY <1>0
<1>12. \/ state = state /\ sources \subseteq sources
       \/ state # "fault_latched" /\ \A u \in Ops \ {p} : op[u].pc # "probe"
  OBVIOUS
<1>13. Control([op EXCEPT ![p] = r], lock', queue', call', retained.task, state, sources)
  BY <1>1, <1>5, <1>7, <1>8, <1>9, <1>10, <1>11, <1>12, Replaced
<1> QED BY <1>0, <1>4, <1>13 DEF Safe

\* A RUN continues as an emergency OFF, under the lock it holds.
LEMMA BecomeEmergencyControls ==
  ASSUME TypesOK, Safe, NEW p \in Ops, StartCallerGone(p) \/ RunUnacknowledged(p)
  PROVE  Safe'
<1>0. BecomeEmergency(p) /\ (op[p].pc = "publish" \/ (op[p].pc = "start" /\ op[p].res # "none"))
  BY DEF StartCallerGone, RunUnacknowledged, Resumed
<1>1. /\ Typed(op) /\ op[p] \in OpRecords /\ Control(op, lock, queue, call, retained.task, state, sources)
      /\ Placed(p, op[p]) /\ Called(p, op[p], call)
  BY DEF TypesOK, Typed, Safe, Control
<1>2. op[p].kind = "run" /\ p \in Runs /\ op[p].via = "none" /\ ~Waiting(op[p]) /\ Holding(op[p])
  BY <1>0, <1>1 DEF Placed, Fits, Rest, Called, Waiting, Holding, DriverAwaits, LockWaits
<1> DEFINE m == Mark(op, "full")
           r == [Resting("lock") EXCEPT !.kind = "emergency", !.scope = Channels, !.res = "ok"]
<1>3. op' = [m EXCEPT ![p] = r] /\ UNCHANGED <<lock, queue, call, state, sources>> /\ retained'.task = retained.task
  BY <1>0 DEF BecomeEmergency, mgr, locks, drv, AbortRegistered, TypesOK, Tasks
<1>4. r.pc = "lock" /\ r.kind = "emergency" /\ r.via = "none" /\ r.res = "ok" /\ r.phase = "none"
  BY DEF Resting
<1>5. Typed(m) /\ Control(m, lock, queue, call, retained.task, state, sources)
  BY <1>1, MarkTyped, MarkControls
<1>6. m[p].via = "none" /\ ~Waiting(m[p]) /\ Holding(m[p])
  BY <1>1, <1>2, MarkFields DEF Waiting, Holding
<1> HIDE DEF r, m
<1>7. Placed(p, r) /\ Holding(r) /\ Guarded(r, state, sources)
  BY <1>2, <1>4 DEF Placed, Fits, Holding, LockWaits, Guarded, Committing, Targeting
<1>8. Sustained(m, p, state, sources, state, sources)
  BY DEF Sustained
<1>9. Control(op', lock', queue', call', retained.task, state, sources)
  BY <1>3, <1>4, <1>5, <1>6, <1>7, <1>8, MoveControls
<1> QED BY <1>3, <1>9 DEF Safe

\* Whoever holds the lock is the only one that can be probing.
LEMMA NoOtherProbe ==
  ASSUME Safe, NEW p \in Ops, lock = p
  PROVE  \A u \in Ops \ {p} : op[u].pc # "probe"
<1> SUFFICES ASSUME NEW u \in Ops \ {p} PROVE op[u].pc # "probe"
  OBVIOUS
<1>1. ~Holding(op[u]) /\ Placed(u, op[u])
  BY DEF Safe, Control
<1> QED BY <1>1 DEF Holding, Placed, Fits, Rest, RunPoints, LockWaits

\* start_source begins: nothing stays latched.
LEMMA StartSourceControls ==
  ASSUME TypesOK, Safe, NEW p \in Ops, op[p].via = "none", ~Waiting(op[p]), lock = p, op[p].kind = "run",
         NEW c \in Channels, op[p].scope = {c}, NEW st, StartSource(p, st), UNCHANGED <<lock, queue, retained>>
  PROVE  Safe'
<1>1. /\ Typed(op) /\ op[p] \in OpRecords /\ Control(op, lock, queue, call, retained.task, state, sources)
      /\ Placed(p, op[p]) /\ Holding(op[p]) /\ ContractTypeOK
  BY DEF TypesOK, Typed, Safe, Control
<1>2. state' # "fault_latched" /\ BeginStartCall(p, c)
      /\ op' = [op EXCEPT ![p].pc = "start", ![p].via = p, ![p].res = "none"]
  BY DEF StartSource, Target
<1>3. /\ call'[p].kind \in {"start", "refused"} /\ (call'[p].kind = "start" => call'[p].chans = {c})
      /\ \A u \in Ops \ {p} : call'[u] = call[u]
  BY <1>1, <1>2 DEF BeginStartCall, ContractTypeOK
<1> DEFINE d == [op[p] EXCEPT !.pc = "start", !.via = p]
           r == [d EXCEPT !.res = "none"]
<1>4. op' = [op EXCEPT ![p] = r]
  BY <1>1, <1>2 DEF Typed, OpRecords
<1>5. d \in OpRecords /\ d.pc = "start" /\ d.via = p /\ d.kind = "run" /\ d.scope = {c}
  BY <1>1, PointsHave DEF OpRecords, DriverAwaits
<1> HIDE DEF d
<1>6. r.pc = "start" /\ r.via = p /\ r.kind = "run" /\ r.scope = {c} /\ r.res = "none"
  BY <1>5 DEF OpRecords
<1> HIDE DEF r
<1>7. p \in Runs
  BY <1>1 DEF Placed, Fits
<1>8. Placed(p, r) /\ Holding(r)
  BY <1>6, <1>7 DEF Placed, Fits, RunPoints, Holding, DriverAwaits, LockWaits, Targeting
<1>9. Called(p, r, call')
  BY <1>3, <1>6 DEF Called, DriverAwaits
<1>10. Guarded(r, state', sources')
  BY <1>2, <1>6 DEF Guarded
<1>11. Line([op EXCEPT ![p] = r], queue')
  BY <1>1, LineStands DEF Control
<1>12. retained.task # p /\ \A u \in Ops \ {p} : op[u].via # p
  BY <1>1, NotJoined
<1>13. retained.task # "none" => call'[retained.task].kind = "off" /\ call'[retained.task].chans = Channels
  <2>1. retained.task \in Ops \cup {"none"}
    BY DEF TypesOK, Tasks
  <2> QED BY <1>1, <1>3, <1>12, <2>1 DEF Control
<1>14. /\ lock' = p <=> Holding(r)
       /\ \A u \in Ops \ {p} : lock' = u <=> lock = u
       /\ \A u \in Ops \ {p} : call'[u].kind = call[u].kind /\ call'[u].chans = call[u].chans
       /\ \A u \in Ops \ {p} : op[u].via = p => call'[p].kind = call[p].kind /\ call'[p].chans = call[p].chans
  BY <1>3, <1>8, <1>12
<1>15. \/ state' = state /\ sources \subseteq sources'
       \/ state' # "fault_latched" /\ \A u \in Ops \ {p} : op[u].pc # "probe"
  BY <1>2, NoOtherProbe
<1>16. Control([op EXCEPT ![p] = r], lock', queue', call', retained.task, state', sources')
  BY <1>1, <1>8, <1>9, <1>10, <1>11, <1>13, <1>14, <1>15, Replaced
<1> QED BY <1>4, <1>16 DEF Safe

\* The admission of a RUN over which nothing is latched any more.
LEMMA AdmitControls ==
  ASSUME TypesOK, Safe, NEW p \in Ops, op[p].via = "none", ~Waiting(op[p]), lock = p, op[p].kind = "run",
         op[p].pc \in Targeting, NEW st, st # "fault_latched", Admit(p, st), UNCHANGED retained
  PROVE  Safe'
<1>1. /\ Typed(op) /\ op[p] \in OpRecords /\ Control(op, lock, queue, call, retained.task, state, sources)
      /\ Placed(p, op[p]) /\ ContractTypeOK /\ retained.task \in Ops \cup {"none"}
  BY DEF TypesOK, Typed, Safe, Control, Tasks
<1>2. p \in Runs /\ \E c \in Channels : op[p].scope = {c}
  BY <1>1 DEF Placed, Fits
<1>3. CASE state' = st /\ Return(p, op, "idle") /\ UNCHANGED drv
  BY <1>3, HolderReturns DEF Rest, drv
<1>4. CASE /\ state' = st
           /\ op' = [op EXCEPT ![p].pc = "warn", ![p].res = "none"]
           /\ lock' = "none" /\ UNCHANGED <<queue, runLock, drv>>
  <2> DEFINE r == [op[p] EXCEPT !.pc = "warn", !.res = "none"]
  <2>1. op' = [op EXCEPT ![p] = r]
    BY <1>1, <1>4 DEF Typed, OpRecords
  <2>2. r.pc = "warn" /\ r.via = "none" /\ r.kind = "run" /\ r.scope = op[p].scope /\ r.res = "none"
    BY <1>1 DEF OpRecords
  <2> HIDE DEF r
  <2>3. Placed(p, r) /\ ~Holding(r)
    BY <1>2, <2>2 DEF Placed, Fits, RunPoints, Holding, DriverAwaits, LockWaits
  <2>4. call[p].kind = "none" /\ \A u \in Ops \ {p} : op[u].via # p
    BY <1>1, NotJoined
  <2>5. Called(p, r, call') /\ Guarded(r, state', sources')
    BY <1>4, <2>2, <2>4 DEF Called, Guarded, drv
  <2>6. Line([op EXCEPT ![p] = r], queue')
    BY <1>1, <1>4, LineStands DEF Control
  <2>7. retained.task # "none" => call'[retained.task].kind = "off" /\ call'[retained.task].chans = Channels
    BY <1>1, <1>4 DEF Control, drv
  <2>8. /\ lock' = p <=> Holding(r)
        /\ \A u \in Ops \ {p} : lock' = u <=> lock = u
        /\ \A u \in Ops \ {p} : call'[u].kind = call[u].kind /\ call'[u].chans = call[u].chans
        /\ \A u \in Ops \ {p} : op[u].via = p => call'[p].kind = call[p].kind /\ call'[p].chans = call[p].chans
    BY <1>4, <2>3, <2>4 DEF drv
  <2>9. \/ state' = state /\ sources \subseteq sources'
        \/ state' # "fault_latched" /\ \A u \in Ops \ {p} : op[u].pc # "probe"
    BY <1>4, NoOtherProbe
  <2>10. Control([op EXCEPT ![p] = r], lock', queue', call', retained.task, state', sources')
    BY <1>1, <2>3, <2>5, <2>6, <2>7, <2>8, <2>9, Replaced
  <2> QED BY <2>1, <2>10 DEF Safe
<1>5. CASE state' = st /\ AwaitOff(p, op, "target_off", Target(p)) /\ UNCHANGED locks
  <2>1. /\ "target_off" \in DriverAwaits \ {"start", "stop", "stop_reconcile"} /\ Fits(p, op[p].kind, "target_off")
        /\ Target(p) \in SUBSET Channels /\ ("target_off" = "target_off" => \E c \in Channels : Target(p) = {c})
        /\ UNCHANGED <<lock, queue>>
    BY <1>2, <1>5 DEF DriverAwaits, Fits, RunPoints, Target, locks
  <2>2. Sustained(op, p, state, sources, state', sources')
    BY <1>5, NoOtherProbe DEF Sustained
  <2>3. Control(op', lock', queue', call', retained.task, state', sources')
    BY <1>1, <1>5, <2>1, <2>2, AwaitOffMoves
  <2> QED BY <2>3 DEF Safe
<1>6. CASE StartSource(p, st) /\ UNCHANGED locks
  BY <1>2, <1>6, StartSourceControls DEF locks
<1> QED BY <1>3, <1>4, <1>5, <1>6 DEF Admit

\* Both admissions of a RUN, and the probe of the writer.
LEMMA AdmissionControls ==
  ASSUME TypesOK, Safe, NEW p \in Ops, RunAdmission(p) \/ ProbeReturns(p)
  PROVE  Safe'
<1>1. /\ Typed(op) /\ op[p] \in OpRecords /\ Control(op, lock, queue, call, retained.task, state, sources)
      /\ Placed(p, op[p]) /\ (lock = p <=> Holding(op[p])) /\ Called(p, op[p], call) /\ Guarded(op[p], state, sources)
  BY DEF TypesOK, Typed, Safe, Control
<1>2. op[p].pc \in {"preflight", "commit", "probe"} /\ (op[p].pc # "probe" => op[p].res # "none" /\ RunAdmission(p))
  BY <1>1 DEF RunAdmission, ProbeReturns, Resumed, OpRecords, Points, Rest, DriverAwaits, LockWaits
<1>3. op[p].pc \in Targeting /\ op[p].kind = "run" /\ p \in Runs
  BY <1>1, <1>2 DEF Targeting, Placed, Fits, Rest
<1>4. op[p].via = "none" /\ ~Waiting(op[p]) /\ lock = p /\ UNCHANGED retained
  <2>1. CASE op[p].pc = "probe"
    BY <1>1, <1>3, <2>1 DEF Called, Waiting, Holding, DriverAwaits, LockWaits, RunAdmission, ProbeReturns
  <2>2. CASE op[p].pc # "probe"
    <3>1. op[p].pc \in DriverAwaits \cup LockWaits
      BY <1>2, <2>2 DEF LockWaits
    <3> QED BY <1>2, <1>3, <2>2, <3>1, Answered DEF RunAdmission
  <2> QED BY <2>1, <2>2
<1>5. CASE ConsumeLatch(p)
  BY <1>3, <1>4, <1>5, AdmitControls DEF ConsumeLatch
<1>6. CASE Return(p, op, "idle") /\ UNCHANGED <<state, sources, drv>>
  BY <1>4, <1>6, HolderReturns DEF Rest, drv
<1>7. CASE ~Faulted /\ Admit(p, state)
  BY <1>3, <1>4, <1>7, AdmitControls DEF Faulted
<1>8. CASE /\ RunAdmission(p) /\ op[p].seen = {} /\ Faulted /\ sources = {"persistence"}
           /\ op' = [op EXCEPT ![p].pc = "probe", ![p].res = "none"]
           /\ UNCHANGED <<state, sources, evidence, locks, latchNow, drv>>
  <2> DEFINE r == [op[p] EXCEPT !.pc = "probe", !.res = "none"]
  <2>1. op' = [op EXCEPT ![p] = r]
    BY <1>1, <1>8 DEF Typed, OpRecords
  <2>2. r.pc = "probe" /\ r.via = "none" /\ r.kind = "run" /\ r.scope = op[p].scope /\ r.res = "none"
        /\ r.phase = op[p].phase /\ r.seen = {}
    BY <1>1, <1>3, <1>4, <1>8 DEF OpRecords
  <2> HIDE DEF r
  <2>3. op[p].phase = "preflight"
    <3>1. op[p].phase # "commit"
      BY <1>1, <1>3, <1>8 DEF Guarded, Committing, Faulted
    <3>2. op[p].pc = op[p].phase
      BY <1>8 DEF RunAdmission, Resumed
    <3> QED BY <1>2, <3>1, <3>2, <1>1 DEF OpRecords
  <2>4. Placed(p, r) /\ Holding(r)
    BY <1>1, <1>3, <2>2, <2>3 DEF Placed, Fits, RunPoints, Holding, DriverAwaits, LockWaits
  <2>5. Guarded(r, state', sources')
    BY <1>8, <2>2, <2>3 DEF Guarded, Committing, Faulted
  <2>6. UNCHANGED <<lock, queue, call, retained, state, sources>>
    BY <1>4, <1>8 DEF locks, drv
  <2> QED BY <1>4, <2>1, <2>2, <2>4, <2>5, <2>6, HolderMoves
<1> QED BY <1>5, <1>6, <1>7, <1>8 DEF RunAdmission, ProbeReturns

\* The OFF proof of the target, and the OFF of an overtaken RUN.
LEMMA TargetOffControls ==
  ASSUME TypesOK, Safe, NEW p \in Ops, TargetOffSettled(p) \/ AuthorityOffSettled(p)
  PROVE  Safe'
<1>0. op[p].pc \in {"target_off", "authority_off"} /\ op[p].pc \in DriverAwaits \cup LockWaits /\ op[p].res # "none"
  BY DEF TargetOffSettled, AuthorityOffSettled, Resumed, DriverAwaits
<1>1. /\ Placed(p, op[p]) /\ Typed(op) /\ Control(op, lock, queue, call, retained.task, state, sources)
  BY <1>0, Continues
<1>2. op[p].kind = "run" /\ p \in Runs
  BY <1>0, <1>1 DEF Placed, Fits, Rest
<1>3. op[p].via = "none" /\ ~Waiting(op[p]) /\ lock = p
  BY <1>0, <1>2, Answered
<1>4. Fits(p, op[p].kind, "settle") /\ Fits(p, op[p].kind, "authority_off") /\ Channels \in SUBSET Channels
      /\ "authority_off" \in DriverAwaits \ {"start", "stop", "stop_reconcile", "target_off"} /\ "idle" \in Rest
  BY <1>2 DEF Fits, RunPoints, DriverAwaits, Rest
<1>5. CASE FaultAndReturn(p, op, "safety_manager")
  BY <1>3, <1>4, <1>5, FaultAndReturnControls
<1>6. CASE EnsureOff(p, op, "authority_off", Channels) /\ UNCHANGED <<state, sources, locks>>
  <2>1. Control(op', lock', queue', call', retained'.task, state, sources)
    BY <1>1, <1>3, <1>4, <1>6, EnsureOffControls DEF locks
  <2> QED BY <1>6, <2>1 DEF Safe
<1>7. CASE Return(p, op, "idle") /\ UNCHANGED <<state, sources, tasks, drv>>
  BY <1>3, <1>4, <1>7, HolderReturns DEF tasks, drv
<1>8. CASE op[p].pc = "target_off" /\ StartSource(p, state) /\ UNCHANGED <<sources, locks, tasks>>
  <2>1. \E c \in Channels : op[p].scope = {c}
    BY <1>1, <1>8 DEF Placed, Targeting
  <2>2. UNCHANGED <<lock, queue, retained>>
    BY <1>8 DEF locks, tasks
  <2> QED BY <1>2, <1>3, <1>8, <2>1, <2>2, StartSourceControls
<1> QED BY <1>5, <1>6, <1>7, <1>8 DEF TargetOffSettled, AuthorityOffSettled, Resumed

\* start_source has returned.
LEMMA StartSettledControls ==
  ASSUME TypesOK, Safe, NEW p \in Ops, StartSettled(p)
  PROVE  Safe'
<1>0. op[p].pc = "start" /\ op[p].pc \in DriverAwaits \cup LockWaits /\ op[p].res # "none"
  BY DEF StartSettled, Resumed, DriverAwaits
<1>1. /\ Placed(p, op[p]) /\ Typed(op) /\ Control(op, lock, queue, call, retained.task, state, sources)
      /\ op[p] \in OpRecords
  BY <1>0, Continues
<1>2. op[p].kind = "run" /\ p \in Runs /\ Target(p) \in SUBSET Channels
  BY <1>0, <1>1 DEF Placed, Fits, Rest, OpRecords, Target
<1>3. op[p].via = "none" /\ ~Waiting(op[p]) /\ lock = p
  BY <1>0, <1>2, Answered
<1>4. Fits(p, op[p].kind, "settle") /\ Fits(p, op[p].kind, "late_off") /\ Fits(p, op[p].kind, "abort_off")
      /\ {"late_off", "abort_off"} \subseteq DriverAwaits \ {"start", "stop", "stop_reconcile", "target_off"}
  BY <1>2 DEF Fits, RunPoints, DriverAwaits
<1>5. CASE FaultAndReturn(p, op, "safety_manager")
  BY <1>3, <1>4, <1>5, FaultAndReturnControls
<1>6. ASSUME NEW pc \in {"late_off", "abort_off"}, NEW scope \in SUBSET Channels,
             EnsureOff(p, op, pc, scope), UNCHANGED <<mgr, locks>>
      PROVE  Safe'
  <2>1. UNCHANGED <<lock, queue, state, sources>> /\ Fits(p, op[p].kind, pc)
        /\ pc \in DriverAwaits \ {"start", "stop", "stop_reconcile", "target_off"}
    BY <1>4, <1>6 DEF mgr, locks
  <2>2. Control(op', lock', queue', call', retained'.task, state, sources)
    BY <1>1, <1>3, <1>6, <2>1, EnsureOffControls
  <2> QED BY <2>1, <2>2 DEF Safe
<1>7. CASE /\ state' = "running"
           /\ op' = [op EXCEPT ![p].pc = "publish", ![p].res = "none"]
           /\ UNCHANGED <<sources, evidence, locks, tasks, drv>>
  <2> DEFINE r == [op[p] EXCEPT !.pc = "publish", !.res = "none"]
  <2>1. op' = [op EXCEPT ![p] = r]
    BY <1>1, <1>7 DEF Typed, OpRecords
  <2>2. r.pc = "publish" /\ r.via = "none" /\ r.kind = "run" /\ r.res = "none"
    BY <1>1, <1>2, <1>3 DEF OpRecords
  <2> HIDE DEF r
  <2>3. Placed(p, r) /\ Holding(r) /\ Guarded(r, state', sources')
    BY <1>2, <1>7, <2>2 DEF Placed, Fits, RunPoints, Holding, DriverAwaits, LockWaits, Targeting, Guarded
  <2>4. UNCHANGED <<lock, queue, call, retained, sources>> /\ state' # "fault_latched"
    BY <1>7 DEF locks, tasks, drv
  <2> QED BY <1>3, <2>1, <2>2, <2>3, <2>4, HolderMoves
<1>8. \/ FaultAndReturn(p, op, "safety_manager")
      \/ EnsureOff(p, op, "late_off", Channels) /\ UNCHANGED <<mgr, locks>>
      \/ EnsureOff(p, op, "abort_off", IF "full" \in op[p].seen THEN Channels ELSE Target(p)) /\ UNCHANGED <<mgr, locks>>
      \/ /\ state' = "running"
         /\ op' = [op EXCEPT ![p].pc = "publish", ![p].res = "none"]
         /\ UNCHANGED <<sources, evidence, locks, tasks, drv>>
  BY DEF StartSettled
<1>9. Channels \in SUBSET Channels /\ (IF "full" \in op[p].seen THEN Channels ELSE Target(p)) \in SUBSET Channels
  BY <1>2
<1> QED BY <1>5, <1>6, <1>7, <1>8, <1>9

\* The OFFs that undo a start, and the publication.
LEMMA UndoControls ==
  ASSUME TypesOK, Safe, NEW p \in Ops,
         LateOffSettled(p) \/ AbortOffSettled(p) \/ RevokeOffSettled(p) \/ RunPublished(p)
  PROVE  Safe'
<1>0. op[p].pc \in {"late_off", "abort_off", "revoke_off", "publish"}
      /\ (op[p].pc # "publish" => op[p].pc \in DriverAwaits \cup LockWaits /\ op[p].res # "none")
  BY DEF LateOffSettled, AbortOffSettled, RevokeOffSettled, RunPublished, Resumed, DriverAwaits
<1>1. /\ Placed(p, op[p]) /\ Typed(op) /\ Control(op, lock, queue, call, retained.task, state, sources)
      /\ op[p] \in OpRecords /\ Called(p, op[p], call) /\ (lock = p <=> Holding(op[p]))
  BY DEF TypesOK, Typed, Safe, Control
<1>2. op[p].kind = "run" /\ p \in Runs /\ Target(p) \in SUBSET Channels
  BY <1>0, <1>1 DEF Placed, Fits, Rest, OpRecords, Target
<1>3. op[p].via = "none" /\ ~Waiting(op[p]) /\ lock = p
  <2>1. CASE op[p].pc = "publish"
    BY <1>1, <1>2, <2>1 DEF Called, Waiting, Holding, DriverAwaits, LockWaits
  <2>2. CASE op[p].pc # "publish"
    BY <1>0, <1>2, <2>2, Answered
  <2> QED BY <2>1, <2>2
<1>4. Fits(p, op[p].kind, "settle") /\ Fits(p, op[p].kind, "revoke_off") /\ {"idle", "ok"} \subseteq Rest
      /\ {"settle", "revoke_off"} \subseteq DriverAwaits \ {"start", "stop", "stop_reconcile", "target_off"}
  BY <1>2 DEF Fits, RunPoints, DriverAwaits, Rest
<1>5. CASE FaultAndReturn(p, op, "safety_manager")
  BY <1>3, <1>4, <1>5, FaultAndReturnControls
<1>6. CASE ~Faulted /\ Latch(p, op, PostPublication, "settle") /\ UNCHANGED locks
  BY <1>1, <1>3, <1>4, <1>6, LatchControls DEF locks
<1>7. ASSUME NEW verdict \in Rest, Return(p, op, verdict), UNCHANGED <<sources, tasks, drv>>,
             state' = state \/ state' # "fault_latched"
      PROVE  Safe'
  BY <1>3, <1>7, HolderReturns DEF tasks, drv
<1>8. ASSUME NEW scope \in SUBSET Channels, EnsureOff(p, op, "revoke_off", scope), UNCHANGED <<mgr, locks>>
      PROVE  Safe'
  <2>1. UNCHANGED <<lock, queue, state, sources>>
    BY <1>8 DEF mgr, locks
  <2>2. Control(op', lock', queue', call', retained'.task, state, sources)
    BY <1>1, <1>3, <1>4, <1>8, <2>1, EnsureOffControls
  <2> QED BY <2>1, <2>2 DEF Safe
<1>s. \A a : Settle(a) = state \/ Settle(a) # "fault_latched"
  BY DEF Settle
<1>9. CASE LateOffSettled(p)
  BY <1>4, <1>7, <1>9 DEF LateOffSettled
<1>10. CASE AbortOffSettled(p)
  BY <1>4, <1>5, <1>7, <1>s, <1>10 DEF AbortOffSettled
<1>11. CASE RevokeOffSettled(p)
  BY <1>4, <1>6, <1>7, <1>s, <1>11 DEF RevokeOffSettled
<1>12. CASE RunPublished(p)
  <2> DEFINE scope == IF Faulted \/ "full" \in op[p].seen THEN Channels ELSE Target(p)
  <2>1. scope \in SUBSET Channels
    BY <1>2
  <2>2. \/ ~Faulted /\ Latch(p, op, PostPublication, "settle") /\ UNCHANGED locks
        \/ EnsureOff(p, op, "revoke_off", scope) /\ UNCHANGED <<mgr, locks>>
        \/ Return(p, op, "ok") /\ UNCHANGED <<mgr, tasks, drv>>
    BY <1>12 DEF RunPublished
  <2> HIDE DEF scope
  <2>3. CASE Return(p, op, "ok") /\ UNCHANGED <<mgr, tasks, drv>>
    BY <1>4, <1>7, <2>3 DEF mgr
  <2> QED BY <1>6, <1>8, <2>1, <2>2, <2>3
<1> QED BY <1>9, <1>10, <1>11, <1>12

\* A call ends: whoever awaited it has its answer.
LEMMA DeliverControls ==
  ASSUME TypesOK, Safe, NEW o \in Ops, OffCallReturns(o) \/ StartCallReturns(o)
  PROVE  Safe'
<1>1. PICK ok \in BOOLEAN : Deliver(o, ok) /\ (OffReturns(o, ok) \/ StartReturns(o, ok))
  BY DEF OffCallReturns, StartCallReturns
<1>2. Typed(op) /\ ContractTypeOK /\ Control(op, lock, queue, call, retained.task, state, sources)
      /\ retained.task \in Ops \cup {"none"}
  BY DEF TypesOK, Typed, Safe, Tasks
<1>3. /\ call[o].kind # "none" /\ call'[o].kind = "none"
      /\ \A u \in Ops \ {o} : call'[u] = call[u]
  BY <1>1, <1>2 DEF OffReturns, StartReturns, NoCall, ContractTypeOK
<1>4. op' = [p \in Ops |-> IF op[p].via = o
                           THEN [op[p] EXCEPT !.via = "none", !.res = IF ok THEN "ok" ELSE "failed"]
                           ELSE op[p]]
      /\ retained' = (IF retained.task = o THEN NoTask ELSE retained)
      /\ UNCHANGED <<lock, queue, state, sources>>
  BY <1>1 DEF Deliver, mgr, locks
<1>5. ASSUME NEW u \in Ops
      PROVE  /\ op'[u].pc = op[u].pc /\ op'[u].kind = op[u].kind /\ op'[u].scope = op[u].scope
             /\ op'[u].todo = op[u].todo /\ op'[u].phase = op[u].phase /\ op'[u].seen = op[u].seen
             /\ op[u].via = o => op'[u].via = "none" /\ op'[u].res # "none"
             /\ op[u].via # o => op'[u].via = op[u].via /\ op'[u].res = op[u].res
  <2>1. op[u] \in OpRecords
        /\ op'[u] = IF op[u].via = o THEN [op[u] EXCEPT !.via = "none", !.res = IF ok THEN "ok" ELSE "failed"] ELSE op[u]
    BY <1>2, <1>4 DEF Typed
  <2> QED BY <2>1 DEF OpRecords
<1>6. ASSUME NEW u \in Ops
      PROVE  /\ lock' = u <=> Holding(op'[u])
             /\ Placed(u, op'[u]) /\ Called(u, op'[u], call') /\ Guarded(op'[u], state', sources')
             /\ Waiting(op[u]) => Waiting(op'[u])
  <2>1. /\ Placed(u, op[u]) /\ Called(u, op[u], call) /\ Guarded(op[u], state, sources)
        /\ (lock = u <=> Holding(op[u])) /\ op[u].via \in Ops \cup {"none"}
    BY <1>2 DEF Control, Typed, OpRecords
  <2>2. op[u].via = o => op[u].pc \in DriverAwaits /\ op[u].pc \notin LockWaits \cup {"probe", "publish", "stop_publish"}
    BY <2>1 DEF Called, DriverAwaits, LockWaits
  <2>3. (lock' = u <=> Holding(op'[u])) /\ (Waiting(op[u]) => Waiting(op'[u]))
    BY <1>4, <1>5, <2>1, <2>2 DEF Holding, Waiting
  <2>4. Placed(u, op'[u])
    BY <1>5, <2>1, <2>2 DEF Placed
  <2>5. Guarded(op'[u], state', sources')
    BY <1>4, <1>5, <2>1 DEF Guarded, Committing
  <2>6. Called(u, op'[u], call')
    <3>1. CASE op[u].via = o
      BY <1>3, <1>5, <2>1, <3>1 DEF Called
    <3>2. CASE op[u].via # o
      BY <1>3, <1>5, <2>1, <3>2 DEF Called
    <3> QED BY <3>1, <3>2
  <2> QED BY <2>3, <2>4, <2>5, <2>6
<1>7. Line(op', queue')
  <2>1. Line(op, queue) /\ queue' = queue
    BY <1>2, <1>4 DEF Control
  <2>2. \A i \in DOMAIN queue : queue[i] \in Ops
    BY <2>1 DEF Line
  <2>3. \A u \in Ops : Waiting(op[u]) => Waiting(op'[u])
    BY <1>6
  <2> QED BY <2>1, <2>2, <2>3 DEF Line
<1>8. retained'.task # "none" => call'[retained'.task].kind = "off" /\ call'[retained'.task].chans = Channels
  BY <1>2, <1>3, <1>4 DEF Control, NoTask
<1> QED BY <1>6, <1>7, <1>8 DEF Safe, Control

\* The monitor, the clock, and steps of nobody.
LEMMA MonitorControls ==
  ASSUME Safe, MonitorReady \/ EvidenceExpires \/ DriverLosesProofs \/ CooldownElapses \/ UNCHANGED vars
  PROVE  Safe'
<1>1. UNCHANGED <<op, lock, queue, retained, call, sources>> /\ (state' = state \/ (state' = "ready" /\ state # "fault_latched"))
  BY DEF MonitorReady, EvidenceExpires, DriverLosesProofs, CooldownElapses, ProofsLost, vars, mgr, locks, tasks, drv
<1>2. \A u \in Ops : Guarded(op[u], state, sources)
  BY DEF Safe, Control
<1>3. \A u \in Ops : Guarded(op[u], state', sources)
  BY <1>1, <1>2 DEF Guarded
<1> QED BY <1>1, <1>3 DEF Safe, Control

LEMMA InitControls == Init => Safe
<1> SUFFICES ASSUME Init PROVE Safe
  OBVIOUS
<1>1. op = [p \in Ops |-> Resting("idle")] /\ lock = "none" /\ queue = <<>> /\ retained = NoTask
      /\ call = [o \in Owners |-> NoCall]
  BY DEF Init, ContractInit
<1> DEFINE r == Resting("idle")
<1>2. r.pc = "idle" /\ r.kind = "none" /\ r.via = "none" /\ r.res = "none" /\ r.phase = "none"
  BY DEF Resting
<1>3. \A p \in Ops : op[p] = r
  BY <1>1
<1> HIDE DEF r
<1>4. ASSUME NEW p \in Ops
      PROVE  (lock = p <=> Holding(op[p])) /\ Placed(p, op[p]) /\ Called(p, op[p], call) /\ Guarded(op[p], state, sources)
  <2>1. Placed(p, r) /\ Guarded(r, state, sources) /\ ~Holding(r)
    BY <1>2 DEF Placed, Fits, Rest, Guarded, Committing, Holding, DriverAwaits, LockWaits, Targeting
  <2>2. Called(p, r, call)
    BY <1>1, <1>2 DEF Called, NoCall
  <2> QED BY <1>1, <1>3, <2>1, <2>2
<1>5. Line(op, queue)
  BY <1>1 DEF Line
<1> QED BY <1>1, <1>4, <1>5 DEF Safe, Control, NoTask

\* Every step keeps it.
LEMMA NextControls == TypesOK /\ Safe /\ [Next]_vars => Safe'
<1> SUFFICES ASSUME TypesOK, Safe, [Next]_vars PROVE Safe'
  OBVIOUS
<1>1. ASSUME NEW p \in Ops, Resume(p) PROVE Safe'
  BY <1>1, EmergencyControls, StopControls, StopSettledControls, InterlockControls, SettlementControls,
     AdmissionControls, TargetOffControls, StartSettledControls, BecomeEmergencyControls, UndoControls DEF Resume
<1>2. ASSUME NEW p \in Ops, AwaitEnds(p) PROVE Safe'
  BY <1>2, AcquireRunLockControls, AdmissionControls, WarningControls, UndoControls, BecomeEmergencyControls, StopControls
     DEF AwaitEnds
<1>3. ASSUME NEW p \in Ops, Grant(p) \/ OffCallReturns(p) \/ StartCallReturns(p) PROVE Safe'
  BY <1>3, GrantControls, DeliverControls
<1>4. ASSUME Submit PROVE Safe'
  <2>1. ASSUME NEW p \in Runs, (\E c \in Channels : SubmitRun(p, c)) \/ RunCancelled(p) PROVE Safe'
    BY <2>1, SubmitRunControls, CancelControls DEF Ops
  <2>2. ASSUME NEW p \in Stops,
               \/ \E scope \in Scopes : SubmitEmergency(p, scope) \/ SubmitStop(p, scope)
               \/ SubmitInterlockStop(p) \/ SubmitAcknowledge(p)
        PROVE  Safe'
    <3>1. Channels \in Scopes
      BY DEF Scopes
    <3> QED BY <2>2, <3>1, SubmitControls
  <2>3. ASSUME NEW p \in Alarms, NEW src \in Origins, RaiseFault(p, src) PROVE Safe'
    BY <2>3, RaiseControls
  <2> QED BY <1>4, <2>1, <2>2, <2>3 DEF Submit
<1> QED BY <1>1, <1>2, <1>3, <1>4, MonitorControls DEF Next, Step

(***************************************************************************)
(* What the holder of the command lock may rely on when it answers.        *)
(*                                                                         *)
(* Whoever holds the lock is alone in beginning calls, but for a fault     *)
(* that latches, and that one overtakes every RUN and STOP.  So what an    *)
(* OFF or a start has settled stays settled until its caller answers, or   *)
(* the caller sees that it was overtaken.                                  *)
(***************************************************************************)

Claim(p) ==
  /\ op[p].pc \in DriverAwaits \ {"start", "stop", "stop_reconcile"} /\ op[p].res = "ok" => out \cap op[p].scope = {}
  /\ (op[p].pc = "publish" \/ (op[p].pc = "start" /\ op[p].res = "ok")) /\ op[p].seen = {} =>
       op[p].scope \subseteq out /\ op[p].scope \cap Busy = {}
  /\ op[p].pc = "settle_then_stop" => op[p].cut
  /\ op[p].pc = "stop" =>
       /\ op[p].todo \subseteq op[p].scope
       /\ ~op[p].cut /\ op[p].res # "failed" => out \cap ((op[p].scope \ op[p].todo) \ call[p].chans) = {}
  /\ op[p].pc \in {"stop_reconcile", "stop_publish"} /\ ~op[p].cut => op[p].scope \cap (out \cup active) = {}

\* A stop that waits for the lock has every channel before it.
Fresh(r) == r.kind = "stop" /\ r.pc = "lock" => r.todo = r.scope /\ ~r.cut

Claims == \A p \in Ops : Fresh(op[p]) /\ (lock = p => Claim(p))

\* An operation that a step leaves as it is, but for an abort it registers.
Kept(q) ==
  /\ op'[q].pc = op[q].pc /\ op'[q].kind = op[q].kind /\ op'[q].scope = op[q].scope /\ op'[q].todo = op[q].todo
  /\ op'[q].cut = op[q].cut /\ op'[q].via = op[q].via /\ op'[q].res = op[q].res
  /\ op[q].seen \subseteq op'[q].seen

KeepsOthers(p) == \A q \in Ops \ {p} : Kept(q)

\* Where nothing is claimed yet.
Blank(r) ==
  /\ r.pc \notin {"publish", "stop_publish", "stop", "stop_reconcile", "settle_then_stop"}
  /\ r.pc \in DriverAwaits => r.res = "none"
  /\ r.pc = "lock" => r.kind # "stop"

OwnStep(p) == KeepsOthers(p) /\ Blank(op'[p])

LEMMA BlankClaims ==
  ASSUME NEW p \in Ops, Blank(op'[p])
  PROVE  Claim(p)' /\ Fresh(op'[p])
BY DEF Blank, Claim, Fresh, DriverAwaits

\* Another's fields, under an abort and without.
LEMMA MarkKeeps ==
  ASSUME NEW f, Typed(f), NEW scope \in {"channel", "full"}, NEW q \in Ops, f[q] = op[q], op'[q] = Mark(f, scope)[q]
  PROVE  Kept(q) /\ (op[q].kind \in {"run", "stop"} => scope \in op'[q].seen)
BY MarkFields DEF Kept

LEMMA SameKeeps ==
  ASSUME NEW q \in Ops, op'[q] = op[q]
  PROVE  Kept(q)
BY DEF Kept

\* What awaiting an OFF does to the records.
LEMMA AwaitKeeps ==
  ASSUME NEW g, Typed(g), NEW p \in Ops, NEW pc \in DriverAwaits, NEW scope \in SUBSET Channels, AwaitOff(p, g, pc, scope)
  PROVE  /\ \A q \in Ops \ {p} : op'[q] = g[q]
         /\ op'[p].pc = pc /\ op'[p].res = "none" /\ op'[p].kind = g[p].kind /\ op'[p].cut = g[p].cut
<1>1. op' = Awaiting(g, p, p, pc, scope)
  BY DEF AwaitOff, Awaiting
<1>2. PICK r \in OpRecords : AwaitsAs(g, p, p, pc, scope, r)
  BY AwaitRecord
<1>3. op' = [g EXCEPT ![p] = r] /\ r.pc = pc /\ r.res = "none" /\ r.kind = g[p].kind /\ r.cut = g[p].cut
  BY <1>1, <1>2 DEF AwaitsAs
<1> QED BY <1>3 DEF Typed

LEMMA ReturnOwn ==
  ASSUME NEW f, Typed(f), NEW p \in Ops, \A q \in Ops \ {p} : f[q] = op[q], NEW verdict \in Rest, Return(p, f, verdict)
  PROVE  OwnStep(p) /\ op'[p].pc = verdict
<1>1. op'[p] = Resting(verdict) /\ \A q \in Ops \ {p} : op'[q] = f[q]
  BY DEF Return, Typed
<1>2. op'[p].pc = verdict
  BY <1>1 DEF Resting
<1>3. Blank(op'[p])
  BY <1>2 DEF Blank, Rest, DriverAwaits
<1> QED BY <1>1, <1>2, <1>3, SameKeeps DEF OwnStep, KeepsOthers

\* The OFFs that claim nothing before they have answered.
PlainOffs == DriverAwaits \ {"start", "stop", "stop_reconcile", "settle_then_stop"}

LEMMA AwaitOffOwn ==
  ASSUME NEW f, Typed(f), NEW p \in Ops, \A q \in Ops \ {p} : f[q] = op[q],
         NEW pc \in PlainOffs, NEW scope \in SUBSET Channels, AwaitOff(p, f, pc, scope)
  PROVE  OwnStep(p) /\ op'[p].pc # "ok"
<1>1. pc \in DriverAwaits
  BY DEF PlainOffs
<1>2. /\ \A q \in Ops \ {p} : op'[q] = f[q]
      /\ op'[p].pc = pc /\ op'[p].res = "none"
  BY <1>1, AwaitKeeps
<1>3. Blank(op'[p]) /\ op'[p].pc # "ok"
  BY <1>2 DEF Blank, PlainOffs, DriverAwaits
<1> QED BY <1>2, <1>3, SameKeeps DEF OwnStep, KeepsOthers

LEMMA AwaitGlobalOffOwn ==
  ASSUME NEW f, Typed(f), NEW p \in Ops, \A q \in Ops \ {p} : f[q] = op[q], retained \in Tasks,
         NEW pc \in PlainOffs, NEW latch \in BOOLEAN, AwaitGlobalOff(p, f, pc, latch)
  PROVE  OwnStep(p) /\ op'[p].pc # "ok"
<1>0. pc \in DriverAwaits /\ Channels \in SUBSET Channels
  BY DEF PlainOffs
<1>1. CASE retained.task # "none" /\ (IF latch THEN retained.latch ELSE retained.now)
  <2>1. op' = Awaiting(f, p, retained.task, pc, Channels) /\ retained.task \in Ops
    BY <1>1 DEF AwaitGlobalOff, Awaiting, Tasks
  <2>2. PICK r \in OpRecords : AwaitsAs(f, p, retained.task, pc, Channels, r)
    BY <1>0, <2>1, AwaitRecord
  <2>3. op' = [f EXCEPT ![p] = r] /\ r.pc = pc /\ r.res = "none"
    BY <2>1, <2>2 DEF AwaitsAs
  <2>4. op'[p].pc = pc /\ op'[p].res = "none" /\ \A q \in Ops \ {p} : op'[q] = f[q]
    BY <2>3 DEF Typed
  <2>5. Blank(op'[p]) /\ op'[p].pc # "ok"
    BY <2>4 DEF Blank, PlainOffs, DriverAwaits
  <2> QED BY <2>4, <2>5, SameKeeps DEF OwnStep, KeepsOthers
<1>2. CASE ~(retained.task # "none" /\ (IF latch THEN retained.latch ELSE retained.now))
  BY <1>0, <1>2, AwaitOffOwn DEF AwaitGlobalOff
<1> QED BY <1>1, <1>2

LEMMA EnsureOffOwn ==
  ASSUME NEW f, Typed(f), NEW p \in Ops, \A q \in Ops \ {p} : f[q] = op[q], retained \in Tasks,
         NEW pc \in PlainOffs, NEW scope \in SUBSET Channels, EnsureOff(p, f, pc, scope)
  PROVE  OwnStep(p) /\ op'[p].pc # "ok"
BY AwaitGlobalOffOwn, AwaitOffOwn DEF EnsureOff

\* A fault that latches overtakes every RUN and every STOP but its own.
LEMMA LatchKeeps ==
  ASSUME NEW f, Typed(f), NEW p \in Ops, \A q \in Ops \ {p} : f[q] = op[q],
         NEW pc \in DriverAwaits, NEW s, Latch(p, f, s, pc)
  PROVE  /\ KeepsOthers(p)
         /\ \A q \in Ops \ {p} : op[q].kind \in {"run", "stop"} => op'[q].seen # {}
         /\ op'[p].pc = pc /\ op'[p].res = "none" /\ op'[p].kind = f[p].kind /\ op'[p].cut = f[p].cut
<1> DEFINE g == Mark(f, "full")
<1>1. AwaitOff(p, g, pc, Channels) /\ Typed(g) /\ Channels \in SUBSET Channels
  BY MarkTyped DEF Latch
<1>2. g[p].kind = f[p].kind /\ g[p].cut = f[p].cut
  BY MarkFields
<1>h. \A q \in Ops : g[q] = Mark(f, "full")[q]
  OBVIOUS
<1> HIDE DEF g
<1>3. /\ \A q \in Ops \ {p} : op'[q] = g[q]
      /\ op'[p].pc = pc /\ op'[p].res = "none" /\ op'[p].kind = g[p].kind /\ op'[p].cut = g[p].cut
  BY <1>1, AwaitKeeps
<1>4. ASSUME NEW q \in Ops \ {p}
      PROVE  Kept(q) /\ (op[q].kind \in {"run", "stop"} => "full" \in op'[q].seen)
  BY <1>3, <1>4, <1>h, MarkKeeps
<1> QED BY <1>2, <1>3, <1>4 DEF KeepsOthers

LEMMA FaultAndReturnOwn ==
  ASSUME Typed(op), NEW p \in Ops, NEW s, FaultAndReturn(p, op, s)
  PROVE  OwnStep(p) /\ op'[p].pc # "ok"
<1>1. CASE Faulted
  BY <1>1, ReturnOwn DEF FaultAndReturn, Rest
<1>2. CASE ~Faulted
  <2>1. Latch(p, op, s, "settle") /\ "settle" \in DriverAwaits
    BY <1>2 DEF FaultAndReturn, DriverAwaits
  <2>2. KeepsOthers(p) /\ op'[p].pc = "settle" /\ op'[p].res = "none"
    BY <2>1, LatchKeeps
  <2> QED BY <2>2 DEF OwnStep, Blank
<1> QED BY <1>1, <1>2

LEMMA ReconcileOwn ==
  ASSUME Typed(op), retained \in Tasks, NEW p \in Ops, Reconcile(p, op)
  PROVE  OwnStep(p) /\ op'[p].pc # "ok"
<1>0. "settle_then_proof" \in PlainOffs /\ "settle_then_proof" \in DriverAwaits
  BY DEF PlainOffs, DriverAwaits
<1>1. CASE Faulted
  BY <1>0, <1>1, AwaitGlobalOffOwn DEF Reconcile
<1>2. CASE ~Faulted
  <2>1. Latch(p, op, Reconciliation, "settle_then_proof")
    BY <1>2 DEF Reconcile
  <2>2. KeepsOthers(p) /\ op'[p].pc = "settle_then_proof" /\ op'[p].res = "none"
    BY <1>0, <2>1, LatchKeeps
  <2> QED BY <2>2 DEF OwnStep, Blank
<1> QED BY <1>1, <1>2

\* Everything a step by u must be shown to do: what becomes of the others' places
\* follows.
LEMMA StepClaims ==
  ASSUME Safe, Safe', Claims, NEW u \in Ops, KeepsOthers(u), Fresh(op'[u]), lock' = u => Claim(u)',
         \A q \in Ops \ {u} : lock = q => Claim(q)'
  PROVE  Claims'
<1>1. ASSUME NEW q \in Ops \ {u} PROVE Fresh(op'[q]) /\ (lock' = q => Claim(q)')
  <2>1. Kept(q) /\ Fresh(op[q])
    BY DEF KeepsOthers, Claims
  <2>2. (lock = q <=> Holding(op[q])) /\ (lock' = q <=> Holding(op'[q]))
    BY DEF Safe, Control
  <2>3. lock' = q => lock = q
    BY <2>1, <2>2 DEF Kept, Holding
  <2> QED BY <2>1, <2>3 DEF Kept, Fresh
<1> QED BY <1>1 DEF Claims

\* A step of the holder that claims nothing new.
LEMMA HolderClaims ==
  ASSUME Safe, Safe', Claims, NEW u \in Ops, lock = u, OwnStep(u)
  PROVE  Claims'
BY BlankClaims, StepClaims DEF OwnStep

\* A step beside the holder, without the driver.
LEMMA OutsideKeeps ==
  ASSUME NEW q \in Ops, Claim(q), Kept(q), UNCHANGED <<out, call>>, active' \subseteq active
  PROVE  Claim(q)'
<1>1. Busy' = Busy
  BY DEF Busy
<1> QED BY <1>1 DEF Claim, Kept

LEMMA OutsideClaims ==
  ASSUME Safe, Safe', Claims, NEW u \in Ops, OwnStep(u), UNCHANGED <<out, call>>, active' \subseteq active
  PROVE  Claims'
<1>1. Claim(u)' /\ Fresh(op'[u])
  BY BlankClaims DEF OwnStep
<1>2. \A q \in Ops \ {u} : lock = q => Claim(q)'
  BY OutsideKeeps DEF OwnStep, KeepsOthers, Claims
<1> QED BY <1>1, <1>2, StepClaims DEF OwnStep

\* Starts in flight are the holder's.
LEMMA StartsAreTheHolders ==
  ASSUME TypesOK, Safe, NEW u \in Ops, call[u].kind = "start"
  PROVE  lock = u /\ op[u].pc = "start" /\ op[u].via = u
<1>1. Called(u, op[u], call) /\ Placed(u, op[u]) /\ (lock = u <=> Holding(op[u]))
  BY DEF Safe, Control
<1>2. op[u].via = u /\ op[u].pc = "start"
  BY <1>1 DEF Called
<1>3. op[u].kind = "run"
  BY <1>1, <1>2 DEF Placed, Fits, Rest
<1> QED BY <1>1, <1>2, <1>3 DEF Holding, DriverAwaits

LEMMA NothingStarting ==
  ASSUME TypesOK, Safe, NEW p \in Ops, lock = p, op[p].pc # "start" \/ op[p].via # p
  PROVE  Starting = {}
BY StartsAreTheHolders DEF Starting

\* The requests that settle nothing but themselves.
LEMMA OffClaims ==
  ASSUME TypesOK, Safe, Safe', Claims, NEW p \in Ops,
         \/ EmergencyLocked(p) \/ EmergencySettled(p) \/ FaultStopSettled(p) \/ StopPublished(p)
         \/ InterlockLocked(p) \/ InterlockSettled(p) \/ AcknowledgeLocked(p) \/ ProofSettled(p)
  PROVE  Claims'
<1>0. /\ Typed(op) /\ retained \in Tasks /\ op[p].scope \in SUBSET Channels /\ Channels \in SUBSET Channels
      /\ {"emergency", "interlock"} \subseteq PlainOffs /\ {"idle", "ok"} \subseteq Rest
  BY OpFields DEF TypesOK, PlainOffs, DriverAwaits, Rest
<1>1. lock = p
  <2>1. CASE StopPublished(p)
    <3>1. op[p].pc = "stop_publish" /\ Placed(p, op[p]) /\ (lock = p <=> Holding(op[p]))
      BY <2>1 DEF StopPublished, Safe, Control
    <3> QED BY <3>1 DEF Placed, Fits, Rest, RunPoints, Holding
  <2>2. CASE ~StopPublished(p)
    <3>1. /\ op[p].pc \in {"lock", "emergency", "fault_stop", "interlock", "proof"} /\ op[p].res # "none"
      BY <2>2 DEF EmergencyLocked, EmergencySettled, FaultStopSettled, InterlockLocked, InterlockSettled,
                  AcknowledgeLocked, ProofSettled, Resumed
    <3>2. op[p].pc \in DriverAwaits \cup LockWaits
      BY <3>1 DEF DriverAwaits, LockWaits
    <3>3. Placed(p, op[p])
      BY DEF Safe, Control
    <3>4. op[p].kind # "fault"
      BY <3>1, <3>3 DEF Placed, Fits
    <3> QED BY <3>1, <3>2, <3>4, Answered
  <2> QED BY <2>1, <2>2
<1>2. ASSUME \/ \E f \in {op} : Reconcile(p, f)
             \/ EnsureOff(p, op, "emergency", op[p].scope)
             \/ AwaitOff(p, op, "interlock", Channels)
             \/ FaultAndReturn(p, op, "safety_manager")
             \/ \E verdict \in Rest : Return(p, op, verdict)
      PROVE  Claims'
  <2>1. OwnStep(p)
    BY <1>0, <1>2, ReconcileOwn, EnsureOffOwn, AwaitOffOwn, FaultAndReturnOwn, ReturnOwn
  <2> QED BY <1>1, <2>1, HolderClaims
<1>v. (IF p \in Runs THEN "idle" ELSE "ok") \in Rest /\ (IF op[p].cut \/ Faulted \/ op[p].seen # {} THEN "idle" ELSE "ok") \in Rest
  BY <1>0
<1>3. CASE EmergencyLocked(p) \/ EmergencySettled(p)
  BY <1>2, <1>v, <1>3 DEF EmergencyLocked, EmergencySettled
<1>4. CASE FaultStopSettled(p) \/ StopPublished(p)
  BY <1>0, <1>2, <1>v, <1>4 DEF FaultStopSettled, StopPublished
<1>5. CASE InterlockLocked(p) \/ InterlockSettled(p) \/ AcknowledgeLocked(p) \/ ProofSettled(p)
  BY <1>0, <1>2, <1>5 DEF InterlockLocked, InterlockSettled, AcknowledgeLocked, ProofSettled
<1> QED BY <1>3, <1>4, <1>5

\* The way of a RUN up to its start.
LEMMA AdmissionClaims ==
  ASSUME TypesOK, Safe, Safe', Claims, NEW p \in Ops, RunAdmission(p) \/ ProbeReturns(p)
  PROVE  Claims'
<1>1. /\ Typed(op) /\ op[p] \in OpRecords /\ Placed(p, op[p]) /\ (lock = p <=> Holding(op[p])) /\ Target(p) \in SUBSET Channels
      /\ "target_off" \in PlainOffs /\ "idle" \in Rest
  BY OpFields DEF TypesOK, Typed, Safe, Control, Target, PlainOffs, DriverAwaits, Rest
<1>2. op[p].pc \in {"preflight", "commit", "probe"} /\ (op[p].pc # "probe" => op[p].res # "none")
  BY <1>1 DEF RunAdmission, ProbeReturns, Resumed, OpRecords, Points, Rest, DriverAwaits, LockWaits
<1>3. lock = p
  <2>1. op[p].kind # "fault" /\ (op[p].pc # "probe" => op[p].pc \in LockWaits /\ op[p].res = "ok")
    BY <1>1, <1>2 DEF Placed, Fits, Rest, LockWaits, OpRecords
  <2> QED BY <1>1, <1>2, <2>1 DEF Holding
<1>4. ASSUME NEW st, Admit(p, st) PROVE OwnStep(p)
  <2>1. CASE Return(p, op, "idle")
    BY <1>1, <2>1, ReturnOwn
  <2>2. CASE op' = [op EXCEPT ![p].pc = "warn", ![p].res = "none"]
    <3>1. op'[p].pc = "warn" /\ \A q \in Ops \ {p} : op'[q] = op[q]
      BY <1>1, <2>2 DEF Typed, OpRecords
    <3> QED BY <3>1, SameKeeps DEF OwnStep, KeepsOthers, Blank, DriverAwaits
  <2>3. CASE AwaitOff(p, op, "target_off", Target(p))
    BY <1>1, <2>3, AwaitOffOwn
  <2>4. CASE StartSource(p, st)
    <3>1. op' = [op EXCEPT ![p].pc = "start", ![p].via = p, ![p].res = "none"]
      BY <2>4 DEF StartSource
    <3>2. op'[p].pc = "start" /\ op'[p].res = "none" /\ \A q \in Ops \ {p} : op'[q] = op[q]
      BY <1>1, <3>1 DEF Typed, OpRecords
    <3> QED BY <3>2, SameKeeps DEF OwnStep, KeepsOthers, Blank
  <2> QED BY <1>4, <2>1, <2>2, <2>3, <2>4 DEF Admit
<1>5. ASSUME op' = [op EXCEPT ![p].pc = "probe", ![p].res = "none"] PROVE OwnStep(p)
  <2>1. op'[p].pc = "probe" /\ \A q \in Ops \ {p} : op'[q] = op[q]
    BY <1>1, <1>5 DEF Typed, OpRecords
  <2> QED BY <2>1, SameKeeps DEF OwnStep, KeepsOthers, Blank, DriverAwaits
<1>6. OwnStep(p)
  <2>1. \/ Return(p, op, "idle")
        \/ \E st \in {state, "safe_off"} : Admit(p, st)
        \/ op' = [op EXCEPT ![p].pc = "probe", ![p].res = "none"]
    BY DEF RunAdmission, ProbeReturns, ConsumeLatch
  <2> QED BY <1>1, <1>4, <1>5, <2>1, ReturnOwn
<1> QED BY <1>3, <1>6, HolderClaims

LEMMA TargetOffClaims ==
  ASSUME TypesOK, Safe, Safe', Claims, NEW p \in Ops, TargetOffSettled(p) \/ AuthorityOffSettled(p)
  PROVE  Claims'
<1>1. /\ Typed(op) /\ op[p] \in OpRecords /\ retained \in Tasks /\ Channels \in SUBSET Channels
      /\ "authority_off" \in PlainOffs /\ "idle" \in Rest
  BY OpFields DEF TypesOK, Typed, PlainOffs, DriverAwaits, Rest
<1>2. lock = p
  <2>1. op[p].pc \in {"target_off", "authority_off"} /\ op[p].pc \in DriverAwaits /\ op[p].res # "none" /\ Placed(p, op[p])
    BY DEF TargetOffSettled, AuthorityOffSettled, Resumed, DriverAwaits, Safe, Control
  <2>2. op[p].kind # "fault"
    BY <2>1 DEF Placed, Fits
  <2> QED BY <2>1, <2>2, Answered
<1>3. CASE FaultAndReturn(p, op, "safety_manager")
  BY <1>1, <1>2, <1>3, FaultAndReturnOwn, HolderClaims
<1>4. CASE EnsureOff(p, op, "authority_off", Channels)
  BY <1>1, <1>2, <1>4, EnsureOffOwn, HolderClaims
<1>5. CASE Return(p, op, "idle")
  BY <1>1, <1>2, <1>5, ReturnOwn, HolderClaims
<1>6. CASE StartSource(p, state)
  <2>1. op' = [op EXCEPT ![p].pc = "start", ![p].via = p, ![p].res = "none"]
    BY <1>6 DEF StartSource
  <2>2. op'[p].pc = "start" /\ op'[p].res = "none" /\ \A q \in Ops \ {p} : op'[q] = op[q]
    BY <1>1, <2>1 DEF Typed, OpRecords
  <2>3. OwnStep(p)
    BY <2>2, SameKeeps DEF OwnStep, KeepsOthers, Blank
  <2> QED BY <1>2, <2>3, HolderClaims
<1> QED BY <1>3, <1>4, <1>5, <1>6 DEF TargetOffSettled, AuthorityOffSettled

\* A start that is acknowledged to a RUN nothing has overtaken is published.
LEMMA StartSettledClaims ==
  ASSUME TypesOK, Safe, Safe', Claims, NEW p \in Ops, StartSettled(p)
  PROVE  Claims'
<1>1. /\ Typed(op) /\ op[p] \in OpRecords /\ retained \in Tasks /\ Channels \in SUBSET Channels
      /\ {"late_off", "abort_off"} \subseteq PlainOffs /\ Target(p) \in SUBSET Channels
  BY OpFields DEF TypesOK, Typed, PlainOffs, DriverAwaits, Target
<1>2. lock = p /\ op[p].pc = "start" /\ op[p].res # "none" /\ Claim(p)
  <2>1. op[p].pc = "start" /\ op[p].pc \in DriverAwaits /\ op[p].res # "none" /\ Placed(p, op[p])
    BY DEF StartSettled, Resumed, DriverAwaits, Safe, Control
  <2>2. op[p].kind # "fault"
    BY <2>1 DEF Placed, Fits
  <2> QED BY <2>1, <2>2, Answered DEF Claims
<1>3. CASE FaultAndReturn(p, op, "safety_manager")
  BY <1>1, <1>2, <1>3, FaultAndReturnOwn, HolderClaims
<1>4. ASSUME NEW pc \in {"late_off", "abort_off"}, NEW scope \in SUBSET Channels, EnsureOff(p, op, pc, scope)
      PROVE  Claims'
  BY <1>1, <1>2, <1>4, EnsureOffOwn, HolderClaims
<1>5. CASE /\ Succeeded(p) /\ op[p].seen = {}
           /\ op' = [op EXCEPT ![p].pc = "publish", ![p].res = "none"] /\ UNCHANGED drv
  <2>1. /\ op'[p].pc = "publish" /\ op'[p].scope = op[p].scope /\ \A q \in Ops \ {p} : op'[q] = op[q]
    BY <1>1, <1>5 DEF Typed, OpRecords
  <2>2. op[p].scope \subseteq out /\ op[p].scope \cap Busy = {}
    BY <1>2, <1>5 DEF Claim, Succeeded
  <2>3. Busy' = Busy /\ out' = out
    BY <1>5 DEF Busy, drv
  <2>4. Claim(p)' /\ Fresh(op'[p])
    BY <2>1, <2>2, <2>3 DEF Claim, Fresh, DriverAwaits
  <2> QED BY <1>2, <2>1, <2>4, SameKeeps, StepClaims DEF KeepsOthers
<1>6. Channels \in SUBSET Channels /\ (IF "full" \in op[p].seen THEN Channels ELSE Target(p)) \in SUBSET Channels
  BY <1>1
<1> QED BY <1>3, <1>4, <1>5, <1>6 DEF StartSettled

\* The OFFs that undo a start, the publication, and a RUN whose caller is gone.
LEMMA UndoClaims ==
  ASSUME TypesOK, Safe, Safe', Claims, NEW p \in Ops,
         \/ LateOffSettled(p) \/ AbortOffSettled(p) \/ RevokeOffSettled(p) \/ RunPublished(p)
         \/ StartCallerGone(p) \/ RunUnacknowledged(p)
  PROVE  Claims'
<1>1. /\ Typed(op) /\ op[p] \in OpRecords /\ retained \in Tasks /\ Channels \in SUBSET Channels
      /\ "revoke_off" \in PlainOffs /\ "settle" \in DriverAwaits /\ {"idle", "ok"} \subseteq Rest
      /\ (IF Faulted \/ "full" \in op[p].seen THEN Channels ELSE Target(p)) \in SUBSET Channels
  BY OpFields DEF TypesOK, Typed, PlainOffs, DriverAwaits, Target, Rest
<1>2. lock = p
  <2>1. /\ op[p].pc \in {"late_off", "abort_off", "revoke_off", "publish", "start"}
        /\ Placed(p, op[p]) /\ (lock = p <=> Holding(op[p]))
    BY DEF LateOffSettled, AbortOffSettled, RevokeOffSettled, RunPublished, StartCallerGone, RunUnacknowledged,
           Resumed, Safe, Control
  <2>2. op[p].kind # "fault"
    BY <2>1 DEF Placed, Fits
  <2> QED BY <2>1, <2>2 DEF Holding, DriverAwaits
<1>3. CASE FaultAndReturn(p, op, "safety_manager")
  BY <1>1, <1>2, <1>3, FaultAndReturnOwn, HolderClaims
<1>4. CASE EnsureOff(p, op, "revoke_off", IF Faulted \/ "full" \in op[p].seen THEN Channels ELSE Target(p))
  <2> DEFINE scope == IF Faulted \/ "full" \in op[p].seen THEN Channels ELSE Target(p)
  <2>1. scope \in SUBSET Channels /\ EnsureOff(p, op, "revoke_off", scope)
    BY <1>1, <1>4
  <2> HIDE DEF scope
  <2> QED BY <1>1, <1>2, <2>1, EnsureOffOwn, HolderClaims
<1>5. ASSUME NEW verdict \in Rest, Return(p, op, verdict) PROVE Claims'
  BY <1>1, <1>2, <1>5, ReturnOwn, HolderClaims
<1>6. CASE Latch(p, op, PostPublication, "settle")
  <2>1. KeepsOthers(p) /\ op'[p].pc = "settle" /\ op'[p].res = "none"
    BY <1>1, <1>6, LatchKeeps
  <2>2. OwnStep(p)
    BY <2>1 DEF OwnStep, Blank
  <2> QED BY <1>2, <2>2, HolderClaims
<1>7. CASE BecomeEmergency(p)
  <2>1. op'[p] = [Resting("lock") EXCEPT !.kind = "emergency", !.scope = Channels, !.res = "ok"]
        /\ \A q \in Ops \ {p} : op'[q] = Mark(op, "full")[q]
    BY <1>7 DEF BecomeEmergency, Mark
  <2>2. op'[p].pc = "lock" /\ op'[p].kind = "emergency"
    BY <2>1 DEF Resting
  <2>3. OwnStep(p)
    BY <1>1, <2>1, <2>2, MarkKeeps DEF OwnStep, KeepsOthers, Blank, DriverAwaits
  <2> QED BY <1>2, <2>3, HolderClaims
<1>8. CASE LateOffSettled(p) \/ AbortOffSettled(p) \/ RevokeOffSettled(p)
  BY <1>1, <1>3, <1>5, <1>6, <1>8 DEF LateOffSettled, AbortOffSettled, RevokeOffSettled
<1>9. CASE RunPublished(p)
  BY <1>1, <1>4, <1>5, <1>6, <1>9 DEF RunPublished
<1> QED BY <1>7, <1>8, <1>9 DEF StartCallerGone, RunUnacknowledged

\* A STOP goes on to its next channel, over those already off.
LEMMA StopNextOwn ==
  ASSUME ContractInv, TypesOK, Safe, NEW f, Typed(f), NEW p \in Ops, \A q \in Ops \ {p} : f[q] = op[q],
         lock = p, op[p].pc # "start", StopNext(p, f), f[p].todo \subseteq f[p].scope,
         ~f[p].cut => out \cap (f[p].scope \ f[p].todo) = {}
  PROVE  KeepsOthers(p) /\ Claim(p)' /\ Fresh(op'[p])
<1>1. out' \subseteq out
  <2>1. out' \subseteq out \cup Starting
    BY StopNextSound DEF Calming
  <2> QED BY <2>1, NothingStarting
<1>2. PICK c \in f[p].todo : \E r \in OpRecords : StopsNext(f, p, c, r)
  BY StopNextRecord
<1>3. PICK r \in OpRecords : StopsNext(f, p, c, r)
  BY <1>2
<1>4. /\ op'[p].pc = "stop" /\ op'[p].todo = f[p].todo \ {c} /\ op'[p].scope = f[p].scope /\ op'[p].cut = f[p].cut
      /\ \A q \in Ops \ {p} : op'[q] = op[q]
  BY <1>3 DEF StopsNext, Typed
<1>5. call'[p].chans = {c}
  BY <1>3, OffCallOfItsOwn DEF StopsNext, TypesOK
<1>6. Claim(p)' /\ Fresh(op'[p])
  BY <1>1, <1>2, <1>4, <1>5 DEF Claim, Fresh
<1> QED BY <1>4, <1>6, SameKeeps DEF KeepsOthers

\* request_stop at the lock, and its reconciliation.
LEMMA StopClaims ==
  ASSUME TypesOK, ContractInv, Safe, Safe', Claims, NEW p \in Ops, StopLocked(p) \/ StopReconcile(p)
  PROVE  Claims'
<1>0. /\ op[p].pc \in {"lock", "stop_reconcile"} /\ op[p].res # "none" /\ op[p].pc \in DriverAwaits \cup LockWaits
      /\ op[p].pc = "lock" => op[p].kind = "stop"
  BY DEF StopLocked, StopReconcile, Resumed, DriverAwaits, LockWaits
<1>1. /\ Typed(op) /\ op[p] \in OpRecords /\ retained \in Tasks /\ op[p].scope \in SUBSET Channels
      /\ "fault_stop" \in PlainOffs
  BY OpFields DEF TypesOK, Typed, PlainOffs, DriverAwaits
<1>2. lock = p
  <2>1. Placed(p, op[p])
    BY DEF Safe, Control
  <2>2. op[p].kind # "fault"
    BY <1>0, <2>1 DEF Placed, Fits
  <2> QED BY <1>0, <2>2, Answered
<1>3. CASE Reconcile(p, op)
  BY <1>1, <1>2, <1>3, ReconcileOwn, HolderClaims
<1>4. CASE EnsureOff(p, op, "fault_stop", op[p].scope)
  BY <1>1, <1>2, <1>4, EnsureOffOwn, HolderClaims
<1>5. CASE op[p].pc = "lock" /\ StopNext(p, op)
  <2>1. op[p].todo = op[p].scope
    BY <1>0, <1>5 DEF Claims, Fresh
  <2>2. KeepsOthers(p) /\ Claim(p)' /\ Fresh(op'[p])
    BY <1>1, <1>2, <1>5, <2>1, StopNextOwn
  <2> QED BY <1>2, <2>2, StepClaims
<1>6. CASE /\ op[p].pc = "stop_reconcile" /\ op' = [op EXCEPT ![p].pc = "stop_publish", ![p].res = "none"]
           /\ UNCHANGED <<active, drv>>
  <2>1. /\ op'[p].pc = "stop_publish" /\ op'[p].scope = op[p].scope /\ op'[p].cut = op[p].cut
        /\ \A q \in Ops \ {p} : op'[q] = op[q]
    BY <1>1, <1>6 DEF Typed, OpRecords
  <2>2. Claim(p) /\ UNCHANGED <<out, active>>
    BY <1>2, <1>6 DEF Claims, drv
  <2>3. Claim(p)' /\ Fresh(op'[p])
    BY <1>6, <2>1, <2>2 DEF Claim, Fresh, DriverAwaits
  <2> QED BY <1>2, <2>1, <2>3, SameKeeps, StepClaims DEF KeepsOthers
<1> QED BY <1>3, <1>4, <1>5, <1>6 DEF StopLocked, StopReconcile, Resumed

\* _safe_off after one stop_source: a STOP that nothing has cut short leaves the
\* channels it has passed off, and no longer owned.
LEMMA StopSettledClaims ==
  ASSUME TypesOK, ContractInv, Safe, Safe', Claims, NEW p \in Ops, StopSettled(p)
  PROVE  Claims'
<1> DEFINE cut == op[p].cut \/ ~Succeeded(p) \/ Faulted \/ op[p].seen # {}
           f == [op EXCEPT ![p].cut = cut, ![p].pc = "stop_reconcile"]
<1>0. op[p].pc = "stop" /\ op[p].pc \in DriverAwaits /\ op[p].res # "none"
  BY DEF StopSettled, Resumed, DriverAwaits
<1>1. Typed(op) /\ op[p] \in OpRecords /\ Placed(p, op[p]) /\ Called(p, op[p], call)
  BY DEF TypesOK, Typed, Safe, Control
<1>2. op[p].via = "none" /\ lock = p /\ Claim(p)
  <2>1. op[p].kind # "fault"
    BY <1>0, <1>1 DEF Placed, Fits
  <2> QED BY <1>0, <2>1, Answered DEF Claims
<1>3. call[p].chans = {}
  <2>1. call[p].kind = "none"
    BY <1>1, <1>2 DEF Called, ContractInv, ContractTypeOK
  <2> QED BY <2>1 DEF ContractInv
<1>4. cut \in BOOLEAN
  <2>1. op[p].cut \in BOOLEAN
    BY <1>1 DEF OpRecords
  <2> QED BY <2>1, Zenon
<1>5. /\ ~cut => ~op[p].cut /\ op[p].res = "ok"
      /\ ~Succeeded(p) => cut
  BY <1>0 DEF Succeeded
<1> HIDE DEF cut
<1>6. /\ Typed(f) /\ f[p].pc = "stop_reconcile" /\ f[p].cut = cut /\ f[p].scope = op[p].scope /\ f[p].todo = op[p].todo
      /\ \A q \in Ops \ {p} : f[q] = op[q]
  BY <1>1, <1>4, PointsHave DEF Typed, OpRecords, DriverAwaits
<1>7. op[p].todo \subseteq op[p].scope /\ (~cut => out \cap (op[p].scope \ op[p].todo) = {})
  BY <1>0, <1>2, <1>3, <1>5 DEF Claim
<1>8. CASE ~Succeeded(p)
  <2>1. IF Faulted THEN op' = f /\ UNCHANGED drv ELSE Latch(p, f, "safety_manager", "settle_then_stop")
    BY <1>8 DEF StopSettled, cut
  <2> HIDE DEF f
  <2>2. CASE Faulted
    <3>1. Claim(p)' /\ Fresh(op'[p])
      BY <1>5, <1>6, <1>8, <2>1, <2>2 DEF Claim, Fresh, DriverAwaits
    <3> QED BY <1>2, <1>6, <2>1, <2>2, <3>1, SameKeeps, StepClaims DEF KeepsOthers
  <2>3. CASE ~Faulted
    <3>1. KeepsOthers(p) /\ op'[p].pc = "settle_then_stop" /\ op'[p].res = "none" /\ op'[p].cut = cut
      BY <1>6, <2>1, <2>3, LatchKeeps DEF DriverAwaits
    <3>2. Claim(p)' /\ Fresh(op'[p])
      BY <1>5, <1>8, <3>1 DEF Claim, Fresh, DriverAwaits
    <3> QED BY <1>2, <3>1, <3>2, StepClaims
  <2> QED BY <2>2, <2>3
<1>9. CASE Succeeded(p)
  <2>1. /\ active' = active \ (op[p].scope \ op[p].todo)
        /\ IF op[p].todo # {} THEN StopNext(p, f) ELSE op' = f /\ UNCHANGED drv
    BY <1>9 DEF StopSettled, cut
  <2> HIDE DEF f
  <2>2. CASE op[p].todo # {}
    <3>1. KeepsOthers(p) /\ Claim(p)' /\ Fresh(op'[p])
      BY <1>0, <1>2, <1>6, <1>7, <2>1, <2>2, StopNextOwn
    <3> QED BY <1>2, <3>1, StepClaims
  <2>3. CASE op[p].todo = {}
    <3>1. out' = out /\ op' = f
      BY <2>1, <2>3 DEF drv
    <3>2. Claim(p)' /\ Fresh(op'[p])
      BY <1>6, <1>7, <2>1, <2>3, <3>1 DEF Claim, Fresh, DriverAwaits
    <3> QED BY <1>2, <1>6, <3>1, <3>2, SameKeeps, StepClaims DEF KeepsOthers
  <2> QED BY <2>2, <2>3
<1> QED BY <1>8, <1>9

\* The settlement of a fault, the holder's or another's.
LEMMA FaultSettledClaims ==
  ASSUME TypesOK, Safe, Safe', Claims, NEW p \in Ops, FaultSettled(p)
  PROVE  Claims'
<1>0. op[p].pc \in {"settle", "settle_then_proof", "settle_then_stop"} /\ op[p].pc \in DriverAwaits /\ op[p].res # "none"
      /\ active' \subseteq active
  BY DEF FaultSettled, DriverAwaits
<1>1. /\ Typed(op) /\ op[p] \in OpRecords /\ retained \in Tasks /\ "proof" \in PlainOffs /\ "idle" \in Rest /\ FALSE \in BOOLEAN
  BY DEF TypesOK, Typed, PlainOffs, DriverAwaits, Rest
<1>2. op[p].pc # "settle" => lock = p
  <2>1. Placed(p, op[p])
    BY DEF Safe, Control
  <2>2. op[p].pc # "settle" => op[p].kind # "fault"
    BY <1>0, <2>1 DEF Placed, Fits
  <2> QED BY <1>0, <2>2, Answered
<1>3. CASE op[p].pc = "settle"
  <2>1. Return(p, op, "idle") /\ UNCHANGED <<out, call>>
    BY <1>3 DEF FaultSettled, drv
  <2> QED BY <1>0, <1>1, <2>1, ReturnOwn, OutsideClaims
<1>4. CASE op[p].pc = "settle_then_proof"
  <2>1. AwaitGlobalOff(p, op, "proof", FALSE)
    BY <1>4 DEF FaultSettled
  <2> QED BY <1>1, <1>2, <1>4, <2>1, AwaitGlobalOffOwn, HolderClaims
<1>5. CASE op[p].pc = "settle_then_stop"
  <2>1. op' = [op EXCEPT ![p].pc = "stop_reconcile", ![p].res = "ok"]
    BY <1>5 DEF FaultSettled
  <2>2. op'[p].pc = "stop_reconcile" /\ op'[p].cut = op[p].cut /\ \A q \in Ops \ {p} : op'[q] = op[q]
    BY <1>1, <2>1 DEF Typed, OpRecords
  <2>3. op[p].cut
    BY <1>2, <1>5 DEF Claims, Claim
  <2>4. Claim(p)' /\ Fresh(op'[p])
    BY <2>2, <2>3 DEF Claim, Fresh, DriverAwaits
  <2> QED BY <1>2, <1>5, <2>2, <2>4, SameKeeps, StepClaims DEF KeepsOthers
<1> QED BY <1>0, <1>3, <1>4, <1>5

\* A step beside the holder, on an operation that claims nothing.
LEMMA OutsideMoves ==
  ASSUME Safe, Safe', Claims, NEW u \in Ops, KeepsOthers(u), Claim(u)', Fresh(op'[u]),
         UNCHANGED <<out, call, active>>
  PROVE  Claims'
<1>1. \A q \in Ops \ {u} : lock = q => Claim(q)'
  BY OutsideKeeps DEF KeepsOthers, Claims
<1> QED BY <1>1, StepClaims

\* The requests, over the abort they register.
LEMMA SubmitClaims ==
  ASSUME TypesOK, Safe, Safe', Claims, NEW p \in Ops, NEW scope \in Scopes,
         SubmitEmergency(p, scope) \/ SubmitStop(p, scope) \/ SubmitInterlockStop(p) \/ SubmitAcknowledge(p)
  PROVE  Claims'
<1>0. Typed(op) /\ UNCHANGED <<out, call, active>>
  BY DEF TypesOK, Typed, SubmitEmergency, SubmitStop, SubmitInterlockStop, SubmitAcknowledge, mgr, drv
<1>1. ASSUME NEW s \in {"channel", "full"}, NEW r, op' = [Mark(op, s) EXCEPT ![p] = r], r.pc = "lock",
             r.kind = "stop" => r.todo = r.scope /\ ~r.cut
      PROVE  Claims'
  <2>1. op'[p] = r /\ \A q \in Ops \ {p} : op'[q] = Mark(op, s)[q]
    BY <1>1 DEF Mark
  <2>2. KeepsOthers(p)
    BY <1>0, <2>1, MarkKeeps DEF KeepsOthers
  <2>3. Claim(p)' /\ Fresh(op'[p])
    BY <1>1, <2>1 DEF Claim, Fresh, DriverAwaits
  <2> QED BY <1>0, <2>2, <2>3, OutsideMoves
<1>2. CASE SubmitEmergency(p, scope)
  <2> DEFINE s == IF scope = Channels THEN "full" ELSE "channel"
             r == [Resting("lock") EXCEPT !.kind = "emergency", !.scope = scope]
  <2>1. s \in {"channel", "full"} /\ op' = [Mark(op, s) EXCEPT ![p] = r]
    BY <1>2 DEF SubmitEmergency
  <2>2. r.pc = "lock" /\ r.kind = "emergency"
    BY DEF Resting
  <2> HIDE DEF s, r
  <2> QED BY <1>1, <2>1, <2>2
<1>3. CASE SubmitStop(p, scope)
  <2> DEFINE s == IF scope = Channels THEN "full" ELSE "channel"
             r == [Resting("lock") EXCEPT !.kind = "stop", !.scope = scope, !.todo = scope]
  <2>1. s \in {"channel", "full"} /\ op' = [Mark(op, s) EXCEPT ![p] = r]
    BY <1>3 DEF SubmitStop
  <2>2. r.pc = "lock" /\ r.todo = r.scope /\ ~r.cut
    BY DEF Resting
  <2> HIDE DEF s, r
  <2> QED BY <1>1, <2>1, <2>2
<1>4. CASE SubmitInterlockStop(p)
  <2> DEFINE r == [Resting("lock") EXCEPT !.kind = "interlock", !.scope = Channels]
  <2>1. op' = [Mark(op, "full") EXCEPT ![p] = r]
    BY <1>4 DEF SubmitInterlockStop
  <2>2. r.pc = "lock" /\ r.kind = "interlock"
    BY DEF Resting
  <2> HIDE DEF r
  <2> QED BY <1>1, <2>1, <2>2
<1>5. CASE SubmitAcknowledge(p)
  <2> DEFINE r == [Resting("lock") EXCEPT !.kind = "acknowledge"]
  <2>1. op' = [op EXCEPT ![p] = r]
    BY <1>5 DEF SubmitAcknowledge
  <2>2. r.pc = "lock" /\ r.kind = "acknowledge"
    BY DEF Resting
  <2> HIDE DEF r
  <2>3. op'[p] = r /\ \A q \in Ops \ {p} : op'[q] = op[q]
    BY <1>0, <2>1 DEF Typed
  <2>4. Claim(p)' /\ Fresh(op'[p])
    BY <2>2, <2>3 DEF Claim, Fresh, DriverAwaits
  <2> QED BY <1>0, <2>3, <2>4, SameKeeps, OutsideMoves DEF KeepsOthers
<1> QED BY <1>2, <1>3, <1>4, <1>5

\* A RUN before it holds the lock, and whoever is granted it.
LEMMA WaitClaims ==
  ASSUME TypesOK, Safe, Safe', Claims, NEW p \in Ops,
         \/ \E c \in Channels : SubmitRun(p, c)
         \/ RunCancelled(p) \/ AcquireRunLock(p) \/ WarningSettled(p) \/ Grant(p)
  PROVE  Claims'
<1>0. Typed(op) /\ op[p] \in OpRecords /\ UNCHANGED <<out, call, active>>
  BY DEF TypesOK, Typed, SubmitRun, RunCancelled, AcquireRunLock, WarningSettled, Grant, mgr, drv
<1>1. ASSUME NEW r, op' = [op EXCEPT ![p] = r], r.pc \notin DriverAwaits \cup {"publish", "stop_publish"}, Fresh(r)
      PROVE  Claims'
  <2>1. op'[p] = r /\ \A q \in Ops \ {p} : op'[q] = op[q]
    BY <1>0, <1>1 DEF Typed
  <2>2. Claim(p)' /\ Fresh(op'[p])
    BY <1>1, <2>1 DEF Claim, DriverAwaits
  <2> QED BY <1>0, <2>1, <2>2, SameKeeps, OutsideMoves DEF KeepsOthers
<1>2. ASSUME NEW c \in Channels, SubmitRun(p, c) PROVE Claims'
  <2> DEFINE r == [Resting("run_lock") EXCEPT !.kind = "run", !.scope = {c}]
  <2>1. op' = [op EXCEPT ![p] = r] /\ r.pc = "run_lock"
    BY <1>2 DEF SubmitRun, Resting
  <2> HIDE DEF r
  <2>2. Fresh(r) /\ r.pc \notin DriverAwaits \cup {"publish", "stop_publish"}
    BY <2>1 DEF Fresh, DriverAwaits
  <2> QED BY <1>1, <2>1, <2>2
<1>3. CASE RunCancelled(p) \/ (WarningSettled(p) /\ op[p].seen # {})
  <2> DEFINE r == Resting("idle")
  <2>1. op' = [op EXCEPT ![p] = r] /\ r.pc = "idle"
    BY <1>3 DEF RunCancelled, WarningSettled, Return, Resting
  <2> HIDE DEF r
  <2>2. Fresh(r) /\ r.pc \notin DriverAwaits \cup {"publish", "stop_publish"}
    BY <2>1 DEF Fresh, DriverAwaits
  <2> QED BY <1>1, <2>1, <2>2
<1>4. CASE AcquireRunLock(p) \/ (WarningSettled(p) /\ op[p].seen = {})
  <2>1. PICK w \in {"preflight", "commit"} : op' = [op EXCEPT ![p].pc = w, ![p].phase = w]
    BY <1>4 DEF AcquireRunLock, WarningSettled
  <2> DEFINE r == [op[p] EXCEPT !.pc = w, !.phase = w]
  <2>2. op' = [op EXCEPT ![p] = r] /\ r.pc = w
    BY <1>0, <2>1 DEF Typed, OpRecords
  <2> HIDE DEF r
  <2>3. Fresh(r) /\ r.pc \notin DriverAwaits \cup {"publish", "stop_publish"}
    BY <2>2 DEF Fresh, DriverAwaits
  <2> QED BY <1>1, <2>2, <2>3
<1>5. CASE Grant(p)
  <2>1. Waiting(op[p])
    <3>1. queue \in Seq(Ops) /\ \A i \in DOMAIN queue : Waiting(op[queue[i]])
      BY DEF Safe, Control, Line
    <3>2. queue # <<>> /\ p = Head(queue)
      BY <1>5 DEF Grant
    <3>3. 1 \in DOMAIN queue /\ queue[1] = p
      BY <3>1, <3>2
    <3> QED BY <3>1, <3>3
  <2> DEFINE r == [op[p] EXCEPT !.res = "ok"]
  <2>2. op' = [op EXCEPT ![p] = r]
    BY <1>0, <1>5 DEF Grant, Typed, OpRecords
  <2>3. r.pc = op[p].pc /\ r.kind = op[p].kind /\ r.todo = op[p].todo /\ r.scope = op[p].scope /\ r.cut = op[p].cut
    BY <1>0 DEF OpRecords
  <2> HIDE DEF r
  <2>4. Fresh(r) /\ r.pc \notin DriverAwaits \cup {"publish", "stop_publish"}
    BY <2>1, <2>3 DEF Claims, Fresh, Waiting, LockWaits, DriverAwaits
  <2> QED BY <1>1, <2>2, <2>4
<1> QED BY <1>2, <1>3, <1>4, <1>5

\* The monitor, the clock, and steps of nobody.
LEMMA MonitorClaims ==
  ASSUME Claims, MonitorReady \/ EvidenceExpires \/ DriverLosesProofs \/ CooldownElapses \/ UNCHANGED vars
  PROVE  Claims'
<1>1. UNCHANGED <<op, lock, out, call, active>>
  BY DEF MonitorReady, EvidenceExpires, DriverLosesProofs, CooldownElapses, ProofsLost, vars, mgr, locks, drv
<1>2. Busy' = Busy
  BY <1>1 DEF Busy
<1> QED BY <1>1, <1>2 DEF Claims, Claim

\* A fault that latches takes nothing back from the holder: it switches nothing on
\* that is not starting, and overtakes the RUN whose start it cuts short.
LEMMA RaiseClaims ==
  ASSUME TypesOK, ContractInv, Safe, Safe', Claims, NEW p \in Alarms, NEW s \in Origins, RaiseFault(p, s)
  PROVE  Claims'
<1>0. p \in Ops /\ Typed(op) /\ op[p] \in OpRecords /\ lock # p
  BY Rested DEF TypesOK, Typed, Ops, RaiseFault
<1>1. CASE Faulted
  <2>1. UNCHANGED <<op, lock, out, call, active>>
    BY <1>1 DEF RaiseFault, drv, locks
  <2>2. Busy' = Busy
    BY <2>1 DEF Busy
  <2> QED BY <2>1, <2>2 DEF Claims, Claim
<1>2. CASE ~Faulted
  <2> DEFINE f == [op EXCEPT ![p].kind = "fault"]
  <2>1. Latch(p, f, s, "settle") /\ active' = active
    BY <1>2 DEF RaiseFault
  <2>2. Typed(f) /\ \A q \in Ops \ {p} : f[q] = op[q]
    BY <1>0 DEF Typed, OpRecords
  <2> HIDE DEF f
  <2>3. "settle" \in DriverAwaits
    BY DEF DriverAwaits
  <2>4. /\ KeepsOthers(p) /\ op'[p].pc = "settle" /\ op'[p].res = "none"
        /\ \A q \in Ops \ {p} : op[q].kind \in {"run", "stop"} => op'[q].seen # {}
    BY <1>0, <2>1, <2>2, <2>3, LatchKeeps
  <2>5. Claim(p)' /\ Fresh(op'[p])
    BY <1>0, <2>4, BlankClaims DEF Blank
  <2>6. out' \subseteq out \cup Starting
    BY <1>0, <2>1, <2>2, <2>3, LatchSound DEF Calming
  <2>7. \A q \in Ops \ {p} : call'[q].chans = call[q].chans
    BY <1>0, <2>1, OffCallOfItsOwn DEF Latch, AwaitOff, TypesOK
  <2>8. ASSUME NEW q \in Ops \ {p}, lock = q PROVE Claim(q)'
    <3>1. Claim(q) /\ Kept(q) /\ Placed(q, op[q])
      BY <2>4, <2>8 DEF Claims, KeepsOthers, Safe, Control
    <3>2. CASE op[q].pc \in {"start", "publish"}
      <4>1. op[q].kind = "run"
        BY <3>1, <3>2 DEF Placed, Fits, Rest
      <4>2. op'[q].seen # {} /\ op'[q].pc \in {"start", "publish"}
        BY <2>4, <3>1, <3>2, <4>1 DEF Kept
      <4> QED BY <4>2 DEF Claim, DriverAwaits
    <3>3. CASE op[q].pc \notin {"start", "publish"}
      <4>1. out' \subseteq out
        BY <2>6, <2>8, <3>3, NothingStarting
      <4>2. call'[q].chans = call[q].chans
        BY <2>7
      <4> QED BY <2>1, <3>1, <3>3, <4>1, <4>2 DEF Claim, Kept
    <3> QED BY <3>2, <3>3
  <2> QED BY <1>0, <2>4, <2>5, <2>8, StepClaims
<1> QED BY <1>1, <1>2

\* The end of an OFF call switches off, and only its own channels.
LEMMA OffReturnsOnly ==
  ASSUME ContractInv, NEW o \in Owners, NEW ok \in BOOLEAN, OffReturns(o, ok)
  PROVE  out' \subseteq out /\ out \ call[o].chans \subseteq out' /\ (ok => out' \cap call[o].chans = {})
BY DEF OffReturns, LeftUnsettled

\* The end of a call is the answer to whoever awaits it.
LEMMA DeliverFields ==
  ASSUME TypesOK, NEW o \in Ops, NEW ok \in BOOLEAN, Deliver(o, ok), NEW q \in Ops
  PROVE  /\ op'[q].pc = op[q].pc /\ op'[q].kind = op[q].kind /\ op'[q].scope = op[q].scope
         /\ op'[q].todo = op[q].todo /\ op'[q].cut = op[q].cut /\ op'[q].seen = op[q].seen
         /\ op[q].via = o => op'[q].res = IF ok THEN "ok" ELSE "failed"
         /\ op[q].via # o => op'[q].res = op[q].res
<1>1. op[q] \in OpRecords
      /\ op'[q] = IF op[q].via = o THEN [op[q] EXCEPT !.via = "none", !.res = IF ok THEN "ok" ELSE "failed"] ELSE op[q]
  BY DEF TypesOK, Deliver
<1> QED BY <1>1 DEF OpRecords

LEMMA OffDeliverClaims ==
  ASSUME TypesOK, ContractInv, Safe, Claims, NEW o \in Ops, OffCallReturns(o)
  PROVE  Claims'
<1>1. PICK ok \in BOOLEAN : OffReturns(o, ok) /\ Deliver(o, ok)
  BY DEF OffCallReturns
<1> DEFINE C == call[o].chans
<1>2. out' \subseteq out /\ out \ C \subseteq out' /\ (ok => out' \cap C = {})
  BY <1>1, OffReturnsOnly
<1>3. call[o].kind = "off" /\ call'[o].chans = {} /\ \A u \in Ops \ {o} : call'[u] = call[u]
  BY <1>1 DEF OffReturns, NoCall, TypesOK, ContractTypeOK
<1>4. C \cap Channels \subseteq Busy /\ Busy' \subseteq Busy
  BY <1>3 DEF Busy
<1>5. UNCHANGED <<active, lock>>
  BY <1>1 DEF Deliver, mgr, locks
<1>6. ASSUME NEW q \in Ops PROVE Fresh(op'[q]) /\ (lock = q => Claim(q)')
  <2>1. /\ op'[q].pc = op[q].pc /\ op'[q].kind = op[q].kind /\ op'[q].scope = op[q].scope
        /\ op'[q].todo = op[q].todo /\ op'[q].cut = op[q].cut /\ op'[q].seen = op[q].seen
        /\ op[q].via = o => op'[q].res = IF ok THEN "ok" ELSE "failed"
        /\ op[q].via # o => op'[q].res = op[q].res
    BY <1>1, DeliverFields
  <2>2. Fresh(op'[q])
    BY <2>1 DEF Claims, Fresh
  <2>3. Called(q, op[q], call) /\ op[q].scope \subseteq Channels /\ (lock = q => Claim(q))
    BY DEF Safe, Control, Claims, TypesOK, OpRecords
  <2>4. ASSUME lock = q, op[q].via = o PROVE Claim(q)'
    <3>1. /\ op[q].pc \in DriverAwaits \ {"stop_reconcile"} /\ op[q].res = "none"
          /\ op[q].pc # "start"
          /\ op[q].pc # "stop" => C = op[q].scope
          /\ op[q].pc = "stop" => o = q
      BY <1>3, <2>3, <2>4 DEF Called
    <3>2. op'[q].res = IF ok THEN "ok" ELSE "failed"
      BY <2>1, <2>4
    <3>3. Claim(q)
      BY <2>3, <2>4
    <3>4. CASE op[q].pc = "stop"
      <4>1. call'[q].chans = {} /\ o = q
        BY <1>3, <3>1, <3>4
      <4>2. op[q].todo \subseteq op[q].scope /\ (~op[q].cut => out \cap ((op[q].scope \ op[q].todo) \ C) = {})
        BY <3>1, <3>3, <3>4, <4>1 DEF Claim
      <4>3. ~op[q].cut /\ ok => out' \cap (op[q].scope \ op[q].todo) = {}
        BY <1>2, <4>2
      <4> QED BY <2>1, <3>2, <3>4, <4>1, <4>2, <4>3 DEF Claim
    <3>5. CASE op[q].pc # "stop"
      <4>1. ok => out' \cap op[q].scope = {}
        BY <1>2, <3>1, <3>5
      <4> QED BY <2>1, <3>1, <3>2, <3>3, <3>5, <4>1 DEF Claim, DriverAwaits
    <3> QED BY <3>4, <3>5
  <2>5. ASSUME lock = q, op[q].via # o PROVE Claim(q)'
    <3>1. q # o
      BY <1>3, <2>3, <2>5 DEF Called
    <3>2. call'[q].chans = call[q].chans /\ op'[q].res = op[q].res /\ Claim(q)
      BY <1>3, <2>1, <2>3, <2>5, <3>1
    <3>3. op[q].scope \subseteq out /\ op[q].scope \cap Busy = {} => op[q].scope \subseteq out' /\ op[q].scope \cap Busy' = {}
      BY <1>2, <1>4, <2>3
    <3> QED BY <1>2, <1>5, <2>1, <3>2, <3>3 DEF Claim
  <2> QED BY <2>2, <2>4, <2>5
<1> QED BY <1>5, <1>6 DEF Claims

\* A start that is acknowledged has its channel on, and to itself.
LEMMA StartDeliverClaims ==
  ASSUME TypesOK, ContractInv, Safe, Claims, NEW o \in Ops, StartCallReturns(o)
  PROVE  Claims'
<1>1. PICK ok \in BOOLEAN : StartReturns(o, ok) /\ Deliver(o, ok)
  BY DEF StartCallReturns
<1>2. call[o].kind \in {"start", "refused"} /\ call'[o].chans = {} /\ \A u \in Ops \ {o} : call'[u] = call[u]
  BY <1>1 DEF StartReturns, NoCall, TypesOK, ContractTypeOK
<1>3. UNCHANGED <<active, lock>>
  BY <1>1 DEF Deliver, mgr, locks
<1>4. op[o].via = o /\ op[o].pc = "start" /\ lock = o /\ (call[o].kind = "start" => call[o].chans = op[o].scope)
  <2>1. Called(o, op[o], call) /\ Placed(o, op[o]) /\ (lock = o <=> Holding(op[o]))
    BY DEF Safe, Control
  <2>2. op[o].via = o /\ op[o].pc = "start" /\ (call[o].kind = "start" => call[o].chans = op[o].scope)
    BY <1>2, <2>1 DEF Called
  <2>3. op[o].kind = "run"
    BY <2>1, <2>2 DEF Placed, Fits, Rest
  <2> QED BY <2>1, <2>2, <2>3 DEF Holding, DriverAwaits
<1>5. \A q \in Ops : Fresh(op'[q])
  <2> TAKE q \in Ops
  <2>1. op'[q].pc = op[q].pc /\ op'[q].kind = op[q].kind /\ op'[q].todo = op[q].todo /\ op'[q].scope = op[q].scope
        /\ op'[q].cut = op[q].cut
    BY <1>1, DeliverFields
  <2> QED BY <2>1 DEF Claims, Fresh
<1>6. op'[o].pc = "start" /\ op'[o].scope = op[o].scope /\ op'[o].res = IF ok THEN "ok" ELSE "failed"
  BY <1>1, <1>4, DeliverFields
<1>7. ok => op[o].scope \subseteq out' /\ op[o].scope \cap Busy' = {}
  <2> SUFFICES ASSUME ok PROVE op[o].scope \subseteq out' /\ op[o].scope \cap Busy' = {}
    OBVIOUS
  <2>1. call[o].kind = "start" /\ ~call[o].stale /\ out' = out \cup call[o].chans
    BY <1>1 DEF StartReturns
  <2>2. \A u \in Ops \ {o} : call[u].chans \cap call[o].chans = {}
    BY <2>1 DEF ContractInv
  <2> QED BY <1>2, <1>4, <2>1, <2>2 DEF Busy
<1>8. Claim(o)'
  BY <1>6, <1>7 DEF Claim
<1> QED BY <1>3, <1>4, <1>5, <1>8 DEF Claims

\* Nobody has claimed anything, and every step keeps what is claimed.
LEMMA InitClaims == Init => Claims
<1> SUFFICES ASSUME Init PROVE Claims
  OBVIOUS
<1>1. op = [p \in Ops |-> Resting("idle")] /\ lock = "none"
  BY DEF Init
<1>2. \A p \in Ops : op[p].pc = "idle"
  BY <1>1 DEF Resting
<1> QED BY <1>1, <1>2 DEF Claims, Fresh

LEMMA NextClaims == TypesOK /\ ContractInv /\ Safe /\ Claims /\ [Next]_vars => Claims'
<1> SUFFICES ASSUME TypesOK, ContractInv, Safe, Claims, [Next]_vars PROVE Claims'
  OBVIOUS
<1>0. Safe'
  BY NextControls
<1>1. ASSUME NEW p \in Ops, Resume(p) PROVE Claims'
  BY <1>0, <1>1, OffClaims, StopClaims, StopSettledClaims, FaultSettledClaims, AdmissionClaims, TargetOffClaims,
     StartSettledClaims, UndoClaims DEF Resume
<1>2. ASSUME NEW p \in Ops, AwaitEnds(p) PROVE Claims'
  BY <1>0, <1>2, WaitClaims, AdmissionClaims, UndoClaims, OffClaims DEF AwaitEnds
<1>3. ASSUME NEW p \in Ops, Grant(p) \/ OffCallReturns(p) \/ StartCallReturns(p) PROVE Claims'
  BY <1>0, <1>3, WaitClaims, OffDeliverClaims, StartDeliverClaims
<1>4. ASSUME Submit PROVE Claims'
  <2>1. ASSUME NEW p \in Runs, (\E c \in Channels : SubmitRun(p, c)) \/ RunCancelled(p) PROVE Claims'
    BY <1>0, <2>1, WaitClaims DEF Ops
  <2>2. ASSUME NEW p \in Stops,
               \/ \E scope \in Scopes : SubmitEmergency(p, scope) \/ SubmitStop(p, scope)
               \/ SubmitInterlockStop(p) \/ SubmitAcknowledge(p)
        PROVE  Claims'
    <3>1. Channels \in Scopes /\ p \in Ops
      BY DEF Scopes, Ops
    <3> QED BY <1>0, <2>2, <3>1, SubmitClaims
  <2>3. ASSUME NEW p \in Alarms, NEW src \in Origins, RaiseFault(p, src) PROVE Claims'
    BY <1>0, <2>3, RaiseClaims
  <2> QED BY <1>4, <2>1, <2>2, <2>3 DEF Submit
<1> QED BY <1>1, <1>2, <1>3, <1>4, MonitorClaims DEF Next, Step

(***************************************************************************)
(* Who answers "ok", and over what.                                        *)
(***************************************************************************)

\* The steps that may answer "ok".
Answers(p) ==
  EmergencySettled(p) \/ StopPublished(p) \/ InterlockSettled(p) \/ AcknowledgeLocked(p) \/ RunPublished(p)

\* A step in which only p may come to answer.
Others(p) == \A q \in Ops \ {p} : op'[q].pc = op[q].pc

\* No other step of an operation is an answer, nor is one operation's answer
\* another's.
LEMMA OkByRequests ==
  ASSUME TypesOK, NEW p \in Ops,
         \/ EmergencyLocked(p) \/ EmergencySettled(p)
         \/ StopLocked(p) \/ FaultStopSettled(p) \/ StopReconcile(p) \/ StopPublished(p)
         \/ InterlockLocked(p) \/ InterlockSettled(p) \/ AcknowledgeLocked(p)
         \/ FaultSettled(p) \/ ProofSettled(p)
  PROVE  Others(p) /\ (op'[p].pc = "ok" => Answers(p))
<1>0. /\ Typed(op) /\ retained \in Tasks /\ op[p].scope \in SUBSET Channels /\ Channels \in SUBSET Channels
      /\ {"emergency", "interlock", "fault_stop", "proof"} \subseteq PlainOffs /\ {"idle", "ok"} \subseteq Rest
      /\ FALSE \in BOOLEAN
  BY OpFields DEF TypesOK, Typed, PlainOffs, DriverAwaits, Rest
<1>1. CASE Answers(p)
  <2>1. CASE \/ FaultAndReturn(p, op, "safety_manager") \/ Reconcile(p, op)
             \/ \E verdict \in Rest : Return(p, op, verdict)
    BY <1>0, <1>1, <2>1, FaultAndReturnOwn, ReconcileOwn, ReturnOwn DEF OwnStep, KeepsOthers, Kept, Others
  <2>2. CASE RunPublished(p)
    BY <2>2 DEF RunPublished, EmergencyLocked, EmergencySettled, StopLocked, FaultStopSettled, StopReconcile, StopPublished,
                InterlockLocked, InterlockSettled, AcknowledgeLocked, FaultSettled, ProofSettled, Resumed
  <2>3. CASE ~RunPublished(p)
    <3>1. (IF p \in Runs THEN "idle" ELSE "ok") \in Rest /\ (IF op[p].cut \/ Faulted \/ op[p].seen # {} THEN "idle" ELSE "ok") \in Rest
      BY <1>0
    <3> QED BY <1>0, <1>1, <2>1, <2>3, <3>1 DEF Answers, EmergencySettled, StopPublished, InterlockSettled, AcknowledgeLocked
  <2> QED BY <2>2, <2>3
<1>2. CASE ~Answers(p)
  <2>1. ASSUME \/ Reconcile(p, op)
               \/ EnsureOff(p, op, "emergency", op[p].scope) \/ EnsureOff(p, op, "fault_stop", op[p].scope)
               \/ AwaitOff(p, op, "interlock", Channels) \/ AwaitGlobalOff(p, op, "proof", FALSE)
               \/ Return(p, op, "idle")
        PROVE  Others(p) /\ op'[p].pc # "ok"
    <3>1. OwnStep(p) /\ op'[p].pc # "ok"
      BY <1>0, <2>1, ReconcileOwn, EnsureOffOwn, AwaitOffOwn, AwaitGlobalOffOwn, ReturnOwn
    <3> QED BY <3>1 DEF OwnStep, KeepsOthers, Kept, Others
  <2>2. ASSUME StopNext(p, op) PROVE Others(p) /\ op'[p].pc # "ok"
    BY <1>0, <2>2 DEF StopNext, Typed, OpRecords, Others
  <2>3. ASSUME NEW w \in {"stop_publish", "stop_reconcile"}, NEW v, op' = [op EXCEPT ![p].pc = w, ![p].res = v]
        PROVE  Others(p) /\ op'[p].pc # "ok"
    BY <1>0, <2>3 DEF Typed, OpRecords, Others
  <2>4. CASE EmergencyLocked(p) \/ StopLocked(p) \/ StopReconcile(p)
    BY <2>1, <2>2, <2>3, <2>4 DEF EmergencyLocked, StopLocked, StopReconcile
  <2>5. CASE FaultStopSettled(p) \/ InterlockLocked(p) \/ ProofSettled(p)
    BY <2>1, <2>5 DEF FaultStopSettled, InterlockLocked, ProofSettled
  <2>6. CASE FaultSettled(p)
    <3>1. \/ Return(p, op, "idle") \/ AwaitGlobalOff(p, op, "proof", FALSE)
          \/ op' = [op EXCEPT ![p].pc = "stop_reconcile", ![p].res = "ok"]
      BY <2>6 DEF FaultSettled
    <3> QED BY <2>1, <2>3, <3>1
  <2> QED BY <1>2, <2>4, <2>5, <2>6 DEF Answers
<1> QED BY <1>1, <1>2

LEMMA OkByStops ==
  ASSUME TypesOK, NEW p \in Ops, StopSettled(p)
  PROVE  Others(p) /\ op'[p].pc # "ok"
<1> DEFINE cut == op[p].cut \/ ~Succeeded(p) \/ Faulted \/ op[p].seen # {}
           f == [op EXCEPT ![p].cut = cut, ![p].pc = "stop_reconcile"]
<1>1. op[p] \in OpRecords /\ Typed(op)
  BY DEF TypesOK, Typed
<1>2. cut \in BOOLEAN
  <2>1. op[p].cut \in BOOLEAN
    BY <1>1 DEF OpRecords
  <2> QED BY <2>1, Zenon
<1> HIDE DEF cut
<1>3. Typed(f) /\ f[p].pc = "stop_reconcile" /\ \A q \in Ops \ {p} : f[q] = op[q]
  BY <1>1, <1>2, PointsHave DEF Typed, OpRecords, DriverAwaits
<1>4. op' = f \/ Latch(p, f, "safety_manager", "settle_then_stop") \/ StopNext(p, f)
  BY DEF StopSettled, cut
<1> HIDE DEF f
<1>5. CASE op' = f
  BY <1>3, <1>5 DEF Others
<1>6. CASE Latch(p, f, "safety_manager", "settle_then_stop")
  BY <1>3, <1>6, LatchKeeps DEF DriverAwaits, KeepsOthers, Kept, Others
<1>7. CASE StopNext(p, f)
  <2>1. \A q \in Ops \ {p} : op'[q] = f[q]
    BY <1>3, <1>7 DEF StopNext, Typed
  <2>2. op'[p].pc = "stop"
    BY <1>3, <1>7 DEF StopNext, Typed, OpRecords
  <2> QED BY <1>3, <2>1, <2>2 DEF Others
<1> QED BY <1>4, <1>5, <1>6, <1>7

LEMMA OkByRuns ==
  ASSUME TypesOK, NEW p \in Ops,
         \/ RunAdmission(p) \/ ProbeReturns(p) \/ TargetOffSettled(p) \/ AuthorityOffSettled(p)
         \/ StartSettled(p) \/ StartCallerGone(p) \/ LateOffSettled(p) \/ AbortOffSettled(p) \/ RevokeOffSettled(p)
         \/ AcquireRunLock(p) \/ WarningSettled(p) \/ RunPublished(p) \/ RunUnacknowledged(p)
         \/ RunCancelled(p) \/ \E c \in Channels : SubmitRun(p, c)
  PROVE  Others(p) /\ (op'[p].pc = "ok" => Answers(p))
<1> DEFINE full == IF Faulted \/ "full" \in op[p].seen THEN Channels ELSE Target(p)
           abort == IF "full" \in op[p].seen THEN Channels ELSE Target(p)
<1>0. /\ Typed(op) /\ retained \in Tasks /\ Target(p) \in SUBSET Channels /\ Channels \in SUBSET Channels
      /\ {"target_off", "authority_off", "late_off", "abort_off", "revoke_off"} \subseteq PlainOffs /\ {"idle", "ok"} \subseteq Rest
      /\ full \in SUBSET Channels /\ abort \in SUBSET Channels /\ "settle" \in DriverAwaits
  BY OpFields DEF TypesOK, Typed, Target, PlainOffs, DriverAwaits, Rest
<1> HIDE DEF full, abort
<1>1. ASSUME \/ FaultAndReturn(p, op, "safety_manager") \/ Return(p, op, "idle")
             \/ \E pc \in {"authority_off", "late_off", "abort_off", "revoke_off"} :
                  \E scope \in {Channels, full, abort} : EnsureOff(p, op, pc, scope)
             \/ AwaitOff(p, op, "target_off", Target(p))
      PROVE  Others(p) /\ op'[p].pc # "ok"
  <2>1. OwnStep(p) /\ op'[p].pc # "ok"
    BY <1>0, <1>1, FaultAndReturnOwn, ReturnOwn, EnsureOffOwn, AwaitOffOwn
  <2> QED BY <2>1 DEF OwnStep, KeepsOthers, Kept, Others
<1>2. ASSUME NEW s, Latch(p, op, s, "settle") PROVE Others(p) /\ op'[p].pc # "ok"
  BY <1>0, <1>2, LatchKeeps DEF KeepsOthers, Kept, Others
<1>3. ASSUME NEW w \in {"warn", "probe", "publish", "preflight", "commit", "start"},
             \/ op' = [op EXCEPT ![p].pc = w, ![p].res = "none"]
             \/ op' = [op EXCEPT ![p].pc = w, ![p].phase = w]
             \/ op' = [op EXCEPT ![p].pc = w, ![p].via = p, ![p].res = "none"]
      PROVE  Others(p) /\ op'[p].pc # "ok"
  BY <1>0, <1>3 DEF Typed, OpRecords, Others
<1>4. ASSUME BecomeEmergency(p) PROVE Others(p) /\ op'[p].pc # "ok"
  <2>1. op'[p] = [Resting("lock") EXCEPT !.kind = "emergency", !.scope = Channels, !.res = "ok"]
        /\ \A q \in Ops \ {p} : op'[q] = Mark(op, "full")[q]
    BY <1>4 DEF BecomeEmergency, Mark
  <2>2. op'[p].pc = "lock"
    BY <2>1 DEF Resting
  <2> QED BY <1>0, <2>1, <2>2, MarkFields DEF Others
<1>5. ASSUME NEW st, Admit(p, st) \/ StartSource(p, st) PROVE Others(p) /\ op'[p].pc # "ok"
  BY <1>1, <1>3, <1>5 DEF Admit, StartSource
<1>6. CASE RunAdmission(p) \/ ProbeReturns(p)
  BY <1>1, <1>3, <1>5, <1>6 DEF RunAdmission, ProbeReturns, ConsumeLatch
<1>7. CASE TargetOffSettled(p) \/ AuthorityOffSettled(p)
  BY <1>1, <1>5, <1>7 DEF TargetOffSettled, AuthorityOffSettled
<1>8. CASE StartSettled(p)
  BY <1>1, <1>3, <1>8 DEF StartSettled, abort
<1>9. CASE LateOffSettled(p) \/ AbortOffSettled(p) \/ RevokeOffSettled(p)
  BY <1>1, <1>2, <1>9 DEF LateOffSettled, AbortOffSettled, RevokeOffSettled
<1>10. CASE StartCallerGone(p) \/ RunUnacknowledged(p)
  BY <1>4, <1>10 DEF StartCallerGone, RunUnacknowledged
<1>11. CASE RunPublished(p)
  <2>1. \/ Latch(p, op, PostPublication, "settle") \/ EnsureOff(p, op, "revoke_off", full) \/ Return(p, op, "ok")
    BY <1>11 DEF RunPublished, full
  <2>2. Return(p, op, "ok") => Others(p)
    BY <1>0, ReturnOwn DEF OwnStep, KeepsOthers, Kept, Others
  <2> QED BY <1>1, <1>2, <1>11, <2>1, <2>2 DEF Answers
<1>12. CASE AcquireRunLock(p) \/ WarningSettled(p)
  BY <1>1, <1>3, <1>12 DEF AcquireRunLock, WarningSettled
<1>13. CASE RunCancelled(p) \/ \E c \in Channels : SubmitRun(p, c)
  <2>1. ASSUME NEW r, op' = [op EXCEPT ![p] = r], r.pc \in {"idle", "run_lock"}
        PROVE  Others(p) /\ op'[p].pc # "ok"
    BY <1>0, <2>1 DEF Typed, Others
  <2>2. CASE RunCancelled(p)
    BY <2>1, <2>2 DEF RunCancelled, Resting
  <2>3. ASSUME NEW c \in Channels, SubmitRun(p, c) PROVE Others(p) /\ op'[p].pc # "ok"
    <3> DEFINE r == [Resting("run_lock") EXCEPT !.kind = "run", !.scope = {c}]
    <3>1. op' = [op EXCEPT ![p] = r] /\ r.pc = "run_lock"
      BY <2>3 DEF SubmitRun, Resting
    <3> HIDE DEF r
    <3> QED BY <2>1, <3>1
  <2> QED BY <1>13, <2>2, <2>3
<1> QED BY <1>6, <1>7, <1>8, <1>9, <1>10, <1>11, <1>12, <1>13

LEMMA OkByNobody ==
  ASSUME TypesOK, Safe, NEW p \in Ops,
         \/ Grant(p) \/ OffCallReturns(p) \/ StartCallReturns(p)
         \/ \E scope \in Scopes : SubmitEmergency(p, scope) \/ SubmitStop(p, scope)
         \/ SubmitInterlockStop(p) \/ SubmitAcknowledge(p)
         \/ \E src \in Origins : RaiseFault(p, src)
         \/ MonitorReady \/ EvidenceExpires \/ DriverLosesProofs \/ CooldownElapses \/ UNCHANGED vars
  PROVE  \A q \in Ops : op'[q].pc = "ok" => op[q].pc = "ok"
<1>0. Typed(op)
  BY DEF TypesOK, Typed
<1>1. CASE Grant(p)
  BY <1>0, <1>1 DEF Grant, Typed, OpRecords
<1>2. ASSUME NEW ok \in BOOLEAN, Deliver(p, ok) PROVE \A q \in Ops : op'[q].pc = op[q].pc
  BY <1>2, DeliverFields
<1>3. ASSUME NEW s \in {"channel", "full"}, NEW r, op' = [Mark(op, s) EXCEPT ![p] = r], r.pc = "lock"
      PROVE  \A q \in Ops : op'[q].pc = "ok" => op[q].pc = "ok"
  <2>1. op'[p] = r /\ \A q \in Ops \ {p} : op'[q] = Mark(op, s)[q]
    BY <1>3 DEF Mark
  <2> QED BY <1>0, <1>3, <2>1, MarkFields
<1>4. ASSUME NEW scope \in Scopes, SubmitEmergency(p, scope) \/ SubmitStop(p, scope)
      PROVE  \A q \in Ops : op'[q].pc = "ok" => op[q].pc = "ok"
  <2> DEFINE s == IF scope = Channels THEN "full" ELSE "channel"
             e == [Resting("lock") EXCEPT !.kind = "emergency", !.scope = scope]
             r == [Resting("lock") EXCEPT !.kind = "stop", !.scope = scope, !.todo = scope]
  <2>1. s \in {"channel", "full"} /\ (op' = [Mark(op, s) EXCEPT ![p] = e] \/ op' = [Mark(op, s) EXCEPT ![p] = r])
    BY <1>4 DEF SubmitEmergency, SubmitStop
  <2>2. e.pc = "lock" /\ r.pc = "lock"
    BY DEF Resting
  <2> HIDE DEF s, e, r
  <2> QED BY <1>3, <2>1, <2>2
<1>5. CASE SubmitInterlockStop(p)
  <2> DEFINE r == [Resting("lock") EXCEPT !.kind = "interlock", !.scope = Channels]
  <2>1. op' = [Mark(op, "full") EXCEPT ![p] = r] /\ r.pc = "lock"
    BY <1>5 DEF SubmitInterlockStop, Resting
  <2> HIDE DEF r
  <2> QED BY <1>3, <2>1
<1>6. CASE SubmitAcknowledge(p)
  <2> DEFINE r == [Resting("lock") EXCEPT !.kind = "acknowledge"]
  <2>1. op' = [op EXCEPT ![p] = r] /\ r.pc = "lock"
    BY <1>6 DEF SubmitAcknowledge, Resting
  <2> HIDE DEF r
  <2> QED BY <1>0, <2>1 DEF Typed
<1>7. ASSUME NEW src \in Origins, RaiseFault(p, src)
      PROVE  \A q \in Ops : op'[q].pc = "ok" => op[q].pc = "ok"
  <2> DEFINE f == [op EXCEPT ![p].kind = "fault"]
  <2>1. op' = op \/ Latch(p, f, src, "settle")
    BY <1>7 DEF RaiseFault
  <2>2. Typed(f) /\ \A q \in Ops \ {p} : f[q] = op[q]
    BY <1>0 DEF Typed, OpRecords
  <2> HIDE DEF f
  <2>3. Latch(p, f, src, "settle") => KeepsOthers(p) /\ op'[p].pc = "settle"
    BY <2>2, LatchKeeps DEF DriverAwaits
  <2> QED BY <2>1, <2>3 DEF KeepsOthers, Kept
<1>8. CASE MonitorReady \/ EvidenceExpires \/ DriverLosesProofs \/ CooldownElapses \/ UNCHANGED vars
  BY <1>8 DEF MonitorReady, EvidenceExpires, DriverLosesProofs, CooldownElapses, vars
<1> QED BY <1>1, <1>2, <1>4, <1>5, <1>6, <1>7, <1>8 DEF OffCallReturns, StartCallReturns

LEMMA OkIsAnAnswer ==
  ASSUME TypesOK, Safe, [Next]_vars, NEW p \in Ops, Returns(p, "ok")
  PROVE  Answers(p)
<1>0. op[p].pc # "ok" /\ op'[p].pc = "ok"
  BY DEF Returns, Rest
<1>1. ASSUME NEW u \in Ops, Others(u) /\ (op'[u].pc = "ok" => Answers(u))
      PROVE  Answers(p)
  BY <1>0, <1>1 DEF Others
<1>2. CASE \E u \in Ops : Resume(u) \/ AwaitEnds(u)
  BY <1>1, <1>2, OkByRequests, OkByStops, OkByRuns DEF Resume, AwaitEnds
<1>3. CASE \E u \in Ops : Grant(u) \/ OffCallReturns(u) \/ StartCallReturns(u)
  BY <1>0, <1>3, OkByNobody
<1>4. CASE Submit
  <2>1. CASE \E u \in Runs : (\E c \in Channels : SubmitRun(u, c)) \/ RunCancelled(u)
    BY <1>1, <2>1, OkByRuns DEF Ops
  <2>2. CASE \E u \in Stops :
               \/ \E scope \in Scopes : SubmitEmergency(u, scope) \/ SubmitStop(u, scope)
               \/ SubmitInterlockStop(u) \/ SubmitAcknowledge(u)
    BY <1>0, <2>2, OkByNobody DEF Ops
  <2>3. CASE \E u \in Alarms, src \in Origins : RaiseFault(u, src)
    BY <1>0, <2>3, OkByNobody DEF Ops
  <2> QED BY <1>4, <2>1, <2>2, <2>3 DEF Submit
<1> QED BY <1>0, <1>2, <1>3, <1>4, OkByNobody DEF Next, Step

\* A RUN answers "ok" once it is published with its output on, owned, and left
\* alone.
LEMMA RunOkLive ==
  ASSUME TypesOK, Safe, Claims, [Next]_vars, NEW p \in Runs, Returns(p, "ok")
  PROVE  /\ op[p].scope \subseteq out' \cap active' \cap running'
         /\ state' = "running" /\ BeingSwitchedOff' \cap op[p].scope = {}
<1>0. p \in Ops /\ p \notin Stops /\ Placed(p, op[p]) /\ (lock = p <=> Holding(op[p])) /\ Typed(op) /\ op'[p].pc = "ok"
      /\ op[p].scope \subseteq Channels /\ retained \in Tasks
  BY OpFields DEF Ops, Safe, Control, TypesOK, Typed, Returns
<1>1. RunPublished(p)
  <2>1. Answers(p)
    BY <1>0, OkIsAnAnswer
  <2>2. ~(StopPublished(p) \/ InterlockSettled(p) \/ AcknowledgeLocked(p))
    BY <1>0 DEF StopPublished, InterlockSettled, AcknowledgeLocked, Resumed, Placed, Fits, Rest, RunPoints
  <2>3. ~EmergencySettled(p)
    <3>1. ASSUME Return(p, op, "idle") PROVE op'[p].pc = "idle"
      BY <1>0, <3>1, ReturnOwn DEF Rest
    <3>2. Reconcile(p, op) \/ FaultAndReturn(p, op, "safety_manager") => op'[p].pc # "ok"
      BY <1>0, ReconcileOwn, FaultAndReturnOwn
    <3> QED BY <1>0, <3>1, <3>2 DEF EmergencySettled
  <2> QED BY <2>1, <2>2, <2>3 DEF Answers
<1>2. op[p].pc = "publish" /\ lock = p
  <2>1. op[p].pc = "publish"
    BY <1>1 DEF RunPublished
  <2>2. op[p].kind # "fault"
    BY <1>0, <2>1 DEF Placed, Fits
  <2> QED BY <1>0, <2>1, <2>2 DEF Holding
<1>3. PICK hazard \in Hazards :
       IF ~Faulted /\ (state # "running" \/ ~(Target(p) \subseteq active) \/ Conflict(active, hazard))
       THEN Latch(p, op, PostPublication, "settle")
       ELSE IF Faulted \/ op[p].seen # {}
       THEN EnsureOff(p, op, "revoke_off", IF Faulted \/ "full" \in op[p].seen THEN Channels ELSE Target(p))
       ELSE UNCHANGED <<mgr, drv>>
  BY <1>1 DEF RunPublished
<1>4. ~Latch(p, op, PostPublication, "settle")
  BY <1>0, LatchKeeps DEF DriverAwaits
<1>5. ASSUME NEW scope \in SUBSET Channels PROVE ~EnsureOff(p, op, "revoke_off", scope)
  <2>1. "revoke_off" \in PlainOffs
    BY DEF PlainOffs, DriverAwaits
  <2> QED BY <1>0, <2>1, EnsureOffOwn
<1>6. /\ state = "running" /\ Target(p) \subseteq active /\ ~Conflict(active, hazard) /\ op[p].seen = {}
      /\ UNCHANGED <<mgr, drv>>
  <2>1. (IF Faulted \/ "full" \in op[p].seen THEN Channels ELSE Target(p)) \in SUBSET Channels
    BY <1>0 DEF Target
  <2>2. ~(Faulted \/ op[p].seen # {})
    BY <1>3, <1>4, <1>5, <2>1
  <2> QED BY <1>3, <1>4, <2>2
<1>7. op[p].scope \subseteq out /\ op[p].scope \cap Busy = {}
  <2>1. Claim(p)
    BY <1>0, <1>2 DEF Claims
  <2> QED BY <1>2, <1>6, <2>1 DEF Claim
<1>8. BeingSwitchedOff' \subseteq Busy
  BY <1>6 DEF BeingSwitchedOff, Busy, drv
<1> QED BY <1>6, <1>7, <1>8 DEF Target, Conflict, mgr, drv

\* A STOP, an emergency OFF and an interlock answer "ok" over outputs that are off
\* and not owned.
LEMMA StopOkOff ==
  ASSUME TypesOK, Safe, Claims, [Next]_vars, NEW p \in Stops, Returns(p, "ok"), op[p].kind # "acknowledge"
  PROVE  op[p].scope \cap (out' \cup active') = {}
<1>0. p \in Ops /\ p \notin Runs /\ Placed(p, op[p]) /\ (lock = p <=> Holding(op[p])) /\ Typed(op) /\ op'[p].pc = "ok"
      /\ retained \in Tasks
  BY DEF Ops, Safe, Control, TypesOK, Typed, Returns
<1>1. EmergencySettled(p) \/ InterlockSettled(p) \/ StopPublished(p)
  <2>1. Answers(p)
    BY <1>0, OkIsAnAnswer
  <2>2. ~AcknowledgeLocked(p)
    BY DEF AcknowledgeLocked
  <2>3. ~RunPublished(p)
    BY <1>0 DEF RunPublished, Placed, Fits, Rest
  <2> QED BY <2>1, <2>2, <2>3 DEF Answers
<1>2. lock = p /\ Claim(p)
  <2>1. op[p].pc \in {"emergency", "interlock", "stop_publish"}
    BY <1>1 DEF EmergencySettled, InterlockSettled, StopPublished, Resumed
  <2>2. op[p].kind # "fault"
    BY <1>0, <2>1 DEF Placed, Fits
  <2> QED BY <1>0, <2>1, <2>2 DEF Holding, DriverAwaits, Claims
<1>3. ~Reconcile(p, op) /\ ~FaultAndReturn(p, op, "safety_manager")
  BY <1>0, ReconcileOwn, FaultAndReturnOwn
<1>4. CASE EmergencySettled(p)
  <2>1. op[p].pc = "emergency" /\ op[p].res = "ok" /\ active' = active \ op[p].scope /\ out' = out
    BY <1>3, <1>4 DEF EmergencySettled, Resumed, Succeeded, drv
  <2>2. out \cap op[p].scope = {}
    BY <1>2, <2>1 DEF Claim, DriverAwaits
  <2> QED BY <2>1, <2>2
<1>5. CASE InterlockSettled(p)
  <2>1. op[p].pc = "interlock" /\ op[p].res = "ok" /\ active' = {} /\ out' = out
    BY <1>3, <1>5 DEF InterlockSettled, Resumed, Succeeded, drv
  <2>2. out \cap op[p].scope = {}
    BY <1>2, <2>1 DEF Claim, DriverAwaits
  <2> QED BY <2>1, <2>2
<1>6. CASE StopPublished(p)
  <2>1. op[p].pc = "stop_publish" /\ out' = out /\ active' = active
    BY <1>6 DEF StopPublished, mgr, drv
  <2>2. ~op[p].cut
    <3>1. ASSUME op[p].cut PROVE FALSE
      <4>1. Return(p, op, "idle")
        BY <1>6, <3>1 DEF StopPublished
      <4>2. op'[p].pc = "idle"
        BY <1>0, <4>1, ReturnOwn DEF Rest
      <4> QED BY <1>0, <4>2
    <3> QED BY <3>1
  <2> QED BY <1>2, <2>1, <2>2 DEF Claim
<1> QED BY <1>1, <1>4, <1>5, <1>6

\* The inductive invariant of the whole: the types, the driver contract, the
\* evidence, who holds what, and what the holder has settled.
ManagerInv == IInv /\ Safe /\ Claims

LEMMA InvariantHolds == Spec => []ManagerInv
<1>1. Init => ManagerInv
  BY InitIInv, InitControls, InitClaims DEF ManagerInv
<1>2. ManagerInv /\ [Next]_vars => ManagerInv'
  <2> SUFFICES ASSUME ManagerInv, [Next]_vars PROVE ManagerInv'
    OBVIOUS
  <2>1. IInv' /\ TypesOK /\ ContractInv
    BY NextIInv DEF ManagerInv, IInv
  <2>2. Safe' /\ Claims'
    BY <2>1, NextControls, NextClaims DEF ManagerInv
  <2> QED BY <2>1, <2>2 DEF ManagerInv
<1> QED BY <1>1, <1>2, PTL DEF Spec

\* A step that starts a source does so for a RUN that nothing has overtaken.
LEMMA StartsOnlyWhenPermitted ==
  ASSUME ManagerInv, [Next]_vars, NEW p \in Runs, call[p].kind = "none", call'[p].kind = "start"
  PROVE  op[p].seen = {} /\ state' \in {"run_permitted", "running"}
<1>0. TypesOK /\ ContractInv /\ p \in Ops /\ Placed(p, op[p])
  BY DEF ManagerInv, IInv, Safe, Control, Ops
<1>1. Step
  <2>1. ~(CooldownElapses \/ UNCHANGED vars)
    BY DEF CooldownElapses, vars, drv
  <2> QED BY <2>1 DEF Next
<1>2. StepCalm \/ StepStarts
  BY <1>0, <1>1, StepSound
<1>3. ~StepCalm
  BY <1>0 DEF StepCalm, Calming, NothingStarts
<1>4. MayStart(p)
  BY <1>0, <1>2, <1>3 DEF StepStarts
<1> QED BY <1>0, <1>4 DEF MayStart, Placed

\* A step that does not give up a latched fault, unless by acknowledgement.
LatchStands == Faulted => state' \in {"fault_latched", "manual_recovery"}

LEMMA BlocksKeepTheLatch ==
  ASSUME NEW p, NEW f, NEW s, FaultAndReturn(p, f, s) \/ Reconcile(p, f)
  PROVE  LatchStands
BY DEF FaultAndReturn, Reconcile, Latch, LatchStands, Faulted

\* No stop, no emergency OFF and no settlement gives up a latched fault,
LEMMA OffsKeepTheLatch ==
  ASSUME NEW p \in Ops,
         \/ EmergencyLocked(p) \/ EmergencySettled(p)
         \/ StopLocked(p) \/ FaultStopSettled(p) \/ StopSettled(p) \/ StopReconcile(p) \/ StopPublished(p)
         \/ InterlockLocked(p) \/ InterlockSettled(p) \/ AcknowledgeLocked(p)
         \/ FaultSettled(p) \/ ProofSettled(p) \/ \E src \in Origins : RaiseFault(p, src)
  PROVE  LatchStands
<1>1. CASE EmergencyLocked(p) \/ EmergencySettled(p)
  BY <1>1, BlocksKeepTheLatch DEF EmergencyLocked, EmergencySettled, LatchStands, Faulted
<1>2. CASE StopLocked(p) \/ FaultStopSettled(p) \/ StopReconcile(p) \/ StopPublished(p)
  BY <1>2, BlocksKeepTheLatch DEF StopLocked, FaultStopSettled, StopReconcile, StopPublished, LatchStands, Faulted, mgr
<1>3. CASE StopSettled(p)
  BY <1>3 DEF StopSettled, LatchStands, Faulted
<1>4. CASE InterlockLocked(p) \/ InterlockSettled(p) \/ AcknowledgeLocked(p)
  BY <1>4, BlocksKeepTheLatch DEF InterlockLocked, InterlockSettled, AcknowledgeLocked, LatchStands, Faulted, mgr
<1>5. CASE FaultSettled(p) \/ ProofSettled(p) \/ \E src \in Origins : RaiseFault(p, src)
  BY <1>5 DEF FaultSettled, ProofSettled, RaiseFault, LatchStands, Faulted
<1> QED BY <1>1, <1>2, <1>3, <1>4, <1>5

\* ... nor does a RUN past its admission, a request, or the monitor.
LEMMA RunsKeepTheLatch ==
  ASSUME NEW p \in Ops,
         \/ TargetOffSettled(p) \/ AuthorityOffSettled(p)
         \/ StartSettled(p) \/ StartCallerGone(p) \/ LateOffSettled(p) \/ AbortOffSettled(p) \/ RevokeOffSettled(p)
         \/ AcquireRunLock(p) \/ WarningSettled(p) \/ RunPublished(p) \/ RunUnacknowledged(p) \/ RunCancelled(p)
         \/ Grant(p) \/ OffCallReturns(p) \/ StartCallReturns(p)
  PROVE  LatchStands
<1>1. CASE TargetOffSettled(p) \/ AuthorityOffSettled(p) \/ StartSettled(p)
  BY <1>1, BlocksKeepTheLatch DEF TargetOffSettled, AuthorityOffSettled, StartSettled, LatchStands, Faulted, mgr
<1>2. CASE LateOffSettled(p) \/ AbortOffSettled(p) \/ RevokeOffSettled(p) \/ RunPublished(p)
  BY <1>2, BlocksKeepTheLatch
     DEF LateOffSettled, AbortOffSettled, RevokeOffSettled, RunPublished, Settle, LatchStands, Faulted, mgr
<1>3. CASE \/ StartCallerGone(p) \/ AcquireRunLock(p) \/ WarningSettled(p) \/ RunUnacknowledged(p) \/ RunCancelled(p)
           \/ Grant(p) \/ OffCallReturns(p) \/ StartCallReturns(p)
  BY <1>3 DEF StartCallerGone, AcquireRunLock, WarningSettled, RunUnacknowledged, RunCancelled, BecomeEmergency,
              Grant, OffCallReturns, StartCallReturns, Deliver, LatchStands, Faulted, mgr
<1> QED BY <1>1, <1>2, <1>3

LEMMA RequestsKeepTheLatch ==
  ASSUME \/ \E p \in Runs, c \in Channels : SubmitRun(p, c)
         \/ \E p \in Stops :
              \/ \E scope \in Scopes : SubmitEmergency(p, scope) \/ SubmitStop(p, scope)
              \/ SubmitInterlockStop(p) \/ SubmitAcknowledge(p)
         \/ MonitorReady \/ EvidenceExpires \/ DriverLosesProofs \/ CooldownElapses \/ UNCHANGED vars
  PROVE  LatchStands
BY DEF SubmitRun, SubmitEmergency, SubmitStop, SubmitInterlockStop, SubmitAcknowledge,
       MonitorReady, EvidenceExpires, DriverLosesProofs, CooldownElapses, vars, mgr, LatchStands, Faulted

\* An admission gives a latch up only by consuming it, under the command lock.
LEMMA AdmissionConsumes ==
  ASSUME TypesOK, Safe, NEW p \in Ops, RunAdmission(p) \/ ProbeReturns(p), Faulted, state' # "fault_latched"
  PROVE  /\ sources \cap {"interlock", "persistence"} # {} /\ sources' = {}
         /\ p \in Runs /\ op[p].pc \in {"preflight", "commit", "probe"} /\ lock = p
<1>1. /\ op[p] \in OpRecords /\ Placed(p, op[p]) /\ (lock = p <=> Holding(op[p])) /\ Guarded(op[p], state, sources)
  BY DEF TypesOK, Safe, Control
<1>2. op[p].pc \in {"preflight", "commit", "probe"} /\ (op[p].pc # "probe" => op[p].res # "none" /\ RunAdmission(p))
  BY <1>1 DEF RunAdmission, ProbeReturns, Resumed, OpRecords, Points, Rest, DriverAwaits, LockWaits
<1>3. op[p].kind = "run" /\ p \in Runs
  BY <1>1, <1>2 DEF Placed, Fits, Rest
<1>4. lock = p
  BY <1>1, <1>2, <1>3 DEF Holding, Placed, LockWaits, OpRecords
<1>5. sources' = {} /\ (sources = {"interlock"} \/ op[p].pc = "probe")
  <2>1. CASE RunAdmission(p)
    BY <2>1 DEF RunAdmission, ConsumeLatch, Faulted
  <2>2. CASE ProbeReturns(p)
    BY <2>2 DEF ProbeReturns, ConsumeLatch, Faulted
  <2> QED BY <2>1, <2>2
<1>6. sources \cap {"interlock", "persistence"} # {}
  BY <1>1, <1>5 DEF Guarded
<1> QED BY <1>2, <1>3, <1>4, <1>5, <1>6

LEMMA LatchGivenUp ==
  ASSUME ManagerInv, [Next]_vars, Faulted, state' # "fault_latched"
  PROVE  \/ state' = "manual_recovery"
         \/ /\ sources \cap {"interlock", "persistence"} # {} /\ sources' = {}
            /\ \E p \in Runs : op[p].pc \in {"preflight", "commit", "probe"} /\ lock = p
<1>0. TypesOK /\ Safe
  BY DEF ManagerInv, IInv
<1>1. CASE \E p \in Ops : RunAdmission(p) \/ ProbeReturns(p)
  BY <1>0, <1>1, AdmissionConsumes
<1>2. CASE ~\E p \in Ops : RunAdmission(p) \/ ProbeReturns(p)
  <2>1. ASSUME NEW p \in Ops, Resume(p) \/ Grant(p) \/ AwaitEnds(p) \/ OffCallReturns(p) \/ StartCallReturns(p)
        PROVE  LatchStands
    BY <1>2, <2>1, OffsKeepTheLatch, RunsKeepTheLatch DEF Resume, AwaitEnds
  <2>2. ASSUME Submit PROVE LatchStands
    <3>1. ASSUME NEW p \in Runs, RunCancelled(p) PROVE LatchStands
      BY <3>1, RunsKeepTheLatch DEF Ops
    <3>2. ASSUME NEW p \in Alarms, NEW src \in Origins, RaiseFault(p, src) PROVE LatchStands
      BY <3>2, OffsKeepTheLatch DEF Ops
    <3> QED BY <2>2, <3>1, <3>2, RequestsKeepTheLatch DEF Submit
  <2>3. LatchStands
    BY <2>1, <2>2, RequestsKeepTheLatch DEF Next, Step
  <2> QED BY <2>3 DEF LatchStands
<1> QED BY <1>1, <1>2

(***************************************************************************)
(* What the state agrees with once everybody has returned.                 *)
(*                                                                         *)
(* While somebody is under way the state may lag behind what is owned: a   *)
(* stop takes channel after channel out of active and names the state only *)
(* at the end, and not even then once an abort has overtaken it.  So       *)
(* whoever leaves the state behind relies on another to settle it: on the  *)
(* fault that latched, or on the request that overtook it, which waits     *)
(* behind it in the line for the lock.                                     *)
(***************************************************************************)

\* In the line for the lock, its holder first; and what comes before what in it.
InLine(p) == lock = p \/ \E i \in DOMAIN queue : queue[i] = p

Before(p, q) ==
  \E j \in DOMAIN queue : queue[j] = q /\ (lock = p \/ \E i \in DOMAIN queue : i < j /\ queue[i] = p)

\* An emergency OFF of everything, under the lock.
EndsAll(r) == r.kind = "emergency" /\ r.scope = Channels /\ r.pc \in {"lock", "emergency"}

Ending == \E h \in Ops : lock = h /\ EndsAll(op[h])

\* A RUN is half permitted only while it starts, or is being undone.
Permitted ==
  state = "run_permitted" => \E p \in Ops : lock = p /\ (op[p].pc \in {"start", "abort_off"} \/ EndsAll(op[p]))

\* Nothing is on its way to be switched on unless the state permits it.
StartState == Starting # {} => state \in {"run_permitted", "running"}

\* Starts and their rollbacks, and stop_source, are of some channel; faults of all.
StartAims ==
  \A p \in Ops :
    /\ op[p].pc \in {"start", "publish", "abort_off", "revoke_off"} => op[p].scope # {}
    /\ op[p].pc = "stop" /\ op[p].via = p => call[p].chans # {}

AlarmAims == \A a \in Ops : op[a].kind = "fault" => op[a].scope = Channels /\ op[a].via \in {a, "none"}

Settling == {"settle", "settle_then_proof", "settle_then_stop", "proof"}

\* The holder of the lock settles its own fault, or one it has joined.
OwnFaults == \A p \in Ops : lock = p /\ op[p].pc \in Settling => Faulted

\* Whoever may commit a source or a state has seen the fault that is latched.
Commits(r) == (r.kind = "run" /\ r.pc \in {"start", "publish"}) \/ (r.kind = "stop" /\ r.pc = "stop")

Overtaken == \A p \in Ops : Faulted /\ Commits(op[p]) => "full" \in op[p].seen

CutSeen == \A p \in Ops : op[p].pc = "stop" /\ op[p].cut => op[p].seen # {}

\* Once a fault has cooled down, no RUN of the time before it is left.
CooledDown == cooled => Faulted /\ \A p \in Ops : op[p].kind = "run" => op[p].pc \notin {"start", "publish"}

\* A fault whose OFF was confirmed settles over outputs that are off.
AlarmOff == \A a \in Ops : op[a].kind = "fault" /\ op[a].res = "ok" => out = {}

Steady ==
  /\ Permitted /\ StartState /\ StartAims /\ AlarmAims /\ OwnFaults
  /\ Overtaken /\ CutSeen /\ CooledDown /\ AlarmOff

(***************************************************************************)
(* The steps of the holder of the lock, by what they leave behind.         *)
(***************************************************************************)

Alone(p) == \A q \in Ops \ {p} : op'[q] = op[q]

\* Nothing is switched on, and nothing will be.
Still == out' \subseteq out /\ Starting' = {}

\* The holder keeps the lock, or gives it up.
Stays(p) ==
  /\ lock' = p /\ op'[p].kind = op[p].kind /\ op'[p].seen = op[p].seen
  /\ op'[p].pc # "stop_reconcile" => op'[p].res = "none"
  /\ op'[p].pc = "stop" => call'[p].chans # {}

Leaves(p) == lock' = "none" /\ op'[p].pc \in Rest \cup {"warn"}

\* It latches a fault, and settles it.
Latches(p) ==
  /\ ~Faulted /\ state' = "fault_latched" /\ Still
  /\ \A q \in Ops \ {p} : op'[q] = Mark(op, "full")[q]
  /\ lock' = p /\ op'[p].kind = op[p].kind /\ op'[p].pc \in Settling
  /\ op'[p].kind \in {"run", "stop"} => op[p].seen \cup {"full"} \subseteq op'[p].seen

\* It becomes an emergency OFF of everything.
TakesOver(p) ==
  /\ op[p].kind = "run" /\ op[p].pc \in {"start", "publish"} /\ UNCHANGED <<state, active>> /\ Still
  /\ \A q \in Ops \ {p} : op'[q] = Mark(op, "full")[q]
  /\ lock' = p /\ EndsAll(op'[p]) /\ op'[p].pc = "lock"

\* It moves on beside a latched fault.
StaysFaulted(p) ==
  /\ Faulted /\ state' = "fault_latched" /\ active' \subseteq active /\ Still /\ Alone(p)
  /\ \/ Leaves(p)
     \/ /\ Stays(p) /\ op'[p].pc \notin {"start", "publish", "abort_off", "lock"}
        /\ op'[p].pc = "stop" => op[p].pc = "stop"
        /\ op'[p].pc = "probe" => op[p].seen = {}
        /\ op'[p].pc = "revoke_off" => op[p].pc = "publish" /\ (op[p].scope # {} => op'[p].scope # {})

\* It moves on, and leaves the state to those after it.
Proceeds(r, r2) ==
  \/ /\ r.pc = "lock" /\ r.kind \in {"emergency", "interlock", "stop"}
     /\ r2.pc = r.kind /\ (r.kind = "emergency" => r2.scope = r.scope) /\ ~(r2.pc = "stop" /\ r2.cut)
  \/ r.pc = "start" /\ r.res = "ok" /\ r2.pc = "abort_off" /\ (r.scope # {} => r2.scope # {})
  \/ r.pc = "publish" /\ r2.pc = "revoke_off" /\ (r.scope # {} => r2.scope # {})
  \/ r.pc = "target_off" /\ r2.pc = "authority_off" /\ r.seen # {}
  \/ r.pc \in {"preflight", "commit"} /\ r2.pc = "target_off" /\ r.seen = {}
  \/ r.pc = "stop_reconcile" /\ r2.pc = "stop_publish"

\* Whoever will name the state: an OFF that is not overtaken itself.
Settler(r) ==
  \/ r.kind = "emergency" /\ r.pc \in {"lock", "emergency"}
  \/ r.kind = "interlock" /\ r.pc \in {"lock", "interlock"}
  \/ r.kind = "stop" /\ r.pc \in {"lock", "stop"} /\ r.seen = {}

Plain(p) ==
  /\ ~Faulted /\ UNCHANGED <<state, active>> /\ Still /\ Alone(p)
  /\ \/ Leaves(p) /\ op[p].pc \notin {"start", "abort_off"} /\ op[p].kind # "emergency" /\ ~Settler(op[p])
     \/ Stays(p) /\ Proceeds(op[p], op'[p]) /\ (op'[p].pc = "revoke_off" => state = "running")

\* It begins a start.
Starts(p) ==
  /\ op[p].kind = "run" /\ op[p].seen = {} /\ Stays(p) /\ op'[p].pc = "start" /\ op'[p].scope # {} /\ Alone(p)
  /\ UNCHANGED <<active, out>> /\ state' = IF state = "running" THEN state ELSE "run_permitted"

\* Its start is acknowledged and published.
Publishes(p) ==
  /\ ~Faulted /\ op[p].pc = "start" /\ op[p].res = "ok" /\ op[p].seen = {}
  /\ Stays(p) /\ op'[p].pc = "publish" /\ op'[p].scope = op[p].scope /\ Alone(p) /\ Still
  /\ state' = "running" /\ active' # {}

\* It leaves, with the state settled by what is owned.
Settles(p) ==
  /\ ~Faulted /\ op[p].res = "ok" /\ Leaves(p) /\ Alone(p) /\ Still /\ active' \subseteq active
  /\ IF active' = {} THEN state' \in {"safe_off", "manual_recovery"}
     ELSE \/ op[p].pc \in {"abort_off", "revoke_off"} /\ state' = "running"
          \/ op[p].pc = "emergency" /\ ~EndsAll(op[p]) /\ state' = state

\* A stop goes from channel to channel; an overtaken one leaves the state behind.
Walks(p) ==
  /\ ~Faulted /\ op[p].kind = "stop" /\ op[p].pc = "stop" /\ op[p].res = "ok"
  /\ Stays(p) /\ Alone(p) /\ Still /\ active' \subseteq active
  /\ \/ op'[p].pc = "stop" /\ state' = state /\ (op'[p].cut => op[p].cut \/ op[p].seen # {})
     \/ /\ op'[p].pc = "stop_reconcile"
        /\ IF op[p].cut \/ op[p].seen # {} THEN state' = state
           ELSE state' = IF active' # {} THEN "running" ELSE "safe_off"

\* So does a RUN that was overtaken before its start.
Yields(p) ==
  /\ ~Faulted /\ op[p].pc = "authority_off" /\ Leaves(p) /\ Alone(p) /\ Still
  /\ active' = {} /\ state' = state

\* A RUN consumes the latch, or the operator acknowledges it.
Consumes(p) ==
  /\ Faulted /\ op[p].kind = "run" /\ state' = "safe_off" /\ UNCHANGED active /\ Alone(p) /\ Still
  /\ op[p].pc \in {"preflight", "commit", "probe"} /\ (op[p].pc # "probe" => op[p].seen = {})
  /\ Leaves(p) \/ (Stays(p) /\ op[p].pc # "probe" /\ op'[p].pc = "target_off")

Acknowledges(p) ==
  /\ Faulted /\ cooled /\ op[p].kind = "acknowledge" /\ state' = "manual_recovery" /\ UNCHANGED active
  /\ Leaves(p) /\ Alone(p) /\ Still

HolderStep(p) ==
  /\ lock = p /\ op[p].via = "none" /\ UNCHANGED queue
  /\ \/ Latches(p) \/ TakesOver(p) \/ StaysFaulted(p) \/ Plain(p) \/ Starts(p) \/ Publishes(p)
     \/ Settles(p) \/ Walks(p) \/ Yields(p) \/ Consumes(p) \/ Acknowledges(p)

\* An operation that comes to await an OFF.
GoesTo(f, p, pc, scope) ==
  /\ \A q \in Ops \ {p} : op'[q] = f[q]
  /\ op'[p].pc = pc /\ op'[p].scope = scope /\ op'[p].res = "none"
  /\ op'[p].kind = f[p].kind /\ op'[p].seen = f[p].seen /\ op'[p].cut = f[p].cut

LEMMA AwaitOffGoes ==
  ASSUME NEW f, Typed(f), NEW p \in Ops, NEW pc \in DriverAwaits, NEW scope \in SUBSET Channels, AwaitOff(p, f, pc, scope)
  PROVE  GoesTo(f, p, pc, scope) /\ op'[p].via = p /\ BeginOffCall(p, scope)
<1>1. op' = Awaiting(f, p, p, pc, scope) /\ BeginOffCall(p, scope)
  BY DEF AwaitOff, Awaiting
<1>2. PICK r \in OpRecords : AwaitsAs(f, p, p, pc, scope, r)
  BY AwaitRecord
<1>3. /\ op' = [f EXCEPT ![p] = r] /\ r.pc = pc /\ r.via = p /\ r.res = "none" /\ r.scope = scope
      /\ r.kind = f[p].kind /\ r.seen = f[p].seen /\ r.cut = f[p].cut
  BY <1>1, <1>2 DEF AwaitsAs
<1>4. op'[p] = r /\ \A q \in Ops \ {p} : op'[q] = f[q]
  BY <1>3 DEF Typed
<1> QED BY <1>1, <1>3, <1>4 DEF GoesTo

\* It begins the call, or joins the retained one.
CallsOff(p, scope) ==
  \/ op'[p].via = p /\ BeginOffCall(p, scope)
  \/ op'[p].via = retained.task /\ retained.task # "none" /\ UNCHANGED <<out, call>>

LEMMA GlobalOffGoes ==
  ASSUME NEW f, Typed(f), NEW p \in Ops, NEW pc \in DriverAwaits, NEW latch \in BOOLEAN, retained \in Tasks,
         AwaitGlobalOff(p, f, pc, latch)
  PROVE  GoesTo(f, p, pc, Channels) /\ CallsOff(p, Channels)
<1>0. Channels \in SUBSET Channels
  OBVIOUS
<1>1. CASE retained.task # "none" /\ (IF latch THEN retained.latch ELSE retained.now)
  <2>1. op' = Awaiting(f, p, retained.task, pc, Channels) /\ retained.task \in Ops /\ UNCHANGED <<out, call>>
    BY <1>1 DEF AwaitGlobalOff, Awaiting, Tasks, drv
  <2>2. PICK r \in OpRecords : AwaitsAs(f, p, retained.task, pc, Channels, r)
    BY <1>0, <2>1, AwaitRecord
  <2>3. /\ op' = [f EXCEPT ![p] = r] /\ r.pc = pc /\ r.via = retained.task /\ r.res = "none" /\ r.scope = Channels
        /\ r.kind = f[p].kind /\ r.seen = f[p].seen /\ r.cut = f[p].cut
    BY <2>1, <2>2 DEF AwaitsAs
  <2>4. op'[p] = r /\ \A q \in Ops \ {p} : op'[q] = f[q]
    BY <2>3 DEF Typed
  <2> QED BY <1>1, <2>1, <2>3, <2>4 DEF GoesTo, CallsOff
<1>2. CASE ~(retained.task # "none" /\ (IF latch THEN retained.latch ELSE retained.now))
  <2>1. AwaitOff(p, f, pc, Channels)
    BY <1>2 DEF AwaitGlobalOff
  <2> QED BY <1>0, <2>1, AwaitOffGoes DEF CallsOff
<1> QED BY <1>1, <1>2

LEMMA EnsureOffGoes ==
  ASSUME NEW f, Typed(f), NEW p \in Ops, NEW pc \in DriverAwaits, NEW scope \in SUBSET Channels, retained \in Tasks,
         EnsureOff(p, f, pc, scope)
  PROVE  GoesTo(f, p, pc, scope) /\ CallsOff(p, scope)
<1>1. CASE scope = Channels
  <2>1. AwaitGlobalOff(p, f, pc, FALSE) /\ FALSE \in BOOLEAN
    BY <1>1 DEF EnsureOff
  <2> QED BY <1>1, <2>1, GlobalOffGoes
<1>2. CASE scope # Channels
  BY <1>2, AwaitOffGoes DEF EnsureOff, CallsOff
<1> QED BY <1>1, <1>2

LEMMA ReturnGoes ==
  ASSUME NEW f, Typed(f), NEW p \in Ops, NEW verdict \in Rest, Return(p, f, verdict), lock = p
  PROVE  /\ \A q \in Ops \ {p} : op'[q] = f[q]
         /\ op'[p].pc = verdict /\ lock' = "none" /\ queue' = queue /\ Leaves(p)
BY DEF Return, Typed, Resting, Leaves

\* Latching goes to the settlement, past everybody it overtakes.
LEMMA LatchGoes ==
  ASSUME NEW f, Typed(f), NEW p \in Ops, \A q \in Ops \ {p} : f[q] = op[q], f[p].kind = op[p].kind, f[p].seen = op[p].seen,
         NEW pc \in DriverAwaits, NEW s, Latch(p, f, s, pc)
  PROVE  /\ \A q \in Ops \ {p} : op'[q] = Mark(op, "full")[q]
         /\ op'[p].pc = pc /\ op'[p].kind = op[p].kind /\ op'[p].res = "none"
         /\ op'[p].kind \in {"run", "stop"} => op[p].seen \cup {"full"} \subseteq op'[p].seen
         /\ state' = "fault_latched"
<1> DEFINE g == Mark(f, "full")
<1>1. AwaitOff(p, g, pc, Channels) /\ Typed(g) /\ Channels \in SUBSET Channels /\ state' = "fault_latched"
  BY MarkTyped DEF Latch
<1>2. g[p].kind = f[p].kind /\ f[p].seen \subseteq g[p].seen /\ (g[p].kind \in {"run", "stop"} => "full" \in g[p].seen)
  BY MarkFields
<1>3. \A q \in Ops \ {p} : g[q] = Mark(op, "full")[q]
  BY DEF Mark
<1> HIDE DEF g
<1>4. GoesTo(g, p, pc, Channels)
  BY <1>1, AwaitOffGoes
<1> QED BY <1>1, <1>2, <1>3, <1>4 DEF GoesTo

\* What the holder does with the driver switches nothing on, unless it begins a
\* start.
LEMMA HoldersAreStill ==
  ASSUME TypesOK, Safe, NEW p \in Ops, lock = p, op[p].via = "none", Calming
  PROVE  Still
<1>1. Starting = {}
  BY NothingStarting
<1> QED BY <1>1 DEF Calming, Still

\* Ending on a fault, and reconciling with the driver.
LEMMA FaultOutcome ==
  ASSUME TypesOK, NEW p \in Ops, lock = p, Still, op[p].via = "none", active' \subseteq active,
         \/ \E s : FaultAndReturn(p, op, s)
         \/ Reconcile(p, op)
  PROVE  UNCHANGED queue /\ (Latches(p) \/ StaysFaulted(p))
<1>0. Typed(op) /\ retained \in Tasks /\ {"settle", "settle_then_proof"} \subseteq DriverAwaits /\ "idle" \in Rest
  BY DEF TypesOK, Typed, DriverAwaits, Rest
<1>1. ASSUME NEW s, NEW pc \in {"settle", "settle_then_proof"}, Latch(p, op, s, pc), UNCHANGED locks, ~Faulted
      PROVE  UNCHANGED queue /\ Latches(p)
  BY <1>0, <1>1, LatchGoes DEF Latches, Settling, locks
<1>2. ASSUME NEW s, FaultAndReturn(p, op, s) PROVE UNCHANGED queue /\ (Latches(p) \/ StaysFaulted(p))
  <2>1. CASE Faulted
    BY <1>0, <1>2, <2>1, ReturnGoes DEF FaultAndReturn, StaysFaulted, Alone, Faulted
  <2>2. CASE ~Faulted
    BY <1>1, <1>2, <2>2 DEF FaultAndReturn
  <2> QED BY <2>1, <2>2
<1>3. ASSUME Reconcile(p, op) PROVE UNCHANGED queue /\ (Latches(p) \/ StaysFaulted(p))
  <2>1. CASE Faulted
    <3>1. AwaitGlobalOff(p, op, "settle_then_proof", TRUE) /\ UNCHANGED <<state, locks>> /\ TRUE \in BOOLEAN
      BY <1>3, <2>1 DEF Reconcile
    <3>2. GoesTo(op, p, "settle_then_proof", Channels)
      BY <1>0, <3>1, GlobalOffGoes
    <3> QED BY <2>1, <3>1, <3>2 DEF GoesTo, StaysFaulted, Alone, Stays, Faulted, locks
  <2>2. CASE ~Faulted
    BY <1>1, <1>3, <2>2 DEF Reconcile
  <2> QED BY <2>1, <2>2
<1> QED BY <1>2, <1>3

\* Whoever resumes, but for a fault that settles, holds the lock.
LEMMA Resumes ==
  ASSUME TypesOK, Safe, NEW p \in Ops, op[p].pc \in DriverAwaits \cup LockWaits, op[p].res # "none",
         op[p].pc # "settle"
  PROVE  /\ lock = p /\ op[p].via = "none" /\ Placed(p, op[p]) /\ ~Waiting(op[p])
         /\ Typed(op) /\ op[p] \in OpRecords /\ op[p].scope \in SUBSET Channels /\ retained \in Tasks
         /\ StepCalm => Still
<1>1. op[p].via = "none" /\ Placed(p, op[p]) /\ Typed(op) /\ op[p] \in OpRecords
  BY Continues
<1>2. op[p].kind # "fault"
  BY <1>1 DEF Placed, Fits
<1>3. lock = p /\ ~Waiting(op[p])
  BY <1>2, Answered
<1>4. StepCalm => Still
  BY <1>1, <1>3, HoldersAreStill DEF StepCalm
<1> QED BY <1>1, <1>3, <1>4, OpFields DEF TypesOK

LEMMA EmergencyOutcome ==
  ASSUME TypesOK, ContractInv, Safe, NEW p \in Ops, EmergencyLocked(p) \/ EmergencySettled(p)
  PROVE  HolderStep(p)
<1>0. op[p].pc \in {"lock", "emergency"} /\ op[p].res # "none"
  BY DEF EmergencyLocked, EmergencySettled, Resumed
<1>1. /\ lock = p /\ op[p].via = "none" /\ Typed(op) /\ op[p].scope \in SUBSET Channels /\ retained \in Tasks /\ Still
  BY <1>0, Resumes, EmergencySound DEF DriverAwaits, LockWaits
<1>2. "emergency" \in DriverAwaits /\ {"idle", "ok"} \subseteq Rest /\ (IF p \in Runs THEN "idle" ELSE "ok") \in Rest
  BY DEF DriverAwaits, Rest
<1>3. ASSUME (\E s : FaultAndReturn(p, op, s)) \/ Reconcile(p, op), active' \subseteq active
      PROVE  HolderStep(p)
  BY <1>1, <1>3, FaultOutcome DEF HolderStep
<1>4. CASE EmergencyLocked(p)
  <2>1. CASE Reconcile(p, op)
    BY <1>3, <1>4, <2>1 DEF EmergencyLocked
  <2>2. CASE ~Reconcile(p, op)
    <3>1. EnsureOff(p, op, "emergency", op[p].scope) /\ UNCHANGED <<state, locks, active>> /\ op[p].pc = "lock" /\ op[p].kind = "emergency"
      BY <1>4, <2>2 DEF EmergencyLocked, Resumed
    <3>2. GoesTo(op, p, "emergency", op[p].scope)
      BY <1>1, <1>2, <3>1, EnsureOffGoes
    <3>3. CASE Faulted
      BY <1>1, <3>1, <3>2, <3>3 DEF HolderStep, StaysFaulted, Stays, Alone, GoesTo, locks, Faulted
    <3>4. CASE ~Faulted
      BY <1>1, <3>1, <3>2, <3>4 DEF HolderStep, Plain, Stays, Proceeds, Alone, GoesTo, locks
    <3> QED BY <3>3, <3>4
  <2> QED BY <2>1, <2>2
<1>5. CASE EmergencySettled(p)
  <2>1. CASE ~Succeeded(p) \/ Reconcile(p, op)
    <3>1. active' \subseteq active
      BY <1>5 DEF EmergencySettled
    <3> QED BY <1>3, <1>5, <2>1, <3>1 DEF EmergencySettled
  <2>2. CASE Succeeded(p) /\ ~Reconcile(p, op)
    <3>1. /\ active' = active \ op[p].scope /\ state' = (IF Faulted \/ active' # {} THEN state ELSE "safe_off")
          /\ Return(p, op, IF p \in Runs THEN "idle" ELSE "ok") /\ op[p].pc = "emergency" /\ op[p].res = "ok"
      BY <1>5, <2>2 DEF EmergencySettled, Resumed, Succeeded
    <3>2. /\ \A q \in Ops \ {p} : op'[q] = op[q]
          /\ lock' = "none" /\ queue' = queue /\ Leaves(p)
      BY <1>1, <1>2, <3>1, ReturnGoes
    <3>3. CASE Faulted
      BY <1>1, <3>1, <3>2, <3>3 DEF HolderStep, StaysFaulted, Alone, Faulted
    <3>4. CASE ~Faulted
      <4>1. active' # {} => ~EndsAll(op[p])
        BY <3>1 DEF EndsAll, TypesOK
      <4> QED BY <1>1, <3>1, <3>2, <3>4, <4>1 DEF HolderStep, Settles, Alone
    <3> QED BY <3>3, <3>4
  <2> QED BY <2>1, <2>2
<1> QED BY <1>4, <1>5

LEMMA StopNextGoes ==
  ASSUME TypesOK, NEW f, Typed(f), NEW p \in Ops, StopNext(p, f)
  PROVE  /\ \A q \in Ops \ {p} : op'[q] = f[q]
         /\ op'[p].pc = "stop" /\ op'[p].scope = f[p].scope
         /\ op'[p].kind = f[p].kind /\ op'[p].seen = f[p].seen /\ op'[p].cut = f[p].cut
         /\ op'[p].res = "none" /\ call'[p].chans # {}
<1>0. PICK c \in f[p].todo : \E r \in OpRecords : StopsNext(f, p, c, r)
  BY StopNextRecord
<1>1. PICK r \in OpRecords : StopsNext(f, p, c, r)
  BY <1>0
<1>2. call'[p].chans = {c}
  BY <1>1, OffCallOfItsOwn DEF StopsNext, TypesOK
<1> QED BY <1>1, <1>2 DEF StopsNext, Typed

LEMMA StopOutcome ==
  ASSUME TypesOK, ContractInv, Safe, Claims, NEW p \in Ops,
         StopLocked(p) \/ FaultStopSettled(p) \/ StopReconcile(p) \/ StopPublished(p)
  PROVE  HolderStep(p)
<1>2. "fault_stop" \in DriverAwaits /\ {"idle", "ok"} \subseteq Rest
      /\ (IF op[p].cut \/ Faulted \/ op[p].seen # {} THEN "idle" ELSE "ok") \in Rest
  BY DEF DriverAwaits, Rest
<1>3. CASE StopPublished(p)
  <2>1. op[p].pc = "stop_publish" /\ Placed(p, op[p]) /\ (lock = p <=> Holding(op[p])) /\ op[p].via \in Ops \cup {"none"}
        /\ Called(p, op[p], call) /\ Typed(op)
    BY <1>3, OpFields DEF StopPublished, Safe, Control, OpRecords
  <2>2. op[p].kind = "stop" /\ op[p].via = "none" /\ lock = p
    BY <2>1 DEF Placed, Fits, Rest, RunPoints, Holding, Called, DriverAwaits
  <2>3. StepCalm /\ Still
    BY <1>3, <2>2, RunWaitSound, HoldersAreStill DEF StepCalm
  <2>4. Return(p, op, IF op[p].cut \/ Faulted \/ op[p].seen # {} THEN "idle" ELSE "ok") /\ UNCHANGED <<state, active>>
    BY <1>3 DEF StopPublished, mgr
  <2>5. (\A q \in Ops \ {p} : op'[q] = op[q]) /\ queue' = queue /\ Leaves(p)
    BY <1>2, <2>1, <2>2, <2>4, ReturnGoes
  <2>6. CASE Faulted
    BY <2>2, <2>3, <2>4, <2>5, <2>6 DEF HolderStep, StaysFaulted, Alone, Faulted
  <2>7. CASE ~Faulted
    BY <2>1, <2>2, <2>3, <2>4, <2>5, <2>7 DEF HolderStep, Plain, Settler, Alone
  <2> QED BY <2>6, <2>7
<1>4. CASE StopLocked(p) \/ FaultStopSettled(p) \/ StopReconcile(p)
  <2>0. op[p].pc \in {"lock", "fault_stop", "stop_reconcile"} /\ op[p].res # "none"
    BY <1>4 DEF StopLocked, FaultStopSettled, StopReconcile, Resumed
  <2>1. /\ lock = p /\ op[p].via = "none" /\ Placed(p, op[p]) /\ Typed(op) /\ op[p] \in OpRecords
        /\ op[p].scope \in SUBSET Channels /\ retained \in Tasks /\ Still
    BY <1>4, <2>0, Resumes, StopSound DEF DriverAwaits, LockWaits
  <2>2. CASE Reconcile(p, op)
    <3>1. active' \subseteq active
      BY <1>4 DEF StopLocked, FaultStopSettled, StopReconcile
    <3> QED BY <2>1, <2>2, <3>1, FaultOutcome DEF HolderStep
  <2>3. CASE StopLocked(p) /\ ~Reconcile(p, op)
    <3>1. UNCHANGED <<state, locks, active>> /\ op[p].pc = "lock" /\ op[p].kind = "stop"
      BY <2>3 DEF StopLocked, Resumed
    <3>2. CASE Faulted
      <4>1. EnsureOff(p, op, "fault_stop", op[p].scope)
        BY <2>3, <3>2 DEF StopLocked
      <4>2. GoesTo(op, p, "fault_stop", op[p].scope)
        BY <1>2, <2>1, <4>1, EnsureOffGoes
      <4> QED BY <2>1, <3>1, <3>2, <4>2 DEF HolderStep, StaysFaulted, Stays, Alone, GoesTo, locks, Faulted
    <3>3. CASE ~Faulted
      <4>1. StopNext(p, op)
        BY <2>3, <3>3 DEF StopLocked
      <4>2. ~op[p].cut
        BY <3>1 DEF Claims, Fresh
      <4> QED BY <2>1, <3>1, <3>3, <4>1, <4>2, StopNextGoes DEF HolderStep, Plain, Stays, Proceeds, Alone, locks
    <3> QED BY <3>2, <3>3
  <2>4. CASE FaultStopSettled(p)
    <3>1. Return(p, op, "idle") /\ UNCHANGED <<state, active>> /\ op[p].pc = "fault_stop"
      BY <2>4 DEF FaultStopSettled, Resumed
    <3>2. (\A q \in Ops \ {p} : op'[q] = op[q]) /\ queue' = queue /\ Leaves(p)
      BY <1>2, <2>1, <3>1, ReturnGoes
    <3>3. op[p].kind = "stop"
      BY <2>1, <3>1 DEF Placed, Fits, Rest, RunPoints
    <3>4. CASE Faulted
      BY <2>1, <3>1, <3>2, <3>4 DEF HolderStep, StaysFaulted, Alone, Faulted
    <3>5. CASE ~Faulted
      BY <2>1, <3>1, <3>2, <3>3, <3>5 DEF HolderStep, Plain, Settler, Alone
    <3> QED BY <3>4, <3>5
  <2>5. CASE StopReconcile(p) /\ ~Reconcile(p, op)
    <3>1. UNCHANGED <<state, locks, active>> /\ op[p].pc = "stop_reconcile"
          /\ op' = [op EXCEPT ![p].pc = "stop_publish", ![p].res = "none"]
      BY <2>5 DEF StopReconcile, Resumed
    <3>2. /\ \A q \in Ops \ {p} : op'[q] = op[q]
          /\ op'[p].pc = "stop_publish" /\ op'[p].kind = op[p].kind /\ op'[p].seen = op[p].seen /\ op'[p].res = "none"
      BY <2>1, <3>1 DEF Typed, OpRecords
    <3>3. CASE Faulted
      BY <2>1, <3>1, <3>2, <3>3 DEF HolderStep, StaysFaulted, Stays, Alone, locks, Faulted
    <3>4. CASE ~Faulted
      BY <2>1, <3>1, <3>2, <3>4 DEF HolderStep, Plain, Stays, Proceeds, Alone, locks
    <3> QED BY <3>3, <3>4
  <2> QED BY <1>4, <2>2, <2>3, <2>4, <2>5
<1> QED BY <1>3, <1>4

LEMMA StopSettledOutcome ==
  ASSUME TypesOK, ContractInv, Safe, NEW p \in Ops, StopSettled(p)
  PROVE  HolderStep(p)
<1> DEFINE cut == op[p].cut \/ ~Succeeded(p) \/ Faulted \/ op[p].seen # {}
           f == [op EXCEPT ![p].cut = cut, ![p].pc = "stop_reconcile"]
<1>0. op[p].pc = "stop" /\ op[p].res # "none"
  BY DEF StopSettled, Resumed
<1>1. /\ lock = p /\ op[p].via = "none" /\ Placed(p, op[p]) /\ Typed(op) /\ op[p] \in OpRecords /\ Still
  BY <1>0, Resumes, StopSettledSound DEF DriverAwaits, LockWaits
<1>2. op[p].kind = "stop" /\ "settle_then_stop" \in DriverAwaits
  BY <1>0, <1>1 DEF Placed, Fits, Rest, RunPoints, DriverAwaits
<1>3. cut \in BOOLEAN
  <2>1. op[p].cut \in BOOLEAN
    BY <1>1 DEF OpRecords
  <2> QED BY <2>1, Zenon
<1>4. /\ ~Succeeded(p) =>
           IF Faulted THEN op' = f /\ UNCHANGED <<state, active, locks>>
           ELSE Latch(p, f, "safety_manager", "settle_then_stop") /\ UNCHANGED <<active, locks>>
      /\ Succeeded(p) =>
           /\ active' \subseteq active /\ UNCHANGED locks
           /\ IF op[p].todo # {} THEN StopNext(p, f) /\ UNCHANGED state
              ELSE op' = f /\ state' = IF cut THEN state ELSE IF active' # {} THEN "running" ELSE "safe_off"
  BY DEF StopSettled
<1>5. op[p].cut \/ Faulted \/ op[p].seen # {} => cut
  OBVIOUS
<1>6. Succeeded(p) /\ ~Faulted /\ cut => op[p].cut \/ op[p].seen # {}
  OBVIOUS
<1> HIDE DEF cut
<1>7. /\ Typed(f) /\ \A q \in Ops \ {p} : f[q] = op[q]
      /\ f[p].kind = "stop" /\ f[p].seen = op[p].seen /\ f[p].cut = cut /\ f[p].pc = "stop_reconcile"
  BY <1>1, <1>2, <1>3, PointsHave DEF Typed, OpRecords, DriverAwaits
<1> HIDE DEF f
<1>8. CASE Faulted
  <2>1. CASE op' = f /\ UNCHANGED locks /\ state' = state /\ active' \subseteq active
    BY <1>1, <1>2, <1>7, <1>8, <2>1 DEF HolderStep, StaysFaulted, Stays, Alone, locks, Faulted
  <2>2. CASE StopNext(p, f) /\ UNCHANGED locks /\ state' = state /\ active' \subseteq active
    BY <1>0, <1>1, <1>2, <1>7, <1>8, <2>2, StopNextGoes DEF HolderStep, StaysFaulted, Stays, Alone, locks, Faulted
  <2> QED BY <1>4, <1>5, <1>8, <2>1, <2>2
<1>9. CASE ~Faulted /\ ~Succeeded(p)
  <2>1. Latch(p, f, "safety_manager", "settle_then_stop") /\ UNCHANGED locks
    BY <1>4, <1>9
  <2> QED BY <1>1, <1>2, <1>7, <1>9, <2>1, LatchGoes DEF HolderStep, Latches, Settling, locks
<1>10. CASE ~Faulted /\ Succeeded(p)
  <2>0. op[p].res = "ok" /\ active' \subseteq active /\ UNCHANGED locks
    BY <1>4, <1>10 DEF Succeeded
  <2>1. CASE StopNext(p, f) /\ UNCHANGED state
    BY <1>0, <1>1, <1>2, <1>6, <1>7, <1>10, <2>0, <2>1, StopNextGoes DEF HolderStep, Walks, Stays, Alone, locks
  <2>2. CASE op' = f /\ state' = IF cut THEN state ELSE IF active' # {} THEN "running" ELSE "safe_off"
    <3>1. cut <=> op[p].cut \/ op[p].seen # {}
      BY <1>5, <1>6, <1>10
    <3> QED BY <1>0, <1>1, <1>2, <1>7, <1>10, <2>0, <2>2, <3>1 DEF HolderStep, Walks, Stays, Alone, locks
  <2> QED BY <1>4, <1>10, <2>1, <2>2
<1> QED BY <1>8, <1>9, <1>10

LEMMA InterlockOutcome ==
  ASSUME TypesOK, ContractInv, Safe, NEW p \in Ops,
         InterlockLocked(p) \/ InterlockSettled(p) \/ AcknowledgeLocked(p)
  PROVE  HolderStep(p)
<1>0. op[p].pc \in {"lock", "interlock"} /\ op[p].res # "none"
  BY DEF InterlockLocked, InterlockSettled, AcknowledgeLocked, Resumed
<1>1. /\ lock = p /\ op[p].via = "none" /\ Placed(p, op[p]) /\ Typed(op) /\ Still
  BY <1>0, Resumes, InterlockSound DEF DriverAwaits, LockWaits
<1>2. "interlock" \in DriverAwaits /\ {"idle", "ok"} \subseteq Rest /\ Channels \in SUBSET Channels
  BY DEF DriverAwaits, Rest
<1>3. CASE InterlockLocked(p)
  <2>1. AwaitOff(p, op, "interlock", Channels) /\ UNCHANGED <<state, active, locks>> /\ op[p].kind = "interlock" /\ op[p].pc = "lock"
    BY <1>3 DEF InterlockLocked, Resumed, mgr
  <2>2. GoesTo(op, p, "interlock", Channels)
    BY <1>1, <1>2, <2>1, AwaitOffGoes
  <2>3. CASE Faulted
    BY <1>1, <2>1, <2>2, <2>3 DEF HolderStep, StaysFaulted, Stays, Alone, GoesTo, locks, Faulted
  <2>4. CASE ~Faulted
    BY <1>1, <2>1, <2>2, <2>4 DEF HolderStep, Plain, Stays, Proceeds, Alone, GoesTo, locks
  <2> QED BY <2>3, <2>4
<1>4. CASE InterlockSettled(p)
  <2>1. CASE ~Succeeded(p)
    BY <1>1, <1>4, <2>1, FaultOutcome DEF InterlockSettled, HolderStep
  <2>2. CASE Succeeded(p)
    <3>1. /\ active' = {} /\ state' = (IF state \in {"fault_latched", "manual_recovery"} THEN state ELSE "safe_off")
          /\ Return(p, op, "ok") /\ op[p].res = "ok"
      BY <1>4, <2>2 DEF InterlockSettled, Succeeded
    <3>2. (\A q \in Ops \ {p} : op'[q] = op[q]) /\ queue' = queue /\ Leaves(p)
      BY <1>1, <1>2, <3>1, ReturnGoes
    <3>3. CASE Faulted
      BY <1>1, <3>1, <3>2, <3>3 DEF HolderStep, StaysFaulted, Alone, Faulted
    <3>4. CASE ~Faulted
      BY <1>1, <3>1, <3>2, <3>4 DEF HolderStep, Settles, Alone, Faulted
    <3> QED BY <3>3, <3>4
  <2> QED BY <2>1, <2>2
<1>5. CASE AcknowledgeLocked(p)
  <2>1. /\ op[p].pc = "lock" /\ op[p].kind = "acknowledge" /\ UNCHANGED active
        /\ \E verdict \in Rest : Return(p, op, verdict)
        /\ (Faulted /\ cooled /\ state' = "manual_recovery") \/ UNCHANGED state
    BY <1>2, <1>5 DEF AcknowledgeLocked, Resumed
  <2>2. (\A q \in Ops \ {p} : op'[q] = op[q]) /\ queue' = queue /\ Leaves(p)
    BY <1>1, <2>1, ReturnGoes
  <2>3. CASE Faulted /\ cooled /\ state' = "manual_recovery"
    BY <1>1, <2>1, <2>2, <2>3 DEF HolderStep, Acknowledges, Alone
  <2>4. CASE UNCHANGED state /\ Faulted
    BY <1>1, <2>1, <2>2, <2>4 DEF HolderStep, StaysFaulted, Alone, Faulted
  <2>5. CASE UNCHANGED state /\ ~Faulted
    BY <1>1, <2>1, <2>2, <2>5 DEF HolderStep, Plain, Settler, Alone
  <2> QED BY <2>1, <2>3, <2>4, <2>5
<1> QED BY <1>3, <1>4, <1>5

\* The holder settles a fault.
LEMMA SettlementOutcome ==
  ASSUME TypesOK, ContractInv, Safe, OwnFaults, NEW p \in Ops, lock = p, FaultSettled(p) \/ ProofSettled(p)
  PROVE  HolderStep(p)
<1>0. op[p].pc \in Settling /\ op[p].res # "none" /\ op[p].pc \in DriverAwaits
  BY DEF FaultSettled, ProofSettled, Resumed, Settling, DriverAwaits
<1>1. op[p].via = "none" /\ Typed(op) /\ op[p] \in OpRecords /\ retained \in Tasks
  BY <1>0, Continues DEF TypesOK
<1>2. Still /\ Faulted
  BY <1>0, <1>1, FaultSound, HoldersAreStill DEF StepCalm, OwnFaults
<1>3. "idle" \in Rest /\ "proof" \in DriverAwaits /\ FALSE \in BOOLEAN
  BY DEF Rest, DriverAwaits
<1>4. state' = state /\ active' \subseteq active
  BY DEF FaultSettled, ProofSettled
<1>5. ASSUME Return(p, op, "idle") PROVE HolderStep(p)
  <2>1. (\A q \in Ops \ {p} : op'[q] = op[q]) /\ queue' = queue /\ Leaves(p)
    BY <1>1, <1>3, <1>5, ReturnGoes
  <2> QED BY <1>1, <1>2, <1>4, <2>1 DEF HolderStep, StaysFaulted, Alone, Faulted
<1>6. ASSUME AwaitGlobalOff(p, op, "proof", FALSE), UNCHANGED locks PROVE HolderStep(p)
  <2>1. GoesTo(op, p, "proof", Channels)
    BY <1>1, <1>3, <1>6, GlobalOffGoes
  <2> QED BY <1>1, <1>2, <1>4, <1>6, <2>1 DEF HolderStep, StaysFaulted, Stays, Alone, GoesTo, locks, Faulted
<1>7. ASSUME op' = [op EXCEPT ![p].pc = "stop_reconcile", ![p].res = "ok"], UNCHANGED locks PROVE HolderStep(p)
  <2>1. /\ \A q \in Ops \ {p} : op'[q] = op[q]
        /\ op'[p].pc = "stop_reconcile" /\ op'[p].kind = op[p].kind /\ op'[p].seen = op[p].seen
    BY <1>1, <1>7 DEF Typed, OpRecords
  <2> QED BY <1>1, <1>2, <1>4, <1>7, <2>1 DEF HolderStep, StaysFaulted, Stays, Alone, locks, Faulted
<1>8. CASE ProofSettled(p)
  BY <1>5, <1>8 DEF ProofSettled
<1>9. CASE FaultSettled(p)
  <2>1. op[p].pc \in {"settle", "settle_then_proof", "settle_then_stop"}
    BY <1>9 DEF FaultSettled
  <2>2. \/ Return(p, op, "idle")
        \/ AwaitGlobalOff(p, op, "proof", FALSE) /\ UNCHANGED locks
        \/ op' = [op EXCEPT ![p].pc = "stop_reconcile", ![p].res = "ok"] /\ UNCHANGED locks
    BY <1>9, <2>1 DEF FaultSettled
  <2> QED BY <1>5, <1>6, <1>7, <2>2
<1> QED BY <1>8, <1>9

\* A start begins.
LEMMA StartOutcome ==
  ASSUME TypesOK, Safe, NEW p \in Ops, lock = p, op[p].via = "none", op[p].kind = "run", op[p].seen = {},
         \E c \in Channels : op[p].scope = {c}, NEW st, StartSource(p, st), UNCHANGED <<active, locks>>,
         st = state \/ (Faulted /\ st = "safe_off")
  PROVE  HolderStep(p)
<1>1. /\ state' = (IF st = "running" THEN st ELSE "run_permitted") /\ UNCHANGED out
      /\ op' = [op EXCEPT ![p].pc = "start", ![p].via = p, ![p].res = "none"]
  BY DEF StartSource, BeginStartCall
<1>2. /\ \A q \in Ops \ {p} : op'[q] = op[q]
      /\ op'[p].pc = "start" /\ op'[p].scope = op[p].scope /\ op'[p].kind = op[p].kind /\ op'[p].seen = op[p].seen
      /\ op'[p].res = "none"
  BY <1>1 DEF TypesOK, OpRecords
<1>3. state' = IF state = "running" THEN state ELSE "run_permitted"
  BY <1>1 DEF Faulted
<1> QED BY <1>1, <1>2, <1>3 DEF HolderStep, Starts, Stays, Alone, locks

LEMMA AdmitOutcome ==
  ASSUME TypesOK, ContractInv, Safe, NEW p \in Ops, lock = p, op[p].via = "none", op[p].kind = "run",
         op[p].pc \in {"preflight", "commit", "probe"}, op[p].pc = "probe" \/ op[p].seen = {},
         NEW st, Admit(p, st), UNCHANGED active,
         \/ ~Faulted /\ op[p].pc # "probe" /\ st = state
         \/ Faulted /\ st = "safe_off"
  PROVE  HolderStep(p)
<1>1. /\ Typed(op) /\ op[p] \in OpRecords /\ Placed(p, op[p]) /\ op[p].scope \in SUBSET Channels
  BY OpFields DEF Safe, Control
<1>2. op[p].pc = "probe" => op[p].phase = "preflight"
  BY <1>1 DEF Placed
<1>3. \E c \in Channels : op[p].scope = {c}
  BY <1>1 DEF Placed, Targeting
<1>4. {"idle", "ok"} \subseteq Rest /\ "target_off" \in DriverAwaits
  BY DEF Rest, DriverAwaits
<1>5. ASSUME Calming PROVE Still
  BY <1>5, HoldersAreStill
<1>6. ASSUME state' = st, Calming, Leaves(p), UNCHANGED queue, Alone(p) PROVE HolderStep(p)
  <2>1. CASE Faulted
    BY <1>5, <1>6, <2>1 DEF HolderStep, Consumes
  <2>2. CASE ~Faulted
    BY <1>5, <1>6, <2>2 DEF HolderStep, Plain, Settler
  <2> QED BY <2>1, <2>2
<1>7. CASE state' = st /\ Return(p, op, "idle") /\ UNCHANGED drv
  <2>1. Calming /\ Alone(p) /\ queue' = queue /\ Leaves(p)
    BY <1>1, <1>4, <1>7, ReturnGoes, ProofsLostCalms DEF Alone
  <2> QED BY <1>6, <1>7, <2>1
<1>8. CASE /\ state' = st /\ op' = [op EXCEPT ![p].pc = "warn", ![p].res = "none"]
           /\ lock' = "none" /\ UNCHANGED <<queue, drv>>
  <2>1. Alone(p) /\ op'[p].pc = "warn"
    BY <1>1, <1>8 DEF Typed, OpRecords, Alone
  <2>2. Calming
    BY <1>8, ProofsLostCalms
  <2> QED BY <1>6, <1>8, <2>1, <2>2 DEF Leaves
<1>9. CASE state' = st /\ op[p].phase = "commit" /\ AwaitOff(p, op, "target_off", Target(p)) /\ UNCHANGED locks
  <2>1. GoesTo(op, p, "target_off", op[p].scope) /\ Calming
    BY <1>1, <1>4, <1>9, AwaitOffGoes, AwaitOffSound DEF Target
  <2>2. op[p].pc # "probe" /\ op[p].seen = {}
    BY <1>2, <1>9
  <2>3. Stays(p) /\ Alone(p) /\ op'[p].pc = "target_off" /\ queue' = queue
    BY <1>9, <2>1 DEF Stays, Alone, GoesTo, locks
  <2>4. CASE Faulted
    BY <1>5, <1>9, <2>1, <2>2, <2>3, <2>4 DEF HolderStep, Consumes
  <2>5. CASE ~Faulted
    BY <1>5, <1>9, <2>1, <2>2, <2>3, <2>5 DEF HolderStep, Plain, Proceeds
  <2> QED BY <2>4, <2>5
<1>10. CASE op[p].phase = "commit" /\ StartSource(p, st) /\ UNCHANGED locks
  BY <1>2, <1>3, <1>10, StartOutcome
<1> QED BY <1>7, <1>8, <1>9, <1>10 DEF Admit

LEMMA AdmissionOutcome ==
  ASSUME TypesOK, ContractInv, Safe, NEW p \in Ops, RunAdmission(p) \/ ProbeReturns(p)
  PROVE  HolderStep(p)
<1>1. Typed(op) /\ op[p] \in OpRecords /\ Placed(p, op[p]) /\ Guarded(op[p], state, sources) /\ "idle" \in Rest
      /\ Called(p, op[p], call) /\ (lock = p <=> Holding(op[p]))
  BY OpFields DEF Safe, Control, Rest
<1>2. (op[p].pc \in {"preflight", "commit"} /\ op[p].res # "none") \/ op[p].pc = "probe"
  BY <1>1, PointsHave DEF RunAdmission, ProbeReturns, Resumed, OpRecords, Points, Rest, DriverAwaits, LockWaits
<1>3. lock = p /\ op[p].via = "none" /\ op[p].kind = "run"
  <2>1. op[p].kind = "run"
    BY <1>1, <1>2 DEF Placed, Fits, Rest
  <2>2. op[p].via = "none" /\ Holding(op[p])
    BY <1>1, <1>2, <2>1 DEF Called, Placed, Holding, LockWaits, OpRecords, DriverAwaits
  <2> QED BY <1>1, <2>1, <2>2
<1>4. ASSUME Return(p, op, "idle"), UNCHANGED <<state, active, drv>> PROVE HolderStep(p)
  <2>1. Calming /\ Alone(p) /\ queue' = queue /\ Leaves(p)
    BY <1>1, <1>3, <1>4, ReturnGoes, ProofsLostCalms DEF Alone
  <2>2. Still
    BY <1>3, <2>1, HoldersAreStill
  <2>3. CASE Faulted
    BY <1>3, <1>4, <2>1, <2>2, <2>3 DEF HolderStep, StaysFaulted, Faulted
  <2>4. CASE ~Faulted
    BY <1>2, <1>3, <1>4, <2>1, <2>2, <2>4 DEF HolderStep, Plain, Settler
  <2> QED BY <2>3, <2>4
<1>5. UNCHANGED active
  BY DEF RunAdmission, ProbeReturns
<1>6. CASE ProbeReturns(p)
  <2>1. op[p].pc = "probe" /\ Faulted
    BY <1>1, <1>6 DEF ProbeReturns, Guarded, Faulted
  <2>2. CASE Return(p, op, "idle") /\ UNCHANGED <<state, drv>>
    BY <1>4, <1>5, <2>2
  <2>3. CASE ConsumeLatch(p)
    BY <1>3, <1>5, <2>1, <2>3, AdmitOutcome DEF ConsumeLatch
  <2> QED BY <1>6, <2>2, <2>3 DEF ProbeReturns
<1>7. CASE RunAdmission(p)
  <2>0. op[p].pc \in {"preflight", "commit"}
    BY <1>1, <1>7, PointsHave DEF RunAdmission, Resumed, OpRecords, Points, Rest, DriverAwaits, LockWaits
  <2>1. CASE Return(p, op, "idle") /\ UNCHANGED <<state, drv>>
    BY <1>4, <1>5, <2>1
  <2>2. CASE op[p].seen = {} /\ Faulted /\ ConsumeLatch(p)
    BY <1>3, <1>5, <2>0, <2>2, AdmitOutcome DEF ConsumeLatch
  <2>3. CASE /\ op[p].seen = {} /\ Faulted /\ op' = [op EXCEPT ![p].pc = "probe", ![p].res = "none"]
             /\ UNCHANGED <<state, locks, drv>>
    <3>1. Alone(p) /\ op'[p].pc = "probe" /\ op'[p].kind = op[p].kind /\ op'[p].seen = op[p].seen /\ op'[p].res = "none"
      BY <1>1, <2>3 DEF Typed, OpRecords, Alone
    <3>2. Still
      BY <1>3, <2>3, HoldersAreStill, ProofsLostCalms
    <3> QED BY <1>3, <1>5, <2>3, <3>1, <3>2 DEF HolderStep, StaysFaulted, Stays, locks, Faulted
  <2>4. CASE op[p].seen = {} /\ ~Faulted /\ Admit(p, state)
    BY <1>3, <1>5, <2>0, <2>4, AdmitOutcome
  <2> QED BY <1>7, <2>1, <2>2, <2>3, <2>4 DEF RunAdmission
<1> QED BY <1>6, <1>7

\* The OFF proofs a RUN waits for.
LEMMA TargetOffOutcome ==
  ASSUME TypesOK, ContractInv, Safe, NEW p \in Ops, TargetOffSettled(p) \/ AuthorityOffSettled(p)
  PROVE  HolderStep(p)
<1>0. op[p].pc \in {"target_off", "authority_off"} /\ op[p].res # "none"
  BY DEF TargetOffSettled, AuthorityOffSettled, Resumed
<1>1. /\ lock = p /\ op[p].via = "none" /\ Placed(p, op[p]) /\ Typed(op) /\ op[p] \in OpRecords
      /\ op[p].scope \in SUBSET Channels /\ retained \in Tasks
  BY <1>0, Resumes DEF DriverAwaits, LockWaits
<1>2. /\ "authority_off" \in DriverAwaits /\ "idle" \in Rest /\ "safety_manager" \in Sources /\ Channels \in SUBSET Channels
      /\ op[p].kind = "run"
  BY <1>0, <1>1 DEF DriverAwaits, Rest, Sources, Origins, Placed, Fits
<1>3. ASSUME Calming PROVE Still
  BY <1>1, <1>3, HoldersAreStill
<1>4. ASSUME FaultAndReturn(p, op, "safety_manager"), UNCHANGED active PROVE HolderStep(p)
  <2>1. Still
    BY <1>1, <1>2, <1>3, <1>4, FaultAndReturnSound
  <2> QED BY <1>1, <1>4, <2>1, FaultOutcome DEF HolderStep
<1>5. ASSUME Return(p, op, "idle"), UNCHANGED drv
      PROVE  Still /\ Alone(p) /\ queue' = queue /\ Leaves(p)
  BY <1>1, <1>2, <1>3, <1>5, ReturnGoes, ProofsLostCalms DEF Alone
<1>6. CASE TargetOffSettled(p)
  <2>0. op[p].pc = "target_off" /\ UNCHANGED active
    BY <1>6 DEF TargetOffSettled, Resumed
  <2>1. CASE ~Succeeded(p)
    BY <1>4, <1>6, <2>0, <2>1 DEF TargetOffSettled
  <2>2. CASE Succeeded(p) /\ (Faulted \/ "full" \in op[p].seen)
    <3>1. EnsureOff(p, op, "authority_off", Channels) /\ UNCHANGED <<state, locks>>
      BY <1>6, <2>2 DEF TargetOffSettled
    <3>2. GoesTo(op, p, "authority_off", Channels) /\ Still
      BY <1>1, <1>2, <1>3, <3>1, EnsureOffGoes, EnsureOffSound
    <3>3. Stays(p) /\ Alone(p) /\ op'[p].pc = "authority_off" /\ queue' = queue
      BY <1>1, <3>1, <3>2 DEF Stays, Alone, GoesTo, locks
    <3>4. CASE Faulted
      BY <1>1, <2>0, <3>1, <3>2, <3>3, <3>4 DEF HolderStep, StaysFaulted, Faulted
    <3>5. CASE ~Faulted
      BY <1>1, <2>0, <2>2, <3>1, <3>2, <3>3, <3>5 DEF HolderStep, Plain, Proceeds
    <3> QED BY <3>4, <3>5
  <2>3. CASE Succeeded(p) /\ ~(Faulted \/ "full" \in op[p].seen) /\ op[p].seen # {}
    <3>1. Return(p, op, "idle") /\ UNCHANGED <<state, drv>>
      BY <1>6, <2>3 DEF TargetOffSettled
    <3> QED BY <1>1, <1>2, <1>5, <2>0, <2>3, <3>1 DEF HolderStep, Plain, Settler
  <2>4. CASE Succeeded(p) /\ ~(Faulted \/ "full" \in op[p].seen) /\ op[p].seen = {}
    <3>1. StartSource(p, state) /\ UNCHANGED locks
      BY <1>6, <2>4 DEF TargetOffSettled
    <3>2. \E c \in Channels : op[p].scope = {c}
      BY <1>1, <2>0 DEF Placed, Targeting
    <3> QED BY <1>1, <1>2, <2>0, <2>4, <3>1, <3>2, StartOutcome
  <2> QED BY <2>1, <2>2, <2>3, <2>4
<1>7. CASE AuthorityOffSettled(p)
  <2>1. CASE ~Succeeded(p)
    BY <1>4, <1>7, <2>1 DEF AuthorityOffSettled
  <2>2. CASE Succeeded(p)
    <3>1. active' = {} /\ Return(p, op, "idle") /\ UNCHANGED <<state, drv>> /\ op[p].pc = "authority_off"
      BY <1>7, <2>2 DEF AuthorityOffSettled, Resumed
    <3>2. CASE Faulted
      BY <1>1, <1>5, <3>1, <3>2 DEF HolderStep, StaysFaulted, Faulted
    <3>3. CASE ~Faulted
      BY <1>1, <1>5, <3>1, <3>3 DEF HolderStep, Yields
    <3> QED BY <3>2, <3>3
  <2> QED BY <2>1, <2>2
<1> QED BY <1>6, <1>7

\* A RUN whose caller vanished.
LEMMA TakeOverOutcome ==
  ASSUME TypesOK, ContractInv, Safe, NEW p \in Ops, StartCallerGone(p) \/ RunUnacknowledged(p)
  PROVE  HolderStep(p)
<1>1. Typed(op) /\ op[p] \in OpRecords /\ Placed(p, op[p]) /\ Called(p, op[p], call) /\ (lock = p <=> Holding(op[p]))
  BY OpFields DEF Safe, Control
<1>2. /\ (op[p].pc = "start" /\ op[p].res # "none") \/ op[p].pc = "publish"
      /\ BecomeEmergency(p)
  BY DEF StartCallerGone, RunUnacknowledged, Resumed
<1>3. op[p].kind = "run"
  BY <1>1, <1>2 DEF Placed, Fits, Rest
<1>4. lock = p /\ op[p].via = "none"
  BY <1>1, <1>2, <1>3 DEF Called, Placed, Holding, LockWaits, OpRecords, DriverAwaits
<1>5. Still
  BY <1>2, <1>4, BecomeEmergencySound, HoldersAreStill DEF StepCalm
<1>6. /\ op' = [Mark(op, "full") EXCEPT ![p] = [Resting("lock") EXCEPT !.kind = "emergency", !.scope = Channels, !.res = "ok"]]
      /\ UNCHANGED <<state, active, lock, queue>>
  BY <1>2 DEF BecomeEmergency, mgr, locks
<1>7. (\A q \in Ops \ {p} : op'[q] = Mark(op, "full")[q]) /\ EndsAll(op'[p]) /\ op'[p].pc = "lock"
  BY <1>6 DEF Mark, Resting, EndsAll
<1> QED BY <1>2, <1>3, <1>4, <1>5, <1>6, <1>7 DEF HolderStep, TakesOver

\* The start has answered.
LEMMA StartSettledOutcome ==
  ASSUME TypesOK, ContractInv, Safe, StartAims, NEW p \in Ops, StartSettled(p)
  PROVE  HolderStep(p)
<1>0. op[p].pc = "start" /\ op[p].res # "none"
  BY DEF StartSettled, Resumed
<1>1. /\ lock = p /\ op[p].via = "none" /\ Typed(op) /\ op[p] \in OpRecords
      /\ op[p].scope \in SUBSET Channels /\ retained \in Tasks /\ Still
  BY <1>0, Resumes, StartSettledSound DEF DriverAwaits, LockWaits
<1>2. /\ {"late_off", "abort_off"} \subseteq DriverAwaits /\ Channels \in SUBSET Channels /\ op[p].scope # {}
      /\ (IF "full" \in op[p].seen THEN Channels ELSE Target(p)) \in SUBSET Channels
  BY <1>0, <1>1 DEF DriverAwaits, StartAims, Target
<1>3. CASE ~Succeeded(p)
  <2>1. FaultAndReturn(p, op, "safety_manager") /\ UNCHANGED active
    BY <1>3 DEF StartSettled
  <2> QED BY <1>1, <2>1, FaultOutcome DEF HolderStep
<1>4. CASE Succeeded(p) /\ Faulted
  <2>1. EnsureOff(p, op, "late_off", Channels) /\ UNCHANGED <<state, active, locks>>
    BY <1>4 DEF StartSettled, mgr
  <2>2. GoesTo(op, p, "late_off", Channels)
    BY <1>1, <1>2, <2>1, EnsureOffGoes
  <2> QED BY <1>1, <1>4, <2>1, <2>2 DEF HolderStep, StaysFaulted, Stays, Alone, GoesTo, locks, Faulted
<1>5. CASE Succeeded(p) /\ ~Faulted /\ op[p].seen # {}
  <2>1. /\ EnsureOff(p, op, "abort_off", IF "full" \in op[p].seen THEN Channels ELSE Target(p))
        /\ UNCHANGED <<state, active, locks>>
    BY <1>5 DEF StartSettled, mgr
  <2>2. GoesTo(op, p, "abort_off", IF "full" \in op[p].seen THEN Channels ELSE Target(p))
    BY <1>1, <1>2, <2>1, EnsureOffGoes
  <2>3. (IF "full" \in op[p].seen THEN Channels ELSE Target(p)) # {} /\ op[p].res = "ok"
    BY <1>1, <1>2, <1>5 DEF Target, Succeeded
  <2> QED BY <1>0, <1>1, <1>5, <2>1, <2>2, <2>3 DEF HolderStep, Plain, Proceeds, Stays, Alone, GoesTo, locks
<1>6. CASE Succeeded(p) /\ ~Faulted /\ op[p].seen = {}
  <2>1. /\ active' = active \cup Target(p) /\ state' = "running" /\ UNCHANGED locks
        /\ op' = [op EXCEPT ![p].pc = "publish", ![p].res = "none"]
    BY <1>6 DEF StartSettled
  <2>2. Alone(p) /\ op'[p].pc = "publish" /\ op'[p].kind = op[p].kind /\ op'[p].seen = op[p].seen
        /\ op'[p].res = "none" /\ op'[p].scope = op[p].scope
    BY <1>1, <2>1 DEF Typed, OpRecords, Alone
  <2>3. active' # {} /\ op[p].res = "ok"
    BY <1>2, <1>6, <2>1 DEF Target, Succeeded
  <2> QED BY <1>0, <1>1, <1>6, <2>1, <2>2, <2>3 DEF HolderStep, Publishes, Stays, locks
<1> QED BY <1>3, <1>4, <1>5, <1>6

\* A start is undone, or published.
LEMMA UndoOutcome ==
  ASSUME TypesOK, ContractInv, Safe, NEW p \in Ops,
         LateOffSettled(p) \/ AbortOffSettled(p) \/ RevokeOffSettled(p) \/ RunPublished(p)
  PROVE  HolderStep(p)
<1>1. Typed(op) /\ op[p] \in OpRecords /\ Placed(p, op[p]) /\ Called(p, op[p], call) /\ (lock = p <=> Holding(op[p]))
      /\ op[p].scope \in SUBSET Channels /\ retained \in Tasks
  BY OpFields DEF Safe, Control, TypesOK
<1>2. (op[p].pc \in {"late_off", "abort_off", "revoke_off"} /\ op[p].res # "none") \/ op[p].pc = "publish"
  BY DEF LateOffSettled, AbortOffSettled, RevokeOffSettled, RunPublished, Resumed
<1>3. op[p].kind = "run"
  BY <1>1, <1>2 DEF Placed, Fits, Rest
<1>4. lock = p /\ op[p].via = "none"
  BY <1>1, <1>2, <1>3 DEF Called, Placed, Holding, LockWaits, OpRecords, DriverAwaits
<1>5. Still
  BY <1>4, UndoSound, HoldersAreStill DEF StepCalm
<1>6. {"revoke_off", "settle"} \subseteq DriverAwaits /\ {"idle", "ok"} \subseteq Rest
      /\ (IF Faulted \/ "full" \in op[p].seen THEN Channels ELSE Target(p)) \in SUBSET Channels
  BY <1>1 DEF DriverAwaits, Rest, Target
<1>7. ASSUME NEW verdict \in Rest, Return(p, op, verdict)
      PROVE  Alone(p) /\ queue' = queue /\ Leaves(p)
  BY <1>1, <1>4, <1>7, ReturnGoes DEF Alone
<1>8. ASSUME NEW s, Latch(p, op, s, "settle"), UNCHANGED locks, ~Faulted
      PROVE  HolderStep(p)
  BY <1>1, <1>4, <1>5, <1>6, <1>8, LatchGoes DEF HolderStep, Latches, Settling, locks
<1>9. CASE LateOffSettled(p)
  <2>1. Return(p, op, "idle") /\ UNCHANGED <<state, active>> /\ op[p].pc = "late_off"
    BY <1>9 DEF LateOffSettled, Resumed
  <2>2. CASE Faulted
    BY <1>4, <1>5, <1>6, <1>7, <2>1, <2>2 DEF HolderStep, StaysFaulted, Faulted
  <2>3. CASE ~Faulted
    BY <1>3, <1>4, <1>5, <1>6, <1>7, <2>1, <2>3 DEF HolderStep, Plain, Settler
  <2> QED BY <2>2, <2>3
<1>10. CASE AbortOffSettled(p)
  <2>1. CASE ~Succeeded(p)
    BY <1>4, <1>5, <1>10, <2>1, FaultOutcome DEF AbortOffSettled, HolderStep
  <2>2. CASE Succeeded(p)
    <3>1. /\ active' \subseteq active /\ state' = Settle(active') /\ Return(p, op, "idle")
          /\ op[p].pc = "abort_off" /\ op[p].res = "ok"
      BY <1>10, <2>2 DEF AbortOffSettled, Resumed, Succeeded
    <3>2. CASE Faulted
      BY <1>4, <1>5, <1>6, <1>7, <3>1, <3>2 DEF HolderStep, StaysFaulted, Settle, Faulted
    <3>3. CASE ~Faulted
      BY <1>4, <1>5, <1>6, <1>7, <3>1, <3>3 DEF HolderStep, Settles, Settle
    <3> QED BY <3>2, <3>3
  <2> QED BY <2>1, <2>2
<1>11. CASE RevokeOffSettled(p)
  <2>1. CASE ~Succeeded(p) /\ ~Faulted
    BY <1>8, <1>11, <2>1 DEF RevokeOffSettled
  <2>2. CASE Succeeded(p) \/ Faulted
    <3>1. /\ active' \subseteq active /\ state' = Settle(active') /\ Return(p, op, "idle") /\ op[p].pc = "revoke_off"
      BY <1>11, <2>2 DEF RevokeOffSettled, Resumed
    <3>2. CASE Faulted
      BY <1>4, <1>5, <1>6, <1>7, <3>1, <3>2 DEF HolderStep, StaysFaulted, Settle, Faulted
    <3>3. CASE ~Faulted
      BY <1>4, <1>5, <1>6, <1>7, <2>2, <3>1, <3>3 DEF HolderStep, Settles, Settle, Succeeded
    <3> QED BY <3>2, <3>3
  <2> QED BY <2>1, <2>2
<1>12. CASE RunPublished(p)
  <2>0. op[p].pc = "publish"
    BY <1>12 DEF RunPublished
  <2>1. CASE ~Faulted /\ Latch(p, op, PostPublication, "settle") /\ UNCHANGED locks
    BY <1>8, <2>1
  <2>2. CASE /\ Faulted \/ state = "running"
             /\ EnsureOff(p, op, "revoke_off", IF Faulted \/ "full" \in op[p].seen THEN Channels ELSE Target(p))
             /\ UNCHANGED <<mgr, locks>>
    <3>1. GoesTo(op, p, "revoke_off", IF Faulted \/ "full" \in op[p].seen THEN Channels ELSE Target(p))
      BY <1>1, <1>6, <2>2, EnsureOffGoes
    <3>2. Stays(p) /\ Alone(p) /\ op'[p].pc = "revoke_off" /\ UNCHANGED <<state, active, queue>>
          /\ (op[p].scope # {} => op'[p].scope # {})
      BY <1>1, <1>4, <2>2, <3>1 DEF Stays, Alone, GoesTo, locks, mgr, Target
    <3>3. CASE Faulted
      BY <1>4, <1>5, <2>0, <3>2, <3>3 DEF HolderStep, StaysFaulted, Faulted
    <3>4. CASE ~Faulted
      BY <1>4, <1>5, <2>0, <2>2, <3>2, <3>4 DEF HolderStep, Plain, Proceeds
    <3> QED BY <3>3, <3>4
  <2>3. CASE ~Faulted /\ Return(p, op, "ok") /\ UNCHANGED mgr
    BY <1>3, <1>4, <1>5, <1>6, <1>7, <2>0, <2>3 DEF HolderStep, Plain, Settler, mgr
  <2> QED BY <1>12, <2>1, <2>2, <2>3 DEF RunPublished
<1> QED BY <1>9, <1>10, <1>11, <1>12

(***************************************************************************)
(* What a step begins with the driver.                                     *)
(***************************************************************************)

DriverUse(p) ==
  \/ UNCHANGED call
  \/ \E C : BeginOffCall(p, C)
  \/ \E c \in Channels : BeginStartCall(p, c)

LEMMA OffUse ==
  ASSUME NEW p \in Ops, NEW f, NEW pc,
         \/ \E scope : AwaitOff(p, f, pc, scope) \/ EnsureOff(p, f, pc, scope)
         \/ \E latch : AwaitGlobalOff(p, f, pc, latch)
         \/ \E s : Latch(p, f, s, pc) \/ FaultAndReturn(p, f, s)
         \/ Reconcile(p, f)
         \/ StopNext(p, f)
  PROVE  DriverUse(p)
BY DEF AwaitOff, EnsureOff, AwaitGlobalOff, Latch, FaultAndReturn, Reconcile, StopNext, DriverUse, drv

LEMMA StepUse ==
  ASSUME TypesOK, NEW p \in Ops, Resume(p) \/ AwaitEnds(p)
  PROVE  DriverUse(p)
<1>0. ASSUME UNCHANGED drv PROVE DriverUse(p)
  BY <1>0 DEF DriverUse, drv
<1>1. CASE EmergencyLocked(p) \/ EmergencySettled(p)
  BY <1>0, <1>1, OffUse DEF EmergencyLocked, EmergencySettled
<1>2. CASE StopLocked(p) \/ FaultStopSettled(p) \/ StopReconcile(p) \/ StopPublished(p)
  BY <1>0, <1>2, OffUse DEF StopLocked, FaultStopSettled, StopReconcile, StopPublished
<1>3. CASE StopSettled(p)
  <2>1. \/ UNCHANGED drv
        \/ \E f, s : Latch(p, f, s, "settle_then_stop")
        \/ \E f : StopNext(p, f)
    BY <1>3 DEF StopSettled
  <2> QED BY <1>0, <2>1, OffUse
<1>4. CASE InterlockLocked(p) \/ InterlockSettled(p) \/ AcknowledgeLocked(p)
  BY <1>0, <1>4, OffUse DEF InterlockLocked, InterlockSettled, AcknowledgeLocked
<1>5. CASE FaultSettled(p) \/ ProofSettled(p)
  <2>1. UNCHANGED drv \/ AwaitGlobalOff(p, op, "proof", FALSE)
    BY <1>5 DEF FaultSettled, ProofSettled
  <2> QED BY <1>0, <2>1, OffUse
<1>6. ASSUME NEW st, StartSource(p, st) PROVE DriverUse(p)
  BY <1>6, OpFields DEF StartSource, DriverUse, Target
<1>7. CASE RunAdmission(p) \/ ProbeReturns(p)
  <2>1. ASSUME NEW st, Admit(p, st) PROVE DriverUse(p)
    BY <1>0, <1>6, <2>1, OffUse DEF Admit
  <2> QED BY <1>0, <1>7, <2>1 DEF RunAdmission, ProbeReturns, ConsumeLatch
<1>8. CASE TargetOffSettled(p) \/ AuthorityOffSettled(p)
  BY <1>0, <1>6, <1>8, OffUse DEF TargetOffSettled, AuthorityOffSettled
<1>9. CASE StartSettled(p) \/ StartCallerGone(p) \/ RunUnacknowledged(p)
  BY <1>0, <1>9, OffUse DEF StartSettled, StartCallerGone, RunUnacknowledged, BecomeEmergency
<1>10. CASE LateOffSettled(p) \/ AbortOffSettled(p) \/ RevokeOffSettled(p) \/ RunPublished(p)
  BY <1>0, <1>10, OffUse DEF LateOffSettled, AbortOffSettled, RevokeOffSettled, RunPublished
<1>11. CASE AcquireRunLock(p) \/ WarningSettled(p)
  BY <1>0, <1>11 DEF AcquireRunLock, WarningSettled
<1> QED BY <1>1, <1>2, <1>3, <1>4, <1>5, <1>7, <1>8, <1>9, <1>10, <1>11 DEF Resume, AwaitEnds

(***************************************************************************)
(* The steps beside the holder of the lock.                                *)
(***************************************************************************)

\* What the order of the others becomes.
OrderKept(p) ==
  /\ \A x \in Ops \ {p} : InLine(x)' <=> InLine(x)
  /\ \A x, y \in Ops \ {p} : Before(x, y)' <=> Before(x, y)

Same(q) ==
  /\ op'[q].pc = op[q].pc /\ op'[q].kind = op[q].kind /\ op'[q].scope = op[q].scope
  /\ op'[q].seen = op[q].seen /\ op'[q].cut = op[q].cut

Unchanged == UNCHANGED <<state, active, out, call>>

\* A driver call answers those who await it.
Hears(o) ==
  /\ \A q \in Ops : op[q].res = "none"
  /\ UNCHANGED <<state, active, lock, queue>>
  /\ \A q \in Ops : Same(q) /\ (op'[q].via = op[q].via \/ op'[q].via = "none")
  /\ \A q \in Ops : op'[q].res = "ok" => op[q].via = o /\ ~call[o].stale /\ (call[o].kind = "off" => out' \cap call[o].chans = {})
  /\ \A q \in Ops : op'[q].via # "none" => op[q].via # o
  /\ call' = [call EXCEPT ![o] = NoCall]
  /\ Starting' \subseteq Starting /\ out' \subseteq out \cup Starting

\* The lock is granted.
Grants(p) ==
  /\ lock = "none" /\ lock' = p /\ Unchanged /\ Alone(p) /\ Same(p) /\ op'[p].via = op[p].via
  /\ op[p].pc \in LockWaits
  /\ \A x \in Ops : InLine(x)' <=> InLine(x)
  /\ \A x, y \in Ops : Before(x, y)' <=> Before(x, y)

\* An OFF request enters the line, behind everybody in it.
Joins(p) ==
  /\ Unchanged /\ UNCHANGED lock /\ lock # p /\ OrderKept(p) /\ op[p].kind = "none"
  /\ \E s \in {"channel", "full"} : \A q \in Ops \ {p} : op'[q] = Mark(op, s)[q]
  /\ Settler(op'[p]) /\ op'[p].pc = "lock" /\ op'[p].seen = {} /\ op'[p].res = "none" /\ op'[p].kind # "fault"
  /\ \A x \in Ops \ {p} : InLine(x) => Before(x, p)'
  /\ \A y \in Ops : ~Before(p, y)'

\* A RUN, or an acknowledgement, moves where nobody relies on it.
Moves(p) ==
  /\ Unchanged /\ OrderKept(p) /\ Alone(p)
  /\ lock' = IF lock = p THEN "none" ELSE lock
  /\ op[p].kind \in {"none", "run"} /\ op[p].pc \in Rest \cup {"run_lock", "preflight", "commit", "probe", "warn"}
  /\ op'[p].kind \in {"none", "run", "acknowledge"} /\ op'[p].pc \in Rest \cup {"run_lock", "preflight", "commit", "lock"}
  /\ \A y \in Ops : ~Before(p, y)'

\* A fault is raised and latched.
Raises(p) ==
  /\ \A q \in Ops : op[q].res = "none"
  /\ ~Faulted /\ state' = "fault_latched" /\ out' \subseteq out \cup Starting /\ Starting' = {}
  /\ UNCHANGED <<active, lock, queue>> /\ lock # p
  /\ \A q \in Ops \ {p} : op'[q] = Mark(op, "full")[q]
  /\ op'[p].kind = "fault" /\ op'[p].scope = Channels /\ op'[p].via = p /\ op'[p].res = "none" /\ op'[p].pc = "settle"
  /\ op[p].kind = "none" /\ p \in Alarms /\ DriverUse(p)

\* A fault that was raised beside the lock has settled.
AlarmSettles(p) ==
  /\ op[p].kind = "fault" /\ op[p].res # "none" /\ UNCHANGED <<state, out, call, lock, queue>> /\ Alone(p)
  /\ active' = IF op[p].res = "ok" THEN {} ELSE active
  /\ op'[p].kind = "none" /\ op'[p].pc \in Rest

\* The monitor, and whoever changes nothing here.
Watches ==
  /\ UNCHANGED <<active, op, lock, queue, out, call>>
  /\ state' = state \/ (state \in {"manual_recovery", "safe_off"} /\ state' = "ready" /\ (active = {} => out = {}))

(***************************************************************************)
(* The line for the lock.                                                  *)
(***************************************************************************)

\* The queue without its i-th member.
LEMMA LeaveShift ==
  ASSUME queue \in Seq(Ops), NEW i \in DOMAIN queue,
         queue' = SubSeq(queue, 1, i - 1) \o SubSeq(queue, i + 1, Len(queue))
  PROVE  /\ queue' \in Seq(Ops) /\ DOMAIN queue' = 1..(Len(queue) - 1)
         /\ \A j \in DOMAIN queue' : queue'[j] = IF j < i THEN queue[j] ELSE queue[j + 1]
<1> DEFINE a == SubSeq(queue, 1, i - 1)
           b == SubSeq(queue, i + 1, Len(queue))
<1>0. i \in 1..Len(queue) /\ i \in Nat /\ Len(queue) \in Nat /\ DOMAIN queue = 1..Len(queue)
  OBVIOUS
<1>1. /\ a \in Seq(Ops) /\ Len(a) = i - 1
      /\ \A j \in 1..(i - 1) : a[j] = queue[j]
  BY <1>0
<1>2. /\ b \in Seq(Ops) /\ Len(b) = Len(queue) - i
      /\ \A j \in 1..(Len(queue) - i) : b[j] = queue[i + j]
  <2>1. i + 1 \in Nat /\ i + 1 <= Len(queue) + 1 /\ Len(queue) - i \in Nat /\ Len(queue) - (i + 1) + 1 = Len(queue) - i
    BY <1>0
  <2>2. b \in Seq(Ops)
    BY <1>0
  <2>3. Len(b) = Len(queue) - i
    BY <1>0, <2>1
  <2>4. ASSUME NEW j \in 1..(Len(queue) - i) PROVE b[j] = queue[i + j]
    <3>1. (i + 1) + j - 1 = i + j /\ j \in 1..(Len(queue) - (i + 1) + 1)
      BY <1>0, <2>1, <2>4
    <3>2. j \in Nat /\ 1 <= j /\ j <= Len(b)
      BY <2>1, <2>3, <2>4
    <3>3. b[j] = queue[(i + 1) + j - 1]
      BY ONLY <1>0, <2>1, <2>3, <3>1, <3>2, queue \in Seq(Ops), SMTT(20)
    <3> QED BY <3>1, <3>3
  <2> QED BY <2>2, <2>3, <2>4
<1> HIDE DEF a, b
<1>3. queue' = a \o b
  BY DEF a, b
<1>4. /\ a \o b \in Seq(Ops) /\ Len(a \o b) = Len(a) + Len(b)
      /\ \A j \in 1..(Len(a) + Len(b)) : (a \o b)[j] = IF j <= Len(a) THEN a[j] ELSE b[j - Len(a)]
  <2>1. a \in Seq(Ops) /\ b \in Seq(Ops)
    BY <1>1, <1>2
  <2> QED BY <2>1
<1>5. Len(a) + Len(b) = Len(queue) - 1
  BY <1>0, <1>1, <1>2
<1>6. queue' \in Seq(Ops) /\ DOMAIN queue' = 1..(Len(queue) - 1)
  BY <1>3, <1>4, <1>5
<1>7. ASSUME NEW j \in 1..(Len(queue) - 1)
      PROVE  queue'[j] = IF j < i THEN queue[j] ELSE queue[j + 1]
  <2>2. CASE j < i
    <3>1. j \in 1..(i - 1) /\ j \in 1..(Len(a) + Len(b)) /\ j <= Len(a)
      BY <1>0, <1>1, <1>5, <1>7, <2>2
    <3>2. (a \o b)[j] = a[j]
      BY <1>4, <3>1
    <3>3. a[j] = queue[j]
      BY <1>1, <3>1
    <3> QED BY <1>3, <2>2, <3>2, <3>3
  <2>3. CASE ~(j < i)
    <3>1. j \in Nat /\ j - (i - 1) \in 1..(Len(queue) - i) /\ i + (j - (i - 1)) = j + 1 /\ ~(j <= i - 1)
      <4>1. j \in 1..(Len(queue) - 1) /\ ~(j < i) /\ i \in Nat /\ Len(queue) \in Nat
        BY <1>0, <1>7, <2>3
      <4> QED BY ONLY <4>1
    <3>2. (a \o b)[j] = b[j - (i - 1)]
      <4>1. j \in 1..(Len(a) + Len(b)) /\ ~(j <= Len(a))
        BY <1>1, <1>5, <3>1, <1>7
      <4>2. (a \o b)[j] = b[j - Len(a)]
        BY <1>4, <4>1
      <4> QED BY <1>1, <4>2
    <3>3. b[j - (i - 1)] = queue[j + 1]
      BY <1>2, <3>1
    <3> QED BY <1>3, <2>3, <3>2, <3>3
  <2> QED BY <2>2, <2>3
<1> QED BY <1>6, <1>7

\* Who is neither the holder nor waiting is not in the line.
LEMMA OutOfLine ==
  ASSUME Safe, NEW p \in Ops
  PROVE  /\ ~Waiting(op[p]) => \A i \in DOMAIN queue : queue[i] # p
         /\ Holding(op[p]) <=> lock = p
         /\ lock = p => ~Waiting(op[p])
         /\ queue \in Seq(Ops) /\ \A i, j \in DOMAIN queue : queue[i] = queue[j] => i = j
<1>1. Line(op, queue) /\ (lock = p <=> Holding(op[p])) /\ Placed(p, op[p])
  BY DEF Safe, Control
<1>2. Holding(op[p]) => ~Waiting(op[p])
  BY DEF Holding, Waiting, LockWaits, DriverAwaits
<1> QED BY <1>1, <1>2 DEF Line

\* The holder moves on, or leaves: the others keep their order.
LEMMA HolderOrder ==
  ASSUME Safe, NEW p \in Ops, lock = p, lock' \in {p, "none"}, queue' = queue
  PROVE  /\ OrderKept(p)
         /\ \A y \in Ops : ~Before(y, p) /\ ~Before(y, p)'
         /\ \A y \in Ops : Before(p, y)' <=> lock' = p /\ Before(p, y)
         /\ InLine(p)' <=> lock' = p
<1>1. \A i \in DOMAIN queue : queue[i] # p
  BY OutOfLine
<1>2. p # "none"
  OBVIOUS
<1> QED BY <1>1, <1>2 DEF OrderKept, InLine, Before

\* Somebody enters at the end.
LEMMA EnterOrder ==
  ASSUME queue \in Seq(Ops), NEW p \in Ops, \A i \in DOMAIN queue : queue[i] # p, lock # p, Enqueue(p)
  PROVE  /\ OrderKept(p)
         /\ \A x \in Ops \ {p} : InLine(x) => Before(x, p)'
         /\ \A y \in Ops : ~Before(p, y)'
<1>1. /\ DOMAIN queue = 1..Len(queue) /\ Len(queue) \in Nat /\ lock' = lock
      /\ DOMAIN queue' = 1..(Len(queue) + 1)
      /\ queue'[Len(queue) + 1] = p /\ \A i \in DOMAIN queue : queue'[i] = queue[i]
  BY DEF Enqueue
<1>2. \A i \in DOMAIN queue' : i \in DOMAIN queue \/ i = Len(queue) + 1
  BY <1>1
<1>3. \A i \in DOMAIN queue : i \in DOMAIN queue' /\ i < Len(queue) + 1 /\ i \in Nat
  BY <1>1
<1>4. Len(queue) + 1 \in DOMAIN queue'
  BY <1>1
<1>5. \A x \in Ops \ {p} : InLine(x)' <=> InLine(x)
  BY <1>1, <1>2, <1>3 DEF InLine
<1>6. ASSUME NEW x \in Ops \ {p}, NEW y \in Ops \ {p} PROVE Before(x, y)' <=> Before(x, y)
  <2>1. Before(x, y) => Before(x, y)'
    BY <1>1, <1>3 DEF Before
  <2>2. Before(x, y)' => Before(x, y)
    BY <1>1, <1>2, <1>4 DEF Before
  <2> QED BY <2>1, <2>2
<1>7. ASSUME NEW x \in Ops \ {p}, InLine(x) PROVE Before(x, p)'
  BY <1>1, <1>3, <1>4, <1>7 DEF InLine, Before
<1>8. ASSUME NEW y \in Ops, Before(p, y)' PROVE FALSE
  <2>1. PICK j \in DOMAIN queue' : queue'[j] = y /\ (lock' = p \/ \E i \in DOMAIN queue' : i < j /\ queue'[i] = p)
    BY <1>8 DEF Before
  <2>2. PICK i \in DOMAIN queue' : i < j /\ queue'[i] = p
    BY <1>1, <2>1
  <2>3. i = Len(queue) + 1 /\ j \in 1..(Len(queue) + 1)
    BY <1>1, <1>2, <2>2
  <2> QED BY <1>1, <2>2, <2>3
<1> QED BY <1>5, <1>6, <1>7, <1>8 DEF OrderKept

\* The first of the line is granted the lock.
LEMMA GrantOrder ==
  ASSUME queue \in Seq(Ops), queue # <<>>, lock = "none", lock' = Head(queue), queue' = Tail(queue)
  PROVE  /\ \A x \in Ops : InLine(x)' <=> InLine(x)
         /\ \A x, y \in Ops : Before(x, y)' => Before(x, y)
         /\ \A x, y \in Ops : Before(x, y) => Before(x, y)'
<1>1. /\ DOMAIN queue = 1..Len(queue) /\ Len(queue) \in Nat /\ 1 \in DOMAIN queue /\ queue[1] = lock'
      /\ DOMAIN queue' = 1..(Len(queue) - 1)
      /\ \A i \in DOMAIN queue' : queue'[i] = queue[i + 1]
  OBVIOUS
<1>2. \A i \in DOMAIN queue' : i + 1 \in DOMAIN queue /\ i \in Nat /\ 1 < i + 1
  BY <1>1
<1>3. \A i \in DOMAIN queue : i # 1 => i - 1 \in DOMAIN queue' /\ queue'[i - 1] = queue[i] /\ i \in Nat /\ 1 < i
  BY <1>1
<1>4. \A x \in Ops : InLine(x)' <=> InLine(x)
  <2>1. \A x \in Ops : InLine(x)' => InLine(x)
    BY <1>1, <1>2 DEF InLine
  <2>2. \A x \in Ops : InLine(x) => InLine(x)'
    BY <1>1, <1>3 DEF InLine
  <2> QED BY <2>1, <2>2
<1>5. ASSUME NEW x \in Ops, NEW y \in Ops, Before(x, y)' PROVE Before(x, y)
  <2>1. PICK j \in DOMAIN queue' : queue'[j] = y /\ (lock' = x \/ \E i \in DOMAIN queue' : i < j /\ queue'[i] = x)
    BY <1>5 DEF Before
  <2>2. j + 1 \in DOMAIN queue /\ queue[j + 1] = y /\ 1 < j + 1
    BY <1>1, <1>2, <2>1
  <2>3. \E i \in DOMAIN queue : i < j + 1 /\ queue[i] = x
    <3>1. CASE lock' = x
      BY <1>1, <2>2, <3>1
    <3>2. ASSUME NEW i \in DOMAIN queue', i < j, queue'[i] = x PROVE \E k \in DOMAIN queue : k < j + 1 /\ queue[k] = x
      <4>1. i + 1 \in DOMAIN queue /\ queue[i + 1] = x /\ i + 1 < j + 1
        BY <1>1, <1>2, <2>1, <3>2
      <4> QED BY <4>1
    <3> QED BY <2>1, <3>1, <3>2
  <2> QED BY <2>2, <2>3 DEF Before
<1>6. ASSUME NEW x \in Ops, NEW y \in Ops, Before(x, y) PROVE Before(x, y)'
  <2>1. PICK j \in DOMAIN queue : queue[j] = y /\ \E i \in DOMAIN queue : i < j /\ queue[i] = x
    BY <1>6 DEF Before
  <2>2. PICK i \in DOMAIN queue : i < j /\ queue[i] = x
    BY <2>1
  <2>3. i \in Nat /\ j \in Nat /\ j # 1
    BY <1>1, <2>2
  <2>4. j - 1 \in DOMAIN queue' /\ queue'[j - 1] = y
    BY <1>3, <2>1, <2>3
  <2>5. CASE i = 1
    BY <1>1, <2>2, <2>4, <2>5 DEF Before
  <2>6. CASE i # 1
    <3>1. i - 1 \in DOMAIN queue' /\ queue'[i - 1] = x /\ i - 1 < j - 1
      BY <1>3, <2>2, <2>3, <2>6
    <3> QED BY <2>4, <3>1 DEF Before
  <2> QED BY <2>5, <2>6
<1> QED BY <1>4, <1>5, <1>6

\* Somebody leaves the line.
LEMMA LeaveOrder ==
  ASSUME Safe, NEW p \in Ops, Leave(p), lock' = IF lock = p THEN "none" ELSE lock
  PROVE  OrderKept(p) /\ \A y \in Ops : ~Before(p, y)'
<1>0. queue \in Seq(Ops) /\ (\A i, j \in DOMAIN queue : queue[i] = queue[j] => i = j) /\ "none" \notin Ops
      /\ (lock = p => \A i \in DOMAIN queue : queue[i] # p)
  BY OutOfLine
<1>1. CASE (\A i \in DOMAIN queue : queue[i] # p) /\ UNCHANGED queue
  BY <1>0, <1>1 DEF OrderKept, InLine, Before
<1>2. ASSUME NEW i \in DOMAIN queue, queue[i] = p,
             queue' = SubSeq(queue, 1, i - 1) \o SubSeq(queue, i + 1, Len(queue))
      PROVE  OrderKept(p) /\ \A y \in Ops : ~Before(p, y)'
  <2>0. DOMAIN queue = 1..Len(queue) /\ Len(queue) \in Nat /\ i \in Nat
    BY <1>0
  <2>l. /\ DOMAIN queue' = 1..(Len(queue) - 1)
        /\ \A j \in DOMAIN queue' : queue'[j] = IF j < i THEN queue[j] ELSE queue[j + 1]
    BY <1>0, <1>2, LeaveShift
  <2>1. /\ DOMAIN queue' = 1..(Len(queue) - 1) /\ DOMAIN queue = 1..Len(queue) /\ Len(queue) \in Nat /\ i \in Nat
        /\ i \in 1..Len(queue)
        /\ \A j \in DOMAIN queue' : queue'[j] = IF j < i THEN queue[j] ELSE queue[j + 1]
    BY <2>0, <2>l
  <2>2. lock # p /\ lock' = lock
    BY <1>0, <1>2
  <2> DEFINE from(j) == IF j < i THEN j ELSE j + 1
             to(k) == IF k < i THEN k ELSE k - 1
  <2>3. \A j \in DOMAIN queue' : from(j) \in DOMAIN queue /\ from(j) # i /\ queue[from(j)] = queue'[j]
    <3>1. ASSUME NEW j \in DOMAIN queue' PROVE from(j) \in DOMAIN queue /\ from(j) # i /\ queue[from(j)] = queue'[j]
      <4>1. j \in Nat /\ j \in 1..(Len(queue) - 1)
        BY <2>1
      <4>2. CASE j < i
        BY <2>1, <4>1, <4>2
      <4>3. CASE ~(j < i)
        BY <2>1, <4>1, <4>3
      <4> QED BY <4>2, <4>3
    <3> QED BY <3>1
  <2>4. \A j, k \in DOMAIN queue' : j < k => from(j) < from(k)
    BY <1>2, <2>1
  <2>5. \A k \in DOMAIN queue : k # i => to(k) \in DOMAIN queue' /\ queue'[to(k)] = queue[k]
    <3>1. ASSUME NEW k \in DOMAIN queue, k # i PROVE to(k) \in DOMAIN queue' /\ queue'[to(k)] = queue[k]
      <4>1. k \in Nat /\ k \in 1..Len(queue)
        BY <2>1
      <4>2. CASE k < i
        BY <2>1, <4>1, <4>2
      <4>3. CASE ~(k < i)
        <5>1. to(k) = k - 1 /\ k - 1 \in 1..(Len(queue) - 1) /\ ~(k - 1 < i) /\ k - 1 + 1 = k
          BY <2>1, <3>1, <4>1, <4>3
        <5> QED BY <2>1, <5>1
      <4> QED BY <4>2, <4>3
    <3> QED BY <3>1
  <2>6. \A j, k \in DOMAIN queue : j # i /\ k # i /\ j < k => to(j) < to(k)
    BY <1>2, <2>1
  <2> HIDE DEF from, to
  <2>7. \A x \in Ops \ {p} : InLine(x)' <=> InLine(x)
    <3>1. ASSUME NEW x \in Ops \ {p}, InLine(x) PROVE InLine(x)'
      BY <1>2, <2>2, <2>5, <3>1 DEF InLine
    <3>2. ASSUME NEW x \in Ops \ {p}, InLine(x)' PROVE InLine(x)
      BY <2>2, <2>3, <3>2 DEF InLine
    <3> QED BY <3>1, <3>2
  <2>8. ASSUME NEW x \in Ops \ {p}, NEW y \in Ops \ {p} PROVE Before(x, y)' <=> Before(x, y)
    <3>1. ASSUME Before(x, y)' PROVE Before(x, y)
      <4>1. PICK k \in DOMAIN queue' : queue'[k] = y /\ (lock' = x \/ \E j \in DOMAIN queue' : j < k /\ queue'[j] = x)
        BY <3>1 DEF Before
      <4>2. from(k) \in DOMAIN queue /\ queue[from(k)] = y
        BY <2>3, <4>1
      <4>3. CASE lock' = x
        BY <2>2, <4>2, <4>3 DEF Before
      <4>4. ASSUME NEW j \in DOMAIN queue', j < k, queue'[j] = x PROVE Before(x, y)
        <5>1. from(j) \in DOMAIN queue /\ queue[from(j)] = x /\ from(j) < from(k)
          BY <2>3, <2>4, <4>1, <4>4
        <5> QED BY <4>2, <5>1 DEF Before
      <4> QED BY <4>1, <4>3, <4>4
    <3>2. ASSUME Before(x, y) PROVE Before(x, y)'
      <4>1. PICK k \in DOMAIN queue : queue[k] = y /\ (lock = x \/ \E j \in DOMAIN queue : j < k /\ queue[j] = x)
        BY <3>2 DEF Before
      <4>2. k # i /\ to(k) \in DOMAIN queue' /\ queue'[to(k)] = y
        BY <1>2, <2>5, <4>1
      <4>3. CASE lock = x
        BY <2>2, <4>2, <4>3 DEF Before
      <4>4. ASSUME NEW j \in DOMAIN queue, j < k, queue[j] = x PROVE Before(x, y)'
        <5>1. j # i /\ to(j) \in DOMAIN queue' /\ queue'[to(j)] = x
          BY <1>2, <2>5, <4>4
        <5>2. to(j) < to(k)
          BY <2>6, <4>2, <4>4, <5>1
        <5> QED BY <4>2, <5>1, <5>2 DEF Before
      <4> QED BY <4>1, <4>3, <4>4
    <3> QED BY <3>1, <3>2
  <2>9. \A j \in DOMAIN queue' : queue'[j] # p
    BY <1>0, <1>2, <2>3
  <2>10. \A y \in Ops : ~Before(p, y)'
    BY <2>2, <2>9 DEF Before
  <2> QED BY <2>7, <2>8, <2>10 DEF OrderKept
<1> QED BY <1>1, <1>2 DEF Leave

(***************************************************************************)
(* Each step beside the holder does one of these.                          *)
(***************************************************************************)

LEMMA HearOutcome ==
  ASSUME TypesOK, ContractInv, Safe, Quiet, NEW o \in Ops, OffCallReturns(o) \/ StartCallReturns(o)
  PROVE  Hears(o)
<1>1. PICK ok \in BOOLEAN : Deliver(o, ok) /\ (OffReturns(o, ok) \/ StartReturns(o, ok))
  BY DEF OffCallReturns, StartCallReturns
<1>2. Calming
  BY <1>1, OffReturnsCalms, StartReturnsCalms
<1>3. /\ call' = [call EXCEPT ![o] = NoCall]
      /\ ok => ~call[o].stale /\ (call[o].kind = "off" => out' \cap call[o].chans = {})
  <2>1. OffReturns(o, ok) => (ok => out' \cap call[o].chans = {})
    BY OffReturnsOnly
  <2> QED BY <1>1, <2>1 DEF OffReturns, StartReturns
<1>4. UNCHANGED <<state, active, lock, queue>> /\ \A q \in Ops : op[q].res = "none"
  BY <1>1 DEF Deliver, mgr, locks, Quiet
<1>5. ASSUME NEW q \in Ops
      PROVE  /\ Same(q)
             /\ op'[q].via = IF op[q].via = o THEN "none" ELSE op[q].via
             /\ op'[q].res = IF op[q].via = o THEN IF ok THEN "ok" ELSE "failed" ELSE "none"
  <2>1. op[q] \in OpRecords
        /\ op'[q] = IF op[q].via = o THEN [op[q] EXCEPT !.via = "none", !.res = IF ok THEN "ok" ELSE "failed"] ELSE op[q]
    BY <1>1 DEF TypesOK, Deliver
  <2> QED BY <1>4, <2>1 DEF OpRecords, Same
<1> QED BY <1>2, <1>3, <1>4, <1>5 DEF Hears, Calming

LEMMA GrantOutcome ==
  ASSUME TypesOK, Safe, NEW p \in Ops, Grant(p)
  PROVE  Grants(p)
<1>1. /\ lock = "none" /\ queue # <<>> /\ p = Head(queue) /\ lock' = p /\ queue' = Tail(queue)
      /\ op' = [op EXCEPT ![p].res = "ok"] /\ UNCHANGED <<state, active, out, call>>
  BY DEF Grant, mgr, drv
<1>2. Line(op, queue)
  BY DEF Safe, Control
<1>3. queue \in Seq(Ops) /\ 1 \in DOMAIN queue /\ queue[1] = p
  BY <1>1, <1>2 DEF Line
<1>4. op[p].pc \in LockWaits
  BY <1>2, <1>3 DEF Line, Waiting
<1>5. Same(p) /\ Alone(p) /\ op'[p].via = op[p].via
  BY <1>1 DEF TypesOK, OpRecords, Same, Alone
<1>6. /\ \A x \in Ops : InLine(x)' <=> InLine(x)
      /\ \A x, y \in Ops : Before(x, y)' <=> Before(x, y)
  BY <1>1, <1>3, GrantOrder
<1> QED BY <1>1, <1>4, <1>5, <1>6 DEF Grants, Unchanged

LEMMA JoinOutcome ==
  ASSUME TypesOK, Safe, NEW p \in Ops,
         (\E scope \in Scopes : SubmitEmergency(p, scope) \/ SubmitStop(p, scope)) \/ SubmitInterlockStop(p)
  PROVE  Joins(p)
<1>1. op[p].pc \in Rest /\ Enqueue(p) /\ Unchanged
  BY DEF SubmitEmergency, SubmitStop, SubmitInterlockStop, Unchanged, mgr, drv
<1>2. op[p].kind = "none" /\ lock # p /\ \A i \in DOMAIN queue : queue[i] # p
  BY <1>1, Rested, OutOfLine
<1>3. /\ OrderKept(p) /\ UNCHANGED lock
      /\ \A x \in Ops \ {p} : InLine(x) => Before(x, p)'
      /\ \A y \in Ops : ~Before(p, y)'
  BY <1>1, <1>2, OutOfLine, EnterOrder DEF Enqueue
<1> DEFINE joined(s) ==
      /\ \A q \in Ops \ {p} : op'[q] = Mark(op, s)[q]
      /\ op'[p].pc = "lock" /\ op'[p].seen = {} /\ op'[p].res = "none" /\ op'[p].kind \in {"emergency", "stop", "interlock"}
<1>4. ASSUME NEW scope, SubmitEmergency(p, scope) PROVE joined("full") \/ joined("channel")
  BY <1>4 DEF SubmitEmergency, Mark, Resting
<1>5. ASSUME NEW scope, SubmitStop(p, scope) PROVE joined("full") \/ joined("channel")
  BY <1>5 DEF SubmitStop, Mark, Resting
<1>i. ASSUME SubmitInterlockStop(p) PROVE joined("full")
  BY <1>i DEF SubmitInterlockStop, Mark, Resting
<1>6. \E s \in {"channel", "full"} : joined(s)
  BY <1>4, <1>5, <1>i
<1>7. Settler(op'[p]) /\ op'[p].kind # "fault"
  BY <1>6 DEF Settler
<1> QED BY <1>1, <1>2, <1>3, <1>6, <1>7 DEF Joins

LEMMA MoveOutcome ==
  ASSUME TypesOK, Safe, NEW p \in Ops,
         \/ \E c \in Channels : SubmitRun(p, c)
         \/ RunCancelled(p) \/ SubmitAcknowledge(p) \/ AcquireRunLock(p) \/ WarningSettled(p)
  PROVE  Moves(p)
<1>0. Typed(op) /\ op[p] \in OpRecords /\ Placed(p, op[p])
  BY OpFields DEF Safe, Control
<1>1. Unchanged
  BY DEF SubmitRun, RunCancelled, SubmitAcknowledge, AcquireRunLock, WarningSettled, Unchanged, mgr, drv
<1>2. ASSUME op[p].pc \in Rest \cup {"run_lock", "warn"}
      PROVE  lock # p /\ (\A i \in DOMAIN queue : queue[i] # p) /\ queue \in Seq(Ops) /\ op[p].kind \in {"none", "run"}
  <2>1. ~Waiting(op[p]) /\ ~Holding(op[p]) /\ op[p].kind \in {"none", "run"}
    BY <1>0, <1>2 DEF Waiting, Holding, LockWaits, DriverAwaits, Rest, Placed, Fits
  <2> QED BY <2>1, OutOfLine
<1>3. ASSUME op[p].pc \in Rest \cup {"run_lock", "warn"}, UNCHANGED <<lock, queue>>
      PROVE  OrderKept(p) /\ (\A y \in Ops : ~Before(p, y)') /\ lock' = IF lock = p THEN "none" ELSE lock
  BY <1>2, <1>3 DEF OrderKept, InLine, Before
<1>4. ASSUME op[p].pc \in Rest \cup {"run_lock", "warn"}, Enqueue(p)
      PROVE  OrderKept(p) /\ (\A y \in Ops : ~Before(p, y)') /\ lock' = IF lock = p THEN "none" ELSE lock
  BY <1>2, <1>4, EnterOrder DEF Enqueue
<1>5. CASE \E c \in Channels : SubmitRun(p, c)
  <2>1. PICK c \in Channels : SubmitRun(p, c)
    BY <1>5
  <2>2. op[p].pc \in Rest /\ UNCHANGED <<lock, queue>> /\ Alone(p) /\ op'[p].kind = "run" /\ op'[p].pc = "run_lock"
    BY <1>0, <2>1 DEF SubmitRun, locks, Alone, Typed, Resting
  <2> QED BY <1>1, <1>2, <1>3, <2>2 DEF Moves
<1>6. CASE SubmitAcknowledge(p)
  <2>1. op[p].pc \in Rest /\ Enqueue(p) /\ Alone(p) /\ op'[p].kind = "acknowledge" /\ op'[p].pc = "lock"
    BY <1>0, <1>6 DEF SubmitAcknowledge, Alone, Typed, Resting
  <2> QED BY <1>1, <1>2, <1>4, <2>1 DEF Moves
<1>7. CASE AcquireRunLock(p)
  <2>1. op[p].pc = "run_lock" /\ Enqueue(p) /\ Alone(p) /\ op'[p].kind = op[p].kind /\ op'[p].pc = "preflight"
    BY <1>0, <1>7 DEF AcquireRunLock, Alone, Typed, OpRecords
  <2> QED BY <1>1, <1>2, <1>4, <2>1 DEF Moves
<1>8. CASE WarningSettled(p)
  <2>1. CASE op[p].seen # {}
    <3>1. op[p].pc = "warn" /\ Return(p, op, "idle")
      BY <1>8, <2>1 DEF WarningSettled
    <3>2. op[p].pc = "warn" /\ UNCHANGED <<lock, queue>> /\ Alone(p) /\ op'[p].kind = "none" /\ op'[p].pc = "idle"
      BY <1>0, <1>2, <3>1 DEF Return, Alone, Typed, Resting
    <3> QED BY <1>1, <1>2, <1>3, <3>2 DEF Moves, Rest
  <2>2. CASE op[p].seen = {}
    <3>1. op[p].pc = "warn" /\ Enqueue(p) /\ Alone(p) /\ op'[p].kind = op[p].kind /\ op'[p].pc = "commit"
      BY <1>0, <1>8, <2>2 DEF WarningSettled, Alone, Typed, OpRecords
    <3> QED BY <1>1, <1>2, <1>4, <3>1 DEF Moves
  <2> QED BY <2>1, <2>2
<1>9. CASE RunCancelled(p)
  <2>1. /\ op[p].kind = "run" /\ op[p].pc \in {"run_lock", "preflight", "commit", "probe", "warn"}
        /\ lock' = (IF lock = p THEN "none" ELSE lock) /\ Leave(p)
        /\ Alone(p) /\ op'[p].kind = "none" /\ op'[p].pc = "idle"
    BY <1>0, <1>9 DEF RunCancelled, Alone, Typed, Resting
  <2>2. OrderKept(p) /\ \A y \in Ops : ~Before(p, y)'
    BY <2>1, LeaveOrder
  <2> QED BY <1>1, <2>1, <2>2 DEF Moves, Rest
<1> QED BY <1>5, <1>6, <1>7, <1>8, <1>9

LEMMA RaiseOutcome ==
  ASSUME TypesOK, ContractInv, Safe, Quiet, NEW p \in Alarms, NEW src \in Origins, RaiseFault(p, src)
  PROVE  Raises(p) \/ Watches
<1>0. p \in Ops /\ Typed(op) /\ op[p] \in OpRecords /\ "settle" \in DriverAwaits
  BY OpFields DEF Ops, DriverAwaits
<1>1. CASE Faulted
  BY <1>1 DEF RaiseFault, Watches, locks, drv
<1>2. CASE ~Faulted
  <2> DEFINE f == [op EXCEPT ![p].kind = "fault"]
             g == Mark(f, "full")
  <2>1. op[p].pc \in Rest /\ Latch(p, f, src, "settle") /\ UNCHANGED <<active, lock, queue>>
    BY <1>2 DEF RaiseFault, locks
  <2>2. Typed(f) /\ f[p].kind = "fault" /\ \A q \in Ops \ {p} : f[q] = op[q]
    BY <1>0 DEF Typed, OpRecords
  <2> HIDE DEF f
  <2>3. Typed(g) /\ g[p] = f[p] /\ \A q \in Ops \ {p} : g[q] = Mark(op, "full")[q]
    BY <1>0, <2>2, MarkTyped DEF Mark
  <2>4. AwaitOff(p, g, "settle", Channels) /\ state' = "fault_latched" /\ Channels \in SUBSET Channels
    BY <2>1 DEF Latch
  <2> HIDE DEF g
  <2>5. GoesTo(g, p, "settle", Channels) /\ op'[p].via = p /\ BeginOffCall(p, Channels)
    BY <1>0, <2>3, <2>4, AwaitOffGoes
  <2>6. Starting' = {}
    <3>1. ASSUME NEW o \in Ops PROVE call'[o].kind = "off" \/ call'[o].stale \/ call'[o].chans = {}
      <4>1. call[o] \in Calls
        BY DEF TypesOK, ContractTypeOK, Calls
      <4> QED BY <2>5, <4>1 DEF BeginOffCall, Calls
    <3> QED BY <3>1 DEF Starting
  <2>7. out' \subseteq out \cup Starting
    BY <2>5 DEF BeginOffCall
  <2>8. op[p].kind = "none" /\ lock # p
    BY <1>0, <2>1, Rested
  <2>9. DriverUse(p)
    BY <2>5 DEF DriverUse
  <2> QED BY <1>0, <1>2, <2>1, <2>2, <2>3, <2>4, <2>5, <2>6, <2>7, <2>8, <2>9 DEF Raises, GoesTo, Quiet
<1> QED BY <1>1, <1>2

LEMMA AlarmOutcome ==
  ASSUME TypesOK, Safe, NEW p \in Ops, lock # p, FaultSettled(p)
  PROVE  AlarmSettles(p)
<1>0. Typed(op) /\ op[p] \in OpRecords /\ Placed(p, op[p]) /\ op[p].res # "none"
  BY OpFields DEF Safe, Control, FaultSettled
<1>1. op[p].pc \in {"settle", "settle_then_proof", "settle_then_stop"}
  BY DEF FaultSettled
<1>2. op[p].kind = "fault" /\ op[p].pc = "settle"
  <2>1. op[p].kind = "fault"
    BY <1>0, <1>1, Answered DEF DriverAwaits
  <2> QED BY <1>0, <2>1 DEF Placed, Fits
<1>3. Return(p, op, "idle") /\ UNCHANGED <<state, out, call>> /\ active' = IF op[p].res = "ok" THEN {} ELSE active
  BY <1>2 DEF FaultSettled, drv, Succeeded
<1>4. Alone(p) /\ op'[p].kind = "none" /\ op'[p].pc = "idle" /\ UNCHANGED <<lock, queue>>
  BY <1>0, <1>3 DEF Return, Alone, Typed, Resting
<1> QED BY <1>0, <1>2, <1>3, <1>4 DEF AlarmSettles, Rest

LEMMA WatchOutcome ==
  ASSUME ContractInv, MonitorReady \/ EvidenceExpires \/ DriverLosesProofs \/ CooldownElapses \/ UNCHANGED vars
  PROVE  Watches
<1>1. MonitorReady => (active = {} => out = {})
  BY DEF MonitorReady, Preconditions, ContractInv, ContractTypeOK
<1> QED BY <1>1 DEF MonitorReady, EvidenceExpires, DriverLosesProofs, ProofsLost, CooldownElapses, vars, mgr, locks, drv,
                    Watches, Faulted

Beside(p) == Hears(p) \/ Grants(p) \/ Joins(p) \/ Moves(p) \/ Raises(p) \/ AlarmSettles(p)

StepKind ==
  \/ \E p \in Ops : HolderStep(p) /\ DriverUse(p)
  \/ \E p \in Ops : Beside(p)
  \/ Watches

Clock ==
  \/ cooled' = (cooled /\ state' = "fault_latched")
  \/ UNCHANGED <<cooled, state>>
  \/ CooldownElapses

LEMMA StepKinds ==
  ASSUME TypesOK, ContractInv, Safe, Claims, StartAims, OwnFaults, [Next]_vars
  PROVE  StepKind /\ Clock
<1>1. Clock
  BY DEF Next, FaultClock, Clock, vars, mgr
<1>2. ASSUME NEW p \in Ops, Resume(p) PROVE StepKind
  <2>1. DriverUse(p)
    BY <1>2, StepUse
  <2>2. CASE EmergencyLocked(p) \/ EmergencySettled(p)
    BY <2>1, <2>2, EmergencyOutcome DEF StepKind
  <2>3. CASE StopLocked(p) \/ FaultStopSettled(p) \/ StopReconcile(p) \/ StopSettled(p)
    BY <2>1, <2>3, StopOutcome, StopSettledOutcome DEF StepKind
  <2>4. CASE InterlockLocked(p) \/ InterlockSettled(p) \/ AcknowledgeLocked(p)
    BY <2>1, <2>4, InterlockOutcome DEF StepKind
  <2>5. CASE FaultSettled(p) \/ ProofSettled(p)
    <3>1. CASE lock = p
      BY <2>1, <2>5, <3>1, SettlementOutcome DEF StepKind
    <3>2. CASE lock # p /\ FaultSettled(p)
      BY <3>2, AlarmOutcome DEF StepKind, Beside
    <3>3. ProofSettled(p) => lock = p
      BY Resumes DEF ProofSettled, Resumed, DriverAwaits
    <3> QED BY <2>5, <3>1, <3>2, <3>3
  <2>6. CASE RunAdmission(p)
    BY <2>1, <2>6, AdmissionOutcome DEF StepKind
  <2>7. CASE TargetOffSettled(p) \/ AuthorityOffSettled(p)
    BY <2>1, <2>7, TargetOffOutcome DEF StepKind
  <2>8. CASE StartSettled(p) \/ StartCallerGone(p)
    BY <2>1, <2>8, StartSettledOutcome, TakeOverOutcome DEF StepKind
  <2>9. CASE LateOffSettled(p) \/ AbortOffSettled(p) \/ RevokeOffSettled(p)
    BY <2>1, <2>9, UndoOutcome DEF StepKind
  <2> QED BY <1>2, <2>2, <2>3, <2>4, <2>5, <2>6, <2>7, <2>8, <2>9 DEF Resume
<1>3. ASSUME NEW p \in Ops, AwaitEnds(p) PROVE StepKind
  <2>1. DriverUse(p)
    BY <1>3, StepUse
  <2>2. CASE AcquireRunLock(p) \/ WarningSettled(p)
    BY <2>2, MoveOutcome DEF StepKind, Beside
  <2>3. CASE ProbeReturns(p)
    BY <2>1, <2>3, AdmissionOutcome DEF StepKind
  <2>4. CASE RunPublished(p)
    BY <2>1, <2>4, UndoOutcome DEF StepKind
  <2>5. CASE RunUnacknowledged(p)
    BY <2>1, <2>5, TakeOverOutcome DEF StepKind
  <2>6. CASE StopPublished(p)
    BY <2>1, <2>6, StopOutcome DEF StepKind
  <2> QED BY <1>3, <2>2, <2>3, <2>4, <2>5, <2>6 DEF AwaitEnds
<1>4. ASSUME NEW p \in Ops, Grant(p) PROVE StepKind
  BY <1>4, GrantOutcome DEF StepKind, Beside
<1>5. ASSUME Quiet, NEW p \in Ops, OffCallReturns(p) \/ StartCallReturns(p) PROVE StepKind
  BY <1>5, HearOutcome DEF StepKind, Beside
<1>6. ASSUME Quiet, Submit PROVE StepKind
  <2>1. ASSUME NEW p \in Runs, (\E c \in Channels : SubmitRun(p, c)) \/ RunCancelled(p) PROVE StepKind
    <3>1. p \in Ops
      BY DEF Ops
    <3> QED BY <2>1, <3>1, MoveOutcome DEF StepKind, Beside
  <2>2. ASSUME NEW p \in Stops,
               \/ \E scope \in Scopes : SubmitEmergency(p, scope) \/ SubmitStop(p, scope)
               \/ SubmitInterlockStop(p) \/ SubmitAcknowledge(p)
        PROVE  StepKind
    <3>1. p \in Ops
      BY DEF Ops
    <3>2. SubmitAcknowledge(p) => Moves(p)
      BY <3>1, MoveOutcome
    <3>3. ~SubmitAcknowledge(p) => Joins(p)
      BY <2>2, <3>1, JoinOutcome
    <3> QED BY <3>1, <3>2, <3>3 DEF StepKind, Beside
  <2>3. ASSUME NEW p \in Alarms, NEW src \in Origins, RaiseFault(p, src) PROVE StepKind
    <3>1. p \in Ops
      BY DEF Ops
    <3> QED BY <1>6, <2>3, <3>1, RaiseOutcome DEF StepKind, Beside
  <2> QED BY <1>6, <2>1, <2>2, <2>3 DEF Submit
<1>7. ASSUME MonitorReady \/ EvidenceExpires \/ DriverLosesProofs \/ CooldownElapses \/ UNCHANGED vars PROVE StepKind
  BY <1>7, WatchOutcome DEF StepKind
<1>8. StepKind
  BY <1>2, <1>3, <1>4, <1>5, <1>6, <1>7 DEF Next, Step
<1> QED BY <1>1, <1>8

(***************************************************************************)
(* What the others keep.                                                   *)
(***************************************************************************)

Carried(q) ==
  /\ op'[q].pc = op[q].pc /\ op'[q].kind = op[q].kind /\ op'[q].scope = op[q].scope /\ op'[q].cut = op[q].cut
  /\ op'[q].via = op[q].via /\ op'[q].res = op[q].res /\ op[q].seen \subseteq op'[q].seen

LEMMA MarkCarries ==
  ASSUME TypesOK, NEW q \in Ops, NEW s, op'[q] = Mark(op, s)[q]
  PROVE  /\ Carried(q)
         /\ op'[q].seen = IF op[q].kind \in {"run", "stop"} THEN op[q].seen \cup {s} ELSE op[q].seen
<1>1. op[q] \in OpRecords
  BY OpFields
<1> QED BY <1>1 DEF Mark, Carried, OpRecords

LEMMA OthersCarried ==
  ASSUME TypesOK, NEW p \in Ops,
         HolderStep(p) \/ Grants(p) \/ Joins(p) \/ Moves(p) \/ Raises(p) \/ AlarmSettles(p)
  PROVE  \A q \in Ops \ {p} : Carried(q)
<1>1. Alone(p) => \A q \in Ops \ {p} : Carried(q)
  BY DEF Alone, Carried
<1>2. Latches(p) \/ TakesOver(p) \/ Joins(p) \/ Raises(p) => \A q \in Ops \ {p} : Carried(q)
  BY MarkCarries DEF Latches, TakesOver, Joins, Raises
<1>3. HolderStep(p) => Latches(p) \/ TakesOver(p) \/ Alone(p)
  BY DEF HolderStep, StaysFaulted, Plain, Starts, Publishes, Settles, Walks, Yields, Consumes, Acknowledges
<1>4. Grants(p) \/ Moves(p) \/ AlarmSettles(p) => Alone(p)
  BY DEF Grants, Moves, AlarmSettles
<1> QED BY <1>1, <1>2, <1>3, <1>4

\* The holder is a request, and no alarm; and so it stays.
LEMMA HolderIsNoAlarm ==
  ASSUME Safe, Safe', NEW p \in Ops, lock = p
  PROVE  op[p].kind # "fault" /\ op'[p].kind # "fault"
<1>1. Holding(op[p]) /\ Placed(p, op[p]) /\ Placed(p, op'[p])
  BY DEF Safe, Control
<1>2. op[p].kind \notin {"fault", "none"}
  BY <1>1 DEF Holding, Placed, Fits, Rest, DriverAwaits, LockWaits
<1> QED BY <1>1, <1>2 DEF Placed, Fits

\* The calls of the others.
LEMMA OthersCalls ==
  ASSUME TypesOK, NEW p \in Ops, DriverUse(p)
  PROVE  \A u \in Ops \ {p} :
           /\ call'[u].kind = call[u].kind /\ call'[u].chans = call[u].chans
           /\ call[u].stale => call'[u].stale
<1>0. ContractTypeOK /\ call \in [Ops -> Calls]
  BY DEF TypesOK, ContractTypeOK, Calls
<1>1. ASSUME NEW C, BeginOffCall(p, C), NEW u \in Ops \ {p}, call[u].stale PROVE call'[u].stale
  <2>1. call'[u] = IF call[u].chans \cap C # {} THEN [call[u] EXCEPT !.stale = TRUE] ELSE call[u]
    BY <1>1 DEF BeginOffCall
  <2>2. call[u] \in Calls
    BY <1>0
  <2> QED BY <1>1, <2>1, <2>2 DEF Calls
<1>2. ASSUME NEW C, BeginOffCall(p, C), NEW u \in Ops \ {p}
      PROVE  call'[u].kind = call[u].kind /\ call'[u].chans = call[u].chans
  BY <1>0, <1>2, OffCallOfItsOwn
<1>3. ASSUME NEW c \in Channels, BeginStartCall(p, c), NEW u \in Ops \ {p} PROVE call'[u] = call[u]
  BY <1>0, <1>3 DEF BeginStartCall
<1> QED BY <1>1, <1>2, <1>3 DEF DriverUse

(***************************************************************************)
(* What holds of the state while somebody is under way.                    *)
(***************************************************************************)

LEMMA InitSteady == Init => Steady
<1> SUFFICES ASSUME Init PROVE Steady
  OBVIOUS
<1>1. \A p \in Ops : op[p] = Resting("idle") /\ call[p] = NoCall
  BY DEF Init, ContractInit
<1>2. Starting = {} /\ state = "safe_off" /\ lock = "none" /\ ~cooled
  BY <1>1 DEF Init, Starting, NoCall
<1> QED BY <1>1, <1>2 DEF Steady, Permitted, StartState, StartAims, AlarmAims, OwnFaults, Overtaken, CutSeen, CooledDown,
                      AlarmOff, Resting, Settling, Commits, Faulted

LEMMA PermittedKept ==
  ASSUME TypesOK, Safe, Safe', Permitted, StepKind
  PROVE  Permitted'
<1>0. ASSUME NEW p \in Ops, lock = p, op[p].pc \in {"start", "abort_off"} \/ EndsAll(op[p]),
             lock' = p, op'[p].pc = op[p].pc, op'[p].kind = op[p].kind, op'[p].scope = op[p].scope
      PROVE  Permitted'
  BY <1>0 DEF Permitted, EndsAll
<1> SUFFICES ASSUME state' = "run_permitted" PROVE Permitted'
  BY DEF Permitted
<1>1. ASSUME NEW p \in Ops, HolderStep(p) PROVE Permitted'
  <2>0. lock = p /\ (state = "run_permitted" => op[p].pc \in {"start", "abort_off"} \/ EndsAll(op[p]))
    BY <1>1 DEF HolderStep, Permitted
  <2>1. CASE Latches(p) \/ StaysFaulted(p) \/ Publishes(p) \/ Consumes(p) \/ Acknowledges(p)
    BY <2>1 DEF Latches, StaysFaulted, Publishes, Consumes, Acknowledges
  <2>2. CASE TakesOver(p) \/ Starts(p)
    BY <2>2 DEF TakesOver, Starts, Stays, Permitted
  <2>3. CASE Plain(p)
    <3>1. op[p].pc \in {"start", "abort_off"} \/ EndsAll(op[p])
      BY <2>0, <2>3 DEF Plain
    <3>2. Stays(p) /\ Proceeds(op[p], op'[p])
      BY <2>3, <3>1 DEF Plain, EndsAll
    <3>3. op'[p].pc = "abort_off" \/ EndsAll(op'[p])
      BY <3>1, <3>2 DEF Proceeds, EndsAll, Stays
    <3> QED BY <3>2, <3>3 DEF Stays, Permitted
  <2>4. CASE Settles(p) \/ Walks(p) \/ Yields(p)
    <3>1. state = "run_permitted" /\ op[p].pc \notin {"start", "abort_off"} /\ ~EndsAll(op[p])
      BY <2>4 DEF Settles, Walks, Yields, EndsAll
    <3> QED BY <2>0, <3>1
  <2> QED BY <1>1, <2>1, <2>2, <2>3, <2>4 DEF HolderStep
<1>2. ASSUME NEW p \in Ops, Beside(p) PROVE Permitted'
  <2>0. PICK h \in Ops : lock = h /\ (op[h].pc \in {"start", "abort_off"} \/ EndsAll(op[h]))
    BY <1>2 DEF Beside, Hears, Grants, Joins, Moves, Raises, AlarmSettles, Unchanged, Permitted
  <2>1. CASE Hears(p)
    BY <1>0, <2>0, <2>1 DEF Hears, Same
  <2>2. ~Grants(p) /\ ~Raises(p)
    BY <2>0 DEF Grants, Raises
  <2>3. CASE Joins(p) \/ Moves(p) \/ AlarmSettles(p)
    <3>1. h # p /\ lock' = h
      BY <2>0, <2>3, HolderIsNoAlarm DEF Joins, Moves, AlarmSettles, Rest, EndsAll
    <3>2. Carried(h)
      BY <2>3, <3>1, OthersCarried
    <3> QED BY <1>0, <2>0, <3>1, <3>2 DEF Carried
  <2> QED BY <1>2, <2>1, <2>2, <2>3 DEF Beside
<1>3. CASE Watches
  BY <1>3 DEF Watches, Permitted
<1> QED BY <1>1, <1>2, <1>3 DEF StepKind

LEMMA StartStateKept ==
  ASSUME StartState, StepKind
  PROVE  StartState'
<1>1. ASSUME NEW p \in Ops, HolderStep(p) PROVE StartState'
  BY <1>1 DEF HolderStep, Latches, TakesOver, StaysFaulted, Plain, Starts, Publishes, Settles, Walks, Yields, Consumes,
              Acknowledges, Still, StartState
<1>2. UNCHANGED call => Starting' = Starting
  BY DEF Starting
<1>3. ASSUME NEW p \in Ops, Beside(p) PROVE StartState'
  BY <1>2, <1>3 DEF Beside, Hears, Grants, Joins, Moves, Raises, AlarmSettles, Unchanged, StartState
<1>4. CASE Watches
  BY <1>2, <1>4 DEF Watches, StartState
<1> QED BY <1>1, <1>3, <1>4 DEF StepKind

LEMMA StartAimsKept ==
  ASSUME TypesOK, Safe, StartAims, StepKind
  PROVE  StartAims'
<1> DEFINE aims(q) ==
      /\ op'[q].pc \in {"start", "publish", "abort_off", "revoke_off"} => op'[q].scope # {}
      /\ op'[q].pc = "stop" /\ op'[q].via = q => call'[q].chans # {}
<1>0. ASSUME NEW q \in Ops, Carried(q), call'[q].chans = call[q].chans PROVE aims(q)
  BY <1>0 DEF StartAims, Carried
<1>1. ASSUME NEW p \in Ops, HolderStep(p), DriverUse(p), NEW q \in Ops PROVE aims(q)
  <2>1. CASE q # p
    BY <1>0, <1>1, <2>1, OthersCarried, OthersCalls
  <2>2. CASE q = p
    <3>1. CASE Latches(p) \/ TakesOver(p) \/ Settles(p) \/ Yields(p) \/ Acknowledges(p)
      BY <2>2, <3>1 DEF Latches, TakesOver, EndsAll, Settles, Yields, Acknowledges, Leaves, Rest, Settling
    <3>2. CASE StaysFaulted(p)
      BY <2>2, <3>2 DEF StaysFaulted, Leaves, Stays, Rest, StartAims
    <3>3. CASE Plain(p)
      BY <2>2, <3>3 DEF Plain, Leaves, Stays, Proceeds, Rest, StartAims
    <3>4. CASE Starts(p) \/ Publishes(p)
      BY <2>2, <3>4 DEF Starts, Publishes, StartAims
    <3>5. CASE Walks(p) \/ Consumes(p)
      BY <2>2, <3>5 DEF Walks, Consumes, Stays, Leaves, Rest
    <3> QED BY <1>1, <3>1, <3>2, <3>3, <3>4, <3>5 DEF HolderStep
  <2> QED BY <2>1, <2>2
<1>2. ASSUME NEW p \in Ops, Beside(p), NEW q \in Ops PROVE aims(q)
  <2>1. CASE Hears(p)
    <3>1. op'[q].via = q => op[q].via = q /\ q # p
      BY <2>1 DEF Hears
    <3>2. q # p => call'[q] = call[q]
      BY <2>1 DEF Hears, TypesOK, ContractTypeOK
    <3> QED BY <2>1, <3>1, <3>2 DEF Hears, Same, StartAims
  <2>2. CASE ~Hears(p) /\ q # p
    <3>1. Carried(q)
      BY <1>2, <2>2, OthersCarried DEF Beside
    <3>2. call'[q].chans = call[q].chans
      BY <1>2, <2>2, OthersCalls DEF Beside, Grants, Joins, Moves, Raises, AlarmSettles, Unchanged
    <3> QED BY <1>0, <3>1, <3>2
  <2>3. CASE ~Hears(p) /\ q = p
    BY <1>2, <2>3 DEF Beside, Grants, Joins, Moves, Raises, AlarmSettles, LockWaits, Rest, Same
  <2> QED BY <2>1, <2>2, <2>3
<1>3. ASSUME Watches, NEW q \in Ops PROVE aims(q)
  BY <1>3 DEF Watches, StartAims
<1>4. \A q \in Ops : aims(q)
  BY <1>1, <1>2, <1>3 DEF StepKind
<1> QED BY <1>4 DEF StartAims

LEMMA AlarmAimsKept ==
  ASSUME TypesOK, Safe, Safe', AlarmAims, StepKind
  PROVE  AlarmAims'
<1>1. ASSUME NEW p \in Ops, HolderStep(p) PROVE AlarmAims'
  BY <1>1, OthersCarried, HolderIsNoAlarm DEF HolderStep, Carried, AlarmAims
<1>2. ASSUME NEW p \in Ops, Beside(p) PROVE AlarmAims'
  <2>1. CASE Hears(p)
    BY <2>1 DEF Hears, Same, AlarmAims
  <2>2. CASE ~Hears(p)
    <3>1. \A q \in Ops \ {p} : Carried(q)
      BY <1>2, <2>2, OthersCarried DEF Beside
    <3>2. op'[p].kind = "fault" => op'[p].scope = Channels /\ op'[p].via \in {p, "none"}
      BY <1>2, <2>2 DEF Beside, Grants, Joins, Moves, Raises, AlarmSettles, Same, AlarmAims
    <3> QED BY <3>1, <3>2 DEF Carried, AlarmAims
  <2> QED BY <2>1, <2>2
<1>3. CASE Watches
  BY <1>3 DEF Watches, AlarmAims
<1> QED BY <1>1, <1>2, <1>3 DEF StepKind

LEMMA OwnFaultsKept ==
  ASSUME TypesOK, Safe, OwnFaults, StepKind
  PROVE  OwnFaults'
<1>1. ASSUME NEW p \in Ops, HolderStep(p) PROVE OwnFaults'
  <2>1. CASE Latches(p) \/ StaysFaulted(p)
    BY <2>1 DEF Latches, StaysFaulted, OwnFaults, Faulted
  <2>2. CASE TakesOver(p)
    BY <2>2 DEF TakesOver, OwnFaults, Settling
  <2>3. CASE Settles(p) \/ Yields(p) \/ Acknowledges(p)
    BY <2>3 DEF Settles, Yields, Acknowledges, Leaves, OwnFaults
  <2>4. CASE Plain(p)
    BY <2>4 DEF Plain, Leaves, Stays, Proceeds, OwnFaults, Settling
  <2>5. CASE Starts(p) \/ Publishes(p) \/ Walks(p) \/ Consumes(p)
    BY <2>5 DEF Starts, Publishes, Walks, Consumes, Leaves, Stays, OwnFaults, Settling
  <2> QED BY <1>1, <2>1, <2>2, <2>3, <2>4, <2>5 DEF HolderStep
<1>2. ASSUME NEW p \in Ops, Beside(p) PROVE OwnFaults'
  <2>1. CASE Hears(p)
    BY <2>1 DEF Hears, Same, OwnFaults, Faulted
  <2>2. CASE Raises(p)
    BY <2>2 DEF Raises, OwnFaults, Faulted
  <2>3. CASE Grants(p)
    BY <2>3 DEF Grants, Same, OwnFaults, Settling, LockWaits
  <2>4. CASE Joins(p) \/ Moves(p) \/ AlarmSettles(p)
    <3>1. lock' # p /\ lock' \in {lock, "none"} /\ UNCHANGED state
      BY <2>4, OutOfLine DEF Joins, Moves, AlarmSettles, Unchanged, Holding
    <3>2. \A q \in Ops \ {p} : Carried(q)
      BY <2>4, OthersCarried
    <3> QED BY <3>1, <3>2 DEF Carried, OwnFaults, Faulted
  <2> QED BY <1>2, <2>1, <2>2, <2>3, <2>4 DEF Beside
<1>3. CASE Watches
  BY <1>3 DEF Watches, OwnFaults, Faulted
<1> QED BY <1>1, <1>2, <1>3 DEF StepKind

\* What a latch marks, and what one carries on with, has still seen it.
LEMMA OvertakenKept ==
  ASSUME TypesOK, Safe, Overtaken, StepKind
  PROVE  Overtaken'
<1> DEFINE saw(q) == Commits(op'[q]) => "full" \in op'[q].seen
<1>0. ASSUME Faulted, NEW q \in Ops, Carried(q) PROVE saw(q)
  BY <1>0 DEF Overtaken, Carried, Commits
<1>m. ASSUME NEW q \in Ops, op'[q] = Mark(op, "full")[q] PROVE saw(q)
  <2>1. Carried(q) /\ op'[q].seen = IF op[q].kind \in {"run", "stop"} THEN op[q].seen \cup {"full"} ELSE op[q].seen
    BY <1>m, MarkCarries
  <2> QED BY <2>1 DEF Carried, Commits
<1> SUFFICES ASSUME Faulted' PROVE \A q \in Ops : saw(q)
  BY DEF Overtaken, Commits
<1>1. ASSUME NEW p \in Ops, HolderStep(p) PROVE \A q \in Ops : saw(q)
  <2>1. CASE Latches(p)
    BY <1>m, <2>1 DEF Latches, Commits, Settling
  <2>2. CASE TakesOver(p)
    BY <1>m, <2>2 DEF TakesOver, EndsAll, Commits
  <2>3. CASE StaysFaulted(p)
    <3>1. saw(p)
      BY <2>3 DEF StaysFaulted, Stays, Leaves, Rest, Commits, Overtaken
    <3>2. \A q \in Ops \ {p} : Carried(q)
      BY <1>1, OthersCarried
    <3> QED BY <1>0, <2>3, <3>1, <3>2 DEF StaysFaulted
  <2>4. ~(Plain(p) \/ Starts(p) \/ Publishes(p) \/ Settles(p) \/ Walks(p) \/ Yields(p) \/ Consumes(p) \/ Acknowledges(p))
    BY DEF Plain, Starts, Publishes, Settles, Walks, Yields, Consumes, Acknowledges, Faulted
  <2> QED BY <1>1, <2>1, <2>2, <2>3, <2>4 DEF HolderStep
<1>2. ASSUME NEW p \in Ops, Beside(p) PROVE \A q \in Ops : saw(q)
  <2>1. CASE Hears(p)
    BY <2>1 DEF Hears, Same, Commits, Faulted, Overtaken
  <2>2. CASE Raises(p)
    BY <1>m, <2>2 DEF Raises, Commits
  <2>3. CASE Grants(p) \/ Joins(p) \/ Moves(p) \/ AlarmSettles(p)
    <3>1. Faulted
      BY <2>3 DEF Grants, Joins, Moves, AlarmSettles, Unchanged, Faulted
    <3>2. \A q \in Ops \ {p} : Carried(q)
      BY <2>3, OthersCarried
    <3>3. saw(p)
      BY <2>3, <3>1 DEF Grants, Same, Joins, Moves, AlarmSettles, Commits, LockWaits, Rest, Overtaken
    <3> QED BY <1>0, <3>1, <3>2, <3>3
  <2> QED BY <1>2, <2>1, <2>2, <2>3 DEF Beside
<1>3. CASE Watches
  BY <1>3 DEF Watches, Overtaken, Faulted
<1> QED BY <1>1, <1>2, <1>3 DEF StepKind

LEMMA CutSeenKept ==
  ASSUME TypesOK, Safe, Overtaken, CutSeen, StepKind
  PROVE  CutSeen'
<1> DEFINE knows(q) == op'[q].pc = "stop" /\ op'[q].cut => op'[q].seen # {}
<1>0. ASSUME NEW q \in Ops, Carried(q) PROVE knows(q)
  BY <1>0 DEF CutSeen, Carried
<1>1. ASSUME NEW p \in Ops, HolderStep(p) PROVE knows(p)
  <2>1. CASE Latches(p) \/ TakesOver(p) \/ Settles(p) \/ Yields(p) \/ Acknowledges(p)
    BY <2>1 DEF Latches, TakesOver, Settles, Yields, Acknowledges, Leaves, Rest, Settling
  <2>2. CASE StaysFaulted(p)
    <3>1. op[p].pc = "stop" => op[p].kind = "stop"
      BY DEF Safe, Control, Placed, Fits, Rest, RunPoints
    <3> QED BY <2>2, <3>1 DEF StaysFaulted, Stays, Leaves, Rest, Commits, Overtaken
  <2>3. CASE Plain(p)
    BY <2>3 DEF Plain, Leaves, Stays, Proceeds, Rest
  <2>4. CASE Starts(p) \/ Publishes(p) \/ Consumes(p)
    BY <2>4 DEF Starts, Publishes, Consumes, Leaves, Rest
  <2>5. CASE Walks(p)
    BY <2>5 DEF Walks, Stays, CutSeen
  <2> QED BY <1>1, <2>1, <2>2, <2>3, <2>4, <2>5 DEF HolderStep
<1>2. ASSUME NEW p \in Ops, Beside(p), ~Hears(p) PROVE knows(p)
  BY <1>2 DEF Beside, Grants, Same, Joins, Moves, Raises, AlarmSettles, LockWaits, Rest, CutSeen
<1>3. ASSUME NEW p \in Ops, Hears(p), NEW q \in Ops PROVE knows(q)
  BY <1>3 DEF Hears, Same, CutSeen
<1>4. ASSUME NEW p \in Ops, HolderStep(p) \/ (Beside(p) /\ ~Hears(p)), NEW q \in Ops \ {p} PROVE knows(q)
  BY <1>0, <1>4, OthersCarried DEF Beside
<1>5. ASSUME Watches, NEW q \in Ops PROVE knows(q)
  BY <1>5 DEF Watches, CutSeen
<1>6. \A q \in Ops : knows(q)
  BY <1>1, <1>2, <1>3, <1>4, <1>5 DEF StepKind
<1> QED BY <1>6 DEF CutSeen

LEMMA CooledDownKept ==
  ASSUME TypesOK, Safe, Overtaken, CooledDown, StepKind, Clock
  PROVE  CooledDown'
<1> SUFFICES ASSUME cooled' PROVE CooledDown'
  BY DEF CooledDown
<1> DEFINE past(q) == op'[q].kind = "run" => op'[q].pc \notin {"start", "publish"}
<1>0. CASE CooldownElapses
  BY <1>0 DEF CooldownElapses, mgr, Faulted, Overtaken, Commits, CooledDown
<1>1. CASE ~CooldownElapses
  <2>0. cooled /\ Faulted /\ Faulted'
    BY <1>1 DEF Clock, CooledDown, Faulted
  <2>c. ASSUME NEW q \in Ops, Carried(q) PROVE past(q)
    BY <2>0, <2>c DEF CooledDown, Carried
  <2>1. ASSUME NEW p \in Ops, HolderStep(p) PROVE past(p)
    <3>1. StaysFaulted(p) \/ TakesOver(p)
      BY <2>0, <2>1 DEF HolderStep, Latches, Plain, Starts, Publishes, Settles, Walks, Yields, Consumes, Acknowledges, Faulted
    <3> QED BY <3>1 DEF StaysFaulted, Stays, Leaves, Rest, TakesOver, EndsAll
  <2>2. ASSUME NEW p \in Ops, Beside(p), ~Hears(p) PROVE past(p)
    BY <2>0, <2>2 DEF Beside, Grants, Same, Joins, Settler, Moves, Raises, AlarmSettles, LockWaits, Rest, CooledDown
  <2>3. ASSUME NEW p \in Ops, Hears(p), NEW q \in Ops PROVE past(q)
    BY <2>0, <2>3 DEF Hears, Same, CooledDown
  <2>4. ASSUME NEW p \in Ops, HolderStep(p) \/ (Beside(p) /\ ~Hears(p)), NEW q \in Ops \ {p} PROVE past(q)
    BY <2>c, <2>4, OthersCarried DEF Beside
  <2>5. ASSUME Watches, NEW q \in Ops PROVE past(q)
    BY <2>0, <2>5 DEF Watches, CooledDown
  <2>6. \A q \in Ops : past(q)
    BY <2>1, <2>2, <2>3, <2>4, <2>5 DEF StepKind
  <2> QED BY <2>0, <2>6 DEF CooledDown
<1> QED BY <1>0, <1>1

\* Only its own OFF answers an alarm, and it is of every channel.
LEMMA AlarmOffKept ==
  ASSUME TypesOK, Safe, Safe', AlarmAims, AlarmOff, StepKind
  PROVE  AlarmOff'
<1> DEFINE off(a) == op'[a].kind = "fault" /\ op'[a].res = "ok" => out' = {}
<1>0. ASSUME NEW a \in Ops, Carried(a), out' \subseteq out PROVE off(a)
  BY <1>0 DEF AlarmOff, Carried
<1>1. ASSUME NEW p \in Ops, HolderStep(p), NEW a \in Ops PROVE off(a)
  <2>1. out' \subseteq out
    BY <1>1 DEF HolderStep, Latches, TakesOver, StaysFaulted, Plain, Starts, Publishes, Settles, Walks, Yields, Consumes,
                Acknowledges, Still
  <2> QED BY <1>0, <1>1, <2>1, OthersCarried, HolderIsNoAlarm DEF HolderStep
<1>2. ASSUME NEW p \in Ops, Hears(p), NEW a \in Ops, op'[a].kind = "fault", op'[a].res = "ok" PROVE out' = {}
  <2>1. /\ op[a].via = p /\ op[a].kind = "fault" /\ (call[p].kind = "off" => out' \cap call[p].chans = {})
        /\ out' \subseteq Channels
    BY <1>2 DEF Hears, Same, TypesOK, ContractTypeOK, Starting
  <2>2. a = p /\ op[a].scope = Channels
    BY <2>1 DEF AlarmAims
  <2>3. Called(a, op[a], call) /\ op[a].pc = "settle"
    BY <2>1 DEF Safe, Control, Placed, Fits
  <2> QED BY <2>1, <2>2, <2>3 DEF Called
<1>3. ASSUME NEW p \in Ops, Raises(p), NEW a \in Ops PROVE off(a)
  BY <1>3, OthersCarried DEF Raises, Carried
<1>4. ASSUME NEW p \in Ops, Grants(p) \/ Joins(p) \/ Moves(p) \/ AlarmSettles(p), NEW a \in Ops PROVE off(a)
  <2>1. out' = out
    BY <1>4 DEF Grants, Joins, Moves, AlarmSettles, Unchanged
  <2>2. op'[p].kind # "fault"
    <3>1. Grants(p) => op[p].kind # "fault"
      BY DEF Grants, LockWaits, Safe, Control, Placed, Fits
    <3> QED BY <1>4, <3>1 DEF Grants, Same, Joins, Moves, AlarmSettles
  <2> QED BY <1>0, <1>4, <2>1, <2>2, OthersCarried
<1>5. ASSUME Watches, NEW a \in Ops PROVE off(a)
  BY <1>5 DEF Watches, AlarmOff
<1>6. \A a \in Ops : off(a)
  BY <1>1, <1>2, <1>3, <1>4, <1>5 DEF StepKind, Beside
<1> QED BY <1>6 DEF AlarmOff

LEMMA SteadyKept ==
  ASSUME TypesOK, Safe, Safe', Steady, StepKind, Clock
  PROVE  Steady'
BY PermittedKept, StartStateKept, StartAimsKept, AlarmAimsKept, OwnFaultsKept, OvertakenKept, CutSeenKept, CooledDownKept,
   AlarmOffKept DEF Steady

(***************************************************************************)
(* Alarms that come late.  A RUN may consume the latch while the OFF of an *)
(* alarm is still on its way; whoever then commits a source to be running  *)
(* had its channel to itself, so the alarm has settled before.             *)
(***************************************************************************)

\* Calls that nothing has superseded have their channels to themselves.
Apart ==
  /\ \A o \in Ops : call[o].kind = "refused" => call[o].stale
  /\ \A o, u \in Ops : o # u /\ ~call[o].stale /\ ~call[u].stale => call[o].chans \cap call[u].chans = {}

\* An alarm whose OFF may still be confirmed, or was.
Late(a) == op[a].kind = "fault" /\ (op[a].res = "ok" \/ (op[a].via = a /\ ~call[a].stale))

LateAlarms ==
  \A a \in Ops : Late(a) /\ ~Faulted =>
    /\ state # "running"
    /\ \A q \in Ops : lock = q /\ op[q].pc \in {"start", "stop", "abort_off", "revoke_off"} =>
         op[q].res # "ok" /\ op[q].via # a

LEMMA UseKeepsApart ==
  ASSUME TypesOK, Apart, NEW p \in Ops, DriverUse(p)
  PROVE  Apart'
<1>0. call \in [Ops -> Calls]
  BY DEF TypesOK, ContractTypeOK, Calls
<1>1. CASE UNCHANGED call
  BY <1>1 DEF Apart
<1>2. ASSUME NEW C, BeginOffCall(p, C) PROVE Apart'
  <2>1. call'[p] = [kind |-> "off", chans |-> C, stale |-> FALSE]
    BY <1>2 DEF BeginOffCall
  <2>2. ASSUME NEW u \in Ops \ {p}
        PROVE  /\ call'[u].kind = call[u].kind /\ call'[u].chans = call[u].chans
               /\ ~call'[u].stale => ~call[u].stale /\ call[u].chans \cap C = {}
    <3>1. call'[u] = IF call[u].chans \cap C # {} THEN [call[u] EXCEPT !.stale = TRUE] ELSE call[u]
      BY <1>2 DEF BeginOffCall
    <3>2. call[u] \in Calls
      BY <1>0
    <3> QED BY <3>1, <3>2 DEF Calls
  <2> QED BY <2>1, <2>2 DEF Apart
<1>3. ASSUME NEW c \in Channels, BeginStartCall(p, c) PROVE Apart'
  <2>1. \A u \in Ops \ {p} : call'[u] = call[u]
    BY <1>0, <1>3 DEF BeginStartCall
  <2>2. CASE call'[p] = [kind |-> "start", chans |-> {c}, stale |-> FALSE] /\ c \notin Busy
    BY <2>1, <2>2 DEF Apart, Busy
  <2>3. CASE call'[p] = [kind |-> "refused", chans |-> {}, stale |-> TRUE]
    BY <2>1, <2>3 DEF Apart
  <2> QED BY <1>0, <1>3, <2>2, <2>3 DEF BeginStartCall
<1> QED BY <1>1, <1>2, <1>3 DEF DriverUse

LEMMA ApartKept ==
  ASSUME TypesOK, Apart, StepKind
  PROVE  Apart'
<1>1. UNCHANGED call => Apart'
  BY DEF Apart
<1>2. ASSUME NEW p \in Ops, Hears(p) PROVE Apart'
  <2>1. \A u \in Ops : call'[u] = IF u = p THEN NoCall ELSE call[u]
    BY <1>2 DEF Hears, TypesOK, ContractTypeOK
  <2> QED BY <2>1 DEF Apart, NoCall
<1> QED BY <1>1, <1>2, UseKeepsApart DEF StepKind, Beside, Grants, Joins, Moves, Raises, AlarmSettles, Watches, Unchanged

\* An alarm does not become late again.
LEMMA LateBefore ==
  ASSUME TypesOK, Safe, Safe', AlarmAims, StepKind, NEW a \in Ops, Late(a)', ~Faulted'
  PROVE  Late(a)
<1>1. ASSUME NEW p \in Ops \ {a}, Carried(a), DriverUse(p) \/ UNCHANGED call PROVE Late(a)
  BY <1>1, OthersCalls DEF Late, Carried
<1>2. ASSUME NEW p \in Ops, HolderStep(p), DriverUse(p) PROVE Late(a)
  <2>1. a # p
    BY <1>2, HolderIsNoAlarm DEF HolderStep, Late
  <2> QED BY <1>1, <1>2, <2>1, OthersCarried
<1>3. ASSUME NEW p \in Ops, Hears(p) PROVE Late(a)
  <2>1. CASE op'[a].res = "ok"
    <3>1. op[a].via = p /\ ~call[p].stale /\ op[a].kind = "fault"
      BY <1>3, <2>1 DEF Hears, Same, Late
    <3>2. op[a].via = a
      BY <3>1 DEF AlarmAims
    <3> QED BY <3>1, <3>2 DEF Late
  <2>2. CASE op'[a].via = a /\ ~call'[a].stale
    <3>1. op[a].via = a /\ a # p /\ op[a].kind = "fault"
      BY <1>3, <2>2 DEF Hears, Same, Late
    <3>2. call'[a] = call[a]
      BY <1>3, <3>1 DEF Hears, TypesOK, ContractTypeOK
    <3> QED BY <2>2, <3>1, <3>2 DEF Late
  <2> QED BY <2>1, <2>2 DEF Late
<1>4. ASSUME NEW p \in Ops, Grants(p) \/ Joins(p) \/ Moves(p) \/ AlarmSettles(p) PROVE Late(a)
  <2>1. a # p
    <3>1. Grants(p) => op[p].kind # "fault"
      BY DEF Grants, LockWaits, Safe, Control, Placed, Fits
    <3> QED BY <1>4, <3>1 DEF Grants, Same, Joins, Moves, AlarmSettles, Late
  <2>2. UNCHANGED call
    BY <1>4 DEF Grants, Joins, Moves, AlarmSettles, Unchanged
  <2> QED BY <1>1, <1>4, <2>1, <2>2, OthersCarried
<1>5. CASE Watches
  BY <1>5 DEF Watches, Late
<1>6. \A p \in Ops : ~Raises(p)
  BY DEF Raises, Faulted
<1> QED BY <1>2, <1>3, <1>4, <1>5, <1>6 DEF StepKind, Beside

\* A holder that hears what it came for had the channels to itself.
LEMMA HeardApart ==
  ASSUME TypesOK, Safe, StartAims, AlarmAims, Apart, NEW o \in Ops, Hears(o), NEW a \in Ops, a # o,
         op[a].kind = "fault", op[a].via = a, ~call[a].stale,
         NEW q \in Ops, op[q].pc \in {"start", "stop", "abort_off", "revoke_off"}, op[q].via = o, ~call[o].stale
  PROVE  FALSE
<1>1. Called(a, op[a], call) /\ Called(q, op[q], call) /\ op[a].pc = "settle"
  BY DEF Safe, Control, Placed, Fits
<1>2. call[a].chans = Channels /\ call[o].chans \subseteq Channels
  <2>1. call[a].chans = Channels
    BY <1>1 DEF Called, AlarmAims
  <2>2. call[o] \in Calls
    BY DEF TypesOK, ContractTypeOK, Calls
  <2> QED BY <2>1, <2>2 DEF Calls
<1>3. call[o].chans # {}
  <2>1. CASE o # q
    BY <1>1, <2>1 DEF Called, StartAims
  <2>2. CASE o = q
    <3>1. call[q].kind # "refused"
      BY <2>2 DEF Apart
    <3> QED BY <1>1, <2>2, <3>1 DEF Called, StartAims
  <2> QED BY <2>1, <2>2
<1> QED BY <1>2, <1>3 DEF Apart

LEMMA LateAlarmsKept ==
  ASSUME TypesOK, Safe, Safe', StartAims, AlarmAims, Apart, LateAlarms, StepKind
  PROVE  LateAlarms'
<1> DEFINE committing == {"start", "stop", "abort_off", "revoke_off"}
           held(a, q) == lock' = q /\ op'[q].pc \in committing => op'[q].res # "ok" /\ op'[q].via # a
<1> SUFFICES ASSUME NEW a \in Ops, Late(a)', ~Faulted'
             PROVE  state' # "running" /\ \A q \in Ops : held(a, q)
  BY DEF LateAlarms
<1>0. Late(a)
  BY LateBefore
<1>1. ~Faulted =>
        /\ state # "running"
        /\ \A q \in Ops : lock = q /\ op[q].pc \in committing => op[q].res # "ok" /\ op[q].via # a
  BY <1>0 DEF LateAlarms
<1>2. ASSUME NEW p \in Ops, HolderStep(p) PROVE state' # "running" /\ \A q \in Ops : held(a, q)
  <2>0. lock = p /\ p # a /\ Called(p, op'[p], call')
    BY <1>0, <1>2, HolderIsNoAlarm DEF HolderStep, Late, Safe, Control
  <2>1. ~Latches(p) /\ ~StaysFaulted(p)
    BY DEF Latches, StaysFaulted, Faulted
  <2>2. ~Publishes(p) /\ ~Walks(p)
    BY <1>1, <2>0 DEF Publishes, Walks
  <2>3. CASE TakesOver(p)
    BY <1>1, <2>3 DEF TakesOver, EndsAll, Faulted
  <2>4. CASE Plain(p)
    <3>1. op'[p].pc \notin {"abort_off", "revoke_off"} \/ lock' # p
      BY <1>1, <2>0, <2>4 DEF Plain, Stays, Proceeds, Leaves
    <3>2. lock' = p => op'[p].pc # "stop_reconcile" /\ Stays(p)
      BY <2>4 DEF Plain, Proceeds, Leaves
    <3>3. lock' = p /\ op'[p].pc \in {"start", "stop"} => op'[p].res # "ok" /\ op'[p].via # a
      BY <2>0, <3>2 DEF Stays, Called
    <3>4. lock' \in {p, "none"} /\ state' # "running"
      BY <1>1, <2>4 DEF Plain, Stays, Leaves
    <3> QED BY <3>1, <3>3, <3>4
  <2>5. CASE Starts(p)
    BY <1>1, <2>0, <2>5 DEF Starts, Stays, Called, Faulted
  <2>6. CASE Settles(p)
    BY <1>1, <2>0, <2>6 DEF Settles, Leaves
  <2>7. CASE Yields(p) \/ Acknowledges(p)
    BY <1>1, <2>7 DEF Yields, Acknowledges, Leaves
  <2>8. CASE Consumes(p)
    BY <2>8 DEF Consumes, Stays, Leaves
  <2> QED BY <1>2, <2>1, <2>2, <2>3, <2>4, <2>5, <2>6, <2>7, <2>8 DEF HolderStep
<1>3. ASSUME NEW o \in Ops, Hears(o) PROVE state' # "running" /\ \A q \in Ops : held(a, q)
  <2>0. state' # "running" /\ ~Faulted /\ lock' = lock
    BY <1>1, <1>3 DEF Hears, Faulted
  <2>1. ASSUME NEW q \in Ops, lock' = q, op'[q].pc \in committing PROVE op'[q].res # "ok" /\ op'[q].via # a
    <3>1. op[q].pc \in committing /\ lock = q /\ op[q].via # a
      BY <1>1, <1>3, <2>0, <2>1 DEF Hears, Same
    <3>2. op'[q].via # a
      BY <1>3, <3>1 DEF Hears
    <3>3. op[a].kind = "fault" /\ op[a].via = a /\ ~call[a].stale
      BY <1>0, <1>3 DEF Late, Hears
    <3>4. ASSUME op'[q].res = "ok" PROVE FALSE
      <4>1. op[q].via = o /\ ~call[o].stale
        BY <1>3, <3>4 DEF Hears
      <4> QED BY <1>3, <3>1, <3>3, <4>1, HeardApart
    <3> QED BY <3>2, <3>4
  <2> QED BY <2>0, <2>1
<1>4. ASSUME NEW p \in Ops, Grants(p) \/ Joins(p) \/ Moves(p) \/ AlarmSettles(p)
      PROVE  state' # "running" /\ \A q \in Ops : held(a, q)
  <2>0. state' # "running" /\ ~Faulted
    BY <1>1, <1>4 DEF Grants, Joins, Moves, AlarmSettles, Unchanged, Faulted
  <2>1. CASE Grants(p)
    BY <2>0, <2>1 DEF Grants, Same, LockWaits
  <2>2. CASE Joins(p) \/ Moves(p) \/ AlarmSettles(p)
    <3>1. lock' \in {lock, "none"} /\ lock' # p
      BY <2>2, OutOfLine DEF Joins, Moves, AlarmSettles, Holding
    <3>2. \A q \in Ops \ {p} : Carried(q)
      BY <2>2, OthersCarried
    <3> QED BY <1>1, <2>0, <3>1, <3>2 DEF Carried
  <2> QED BY <1>4, <2>1, <2>2
<1>5. CASE Watches
  BY <1>1, <1>5 DEF Watches, Faulted
<1>6. \A p \in Ops : ~Raises(p)
  BY DEF Raises, Faulted
<1> QED BY <1>2, <1>3, <1>4, <1>5, <1>6 DEF StepKind, Beside

(***************************************************************************)
(* Who settles what a stop leaves behind.                                  *)
(***************************************************************************)

\* What a stop has seen, whoever is before it has seen too.
SeenOrder ==
  \A p, q \in Ops : Before(p, q) /\ op[q].kind = "stop" /\ op[p].kind \in {"run", "stop"} => op[q].seen \subseteq op[p].seen

\* Somebody further down the line will name the state.
Backed(p) == \E q \in Ops : Before(p, q) /\ Settler(op[q])

\* The state says that something may source where nothing is owned.
Unsettled == active = {} /\ (state = "running" \/ (state = "ready" /\ out # {}))

Clear == active = {} /\ ~Unsettled

\* A stop that was overtaken need not name the state: a fault is latched which no
\* RUN is about to consume, there is nothing to settle, or all is being ended.
Excused == (Faulted /\ ~\E h \in Ops : lock = h /\ op[h].pc = "probe") \/ Clear \/ Ending

Marked(p) == InLine(p) /\ op[p].kind = "stop" /\ op[p].pc \in {"lock", "stop"} /\ op[p].seen # {}

MarkedStops == \A p \in Ops : Marked(p) => Backed(p) \/ ("full" \in op[p].seen /\ ~cooled /\ Excused)

\* So with a RUN that was overtaken before its start.
MarkedRuns ==
  \A p \in Ops : lock = p /\ (op[p].pc = "authority_off" \/ (op[p].pc = "target_off" /\ op[p].seen # {})) =>
    Faulted \/ Backed(p)

\* Somebody is under way who will name the state.
SettlerComes == Unsettled => \E p \in Ops : Settler(op[p])

\* The line as it was.
LEMMA SameOrder ==
  ASSUME UNCHANGED <<lock, queue>>
  PROVE  /\ \A x \in Ops : InLine(x)' <=> InLine(x)
         /\ \A x, y \in Ops : Before(x, y)' <=> Before(x, y)
BY DEF InLine, Before

\* What holds of the line after any step of the holder,
LEMMA HolderLine ==
  ASSUME Safe, NEW p \in Ops, HolderStep(p)
  PROVE  /\ lock = p /\ lock' \in {p, "none"} /\ OrderKept(p) /\ lock # "none"
         /\ \A y \in Ops : ~Before(y, p) /\ ~Before(y, p)'
         /\ \A y \in Ops : Before(p, y)' <=> lock' = p /\ Before(p, y)
         /\ InLine(p)' <=> lock' = p
         /\ \A y \in Ops \ {p} : InLine(y) => Before(p, y)
<1>1. lock = p /\ queue' = queue
  BY DEF HolderStep
<1>2. lock' \in {p, "none"}
  BY DEF HolderStep, Latches, TakesOver, StaysFaulted, Plain, Starts, Publishes, Settles, Walks, Yields, Consumes, Acknowledges,
         Leaves, Stays
<1>3. \A y \in Ops \ {p} : InLine(y) => Before(p, y)
  BY <1>1 DEF InLine, Before
<1> QED BY <1>1, <1>2, <1>3, HolderOrder

\* ... and after any step beside it.
LEMMA BesideLine ==
  ASSUME Safe, NEW p \in Ops, Beside(p)
  PROVE  /\ OrderKept(p) /\ lock' \in {lock, p, "none"}
         /\ lock' = p => Grants(p) \/ Hears(p)
         /\ lock' # p => lock' \in {lock, "none"}
<1>1. CASE UNCHANGED <<lock, queue>>
  <2>1. lock = p => ~Raises(p) /\ ~AlarmSettles(p)
    BY OutOfLine DEF Raises, AlarmSettles, Holding
  <2>2. lock = p => ~Joins(p) /\ (Moves(p) => lock' = "none")
    BY DEF Joins, Moves
  <2> QED BY <1>1, <2>1, <2>2, SameOrder DEF Beside, OrderKept
<1>2. CASE ~UNCHANGED <<lock, queue>>
  <2>1. Grants(p) \/ Joins(p) \/ Moves(p)
    BY <1>2 DEF Beside, Hears, Raises, AlarmSettles
  <2> QED BY <2>1 DEF Grants, Joins, Moves, OrderKept
<1> QED BY <1>1, <1>2

\* Who settles keeps doing so, unless a new abort overtakes it.
LEMMA BackedKept ==
  ASSUME Safe, NEW p \in Ops, HolderStep(p) \/ Grants(p) \/ Moves(p) \/ AlarmSettles(p), Alone(p),
         NEW x \in Ops, Backed(x), x # p \/ lock' = p
  PROVE  Backed(x)'
<1>1. PICK s \in Ops : Before(x, s) /\ Settler(op[s])
  BY DEF Backed
<1>2. CASE HolderStep(p)
  <2>1. s # p /\ Before(x, s)'
    BY <1>1, <1>2, HolderLine DEF OrderKept
  <2> QED BY <1>1, <2>1 DEF Backed, Alone
<1>3. CASE Grants(p)
  <2>1. Before(x, s)' /\ (Settler(op[s]))'
    BY <1>1, <1>3 DEF Grants, Alone, Same, Settler
  <2> QED BY <2>1 DEF Backed
<1>4. CASE Moves(p) \/ AlarmSettles(p)
  <2>1. s # p /\ lock' # p
    BY <1>1, <1>4, OutOfLine DEF Moves, AlarmSettles, Settler, Holding
  <2>2. Before(x, s)'
    BY <1>1, <1>4, <2>1, BesideLine DEF Beside, OrderKept
  <2> QED BY <1>1, <2>1, <2>2 DEF Backed, Alone
<1> QED BY <1>2, <1>3, <1>4

LEMMA BackedStays ==
  ASSUME NEW x \in Ops, Backed(x), Watches \/ \E o \in Ops : Hears(o)
  PROVE  Backed(x)'
<1>1. UNCHANGED <<lock, queue>> /\ \A q \in Ops : Settler(op'[q]) <=> Settler(op[q])
  BY DEF Watches, Hears, Same, Settler
<1> QED BY <1>1, SameOrder DEF Backed

\* Whoever is in the line when an OFF request joins it is backed by it.
LEMMA JoinBacks ==
  ASSUME NEW p \in Ops, Joins(p), NEW x \in Ops \ {p}, InLine(x)
  PROVE  Backed(x)'
BY DEF Joins, Backed

\* What an abort marks, it marks for all.
LEMMA OrderedMarks ==
  ASSUME TypesOK, SeenOrder, NEW x \in Ops, NEW y \in Ops, Before(x, y),
         \/ op'[x] = op[x] /\ op'[y] = op[y]
         \/ \E s : op'[x] = Mark(op, s)[x] /\ op'[y] = Mark(op, s)[y],
         op'[y].kind = "stop", op'[x].kind \in {"run", "stop"}
  PROVE  op'[y].seen \subseteq op'[x].seen
<1>1. CASE op'[x] = op[x] /\ op'[y] = op[y]
  BY <1>1 DEF SeenOrder
<1>2. ASSUME NEW s, op'[x] = Mark(op, s)[x], op'[y] = Mark(op, s)[y] PROVE op'[y].seen \subseteq op'[x].seen
  <2>1. ASSUME NEW u \in Ops, op'[u] = Mark(op, s)[u]
        PROVE  /\ op'[u].kind = op[u].kind
               /\ op'[u].seen = IF op[u].kind \in {"run", "stop"} THEN op[u].seen \cup {s} ELSE op[u].seen
    BY <2>1, MarkCarries DEF Carried
  <2> QED BY <1>2, <2>1 DEF SeenOrder
<1> QED BY <1>1, <1>2

LEMMA SeenOrderKept ==
  ASSUME TypesOK, Safe, SeenOrder, StepKind
  PROVE  SeenOrder'
<1> DEFINE ordered(x, y) == op'[y].kind = "stop" /\ op'[x].kind \in {"run", "stop"} => op'[y].seen \subseteq op'[x].seen
<1>1. ASSUME NEW p \in Ops, HolderStep(p), NEW x \in Ops, NEW y \in Ops, Before(x, y)' PROVE ordered(x, y)
  <2>0. y # p /\ Before(x, y)
    BY <1>1, HolderLine DEF OrderKept
  <2>1. CASE x # p
    <3>1. Latches(p) \/ TakesOver(p) \/ Alone(p)
      BY <1>1 DEF HolderStep, StaysFaulted, Plain, Starts, Publishes, Settles, Walks, Yields, Consumes, Acknowledges
    <3>2. \/ op'[x] = op[x] /\ op'[y] = op[y]
          \/ op'[x] = Mark(op, "full")[x] /\ op'[y] = Mark(op, "full")[y]
      BY <2>0, <2>1, <3>1 DEF Latches, TakesOver, Alone
    <3> QED BY <2>0, <3>2, OrderedMarks
  <2>2. CASE x = p
    <3>0. lock' = p /\ lock' # "none"
      BY <1>1, <2>2, HolderLine
    <3>1. CASE Latches(p)
      <4>1. op'[y].kind = op[y].kind /\ op'[y].seen \subseteq op[y].seen \cup {"full"}
        BY <2>0, <3>1, MarkCarries DEF Latches, Carried
      <4> QED BY <2>0, <2>2, <3>1, <4>1 DEF Latches, SeenOrder
    <3>2. CASE TakesOver(p)
      BY <2>2, <3>2 DEF TakesOver, EndsAll
    <3>3. CASE ~Latches(p) /\ ~TakesOver(p)
      <4>1. Stays(p) /\ Alone(p)
        BY <1>1, <3>0, <3>3 DEF HolderStep, StaysFaulted, Plain, Starts, Publishes, Settles, Walks, Yields, Consumes,
                                Acknowledges, Leaves
      <4> QED BY <2>0, <2>2, <4>1 DEF Stays, Alone, SeenOrder
    <3> QED BY <3>1, <3>2, <3>3
  <2> QED BY <2>1, <2>2
<1>2. ASSUME NEW p \in Ops, Beside(p), NEW x \in Ops, NEW y \in Ops, Before(x, y)' PROVE ordered(x, y)
  <2>1. CASE Hears(p)
    BY <1>2, <2>1, SameOrder DEF Hears, Same, SeenOrder
  <2>2. CASE Grants(p)
    BY <1>2, <2>2 DEF Grants, Same, Alone, SeenOrder
  <2>3. CASE Joins(p) \/ Moves(p) \/ Raises(p) \/ AlarmSettles(p)
    <3>1. CASE x # p /\ y # p
      <4>1. Before(x, y)
        BY <1>2, <3>1, BesideLine DEF OrderKept
      <4>2. \/ op'[x] = op[x] /\ op'[y] = op[y]
            \/ \E s : op'[x] = Mark(op, s)[x] /\ op'[y] = Mark(op, s)[y]
        BY <2>3, <3>1 DEF Joins, Moves, Raises, AlarmSettles, Alone
      <4> QED BY <4>1, <4>2, OrderedMarks
    <3>2. CASE x = p \/ y = p
      BY <1>2, <2>3, <3>2 DEF Joins, Moves, Raises, AlarmSettles
    <3> QED BY <3>1, <3>2
  <2> QED BY <1>2, <2>1, <2>2, <2>3 DEF Beside
<1>3. ASSUME Watches, NEW x \in Ops, NEW y \in Ops, Before(x, y)' PROVE ordered(x, y)
  BY <1>3, SameOrder DEF Watches, SeenOrder
<1>4. \A x, y \in Ops : Before(x, y)' => ordered(x, y)
  BY <1>1, <1>2, <1>3 DEF StepKind
<1> QED BY <1>4 DEF SeenOrder

\* A step that owns nothing more and names no state keeps what is settled.
LEMMA ClearKept ==
  ASSUME Clear, active' \subseteq active, out' \subseteq out,
         state' = state \/ state' \notin {"running", "ready"}
  PROVE  Clear'
BY DEF Clear, Unsettled

\* A cooldown that has not elapsed does not elapse in another step.
LEMMA StaysWarm ==
  ASSUME Clock, ~CooldownElapses, ~cooled
  PROVE  ~cooled'
<1>1. (cooled' = (cooled /\ state' = "fault_latched")) => ~cooled'
  BY Zenon
<1>2. UNCHANGED <<cooled, state>> => ~cooled'
  OBVIOUS
<1> QED BY <1>1, <1>2 DEF Clock

\* A marked stop stays excused unless the fault is about to be left.
LEMMA MarkedBefore ==
  ASSUME MarkedStops, Overtaken, CooledDown, Clock, ~CooldownElapses, NEW x \in Ops, Marked(x), ~Backed(x)
  PROVE  "full" \in op[x].seen /\ ~cooled /\ ~cooled' /\ Excused
<1>1. "full" \in op[x].seen /\ ~cooled /\ Excused
  BY DEF MarkedStops
<1> QED BY <1>1, StaysWarm

LEMMA HolderMarkedStops ==
  ASSUME TypesOK, Safe, Safe', Steady, SeenOrder, MarkedStops, Clock, ~CooldownElapses,
         NEW p \in Ops, HolderStep(p), NEW x \in Ops, Marked(x)'
  PROVE  Backed(x)' \/ ("full" \in op'[x].seen /\ ~cooled' /\ Excused')
<1>0. lock = p /\ Placed(p, op[p]) /\ Placed(p, op'[p]) /\ lock # "none"
  BY HolderLine DEF Safe, Control
<1>1. x # p => InLine(x) /\ Before(p, x)
  BY HolderLine DEF Marked, OrderKept
<1>2. x = p => lock' = p
  BY HolderLine DEF Marked
<1>c. (~Faulted => ~cooled) /\ (~cooled => ~cooled')
  BY StaysWarm DEF Steady, CooledDown
<1>s. ASSUME op[p].kind = "run", op[p].seen = {}, x # p, op'[x] = op[x] PROVE FALSE
  <2>1. op[x].kind = "stop" /\ op[x].seen # {}
    BY <1>s DEF Marked
  <2> QED BY <1>1, <1>s, <2>1 DEF SeenOrder
<1>m. ASSUME op'[x] = Mark(op, "full")[x] PROVE "full" \in op'[x].seen
  <2>1. Carried(x) /\ op'[x].seen = IF op[x].kind \in {"run", "stop"} THEN op[x].seen \cup {"full"} ELSE op[x].seen
    BY <1>m, MarkCarries
  <2>2. op'[x].kind = "stop"
    BY DEF Marked
  <2> QED BY <2>1, <2>2 DEF Carried
<1>k. ASSUME Alone(p), Marked(x), Excused => Excused'
      PROVE  Backed(x)' \/ ("full" \in op[x].seen /\ ~cooled' /\ Excused')
  <2>1. CASE Backed(x)
    BY <1>2, <1>k, <2>1, BackedKept
  <2>2. CASE ~Backed(x)
    BY <1>k, <2>2, MarkedBefore DEF Steady
  <2> QED BY <2>1, <2>2
<1>o. x # p /\ Alone(p) => Marked(x) /\ op'[x] = op[x]
  BY <1>1 DEF Marked, Alone
<1>3. CASE Latches(p)
  <2>1. x # p
    BY <1>3 DEF Latches, Settling, Marked
  <2>2. "full" \in op'[x].seen /\ ~cooled'
    BY <1>3, <1>c, <1>m, <2>1 DEF Latches
  <2>3. Excused'
    BY <1>3 DEF Latches, Settling, Excused, Faulted
  <2> QED BY <2>2, <2>3
<1>4. CASE TakesOver(p)
  <2>1. x # p
    BY <1>4 DEF TakesOver, EndsAll, Marked
  <2>2. ~cooled
    BY <1>4 DEF TakesOver, Steady, CooledDown
  <2>3. Excused'
    BY <1>4 DEF TakesOver, Excused, Ending
  <2> QED BY <1>4, <1>c, <1>m, <2>1, <2>2, <2>3 DEF TakesOver
<1>5. CASE StaysFaulted(p)
  <2>1. Marked(x) /\ op'[x].seen = op[x].seen
    <3>1. CASE x = p
      <4>1. Stays(p) /\ op'[p].pc = "stop" /\ op[p].pc = "stop"
        BY <1>0, <1>2, <1>5, <3>1 DEF StaysFaulted, Leaves, Marked
      <4> QED BY <1>0, <3>1, <4>1 DEF Marked, Stays, InLine
    <3> QED BY <1>5, <1>o, <3>1 DEF StaysFaulted
  <2>2. lock' = p => op'[p].pc # "probe"
    <3> SUFFICES ASSUME lock' = p, op'[p].pc = "probe" PROVE FALSE
      OBVIOUS
    <3>1. x # p
      BY DEF Marked
    <3>2. Stays(p) /\ op[p].seen = {} /\ op'[p].kind = "run"
      BY <1>0, <1>5 DEF StaysFaulted, Leaves, Placed, Fits, Rest
    <3> QED BY <1>5, <1>o, <1>s, <3>1, <3>2 DEF StaysFaulted, Stays
  <2>3. Excused'
    <3>1. lock' \in {p, "none"} /\ Faulted'
      BY <1>5, HolderLine DEF StaysFaulted, Faulted
    <3> QED BY <2>2, <3>1 DEF Excused
  <2> QED BY <1>5, <1>k, <2>1, <2>3 DEF StaysFaulted
<1>6. CASE Plain(p)
  <2>1. Marked(x) /\ op'[x].seen = op[x].seen
    <3>1. CASE x = p
      <4>1. Stays(p) /\ op'[p].pc = "stop" /\ op[p].pc = "lock"
        BY <1>0, <1>2, <1>6, <3>1 DEF Plain, Leaves, Proceeds, Marked
      <4> QED BY <1>0, <3>1, <4>1 DEF Marked, Stays, InLine
    <3> QED BY <1>6, <1>o, <3>1 DEF Plain
  <2>2. Ending => Ending'
    <3> SUFFICES ASSUME EndsAll(op[p]) PROVE Ending'
      BY <1>0 DEF Ending
    <3>1. Stays(p) /\ EndsAll(op'[p])
      BY <1>6 DEF Plain, EndsAll, Stays, Proceeds
    <3> QED BY <3>1 DEF Ending, Stays
  <2>3. Clear => Clear'
    BY <1>6, ClearKept DEF Plain, Still
  <2>4. Excused => Excused'
    BY <1>6, <2>2, <2>3 DEF Excused, Plain
  <2> QED BY <1>6, <1>k, <2>1, <2>4 DEF Plain
<1>7. CASE Starts(p) \/ Publishes(p)
  <2>1. op[p].kind = "run" /\ op[p].seen = {} /\ Alone(p) /\ x # p
    BY <1>0, <1>7 DEF Starts, Publishes, Placed, Fits, Rest, Marked
  <2> QED BY <1>o, <1>s, <2>1
<1>8. CASE Settles(p)
  <2>1. x # p /\ Alone(p)
    BY <1>0, <1>2, <1>8 DEF Settles, Leaves
  <2>2. Excused => Excused'
    <3>1. ASSUME Clear PROVE Clear'
      <4>1. active' = {} /\ out' \subseteq out
        BY <1>8, <3>1 DEF Settles, Clear, Still
      <4> QED BY <1>8, <3>1, <4>1, ClearKept DEF Settles
    <3>2. ASSUME Ending PROVE Clear'
      <4>1. EndsAll(op[p])
        BY <1>0, <3>2 DEF Ending
      <4>2. active' = {}
        BY <1>8, <4>1 DEF Settles, EndsAll
      <4> QED BY <1>8, <4>2 DEF Settles, Clear, Unsettled
    <3> QED BY <1>8, <3>1, <3>2 DEF Settles, Excused
  <2> QED BY <1>k, <1>o, <2>1, <2>2
<1>9. CASE Walks(p)
  <2>1. Marked(x) /\ op'[x].seen = op[x].seen
    <3>1. CASE x = p
      BY <1>0, <1>9, <3>1 DEF Walks, Stays, Marked, InLine
    <3> QED BY <1>9, <1>o, <3>1 DEF Walks
  <2>2. Excused => Excused'
    <3>1. ASSUME Clear PROVE Clear'
      <4>1. active' = {} /\ active' \subseteq active /\ out' \subseteq out
        BY <1>9, <3>1 DEF Walks, Clear, Still
      <4>2. state' = state \/ state' = "safe_off"
        BY <1>9, <4>1 DEF Walks
      <4> QED BY <3>1, <4>1, <4>2, ClearKept
    <3>2. ~Faulted /\ ~Ending
      BY <1>0, <1>9 DEF Walks, Ending, EndsAll
    <3> QED BY <3>1, <3>2 DEF Excused
  <2> QED BY <1>9, <1>k, <2>1, <2>2 DEF Walks
<1>10. CASE Yields(p)
  <2>1. x # p /\ Alone(p)
    BY <1>0, <1>2, <1>10 DEF Yields, Leaves
  <2>2. Excused => Excused'
    <3>1. Clear => Clear'
      BY <1>10, ClearKept DEF Yields, Still
    <3>2. ~Faulted /\ ~Ending
      BY <1>0, <1>10 DEF Yields, Ending, EndsAll
    <3> QED BY <3>1, <3>2 DEF Excused
  <2> QED BY <1>k, <1>o, <2>1, <2>2
<1>11. CASE Consumes(p)
  <2>1. x # p /\ Alone(p)
    BY <1>0, <1>2, <1>11 DEF Consumes, Leaves, Stays, Marked
  <2>2. op[p].pc = "probe"
    BY <1>11, <1>o, <1>s, <2>1 DEF Consumes
  <2>3. Excused => Excused'
    <3>1. Clear => Clear'
      BY <1>11, ClearKept DEF Consumes, Still
    <3>2. ~Ending
      BY <1>0, <1>11 DEF Consumes, Ending, EndsAll
    <3> QED BY <1>0, <2>2, <3>1, <3>2 DEF Excused
  <2> QED BY <1>k, <1>o, <2>1, <2>3
<1>12. CASE Acknowledges(p)
  <2>1. x # p /\ Alone(p)
    BY <1>0, <1>2, <1>12 DEF Acknowledges, Leaves
  <2>2. Backed(x)
    BY <1>12, <1>o, <2>1, MarkedBefore DEF Acknowledges, Steady
  <2> QED BY <2>1, <2>2, BackedKept
<1> QED BY <1>3, <1>4, <1>5, <1>6, <1>7, <1>8, <1>9, <1>10, <1>11, <1>12 DEF HolderStep

LEMMA BesideMarkedStops ==
  ASSUME TypesOK, Safe, Safe', Steady, MarkedStops, Clock, ~CooldownElapses,
         NEW p \in Ops, Beside(p), NEW x \in Ops, Marked(x)'
  PROVE  Backed(x)' \/ ("full" \in op'[x].seen /\ ~cooled' /\ Excused')
<1>k. ASSUME Marked(x), op[x].seen \subseteq op'[x].seen, Backed(x) => Backed(x)', Excused => Excused'
      PROVE  Backed(x)' \/ ("full" \in op'[x].seen /\ ~cooled' /\ Excused')
  BY <1>k, MarkedBefore DEF Steady
<1>1. CASE Hears(p)
  <2>1. Marked(x) /\ op'[x].seen = op[x].seen
    BY <1>1, SameOrder DEF Hears, Same, Marked
  <2>2. Clear => Clear'
    <3>1. state = "ready" => out' \subseteq out
      BY <1>1 DEF Hears, Steady, StartState
    <3> QED BY <1>1, <3>1 DEF Hears, Clear, Unsettled
  <2>3. Excused => Excused'
    BY <1>1, <2>2 DEF Hears, Same, Excused, Ending, EndsAll, Faulted
  <2> QED BY <1>1, <1>k, <2>1, <2>3, BackedStays
<1>2. CASE Grants(p)
  <2>1. Marked(x) /\ op'[x].seen = op[x].seen
    BY <1>2 DEF Grants, Same, Alone, Marked
  <2>2. Excused => Excused'
    BY <1>2 DEF Grants, Same, Unchanged, Excused, Ending, Clear, Unsettled, Faulted, LockWaits
  <2>3. Backed(x) => Backed(x)'
    BY <1>2, BackedKept DEF Grants
  <2> QED BY <1>k, <2>1, <2>2, <2>3
<1>3. CASE Joins(p)
  <2>1. x # p
    BY <1>3 DEF Joins, Marked
  <2>2. InLine(x)
    BY <1>3, <2>1 DEF Joins, OrderKept, Marked
  <2> QED BY <1>3, <2>1, <2>2, JoinBacks
<1>4. CASE Moves(p) \/ AlarmSettles(p)
  <2>1. x # p /\ Alone(p) /\ lock' # p /\ lock' \in {lock, "none"}
    BY <1>4, OutOfLine DEF Moves, AlarmSettles, Marked, Holding
  <2>2. Marked(x) /\ op'[x] = op[x]
    BY <1>4, <2>1, BesideLine DEF Beside, Marked, OrderKept, Alone
  <2>3. Backed(x) => Backed(x)'
    BY <1>4, <2>1, BackedKept
  <2>4. Clear => Clear'
    BY <1>4 DEF Moves, AlarmSettles, Unchanged, Clear, Unsettled
  <2>5. Ending => Ending'
    <3> SUFFICES ASSUME NEW h \in Ops, lock = h, EndsAll(op[h]) PROVE Ending'
      BY DEF Ending
    <3>1. h # p /\ lock' = h
      BY <1>4, <2>1 DEF Moves, AlarmSettles, EndsAll
    <3> QED BY <2>1, <3>1 DEF Ending, Alone
  <2>6. (Faulted /\ ~\E h \in Ops : lock = h /\ op[h].pc = "probe") => (Faulted /\ ~\E h \in Ops : lock = h /\ op[h].pc = "probe")'
    BY <1>4, <2>1 DEF Moves, AlarmSettles, Unchanged, Faulted, Alone
  <2> QED BY <1>k, <2>2, <2>3, <2>4, <2>5, <2>6 DEF Excused
<1>5. CASE Raises(p)
  <2>1. x # p
    BY <1>5 DEF Raises, Marked
  <2>2. Carried(x) /\ op'[x].seen = IF op[x].kind \in {"run", "stop"} THEN op[x].seen \cup {"full"} ELSE op[x].seen
    BY <1>5, <2>1, MarkCarries DEF Raises
  <2>3. "full" \in op'[x].seen
    BY <2>2 DEF Carried, Marked
  <2>4. ~cooled'
    BY <1>5, StaysWarm DEF Raises, Steady, CooledDown
  <2>5. Excused'
    <3>1. Faulted' /\ lock' = lock /\ lock # p
      BY <1>5 DEF Raises, Faulted
    <3>2. ASSUME NEW h \in Ops, lock = h, op'[h].pc = "probe" PROVE FALSE
      <4>1. op[h].pc = "probe"
        BY <1>5, <3>1, <3>2, OthersCarried DEF Carried
      <4> QED BY <1>5, <4>1 DEF Raises, Safe, Control, Guarded, Faulted
    <3> QED BY <3>1, <3>2 DEF Excused
  <2> QED BY <2>3, <2>4, <2>5
<1> QED BY <1>1, <1>2, <1>3, <1>4, <1>5 DEF Beside

LEMMA MarkedStopsKept ==
  ASSUME TypesOK, Safe, Safe', Steady, SeenOrder, MarkedStops, StepKind, Clock
  PROVE  MarkedStops'
<1> SUFFICES ASSUME NEW x \in Ops, Marked(x)'
             PROVE  Backed(x)' \/ ("full" \in op'[x].seen /\ ~cooled' /\ Excused')
  BY DEF MarkedStops
<1>1. CASE CooldownElapses
  <2>1. UNCHANGED <<op, lock, queue>> /\ "full" \notin op[x].seen
    BY <1>1 DEF CooldownElapses, locks
  <2>2. Backed(x)
    BY <2>1, SameOrder DEF Marked, MarkedStops
  <2> QED BY <2>1, <2>2, SameOrder DEF Backed
<1>2. CASE ~CooldownElapses /\ Watches
  <2>1. UNCHANGED <<active, op, lock, queue, out>> /\ Marked(x)
    BY <1>2, SameOrder DEF Watches, Marked
  <2>2. CASE Backed(x)
    BY <1>2, <2>2, BackedStays
  <2>3. CASE ~Backed(x)
    <3>1. "full" \in op[x].seen /\ ~cooled' /\ Excused
      BY <1>2, <2>1, <2>3, MarkedBefore DEF Steady
    <3>2. Excused'
      BY <1>2, <2>1, <3>1 DEF Watches, Excused, Ending, Clear, Unsettled, Faulted
    <3> QED BY <2>1, <3>1, <3>2
  <2> QED BY <2>2, <2>3
<1> QED BY <1>1, <1>2, HolderMarkedStops, BesideMarkedStops DEF StepKind

LEMMA MarkedRunsKept ==
  ASSUME TypesOK, Safe, MarkedRuns, StepKind
  PROVE  MarkedRuns'
<1> DEFINE late(x) == op'[x].pc = "authority_off" \/ (op'[x].pc = "target_off" /\ op'[x].seen # {})
<1> SUFFICES ASSUME NEW x \in Ops, lock' = x, late(x) PROVE Faulted' \/ Backed(x)'
  BY DEF MarkedRuns
<1>1. ASSUME NEW p \in Ops, HolderStep(p) PROVE Faulted' \/ Backed(x)'
  <2>0. x = p /\ lock = p /\ lock' = p
    BY <1>1, HolderLine
  <2>1. ~TakesOver(p) /\ ~Starts(p) /\ ~Publishes(p) /\ ~Walks(p) /\ ~Consumes(p)
    BY <2>0 DEF TakesOver, EndsAll, Starts, Publishes, Walks, Consumes, Leaves, Stays
  <2>2. ~Settles(p) /\ ~Yields(p) /\ ~Acknowledges(p)
    BY <2>0 DEF Settles, Yields, Acknowledges, Leaves
  <2>3. Latches(p) \/ StaysFaulted(p) => Faulted'
    BY DEF Latches, StaysFaulted, Faulted
  <2>4. CASE Plain(p)
    <3>1. Backed(p) /\ Alone(p)
      BY <2>0, <2>4 DEF Plain, Leaves, Stays, Proceeds, MarkedRuns
    <3> QED BY <1>1, <2>0, <3>1, BackedKept
  <2> QED BY <1>1, <2>1, <2>2, <2>3, <2>4 DEF HolderStep
<1>2. ASSUME NEW p \in Ops, Beside(p) PROVE Faulted' \/ Backed(x)'
  <2>1. CASE Hears(p)
    BY <2>1, BackedStays DEF Hears, Same, MarkedRuns, Faulted
  <2>2. CASE Raises(p)
    BY <2>2 DEF Raises, Faulted
  <2>3. ~Grants(p)
    BY DEF Grants, Same, LockWaits
  <2>4. CASE Joins(p)
    <3>1. x # p /\ lock = x
      BY <2>4 DEF Joins
    <3> QED BY <2>4, <3>1, JoinBacks DEF InLine
  <2>5. CASE Moves(p) \/ AlarmSettles(p)
    <3>1. x # p /\ lock = x /\ Alone(p) /\ UNCHANGED state
      BY <2>5, OutOfLine DEF Moves, AlarmSettles, Holding, Unchanged
    <3>2. Faulted \/ Backed(x)
      BY <3>1 DEF Alone, MarkedRuns
    <3> QED BY <2>5, <3>1, <3>2, BackedKept DEF Faulted
  <2> QED BY <1>2, <2>1, <2>2, <2>3, <2>4, <2>5 DEF Beside
<1>3. CASE Watches
  BY <1>3, BackedStays DEF Watches, MarkedRuns, Faulted
<1> QED BY <1>1, <1>2, <1>3 DEF StepKind

\* Whoever is to name the state does, or relies on somebody who will.
LEMMA SettlerComesKept ==
  ASSUME TypesOK, Safe, Steady, LateAlarms, MarkedStops, MarkedRuns, SettlerComes, StepKind
  PROVE  SettlerComes'
<1> SUFFICES ASSUME Unsettled' PROVE \E s \in Ops : Settler(op'[s])
  BY DEF SettlerComes
<1>b. ASSUME NEW p \in Ops, HolderStep(p), Backed(p), Alone(p) PROVE \E s \in Ops : Settler(op'[s])
  <2>1. PICK s \in Ops : Before(p, s) /\ Settler(op[s])
    BY <1>b DEF Backed
  <2>2. s # p
    BY <1>b, <2>1, HolderLine
  <2> QED BY <1>b, <2>1, <2>2 DEF Alone
<1>1. ASSUME NEW p \in Ops, HolderStep(p) PROVE \E s \in Ops : Settler(op'[s])
  <2>0. lock = p /\ Placed(p, op[p])
    BY <1>1 DEF HolderStep, Safe, Control
  <2>1. ~Latches(p) /\ ~StaysFaulted(p) /\ ~Publishes(p) /\ ~Settles(p) /\ ~Consumes(p) /\ ~Acknowledges(p)
    BY DEF Latches, StaysFaulted, Publishes, Settles, Consumes, Acknowledges, Unsettled
  <2>2. CASE TakesOver(p)
    BY <2>2 DEF TakesOver, EndsAll, Settler
  <2>3. CASE Plain(p)
    <3>1. Unsettled
      BY <2>3 DEF Plain, Still, Unsettled
    <3>2. PICK s \in Ops : Settler(op[s])
      BY <3>1 DEF SettlerComes
    <3>3. CASE s = p
      BY <2>3, <3>2, <3>3 DEF Plain, Settler, Stays, Proceeds
    <3>4. CASE s # p
      BY <2>3, <3>2, <3>4 DEF Plain, Alone
    <3> QED BY <3>3, <3>4
  <2>4. CASE Starts(p)
    <3>1. Unsettled /\ op[p].kind = "run" /\ Alone(p)
      BY <2>4 DEF Starts, Unsettled
    <3>2. PICK s \in Ops : Settler(op[s])
      BY <3>1 DEF SettlerComes
    <3>3. s # p
      BY <3>1, <3>2 DEF Settler
    <3> QED BY <3>1, <3>2, <3>3 DEF Alone
  <2>5. CASE Walks(p)
    <3>1. CASE op[p].seen = {}
      <4>1. op'[p].pc = "stop"
        BY <2>5, <3>1 DEF Walks, Steady, CutSeen, Unsettled
      <4> QED BY <2>5, <3>1, <4>1 DEF Walks, Stays, Settler
    <3>2. CASE op[p].seen # {}
      <4>1. Marked(p) /\ ~Faulted /\ ~Ending /\ Alone(p)
        BY <2>0, <2>5, <3>2 DEF Walks, Marked, InLine, Ending, EndsAll
      <4>2. ~Clear
        <5>1. state' = state
          BY <2>5, <3>2 DEF Walks
        <5> QED BY <2>5, <5>1 DEF Walks, Still, Clear, Unsettled
      <4>3. Backed(p)
        BY <4>1, <4>2 DEF MarkedStops, Excused
      <4> QED BY <1>1, <1>b, <4>1, <4>3
    <3> QED BY <3>1, <3>2
  <2>6. CASE Yields(p)
    <3>1. Backed(p) /\ Alone(p)
      BY <2>0, <2>6 DEF Yields, MarkedRuns
    <3> QED BY <1>1, <1>b, <3>1
  <2> QED BY <1>1, <2>1, <2>2, <2>3, <2>4, <2>5, <2>6 DEF HolderStep
<1>2. ASSUME NEW p \in Ops, Beside(p) PROVE \E s \in Ops : Settler(op'[s])
  <2>1. CASE Hears(p)
    <3>1. state = "ready" => out' \subseteq out
      BY <2>1 DEF Hears, Steady, StartState
    <3>2. Unsettled
      BY <2>1, <3>1 DEF Hears, Unsettled
    <3> QED BY <2>1, <3>2 DEF Hears, Same, Settler, SettlerComes
  <2>2. CASE Joins(p)
    BY <2>2 DEF Joins
  <2>3. ~Raises(p)
    BY DEF Raises, Unsettled
  <2>4. CASE Grants(p)
    <3>1. Unsettled
      BY <2>4 DEF Grants, Unchanged, Unsettled
    <3> QED BY <2>4, <3>1 DEF Grants, Same, Alone, Settler, SettlerComes
  <2>5. CASE Moves(p) \/ AlarmSettles(p)
    <3>1. Unsettled
      <4>1. CASE Moves(p)
        BY <4>1 DEF Moves, Unchanged, Unsettled
      <4>2. CASE AlarmSettles(p) /\ op[p].res = "ok"
        BY <4>2 DEF AlarmSettles, Steady, AlarmOff, LateAlarms, Late, Faulted, Unsettled
      <4>3. CASE AlarmSettles(p) /\ op[p].res # "ok"
        BY <4>3 DEF AlarmSettles, Unsettled
      <4> QED BY <2>5, <4>1, <4>2, <4>3
    <3>2. PICK s \in Ops : Settler(op[s])
      BY <3>1 DEF SettlerComes
    <3> QED BY <2>5, <3>2 DEF Moves, AlarmSettles, Alone, Settler
  <2> QED BY <1>2, <2>1, <2>2, <2>3, <2>4, <2>5 DEF Beside
<1>3. CASE Watches
  BY <1>3 DEF Watches, Unsettled, SettlerComes
<1> QED BY <1>1, <1>2, <1>3 DEF StepKind


(***************************************************************************)
(* The invariant of the settled state.                                     *)
(***************************************************************************)

\* ManagerInv, with what holds of the state while somebody is under way, and
\* who will name it.
SettlingInv ==
  /\ ManagerInv
  /\ Steady /\ Apart /\ LateAlarms
  /\ SeenOrder /\ MarkedStops /\ MarkedRuns /\ SettlerComes

LEMMA InitSettling == Init => SettlingInv
<1> SUFFICES ASSUME Init PROVE SettlingInv
  OBVIOUS
<1>1. ManagerInv /\ Steady
  BY InitIInv, InitControls, InitClaims, InitSteady DEF ManagerInv
<1>2. \A p \in Ops : op[p] = Resting("idle") /\ call[p] = NoCall
  BY DEF Init, ContractInit
<1>3. state = "safe_off" /\ lock = "none" /\ queue = <<>>
  BY DEF Init
<1>4. Apart /\ LateAlarms
  BY <1>2 DEF Apart, LateAlarms, Late, NoCall, Resting
<1>5. MarkedStops /\ MarkedRuns
  BY <1>2 DEF MarkedStops, MarkedRuns, Marked, Resting
<1>6. SeenOrder /\ SettlerComes
  BY <1>2, <1>3 DEF SeenOrder, SettlerComes, Unsettled, Resting
<1> QED BY <1>1, <1>4, <1>5, <1>6 DEF SettlingInv

LEMMA NextSettling == SettlingInv /\ [Next]_vars => SettlingInv'
<1> SUFFICES ASSUME SettlingInv, [Next]_vars PROVE SettlingInv'
  OBVIOUS
<1>1. IInv' /\ TypesOK /\ ContractInv /\ Safe /\ Claims
  BY NextIInv DEF SettlingInv, ManagerInv, IInv
<1>2. Safe' /\ Claims'
  BY <1>1, NextControls, NextClaims
<1>3. Steady /\ Apart /\ LateAlarms /\ SeenOrder /\ MarkedStops /\ MarkedRuns /\ SettlerComes
  BY DEF SettlingInv
<1>4. StartAims /\ AlarmAims /\ OwnFaults
  BY <1>3 DEF Steady
<1>5. StepKind /\ Clock
  BY <1>1, <1>4, StepKinds
<1>6. Steady' /\ Apart' /\ LateAlarms'
  BY <1>1, <1>2, <1>3, <1>4, <1>5, SteadyKept, ApartKept, LateAlarmsKept
<1>7. SeenOrder' /\ MarkedStops' /\ MarkedRuns' /\ SettlerComes'
  BY <1>1, <1>2, <1>3, <1>5, SeenOrderKept, MarkedStopsKept, MarkedRunsKept, SettlerComesKept
<1> QED BY <1>1, <1>2, <1>6, <1>7 DEF SettlingInv, ManagerInv

\* With everybody at rest nobody holds the lock, and nobody is left to settle.
LEMMA SettlingSettles == SettlingInv => SettledStateAgrees
<1> SUFFICES ASSUME SettlingInv, \A p \in Ops : op[p].pc \in Rest
             PROVE  state # "run_permitted" /\ ~Unsettled
  BY DEF SettledStateAgrees, Unsettled
<1>1. state # "run_permitted"
  BY DEF SettlingInv, Steady, Permitted, EndsAll, Rest
<1>2. ~Unsettled
  BY DEF SettlingInv, SettlerComes, Settler, Rest
<1> QED BY <1>1, <1>2

(***************************************************************************)
(* The theorems.                                                           *)
(***************************************************************************)

\* The state keeps its types and _cmd_lock belongs to whoever is past it, for any
\* number of channels, requests and alarms.
THEOREM StateKeepsTypes == Spec => []TypeOK
<1>1. ManagerInv => TypeOK
  BY DEF ManagerInv, IInv, TypeOK, Safe, Control, Line, Holding
<1> QED BY <1>1, InvariantHolds, PTL

\* Whatever calls overlap, fail or are cancelled: while the safety layer holds
\* verified-OFF evidence (_reviewed_source_off_evidence), no output is on.
THEOREM EvidenceIsHonest == Spec => []EvidenceHonest
<1>1. ManagerInv => EvidenceHonest
  BY DEF ManagerInv, IInv, EvidenceHonest
<1> QED BY <1>1, InvariantHolds, PTL

\* request_run calls start_source only for a RUN that no OFF request, interlock or
\* fault has overtaken since it was submitted, wherever it waited meanwhile.
THEOREM OvertakenRunsStartNothing == Spec => NoStartAfterAbort
<1>1. ManagerInv /\ [Next]_vars =>
        [\A p \in Runs : call[p].kind = "none" /\ call'[p].kind = "start" =>
           op[p].seen = {} /\ state' \in {"run_permitted", "running"}]_vars
  BY StartsOnlyWhenPermitted
<1> QED BY <1>1, InvariantHolds, PTL DEF Spec, NoStartAfterAbort

\* A latched fault is left only by acknowledge_fault, or by a RUN that consumes a
\* recoverable latch under the command lock: no stop, rollback or late
\* continuation overwrites it.
THEOREM LatchedFaultsSurvive == Spec => LatchSurvives
<1>1. ManagerInv /\ [Next]_vars =>
        [Faulted /\ state' # "fault_latched" =>
           \/ state' = "manual_recovery"
           \/ /\ sources \cap {"interlock", "persistence"} # {} /\ sources' = {}
              /\ \E p \in Runs : op[p].pc \in {"preflight", "commit", "probe"} /\ lock = p]_vars
  BY LatchGivenUp
<1> QED BY <1>1, InvariantHolds, PTL DEF Spec, LatchSurvives

\* Success means what it says.  A RUN that answers "ok" leaves its output on, owned,
\* supervised, and with nobody switching it off; request_stop, emergency_off and
\* the interlock answer "ok" only over outputs that are off and no longer owned,
\* whatever fault, abort or other OFF arrived since they were settled.
THEOREM SuccessMeansWhatItSays == Spec => SuccessHolds
<1>1. ManagerInv /\ [Next]_vars =>
        [\A p \in Runs : Returns(p, "ok") =>
           /\ op[p].scope \subseteq out' \cap active' \cap running'
           /\ state' = "running" /\ BeingSwitchedOff' \cap op[p].scope = {}]_vars
  BY RunOkLive DEF ManagerInv, IInv
<1>2. ManagerInv /\ [Next]_vars =>
        [\A p \in Stops : Returns(p, "ok") /\ op[p].kind # "acknowledge" =>
           op[p].scope \cap (out' \cup active') = {}]_vars
  BY StopOkOff DEF ManagerInv, IInv
<1> QED BY <1>1, <1>2, InvariantHolds, PTL DEF Spec, SuccessHolds, RunOkIsLive, StopOkMeansOff

\* Once every coroutine has returned, the state agrees with what is owned: it is
\* not left at RUN_PERMITTED by a start that came to nothing, it says RUNNING only
\* while a source is active, and READY without one only over outputs that are off,
\* in whatever order OFF requests, faults and RUNs overtook each other.
THEOREM SettledStatesAgree == Spec => []SettledStateAgrees
<1>1. Init => SettlingInv
  BY InitSettling
<1>2. SettlingInv /\ [Next]_vars => SettlingInv'
  BY NextSettling
<1>3. SettlingInv => SettledStateAgrees
  BY SettlingSettles
<1> QED BY <1>1, <1>2, <1>3, PTL DEF Spec
=============================================================================

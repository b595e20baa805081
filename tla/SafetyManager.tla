--------------------------- MODULE SafetyManager ---------------------------
(***************************************************************************)
(* core/safety_manager.py: the one owner of source authority.  RUN, STOP,  *)
(* emergency OFF, interlock and acknowledge requests are serialised by     *)
(* _cmd_lock; faults latch and settle outside it, at any await of a lock   *)
(* holder.                                                                 *)
(*                                                                         *)
(* Every operation is a coroutine; a step is the code between two awaits   *)
(* on a lock, a driver call, a publication or a receipt.  Awaits that only *)
(* write logs or publish a state nobody acts upon are folded into the next *)
(* step.  A driver call's answer makes its waiters ready (`res`), and the  *)
(* event loop runs ready coroutines before it takes up new events.         *)
(*                                                                         *)
(* The monotone abort generations are kept as what each operation compares *)
(* them for: `seen`, the scopes registered since it sampled them, and for  *)
(* the retained global-OFF task whether its generation is still current.   *)
(***************************************************************************)
EXTENDS SourceContract, Naturals, Sequences

CONSTANTS Runs,      \* request_run callers
          Stops,     \* callers of request_stop, emergency_off, interlocks, acknowledge
          Alarms     \* monitor, interlock and writer tasks that raise faults

Ops == Runs \cup Stops \cup Alarms

ASSUME OpsAssumption ==
  /\ Owners = Ops
  /\ Runs \cap Stops = {} /\ Runs \cap Alarms = {} /\ Stops \cap Alarms = {}
  /\ "none" \notin Ops

VARIABLES
  state,      \* SafetyState
  active,     \* _active_sources
  sources,    \* _fault_sources
  evidence,   \* _reviewed_source_off_evidence.verified_off
  op,         \* the operations
  lock,       \* _cmd_lock
  queue,      \* operations waiting for it, in order of arrival
  runLock,    \* _run_request_lock
  retained,   \* the retained global-OFF task and the generations it answers
  latchNow,   \* _latched_fault_abort_generation = _abort_generation
  cooled      \* cooldown_before_rearm_s has passed since the latch

mgr == <<state, active, sources, evidence>>
locks == <<lock, queue, runLock>>
tasks == <<retained, latchNow>>
vars == <<mgr, op, locks, tasks, cooled, drv>>

States == {"safe_off", "ready", "run_permitted", "running", "fault_latched", "manual_recovery"}
Origins == {"safety_manager", "interlock", "persistence"}
Reconciliation == "hazardous_success_reconciliation"
PostPublication == "run_post_publication_reconciliation"

NoTask == [task |-> "none", now |-> FALSE, latch |-> FALSE]

\* At rest: "ok" when the last request returned success.
Resting(verdict) == [pc |-> verdict, kind |-> "none", scope |-> {}, todo |-> {}, phase |-> "none",
                     seen |-> {}, cut |-> FALSE, via |-> "none", res |-> "none"]

Rest == {"idle", "ok"}

\* Points where an operation awaits a driver call.
DriverAwaits == {"target_off", "authority_off", "start", "late_off", "abort_off", "revoke_off",
                 "emergency", "stop", "fault_stop", "interlock",
                 "settle", "settle_then_proof", "settle_then_stop", "proof", "stop_reconcile"}

LockWaits == {"preflight", "commit", "lock"}

Faulted == state = "fault_latched"

\* Where an operation can be between two steps.
Points == Rest \cup DriverAwaits \cup LockWaits \cup {"run_lock", "probe", "warn", "publish", "stop_publish"}

OpRecords ==
  [pc : Points, kind : {"none", "run", "stop", "emergency", "interlock", "acknowledge", "fault"},
   scope : SUBSET Channels, todo : SUBSET Channels, phase : {"none", "preflight", "commit"},
   seen : SUBSET {"channel", "full"}, cut : BOOLEAN,
   via : Ops \cup {"none"}, res : {"none", "ok", "failed"}]

\* The retained global-OFF task: whose call it is, and the generations it answers.
Tasks == [task : Ops \cup {"none"}, now : BOOLEAN, latch : BOOLEAN]

\* The types of the state.
TypesOK ==
  /\ ContractTypeOK
  /\ state \in States /\ active \subseteq Channels /\ evidence \in BOOLEAN
  /\ sources \subseteq Origins \cup {Reconciliation, PostPublication}
  /\ op \in [Ops -> OpRecords]
  /\ lock \in Ops \cup {"none"} /\ runLock \in Ops \cup {"none"}
  /\ retained \in Tasks
  /\ latchNow \in BOOLEAN /\ cooled \in BOOLEAN

\* The types, and _cmd_lock belongs to whoever is past it.
TypeOK ==
  /\ TypesOK /\ queue \in Seq(Ops)
  /\ \A p \in Ops : lock = p <=>
       /\ op[p].kind # "fault"
       /\ \/ op[p].pc \in DriverAwaits \cup {"probe", "publish", "stop_publish"}
          \/ op[p].pc \in LockWaits /\ op[p].res = "ok"

Init ==
  /\ ContractInit
  /\ state = "safe_off" /\ active = {} /\ sources = {} /\ evidence = TRUE
  /\ op = [p \in Ops |-> Resting("idle")]
  /\ lock = "none" /\ queue = <<>> /\ runLock = "none"
  /\ retained = NoTask /\ latchNow = FALSE /\ cooled = FALSE

\* Ready coroutines run before the loop takes up anything else.
Quiet == (\A p \in Ops : op[p].res = "none") /\ (lock = "none" => queue = <<>>)

(***************************************************************************)
(* Building blocks.  `f` is op as the step has updated it so far.          *)
(***************************************************************************)

\* _register_abort_intent, as the operations in flight will read it.
Mark(f, scope) ==
  [p \in Ops |-> IF f[p].kind \in {"run", "stop"} THEN [f[p] EXCEPT !.seen = @ \cup {scope}] ELSE f[p]]

\* ... and as the generations kept by the latch and the retained task.
AbortRegistered == retained' = [retained EXCEPT !.now = FALSE] /\ latchNow' = FALSE

\* The snapshot refresh: the driver's negative cache dominates older evidence.
Refreshed(e) == e /\ proved = Channels

\* DEFECT: an operation that ends keeps the command lock.
ReturnKeepingLock(p, f, verdict) ==
  /\ op' = [f EXCEPT ![p] = Resting(verdict)]
  /\ runLock' = IF runLock = p THEN "none" ELSE runLock
  /\ UNCHANGED <<lock, queue>>

Return(p, f, verdict) ==
  /\ op' = [f EXCEPT ![p] = Resting(verdict)]
  /\ lock' = IF lock = p THEN "none" ELSE lock
  /\ runLock' = IF runLock = p THEN "none" ELSE runLock
  /\ UNCHANGED queue

\* async with _cmd_lock: an asyncio.Lock is granted in order of arrival.
Enqueue(p) == queue' = Append(queue, p) /\ UNCHANGED lock

\* A waiter that is cancelled gives up its place.
Leave(p) ==
  \/ /\ \A i \in DOMAIN queue : queue[i] # p
     /\ UNCHANGED queue
  \/ \E i \in DOMAIN queue :
       /\ queue[i] = p
       /\ queue' = SubSeq(queue, 1, i - 1) \o SubSeq(queue, i + 1, Len(queue))

AwaitOff(p, f, pc, scope) ==
  /\ op' = [f EXCEPT ![p].pc = pc, ![p].via = p, ![p].res = "none", ![p].scope = scope]
  /\ BeginOffCall(p, scope)

\* _ensure_output_off(None): join the retained task if it answers the required
\* abort generation (the latch's, or the current one), else start one.
AwaitGlobalOff(p, f, pc, latch) ==
  IF retained.task # "none" /\ (IF latch THEN retained.latch ELSE retained.now)
  THEN /\ op' = [f EXCEPT ![p].pc = pc, ![p].via = retained.task, ![p].res = "none", ![p].scope = Channels]
       /\ UNCHANGED <<retained, drv>>
  ELSE /\ AwaitOff(p, f, pc, Channels)
       /\ retained' = [task |-> p,
                       now |-> latch => latchNow,
                       latch |-> latch \/ latchNow]

\* _ensure_output_off(channel or None).
EnsureOff(p, f, pc, scope) ==
  /\ IF scope = Channels
     THEN AwaitGlobalOff(p, f, pc, FALSE)
     ELSE AwaitOff(p, f, pc, scope) /\ UNCHANGED retained
  /\ UNCHANGED latchNow

\* DEFECT: a target-scoped OFF becomes global OFF truth.
EvidencePromoted(scope, ok) == ok

\* What _ensure_output_off leaves as OFF evidence.
EvidenceAfter(scope, ok) == Refreshed(IF scope = Channels THEN ok ELSE ok /\ evidence)

\* _begin_fault_latch when not yet latched, with the OFF that settles it.
Latch(p, f, src, pc) ==
  /\ state' = "fault_latched" /\ sources' = {src}
  /\ AwaitOff(p, Mark(f, "full"), pc, Channels)
  /\ retained' = [task |-> p, now |-> TRUE, latch |-> TRUE] /\ latchNow' = TRUE

\* _fault as the last act of an operation that then returns: settle the new
\* latch, or join an existing one.
FaultAndReturn(p, f, src) ==
  IF Faulted
  THEN /\ sources' = sources \cup {src} /\ UNCHANGED <<state, tasks, drv>>
       /\ Return(p, f, "idle")
  ELSE Latch(p, f, src, "settle") /\ UNCHANGED locks

\* An ownership conflict: driver and manager disagree on what is sourcing, or
\* the driver saw an unmanaged output (`hazard`).
Conflict(owned, hazard) == running # owned \/ hazard

Hazards == IF active = Channels THEN {FALSE} ELSE BOOLEAN

\* _reconcile_hazardous_success on a conflict: latch if need be, and settle OFF
\* in any case before proving it once more.
Reconcile(p, f) ==
  /\ UNCHANGED locks
  /\ IF Faulted
     THEN /\ sources' = sources \cup {Reconciliation} /\ UNCHANGED <<state, latchNow>>
          /\ AwaitGlobalOff(p, f, "settle_then_proof", TRUE)
     ELSE Latch(p, f, Reconciliation, "settle_then_proof")

(***************************************************************************)
(* Driver calls and the command lock.                                      *)
(***************************************************************************)

\* The call of o ends: whoever awaits it becomes ready.
Deliver(o, ok) ==
  /\ op' = [p \in Ops |-> IF op[p].via = o
                          THEN [op[p] EXCEPT !.via = "none", !.res = IF ok THEN "ok" ELSE "failed"]
                          ELSE op[p]]
  /\ retained' = IF retained.task = o THEN NoTask ELSE retained
  /\ UNCHANGED <<mgr, locks, latchNow>>

OffCallReturns(o) == \E ok \in BOOLEAN : OffReturns(o, ok) /\ Deliver(o, ok)

StartCallReturns(o) == \E ok \in BOOLEAN : StartReturns(o, ok) /\ Deliver(o, ok)

\* _cmd_lock is granted.
Grant(p) ==
  /\ lock = "none" /\ queue # <<>> /\ p = Head(queue)
  /\ lock' = p /\ queue' = Tail(queue) /\ op' = [op EXCEPT ![p].res = "ok"]
  /\ UNCHANGED <<mgr, runLock, tasks, drv>>

Resumed(p, pc) == op[p].pc = pc /\ op[p].res # "none"

Succeeded(p) == op[p].res = "ok"

(***************************************************************************)
(* emergency_off.  A RUN whose caller vanished or that could not be         *)
(* published continues here too, under the lock it already holds, and does *)
(* not return success.                                                     *)
(***************************************************************************)

SubmitEmergency(p, scope) ==
  /\ op[p].pc \in Rest
  /\ op' = [Mark(op, IF scope = Channels THEN "full" ELSE "channel")
              EXCEPT ![p] = [Resting("lock") EXCEPT !.kind = "emergency", !.scope = scope]]
  /\ AbortRegistered
  /\ Enqueue(p) /\ UNCHANGED <<mgr, runLock, drv>>

BecomeEmergency(p) ==
  /\ op' = [Mark(op, "full") EXCEPT ![p] = [Resting("lock") EXCEPT !.kind = "emergency", !.scope = Channels,
                                                                   !.res = "ok"]]
  /\ AbortRegistered
  /\ UNCHANGED <<mgr, locks, drv>>

EmergencyLocked(p) ==
  /\ Resumed(p, "lock") /\ op[p].kind = "emergency"
  /\ \E hazard \in Hazards :
       IF Conflict(active, hazard)
       THEN Reconcile(p, op)
       ELSE EnsureOff(p, op, "emergency", op[p].scope) /\ UNCHANGED <<state, sources, locks>>
  /\ evidence' = Refreshed(evidence)
  /\ UNCHANGED active

\* DEFECT: an OFF the device did not confirm is taken for OFF.
EmergencySettledUnconfirmed(p) ==
  /\ Resumed(p, "emergency")
  /\ evidence' = EvidenceAfter(op[p].scope, Succeeded(p))
  /\ active' = active \ op[p].scope
  /\ state' = IF Faulted \/ active' # {} THEN state ELSE "safe_off"
  /\ Return(p, op, IF p \in Runs THEN "idle" ELSE "ok")
  /\ UNCHANGED <<sources, tasks, drv>>

\* DEFECT: the state is not settled once nothing sources any more.
EmergencySettledSilently(p) ==
  /\ Resumed(p, "emergency")
  /\ evidence' = EvidenceAfter(op[p].scope, Succeeded(p))
  /\ IF ~Succeeded(p)
     THEN FaultAndReturn(p, op, "safety_manager") /\ UNCHANGED active
     ELSE /\ active' = active \ op[p].scope
          /\ Return(p, op, IF p \in Runs THEN "idle" ELSE "ok")
          /\ UNCHANGED <<state, sources, tasks, drv>>

EmergencySettled(p) ==
  /\ Resumed(p, "emergency")
  /\ evidence' = EvidenceAfter(op[p].scope, Succeeded(p))
  /\ IF ~Succeeded(p)
     THEN FaultAndReturn(p, op, "safety_manager") /\ UNCHANGED active
     ELSE /\ active' = active \ op[p].scope
          /\ \E hazard \in Hazards :
               IF Conflict(active', hazard)
               THEN Reconcile(p, op)
               ELSE /\ state' = IF Faulted \/ active' # {} THEN state ELSE "safe_off"
                    /\ Return(p, op, IF p \in Runs THEN "idle" ELSE "ok")
                    /\ UNCHANGED <<sources, tasks, drv>>

(***************************************************************************)
(* request_stop: each channel stopped in turn.                             *)
(***************************************************************************)

SubmitStop(p, scope) ==
  /\ op[p].pc \in Rest
  /\ op' = [Mark(op, IF scope = Channels THEN "full" ELSE "channel")
              EXCEPT ![p] = [Resting("lock") EXCEPT !.kind = "stop", !.scope = scope, !.todo = scope]]
  /\ AbortRegistered
  /\ Enqueue(p) /\ UNCHANGED <<mgr, runLock, drv>>

\* stop_source of one of the channels left; op.cut remembers the interruption.
StopNext(p, f) ==
  \E c \in f[p].todo :
    /\ op' = [f EXCEPT ![p].pc = "stop", ![p].via = p, ![p].res = "none", ![p].todo = @ \ {c}]
    /\ BeginOffCall(p, {c})

StopLocked(p) ==
  /\ Resumed(p, "lock") /\ op[p].kind = "stop"
  /\ \E hazard \in Hazards :
       IF Conflict(active, hazard) THEN Reconcile(p, op)
       ELSE /\ IF Faulted THEN EnsureOff(p, op, "fault_stop", op[p].scope)
                          ELSE StopNext(p, op) /\ UNCHANGED tasks
            /\ UNCHANGED <<state, sources, locks>>
  /\ evidence' = Refreshed(evidence)
  /\ UNCHANGED active

\* A stop beside a latched fault repeats the OFF and is refused.
FaultStopSettled(p) ==
  /\ Resumed(p, "fault_stop")
  /\ evidence' = EvidenceAfter(op[p].scope, Succeeded(p))
  /\ Return(p, op, "idle")
  /\ UNCHANGED <<state, active, sources, tasks, drv>>

\* _safe_off: one stop_source has returned.
StopSettled(p) ==
  /\ Resumed(p, "stop")
  /\ LET cut == op[p].cut \/ ~Succeeded(p) \/ Faulted \/ op[p].seen # {}
         f == [op EXCEPT ![p].cut = cut, ![p].pc = "stop_reconcile"]
     IN IF ~Succeeded(p)
        THEN /\ evidence' = Refreshed(evidence) /\ UNCHANGED <<active, locks>>
             /\ IF Faulted
                THEN /\ sources' = sources \cup {"safety_manager"}
                     /\ op' = f /\ UNCHANGED <<state, tasks, drv>>
                ELSE Latch(p, f, "safety_manager", "settle_then_stop")
        ELSE /\ active' = active \ (op[p].scope \ op[p].todo)
             /\ IF op[p].todo # {}
                THEN StopNext(p, f) /\ evidence' = Refreshed(evidence) /\ UNCHANGED state
                ELSE /\ op' = f /\ UNCHANGED drv
                     /\ state' = IF cut THEN state ELSE IF active' # {} THEN "running" ELSE "safe_off"
                     /\ evidence' = (Refreshed(evidence) /\ (cut \/ active' # {}))
             /\ UNCHANGED <<sources, locks, tasks>>

StopReconcile(p) ==
  /\ Resumed(p, "stop_reconcile")
  /\ \E hazard \in Hazards :
       IF Conflict(active, hazard) THEN Reconcile(p, op)
       ELSE /\ op' = [op EXCEPT ![p].pc = "stop_publish", ![p].res = "none"]
            /\ UNCHANGED <<state, sources, locks, tasks, drv>>
  /\ evidence' = Refreshed(evidence)
  /\ UNCHANGED active

\* Success only if nothing competed, up to the end of the publication.
StopPublished(p) ==
  /\ op[p].pc = "stop_publish"
  /\ Return(p, op, IF op[p].cut \/ Faulted \/ op[p].seen # {} THEN "idle" ELSE "ok")
  /\ UNCHANGED <<mgr, tasks, drv>>

(***************************************************************************)
(* Interlock action stop_source, and acknowledge_fault.                    *)
(***************************************************************************)

\* The trip registers its full abort before the owned task waits for the lock.
SubmitInterlockStop(p) ==
  /\ op[p].pc \in Rest
  /\ op' = [Mark(op, "full") EXCEPT ![p] = [Resting("lock") EXCEPT !.kind = "interlock", !.scope = Channels]]
  /\ AbortRegistered
  /\ Enqueue(p) /\ UNCHANGED <<mgr, runLock, drv>>

\* The OFF goes to the driver directly, not through the retained task.
InterlockLocked(p) ==
  /\ Resumed(p, "lock") /\ op[p].kind = "interlock"
  /\ AwaitOff(p, op, "interlock", Channels)
  /\ UNCHANGED <<mgr, locks, tasks>>

InterlockSettled(p) ==
  /\ Resumed(p, "interlock")
  /\ IF ~Succeeded(p)
     THEN /\ FaultAndReturn(p, op, "safety_manager")
          /\ evidence' = Refreshed(evidence) /\ UNCHANGED active
     ELSE /\ active' = {} /\ evidence' = Refreshed(TRUE)
          /\ state' = IF state \in {"fault_latched", "manual_recovery"} THEN state ELSE "safe_off"
          /\ Return(p, op, "ok")
          /\ UNCHANGED <<sources, tasks, drv>>

SubmitAcknowledge(p) ==
  /\ op[p].pc \in Rest
  /\ op' = [op EXCEPT ![p] = [Resting("lock") EXCEPT !.kind = "acknowledge"]]
  /\ Enqueue(p) /\ UNCHANGED <<mgr, runLock, tasks, drv>>

\* Refused without a fault, a reason, the cooldown, or the watchdog's consent.
AcknowledgeLocked(p) ==
  /\ Resumed(p, "lock") /\ op[p].kind = "acknowledge"
  /\ \/ /\ Faulted /\ cooled /\ state' = "manual_recovery"
        /\ evidence' = Refreshed(evidence) /\ Return(p, op, "ok")
     \/ UNCHANGED <<state, evidence>> /\ Return(p, op, "idle")
  /\ UNCHANGED <<active, sources, tasks, drv>>

(***************************************************************************)
(* Faults and their settlement.                                            *)
(***************************************************************************)

\* latch_fault, on_persistence_failure, an emergency_off interlock, the monitor:
\* outside every lock.
RaiseFault(p, src) ==
  /\ op[p].pc \in Rest
  /\ evidence' = Refreshed(evidence)
  /\ IF Faulted
     THEN sources' = sources \cup {src} /\ UNCHANGED <<state, op, tasks, drv>>
     ELSE Latch(p, [op EXCEPT ![p].kind = "fault"], src, "settle")
  /\ UNCHANGED <<active, locks>>

\* _settle_latched_fault: sources are dropped only on a confirmed OFF.
FaultSettled(p) ==
  /\ op[p].pc \in {"settle", "settle_then_proof", "settle_then_stop"} /\ op[p].res # "none"
  /\ active' = IF Succeeded(p) THEN {} ELSE active
  /\ evidence' = Refreshed(Succeeded(p))
  /\ CASE op[p].pc = "settle" -> Return(p, op, "idle") /\ UNCHANGED <<tasks, drv>>
       [] op[p].pc = "settle_then_proof" ->
            AwaitGlobalOff(p, op, "proof", FALSE) /\ UNCHANGED <<locks, latchNow>>
       [] op[p].pc = "settle_then_stop" ->
            op' = [op EXCEPT ![p].pc = "stop_reconcile", ![p].res = "ok"] /\ UNCHANGED <<locks, tasks, drv>>
  /\ UNCHANGED <<state, sources>>

\* The last proof of a reconciliation: the request is refused in any case.
ProofSettled(p) ==
  /\ Resumed(p, "proof")
  /\ active' = IF Succeeded(p) THEN {} ELSE active
  /\ evidence' = EvidenceAfter(Channels, Succeeded(p))
  /\ Return(p, op, "idle")
  /\ UNCHANGED <<state, sources, tasks, drv>>

(***************************************************************************)
(* request_run.                                                            *)
(***************************************************************************)

Target(p) == op[p].scope

\* The abort generations are sampled here, before any wait.
SubmitRun(p, c) ==
  /\ op[p].pc \in Rest
  /\ op' = [op EXCEPT ![p] = [Resting("run_lock") EXCEPT !.kind = "run", !.scope = {c}]]
  /\ UNCHANGED <<mgr, locks, tasks, drv>>

AcquireRunLock(p) ==
  /\ op[p].pc = "run_lock" /\ runLock = "none"
  /\ runLock' = p /\ op' = [op EXCEPT ![p].pc = "preflight", ![p].phase = "preflight"]
  /\ Enqueue(p) /\ UNCHANGED <<mgr, tasks, drv>>

\* The caller gives up while the RUN waits for a lock, the probe or the receipt.
RunCancelled(p) ==
  /\ op[p].kind = "run" /\ op[p].res = "none"
  /\ op[p].pc \in {"run_lock", "preflight", "commit", "probe", "warn"}
  /\ op' = [op EXCEPT ![p] = Resting("idle")]
  /\ lock' = IF lock = p THEN "none" ELSE lock
  /\ runLock' = IF runLock = p THEN "none" ELSE runLock
  /\ Leave(p)
  /\ UNCHANGED <<mgr, tasks, drv>>

\* _check_preconditions, the part about OFF: with nothing owned, both the
\* manager's evidence and the driver's cache must say OFF.  Inputs, connection and
\* qualification may refuse at any time besides.
Preconditions == active = {} => evidence /\ proved = Channels

\* start_source: the OFF evidence is given up first.
StartSource(p, st) ==
  /\ evidence' = FALSE
  /\ state' = IF st = "running" THEN st ELSE "run_permitted"
  /\ \E c \in Target(p) : BeginStartCall(p, c)
  /\ op' = [op EXCEPT ![p].pc = "start", ![p].via = p, ![p].res = "none"]

\* The checks of _request_run_locked from state st on, and what the phase does:
\* release the lock for the receipt, or prove the target OFF, or start.
Admit(p, st) ==
  \/ /\ state' = st /\ evidence' = Refreshed(evidence)
     /\ Return(p, op, "idle") /\ UNCHANGED drv
  \/ /\ st \in {"safe_off", "ready", "running"} /\ Target(p) \cap active = {} /\ Preconditions
     /\ \/ /\ op[p].phase = "preflight"
           /\ state' = st /\ evidence' = Refreshed(evidence)
           /\ op' = [op EXCEPT ![p].pc = "warn", ![p].res = "none"]
           /\ lock' = "none" /\ UNCHANGED <<queue, runLock, drv>>
        \/ /\ op[p].phase = "commit" /\ active # {}
           /\ state' = st /\ evidence' = Refreshed(evidence)
           /\ AwaitOff(p, op, "target_off", Target(p)) /\ UNCHANGED locks
        \/ /\ op[p].phase = "commit" /\ active = {}
           /\ StartSource(p, st) /\ UNCHANGED locks

\* A latch of a single recoverable origin is consumed by the Start itself.
ConsumeLatch(p) == sources' = {} /\ latchNow' = FALSE /\ Admit(p, "safe_off")

\* The two admissions, preflight and commit: refused after any abort, or over a
\* latch that only acknowledge_fault may clear.
RunAdmission(p) ==
  /\ Resumed(p, op[p].phase)
  /\ \/ /\ op[p].seen # {} \/ (Faulted /\ sources \notin {{"interlock"}, {"persistence"}})
        /\ Return(p, op, "idle") /\ UNCHANGED <<state, sources, evidence, latchNow, drv>>
     \/ /\ op[p].seen = {} /\ Faulted /\ sources = {"interlock"}
        /\ ConsumeLatch(p)
     \/ /\ op[p].seen = {} /\ Faulted /\ sources = {"persistence"}
        /\ op' = [op EXCEPT ![p].pc = "probe", ![p].res = "none"]
        /\ UNCHANGED <<state, sources, evidence, locks, latchNow, drv>>
     \/ /\ op[p].seen = {} /\ ~Faulted
        /\ UNCHANGED <<sources, latchNow>> /\ Admit(p, state)
  /\ UNCHANGED <<active, retained>>

\* The writer's probe answers: a recovered writer consumes the latch.
ProbeReturns(p) ==
  /\ op[p].pc = "probe"
  /\ \/ Return(p, op, "idle") /\ UNCHANGED <<state, sources, evidence, latchNow, drv>>
     \/ ConsumeLatch(p)
  /\ UNCHANGED <<active, retained>>

\* The warning receipt is written, or has failed; an abort meanwhile refuses.
WarningSettled(p) ==
  /\ op[p].pc = "warn"
  /\ IF op[p].seen # {}
     THEN Return(p, op, "idle")
     ELSE op' = [op EXCEPT ![p].pc = "commit", ![p].phase = "commit"] /\ Enqueue(p) /\ UNCHANGED runLock
  /\ UNCHANGED <<mgr, tasks, drv>>

\* DEFECT: authority is not looked at again after the target's OFF proof.
TargetOffSettledBlindly(p) ==
  /\ Resumed(p, "target_off")
  /\ IF Succeeded(p)
     THEN StartSource(p, state) /\ UNCHANGED <<sources, locks, tasks>>
     ELSE FaultAndReturn(p, op, "safety_manager") /\ evidence' = Refreshed(evidence)
  /\ UNCHANGED active

\* The target's own OFF proof, before a second channel is added.
TargetOffSettled(p) ==
  /\ Resumed(p, "target_off")
  /\ IF ~Succeeded(p)
     THEN FaultAndReturn(p, op, "safety_manager") /\ evidence' = Refreshed(evidence)
     ELSE IF Faulted \/ "full" \in op[p].seen
     THEN /\ EnsureOff(p, op, "authority_off", Channels)
          /\ evidence' = Refreshed(evidence) /\ UNCHANGED <<state, sources, locks>>
     ELSE IF op[p].seen # {}
     THEN Return(p, op, "idle") /\ UNCHANGED <<state, sources, evidence, tasks, drv>>
     ELSE StartSource(p, state) /\ UNCHANGED <<sources, locks, tasks>>
  /\ UNCHANGED active

AuthorityOffSettled(p) ==
  /\ Resumed(p, "authority_off")
  /\ evidence' = EvidenceAfter(Channels, Succeeded(p))
  /\ IF Succeeded(p)
     THEN /\ active' = {} /\ Return(p, op, "idle") /\ UNCHANGED <<state, sources, tasks, drv>>
     ELSE FaultAndReturn(p, op, "safety_manager") /\ UNCHANGED active

\* start_source has returned, with the caller still there.
StartSettled(p) ==
  /\ Resumed(p, "start")
  /\ IF ~Succeeded(p)
     THEN FaultAndReturn(p, op, "safety_manager") /\ UNCHANGED <<active, evidence>>
     ELSE IF Faulted
     THEN /\ EnsureOff(p, op, "late_off", Channels) /\ UNCHANGED <<mgr, locks>>
     ELSE IF op[p].seen # {}
     THEN /\ EnsureOff(p, op, "abort_off", IF "full" \in op[p].seen THEN Channels ELSE Target(p))
          /\ UNCHANGED <<mgr, locks>>
     ELSE /\ active' = active \cup Target(p) /\ state' = "running"
          /\ op' = [op EXCEPT ![p].pc = "publish", ![p].res = "none"]
          /\ UNCHANGED <<sources, evidence, locks, tasks, drv>>

\* ... or with the caller gone.
StartCallerGone(p) == Resumed(p, "start") /\ BecomeEmergency(p)

\* The OFF after a fault during the start: its result is only evidence.
LateOffSettled(p) ==
  /\ Resumed(p, "late_off")
  /\ evidence' = EvidenceAfter(Channels, Succeeded(p))
  /\ Return(p, op, "idle")
  /\ UNCHANGED <<state, active, sources, tasks, drv>>

\* DEFECT: a late rollback settles the state over a latched fault.
SettleOverFault(a) == IF a # {} THEN "running" ELSE "safe_off"

\* The state an operation leaves behind when a is what still sources.
Settle(a) == IF Faulted THEN state ELSE IF a # {} THEN "running" ELSE "safe_off"

\* An abort during the start: the new output is off again, nothing committed.
AbortOffSettled(p) ==
  /\ Resumed(p, "abort_off")
  /\ evidence' = EvidenceAfter(op[p].scope, Succeeded(p))
  /\ IF ~Succeeded(p)
     THEN FaultAndReturn(p, op, "safety_manager") /\ UNCHANGED active
     ELSE /\ active' = IF op[p].scope = Channels /\ ~Faulted THEN {} ELSE active
          /\ state' = Settle(active')
          /\ Return(p, op, "idle") /\ UNCHANGED <<sources, tasks, drv>>

\* The activation is published: one last authority cut decides the receipt.
RunPublished(p) ==
  /\ op[p].pc = "publish"
  /\ \E hazard \in Hazards :
       IF ~Faulted /\ (state # "running" \/ ~(Target(p) \subseteq active) \/ Conflict(active, hazard))
       THEN Latch(p, op, PostPublication, "settle") /\ UNCHANGED <<active, evidence, locks>>
       ELSE IF Faulted \/ op[p].seen # {}
       THEN /\ EnsureOff(p, op, "revoke_off", IF Faulted \/ "full" \in op[p].seen THEN Channels ELSE Target(p))
            /\ UNCHANGED <<mgr, locks>>
       ELSE Return(p, op, "ok") /\ UNCHANGED <<mgr, tasks, drv>>

\* The publication failed or its caller is gone.
RunUnacknowledged(p) == op[p].pc = "publish" /\ BecomeEmergency(p)

RevokeOffSettled(p) ==
  /\ Resumed(p, "revoke_off")
  /\ evidence' = EvidenceAfter(op[p].scope, Succeeded(p))
  /\ IF ~Succeeded(p) /\ ~Faulted
     THEN Latch(p, op, PostPublication, "settle") /\ UNCHANGED <<active, locks>>
     ELSE /\ active' = IF Succeeded(p) THEN active \ op[p].scope ELSE active
          /\ state' = Settle(active')
          /\ Return(p, op, "idle") /\ UNCHANGED <<sources, tasks, drv>>

(***************************************************************************)
(* The monitor, outside every lock.                                        *)
(***************************************************************************)

MonitorReady ==
  /\ state \in {"manual_recovery", "safe_off"} /\ Preconditions
  /\ state' = "ready" /\ evidence' = Refreshed(evidence)
  /\ UNCHANGED <<active, sources, op, locks, tasks, drv>>

\* The cooldown (60 s) outlasts whatever was in flight when the fault latched.
CooldownElapses ==
  /\ Faulted /\ ~cooled /\ cooled' = TRUE
  /\ \A p \in Ops : "full" \notin op[p].seen /\ op[p].pc \notin {"settle", "settle_then_proof", "settle_then_stop"}
  /\ UNCHANGED <<mgr, op, locks, tasks, drv>>

\* Evidence expires, or is revoked by a READY that is not qualified.
EvidenceExpires ==
  /\ evidence /\ evidence' = FALSE
  /\ UNCHANGED <<state, active, sources, op, locks, tasks, drv>>

DriverLosesProofs == ProofsLost /\ UNCHANGED <<mgr, op, locks, tasks>>

Scopes == {Channels} \cup {{c} : c \in Channels}

\* _fault_time is set by the latch.
FaultClock == cooled' = (cooled /\ state' = "fault_latched")

\* A ready coroutine continues.
Resume(p) ==
  \/ EmergencyLocked(p) \/ EmergencySettled(p)
  \/ StopLocked(p) \/ FaultStopSettled(p) \/ StopSettled(p) \/ StopReconcile(p)
  \/ InterlockLocked(p) \/ InterlockSettled(p) \/ AcknowledgeLocked(p)
  \/ FaultSettled(p) \/ ProofSettled(p)
  \/ RunAdmission(p) \/ TargetOffSettled(p) \/ AuthorityOffSettled(p)
  \/ StartSettled(p) \/ StartCallerGone(p) \/ LateOffSettled(p) \/ AbortOffSettled(p) \/ RevokeOffSettled(p)

\* Something an operation awaits, other than a driver call, ends.
AwaitEnds(p) ==
  \/ AcquireRunLock(p)
  \/ ProbeReturns(p) \/ WarningSettled(p) \/ RunPublished(p) \/ RunUnacknowledged(p) \/ StopPublished(p)

Submit ==
  \/ \E p \in Runs : (\E c \in Channels : SubmitRun(p, c)) \/ RunCancelled(p)
  \/ \E p \in Stops :
       \/ \E scope \in Scopes : SubmitEmergency(p, scope) \/ SubmitStop(p, scope)
       \/ SubmitInterlockStop(p) \/ SubmitAcknowledge(p)
  \/ \E p \in Alarms, src \in Origins : RaiseFault(p, src)

\* The event loop: what is ready first, then new events.
Step ==
  \/ \E p \in Ops : Resume(p) \/ Grant(p)
  \/ Quiet /\ \/ \E p \in Ops : AwaitEnds(p) \/ OffCallReturns(p) \/ StartCallReturns(p)
              \/ Submit \/ MonitorReady \/ EvidenceExpires \/ DriverLosesProofs

Next ==
  \/ Step /\ FaultClock
  \/ Quiet /\ CooldownElapses

Spec == Init /\ [][Next]_vars

\* The event loop runs what is ready and takes up every ended await at one of
\* its idle moments: driver calls are bounded by transport timeouts, publications
\* and receipts by their queues, and asyncio locks are granted in order.
Fairness ==
  /\ WF_vars((\E p \in Ops : Resume(p) \/ Grant(p)) /\ FaultClock)
  /\ \A p \in Ops :
       SF_vars(Quiet /\ (OffCallReturns(p) \/ StartCallReturns(p) \/ AwaitEnds(p)) /\ FaultClock)

FairSpec == Spec /\ Fairness

(***************************************************************************)
(* Properties.                                                             *)
(***************************************************************************)

Returns(p, verdict) == op[p].pc \notin Rest /\ op'[p].pc = verdict

\* A RUN that reports success leaves its output on, owned, and supervised.
RunOkIsLive ==
  [][\A p \in Runs : Returns(p, "ok") =>
       /\ op[p].scope \subseteq out' \cap active' \cap running'
       /\ state' = "running" /\ BeingSwitchedOff' \cap op[p].scope = {}]_vars

\* request_stop, emergency_off and the interlock stop report success only over
\* outputs that are off and no longer owned.
StopOkMeansOff ==
  [][\A p \in Stops : Returns(p, "ok") /\ op[p].kind # "acknowledge" =>
       op[p].scope \cap (out' \cup active') = {}]_vars

\* Success means what it says, also when a fault, an abort or another caller's
\* OFF arrives between the deed and the answer.
SuccessHolds == RunOkIsLive /\ StopOkMeansOff

\* No source is started on behalf of a RUN that an OFF request, an interlock or
\* a fault has overtaken since it was submitted.
NoStartAfterAbort ==
  [][\A p \in Runs : call[p].kind = "none" /\ call'[p].kind = "start" =>
       op[p].seen = {} /\ state' \in {"run_permitted", "running"}]_vars

\* Verified-OFF evidence is global truth: nothing sources while it stands.
EvidenceHonest == evidence => out = {}

\* Once everyone has returned, the state agrees with what is owned and with the
\* plant: no RUN is left half permitted, RUNNING has a source to supervise, and
\* READY with nothing owned is READY over outputs that are off.
SettledStateAgrees ==
  (\A p \in Ops : op[p].pc \in Rest) =>
    /\ state # "run_permitted"
    /\ state = "running" => active # {}
    /\ state = "ready" /\ active = {} => out = {}

\* A latched fault is left only by acknowledgement or by a Start that consumes
\* the latch: no stop, abort or late continuation overwrites it.
LatchSurvives ==
  [][Faulted /\ state' # "fault_latched" =>
       \/ state' = "manual_recovery"
       \/ /\ sources \cap {"interlock", "persistence"} # {} /\ sources' = {}
          /\ \E p \in Runs : op[p].pc \in {"preflight", "commit", "probe"} /\ lock = p]_vars

\* Every request returns, whatever faults, cancellations and failed OFFs occur.
EveryoneReturns == \A p \in Ops : (op[p].pc \notin Rest) ~> (op[p].pc \in Rest)

\* docs/architecture.md: "the system never reports SAFE_OFF over a possibly-live
\* output".
SafeOffMeansOff == state = "safe_off" => out = {}
=============================================================================

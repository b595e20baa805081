--------------------------- MODULE PeriodicReport ---------------------------
(***************************************************************************)
(* The periodic picture report: the coordinator of agents/assistant/       *)
(* periodic_png.py, the durable document of periodic_state.py it keeps,    *)
(* the render child of reporting/__main__.py, which survives the           *)
(* coordinator that started it, and the destination, which may take a      *)
(* picture whose answer is lost.  Only the elected leader runs, so there   *)
(* is one coordinator; "down" is the time between two of them.             *)
(***************************************************************************)
EXTENDS Integers, FiniteSets

CONSTANTS MaxSlot,        \* bound: completed intervals, 1..MaxSlot
          MaxRender,      \* max_render_attempts of the configuration
          MaxDelivery,    \* max_delivery_attempts of the configuration
          MaxUnresolved,  \* MAX_UNRESOLVED_DELIVERIES
          MaxConfig,      \* bound: versions of the configuration
          MaxFaults       \* bound: crashes and failed writes

ASSUME LimitsAssumption ==
  /\ MaxSlot \in Nat \ {0}
  /\ MaxRender \in Nat \ {0}
  /\ MaxDelivery \in Nat \ {0}
  /\ MaxUnresolved \in Nat \ {0}
  /\ MaxConfig \in Nat \ {0}
  /\ MaxFaults \in Nat

Slots == 1..MaxSlot
Statuses == {"none", "PENDING", "RENDERING", "READY", "DELIVERING",
             "SUCCEEDED", "FAILED", "DELIVERY_UNKNOWN"}
Phases == {"none", "render", "delivery", "scheduler", "config"}
Answers == {"none", "accepted", "unknown", "rejected", "refused",
            "unsent", "unsendable"}

VARIABLES
  now,       \* the latest completed interval
  config,    \* the version the running coordinator was built with
  disk,      \* the document: high water, active slot, unresolved ledger,
             \* the health that pauses delivery, and how each slot left
  pc,        \* where the coordinator's task is
  fresh,     \* a settlement has read the document and nothing wrote it since
  answer,    \* what the send told the coordinator
  child,     \* the render process of each generation; "busy" is one that
             \* told its coordinator so
  finals,    \* generations whose picture was promoted
  wire,      \* slots whose picture is on its way to the destination
  accepted,  \* how many times the destination took the picture of a slot
  faults

vars == <<now, config, disk, pc, fresh, answer, child, finals, wire, accepted,
          faults>>
coordinator == <<pc, fresh, answer>>
renderer == <<child, finals>>
destination == <<wire, accepted>>

(* A generation is named by its slot and the attempts made before it: two  *)
(* allocations of a slot never have the same count.                        *)
Gens == Slots \X (0..(MaxRender - 1))

NoActive == [slot |-> 0, renders |-> 0, base |-> 0, sends |-> 0, config |-> 0,
             status |-> "none", phase |-> "none", retry |-> FALSE]
Active == disk.active
Gen == <<Active.slot, Active.base>>
LedgerFull == Cardinality(disk.ledger) >= MaxUnresolved

Terminal(a) ==
  \/ a.status \in {"SUCCEEDED", "DELIVERY_UNKNOWN"}
  \/ a.status = "FAILED" /\ ~a.retry

DeliveryReady ==
  \/ Active.status = "READY"
  \/ Active.status = "FAILED" /\ Active.phase = "delivery" /\ Active.retry

LockHeld == \E g \in Gens : child[g] \in {"rendering", "checked"}

Init ==
  /\ now = 1
  /\ config = 1
  /\ disk = [high |-> 0, active |-> NoActive, ledger |-> {}, paused |-> FALSE,
             closed |-> [s \in Slots |-> "none"]]
  /\ pc = "down" /\ fresh = FALSE /\ answer = "none"
  /\ child = [g \in Gens |-> "none"] /\ finals = {}
  /\ wire = {} /\ accepted = [s \in Slots |-> 0]
  /\ faults = 0

-----------------------------------------------------------------------------
(* The pure transitions of the active slot.                                *)

Failed(a, phase, retry) ==
  [a EXCEPT !.status = "FAILED", !.phase = phase, !.retry = retry]
Cleared(a, status) ==
  [a EXCEPT !.status = status, !.phase = "none", !.retry = FALSE]

(* A new slot, or a new generation of a slot whose rendering failed.       *)
Pending(slot, renders, sends) ==
  [slot |-> slot, renders |-> renders, base |-> renders, sends |-> sends,
   config |-> config, status |-> "PENDING", phase |-> "none", retry |-> FALSE]

\* DEFECT: the attempt is not counted before the child is started.
RenderingUncounted(a) == Cleared(a, "RENDERING")

Rendering(a) == [Cleared(a, "RENDERING") EXCEPT !.renders = @ + 1]

\* DEFECT: one retry too many.
RenderFailureOnceMore(a) ==
  LET count == IF a.status = "PENDING" THEN a.renders + 1 ELSE a.renders
  IN  [Failed(a, "render", count <= MaxRender) EXCEPT !.renders = count]

(* A failure before the child counts as an attempt too.                    *)
RenderFailure(a) ==
  LET count == IF a.status = "PENDING" THEN a.renders + 1 ELSE a.renders
  IN  [Failed(a, "render", count < MaxRender) EXCEPT !.renders = count]

Delivering(a) == [Cleared(a, "DELIVERING") EXCEPT !.sends = @ + 1]
\* DEFECT: the capacity is compared with > and the last slot is lost.
MarkDeliveringFull(d) ==
  IF Cardinality(d.ledger) > MaxUnresolved
  THEN [d EXCEPT !.active = Cleared(d.active, "READY"), !.paused = TRUE]
  ELSE [d EXCEPT !.active = Delivering(d.active)]

MarkDelivering(d) ==
  IF Cardinality(d.ledger) >= MaxUnresolved
  THEN [d EXCEPT !.active = Cleared(d.active, "READY"), !.paused = TRUE]
  ELSE [d EXCEPT !.active = Delivering(d.active)]

MarkUnknown(d) ==
  [d EXCEPT !.ledger = @ \cup {d.active.slot},
            !.active = [Failed(@, "delivery", FALSE)
                          EXCEPT !.status = "DELIVERY_UNKNOWN"]]

MarkSucceeded(d) == [d EXCEPT !.active = Cleared(@, "SUCCEEDED")]

(* The phase of a failure that is not the attempt's own: a failed slot     *)
(* keeps the one it has.                                                   *)
PhaseKept(a, phase) == IF a.status = "FAILED" THEN a.phase ELSE phase

Superseded(d) ==
  IF d.active.status = "READY" /\ Cardinality(d.ledger) >= MaxUnresolved
  THEN [d EXCEPT !.paused = TRUE]
  ELSE [d EXCEPT !.active = Failed(@, "scheduler", FALSE)]

Rotated(d) ==
  [d EXCEPT !.active = NoActive, !.closed[d.active.slot] = d.active.status]

Retriable(a) == a.sends < MaxDelivery

Result(d) ==
  CASE answer = "accepted" -> MarkSucceeded(d)
    [] answer = "unknown" -> MarkUnknown(d)
    [] answer \in {"rejected", "unsent"} ->
         [d EXCEPT !.active = Failed(@, "delivery", Retriable(@))]
    [] OTHER -> [d EXCEPT !.active = Failed(@, "delivery", FALSE)]

(* A write of the document: done, or failed before or after it replaced    *)
(* the file, which ends the coordinator.                                   *)
Persist(new, next) ==
  \/ disk' = new /\ pc' = next /\ UNCHANGED faults
  \/ /\ faults < MaxFaults /\ faults' = faults + 1
     /\ disk' \in {disk, new}
     /\ pc' = "down"

-----------------------------------------------------------------------------
(* One step of reconciliation: the first case that applies.                *)

\* DEFECT: the latest slot is allocated although it was before.
AllocatableAgain == now >= disk.high

Allocatable == now > disk.high
Allocate ==
  /\ pc = "idle" /\ Active = NoActive /\ Allocatable
  /\ Persist([disk EXCEPT !.high = now, !.active = Pending(now, 0, 0)], "idle")
  /\ UNCHANGED <<now, config, fresh, answer, renderer, destination>>

(* The slot's pictures stay on disk, where nothing asks for them again.    *)
Rotate ==
  /\ pc = "idle" /\ Terminal(Active)
  /\ Persist(Rotated(disk), "idle")
  /\ finals' = {g \in finals : g[1] # Active.slot}
  /\ UNCHANGED <<now, config, fresh, answer, child, destination>>

\* DEFECT: a delivery found in progress is made ready again.
RecoveredResends(d) == [d EXCEPT !.active = Cleared(@, "READY")]

(* A predecessor died between the mark and the outcome of a delivery.      *)
Recovered(d) == MarkUnknown(d)
RecoverDelivering ==
  /\ pc = "idle" /\ Active.status = "DELIVERING"
  /\ Persist(Recovered(disk), "idle")
  /\ UNCHANGED <<now, config, fresh, answer, renderer, destination>>

Open ==
  /\ pc = "idle"
  /\ Active # NoActive
  /\ ~Terminal(Active)
  /\ Active.status # "DELIVERING"

ConfigChanged ==
  /\ Open /\ Active.config # config
  /\ Persist([disk EXCEPT !.active =
               Failed(@, PhaseKept(@, "config"), FALSE)], "idle")
  /\ UNCHANGED <<now, config, fresh, answer, renderer, destination>>

Supersede ==
  /\ Open /\ Active.config = config /\ now > Active.slot
  /\ Persist(Superseded(disk), "idle")
  /\ UNCHANGED <<now, config, fresh, answer, renderer, destination>>

Current == Open /\ Active.config = config /\ now = Active.slot

(* A slot is found RENDERING after a restart or after a busy renderer: its *)
(* picture is taken if it is there; otherwise the renderer's lock is tried *)
(* and the attempt is given up if nobody holds it.                         *)
Adopt(a) == Cleared(a, "READY")
RecoverRendering ==
  /\ Current /\ Active.status = "RENDERING"
  /\ IF Gen \in finals
     THEN Persist([disk EXCEPT !.active = Adopt(@)], "idle")
     ELSE pc' = "probe" /\ UNCHANGED <<disk, faults>>
  /\ UNCHANGED <<now, config, fresh, answer, renderer, destination>>

ProbeLock ==
  /\ pc = "probe"
  /\ pc' = IF LockHeld THEN "idle" ELSE "orphan"
  /\ UNCHANGED <<now, config, disk, fresh, answer, renderer, destination, faults>>

RecordOrphan ==
  /\ pc = "orphan"
  /\ Persist([disk EXCEPT !.active = RenderFailure(@)], "idle")
  /\ UNCHANGED <<now, config, fresh, answer, renderer, destination>>

RetryRender ==
  /\ Current /\ Active.status = "FAILED" /\ Active.phase = "render"
  /\ Persist([disk EXCEPT !.active =
               Pending(@.slot, @.renders, @.sends)], "idle")
  /\ UNCHANGED <<now, config, fresh, answer, renderer, destination>>

BeginRender ==
  /\ Current /\ Active.status = "PENDING"
  /\ pc' = "input"
  /\ UNCHANGED <<now, config, disk, fresh, answer, renderer, destination, faults>>

MayDeliver ==
  \/ Active.status = "READY" /\ ~(LedgerFull /\ disk.paused)
  \/ Active.status = "FAILED" /\ Active.phase = "delivery"
BeginDelivery ==
  /\ Current /\ MayDeliver
  /\ pc' = "artifact"
  /\ UNCHANGED <<now, config, disk, fresh, answer, renderer, destination, faults>>

-----------------------------------------------------------------------------
(* Rendering.  The input is written or found, or it is not available; then *)
(* the attempt is recorded before the child is started.                    *)
PrepareInput ==
  /\ pc = "input"
  /\ \/ Persist([disk EXCEPT !.active = Rendering(@)], "spawn")
     \/ Persist([disk EXCEPT !.active = RenderFailure(@)], "idle")
  /\ UNCHANGED <<now, config, fresh, answer, renderer, destination>>

Spawn ==
  /\ pc = "spawn"
  /\ pc' = "render"
  /\ child' = [child EXCEPT ![Gen] = "starting"]
  /\ UNCHANGED <<now, config, disk, fresh, answer, finals, destination, faults>>

(* The child's own fence: the slot is still RENDERING this generation.     *)
Fenced(g) == Active.status = "RENDERING" /\ Gen = g

ChildStarts(g) ==
  /\ child[g] = "starting"
  /\ child' = [child EXCEPT ![g] = IF Fenced(g) THEN "fenced" ELSE "none"]
  /\ UNCHANGED <<now, config, disk, coordinator, finals, destination, faults>>

ChildLocks(g) ==
  /\ child[g] = "fenced"
  /\ child' = [child EXCEPT ![g] =
                 IF ~LockHeld THEN "rendering"
                 ELSE IF pc = "render" /\ Gen = g THEN "busy" ELSE "none"]
  /\ UNCHANGED <<now, config, disk, coordinator, finals, destination, faults>>

ChildRenders(g) ==
  /\ child[g] = "rendering"
  /\ child' = [child EXCEPT ![g] = IF Fenced(g) THEN "checked" ELSE "none"]
  /\ UNCHANGED <<now, config, disk, coordinator, finals, destination, faults>>

ChildPromotes(g) ==
  /\ child[g] = "checked"
  /\ child' = [child EXCEPT ![g] = "none"]
  /\ finals' = finals \cup {g}
  /\ UNCHANGED <<now, config, disk, coordinator, destination, faults>>

(* An error, a crash or the deadline of the child.                         *)
ChildDies(g) ==
  /\ child[g] \in {"starting", "fenced", "rendering", "checked"}
  /\ child' = [child EXCEPT ![g] = "none"]
  /\ UNCHANGED <<now, config, disk, coordinator, finals, destination, faults>>

Render(g) ==
  \/ ChildStarts(g) \/ ChildLocks(g) \/ ChildRenders(g)
  \/ ChildPromotes(g) \/ ChildDies(g)

(* The child has ended.  Its picture is looked for before its failure is   *)
(* believed; a busy renderer leaves the slot RENDERING.                    *)
Rendered ==
  /\ pc = "render" /\ child[Gen] \in {"none", "busy"}
  /\ child' = [child EXCEPT ![Gen] = "none"]
  /\ \/ Gen \in finals /\ Persist([disk EXCEPT !.active = Adopt(@)], "idle")
     \/ /\ Gen \notin finals /\ child[Gen] = "busy"
        /\ pc' = "idle" /\ UNCHANGED <<disk, faults>>
     \/ /\ Gen \notin finals /\ child[Gen] = "none"
        /\ Persist([disk EXCEPT !.active = RenderFailure(@)], "idle")
  /\ UNCHANGED <<now, config, fresh, answer, finals, destination>>

-----------------------------------------------------------------------------
(* Delivery.  The picture is read again; the mark is durable before the    *)
(* picture leaves; the outcome is written under the settlement lock, which *)
(* keeps the health writes of the heartbeat away from it.                  *)
ReadArtifact ==
  /\ pc = "artifact"
  /\ LET marked == MarkDelivering(disk)
     IN \/ Persist([disk EXCEPT !.active =
                      Failed(@, PhaseKept(@, "scheduler"), FALSE)], "idle")
        \/ Persist(marked, IF marked.active.status = "DELIVERING"
                           THEN "send" ELSE "idle")
  /\ UNCHANGED <<now, config, fresh, answer, renderer, destination>>

Send ==
  /\ pc = "send"
  /\ \/ /\ pc' = "answered" /\ answer' \in {"unsent", "unsendable"}
        /\ UNCHANGED wire
     \/ /\ pc' = "await" /\ wire' = wire \cup {Active.slot}
        /\ UNCHANGED answer
  /\ UNCHANGED <<now, config, disk, fresh, renderer, accepted, faults>>

(* The answer about slot s reaches the task that waits for it, readable or *)
(* not, or is lost.                                                        *)
Answered(s, readable) ==
  \/ /\ pc = "await" /\ Active.slot = s
     /\ pc' = "answered" /\ answer' \in readable \cup {"unknown"}
  \/ UNCHANGED <<pc, answer>>

Accept(s) ==
  /\ s \in wire
  /\ wire' = wire \ {s}
  /\ accepted' = [accepted EXCEPT ![s] = @ + 1]
  /\ Answered(s, {"accepted"})
  /\ UNCHANGED <<now, config, disk, fresh, renderer, faults>>

Reject(s) ==
  /\ s \in wire
  /\ wire' = wire \ {s}
  /\ Answered(s, {"rejected", "refused"})
  /\ UNCHANGED <<now, config, disk, fresh, renderer, accepted, faults>>

TimedOut == "unknown"
Timeout ==
  /\ pc = "await"
  /\ pc' = "answered" /\ answer' = TimedOut
  /\ UNCHANGED <<now, config, disk, fresh, renderer, destination, faults>>

(* The settlement lock is taken and the document is read.                  *)
LoadForSettlement ==
  /\ pc = "answered"
  /\ pc' = "settle" /\ fresh' = TRUE
  /\ UNCHANGED <<now, config, disk, answer, renderer, destination, faults>>

(* The write is refused when the document is no longer the one read.  A    *)
(* sharing violation is tried again from the read.                         *)
Settle ==
  /\ pc = "settle"
  /\ fresh' = FALSE
  /\ \/ /\ Persist(IF fresh THEN Result(disk) ELSE disk,
                   IF fresh THEN "idle" ELSE "down")
        /\ answer' = "none"
     \/ /\ faults < MaxFaults /\ faults' = faults + 1
        /\ pc' = "answered" /\ UNCHANGED <<disk, answer>>
  /\ UNCHANGED <<now, config, renderer, destination>>

HeartbeatPoints == {"idle", "render", "send", "await", "answered"}
Heartbeat ==
  /\ pc \in HeartbeatPoints
  /\ disk' = [disk EXCEPT !.paused = @ \/ (LedgerFull /\ DeliveryReady)]
  /\ fresh' = FALSE
  /\ UNCHANGED <<now, config, pc, answer, renderer, destination, faults>>

-----------------------------------------------------------------------------
(* The supervisor and the outside.                                         *)

(* The first health of a coordinator: its predecessor's pause is kept, or  *)
(* was replaced by the supervisor's own health.                            *)
FirstHealth ==
  \E kept \in {disk.paused, FALSE} :
     disk' = [disk EXCEPT !.paused = kept \/ (LedgerFull /\ DeliveryReady)]

Start ==
  /\ pc = "down"
  /\ pc' = "idle" /\ answer' = "none"
  /\ FirstHealth
  /\ UNCHANGED <<now, config, fresh, renderer, destination, faults>>

(* A changed configuration stops the coordinator, which finishes the       *)
(* transaction it is in, and builds another.                               *)
Reconfigure ==
  /\ pc \in {"idle", "input", "artifact"} /\ config < MaxConfig
  /\ config' = config + 1 /\ pc' = "idle"
  /\ FirstHealth
  /\ UNCHANGED <<now, fresh, answer, renderer, destination, faults>>

Crash ==
  /\ pc # "down" /\ faults < MaxFaults
  /\ faults' = faults + 1
  /\ pc' = "down" /\ fresh' = FALSE /\ answer' = "none"
  /\ UNCHANGED <<now, config, disk, renderer, destination>>

Tick ==
  /\ now < MaxSlot
  /\ now' = now + 1
  /\ UNCHANGED <<config, disk, coordinator, renderer, destination, faults>>

Reconcile ==
  \/ Allocate \/ Rotate \/ RecoverDelivering \/ ConfigChanged \/ Supersede
  \/ RecoverRendering \/ ProbeLock \/ RecordOrphan \/ RetryRender
  \/ BeginRender \/ PrepareInput \/ Spawn \/ Rendered
  \/ BeginDelivery \/ ReadArtifact \/ Send \/ LoadForSettlement \/ Settle

Next ==
  \/ Reconcile \/ Heartbeat \/ Timeout
  \/ \E g \in Gens : Render(g)
  \/ \E s \in Slots : Accept(s) \/ Reject(s)
  \/ Start \/ Reconfigure \/ Crash \/ Tick

(* The loop reconciles every few seconds, the child has a deadline, the    *)
(* request a time limit, and the supervisor elects and builds again.       *)
Fairness ==
  /\ WF_vars(Reconcile) /\ WF_vars(Timeout) /\ WF_vars(Start)
  /\ \A g \in Gens : WF_vars(Render(g))

Spec == Init /\ [][Next]_vars /\ Fairness

-----------------------------------------------------------------------------
ActiveSlots == [slot : 0..MaxSlot, renders : 0..MaxRender,
                base : 0..MaxRender, sends : 0..MaxDelivery,
                config : 0..MaxConfig, status : Statuses, phase : Phases,
                retry : BOOLEAN]

(* Type correctness: attempt counts stay within the configured limits.     *)
TypeOK ==
  /\ now \in Slots /\ config \in 1..MaxConfig
  /\ disk \in [high : 0..MaxSlot, active : ActiveSlots, ledger : SUBSET Slots,
                paused : BOOLEAN, closed : [Slots -> Statuses]]
  /\ pc \in {"down", "idle", "probe", "orphan", "input", "spawn", "render",
             "artifact", "send", "await", "answered", "settle"}
  /\ fresh \in BOOLEAN /\ answer \in Answers
  /\ child \in [Gens -> {"none", "starting", "fenced", "rendering",
                         "checked", "busy"}]
  /\ finals \subseteq Gens
  /\ wire \subseteq Slots /\ accepted \in [Slots -> Nat]
  /\ faults \in 0..MaxFaults

(* How a slot stands: in the active record or in the summary it left.      *)
Standing(s) == IF Active.slot = s THEN Active.status ELSE disk.closed[s]

(* The destination takes the picture of a slot at most once, whatever      *)
(* crashes, lost answers, retries and changes of leader come between the   *)
(* durable mark of a delivery and the durable record of its outcome.       *)
AtMostOnce == \A s \in Slots : accepted[s] <= 1

(* The record about a slot is honest: what the destination has, or may     *)
(* still get, is a delivery in progress, a success or an unresolved one,   *)
(* never a failure that says it was rejected, not sent or superseded; and  *)
(* a success is one.                                                       *)
OutcomeHonest ==
  \A s \in Slots :
     /\ (s \in wire \/ accepted[s] > 0) =>
          Standing(s) \in {"DELIVERING", "SUCCEEDED", "DELIVERY_UNKNOWN"}
     /\ Standing(s) = "SUCCEEDED" => accepted[s] > 0

(* The ledger is exactly the slots whose delivery is unresolved, it never  *)
(* exceeds its capacity, and a delivery only starts while there is room to *)
(* record that its outcome is unknown.                                     *)
LedgerExact ==
  /\ disk.ledger = {s \in Slots : Standing(s) = "DELIVERY_UNKNOWN"}
  /\ Cardinality(disk.ledger) <= MaxUnresolved
  /\ Active.status = "DELIVERING" => ~LedgerFull

(* The outcome of a delivery is written over the document it was decided   *)
(* on: a health write of the heartbeat cannot come between and turn a      *)
(* received answer into an unknown one.                                    *)
SettlementNotStale == pc = "settle" => fresh

(* The destination, the record and its settlement agree through every      *)
(* crash, lost answer and health write.                                    *)
DeliveryHonest == AtMostOnce /\ OutcomeHonest /\ SettlementNotStale

(* A slot that was left, for whatever reason, is never allocated again,    *)
(* also after a crash that lost everything but the document.               *)
SlotNeverReopened ==
  [][Active'.slot # Active.slot /\ Active'.slot # 0 =>
       /\ disk.closed[Active'.slot] = "none"
       /\ \A s \in Slots : Standing(s) # "none" => s < Active'.slot]_vars

(* An allocated slot is left behind, with an outcome, however often its    *)
(* rendering fails, its answers are lost or its coordinator dies; only a   *)
(* full ledger may hold it.                                                *)
SlotSettles ==
  \A s \in Slots : (Active.slot = s) ~>
      (Active.slot # s \/ (LedgerFull /\ Active.status = "READY"))
=============================================================================

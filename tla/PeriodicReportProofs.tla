------------------------ MODULE PeriodicReportProofs ------------------------
(***************************************************************************)
(* For any number of intervals, attempts, configurations and faults, and   *)
(* any capacity of the ledger: a picture is taken at most once, the record *)
(* about it is honest, the unresolved ledger is exact, no interval is      *)
(* reported again, and no attempt goes beyond its limit.                   *)
(***************************************************************************)
EXTENDS PeriodicReport, FiniteSetTheorems, TLAPS

\* What a document is, apart from the limits of its counters.
Records == [slot : 0..MaxSlot, renders : Nat, base : Nat, sends : Nat,
            config : Nat, status : Statuses, phase : Phases, retry : BOOLEAN]
Documents == [high : 0..MaxSlot, active : Records, ledger : SUBSET Slots,
              paused : BOOLEAN, closed : [Slots -> Statuses]]

\* How slot s stands in document d.
StandingIn(d, s) ==
  IF d.active.slot = s THEN d.active.status ELSE d.closed[s]

\* The statuses of a slot whose picture may be with the destination.
Sent == {"DELIVERING", "SUCCEEDED", "DELIVERY_UNKNOWN"}

\* The document alone: one active slot, below the high water and not closed.
Shape(d) ==
  /\ d \in Documents
  /\ d.active.slot = 0 <=> d.active.status = "none"
  /\ d.active.slot = 0 => d.active = NoActive
  /\ d.active.slot <= d.high
  /\ d.active.slot # 0 => d.closed[d.active.slot] = "none"
  /\ \A s \in Slots : s > d.high => d.closed[s] = "none"

\* The ledger of a document.
Ledger(d) ==
  /\ d.ledger = {s \in Slots : StandingIn(d, s) = "DELIVERY_UNKNOWN"}
  /\ Cardinality(d.ledger) <= MaxUnresolved
  /\ d.active.status = "DELIVERING" => Cardinality(d.ledger) < MaxUnresolved

\* The document against the destination.
Honest(d) ==
  \A s \in Slots :
     /\ (s \in wire \/ accepted[s] > 0) => StandingIn(d, s) \in Sent
     /\ StandingIn(d, s) = "SUCCEEDED" => accepted[s] > 0

Good(d) == Shape(d) /\ Ledger(d) /\ Honest(d)

\* A picture on its way was not taken yet.
Network ==
  /\ wire \subseteq Slots /\ accepted \in [Slots -> Nat]
  /\ \A s \in Slots : accepted[s] <= 1 /\ (s \in wire => accepted[s] = 0)

\* The task knows the status of the slot it works on, and an answer that
\* says the destination has the picture, or has it not, is true.
Untouched == Active.slot \notin wire /\ accepted[Active.slot] = 0
Task ==
  /\ pc = "input" => Active.status = "PENDING"
  /\ pc \in {"probe", "orphan", "spawn", "render"} => Active.status = "RENDERING"
  /\ pc = "artifact" => Active.status \in {"READY", "FAILED"}
  /\ pc \in {"send", "await", "answered", "settle"} =>
       Active.status = "DELIVERING"
  /\ pc = "send" => Untouched
  /\ pc \in {"answered", "settle"} =>
       /\ answer = "accepted" => accepted[Active.slot] > 0
       /\ answer \notin {"accepted", "unknown"} => Untouched
  /\ pc = "settle" => fresh

\* The inductive invariant.
Inv == now \in Slots /\ config \in Nat /\ Good(disk) /\ Network /\ Task

-----------------------------------------------------------------------------
\* The number of unresolved deliveries grows by at most one.
LEMMA OneMore ==
  ASSUME NEW L \in SUBSET Slots, NEW s \in Slots
  PROVE  /\ Cardinality(L) \in Nat
         /\ Cardinality(L \cup {s}) <= Cardinality(L) + 1
<1>1. IsFiniteSet(Slots)
  BY LimitsAssumption, FS_Interval DEF Slots
<1>2. IsFiniteSet(L)
  BY <1>1, FS_Subset
<1>3. Cardinality(L) \in Nat
  BY <1>2, FS_CardinalityType
<1>4. CASE s \in L
  <2>1. L \cup {s} = L
    BY <1>4
  <2>2. Cardinality(L \cup {s}) = Cardinality(L)
    BY <2>1, Zenon
  <2> QED
    BY <1>3, <2>2
<1>5. CASE s \notin L
  <2>1. Cardinality(L \cup {s}) = Cardinality(L) + 1
    BY <1>2, <1>5, FS_AddElement
  <2> QED
    BY <1>3, <2>1
<1> QED
  BY <1>4, <1>5

\* Changing the active slot between two statuses that were never sent keeps
\* the document good.
LEMMA Unsent ==
  ASSUME NEW d, NEW a, Good(d), a \in Records,
         a.slot = d.active.slot, a.status # "none", d.active.status # "none",
         a.status \notin Sent, d.active.status \notin Sent
  PROVE  Good([d EXCEPT !.active = a])
<1> DEFINE n == [d EXCEPT !.active = a]
<1>1. n \in Documents /\ n.active = a /\ n.closed = d.closed /\ n.high = d.high
      /\ n.ledger = d.ledger
  BY DEF Good, Shape, Documents
<1>2. Shape(n)
  BY <1>1 DEF Good, Shape
<1>3. \A s \in Slots : \/ StandingIn(n, s) = StandingIn(d, s)
                       \/ StandingIn(n, s) \notin Sent /\ StandingIn(d, s) \notin Sent
  BY <1>1 DEF StandingIn
<1>4. Honest(n)
  BY <1>3 DEF Good, Honest, Sent
<1>5. {s \in Slots : StandingIn(n, s) = "DELIVERY_UNKNOWN"}
        = {s \in Slots : StandingIn(d, s) = "DELIVERY_UNKNOWN"}
  BY <1>3 DEF Sent
<1>6. Ledger(n)
  BY <1>1, <1>5 DEF Good, Ledger, Sent
<1> QED
  BY <1>2, <1>4, <1>6 DEF Good

\* Neither the pause nor anything but the active slot, the ledger and the
\* closed slots matters.
LEMMA Paused ==
  ASSUME NEW d, NEW p \in BOOLEAN, Good(d)
  PROVE  Good([d EXCEPT !.paused = p])
<1> DEFINE n == [d EXCEPT !.paused = p]
<1>1. n \in Documents /\ n.active = d.active /\ n.closed = d.closed
      /\ n.high = d.high /\ n.ledger = d.ledger
  BY DEF Good, Shape, Documents
<1>2. \A s \in Slots : StandingIn(n, s) = StandingIn(d, s)
  BY <1>1 DEF StandingIn
<1> QED
  BY <1>1, <1>2 DEF Good, Shape, Ledger, Honest

\* A write of a good document, whether it succeeds or fails, leaves a good one.
LEMMA PersistKeeps ==
  ASSUME NEW new, NEW next, Inv, Good(new), Persist(new, next),
         UNCHANGED destination
  PROVE  Good(disk)' /\ Network' /\ pc' \in {next, "down"}
<1>1. disk' \in {disk, new}
  BY DEF Persist
<1>2. Good(disk')
  BY <1>1 DEF Inv
<1> QED
  BY <1>2 DEF Persist, Inv, Good, Shape, Ledger, Honest, Network, StandingIn,
              destination

\* The system starts good.
LEMMA InitGood == Init => Inv
<1> SUFFICES ASSUME Init PROVE Inv
  OBVIOUS
<1> USE LimitsAssumption
<1>1. disk \in Documents /\ Active = NoActive
  BY DEF Init, Documents, Records, NoActive, Statuses, Phases, Slots, Active
<1>2. Shape(disk)
  BY <1>1 DEF Init, Shape, NoActive, Active, Slots
<1>3. {s \in Slots : StandingIn(disk, s) = "DELIVERY_UNKNOWN"} = {}
  BY DEF Init, StandingIn, NoActive, Slots
<1>4. Ledger(disk)
  <2>1. disk.ledger = {} /\ disk.active.status # "DELIVERING"
    BY DEF Init, NoActive
  <2>2. Cardinality(disk.ledger) = 0
    BY <2>1, FS_EmptySet, Zenon
  <2> QED
    BY <1>3, <2>1, <2>2 DEF Ledger
<1>5. Honest(disk)
  BY DEF Init, Honest, StandingIn, NoActive, Slots
<1> QED
  BY <1>2, <1>4, <1>5 DEF Init, Inv, Good, Network, Task, Slots

-----------------------------------------------------------------------------
\* Rendering, superseding and reconfiguring move an open slot between
\* statuses that were never sent.
LEMMA OpenSlot ==
  ASSUME Inv, Active.status \notin Sent, Active.status # "none"
  PROVE  /\ Active \in Records
         /\ \A phase \in Phases : \A retry \in BOOLEAN :
              Good([disk EXCEPT !.active = Failed(Active, phase, retry)])
         /\ \A status \in {"READY", "PENDING", "RENDERING"} :
              Good([disk EXCEPT !.active = Cleared(Active, status)])
         /\ Good([disk EXCEPT !.active = Rendering(Active)])
         /\ Good([disk EXCEPT !.active = RenderFailure(Active)])
<1>1. Good(disk) /\ Active \in Records
  BY DEF Inv, Good, Shape, Documents, Active
<1>2. ASSUME NEW phase \in Phases, NEW retry \in BOOLEAN
      PROVE  Good([disk EXCEPT !.active = Failed(Active, phase, retry)])
  <2> DEFINE a == Failed(Active, phase, retry)
  <2>1. a \in Records /\ a.slot = disk.active.slot /\ a.status = "FAILED"
    BY <1>1, <1>2 DEF Failed, Records, Statuses, Active
  <2> QED
    BY <1>1, <2>1, Unsent DEF Active, Sent
<1>3. ASSUME NEW status \in {"READY", "PENDING", "RENDERING"}
      PROVE  Good([disk EXCEPT !.active = Cleared(Active, status)])
  <2> DEFINE a == Cleared(Active, status)
  <2>1. a \in Records /\ a.slot = disk.active.slot /\ a.status = status
    BY <1>1, <1>3 DEF Cleared, Records, Statuses, Phases, Active
  <2> QED
    BY <1>1, <2>1, Unsent DEF Active, Sent
<1>4. Good([disk EXCEPT !.active = Rendering(Active)])
  <2> DEFINE a == Rendering(Active)
             c == Cleared(Active, "RENDERING")
  <2>a. c \in Records /\ c.slot = disk.active.slot /\ c.status = "RENDERING"
    BY <1>1 DEF Cleared, Records, Statuses, Phases, Active
  <2>b. a = [c EXCEPT !.renders = c.renders + 1]
    BY DEF Rendering
  <2> HIDE DEF c
  <2>1. a \in Records /\ a.slot = disk.active.slot /\ a.status = "RENDERING"
    BY <2>a, <2>b DEF Records
  <2> QED
    BY <1>1, <2>1, Unsent DEF Active, Sent
<1>5. Good([disk EXCEPT !.active = RenderFailure(Active)])
  <2> DEFINE a == RenderFailure(Active)
             n == IF Active.status = "PENDING" THEN Active.renders + 1
                                               ELSE Active.renders
             f == Failed(Active, "render", n < MaxRender)
  <2>a. n \in Nat
    BY <1>1 DEF Records
  <2>b. (n < MaxRender) \in BOOLEAN
    OBVIOUS
  <2>c. f \in Records /\ f.slot = disk.active.slot /\ f.status = "FAILED"
    BY <1>1, <2>b DEF Failed, Records, Statuses, Phases, Active
  <2>d. a = [f EXCEPT !.renders = n]
    BY DEF RenderFailure
  <2> HIDE DEF f, n
  <2>1. a \in Records /\ a.slot = disk.active.slot /\ a.status = "FAILED"
    BY <2>a, <2>c, <2>d DEF Records
  <2> QED
    BY <1>1, <2>1, Unsent DEF Active, Sent
<1> QED
  BY <1>1, <1>2, <1>3, <1>4, <1>5

\* A delivery is only marked with room left in the ledger, for a picture the
\* destination never saw.
LEMMA Marked ==
  ASSUME Inv, Active.status \in {"READY", "FAILED"}
  PROVE  /\ Good(MarkDelivering(disk))
         /\ MarkDelivering(disk).active.slot = Active.slot
         /\ MarkDelivering(disk).active.status \in {"READY", "DELIVERING"}
         /\ Untouched
<1> DEFINE d == MarkDelivering(disk)
<1>1. Good(disk) /\ disk \in Documents /\ Active \in Records /\ Active.slot \in Slots
  BY DEF Inv, Good, Shape, Documents, Records, Active, Slots
<1>2. Untouched
  BY <1>1 DEF Good, Honest, StandingIn, Sent, Untouched, Active, Inv, Network
<1>3. CASE LedgerFull
  <2> DEFINE n == [disk EXCEPT !.active = Cleared(Active, "READY")]
  <2>1. Good(n)
    BY OpenSlot DEF Sent
  <2>2. d = [n EXCEPT !.paused = TRUE]
    BY <1>3 DEF MarkDelivering, LedgerFull, Active
  <2>3. n \in Documents
    BY <2>1 DEF Good, Shape
  <2>4. n.active = Cleared(Active, "READY")
    BY <1>1 DEF Documents
  <2>5. d.active = Cleared(Active, "READY")
    BY <2>2, <2>3, <2>4 DEF Documents
  <2>6. Good([n EXCEPT !.paused = TRUE])
    BY <2>1, Paused
  <2> HIDE DEF n
  <2>7. Good(d)
    BY <2>2, <2>6
  <2> HIDE DEF d
  <2> QED
    BY <1>1, <1>2, <2>5, <2>7 DEF d, Cleared, Records, Statuses
<1>4. CASE ~LedgerFull
  <2> DEFINE a == Delivering(Active)
             c == Cleared(Active, "DELIVERING")
  <2>1. c \in Records /\ c.slot = disk.active.slot /\ c.status = "DELIVERING"
    BY <1>1 DEF Cleared, Records, Statuses, Phases, Active
  <2>2. a = [c EXCEPT !.sends = c.sends + 1]
    BY DEF Delivering
  <2> HIDE DEF c
  <2>3. a \in Records /\ a.slot = disk.active.slot /\ a.status = "DELIVERING"
    BY <2>1, <2>2 DEF Records
  <2>4. d = [disk EXCEPT !.active = a]
    BY <1>4 DEF MarkDelivering, LedgerFull, Active
  <2> HIDE DEF a
  <2>5. d \in Documents /\ d.active = a /\ d.closed = disk.closed
        /\ d.high = disk.high /\ d.ledger = disk.ledger
    BY <1>1, <2>3, <2>4 DEF Documents
  <2> HIDE DEF d
  <2>6. \A s \in Slots : \/ StandingIn(d, s) = StandingIn(disk, s)
                         \/ /\ StandingIn(d, s) = "DELIVERING"
                            /\ StandingIn(disk, s) \notin Sent
    BY <2>3, <2>5 DEF StandingIn, Active, Sent
  <2>7. Shape(d)
    BY <1>1, <2>3, <2>5 DEF Good, Shape, Active
  <2>8. Honest(d)
    BY <1>1, <2>6 DEF Good, Honest, Sent
  <2>9. {s \in Slots : StandingIn(d, s) = "DELIVERY_UNKNOWN"}
         = {s \in Slots : StandingIn(disk, s) = "DELIVERY_UNKNOWN"}
    BY <2>6 DEF Sent
  <2>10. Cardinality(disk.ledger) \in Nat
    BY <1>1, OneMore DEF Documents
  <2>11. Cardinality(disk.ledger) < MaxUnresolved
    BY <1>4, <2>10, LimitsAssumption DEF LedgerFull
  <2>12. Ledger(d)
    BY <1>1, <2>5, <2>9, <2>11 DEF Good, Ledger
  <2> QED
    BY <1>2, <2>3, <2>5, <2>7, <2>8, <2>12 DEF d, Good, Active
<1> QED
  BY <1>3, <1>4

\* A delivery ends unresolved, and the ledger has the room for it.
LEMMA Unresolved ==
  ASSUME Inv, Active.status = "DELIVERING"
  PROVE  Good(MarkUnknown(disk))
<1> DEFINE f == Failed(Active, "delivery", FALSE)
           a == [f EXCEPT !.status = "DELIVERY_UNKNOWN"]
           e == [disk EXCEPT !.ledger = disk.ledger \cup {Active.slot}]
           d == MarkUnknown(disk)
<1>1. Good(disk) /\ disk \in Documents /\ Active \in Records /\ Active.slot \in Slots
  BY DEF Inv, Good, Shape, Documents, Records, Active, Slots
<1>2. f \in Records /\ f.slot = disk.active.slot
  BY <1>1 DEF Failed, Records, Statuses, Phases, Active
<1>a. e \in Documents /\ e.active = disk.active /\ e.closed = disk.closed
      /\ e.high = disk.high /\ e.ledger = disk.ledger \cup {Active.slot}
  BY <1>1 DEF Documents
<1>3. d = [e EXCEPT !.active = a]
  BY <1>a DEF MarkUnknown, Active
<1> HIDE DEF e
<1> HIDE DEF f
<1>4. a \in Records /\ a.slot = disk.active.slot /\ a.status = "DELIVERY_UNKNOWN"
  BY <1>2 DEF Records, Statuses
<1> HIDE DEF a
<1>5. d \in Documents /\ d.active = a /\ d.closed = disk.closed
      /\ d.high = disk.high /\ d.ledger = disk.ledger \cup {Active.slot}
  BY <1>a, <1>3, <1>4 DEF Documents
<1> HIDE DEF d
<1>6. \A s \in Slots :
        StandingIn(d, s) = IF s = Active.slot THEN "DELIVERY_UNKNOWN"
                                              ELSE StandingIn(disk, s)
  BY <1>4, <1>5 DEF StandingIn, Active
<1>7. Shape(d)
  BY <1>1, <1>4, <1>5 DEF Good, Shape, Active
<1>8. Honest(d)
  BY <1>1, <1>6 DEF Good, Honest, Sent, StandingIn, Active
<1>9. d.ledger = {s \in Slots : StandingIn(d, s) = "DELIVERY_UNKNOWN"}
  BY <1>1, <1>5, <1>6 DEF Good, Ledger
<1>10. Cardinality(d.ledger) <= Cardinality(disk.ledger) + 1
       /\ Cardinality(disk.ledger) \in Nat /\ Cardinality(d.ledger) \in Nat
  BY <1>1, <1>5, OneMore DEF Documents
<1>11. Cardinality(disk.ledger) < MaxUnresolved
  BY <1>1 DEF Good, Ledger, Active
<1>12. Ledger(d)
  BY <1>4, <1>5, <1>9, <1>10, <1>11, LimitsAssumption DEF Ledger
<1> QED
  BY <1>7, <1>8, <1>12 DEF d, Good

\* A delivery ends in another status the answer justifies.
LEMMA Ended ==
  ASSUME Inv, Active.status = "DELIVERING", NEW a \in Records,
         a.slot = Active.slot,
         \/ a.status = "SUCCEEDED" /\ accepted[Active.slot] > 0
         \/ a.status = "FAILED" /\ Untouched
  PROVE  Good([disk EXCEPT !.active = a])
<1> DEFINE d == [disk EXCEPT !.active = a]
<1>1. Good(disk) /\ disk \in Documents /\ Active \in Records /\ Active.slot \in Slots
  BY DEF Inv, Good, Shape, Documents, Records, Active, Slots
<1>2. d \in Documents /\ d.active = a /\ d.closed = disk.closed
      /\ d.high = disk.high /\ d.ledger = disk.ledger
  BY <1>1 DEF Documents
<1> HIDE DEF d
<1>3. \A s \in Slots :
        StandingIn(d, s) = IF s = Active.slot THEN a.status
                                              ELSE StandingIn(disk, s)
  BY <1>2 DEF StandingIn, Active
<1>4. Shape(d)
  BY <1>1, <1>2 DEF Good, Shape, Active
<1>5. Honest(d)
  BY <1>1, <1>3 DEF Good, Honest, Sent, Untouched, Inv, Network
<1>6. {s \in Slots : StandingIn(d, s) = "DELIVERY_UNKNOWN"}
       = {s \in Slots : StandingIn(disk, s) = "DELIVERY_UNKNOWN"}
  BY <1>3 DEF StandingIn, Active
<1>7. Ledger(d)
  BY <1>1, <1>2, <1>6 DEF Good, Ledger
<1> QED
  BY <1>4, <1>5, <1>7 DEF d, Good

\* The outcome an answer leads to.
LEMMA Settled ==
  ASSUME Inv, Active.status = "DELIVERING",
         answer = "accepted" => accepted[Active.slot] > 0,
         answer \notin {"accepted", "unknown"} => Untouched
  PROVE  Good(Result(disk))
<1>1. Active \in Records
  BY DEF Inv, Good, Shape, Documents, Active
<1>2. CASE answer = "accepted"
  <2> DEFINE a == Cleared(Active, "SUCCEEDED")
  <2>1. a \in Records /\ a.slot = Active.slot /\ a.status = "SUCCEEDED"
    BY <1>1 DEF Cleared, Records, Statuses, Phases
  <2>2. Result(disk) = [disk EXCEPT !.active = a]
    BY <1>2 DEF Result, MarkSucceeded, Active
  <2> QED
    BY <1>2, <2>1, <2>2, Ended
<1>3. CASE answer = "unknown"
  <2>1. Result(disk) = MarkUnknown(disk)
    BY <1>3 DEF Result
  <2> QED
    BY <2>1, Unresolved
<1>4. CASE answer \notin {"accepted", "unknown"}
  <2>1. PICK retry \in BOOLEAN :
          Result(disk) = [disk EXCEPT !.active = Failed(Active, "delivery", retry)]
    <3>1. Retriable(Active) \in BOOLEAN
      BY DEF Retriable
    <3> QED
      BY <1>4, <3>1 DEF Result, Active
  <2> DEFINE a == Failed(Active, "delivery", retry)
  <2>2. a \in Records /\ a.slot = Active.slot /\ a.status = "FAILED"
    BY <1>1 DEF Failed, Records, Statuses, Phases
  <2> QED
    BY <1>4, <2>1, <2>2, Ended
<1> QED
  BY <1>2, <1>3, <1>4

-----------------------------------------------------------------------------
\* A step that writes a good document and leaves the task at rest.
LEMMA AtRest ==
  ASSUME Inv, NEW new, NEW next \in {"idle", "down"}, Good(new),
         Persist(new, next), UNCHANGED <<now, config, destination>>
  PROVE  Inv'
<1>1. Good(disk)' /\ Network' /\ pc' \in {"idle", "down"}
  BY PersistKeeps
<1> QED
  BY <1>1 DEF Inv, Task

\* A step of the task that touches neither the document nor the destination.
LEMMA GoodUnchanged ==
  ASSUME Inv, UNCHANGED <<disk, destination>> PROVE Good(disk)' /\ Network'
BY DEF Inv, Good, Shape, Ledger, Honest, Network, StandingIn, destination

\* What a new slot and a new generation of one are.
LEMMA PendingIs ==
  ASSUME NEW slot \in Slots, NEW renders \in Nat, NEW sends \in Nat, config \in Nat
  PROVE  /\ NoActive \in Records
         /\ Pending(slot, renders, sends) \in Records
         /\ Pending(slot, renders, sends).slot = slot
         /\ Pending(slot, renders, sends).status = "PENDING"
<1>1. 0 \in 0..MaxSlot /\ slot \in 0..MaxSlot
  BY LimitsAssumption DEF Slots
<1>2. NoActive \in Records
  BY <1>1 DEF NoActive, Records, Statuses, Phases
<1> QED
  BY <1>1, <1>2 DEF Pending, Records, Statuses, Phases

\* Reconciliation keeps the invariant while no delivery is under way.
LEMMA ReconcileKeeps ==
  ASSUME Inv, Allocate \/ Rotate \/ RecoverDelivering \/ ConfigChanged
              \/ Supersede \/ RetryRender \/ RecordOrphan
  PROVE  Inv'
<1>1. Good(disk) /\ disk \in Documents /\ Active \in Records /\ now \in Slots
      /\ config \in Nat
  BY DEF Inv, Good, Shape, Documents, Active
<1>2. CASE Allocate
  <2> DEFINE a == Pending(now, 0, 0)
             e == [disk EXCEPT !.high = now]
             d == [disk EXCEPT !.high = now, !.active = a]
  <2>1. a \in Records /\ a.slot = now /\ a.status = "PENDING"
    BY <1>1, PendingIs
  <2>2. e \in Documents /\ e.active = disk.active /\ e.closed = disk.closed
        /\ e.high = now /\ e.ledger = disk.ledger
    BY <1>1 DEF Documents, Slots
  <2>3. d = [e EXCEPT !.active = a]
    BY <2>2
  <2> HIDE DEF e, a
  <2>4. d \in Documents /\ d.active = a /\ d.closed = disk.closed
        /\ d.high = now /\ d.ledger = disk.ledger
    BY <2>1, <2>2, <2>3 DEF Documents
  <2>5. now > disk.high /\ disk.active.slot = 0 /\ disk.active.status = "none"
        /\ disk.high \in 0..MaxSlot
    BY <1>1, <1>2 DEF Allocate, Allocatable, NoActive, Active, Documents
  <2> HIDE DEF d
  <2>6. \A s \in Slots : StandingIn(d, s) = IF s = now THEN "PENDING"
                                             ELSE StandingIn(disk, s)
    BY <2>1, <2>4, <2>5 DEF StandingIn, Slots
  <2>7. StandingIn(disk, now) = "none" /\ disk.closed[now] = "none"
    BY <1>1, <2>5 DEF Good, Shape, StandingIn, Slots
  <2>8. Shape(d)
    BY <1>1, <2>1, <2>4, <2>5, <2>7 DEF Good, Shape, Slots
  <2>9. Honest(d)
    BY <1>1, <2>6, <2>7 DEF Good, Honest, Sent
  <2>10. {s \in Slots : StandingIn(d, s) = "DELIVERY_UNKNOWN"}
          = {s \in Slots : StandingIn(disk, s) = "DELIVERY_UNKNOWN"}
    BY <2>6, <2>7
  <2>11. Good(d)
    BY <1>1, <2>1, <2>4, <2>8, <2>9, <2>10 DEF Good, Ledger
  <2>12. Persist(d, "idle") /\ UNCHANGED <<now, config, destination>>
    BY <1>2 DEF Allocate, d, a
  <2> QED
    BY <2>11, <2>12, AtRest
<1>3. CASE Rotate
  <2> DEFINE d == Rotated(disk)
             e == [disk EXCEPT !.active = NoActive]
  <2>1. disk.active.slot \in Slots /\ disk.active.status # "none"
        /\ disk.active.status # "DELIVERING"
    BY <1>1, <1>3 DEF Rotate, Terminal, Good, Shape, Active, Records, Slots
  <2>2. NoActive \in Records /\ NoActive.slot = 0 /\ NoActive.status = "none"
    BY <1>1, PendingIs DEF NoActive
  <2>3. e \in Documents /\ e.active = NoActive /\ e.closed = disk.closed
        /\ e.high = disk.high /\ e.ledger = disk.ledger
    BY <1>1, <2>2 DEF Documents
  <2>4. d = [e EXCEPT !.closed = [disk.closed EXCEPT ![disk.active.slot] = disk.active.status]]
    BY <2>3 DEF Rotated
  <2>5. disk.closed \in [Slots -> Statuses] /\ disk.active.status \in Statuses
    BY <1>1 DEF Documents, Records, Active
  <2> HIDE DEF e
  <2>6. d \in Documents /\ d.active = NoActive /\ d.high = disk.high
        /\ d.ledger = disk.ledger
        /\ d.closed = [disk.closed EXCEPT ![disk.active.slot] = disk.active.status]
    BY <2>3, <2>4, <2>5 DEF Documents
  <2> HIDE DEF d
  <2>7. \A s \in Slots : StandingIn(d, s) = StandingIn(disk, s)
    <3> TAKE s \in Slots
    <3>1. CASE s = disk.active.slot
      <4>1. d.active.slot # s
        BY <2>1, <2>2, <2>6, <3>1 DEF Slots
      <4>2. d.closed[s] = disk.active.status
        BY <2>1, <2>5, <2>6, <3>1
      <4> QED
        BY <3>1, <4>1, <4>2 DEF StandingIn
    <3>2. CASE s # disk.active.slot
      BY <2>1, <2>2, <2>5, <2>6, <3>2 DEF StandingIn, Slots
    <3> QED
      BY <3>1, <3>2
  <2>8. Shape(d)
    BY <1>1, <2>1, <2>5, <2>6 DEF Good, Shape, NoActive, Slots, Documents
  <2>9. Good(d)
    BY <1>1, <2>1, <2>6, <2>7, <2>8 DEF Good, Honest, Ledger, NoActive
  <2>10. Persist(d, "idle") /\ UNCHANGED <<now, config, destination>>
    BY <1>3 DEF Rotate, d
  <2> QED
    BY <2>9, <2>10, AtRest
<1>4. CASE RecoverDelivering
  <2>1. Good(Recovered(disk))
    BY <1>4, Unresolved DEF RecoverDelivering, Recovered
  <2> QED
    BY <1>4, <2>1, AtRest DEF RecoverDelivering
<1>5. Open => Active.status \notin Sent /\ Active.status # "none"
  BY <1>1 DEF Open, Terminal, Sent, Good, Shape, Active
<1>6. CASE ConfigChanged
  <2>1. PhaseKept(Active, "config") \in Phases
    BY <1>1 DEF PhaseKept, Phases, Records
  <2>2. Good([disk EXCEPT !.active = Failed(Active, PhaseKept(Active, "config"), FALSE)])
    BY <1>5, <1>6, <2>1, OpenSlot DEF ConfigChanged
  <2> QED
    BY <1>6, <2>2, AtRest DEF ConfigChanged, Active
<1>7. CASE Supersede
  <2>1. Good([disk EXCEPT !.paused = TRUE])
    BY <1>1, Paused
  <2>2. Good([disk EXCEPT !.active = Failed(Active, "scheduler", FALSE)])
    BY <1>5, <1>7, OpenSlot DEF Supersede, Phases
  <2>3. Good(Superseded(disk))
    BY <2>1, <2>2 DEF Superseded, Active
  <2> QED
    BY <1>7, <2>3, AtRest DEF Supersede
<1>8. CASE RetryRender
  <2> DEFINE a == Pending(Active.slot, Active.renders, Active.sends)
  <2>1. a \in Records /\ a.slot = disk.active.slot /\ a.status = "PENDING"
    <3>1. Active.slot \in Slots /\ Active.renders \in Nat /\ Active.sends \in Nat
      BY <1>1, <1>5, <1>8 DEF RetryRender, Current, Good, Shape, Records, Slots,
                              Active
    <3> QED
      BY <1>1, <3>1, PendingIs DEF Active
  <2>2. Good([disk EXCEPT !.active = a])
    BY <1>1, <1>5, <1>8, <2>1, Unsent DEF RetryRender, Current, Sent, Active
  <2>3. Persist([disk EXCEPT !.active = a], "idle")
        /\ UNCHANGED <<now, config, destination>>
    BY <1>8 DEF RetryRender, Active
  <2> QED
    BY <2>2, <2>3, AtRest
<1>9. CASE RecordOrphan
  <2>1. Good([disk EXCEPT !.active = RenderFailure(Active)])
    BY <1>9, OpenSlot DEF RecordOrphan, Inv, Task, Sent
  <2> QED
    BY <1>9, <2>1, AtRest DEF RecordOrphan, Active
<1> QED
  BY <1>2, <1>3, <1>4, <1>6, <1>7, <1>8, <1>9

\* A write that is followed by more work of the task, or ends the coordinator.
LEMMA Onward ==
  ASSUME NEW new, NEW next, Inv, Good(new), Persist(new, next),
         UNCHANGED <<now, config, destination>>
  PROVE  /\ Inv' \/ (pc' = next /\ disk' = new)
         /\ now' \in Slots /\ config' \in Nat /\ Good(disk)' /\ Network'
<1>1. Good(disk)' /\ Network'
  BY PersistKeeps
<1>2. now' \in Slots /\ config' \in Nat
  BY DEF Inv
<1>3. CASE pc' = "down"
  BY <1>1, <1>2, <1>3 DEF Inv, Task
<1>4. CASE pc' = next /\ disk' = new
  BY <1>1, <1>2, <1>4
<1> QED
  BY <1>1, <1>2, <1>3, <1>4 DEF Persist

\* Rendering keeps the invariant.
LEMMA RenderingKeeps ==
  ASSUME Inv, RecoverRendering \/ ProbeLock \/ BeginRender \/ PrepareInput
              \/ Spawn \/ Rendered
  PROVE  Inv'
<1>1. Good(disk) /\ now \in Slots /\ config \in Nat
  BY DEF Inv
<1>2. CASE RecoverRendering
  <2>1. Active.status = "RENDERING" /\ UNCHANGED <<now, config, destination>>
    BY <1>2 DEF RecoverRendering
  <2>2. CASE Gen \in finals
    <3>1. Good([disk EXCEPT !.active = Adopt(Active)])
      BY <2>1, OpenSlot DEF Adopt, Sent
    <3>2. Persist([disk EXCEPT !.active = Adopt(Active)], "idle")
      BY <1>2, <2>2 DEF RecoverRendering, Active
    <3> QED
      BY <2>1, <3>1, <3>2, AtRest
  <2>3. CASE Gen \notin finals
    <3>1. pc' = "probe" /\ UNCHANGED <<disk, destination>>
      BY <1>2, <2>3 DEF RecoverRendering
    <3> QED
      BY <1>1, <2>1, <3>1, GoodUnchanged DEF Inv, Task, Active
  <2> QED
    BY <2>2, <2>3
<1>3. CASE ProbeLock
  BY <1>1, <1>3, GoodUnchanged DEF ProbeLock, Inv, Task, Active
<1>4. CASE BeginRender
  BY <1>1, <1>4, GoodUnchanged DEF BeginRender, Current, Inv, Task, Active
<1>5. CASE PrepareInput
  <2>1. Active.status = "PENDING" /\ UNCHANGED <<now, config, destination>>
    BY <1>5 DEF PrepareInput, Inv, Task
  <2>2. Good([disk EXCEPT !.active = Rendering(Active)])
        /\ Good([disk EXCEPT !.active = RenderFailure(Active)])
        /\ disk \in Documents /\ Active \in Records
    BY <1>1, <2>1, OpenSlot DEF Sent, Good, Shape
  <2>3. CASE Persist([disk EXCEPT !.active = Rendering(Active)], "spawn")
    <3>1. Rendering(Active).status = "RENDERING"
      <4> DEFINE c == Cleared(Active, "RENDERING")
      <4>1. c \in Records /\ c.status = "RENDERING"
        BY <2>2 DEF Cleared, Records, Statuses, Phases
      <4>2. Rendering(Active) = [c EXCEPT !.renders = c.renders + 1]
        BY DEF Rendering
      <4> HIDE DEF c
      <4> QED
        BY <4>1, <4>2 DEF Records
    <3> DEFINE a == Rendering(Active)
               n == [disk EXCEPT !.active = a]
    <3>2. n.active.status = "RENDERING"
      <4> HIDE DEF a
      <4>1. n.active = a
        BY <2>2 DEF Documents
      <4> QED
        BY <3>1, <4>1 DEF a
    <3> HIDE DEF a, n
    <3>3. Good(n) /\ Persist(n, "spawn")
      BY <2>2, <2>3 DEF n, a
    <3>4. Inv' \/ (pc' = "spawn" /\ disk' = n /\ now' \in Slots
                   /\ config' \in Nat /\ Good(disk)' /\ Network')
      BY <2>1, <3>3, Onward
    <3> QED
      BY <3>2, <3>4 DEF Inv, Task, Active
  <2>4. CASE Persist([disk EXCEPT !.active = RenderFailure(Active)], "idle")
    BY <2>1, <2>2, <2>4, AtRest
  <2> QED
    BY <1>5, <2>3, <2>4 DEF PrepareInput, Active
<1>6. CASE Spawn
  BY <1>1, <1>6, GoodUnchanged DEF Spawn, Inv, Task, Active
<1>7. CASE Rendered
  <2>1. Active.status = "RENDERING" /\ UNCHANGED <<now, config, destination>>
    BY <1>7 DEF Rendered, Inv, Task
  <2>2. Good([disk EXCEPT !.active = Adopt(Active)])
        /\ Good([disk EXCEPT !.active = RenderFailure(Active)])
    BY <2>1, OpenSlot DEF Adopt, Sent
  <2>3. CASE Persist([disk EXCEPT !.active = Adopt(Active)], "idle")
    BY <2>1, <2>2, <2>3, AtRest
  <2>4. CASE Persist([disk EXCEPT !.active = RenderFailure(Active)], "idle")
    BY <2>1, <2>2, <2>4, AtRest
  <2>5. CASE pc' = "idle" /\ UNCHANGED disk
    BY <1>1, <2>1, <2>5, GoodUnchanged DEF Inv, Task
  <2> QED
    BY <1>7, <2>3, <2>4, <2>5 DEF Rendered, Active
<1> QED
  BY <1>2, <1>3, <1>4, <1>5, <1>6, <1>7

\* Delivering and settling keep the invariant.
LEMMA DeliveryKeeps ==
  ASSUME Inv, BeginDelivery \/ ReadArtifact \/ Send \/ Timeout
              \/ LoadForSettlement \/ Settle
  PROVE  Inv'
<1>1. Good(disk) /\ disk \in Documents /\ Active \in Records
      /\ now \in Slots /\ config \in Nat
  BY DEF Inv, Good, Shape, Documents, Active
<1>2. CASE BeginDelivery
  BY <1>1, <1>2, GoodUnchanged DEF BeginDelivery, MayDeliver, Inv, Task, Active
<1>3. CASE ReadArtifact
  <2> DEFINE m == MarkDelivering(disk)
             f == [disk EXCEPT !.active =
                     Failed(Active, PhaseKept(Active, "scheduler"), FALSE)]
             next == IF m.active.status = "DELIVERING" THEN "send" ELSE "idle"
  <2>1. Active.status \in {"READY", "FAILED"}
        /\ UNCHANGED <<now, config, destination>>
    BY <1>3 DEF ReadArtifact, Inv, Task
  <2>2. PhaseKept(Active, "scheduler") \in Phases
    BY <1>1 DEF PhaseKept, Phases, Records
  <2>3. Good(f)
    BY <2>1, <2>2, OpenSlot DEF Sent
  <2>4. Good(m) /\ m.active.slot = Active.slot /\ Untouched
    BY <2>1, Marked
  <2>5. Persist(f, "idle") \/ Persist(m, next)
    BY <1>3 DEF ReadArtifact, Active
  <2> HIDE DEF m, f
  <2>6. CASE Persist(f, "idle")
    BY <2>1, <2>3, <2>6, AtRest
  <2>7. CASE Persist(m, next)
    <3>1. Inv' \/ (pc' = next /\ disk' = m /\ now' \in Slots
                   /\ config' \in Nat /\ Good(disk)' /\ Network')
      BY <2>1, <2>4, <2>7, Onward
    <3>2. UNCHANGED <<wire, accepted>>
      BY <2>1 DEF destination
    <3> QED
      BY <2>4, <3>1, <3>2 DEF Inv, Task, Active, Untouched
  <2> QED
    BY <2>5, <2>6, <2>7
<1>4. CASE Send
  <2>1. pc = "send" /\ Active.status = "DELIVERING" /\ Untouched
        /\ UNCHANGED <<now, config, disk, fresh, accepted>>
    BY <1>4 DEF Send, Inv, Task
  <2>2. CASE pc' = "answered" /\ answer' \in {"unsent", "unsendable"} /\ UNCHANGED wire
    BY <1>1, <2>1, <2>2, GoodUnchanged DEF Inv, Task, Active, Untouched, destination
  <2>3. CASE pc' = "await" /\ wire' = wire \cup {Active.slot} /\ UNCHANGED answer
    <3>1. Active.slot \in Slots
      BY <1>1, <2>1 DEF Good, Shape, Records, Slots, Active
    <3>2. Network'
      BY <2>1, <2>3, <3>1 DEF Inv, Network, Untouched
    <3>3. Honest(disk)'
      BY <1>1, <2>1, <2>3, <3>1 DEF Good, Honest, StandingIn, Sent, Active
    <3>4. Good(disk)'
      BY <1>1, <2>1, <3>3 DEF Good, Shape, Ledger, StandingIn
    <3> QED
      BY <1>1, <2>1, <2>3, <3>2, <3>4 DEF Inv, Task, Active
  <2> QED
    BY <1>4, <2>2, <2>3 DEF Send
<1>5. CASE Timeout
  BY <1>1, <1>5, GoodUnchanged DEF Timeout, TimedOut, Inv, Task, Active
<1>6. CASE LoadForSettlement
  BY <1>1, <1>6, GoodUnchanged
     DEF LoadForSettlement, Inv, Task, Active, Untouched, destination
<1>7. CASE Settle
  <2>1. /\ pc = "settle" /\ fresh /\ Active.status = "DELIVERING"
        /\ answer = "accepted" => accepted[Active.slot] > 0
        /\ answer \notin {"accepted", "unknown"} => Untouched
        /\ UNCHANGED <<now, config, destination>>
    BY <1>7 DEF Settle, Inv, Task
  <2>2. CASE Persist(Result(disk), "idle")
    BY <2>1, <2>2, Settled, AtRest
  <2>3. CASE pc' = "answered" /\ UNCHANGED <<disk, answer>>
    BY <1>1, <2>1, <2>3, GoodUnchanged
       DEF Inv, Task, Active, Untouched, destination
  <2> QED
    BY <1>7, <2>1, <2>2, <2>3 DEF Settle
<1> QED
  BY <1>2, <1>3, <1>4, <1>5, <1>6, <1>7

\* The destination keeps the invariant: an answer that reaches the task is
\* about the delivery it waits for.
LEMMA DestinationKeeps ==
  ASSUME Inv, NEW s \in Slots, Accept(s) \/ Reject(s)
  PROVE  Inv'
<1>1. /\ Good(disk) /\ Network /\ now \in Slots /\ config \in Nat
      /\ UNCHANGED <<now, config, disk, fresh>>
      /\ s \in wire /\ wire' = wire \ {s} /\ accepted[s] = 0
  BY DEF Inv, Network, Accept, Reject
<1>2. \/ accepted' = [accepted EXCEPT ![s] = accepted[s] + 1]
      \/ UNCHANGED accepted
  BY DEF Accept, Reject
<1>3. \A t \in Slots : t # s => accepted'[t] = accepted[t]
  BY <1>1, <1>2 DEF Network
<1>4. accepted'[s] \in {0, 1}
  BY <1>1, <1>2 DEF Network
<1>5. Network'
  BY <1>1, <1>2, <1>3, <1>4 DEF Network
<1>6. StandingIn(disk, s) \in {"DELIVERING", "SUCCEEDED", "DELIVERY_UNKNOWN"}
      /\ StandingIn(disk, s) # "SUCCEEDED"
  BY <1>1 DEF Good, Honest, Sent
<1>7. Honest(disk)'
  BY <1>1, <1>3, <1>6 DEF Good, Honest, StandingIn, Sent
<1>8. Good(disk)'
  BY <1>1, <1>7 DEF Good, Shape, Ledger, StandingIn
<1>9. Task'
  <2>1. CASE Active.slot = s
    <3>1. pc \notin {"send"} /\ ~Untouched
      BY <1>1, <2>1 DEF Inv, Task, Untouched
    <3>2. CASE UNCHANGED <<pc, answer>>
      BY <1>1, <1>2, <2>1, <3>1, <3>2 DEF Inv, Task, Untouched, Active
    <3>3. CASE Accept(s) /\ pc = "await" /\ pc' = "answered"
               /\ answer' \in {"accepted", "unknown"}
      <4>1. accepted'[s] > 0
        BY <1>1, <3>3 DEF Accept, Network
      <4> QED
        BY <1>1, <2>1, <3>3, <4>1 DEF Inv, Task, Active
    <3>4. CASE Reject(s) /\ pc = "await" /\ pc' = "answered"
               /\ answer' \in {"rejected", "refused", "unknown"}
      <4>1. Untouched'
        BY <1>1, <2>1, <3>4 DEF Reject, Untouched, Active
      <4> QED
        BY <1>1, <3>4, <4>1 DEF Inv, Task, Active
    <3> QED
      BY <3>2, <3>3, <3>4 DEF Accept, Reject, Answered
  <2>2. CASE Active.slot # s
    <3>1. UNCHANGED <<pc, answer>>
      BY <2>2 DEF Accept, Reject, Answered
    <3>2. CASE pc \in {"send", "answered", "settle"}
      <4>1. Active.slot \in Slots
        BY <1>1, <3>2 DEF Inv, Task, Good, Shape, Documents, Records, Slots, Active
      <4>2. accepted'[Active.slot] = accepted[Active.slot]
            /\ (Untouched => Untouched')
        BY <1>1, <1>3, <2>2, <4>1 DEF Untouched, Active
      <4> QED
        BY <1>1, <3>1, <3>2, <4>2 DEF Inv, Task, Active
    <3>3. CASE pc \notin {"send", "answered", "settle"}
      BY <1>1, <3>1, <3>3 DEF Inv, Task, Active
    <3> QED
      BY <3>2, <3>3
  <2> QED
    BY <2>1, <2>2
<1> QED
  BY <1>1, <1>5, <1>8, <1>9 DEF Inv

\* A health write changes the pause alone.
LEMMA HealthKeeps ==
  ASSUME Inv, NEW p, disk' = [disk EXCEPT !.paused = disk.paused \/ p]
                     \/ disk' = [disk EXCEPT !.paused = FALSE \/ p],
         UNCHANGED destination
  PROVE  Good(disk)' /\ Network' /\ Active' = Active
<1>1. PICK q \in BOOLEAN : disk' = [disk EXCEPT !.paused = q]
  <2>1. (disk.paused \/ p) \in BOOLEAN /\ (FALSE \/ p) \in BOOLEAN
    OBVIOUS
  <2> QED
    BY <2>1, Zenon
<1>2. Good(disk') /\ disk \in Documents
  BY <1>1, Paused DEF Inv, Good, Shape
<1>3. Active' = Active
  BY <1>1, <1>2 DEF Documents, Active
<1> QED
  BY <1>2, <1>3 DEF Inv, Good, Shape, Ledger, Honest, Network, StandingIn,
                    destination

\* The supervisor, the heartbeat and the clock keep the invariant.
LEMMA SupervisorKeeps ==
  ASSUME Inv, Heartbeat \/ Start \/ Reconfigure \/ Crash \/ Tick
  PROVE  Inv'
<1>1. Good(disk) /\ now \in Slots /\ config \in Nat
  BY DEF Inv
<1>2. CASE Heartbeat
  <2>1. Good(disk)' /\ Network' /\ Active' = Active
    BY <1>2, HealthKeeps DEF Heartbeat
  <2>2. pc # "settle" /\ UNCHANGED <<now, config, pc, answer, wire, accepted>>
    BY <1>2 DEF Heartbeat, HeartbeatPoints, destination
  <2> QED
    BY <1>1, <2>1, <2>2 DEF Inv, Task, Untouched
<1>3. CASE Start
  <2>1. pc' = "idle" /\ UNCHANGED <<now, config, destination>> /\ FirstHealth
    BY <1>3 DEF Start
  <2>2. Good(disk)' /\ Network'
    BY <2>1, HealthKeeps DEF FirstHealth
  <2> QED
    BY <1>1, <2>1, <2>2 DEF Inv, Task
<1>4. CASE Reconfigure
  <2>1. pc' = "idle" /\ now' = now /\ config' = config + 1
        /\ UNCHANGED destination /\ FirstHealth
    BY <1>4 DEF Reconfigure
  <2>2. Good(disk)' /\ Network'
    BY <2>1, HealthKeeps DEF FirstHealth
  <2> QED
    BY <1>1, <2>1, <2>2 DEF Inv, Task
<1>5. CASE Crash
  BY <1>1, <1>5, GoodUnchanged DEF Crash, Inv, Task
<1>6. CASE Tick
  <2>1. now' \in Slots /\ UNCHANGED <<config, disk, pc, fresh, answer, wire, accepted>>
    BY <1>1, <1>6, LimitsAssumption DEF Tick, Slots, coordinator, destination
  <2> QED
    BY <1>1, <2>1, GoodUnchanged DEF Inv, Task, Active, Untouched, destination
<1> QED
  BY <1>2, <1>3, <1>4, <1>5, <1>6

\* Every step keeps the invariant.
LEMMA NextKeeps == Inv /\ [Next]_vars => Inv'
<1> SUFFICES ASSUME Inv, [Next]_vars PROVE Inv'
  OBVIOUS
<1>1. CASE Reconcile
  BY <1>1, ReconcileKeeps, RenderingKeeps, DeliveryKeeps DEF Reconcile
<1>2. CASE Heartbeat \/ Start \/ Reconfigure \/ Crash \/ Tick
  BY <1>2, SupervisorKeeps
<1>3. CASE Timeout
  BY <1>3, DeliveryKeeps
<1>4. ASSUME NEW g \in Gens, Render(g) PROVE Inv'
  <2>1. UNCHANGED <<now, config, disk, pc, fresh, answer, wire, accepted>>
    BY <1>4 DEF Render, ChildStarts, ChildLocks, ChildRenders, ChildPromotes,
                ChildDies, coordinator, destination
  <2> QED
    BY <2>1, GoodUnchanged DEF Inv, Task, Active, Untouched, destination
<1>5. ASSUME NEW s \in Slots, Accept(s) \/ Reject(s) PROVE Inv'
  BY <1>5, DestinationKeeps
<1>6. CASE UNCHANGED vars
  BY <1>6, GoodUnchanged
     DEF vars, Inv, Task, Active, Untouched, destination
<1> QED
  BY <1>1, <1>2, <1>3, <1>4, <1>5, <1>6 DEF Next

\* Every reachable state satisfies the inductive invariant.
THEOREM Inductive == Spec => []Inv
BY InitGood, NextKeeps, PTL DEF Spec

-----------------------------------------------------------------------------
\* What the invariant says of the destination, the record and the ledger.
LEMMA InvSafe ==
  Inv => AtMostOnce /\ OutcomeHonest /\ LedgerExact /\ SettlementNotStale
<1> SUFFICES ASSUME Inv
             PROVE  AtMostOnce /\ OutcomeHonest /\ LedgerExact /\ SettlementNotStale
  OBVIOUS
<1>1. AtMostOnce
  BY DEF Inv, Network, AtMostOnce
<1>2. \A s \in Slots : Standing(s) = StandingIn(disk, s)
  BY DEF Standing, StandingIn, Active
<1>3. OutcomeHonest
  BY <1>2 DEF Inv, Good, Honest, Sent, OutcomeHonest
<1>4. LedgerExact
  <2>1. {s \in Slots : Standing(s) = "DELIVERY_UNKNOWN"}
         = {s \in Slots : StandingIn(disk, s) = "DELIVERY_UNKNOWN"}
    BY <1>2
  <2>2. Cardinality(disk.ledger) \in Nat
    <3>1. disk.ledger \in SUBSET Slots /\ 1 \in Slots
      BY LimitsAssumption DEF Inv, Good, Shape, Documents, Slots
    <3> QED
      BY <3>1, OneMore
  <2> QED
    BY <2>1, <2>2, LimitsAssumption
       DEF Inv, Good, Ledger, LedgerExact, LedgerFull, Active
<1>5. SettlementNotStale
  BY DEF Inv, Task, SettlementNotStale
<1> QED
  BY <1>1, <1>3, <1>4, <1>5

\* The destination takes the picture of a slot at most once, the durable
\* record never denies what it has or may still get, and an outcome is written
\* over the document it was decided on, whatever is lost and whoever dies
\* between the mark of a delivery and its outcome.
THEOREM DeliveriesAreHonest == Spec => []DeliveryHonest
BY Inductive, InvSafe, PTL DEF DeliveryHonest

\* The unresolved ledger is exact and never overruns its capacity, because a
\* delivery starts only with room to record that its outcome is unknown.
THEOREM LedgerKept == Spec => []LedgerExact
BY Inductive, InvSafe, PTL

-----------------------------------------------------------------------------
\* No transition but an allocation gives the active record another slot.
LEMMA SameSlot ==
  ASSUME Inv
  PROVE  /\ disk \in Documents
         /\ \A status \in Statuses : Cleared(Active, status).slot = Active.slot
         /\ \A phase, retry : Failed(Active, phase, retry).slot = Active.slot
         /\ Rendering(Active).slot = Active.slot
         /\ RenderFailure(Active).slot = Active.slot
         /\ MarkDelivering(disk).active.slot = Active.slot
         /\ MarkUnknown(disk).active.slot = Active.slot
         /\ Result(disk).active.slot = Active.slot
         /\ Superseded(disk).active.slot = Active.slot
<1>1. disk \in Documents /\ Active \in Records
  BY DEF Inv, Good, Shape, Documents, Active
<1>2. \A status \in Statuses : Cleared(Active, status).slot = Active.slot
  BY <1>1 DEF Cleared, Records
<1>3. \A phase, retry : Failed(Active, phase, retry).slot = Active.slot
  BY <1>1 DEF Failed, Records
<1>4. Rendering(Active).slot = Active.slot
  BY <1>1 DEF Rendering, Cleared, Records
<1>5. RenderFailure(Active).slot = Active.slot
  BY <1>1 DEF RenderFailure, Failed, Records
<1>6. MarkDelivering(disk).active.slot = Active.slot
  BY <1>1 DEF MarkDelivering, Delivering, Cleared, Records, Documents, Active
<1>7. MarkUnknown(disk).active.slot = Active.slot
  BY <1>1 DEF MarkUnknown, Failed, Records, Documents, Active
<1>8. Result(disk).active.slot = Active.slot
  <2>1. MarkSucceeded(disk).active.slot = Active.slot
    BY <1>1 DEF MarkSucceeded, Cleared, Records, Documents, Active
  <2>2. \A retry : [disk EXCEPT !.active =
                      Failed(@, "delivery", retry)].active.slot = Active.slot
    BY <1>1 DEF Failed, Records, Documents, Active
  <2> QED
    BY <1>7, <2>1, <2>2 DEF Result
<1>9. Superseded(disk).active.slot = Active.slot
  BY <1>1 DEF Superseded, Failed, Records, Documents, Active
<1> QED
  BY <1>1, <1>2, <1>3, <1>4, <1>5, <1>6, <1>7, <1>8, <1>9

\* A step that is not an allocation keeps the slot or leaves it.
LEMMA SlotKept ==
  ASSUME Inv, [Next]_vars, ~Allocate
  PROVE  Active'.slot \in {Active.slot, 0}
<1> USE SameSlot
<1>1. \A a : [disk EXCEPT !.active = a].active = a
  BY DEF Documents
<1>2. \A p : [disk EXCEPT !.paused = p].active = Active
  BY DEF Documents, Active
<1>3. ASSUME NEW new, NEW next, Persist(new, next),
             new.active.slot \in {Active.slot, 0}
      PROVE  Active'.slot \in {Active.slot, 0}
  BY <1>3 DEF Persist, Active
<1>4. CASE Rotate
  <2>1. Rotated(disk).active.slot = 0
    BY DEF Rotated, NoActive, Documents
  <2> QED
    BY <1>3, <1>4, <2>1 DEF Rotate
<1>5. CASE RecoverDelivering \/ Supersede
  BY <1>3, <1>5 DEF RecoverDelivering, Recovered, Supersede
<1>a. ASSUME NEW a, NEW next, Persist([disk EXCEPT !.active = a], next),
             a.slot = Active.slot
      PROVE  Active'.slot \in {Active.slot, 0}
  <2> DEFINE n == [disk EXCEPT !.active = a]
  <2>1. n.active.slot = Active.slot
    BY <1>1, <1>a
  <2> HIDE DEF n
  <2> QED
    BY <1>3, <1>a, <2>1 DEF n
<1>b. "READY" \in Statuses
  BY DEF Statuses
<1>c. CASE UNCHANGED disk
  BY <1>c DEF Active
<1>6. CASE ConfigChanged \/ RecoverRendering \/ RecordOrphan \/ PrepareInput
           \/ Rendered
  <2>1. CASE ConfigChanged
    <3>1. Persist([disk EXCEPT !.active =
                     Failed(Active, PhaseKept(Active, "config"), FALSE)], "idle")
      BY <2>1 DEF ConfigChanged, Active
    <3> QED
      BY <1>a, <3>1
  <2>2. CASE Persist([disk EXCEPT !.active = Adopt(Active)], "idle")
    BY <1>a, <1>b, <2>2 DEF Adopt
  <2>3. CASE Persist([disk EXCEPT !.active = RenderFailure(Active)], "idle")
    BY <1>a, <2>3
  <2>4. CASE Persist([disk EXCEPT !.active = Rendering(Active)], "spawn")
    BY <1>a, <2>4
  <2> QED
    BY <1>6, <1>c, <2>1, <2>2, <2>3, <2>4
       DEF RecoverRendering, RecordOrphan, PrepareInput, Rendered, Active
<1>7. CASE RetryRender
  <2>1. Pending(Active.slot, Active.renders, Active.sends).slot = Active.slot
    BY DEF Pending
  <2>2. Persist([disk EXCEPT !.active =
                   Pending(Active.slot, Active.renders, Active.sends)], "idle")
    BY <1>7 DEF RetryRender, Active
  <2> QED
    BY <1>a, <2>1, <2>2
<1>8. CASE ReadArtifact
  <2>1. CASE Persist([disk EXCEPT !.active =
               Failed(Active, PhaseKept(Active, "scheduler"), FALSE)], "idle")
    BY <1>a, <2>1
  <2>2. ASSUME NEW next, Persist(MarkDelivering(disk), next)
        PROVE  Active'.slot \in {Active.slot, 0}
    BY <1>3, <2>2
  <2> QED
    BY <1>8, <2>1, <2>2 DEF ReadArtifact, Active
<1>9. CASE Settle
  BY <1>3, <1>9 DEF Settle, Active
<1>10. CASE Heartbeat \/ Start \/ Reconfigure
  BY <1>2, <1>10 DEF Heartbeat, Start, Reconfigure, FirstHealth, Active
<1>11. CASE ProbeLock \/ BeginRender \/ Spawn \/ BeginDelivery \/ Send
            \/ LoadForSettlement \/ Timeout \/ Crash \/ Tick
  BY <1>c, <1>11 DEF ProbeLock, BeginRender, Spawn, BeginDelivery, Send,
     LoadForSettlement, Timeout, Crash, Tick
<1>12. ASSUME NEW g \in Gens, Render(g) PROVE Active'.slot \in {Active.slot, 0}
  BY <1>c, <1>12 DEF Render, ChildStarts, ChildLocks, ChildRenders,
     ChildPromotes, ChildDies
<1>13. ASSUME NEW s \in Slots, Accept(s) \/ Reject(s)
       PROVE  Active'.slot \in {Active.slot, 0}
  BY <1>c, <1>13 DEF Accept, Reject
<1> QED
  BY <1>4, <1>5, <1>6, <1>7, <1>8, <1>9, <1>10, <1>c, <1>11, <1>12, <1>13
     DEF Next, Reconcile, vars

\* An allocation takes a slot no earlier state of the document knew.
LEMMA AllocatedIsNew ==
  ASSUME Inv, Allocate, Active'.slot # Active.slot
  PROVE  /\ disk.closed[Active'.slot] = "none"
         /\ \A s \in Slots : Standing(s) # "none" => s < Active'.slot
<1>1. disk \in Documents /\ now \in Slots /\ Active.slot = 0 /\ now > disk.high
      /\ Active.status = "none" /\ disk.high \in 0..MaxSlot
  BY DEF Inv, Good, Shape, Allocate, Allocatable, NoActive, Documents
<1>2. Active'.slot = now
  <2> DEFINE a == Pending(now, 0, 0)
             e == [disk EXCEPT !.high = now]
  <2>1. [disk EXCEPT !.high = now, !.active = a].active = a
    <3>1. e \in Documents
      BY <1>1 DEF Documents, Slots
    <3>2. [disk EXCEPT !.high = now, !.active = a] = [e EXCEPT !.active = a]
      OBVIOUS
    <3> HIDE DEF e, a
    <3> QED
      BY <3>1, <3>2 DEF Documents
  <2>2. a.slot = now
    BY DEF Pending
  <2>3. Persist([disk EXCEPT !.high = now, !.active = a], "idle")
    BY DEF Allocate
  <2> HIDE DEF a
  <2> QED
    BY <2>1, <2>2, <2>3 DEF Persist, Active
<1>3. \A s \in Slots : s > disk.high => disk.closed[s] = "none"
  BY DEF Inv, Good, Shape
<1>4. \A s \in Slots : Standing(s) # "none" => s <= disk.high
  BY <1>1, <1>3 DEF Standing, Slots
<1> QED
  BY <1>1, <1>2, <1>3, <1>4 DEF Slots

\* A slot that was left is never allocated again: the high water of the
\* document alone decides what is new, across every crash and failed write.
THEOREM NeverReopened == Spec => SlotNeverReopened
<1>1. Inv /\ [Next]_vars =>
        [Active'.slot # Active.slot /\ Active'.slot # 0 =>
           /\ disk.closed[Active'.slot] = "none"
           /\ \A s \in Slots : Standing(s) # "none" => s < Active'.slot]_vars
  BY SlotKept, AllocatedIsNew
<1> QED
  BY <1>1, Inductive, PTL DEF Spec, SlotNeverReopened

-----------------------------------------------------------------------------
(* The limits.                                                             *)

\* No attempt beyond the configured ones, and one left wherever the slot may
\* still be rendered or delivered.
Limited(a) ==
  /\ a.renders \in 0..MaxRender /\ a.base \in 0..MaxRender
  /\ a.sends \in 0..MaxDelivery /\ a.config \in 0..MaxConfig
  /\ a.status = "PENDING" \/ (a.status = "FAILED" /\ a.phase = "render" /\ a.retry)
       => a.renders < MaxRender
  /\ a.status \in {"PENDING", "RENDERING", "READY"} \/ (a.status = "FAILED" /\ a.retry)
       => a.sends < MaxDelivery

\* What else the types promise of the task, the children and the bounds; a
\* delivery begins with a slot that is not given up.
Workers ==
  /\ config \in 1..MaxConfig
  /\ pc \in {"down", "idle", "probe", "orphan", "input", "spawn", "render",
             "artifact", "send", "await", "answered", "settle"}
  /\ fresh \in BOOLEAN /\ answer \in Answers
  /\ child \in [Gens -> {"none", "starting", "fenced", "rendering",
                         "checked", "busy"}]
  /\ finals \subseteq Gens
  /\ faults \in 0..MaxFaults
  /\ pc = "artifact" => ~Terminal(Active)

\* What the two basic transitions leave alone.
LEMMA FailedIs ==
  ASSUME NEW a \in Records, NEW phase \in Phases, NEW retry \in BOOLEAN
  PROVE  LET f == Failed(a, phase, retry)
         IN  /\ f \in Records /\ f.status = "FAILED" /\ f.phase = phase /\ f.retry = retry
             /\ f.renders = a.renders /\ f.base = a.base /\ f.sends = a.sends
             /\ f.config = a.config
BY DEF Failed, Records, Statuses

LEMMA ClearedIs ==
  ASSUME NEW a \in Records, NEW status \in Statuses
  PROVE  LET c == Cleared(a, status)
         IN  /\ c \in Records /\ c.status = status
             /\ c.renders = a.renders /\ c.base = a.base /\ c.sends = a.sends
             /\ c.config = a.config
BY DEF Cleared, Records, Phases

\* A final failure, and the end of a delivery, attempt nothing more.
LEMMA EndsAreLimited ==
  ASSUME NEW a \in Records, Limited(a)
  PROVE  /\ \A phase \in Phases : Limited(Failed(a, phase, FALSE))
         /\ \A status \in {"SUCCEEDED", "DELIVERY_UNKNOWN"} : Limited(Cleared(a, status))
         /\ Limited([Failed(a, "delivery", FALSE) EXCEPT !.status = "DELIVERY_UNKNOWN"])
         /\ Limited(Failed(a, "delivery", Retriable(a)))
<1>1. ASSUME NEW phase \in Phases PROVE Limited(Failed(a, phase, FALSE))
  <2> DEFINE f == Failed(a, phase, FALSE)
  <2>1. /\ f.status = "FAILED" /\ ~f.retry
        /\ f.renders = a.renders /\ f.base = a.base /\ f.sends = a.sends /\ f.config = a.config
    BY FailedIs
  <2> HIDE DEF f
  <2>2. Limited(f)
    BY <2>1 DEF Limited
  <2> QED
    BY <2>2 DEF f
<1>2. ASSUME NEW status \in {"SUCCEEDED", "DELIVERY_UNKNOWN"} PROVE Limited(Cleared(a, status))
  <2> DEFINE c == Cleared(a, status)
  <2>1. /\ c.status = status
        /\ c.renders = a.renders /\ c.base = a.base /\ c.sends = a.sends /\ c.config = a.config
    BY ClearedIs DEF Statuses
  <2> HIDE DEF c
  <2>2. Limited(c)
    BY <2>1 DEF Limited
  <2> QED
    BY <2>2 DEF c
<1>3. Limited([Failed(a, "delivery", FALSE) EXCEPT !.status = "DELIVERY_UNKNOWN"])
  <2> DEFINE f == Failed(a, "delivery", FALSE)
             u == [f EXCEPT !.status = "DELIVERY_UNKNOWN"]
  <2>a. "delivery" \in Phases /\ FALSE \in BOOLEAN
    BY DEF Phases
  <2>1. /\ f \in Records
        /\ f.renders = a.renders /\ f.base = a.base /\ f.sends = a.sends /\ f.config = a.config
    BY <2>a, FailedIs, Zenon
  <2> HIDE DEF f
  <2>2. /\ u.status = "DELIVERY_UNKNOWN"
        /\ u.renders = a.renders /\ u.base = a.base /\ u.sends = a.sends /\ u.config = a.config
    BY <2>1 DEF Records
  <2> HIDE DEF u
  <2>3. Limited(u)
    BY <2>2 DEF Limited
  <2> QED
    BY <2>3 DEF u, f
<1>4. Limited(Failed(a, "delivery", Retriable(a)))
  <2> DEFINE r == Retriable(a)
             f == Failed(a, "delivery", r)
  <2>1. r \in BOOLEAN /\ (r => a.sends < MaxDelivery)
    BY DEF Retriable
  <2> HIDE DEF r
  <2>2. /\ f.status = "FAILED" /\ f.phase = "delivery" /\ f.retry = r
        /\ f.renders = a.renders /\ f.base = a.base /\ f.sends = a.sends /\ f.config = a.config
    BY <2>1, FailedIs DEF Phases
  <2> HIDE DEF f
  <2>3. Limited(f)
    BY <2>1, <2>2 DEF Limited
  <2> QED
    BY <2>3 DEF f, r
<1> QED
  BY <1>1, <1>2, <1>3, <1>4

\* Rendering counts an attempt that is left, and a failure is tried again only
\* while another one is.
LEMMA RendersAreLimited ==
  ASSUME NEW a \in Records, Limited(a)
  PROVE  /\ a.status = "PENDING" => Limited(Rendering(a))
         /\ a.status = "RENDERING" => Limited(Adopt(a))
         /\ a.status \in {"PENDING", "RENDERING"} => Limited(RenderFailure(a))
<1>1. ASSUME a.status = "PENDING" PROVE Limited(Rendering(a))
  <2> DEFINE c == Cleared(a, "RENDERING")
             r == [c EXCEPT !.renders = c.renders + 1]
  <2>1. /\ c \in Records /\ c.status = "RENDERING"
        /\ c.renders = a.renders /\ c.base = a.base /\ c.sends = a.sends /\ c.config = a.config
    BY ClearedIs DEF Statuses
  <2>2. Rendering(a) = r
    BY DEF Rendering
  <2> HIDE DEF c
  <2>3. /\ r.status = "RENDERING" /\ r.renders = a.renders + 1
        /\ r.base = a.base /\ r.sends = a.sends /\ r.config = a.config
    BY <2>1 DEF Records
  <2> HIDE DEF r
  <2>4. Limited(r)
    BY <1>1, <2>3, LimitsAssumption DEF Limited
  <2> QED
    BY <2>2, <2>4
<1>2. ASSUME a.status = "RENDERING" PROVE Limited(Adopt(a))
  <2> DEFINE c == Cleared(a, "READY")
  <2>1. /\ c.status = "READY"
        /\ c.renders = a.renders /\ c.base = a.base /\ c.sends = a.sends /\ c.config = a.config
    BY ClearedIs DEF Statuses
  <2> HIDE DEF c
  <2>2. Limited(c)
    BY <1>2, <2>1 DEF Limited
  <2> QED
    BY <2>2 DEF c, Adopt
<1>3. ASSUME a.status \in {"PENDING", "RENDERING"} PROVE Limited(RenderFailure(a))
  <2> DEFINE n == IF a.status = "PENDING" THEN a.renders + 1 ELSE a.renders
             again == n < MaxRender
             f == Failed(a, "render", again)
             r == [f EXCEPT !.renders = n]
  <2>1. n \in 0..MaxRender
    BY <1>3, LimitsAssumption DEF Limited
  <2>2. again \in BOOLEAN /\ (again => n < MaxRender)
    OBVIOUS
  <2>3. RenderFailure(a) = r
    BY DEF RenderFailure
  <2> HIDE DEF n, again
  <2>4. /\ f \in Records /\ f.status = "FAILED" /\ f.phase = "render" /\ f.retry = again
        /\ f.base = a.base /\ f.sends = a.sends /\ f.config = a.config
    BY <2>2, FailedIs DEF Phases
  <2> HIDE DEF f
  <2>5. /\ r.status = "FAILED" /\ r.phase = "render" /\ r.retry = again /\ r.renders = n
        /\ r.base = a.base /\ r.sends = a.sends /\ r.config = a.config
    BY <2>4 DEF Records
  <2> HIDE DEF r
  <2>6. Limited(r)
    BY <1>3, <2>1, <2>2, <2>5 DEF Limited
  <2> QED
    BY <2>3, <2>6
<1> QED
  BY <1>1, <1>2, <1>3

\* A delivery that begins takes an attempt that is left; a full ledger takes
\* none.
LEMMA MarksAreLimited ==
  ASSUME disk \in Documents, Limited(Active), Active.status \in {"READY", "FAILED"},
         ~Terminal(Active)
  PROVE  Limited(MarkDelivering(disk).active)
<1>1. Active \in Records /\ Active.sends < MaxDelivery
  BY DEF Documents, Active, Terminal, Limited
<1>2. CASE Cardinality(disk.ledger) >= MaxUnresolved
  <2> DEFINE c == Cleared(Active, "READY")
  <2>1. MarkDelivering(disk) = [disk EXCEPT !.active = c, !.paused = TRUE]
    BY <1>2 DEF MarkDelivering, Active
  <2>2. /\ c.status = "READY"
        /\ c.renders = Active.renders /\ c.base = Active.base
        /\ c.sends = Active.sends /\ c.config = Active.config
    BY <1>1, ClearedIs DEF Statuses
  <2> HIDE DEF c
  <2>3. MarkDelivering(disk).active = c
    BY <2>1 DEF Documents
  <2>4. Limited(c)
    BY <1>1, <2>2 DEF Limited
  <2> QED
    BY <2>3, <2>4
<1>3. CASE ~(Cardinality(disk.ledger) >= MaxUnresolved)
  <2> DEFINE c == Cleared(Active, "DELIVERING")
             s == [c EXCEPT !.sends = c.sends + 1]
  <2>1. /\ c \in Records /\ c.status = "DELIVERING"
        /\ c.renders = Active.renders /\ c.base = Active.base
        /\ c.sends = Active.sends /\ c.config = Active.config
    BY <1>1, ClearedIs DEF Statuses
  <2>2. MarkDelivering(disk) = [disk EXCEPT !.active = s]
    BY <1>3 DEF MarkDelivering, Delivering, Active
  <2> HIDE DEF c
  <2>3. /\ s.status = "DELIVERING" /\ s.sends = Active.sends + 1
        /\ s.renders = Active.renders /\ s.base = Active.base /\ s.config = Active.config
    BY <2>1 DEF Records
  <2> HIDE DEF s
  <2>4. MarkDelivering(disk).active = s
    BY <2>2 DEF Documents
  <2>5. Limited(s)
    BY <1>1, <2>3, LimitsAssumption DEF Limited
  <2> QED
    BY <2>4, <2>5
<1> QED
  BY <1>2, <1>3

\* A settled, an unresolved and a superseded delivery keep the limits.
LEMMA OutcomesAreLimited ==
  ASSUME disk \in Documents, Limited(Active)
  PROVE  /\ Limited(MarkUnknown(disk).active)
         /\ Limited(Result(disk).active)
         /\ Limited(Superseded(disk).active)
<1>1. Active \in Records
  BY DEF Documents, Active
<1>2. MarkUnknown(disk).active = [Failed(Active, "delivery", FALSE)
                                    EXCEPT !.status = "DELIVERY_UNKNOWN"]
  <2> DEFINE u == [Failed(Active, "delivery", FALSE) EXCEPT !.status = "DELIVERY_UNKNOWN"]
  <2>1. MarkUnknown(disk) = [disk EXCEPT !.ledger = @ \cup {disk.active.slot}, !.active = u]
    BY DEF MarkUnknown, Active
  <2> HIDE DEF u
  <2>2. MarkUnknown(disk).active = u
    BY <2>1 DEF Documents
  <2> QED
    BY <2>2 DEF u
<1>3. \A a : [disk EXCEPT !.active = a].active = a
  BY DEF Documents
<1>4. Limited(MarkUnknown(disk).active)
  BY <1>1, <1>2, EndsAreLimited
<1>5. Limited(Result(disk).active)
  <2>1. /\ Limited(Cleared(Active, "SUCCEEDED"))
        /\ Limited(Failed(Active, "delivery", Retriable(Active)))
        /\ Limited(Failed(Active, "delivery", FALSE))
    BY <1>1, EndsAreLimited DEF Phases
  <2>2. \/ Result(disk) = MarkUnknown(disk)
        \/ Result(disk) = [disk EXCEPT !.active = Cleared(Active, "SUCCEEDED")]
        \/ Result(disk) = [disk EXCEPT !.active = Failed(Active, "delivery", Retriable(Active))]
        \/ Result(disk) = [disk EXCEPT !.active = Failed(Active, "delivery", FALSE)]
    BY DEF Result, MarkSucceeded, Active
  <2> QED
    BY <1>3, <1>4, <2>1, <2>2
<1>6. Limited(Superseded(disk).active)
  <2>1. Limited(Failed(Active, "scheduler", FALSE))
    BY <1>1, EndsAreLimited DEF Phases
  <2>2. \/ Superseded(disk) = [disk EXCEPT !.paused = TRUE]
        \/ Superseded(disk) = [disk EXCEPT !.active = Failed(Active, "scheduler", FALSE)]
    BY DEF Superseded, Active
  <2>3. [disk EXCEPT !.paused = TRUE].active = Active
    BY DEF Documents, Active
  <2> QED
    BY <1>3, <2>1, <2>2, <2>3
<1> QED
  BY <1>4, <1>5, <1>6

\* Whether a write is done, lost or fails, the active slot is the old one or
\* the one written.
LEMMA PersistIsLimited ==
  ASSUME NEW new, NEW next, Persist(new, next), Limited(Active), Limited(new.active)
  PROVE  Limited(Active)'
<1>1. disk' = disk \/ disk' = new
  BY DEF Persist
<1>2. Active' = Active \/ Active' = new.active
  BY <1>1 DEF Active
<1>3. Limited(Active')
  BY <1>2
<1> QED
  BY <1>3 DEF Limited

\* An allocated slot, or a new generation of one.
LEMMA PendingIsLimited ==
  ASSUME NEW slot, NEW renders \in 0..(MaxRender - 1), NEW sends \in 0..(MaxDelivery - 1),
         config \in 1..MaxConfig
  PROVE  Limited(Pending(slot, renders, sends))
BY LimitsAssumption DEF Limited, Pending

\* Every step keeps the attempts within their limits.
LEMMA LimitsKept ==
  ASSUME Inv, Workers, Limited(Active), [Next]_vars
  PROVE  Limited(Active)'
<1>1. disk \in Documents /\ Active \in Records
  BY DEF Inv, Good, Shape, Documents, Active
<1>2. \A a : [disk EXCEPT !.active = a].active = a
  BY <1>1 DEF Documents
<1>3. ASSUME NEW a, NEW next, Persist([disk EXCEPT !.active = a], next), Limited(a)
      PROVE  Limited(Active)'
  <2> DEFINE n == [disk EXCEPT !.active = a]
  <2>1. Limited(n.active)
    BY <1>2, <1>3
  <2> HIDE DEF n
  <2> QED
    BY <1>3, <2>1, PersistIsLimited DEF n
<1>4. CASE Active' = Active
  <2>1. Limited(Active')
    BY <1>4
  <2> QED
    BY <2>1 DEF Limited
<1>5. CASE UNCHANGED disk
  BY <1>4, <1>5 DEF Active
<1>6. CASE Allocate
  <2> DEFINE a == Pending(now, 0, 0)
             e == [disk EXCEPT !.high = now]
  <2>1. Limited(a)
    <3>1. 0 \in 0..(MaxRender - 1) /\ 0 \in 0..(MaxDelivery - 1)
      BY LimitsAssumption
    <3> QED
      BY <3>1, PendingIsLimited DEF Workers
  <2>2. Persist([disk EXCEPT !.high = now, !.active = a], "idle")
    BY <1>6 DEF Allocate
  <2> HIDE DEF a
  <2>3. [disk EXCEPT !.high = now, !.active = a].active = a
    <3>1. e = [e EXCEPT !.high = now] /\ [disk EXCEPT !.high = now, !.active = a] = [e EXCEPT !.active = a]
      BY <1>1 DEF Documents
    <3>2. e \in [high : Slots, active : Records, ledger : SUBSET Slots,
                 paused : BOOLEAN, closed : [Slots -> Statuses]]
      BY <1>1 DEF Documents, Inv
    <3> HIDE DEF e
    <3> QED
      BY <3>1, <3>2
  <2> DEFINE n == [disk EXCEPT !.high = now, !.active = a]
  <2>4. Limited(n.active)
    BY <2>1, <2>3
  <2> HIDE DEF n
  <2> QED
    BY <2>2, <2>4, PersistIsLimited DEF n
<1>7. CASE Rotate
  <2>1. Limited(NoActive)
    BY LimitsAssumption DEF Limited, NoActive
  <2>2. Rotated(disk).active = NoActive
    <3>1. Rotated(disk) = [[disk EXCEPT !.active = NoActive]
                             EXCEPT !.closed = [disk.closed EXCEPT ![disk.active.slot] = disk.active.status]]
      BY <1>1 DEF Rotated, Documents
    <3> QED
      BY <1>1, <3>1 DEF Documents
  <2>3. Persist(Rotated(disk), "idle")
    BY <1>7 DEF Rotate
  <2> QED
    BY <2>1, <2>2, <2>3, PersistIsLimited
<1>8. CASE RecoverDelivering \/ Supersede \/ Settle
  <2>1. /\ Limited(MarkUnknown(disk).active)
        /\ Limited(Result(disk).active)
        /\ Limited(Superseded(disk).active)
    BY <1>1, OutcomesAreLimited
  <2>2. \/ Persist(MarkUnknown(disk), "idle") \/ Persist(Superseded(disk), "idle")
        \/ Persist(Result(disk), "idle") \/ Persist(disk, "down") \/ UNCHANGED disk
    BY <1>8 DEF RecoverDelivering, Recovered, Supersede, Settle
  <2>3. Limited(disk.active)
    BY DEF Active
  <2> QED
    BY <1>5, <2>1, <2>2, <2>3, PersistIsLimited
<1>9. CASE ConfigChanged
  <2>1. PhaseKept(Active, "config") \in Phases
    BY <1>1 DEF PhaseKept, Phases, Records
  <2>2. Persist([disk EXCEPT !.active = Failed(Active, PhaseKept(Active, "config"), FALSE)], "idle")
    BY <1>9 DEF ConfigChanged, Active
  <2> QED
    BY <1>1, <1>3, <2>1, <2>2, EndsAreLimited
<1>10. CASE RetryRender
  <2>1. /\ Active.renders \in 0..(MaxRender - 1) /\ Active.sends \in 0..(MaxDelivery - 1)
        /\ config \in 1..MaxConfig
    BY <1>1, <1>10, LimitsAssumption
       DEF RetryRender, Current, Open, Terminal, Limited, Records, Workers
  <2>2. Persist([disk EXCEPT !.active = Pending(Active.slot, Active.renders, Active.sends)], "idle")
    BY <1>10 DEF RetryRender, Active
  <2> QED
    BY <1>3, <2>1, <2>2, PendingIsLimited
<1>11. CASE RecoverRendering \/ RecordOrphan \/ PrepareInput \/ Rendered
  <2>1. /\ Active.status = "PENDING" => Limited(Rendering(Active))
        /\ Active.status = "RENDERING" => Limited(Adopt(Active))
        /\ Active.status \in {"PENDING", "RENDERING"} => Limited(RenderFailure(Active))
    BY <1>1, RendersAreLimited
  <2>2. /\ PrepareInput => Active.status = "PENDING"
        /\ RecoverRendering \/ RecordOrphan \/ Rendered => Active.status = "RENDERING"
    BY DEF PrepareInput, RecoverRendering, RecordOrphan, Rendered, Inv, Task
  <2>3. \/ UNCHANGED disk
        \/ ~PrepareInput /\ Persist([disk EXCEPT !.active = Adopt(Active)], "idle")
        \/ Persist([disk EXCEPT !.active = RenderFailure(Active)], "idle")
        \/ PrepareInput /\ Persist([disk EXCEPT !.active = Rendering(Active)], "spawn")
    <3>1. CASE PrepareInput
      BY <3>1 DEF PrepareInput, Active
    <3>2. CASE ~PrepareInput
      BY <1>11, <3>2 DEF RecoverRendering, RecordOrphan, Rendered, Active
    <3> QED
      BY <3>1, <3>2
  <2> QED
    BY <1>3, <1>5, <1>11, <2>1, <2>2, <2>3
<1>12. CASE ReadArtifact
  <2>1. Active.status \in {"READY", "FAILED"} /\ ~Terminal(Active)
    BY <1>12 DEF ReadArtifact, Inv, Task, Workers
  <2>2. Limited(MarkDelivering(disk).active)
    BY <1>1, <2>1, MarksAreLimited
  <2>3. PhaseKept(Active, "scheduler") \in Phases
    BY <1>1 DEF PhaseKept, Phases, Records
  <2>4. Limited(Failed(Active, PhaseKept(Active, "scheduler"), FALSE))
    BY <1>1, <2>3, EndsAreLimited
  <2>5. \/ Persist([disk EXCEPT !.active = Failed(Active, PhaseKept(Active, "scheduler"), FALSE)], "idle")
        \/ \E next : Persist(MarkDelivering(disk), next)
    BY <1>12 DEF ReadArtifact, Active
  <2> QED
    BY <1>3, <2>2, <2>4, <2>5, PersistIsLimited
<1>13. CASE Heartbeat \/ Start \/ Reconfigure
  <2>1. PICK p : disk' = [disk EXCEPT !.paused = p]
    BY <1>13 DEF Heartbeat, Start, Reconfigure, FirstHealth
  <2> QED
    BY <1>1, <1>4, <2>1 DEF Documents, Active
<1>14. CASE ProbeLock \/ BeginRender \/ Spawn \/ BeginDelivery \/ Send
            \/ LoadForSettlement \/ Timeout \/ Crash \/ Tick
  BY <1>5, <1>14 DEF ProbeLock, BeginRender, Spawn, BeginDelivery, Send,
     LoadForSettlement, Timeout, Crash, Tick
<1>15. ASSUME NEW g \in Gens, Render(g) PROVE Limited(Active)'
  BY <1>5, <1>15 DEF Render, ChildStarts, ChildLocks, ChildRenders,
     ChildPromotes, ChildDies
<1>16. ASSUME NEW s \in Slots, Accept(s) \/ Reject(s) PROVE Limited(Active)'
  BY <1>5, <1>16 DEF Accept, Reject
<1> QED
  BY <1>5, <1>6, <1>7, <1>8, <1>9, <1>10, <1>11, <1>12, <1>13, <1>14, <1>15, <1>16
     DEF Next, Reconcile, vars

\* The task, its children and the fault count keep their types.
LEMMA WorkersKept ==
  ASSUME Inv, Workers, [Next]_vars
  PROVE  Workers'
<1> DEFINE Places == {"down", "idle", "probe", "orphan", "input", "spawn", "render",
                      "artifact", "send", "await", "answered", "settle"}
           ChildStates == {"none", "starting", "fenced", "rendering", "checked", "busy"}
<1>1. MaxFaults \in Nat /\ faults \in 0..MaxFaults
  BY LimitsAssumption DEF Workers
<1>2. ASSUME NEW new, NEW next \in Places \ {"artifact"}, Persist(new, next)
      PROVE  pc' \in Places \ {"artifact"} /\ faults' \in 0..MaxFaults
  BY <1>1, <1>2 DEF Persist
<1>3. ASSUME NEW g, NEW v \in ChildStates, child' = [child EXCEPT ![g] = v]
      PROVE  child' \in [Gens -> ChildStates]
  BY <1>3 DEF Workers
<1>4. CASE \/ Allocate \/ RecoverDelivering \/ ConfigChanged \/ Supersede \/ RecordOrphan
           \/ RetryRender \/ PrepareInput \/ RecoverRendering
  <2>1. \/ \E new : \E next \in {"idle", "spawn"} : Persist(new, next)
        \/ pc' = "probe" /\ UNCHANGED faults
    BY <1>4 DEF Allocate, RecoverDelivering, ConfigChanged, Supersede, RecordOrphan,
                RetryRender, PrepareInput, RecoverRendering
  <2>2. UNCHANGED <<config, child, finals, fresh, answer>>
    BY <1>4 DEF Allocate, RecoverDelivering, ConfigChanged, Supersede, RecordOrphan,
                RetryRender, PrepareInput, RecoverRendering, renderer
  <2> QED
    BY <1>1, <1>2, <2>1, <2>2 DEF Workers
<1>5. CASE Rotate
  <2>1. Persist(Rotated(disk), "idle") /\ UNCHANGED <<config, child, fresh, answer>>
        /\ finals' \subseteq finals
    BY <1>5 DEF Rotate
  <2> QED
    BY <1>2, <2>1 DEF Workers
<1>6. CASE ProbeLock \/ BeginRender \/ BeginDelivery \/ Send \/ LoadForSettlement \/ Timeout \/ Crash
  <2>1. /\ UNCHANGED <<config, child, finals, disk>> /\ fresh' \in BOOLEAN /\ answer' \in Answers
        /\ pc' \in Places /\ faults' \in 0..MaxFaults
    <3>1. CASE ProbeLock \/ BeginRender \/ BeginDelivery \/ LoadForSettlement
      BY <3>1 DEF ProbeLock, BeginRender, BeginDelivery, LoadForSettlement, renderer, Workers
    <3>2. CASE Send \/ Timeout
      BY <3>2 DEF Send, Timeout, TimedOut, renderer, Workers, Answers
    <3>3. CASE Crash
      <4>1. faults < MaxFaults /\ faults' = faults + 1
        BY <3>3 DEF Crash
      <4>2. faults' \in 0..MaxFaults
        BY <1>1, <4>1
      <4> QED
        BY <3>3, <4>2 DEF Crash, renderer, Answers
    <3> QED
      BY <1>6, <3>1, <3>2, <3>3
  <2>2. pc' = "artifact" => ~Terminal(Active)
    BY <1>6 DEF ProbeLock, BeginRender, BeginDelivery, Send, LoadForSettlement, Timeout,
                Crash, Current, Open
  <2> QED
    BY <2>1, <2>2 DEF Workers, Active
<1>7. CASE Spawn
  <2>1. child' = [child EXCEPT ![Gen] = "starting"] /\ pc' = "render"
        /\ UNCHANGED <<config, finals, faults, fresh, answer>>
    BY <1>7 DEF Spawn
  <2> QED
    BY <1>3, <2>1 DEF Workers
<1>8. CASE Rendered
  <2>1. child' = [child EXCEPT ![Gen] = "none"] /\ UNCHANGED <<config, finals, fresh, answer>>
    BY <1>8 DEF Rendered
  <2>2. (\E new : Persist(new, "idle")) \/ (pc' = "idle" /\ UNCHANGED faults)
    BY <1>8 DEF Rendered
  <2>3. pc' \in Places \ {"artifact"} /\ faults' \in 0..MaxFaults
    BY <1>1, <1>2, <2>2
  <2> QED
    BY <1>3, <2>1, <2>3 DEF Workers
<1>9. CASE ReadArtifact
  <2>1. UNCHANGED <<config, child, finals, fresh, answer>>
        /\ \E new : \E next \in {"idle", "send"} : Persist(new, next)
    BY <1>9 DEF ReadArtifact, renderer
  <2> QED
    BY <1>2, <2>1 DEF Workers
<1>10. CASE Settle
  <2>1. /\ UNCHANGED <<config, child, finals>> /\ fresh' \in BOOLEAN
        /\ answer' \in {"none", answer}
    BY <1>10 DEF Settle, renderer
  <2>2. \/ \E new : \E next \in {"idle", "down"} : Persist(new, next)
        \/ pc' = "answered" /\ faults < MaxFaults /\ faults' = faults + 1
    BY <1>10 DEF Settle
  <2>3. pc' \in Places \ {"artifact"} /\ faults' \in 0..MaxFaults
    BY <1>1, <1>2, <2>2
  <2> QED
    BY <2>1, <2>3 DEF Workers, Answers
<1>11. CASE Heartbeat \/ Start \/ Reconfigure
  <2>1. UNCHANGED <<child, finals, faults>> /\ pc' # "artifact"
    BY <1>11 DEF Heartbeat, HeartbeatPoints, Start, Reconfigure, renderer
  <2>2. pc' \in Places /\ fresh' \in BOOLEAN /\ answer' \in Answers
    BY <1>11 DEF Heartbeat, Start, Reconfigure, Workers, Answers
  <2>3. config' \in 1..MaxConfig
    BY <1>11, LimitsAssumption DEF Heartbeat, Start, Reconfigure, Workers
  <2> QED
    BY <2>1, <2>2, <2>3 DEF Workers
<1>12. ASSUME NEW g \in Gens, Render(g) PROVE Workers'
  <2>1. UNCHANGED <<config, disk, pc, fresh, answer, faults>>
    BY <1>12 DEF Render, ChildStarts, ChildLocks, ChildRenders, ChildPromotes, ChildDies, coordinator
  <2>2. finals' \subseteq finals \cup {g}
    BY <1>12 DEF Render, ChildStarts, ChildLocks, ChildRenders, ChildPromotes, ChildDies
  <2>3. \E v \in ChildStates : child' = [child EXCEPT ![g] = v]
    BY <1>12 DEF Render, ChildStarts, ChildLocks, ChildRenders, ChildPromotes, ChildDies
  <2> QED
    BY <1>3, <2>1, <2>2, <2>3 DEF Workers, Active
<1>13. ASSUME NEW s \in Slots, Accept(s) \/ Reject(s) PROVE Workers'
  <2>1. UNCHANGED <<config, disk, child, finals, fresh, faults>>
    BY <1>13 DEF Accept, Reject, renderer
  <2>2. (pc' = "answered" /\ answer' \in Answers) \/ UNCHANGED <<pc, answer>>
    BY <1>13 DEF Accept, Reject, Answered, Answers
  <2> QED
    BY <2>1, <2>2 DEF Workers, Active
<1>14. CASE Tick \/ UNCHANGED vars
  BY <1>14 DEF Tick, vars, coordinator, renderer, Workers, Active
<1> QED
  BY <1>4, <1>5, <1>6, <1>7, <1>8, <1>9, <1>10, <1>11, <1>12, <1>13, <1>14 DEF Next, Reconcile

LEMMA InitLimits == Init => Workers /\ Limited(Active)
<1> SUFFICES ASSUME Init PROVE Workers /\ Limited(Active)
  OBVIOUS
<1>1. Active = NoActive
  BY DEF Init, Active
<1>2. Limited(NoActive)
  BY LimitsAssumption DEF Limited, NoActive
<1>3. Workers
  <2>1. config \in 1..MaxConfig /\ faults \in 0..MaxFaults
    BY LimitsAssumption DEF Init
  <2> QED
    BY <2>1 DEF Init, Workers, Answers
<1> QED
  BY <1>1, <1>2, <1>3

\* Whatever crashes, failed writes and changes of configuration come between,
\* neither renders nor deliveries of a slot exceed the configured attempts.
THEOREM AttemptsStayInLimits == Spec => []TypeOK
<1>1. Init => Inv /\ Workers /\ Limited(Active)
  BY InitGood, InitLimits
<1>2. Inv /\ Workers /\ Limited(Active) /\ [Next]_vars => (Inv /\ Workers /\ Limited(Active))'
  BY NextKeeps, WorkersKept, LimitsKept
<1>3. Inv /\ Workers /\ Limited(Active) => TypeOK
  <2> SUFFICES ASSUME Inv, Workers, Limited(Active) PROVE TypeOK
    OBVIOUS
  <2>1. Active \in ActiveSlots
    BY DEF Inv, Good, Shape, Documents, Records, ActiveSlots, Active, Limited
  <2>2. disk \in [high : 0..MaxSlot, active : ActiveSlots, ledger : SUBSET Slots,
                  paused : BOOLEAN, closed : [Slots -> Statuses]]
    BY <2>1 DEF Inv, Good, Shape, Documents, Active
  <2> QED
    BY <2>2 DEF Inv, Network, Workers, TypeOK
<1> QED
  BY <1>1, <1>2, <1>3, PTL DEF Spec
=============================================================================

-------------------------- MODULE DataBrokerProofs --------------------------
(***************************************************************************)
(* For any set of requests and any queue capacity, the settlement protocol *)
(* of required publications is honest: a receipt means a send, and what was *)
(* withdrawn is never sent.                                                *)
(***************************************************************************)
EXTENDS DataBroker, FiniteSetTheorems, SequenceTheorems, TLAPS

\* What the claims need to know about a request: where the publisher holds it,
\* how its future stands, and that only an issued request has an envelope.
EnvelopeFacts ==
  \A r \in Requests :
    /\ caller[r] = "idle" => envelope[r] = "none"
    /\ r \in sent => envelope[r] \in {"acknowledged", "rejected"}
    /\ envelope[r] = "acknowledged" => r \in sent
    /\ loop = r => envelope[r] \in {"claimed", "rejected"}

\* The inductive invariant of the settlement protocol.
SettlementInv == PublisherTypeOK /\ SettledOnce /\ ReceiptMeansSent /\ EnvelopeFacts

\* The states of the protocol satisfy the invariant from the start.
LEMMA InitSettlement == Init => SettlementInv
BY CapacityPositive, RequestsAreNotMarkers
   DEF Init, SettlementInv, PublisherTypeOK, SettledOnce, ReceiptMeansSent, EnvelopeFacts

\* No step of a caller, of the publisher or of telemetry breaks it.
LEMMA NextSettlement == SettlementInv /\ [Next]_vars => SettlementInv'
<1> SUFFICES ASSUME SettlementInv, [Next]_vars PROVE SettlementInv'
  OBVIOUS
<1> USE CapacityPositive, RequestsAreNotMarkers, TelemetryBound
    DEF SettlementInv, PublisherTypeOK, SettledOnce, ReceiptMeansSent, EnvelopeFacts, subVars, pubVars, Telemetry
<1>1. ASSUME NEW r \in Requests, PublishRequired(r) PROVE SettlementInv'
  <2>1. queue' \in Seq(Requests \cup {Telemetry})
    <3> HIDE DEF SettledOnce, ReceiptMeansSent, EnvelopeFacts, subVars
    <3>1. queue' = queue \/ queue' = Append(queue, r)
      BY <1>1 DEF PublishRequired
    <3>2. r \in Requests \cup {Telemetry} /\ queue \in Seq(Requests \cup {Telemetry})
      OBVIOUS
    <3> QED
      BY <3>1, <3>2
  <2>2. PublisherTypeOK'
    BY <1>1, <2>1 DEF PublishRequired
  <2>3. (SettledOnce /\ ReceiptMeansSent)'
    BY <1>1 DEF PublishRequired
  <2>4. EnvelopeFacts'
    BY <1>1 DEF PublishRequired
  <2> QED
    BY <2>2, <2>3, <2>4
<1>2. ASSUME NEW r \in Requests, ExpireUnclaimed(r) PROVE SettlementInv'
  BY <1>2 DEF ExpireUnclaimed, WithdrawIfUnclaimed
<1>3. ASSUME NEW r \in Requests, CancelCaller(r) PROVE SettlementInv'
  BY <1>3 DEF CancelCaller, WithdrawIfUnclaimed
<1>4. ASSUME NEW r \in Requests, CallerResume(r) PROVE SettlementInv'
  BY <1>4 DEF CallerResume
<1>5. CASE LoopTake
  BY <1>5 DEF LoopTake, RejectAll
<1>6. CASE LoopSent
  BY <1>6 DEF LoopSent
<1>7. CASE LoopFailed
  BY <1>7 DEF LoopFailed, RejectAll
<1>8. CASE StopBegin
  BY <1>8 DEF StopBegin
<1>9. CASE StopDrain
  BY <1>9 DEF StopDrain, RejectAll
<1>10. CASE Unsubscribe
  <2>1. queue' \in Seq(Requests \cup {Telemetry})
    BY <1>10 DEF Unsubscribe
  <2>2. PublisherTypeOK'
    BY <1>10, <2>1 DEF Unsubscribe, RejectAll
  <2>3. (SettledOnce /\ ReceiptMeansSent)'
    BY <1>10 DEF Unsubscribe, RejectAll
  <2>4. EnvelopeFacts'
    BY <1>10 DEF Unsubscribe, RejectAll
  <2> QED
    BY <2>2, <2>3, <2>4
<1>11. CASE Publish
  BY <1>11 DEF Publish
<1>12. CASE SubscriberTake
  BY <1>12 DEF SubscriberTake
<1>13. CASE UNCHANGED vars
  BY <1>13 DEF vars
<1> QED
  BY <1>1, <1>2, <1>3, <1>4, <1>5, <1>6, <1>7, <1>8, <1>9, <1>10, <1>11, <1>12, <1>13 DEF Next

\* A receipt from publish_required always stands for a completed send.
THEOREM ReceiptsAreHonest == Spec => []ReceiptMeansSent
<1>1. SettlementInv => ReceiptMeansSent
  BY DEF SettlementInv
<1> QED
  BY <1>1, InitSettlement, NextSettlement, PTL DEF Spec

\* An envelope withdrawn by timeout or cancellation never reaches the wire,
\* whatever the interleaving of expiry, cancellation, claim and shutdown.
THEOREM WithdrawnIsFinal == Spec => []WithdrawnNeverSent
<1>1. SettlementInv => WithdrawnNeverSent
  BY DEF SettlementInv, EnvelopeFacts, WithdrawnNeverSent
<1> QED
  BY <1>1, InitSettlement, NextSettlement, PTL DEF Spec

\* The verdict a caller of publish_required acts on is true: what was receipted
\* was sent, and what was withdrawn never is.
THEOREM VerdictsAreHonest == Spec => []VerdictHonest
BY ReceiptsAreHonest, WithdrawnIsFinal, PTL DEF VerdictHonest

(***************************************************************************)
(* Nothing leaves the queues unaccounted for.                              *)
(***************************************************************************)

\* Only an issued request is in the queue, at one place, and an envelope
\* nobody has claimed or settled is there.
QueueInv ==
  /\ queue \in Seq(Requests \cup {Telemetry})
  /\ Len(queue) =< Capacity
  /\ \A r \in Requests :
       /\ InQueue(r) => caller[r] # "idle"
       /\ \A i, j \in 1..Len(queue) : queue[i] = r /\ queue[j] = r => i = j
       /\ envelope[r] = "unclaimed" => InQueue(r)

\* Increasing sequences of reading numbers, none above n.
Increasing(s, n) ==
  /\ \A i \in 1..Len(s) : s[i] =< n
  /\ \A i \in 1..Len(s) : \A j \in 1..Len(s) : i < j => s[i] < s[j]

\* Every reading of s is older than every reading of q.
Older(s, q) == \A i \in 1..Len(s) : \A j \in 1..Len(q) : s[i] < q[j]

\* The readings of the ordinary subscriber, taken and queued, are numbered in
\* the order they were published, and with the dropped ones they are all there.
ReadingsInv ==
  /\ policy \in {"drop_oldest", "drop_newest"}
  /\ subQueue \in Seq(Nat) /\ subTaken \in Seq(Nat) /\ subDropped \in Nat /\ published \in Nat
  /\ Len(subQueue) =< SubCapacity
  /\ Len(subTaken) + Len(subQueue) + subDropped = published
  /\ Increasing(subTaken, published) /\ Increasing(subQueue, published) /\ Older(subTaken, subQueue)

\* Appending to the queue puts the item behind what is there.
LEMMA Appended ==
  ASSUME NEW S, NEW q \in Seq(S), NEW x \in S
  PROVE  /\ Append(q, x) \in Seq(S) /\ Len(Append(q, x)) = Len(q) + 1
         /\ \A i \in 1..Len(q) : Append(q, x)[i] = q[i]
         /\ Append(q, x)[Len(q) + 1] = x
OBVIOUS

\* Taking the head moves everything else one place forward.
LEMMA Taken ==
  ASSUME NEW S, NEW q \in Seq(S), q # <<>>
  PROVE  /\ Tail(q) \in Seq(S) /\ Len(Tail(q)) = Len(q) - 1 /\ Len(q) \in Nat \ {0}
         /\ \A i \in 1..Len(Tail(q)) : Tail(q)[i] = q[i + 1]
         /\ Head(q) \in S /\ Head(q) = q[1]
OBVIOUS

\* What the queue holds of an item after an append or a take.
LEMMA InQueueNext ==
  ASSUME queue \in Seq(Requests \cup {Telemetry}), NEW r \in Requests
  PROVE  /\ queue' = queue => (InQueue(r)' <=> InQueue(r))
         /\ queue' = <<>> => ~InQueue(r)'
         /\ \A x \in Requests \cup {Telemetry} :
              queue' = Append(queue, x) => (InQueue(r)' <=> InQueue(r) \/ x = r)
         /\ queue # <<>> /\ queue' = Tail(queue) =>
              /\ InQueue(r)' => InQueue(r)
              /\ InQueue(r) => InQueue(r)' \/ Head(queue) = r
<1>1. queue' = queue => (InQueue(r)' <=> InQueue(r))
  BY DEF InQueue
<1>2. queue' = <<>> => ~InQueue(r)'
  BY DEF InQueue
<1>3. ASSUME NEW x \in Requests \cup {Telemetry}, queue' = Append(queue, x)
      PROVE  InQueue(r)' <=> InQueue(r) \/ x = r
  <2>1. /\ Len(queue) \in Nat /\ Len(queue') = Len(queue) + 1
        /\ \A i \in 1..Len(queue) : queue'[i] = queue[i]
        /\ queue'[Len(queue) + 1] = x
    BY <1>3, Appended
  <2> QED BY <2>1 DEF InQueue
<1>4. ASSUME queue # <<>>, queue' = Tail(queue)
      PROVE  /\ InQueue(r)' => InQueue(r)
             /\ InQueue(r) => InQueue(r)' \/ Head(queue) = r
  <2>1. /\ Len(queue) \in Nat \ {0} /\ Len(queue') = Len(queue) - 1
        /\ \A i \in 1..Len(queue') : queue'[i] = queue[i + 1]
        /\ Head(queue) = queue[1]
    BY <1>4, Taken
  <2>2. InQueue(r)' => InQueue(r)
    BY <2>1 DEF InQueue
  <2>3. ASSUME NEW i \in 1..Len(queue), queue[i] = r, i # 1 PROVE InQueue(r)'
    <3>1. i - 1 \in 1..Len(queue') /\ queue'[i - 1] = r
      BY <2>1, <2>3
    <3> QED BY <3>1 DEF InQueue
  <2> QED BY <2>1, <2>2, <2>3 DEF InQueue
<1> QED BY <1>1, <1>2, <1>3, <1>4

\* The drained queue and the queue from the start hold nothing.
LEMMA InitQueues == Init => QueueInv /\ ReadingsInv
<1> SUFFICES ASSUME Init PROVE QueueInv /\ ReadingsInv
  OBVIOUS
<1> USE CapacityPositive DEF Init
<1>1. QueueInv
  BY DEF QueueInv, InQueue
<1>2. ReadingsInv
  BY DEF ReadingsInv, Increasing, Older
<1> QED BY <1>1, <1>2

\* A step that leaves the queue alone keeps its invariant if it makes no
\* envelope unclaimed and no caller idle.
LEMMA SameQueue ==
  ASSUME QueueInv, queue' = queue,
         \A r \in Requests : /\ caller'[r] = "idle" => caller[r] = "idle"
                             /\ envelope'[r] = "unclaimed" => envelope[r] = "unclaimed"
  PROVE  QueueInv'
BY InQueueNext DEF QueueInv

\* A step that empties the queue keeps its invariant if it settles what was there.
LEMMA EmptiedQueue ==
  ASSUME QueueInv, queue' = <<>>, \A r \in Requests : envelope'[r] # "unclaimed"
  PROVE  QueueInv'
BY InQueueNext, CapacityPositive DEF QueueInv

\* Rejecting all that is queued leaves no envelope unclaimed.
LEMMA RejectedQueue ==
  ASSUME QueueInv, SettlementInv, RejectAll({r \in Requests : InQueue(r)}), queue' = <<>>,
         UNCHANGED caller
  PROVE  QueueInv'
<1>1. \A r \in Requests : envelope'[r] # "unclaimed"
  BY DEF QueueInv, RejectAll
<1> QED BY <1>1, EmptiedQueue

\* No step of the program duplicates, drops or forgets what is queued.
LEMMA NextQueue == SettlementInv /\ QueueInv /\ [Next]_vars => QueueInv'
<1> SUFFICES ASSUME SettlementInv, QueueInv, [Next]_vars PROVE QueueInv'
  OBVIOUS
<1>0. /\ envelope \in [Requests -> {"none", "unclaimed", "claimed", "acknowledged", "rejected", "withdrawn"}]
      /\ caller \in [Requests -> {"idle", "waiting", "receipt", "error", "cancelled"}]
      /\ queue \in Seq(Requests \cup {Telemetry}) /\ Len(queue) =< Capacity
      /\ Telemetry \notin Requests /\ Capacity \in Nat \ {0}
  BY CapacityPositive, RequestsAreNotMarkers DEF SettlementInv, PublisherTypeOK, QueueInv, Telemetry
<1>1. ASSUME NEW r \in Requests, PublishRequired(r) PROVE QueueInv'
  <2>1. CASE registered /\ Len(queue) < Capacity
    <3>1. /\ queue' = Append(queue, r) /\ caller[r] = "idle"
          /\ envelope' = [envelope EXCEPT ![r] = "unclaimed"]
          /\ caller' = [caller EXCEPT ![r] = "waiting"]
      BY <1>1, <2>1 DEF PublishRequired
    <3>2. ~InQueue(r)
      BY <3>1 DEF QueueInv
    <3>3. /\ queue' \in Seq(Requests \cup {Telemetry}) /\ Len(queue') = Len(queue) + 1
          /\ \A i \in 1..Len(queue) : queue'[i] = queue[i]
          /\ queue'[Len(queue) + 1] = r /\ Len(queue) \in Nat
      BY <1>0, <3>1, Appended
    <3>4. ASSUME NEW x \in Requests
          PROVE  /\ InQueue(x)' => caller'[x] # "idle"
                 /\ envelope'[x] = "unclaimed" => InQueue(x)'
      BY <1>0, <3>1, InQueueNext DEF QueueInv
    <3>5. ASSUME NEW x \in Requests, NEW i \in 1..Len(queue'), NEW j \in 1..Len(queue'),
                 queue'[i] = x, queue'[j] = x
          PROVE  i = j
      BY <3>2, <3>3, <3>5 DEF QueueInv, InQueue
    <3>6. Len(queue') =< Capacity
      BY <1>0, <2>1, <3>3
    <3> QED BY <3>3, <3>4, <3>5, <3>6 DEF QueueInv
  <2>2. CASE ~(registered /\ Len(queue) < Capacity)
    BY <1>0, <1>1, <2>2, SameQueue DEF PublishRequired
  <2> QED BY <2>1, <2>2
<1>2. ASSUME NEW r \in Requests, ExpireUnclaimed(r) \/ CancelCaller(r) PROVE QueueInv'
  BY <1>0, <1>2, SameQueue DEF ExpireUnclaimed, CancelCaller, WithdrawIfUnclaimed
<1>3. ASSUME NEW r \in Requests, CallerResume(r) PROVE QueueInv'
  <2>1. caller[r] = "waiting" /\ UNCHANGED <<envelope, queue>>
        /\ \A x \in Requests \ {r} : caller'[x] = caller[x]
    BY <1>0, <1>3 DEF CallerResume
  <2>2. settlement[r] \in {"result", "failed", "caller_cancelled"}
    BY <1>3 DEF CallerResume, SettlementInv, PublisherTypeOK
  <2>3. caller'[r] # "idle"
    BY <1>0, <1>3, <2>2 DEF CallerResume
  <2> QED BY <2>1, <2>3, SameQueue
<1>4. CASE LoopTake
  <2>1. queue # <<>> /\ queue' = Tail(queue) /\ UNCHANGED caller
    BY <1>4 DEF LoopTake
  <2>2. /\ queue' \in Seq(Requests \cup {Telemetry}) /\ Len(queue') = Len(queue) - 1
        /\ Len(queue) \in Nat \ {0}
        /\ \A i \in 1..Len(queue') : queue'[i] = queue[i + 1]
        /\ Head(queue) \in Requests \cup {Telemetry}
    BY <1>0, <2>1, Taken
  <2>3. ASSUME NEW x \in Requests
        PROVE  envelope'[x] = "unclaimed" => envelope[x] = "unclaimed" /\ x # Head(queue)
    BY <1>0, <1>4, <2>2 DEF LoopTake, RejectAll
  <2>4. ASSUME NEW x \in Requests
        PROVE  /\ InQueue(x)' => caller'[x] # "idle"
               /\ envelope'[x] = "unclaimed" => InQueue(x)'
    BY <1>0, <2>1, <2>3, InQueueNext DEF QueueInv
  <2>5. ASSUME NEW x \in Requests, NEW i \in 1..Len(queue'), NEW j \in 1..Len(queue'),
               queue'[i] = x, queue'[j] = x
        PROVE  i = j
    <3>1. /\ i + 1 \in 1..Len(queue) /\ queue[i + 1] = x
          /\ j + 1 \in 1..Len(queue) /\ queue[j + 1] = x
      BY <2>2, <2>5
    <3>2. i + 1 = j + 1
      BY <3>1 DEF QueueInv
    <3> QED BY <3>2
  <2> QED BY <1>0, <2>2, <2>4, <2>5 DEF QueueInv
<1>5. CASE LoopSent
  BY <1>0, <1>5, SameQueue DEF LoopSent
<1>6. CASE LoopFailed
  BY <1>0, <1>6, SameQueue DEF LoopFailed, RejectAll
<1>7. CASE StopBegin
  BY <1>7, SameQueue DEF StopBegin
<1>8. CASE StopDrain
  BY <1>8, RejectedQueue DEF StopDrain
<1>9. CASE Unsubscribe
  BY <1>9, RejectedQueue DEF Unsubscribe
<1>10. CASE Publish
  <2>1. UNCHANGED <<envelope, caller>>
    BY <1>10 DEF Publish
  <2>2. CASE registered /\ Len(queue) < Capacity
    <3>1. queue' = Append(queue, Telemetry)
      BY <1>10, <2>2 DEF Publish
    <3>2. /\ queue' \in Seq(Requests \cup {Telemetry}) /\ Len(queue') = Len(queue) + 1
          /\ \A i \in 1..Len(queue) : queue'[i] = queue[i]
          /\ queue'[Len(queue) + 1] = Telemetry /\ Len(queue) \in Nat
      BY <1>0, <3>1, Appended
    <3>3. ASSUME NEW x \in Requests
          PROVE  InQueue(x)' <=> InQueue(x)
      BY <1>0, <3>1, InQueueNext
    <3>4. ASSUME NEW x \in Requests, NEW i \in 1..Len(queue'), NEW j \in 1..Len(queue'),
                 queue'[i] = x, queue'[j] = x
          PROVE  i = j
      BY <1>0, <3>2, <3>4 DEF QueueInv
    <3> QED BY <1>0, <2>1, <2>2, <3>2, <3>3, <3>4 DEF QueueInv
  <2>3. CASE ~(registered /\ Len(queue) < Capacity)
    BY <1>10, <2>1, <2>3, SameQueue DEF Publish
  <2> QED BY <2>2, <2>3
<1>11. CASE SubscriberTake
  BY <1>11, SameQueue DEF SubscriberTake, pubVars
<1>12. CASE UNCHANGED vars
  BY <1>12, SameQueue DEF vars, pubVars
<1> QED
  BY <1>1, <1>2, <1>3, <1>4, <1>5, <1>6, <1>7, <1>8, <1>9, <1>10, <1>11, <1>12 DEF Next

\* A newer reading at the end of a sequence is in order.
LEMMA NewestAppended ==
  ASSUME NEW s \in Seq(Nat), NEW n \in Nat, Increasing(s, n)
  PROVE  /\ Increasing(s, n + 1)
         /\ Increasing(Append(s, n + 1), n + 1)
         /\ Append(s, n + 1) \in Seq(Nat) /\ Len(Append(s, n + 1)) = Len(s) + 1
<1>1. /\ Append(s, n + 1) \in Seq(Nat) /\ Len(Append(s, n + 1)) = Len(s) + 1 /\ Len(s) \in Nat
      /\ \A i \in 1..Len(s) : Append(s, n + 1)[i] = s[i] /\ s[i] \in Nat
      /\ Append(s, n + 1)[Len(s) + 1] = n + 1
  BY Appended
<1> QED BY <1>1 DEF Increasing

\* Every reading there was is older than the newest one.
LEMMA NewestIsNewer ==
  ASSUME NEW s \in Seq(Nat), NEW q \in Seq(Nat), NEW n \in Nat, Increasing(s, n), Older(s, q)
  PROVE  Older(s, Append(q, n + 1))
<1> DEFINE a == Append(q, n + 1)
<1>1. /\ Len(a) = Len(q) + 1 /\ Len(q) \in Nat
      /\ \A j \in 1..Len(q) : a[j] = q[j]
      /\ a[Len(q) + 1] = n + 1
  BY Appended
<1>2. \A i \in 1..Len(s) : s[i] \in Nat /\ s[i] < n + 1
  BY DEF Increasing
<1> HIDE DEF a
<1>3. ASSUME NEW i \in 1..Len(s), NEW j \in 1..Len(a) PROVE s[i] < a[j]
  <2>1. CASE j \in 1..Len(q)
    <3>1. s[i] < q[j]
      BY <2>1 DEF Older
    <3> QED BY <1>1, <2>1, <3>1
  <2>2. CASE j = Len(q) + 1
    BY <1>1, <1>2, <2>2
  <2> QED BY <1>1, <2>1, <2>2
<1>4. Older(s, a)
  BY <1>3 DEF Older
<1> QED BY <1>4 DEF a

\* The oldest reading moves from the queue to the subscriber, or is dropped.
LEMMA OldestTaken ==
  ASSUME NEW s \in Seq(Nat), NEW q \in Seq(Nat), NEW n \in Nat, q # <<>>,
         Increasing(s, n), Increasing(q, n), Older(s, q)
  PROVE  /\ Tail(q) \in Seq(Nat) /\ Len(Tail(q)) = Len(q) - 1 /\ Len(q) \in Nat \ {0}
         /\ Increasing(Tail(q), n) /\ Older(s, Tail(q))
         /\ Append(s, Head(q)) \in Seq(Nat) /\ Len(Append(s, Head(q))) = Len(s) + 1
         /\ Increasing(Append(s, Head(q)), n) /\ Older(Append(s, Head(q)), Tail(q))
<1> DEFINE t == Tail(q)
           a == Append(s, Head(q))
<1>1. /\ t \in Seq(Nat) /\ Len(t) = Len(q) - 1 /\ Len(q) \in Nat \ {0}
      /\ \A j \in 1..Len(t) : t[j] = q[j + 1] /\ j + 1 \in 1..Len(q) /\ 1 < j + 1
      /\ Head(q) = q[1] /\ 1 \in 1..Len(q)
  BY Taken
<1>2. \A j \in 1..Len(q) : q[j] \in Nat
  OBVIOUS
<1>3. /\ a \in Seq(Nat) /\ Len(a) = Len(s) + 1 /\ Len(s) \in Nat
      /\ \A i \in 1..Len(s) : a[i] = s[i] /\ s[i] \in Nat
      /\ a[Len(s) + 1] = q[1]
  BY <1>1, <1>2, Appended
<1> HIDE DEF t, a
<1>4. Increasing(t, n)
  <2>1. \A j \in 1..Len(t) : t[j] =< n
    BY <1>1 DEF Increasing
  <2>2. ASSUME NEW i \in 1..Len(t), NEW j \in 1..Len(t), i < j PROVE t[i] < t[j]
    <3>1. i + 1 \in 1..Len(q) /\ j + 1 \in 1..Len(q) /\ i + 1 < j + 1
      BY <1>1, <2>2
    <3>2. q[i + 1] < q[j + 1]
      BY <3>1 DEF Increasing
    <3> QED BY <1>1, <3>2
  <2> QED BY <2>1, <2>2 DEF Increasing
<1>5. Older(s, t)
  BY <1>1 DEF Older
<1>6. \A i \in 1..Len(s) : s[i] < q[1]
  BY <1>1 DEF Older
<1>7. Increasing(a, n)
  <2>1. \A i \in 1..Len(a) : i \in 1..Len(s) \/ i = Len(s) + 1
    BY <1>3
  <2>2. q[1] =< n /\ \A i \in 1..Len(s) : s[i] =< n
    BY <1>1 DEF Increasing
  <2>3. \A i \in 1..Len(a) : a[i] =< n
    BY <1>3, <2>1, <2>2
  <2>4. ASSUME NEW i \in 1..Len(a), NEW j \in 1..Len(a), i < j PROVE a[i] < a[j]
    <3>1. i \in 1..Len(s)
      BY <1>3, <2>4
    <3>2. CASE j \in 1..Len(s)
      <4>1. s[i] < s[j]
        BY <2>4, <3>1, <3>2 DEF Increasing
      <4> QED BY <1>3, <3>1, <3>2, <4>1
    <3>3. CASE j = Len(s) + 1
      BY <1>3, <1>6, <3>1, <3>3
    <3> QED BY <2>1, <3>2, <3>3
  <2> QED BY <2>3, <2>4 DEF Increasing
<1>8. Older(a, t)
  <2>1. ASSUME NEW i \in 1..Len(a), NEW j \in 1..Len(t) PROVE a[i] < t[j]
    <3>1. CASE i \in 1..Len(s)
      <4>1. s[i] < t[j]
        BY <1>5, <3>1 DEF Older
      <4> QED BY <1>3, <3>1, <4>1
    <3>2. CASE i = Len(s) + 1
      <4>1. q[1] < q[j + 1]
        BY <1>1 DEF Increasing
      <4> QED BY <1>1, <1>3, <3>2, <4>1
    <3> QED BY <1>3, <3>1, <3>2
  <2> QED BY <2>1 DEF Older
<1> QED BY <1>1, <1>3, <1>4, <1>5, <1>7, <1>8 DEF t, a

\* Older readings followed by newer ones are one increasing sequence.
LEMMA OneSequence ==
  ASSUME NEW s \in Seq(Nat), NEW q \in Seq(Nat), NEW n \in Nat,
         Increasing(s, n), Increasing(q, n), Older(s, q)
  PROVE  /\ Len(s \o q) = Len(s) + Len(q)
         /\ \A i, j \in 1..Len(s \o q) : i < j => (s \o q)[i] < (s \o q)[j]
<1> DEFINE c == s \o q
<1>1. /\ Len(c) = Len(s) + Len(q) /\ Len(s) \in Nat /\ Len(q) \in Nat
      /\ \A i \in 1..(Len(s) + Len(q)) : c[i] = IF i <= Len(s) THEN s[i] ELSE q[i - Len(s)]
  BY ConcatProperties
<1> HIDE DEF c
<1>2. \A i \in 1..Len(c) : \/ i \in 1..Len(s) /\ c[i] = s[i]
                           \/ i > Len(s) /\ i - Len(s) \in 1..Len(q) /\ c[i] = q[i - Len(s)]
  BY <1>1
<1>3. ASSUME NEW i \in 1..Len(c), NEW j \in 1..Len(c), i < j PROVE c[i] < c[j]
  <2>1. CASE j \in 1..Len(s) /\ c[j] = s[j]
    <3>1. i \in 1..Len(s) /\ c[i] = s[i]
      BY <1>1, <1>2, <1>3, <2>1
    <3>2. s[i] < s[j]
      BY <1>3, <2>1, <3>1 DEF Increasing
    <3> QED BY <2>1, <3>1, <3>2
  <2>2. CASE j > Len(s) /\ j - Len(s) \in 1..Len(q) /\ c[j] = q[j - Len(s)]
    <3>1. CASE i \in 1..Len(s) /\ c[i] = s[i]
      <4>1. s[i] < q[j - Len(s)]
        BY <2>2, <3>1 DEF Older
      <4> QED BY <2>2, <3>1, <4>1
    <3>2. CASE i > Len(s) /\ i - Len(s) \in 1..Len(q) /\ c[i] = q[i - Len(s)]
      <4>1. i - Len(s) < j - Len(s)
        BY <1>1, <1>3
      <4>2. q[i - Len(s)] < q[j - Len(s)]
        BY <2>2, <3>2, <4>1 DEF Increasing
      <4> QED BY <2>2, <3>2, <4>2
    <3> QED BY <1>2, <3>1, <3>2
  <2> QED BY <1>2, <2>1, <2>2
<1> QED BY <1>1, <1>3 DEF c

\* Each reading published, taken or dropped keeps the account of all of them.
LEMMA NextReadings == ReadingsInv /\ [Next]_vars => ReadingsInv'
<1> SUFFICES ASSUME ReadingsInv, [Next]_vars PROVE ReadingsInv'
  OBVIOUS
<1>0. /\ SubCapacity \in Nat \ {0} /\ Len(subQueue) \in Nat /\ Len(subTaken) \in Nat
      /\ subQueue \in Seq(Nat) /\ subTaken \in Seq(Nat) /\ published \in Nat
  BY CapacityPositive DEF ReadingsInv
<1>1. CASE Publish
  <2>1. published' = published + 1 /\ subTaken' = subTaken /\ policy' = policy
    BY <1>1 DEF Publish
  <2>2. Increasing(subTaken', published') /\ Increasing(subQueue, published')
    BY <1>0, <2>1, NewestAppended DEF ReadingsInv
  <2>3. CASE Len(subQueue) = SubCapacity /\ policy = "drop_newest"
    <3>1. subQueue' = subQueue /\ subDropped' = subDropped + 1
      BY <1>1, <2>3 DEF Publish
    <3> QED BY <1>0, <2>1, <2>2, <3>1 DEF ReadingsInv
  <2>4. CASE Len(subQueue) = SubCapacity /\ policy = "drop_oldest"
    <3>1. /\ subQueue # <<>> /\ subDropped' = subDropped + 1
          /\ subQueue' = Append(Tail(subQueue), published + 1)
      BY <1>0, <1>1, <2>4 DEF Publish
    <3>2. /\ Tail(subQueue) \in Seq(Nat) /\ Len(Tail(subQueue)) = Len(subQueue) - 1
          /\ Increasing(Tail(subQueue), published) /\ Older(subTaken, Tail(subQueue))
      BY <1>0, <3>1, OldestTaken DEF ReadingsInv
    <3>3. /\ subQueue' \in Seq(Nat) /\ Len(subQueue') = Len(subQueue)
          /\ Increasing(subQueue', published')
      <4> DEFINE t == Tail(subQueue)
      <4>1. t \in Seq(Nat) /\ Len(t) = Len(subQueue) - 1 /\ Increasing(t, published)
        BY <3>2
      <4> HIDE DEF t
      <4>2. /\ Append(t, published + 1) \in Seq(Nat) /\ Len(Append(t, published + 1)) = Len(t) + 1
            /\ Increasing(Append(t, published + 1), published + 1)
        BY <1>0, <4>1, NewestAppended
      <4>3. subQueue' = Append(t, published + 1)
        BY <3>1 DEF t
      <4> QED BY <1>0, <2>1, <4>1, <4>2, <4>3
    <3>4. Older(subTaken', subQueue')
      BY <1>0, <2>1, <3>1, <3>2, NewestIsNewer DEF ReadingsInv
    <3> QED BY <1>0, <2>1, <2>2, <3>1, <3>3, <3>4 DEF ReadingsInv
  <2>5. CASE Len(subQueue) # SubCapacity
    <3>1. subQueue' = Append(subQueue, published + 1) /\ subDropped' = subDropped
      BY <1>1, <2>5 DEF Publish
    <3>2. /\ subQueue' \in Seq(Nat) /\ Len(subQueue') = Len(subQueue) + 1
          /\ Increasing(subQueue', published')
      BY <1>0, <2>1, <3>1, NewestAppended DEF ReadingsInv
    <3>3. Older(subTaken', subQueue')
      BY <1>0, <2>1, <3>1, NewestIsNewer DEF ReadingsInv
    <3>4. /\ Len(subQueue') =< SubCapacity
          /\ Len(subTaken') + Len(subQueue') + subDropped' = published'
      BY <1>0, <2>1, <2>5, <3>1, <3>2 DEF ReadingsInv
    <3> QED BY <1>0, <2>1, <2>2, <3>1, <3>2, <3>3, <3>4 DEF ReadingsInv
  <2> QED BY <2>3, <2>4, <2>5 DEF ReadingsInv
<1>2. CASE SubscriberTake
  <2>1. /\ subQueue # <<>> /\ subQueue' = Tail(subQueue) /\ subTaken' = Append(subTaken, Head(subQueue))
        /\ UNCHANGED <<policy, subDropped, published>>
    BY <1>2 DEF SubscriberTake
  <2>2. /\ subQueue' \in Seq(Nat) /\ Len(subQueue') = Len(subQueue) - 1
        /\ subTaken' \in Seq(Nat) /\ Len(subTaken') = Len(subTaken) + 1
        /\ Increasing(subQueue', published') /\ Increasing(subTaken', published')
        /\ Older(subTaken', subQueue')
    BY <1>0, <2>1, OldestTaken DEF ReadingsInv
  <2> QED BY <1>0, <2>1, <2>2 DEF ReadingsInv
<1>3. ASSUME UNCHANGED subVars PROVE ReadingsInv'
  BY <1>3 DEF subVars, ReadingsInv
<1> QED
  BY <1>1, <1>2, <1>3
     DEF Next, vars, PublishRequired, ExpireUnclaimed, CancelCaller, CallerResume, LoopTake,
         LoopSent, LoopFailed, StopBegin, StopDrain, Unsubscribe

\* The queue holds an unclaimed envelope exactly once: its places are one.
LEMMA QueuedOnce == QueueInv => UnclaimedIsQueued
<1> SUFFICES ASSUME QueueInv, NEW r \in Requests, envelope[r] = "unclaimed"
             PROVE  Cardinality({i \in 1..Len(queue) : queue[i] = r}) = 1
  BY DEF UnclaimedIsQueued
<1>1. PICK k \in 1..Len(queue) : queue[k] = r
  BY DEF QueueInv, InQueue
<1>2. {i \in 1..Len(queue) : queue[i] = r} = {k}
  BY <1>1 DEF QueueInv
<1> QED BY <1>2, FS_Singleton

\* What the ordinary subscriber has seen, in one sequence.
LEMMA SeenInOrder == ReadingsInv => SubscriberAccounts
BY OneSequence DEF ReadingsInv, SubscriberAccounts

\* The three invariants together hold in every state of every behaviour.
LEMMA BrokerInductive == Spec => [](SettlementInv /\ QueueInv /\ ReadingsInv)
<1>1. Init => SettlementInv /\ QueueInv /\ ReadingsInv
  BY InitSettlement, InitQueues
<1>2. SettlementInv /\ QueueInv /\ ReadingsInv /\ [Next]_vars => (SettlementInv /\ QueueInv /\ ReadingsInv)'
  BY NextSettlement, NextQueue, NextReadings
<1> QED BY <1>1, <1>2, PTL DEF Spec

\* The states, the envelopes and both bounded queues are what asyncio and the
\* dataclasses of broker.py make them, and no queue outgrows its maxsize.
THEOREM BrokerTypes == Spec => []TypeOK
<1>1. SettlementInv /\ QueueInv /\ ReadingsInv => TypeOK
  BY DEF SettlementInv, QueueInv, ReadingsInv, TypeOK
<1> QED BY <1>1, BrokerInductive, PTL

\* Telemetry bursts, cancellations, stop() and unsubscribe() lose nothing: an
\* unclaimed envelope is in the queue, once; envelope and future agree; and the
\* subscriber's readings are in order, each one seen, queued or counted as dropped.
THEOREM NothingIsLost == Spec => []PublicationAccounts
<1>1. SettlementInv /\ QueueInv /\ ReadingsInv => PublicationAccounts
  BY QueuedOnce, SeenInOrder DEF SettlementInv, PublicationAccounts
<1> QED BY <1>1, BrokerInductive, PTL
=============================================================================

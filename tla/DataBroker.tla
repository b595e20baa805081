----------------------------- MODULE DataBroker -----------------------------
(***************************************************************************)
(* The engine's in-process fan-out bus (core/broker.py) together with the  *)
(* one consumer whose settlement it relies on, the ZMQ publisher's drain   *)
(* loop (core/zmq_bridge.py).                                              *)
(*                                                                         *)
(* Two kinds of item share the required publisher's bounded queue:         *)
(*  - ordinary telemetry, which may be dropped when the queue is full;     *)
(*  - required-publication envelopes (operator log entries, alarm          *)
(*    acknowledgements), each revocable until the publisher claims it and  *)
(*    settled exactly once: acknowledged after the send, rejected, or      *)
(*    withdrawn by a timeout or by the cancellation of its caller.         *)
(* A second queue stands for an ordinary subscriber with its own overflow  *)
(* policy.  A step is one uninterrupted run of a coroutine between two     *)
(* awaits.                                                                 *)
(***************************************************************************)
EXTENDS Naturals, Sequences, FiniteSets

CONSTANTS Requests,       \* required publications a caller may issue (once each)
          Capacity,       \* maxsize of the required publisher's queue
          SubCapacity,    \* maxsize of the ordinary subscriber's queue
          MaxTelemetry    \* bound: ordinary readings published in a behaviour

ASSUME CapacityPositive == Capacity \in Nat \ {0} /\ SubCapacity \in Nat \ {0}
ASSUME RequestsAreNotMarkers == Requests \cap {"telemetry", "idle", "exited"} = {}
ASSUME TelemetryBound == MaxTelemetry \in Nat

VARIABLES
  envelope,     \* RequiredPublication._state per request ("none": not issued)
  settlement,   \* the envelope's future: pending, done, or how it failed
  caller,       \* the coroutine in publish_required
  cancelled,    \* requests whose caller was cancelled while it waited
  queue,        \* the required publisher's asyncio.Queue
  registered,   \* the required publisher is subscribed
  loop,         \* _publish_loop: "idle", "exited", or the item being sent
  stopping,     \* ZMQPublisher.stop: "no", "cancelling", "done"
  sent,         \* requests that reached the wire
  policy,       \* the ordinary subscriber's OverflowPolicy, fixed at subscribe()
  subQueue,     \* the ordinary subscriber's queue of reading numbers
  subDropped,   \* its Subscription.dropped
  subTaken,     \* readings it has consumed, in order
  published     \* DataBroker._total_published (ordinary readings)

pubVars == <<envelope, settlement, caller, cancelled, queue, registered, loop, stopping, sent>>
subVars == <<policy, subQueue, subDropped, subTaken, published>>
vars == <<pubVars, subVars>>

\* An item of ordinary telemetry in the required publisher's queue.
Telemetry == "telemetry"

PublisherTypeOK ==
  /\ envelope \in [Requests -> {"none", "unclaimed", "claimed", "acknowledged", "rejected", "withdrawn"}]
  /\ settlement \in [Requests -> {"pending", "result", "failed", "caller_cancelled"}]
  /\ caller \in [Requests -> {"idle", "waiting", "receipt", "error", "cancelled"}]
  /\ cancelled \subseteq Requests
  /\ queue \in Seq(Requests \cup {Telemetry})
  /\ registered \in BOOLEAN
  /\ loop \in Requests \cup {Telemetry, "idle", "exited"}
  /\ stopping \in {"no", "cancelling", "done"}
  /\ sent \subseteq Requests

\* The types of both sides, and the queues within their maxsize.
TypeOK ==
  /\ PublisherTypeOK
  /\ Len(queue) =< Capacity
  /\ policy \in {"drop_oldest", "drop_newest"}
  /\ subQueue \in Seq(Nat) /\ Len(subQueue) =< SubCapacity
  /\ subDropped \in Nat /\ published \in Nat
  /\ subTaken \in Seq(Nat)

Init ==
  /\ envelope = [r \in Requests |-> "none"]
  /\ settlement = [r \in Requests |-> "pending"]
  /\ caller = [r \in Requests |-> "idle"]
  /\ cancelled = {}
  /\ queue = <<>>
  /\ registered = TRUE
  /\ loop = "idle"
  /\ stopping = "no"
  /\ sent = {}
  /\ policy \in {"drop_oldest", "drop_newest"}
  /\ subQueue = <<>> /\ subDropped = 0 /\ subTaken = <<>> /\ published = 0

InQueue(r) == \E i \in 1..Len(queue) : queue[i] = r

(***************************************************************************)
(* Envelope transitions.                                                   *)
(***************************************************************************)

\* reject() of a set of envelopes: settles those still open, tolerates the
\* already rejected and the withdrawn.
RejectAll(S) ==
  LET open == {r \in S : envelope[r] \in {"unclaimed", "claimed"}}
  IN  /\ envelope' = [r \in Requests |-> IF r \in open THEN "rejected" ELSE envelope[r]]
      /\ settlement' = [r \in Requests |-> IF r \in open THEN "failed" ELSE settlement[r]]

\* _withdraw_if_unclaimed(failure): revokes only what no publisher has claimed.
WithdrawIfUnclaimed(r, failure) ==
  IF envelope[r] = "unclaimed"
  THEN /\ envelope' = [envelope EXCEPT ![r] = "withdrawn"]
       /\ settlement' = [settlement EXCEPT ![r] = failure]
  ELSE UNCHANGED <<envelope, settlement>>

(***************************************************************************)
(* Callers of publish_required.                                            *)
(***************************************************************************)

\* Refused when no required publisher is registered or its queue is full;
\* otherwise the envelope is enqueued and the caller waits for settlement.
PublishRequired(r) ==
  /\ caller[r] = "idle"
  /\ IF registered /\ Len(queue) < Capacity
     THEN /\ envelope' = [envelope EXCEPT ![r] = "unclaimed"]
          /\ queue' = Append(queue, r)
          /\ caller' = [caller EXCEPT ![r] = "waiting"]
     ELSE /\ caller' = [caller EXCEPT ![r] = "error"]
          /\ UNCHANGED <<envelope, queue>>
  /\ UNCHANGED <<settlement, cancelled, registered, loop, stopping, sent, subVars>>

\* REQUIRED_PUBLICATION_TIMEOUT_S expires while the caller still waits.
ExpireUnclaimed(r) ==
  /\ caller[r] = "waiting" /\ envelope[r] = "unclaimed"
  /\ WithdrawIfUnclaimed(r, "failed")
  /\ UNCHANGED <<caller, cancelled, queue, registered, loop, stopping, sent, subVars>>

\* CancelledError is delivered to the waiting caller: the first one is kept,
\* and the envelope is withdrawn unless the publisher already owns it.
CancelCaller(r) ==
  /\ caller[r] = "waiting" /\ settlement[r] = "pending" /\ r \notin cancelled
  /\ cancelled' = cancelled \cup {r}
  /\ WithdrawIfUnclaimed(r, "caller_cancelled")
  /\ UNCHANGED <<caller, queue, registered, loop, stopping, sent, subVars>>

\* The caller resumes after settlement (_await_required_publication's tail).
CallerResume(r) ==
  /\ caller[r] = "waiting" /\ settlement[r] # "pending"
  /\ caller' = [caller EXCEPT ![r] =
       CASE settlement[r] = "caller_cancelled" -> "cancelled"
         [] settlement[r] = "failed"           -> "error"
         [] settlement[r] = "result"           -> IF r \in cancelled THEN "cancelled" ELSE "receipt"]
  /\ UNCHANGED <<envelope, settlement, cancelled, queue, registered, loop, stopping, sent, subVars>>

(***************************************************************************)
(* The publisher's drain loop and its shutdown.                            *)
(***************************************************************************)

\* DEFECT: the item is sent without claiming it first.
LoopTakeBlind ==
  /\ loop = "idle" /\ stopping = "no" /\ queue # <<>>
  /\ queue' = Tail(queue) /\ loop' = Head(queue)
  /\ UNCHANGED <<envelope, settlement, caller, cancelled, registered, stopping, sent, subVars>>

\* queue.get() then claim(): an envelope no longer claimable raises, is
\* rejected (a no-op for a withdrawn one) and the loop goes on.
LoopTake ==
  /\ loop = "idle" /\ stopping = "no" /\ queue # <<>>
  /\ queue' = Tail(queue)
  /\ LET item == Head(queue) IN
       IF item = Telemetry
       THEN loop' = Telemetry /\ UNCHANGED <<envelope, settlement>>
       ELSE IF envelope[item] = "unclaimed"
            THEN /\ envelope' = [envelope EXCEPT ![item] = "claimed"]
                 /\ loop' = item /\ UNCHANGED settlement
            ELSE RejectAll({item}) /\ UNCHANGED loop
  /\ UNCHANGED <<caller, cancelled, registered, stopping, sent, subVars>>

\* send_multipart returns: acknowledge().
LoopSent ==
  /\ loop \in Requests \cup {Telemetry}
  /\ loop' = IF stopping = "no" THEN "idle" ELSE "exited"
  /\ IF loop \in Requests
     THEN /\ sent' = sent \cup {loop}
          /\ envelope' = [envelope EXCEPT ![loop] = "acknowledged"]
          /\ settlement' = [settlement EXCEPT ![loop] = "result"]
     ELSE UNCHANGED <<sent, envelope, settlement>>
  /\ UNCHANGED <<caller, cancelled, queue, registered, stopping, subVars>>

\* DEFECT: the failed send is logged and its envelope left claimed.
LoopFailedForgets ==
  /\ loop \in Requests \cup {Telemetry}
  /\ loop' = IF stopping = "no" THEN "idle" ELSE "exited"
  /\ UNCHANGED <<envelope, settlement, caller, cancelled, queue, registered, stopping, sent, subVars>>

\* The send raises, or is cancelled by stop(); the frame may be out already.
LoopFailed ==
  /\ loop \in Requests \cup {Telemetry}
  /\ loop' = IF stopping = "no" THEN "idle" ELSE "exited"
  /\ RejectAll({loop} \cap Requests)
  /\ \E out \in SUBSET ({loop} \cap Requests) : sent' = sent \cup out
  /\ UNCHANGED <<caller, cancelled, queue, registered, stopping, subVars>>

\* stop(): _running is cleared and the drain task is cancelled ...
StopBegin ==
  /\ stopping = "no"
  /\ stopping' = "cancelling"
  /\ loop' = IF loop = "idle" THEN "exited" ELSE loop
  /\ UNCHANGED <<envelope, settlement, caller, cancelled, queue, registered, sent, subVars>>

\* ... and once it has ended, what is left in the queue is rejected.
StopDrain ==
  /\ stopping = "cancelling" /\ loop = "exited"
  /\ stopping' = "done"
  /\ RejectAll({r \in Requests : InQueue(r)})
  /\ queue' = <<>>
  /\ UNCHANGED <<caller, cancelled, registered, loop, sent, subVars>>

\* unsubscribe() of the required publisher: its queue is drained and rejected.
Unsubscribe ==
  /\ registered
  /\ registered' = FALSE
  /\ RejectAll({r \in Requests : InQueue(r)})
  /\ queue' = <<>>
  /\ UNCHANGED <<caller, cancelled, loop, stopping, sent, subVars>>

(***************************************************************************)
(* Ordinary telemetry.                                                     *)
(***************************************************************************)

\* DEFECT: telemetry takes the DROP_OLDEST path on the required publisher too.
PublishEvicts ==
  /\ published < MaxTelemetry
  /\ published' = published + 1
  /\ queue' = Append(IF Len(queue) = Capacity THEN Tail(queue) ELSE queue, Telemetry)
  /\ UNCHANGED <<envelope, settlement, caller, cancelled, registered, loop, stopping, sent,
                 policy, subQueue, subDropped, subTaken>>

\* DEFECT: no bound on the required publisher's queue (maxsize = 0).
PublishUnbounded ==
  /\ published < MaxTelemetry
  /\ published' = published + 1
  /\ queue' = Append(queue, Telemetry)
  /\ UNCHANGED <<envelope, settlement, caller, cancelled, registered, loop, stopping, sent,
                 policy, subQueue, subDropped, subTaken>>

\* publish(): the required publisher drops the new reading when full, so that
\* it never evicts an envelope; the ordinary subscriber applies its policy.
Publish ==
  /\ published < MaxTelemetry
  /\ published' = published + 1
  /\ queue' = IF registered /\ Len(queue) < Capacity THEN Append(queue, Telemetry) ELSE queue
  /\ LET full == Len(subQueue) = SubCapacity
         kept == IF full /\ policy = "drop_oldest" THEN Tail(subQueue) ELSE subQueue
     IN  /\ subQueue' = IF full /\ policy = "drop_newest" THEN subQueue ELSE Append(kept, published + 1)
         /\ subDropped' = IF full THEN subDropped + 1 ELSE subDropped
  /\ UNCHANGED <<envelope, settlement, caller, cancelled, registered, loop, stopping, sent, policy, subTaken>>

\* The ordinary subscriber consumes its oldest reading.
SubscriberTake ==
  /\ subQueue # <<>>
  /\ subTaken' = Append(subTaken, Head(subQueue))
  /\ subQueue' = Tail(subQueue)
  /\ UNCHANGED <<pubVars, policy, subDropped, published>>

Next ==
  \/ \E r \in Requests :
       PublishRequired(r) \/ ExpireUnclaimed(r) \/ CancelCaller(r) \/ CallerResume(r)
  \/ LoopTake \/ LoopSent \/ LoopFailed
  \/ StopBegin \/ StopDrain \/ Unsubscribe
  \/ Publish \/ SubscriberTake

\* The event loop runs ready callbacks and timers, and a send on a bound PUB
\* socket returns or raises: these steps are weakly fair.  Nothing obliges
\* anybody to publish, cancel, stop or unsubscribe.
Fairness ==
  /\ \A r \in Requests : WF_vars(ExpireUnclaimed(r)) /\ WF_vars(CallerResume(r))
  /\ WF_vars(LoopTake) /\ WF_vars(LoopSent \/ LoopFailed) /\ WF_vars(StopDrain)

Spec == Init /\ [][Next]_vars /\ Fairness

(***************************************************************************)
(* Properties.                                                             *)
(***************************************************************************)

\* publish_required returns a receipt only for an event the retained publisher
\* really sent ("Issue authority only after the retained publisher settles a
\* send"), and only when the envelope was acknowledged.
ReceiptMeansSent ==
  \A r \in Requests : caller[r] = "receipt" => r \in sent /\ envelope[r] = "acknowledged"

\* A timeout or a cancellation races the claim: an envelope that was withdrawn
\* is never put on the wire afterwards, so its caller may safely retry.
WithdrawnNeverSent ==
  \A r \in Requests : envelope[r] = "withdrawn" => r \notin sent /\ loop # r

\* The verdict a caller acts on is true: a receipt stands for a send, and a
\* withdrawal, after which the caller retries, for none.
VerdictHonest == ReceiptMeansSent /\ WithdrawnNeverSent

\* Telemetry bursts, stop() and unsubscribe() never lose an envelope silently:
\* while it is unclaimed and its caller waits, it is in the queue, once.
UnclaimedIsQueued ==
  \A r \in Requests :
    envelope[r] = "unclaimed" => Cardinality({i \in 1..Len(queue) : queue[i] = r}) = 1

\* The future and the envelope state change together, so the guards of
\* acknowledge, reject and withdraw ("settlement is no longer pending") never fire.
SettledOnce ==
  \A r \in Requests :
    /\ settlement[r] = "pending" <=> envelope[r] \in {"none", "unclaimed", "claimed"}
    /\ settlement[r] = "result" <=> envelope[r] = "acknowledged"
    /\ settlement[r] = "caller_cancelled" => envelope[r] = "withdrawn"

\* Every reading offered to the ordinary subscriber is queued, taken or
\* counted as dropped, and it sees readings in publication order.
SubscriberAccounts ==
  LET seen == subTaken \o subQueue
  IN  /\ Len(seen) + subDropped = published
      /\ \A i, j \in 1..Len(seen) : i < j => seen[i] < seen[j]

\* Bursts, cancellations, stop() and unsubscribe() account for everything:
\* envelopes and their futures agree, nothing unclaimed leaves the queue, and
\* no reading of the ordinary subscriber disappears uncounted.
PublicationAccounts == UnclaimedIsQueued /\ SettledOnce /\ SubscriberAccounts

\* No caller of publish_required waits for ever: it gets its receipt, an
\* error, or its own cancellation back.
CallerSettles == \A r \in Requests : (caller[r] = "waiting") ~> (caller[r] # "waiting")
=============================================================================

-------------------------- MODULE AcquisitionProofs --------------------------
(***************************************************************************)
(* What the acquisition pipeline guarantees for any set of instruments,    *)
(* any number of polls and any settlement capacity: a batch that was       *)
(* published is on disk, an outage is shown, a closed writer is silent,    *)
(* and its settlements stay within their capacity.                         *)
(***************************************************************************)
EXTENDS Acquisition, FiniteSetTheorems, TLAPS

Elems(q) == {q[k] : k \in 1..Len(q)}
Distinct(q) == \A j, k \in 1..Len(q) : q[j] = q[k] => j = k

InWriter == {"queued", "half"}
Returned == {"committed", "refused", "raised"}

StateTypes ==
  /\ polls \in Nat
  /\ task \in [Instruments -> [pc: {"idle", "waiting", "cancelled", "ended"}, batch: Nat,
                               silent: BOOLEAN]]
  /\ owner \in [Instruments -> {"none"} \cup InWriter \cup Returned]
  /\ exec \in Seq(Instruments) /\ ready \in Seq(Instruments)
  /\ signalling \in Instruments \cup {"none"}
  /\ diskFull \in BOOLEAN /\ callbacks \in BOOLEAN /\ fault \in BOOLEAN
  /\ published \subseteq 1..polls
  /\ feed \in Feed /\ experiment \in BOOLEAN

\* The queues hold exactly the batches their owners say they hold, each once.
Queues ==
  /\ Distinct(exec) /\ Elems(exec) = {i \in Instruments : owner[i] \in InWriter}
  /\ Distinct(ready) /\ Elems(ready) = {i \in Instruments : owner[i] \in Returned}
  /\ signalling # "none" => exec # <<>> /\ Head(exec) = signalling

\* A commit owner belongs to a task that waits for it.
Owners == \A i \in Instruments : owner[i] # "none" => InFlight(i) /\ task[i].batch \in 1..polls

\* Nothing happens before the start, and no write is left after the close.
Lifecycle ==
  /\ sched = "new" => lost = {} /\ ~diskFull /\ \A i \in Instruments : owner[i] = "none"
  /\ writer = "closed" => exec = <<>>

\* A receipt is issued for what is on disk, and half a batch is its first day.
Receipts ==
  \A i \in Instruments :
    /\ owner[i] = "half" => <<task[i].batch, 1>> \in disk
    /\ owner[i] = "committed" => Durable(task[i].batch)

\* The feed shows a session only in an epoch, and an epoch or an available
\* store only while persistence is active and nothing was dropped.
FeedOK(f) ==
  /\ f.session => f.epoch
  /\ f.epoch => f.active /\ ~f.dropped
  /\ f.storage = "available" => f.active /\ ~f.dropped
  /\ f.dropped => f.latched

\* No later observation opens the recording again.
Finished(f) == ~f.active \/ f.dropped

Pending == \E i \in Instruments : owner[i] = "refused" \/ signalling = i

\* A loss, or the flag that lets polls be skipped, has ended the recording or
\* its refusal is on its way.
LossIsNoticed == lost # {} \/ diskFull => Finished(feed) \/ Pending

IInv ==
  /\ StateTypes
  /\ Queues
  /\ Owners
  /\ Lifecycle
  /\ Receipts
  /\ PublishedIsDurable
  /\ FeedOK(feed)
  /\ LossIsNoticed
  /\ NoSilentOutage

-----------------------------------------------------------------------------
(* The queues.                                                             *)

\* A batch that joins a queue it is not in leaves the rest of it as it was:
\* the executor's queue and the loop's wake-up order.
LEMMA Joins ==
  ASSUME NEW S, NEW q \in Seq(S), NEW x \in S, Distinct(q), x \notin Elems(q)
  PROVE  /\ Append(q, x) \in Seq(S)
         /\ Distinct(Append(q, x))
         /\ Elems(Append(q, x)) = Elems(q) \cup {x}
         /\ q # <<>> => Append(q, x) # <<>> /\ Head(Append(q, x)) = Head(q)
<1> DEFINE r == Append(q, x)
<1>1. r \in Seq(S) /\ Len(r) = Len(q) + 1 /\ Len(q) \in Nat
  OBVIOUS
<1>2. (\A k \in 1..Len(q) : r[k] = q[k]) /\ r[Len(q) + 1] = x
  OBVIOUS
<1>3. \A k \in 1..Len(q) : q[k] # x
  BY DEF Elems
<1>4. Distinct(r)
  BY <1>1, <1>2, <1>3 DEF Distinct
<1>5. Elems(r) = Elems(q) \cup {x}
  <2>1. 1..Len(r) = (1..Len(q)) \cup {Len(q) + 1}
    BY <1>1
  <2> HIDE DEF r
  <2> QED
    BY <1>2, <2>1 DEF Elems
<1>6. q # <<>> => r # <<>> /\ Head(r) = Head(q)
  OBVIOUS
<1> QED
  BY <1>1, <1>4, <1>5, <1>6

\* Its head leaves a queue for good: the executor call that returns, the
\* coroutine that wakes up.
LEMMA Leaves ==
  ASSUME NEW S, NEW q \in Seq(S), q # <<>>, Distinct(q)
  PROVE  /\ Head(q) \in S /\ Head(q) \in Elems(q)
         /\ Tail(q) \in Seq(S)
         /\ Distinct(Tail(q))
         /\ Elems(Tail(q)) = Elems(q) \ {Head(q)}
<1> DEFINE r == Tail(q)
<1>1. r \in Seq(S) /\ Len(q) \in Nat /\ Len(q) >= 1 /\ Len(r) = Len(q) - 1 /\ Head(q) = q[1] /\ q[1] \in S
  OBVIOUS
<1>2. \A k \in 1..Len(r) : r[k] = q[k + 1]
  OBVIOUS
<1> HIDE DEF r
<1>3. Distinct(r)
  BY <1>1, <1>2 DEF Distinct
<1>4. Elems(r) = Elems(q) \ {Head(q)}
  <2>1. \A k \in 1..Len(r) : q[k + 1] \in Elems(q) \ {Head(q)}
    BY <1>1 DEF Elems, Distinct
  <2>2. \A k \in 1..Len(q) : k # 1 => k - 1 \in 1..Len(r) /\ r[k - 1] = q[k]
    BY <1>1, <1>2
  <2>3. Elems(q) \ {Head(q)} \subseteq Elems(r)
    BY <1>1, <2>2 DEF Elems
  <2>4. Elems(r) \subseteq Elems(q) \ {Head(q)}
    BY <1>2, <2>1 DEF Elems
  <2> QED
    BY <2>3, <2>4
<1>5. Head(q) \in Elems(q)
  BY <1>1 DEF Elems
<1> QED
  BY <1>1, <1>3, <1>4, <1>5 DEF r

\* The writer's call of i returns: i passes from the writer to the loop.
LEMMA ReturnKeepsQueues ==
  ASSUME StateTypes, Queues, NEW i \in Instruments, NEW outcome \in Returned,
         exec # <<>>, Head(exec) = i, Returns(i, outcome), signalling' = "none"
  PROVE  /\ owner[i] \in InWriter
         /\ owner' \in [Instruments -> {"none"} \cup InWriter \cup Returned]
         /\ exec' \in Seq(Instruments) /\ ready' \in Seq(Instruments)
         /\ Queues'
<1> DEFINE In == {j \in Instruments : owner[j] \in InWriter}
           Out == {j \in Instruments : owner[j] \in Returned}
<1>1. i \in In /\ Elems(exec) = In /\ Elems(ready) = Out
  BY Leaves DEF StateTypes, Queues
<1>2. owner[i] \in InWriter /\ i \notin Out
  BY <1>1 DEF InWriter, Returned
<1>3. exec' \in Seq(Instruments) /\ Distinct(exec') /\ Elems(exec') = In \ {i}
  BY <1>1, Leaves DEF StateTypes, Queues, Returns
<1>4. ready' \in Seq(Instruments) /\ Distinct(ready') /\ Elems(ready') = Out \cup {i}
  BY <1>1, <1>2, Joins DEF StateTypes, Queues, Returns
<1>5. owner' = [owner EXCEPT ![i] = outcome]
  BY DEF Returns
<1>6. owner' \in [Instruments -> {"none"} \cup InWriter \cup Returned]
  BY <1>5 DEF StateTypes
<1>7. In \ {i} = {j \in Instruments : owner'[j] \in InWriter}
  BY <1>5 DEF StateTypes, InWriter, Returned
<1>8. Out \cup {i} = {j \in Instruments : owner'[j] \in Returned}
  BY <1>5 DEF StateTypes, InWriter, Returned
<1> QED
  BY <1>2, <1>3, <1>4, <1>6, <1>7, <1>8 DEF Queues

\* A batch is admitted behind whatever the writer is doing.
LEMMA AdmissionKeepsQueues ==
  ASSUME StateTypes, Queues, NEW i \in Instruments, owner[i] = "none",
         owner' = [owner EXCEPT ![i] = "queued"], exec' = Append(exec, i),
         UNCHANGED <<ready, signalling>>
  PROVE  /\ owner' \in [Instruments -> {"none"} \cup InWriter \cup Returned]
         /\ exec' \in Seq(Instruments)
         /\ Queues'
<1> DEFINE In == {j \in Instruments : owner[j] \in InWriter}
           Out == {j \in Instruments : owner[j] \in Returned}
<1>1. i \notin In /\ Elems(exec) = In /\ Elems(ready) = Out
  BY DEF Queues, InWriter
<1>2. /\ exec' \in Seq(Instruments) /\ Distinct(exec') /\ Elems(exec') = In \cup {i}
      /\ exec # <<>> => exec' # <<>> /\ Head(exec') = Head(exec)
  BY <1>1, Joins DEF StateTypes, Queues
<1>3. owner' \in [Instruments -> {"none"} \cup InWriter \cup Returned]
  BY DEF StateTypes, InWriter
<1>4. In \cup {i} = {j \in Instruments : owner'[j] \in InWriter}
  BY DEF StateTypes, InWriter, Returned
<1>5. Out = {j \in Instruments : owner'[j] \in Returned}
  BY DEF StateTypes, InWriter, Returned
<1> QED
  BY <1>1, <1>2, <1>3, <1>4, <1>5 DEF Queues

\* The task at the head of the loop's queue takes its settlement.
LEMMA SettlementKeepsQueues ==
  ASSUME StateTypes, Queues, NEW i \in Instruments, ready # <<>>, Head(ready) = i,
         owner' = [owner EXCEPT ![i] = "none"], ready' = Tail(ready), UNCHANGED <<exec, signalling>>
  PROVE  /\ owner[i] \in Returned
         /\ owner' \in [Instruments -> {"none"} \cup InWriter \cup Returned]
         /\ ready' \in Seq(Instruments)
         /\ Queues'
<1> DEFINE In == {j \in Instruments : owner[j] \in InWriter}
           Out == {j \in Instruments : owner[j] \in Returned}
<1>1. i \in Out /\ Elems(exec) = In /\ Elems(ready) = Out
  BY Leaves DEF StateTypes, Queues
<1>2. owner[i] \in Returned /\ i \notin In
  BY <1>1 DEF InWriter, Returned
<1>3. ready' \in Seq(Instruments) /\ Distinct(ready') /\ Elems(ready') = Out \ {i}
  BY <1>1, Leaves DEF StateTypes, Queues
<1>4. owner' \in [Instruments -> {"none"} \cup InWriter \cup Returned]
  BY DEF StateTypes
<1>5. In = {j \in Instruments : owner'[j] \in InWriter}
  BY <1>2 DEF StateTypes, InWriter, Returned
<1>6. Out \ {i} = {j \in Instruments : owner'[j] \in Returned}
  BY DEF StateTypes, InWriter, Returned
<1> QED
  BY <1>1, <1>2, <1>3, <1>4, <1>5, <1>6 DEF Queues

-----------------------------------------------------------------------------
(* The feed.                                                               *)

\* What RecordingLifecycleFeed makes of an observation stays consistent, and
\* none of them opens a recording that has ended.
LEMMA FeedKeeps ==
  ASSUME NEW f \in Feed, FeedOK(f), experiment \in BOOLEAN
  PROVE  /\ Terminalized(f) \in Feed /\ FeedOK(Terminalized(f)) /\ Finished(Terminalized(f))
         /\ Committed(f) \in Feed /\ FeedOK(Committed(f)) /\ (Finished(f) => Finished(Committed(f)))
         /\ Rejected(f) \in Feed /\ FeedOK(Rejected(f)) /\ Finished(Rejected(f))
         /\ AcquisitionEnded(f) \in Feed /\ FeedOK(AcquisitionEnded(f))
         /\ Finished(f) => Finished(AcquisitionEnded(f))
<1>1. Terminalized(f) \in Feed /\ FeedOK(Terminalized(f)) /\ Finished(Terminalized(f))
  BY DEF Feed, Terminalized, FeedOK, Finished
<1>2. Committed(f) \in Feed /\ FeedOK(Committed(f)) /\ (Finished(f) => Finished(Committed(f)))
  <2>1. CASE ~f.active \/ ~f.acquiring
    BY <1>1, <2>1 DEF Committed
  <2>2. CASE f.active /\ f.acquiring
    BY <2>2 DEF Feed, Committed, FeedOK, Finished
  <2> QED
    BY <2>1, <2>2 DEF Feed
<1>3. Rejected(f) \in Feed /\ FeedOK(Rejected(f)) /\ Finished(Rejected(f))
  BY <1>1 DEF Feed, Rejected, FeedOK, Finished
<1>4. /\ AcquisitionEnded(f) \in Feed /\ FeedOK(AcquisitionEnded(f))
      /\ Finished(f) => Finished(AcquisitionEnded(f))
  BY DEF Feed, AcquisitionEnded, FeedOK, Finished
<1> QED
  BY <1>1, <1>2, <1>3, <1>4

-----------------------------------------------------------------------------
(* The writer thread.                                                      *)

\* What returns from the writer with a loss still shows as one.
LEMMA ReturnKeepsPending ==
  ASSUME StateTypes, NEW i \in Instruments, owner[i] \in InWriter, NEW outcome \in Returned,
         owner' = [owner EXCEPT ![i] = outcome], signalling = "none" \/ outcome = "refused",
         signalling = "none" \/ signalling = i, Pending
  PROVE  Pending'
<1>1. PICK j \in Instruments : owner[j] = "refused" \/ signalling = j
  BY DEF Pending
<1>2. CASE owner[j] = "refused"
  <2>1. j # i
    BY <1>2 DEF InWriter
  <2>2. owner'[j] = "refused"
    BY <1>2, <2>1 DEF StateTypes
  <2> QED
    BY <2>2 DEF Pending
<1>3. CASE signalling = j /\ signalling # "none"
  <2>1. owner'[i] = "refused"
    BY <1>3 DEF StateTypes
  <2> QED
    BY <2>1 DEF Pending
<1>4. CASE signalling = j /\ signalling = "none" /\ owner[j] # "refused"
  \* An instrument is not the marker.
  BY <1>4, AcquisitionAssumption
<1> QED
  BY <1>1, <1>2, <1>3, <1>4

\* WriteDay: the only step that puts a batch on disk.
LEMMA WriteDayKeeps ==
  ASSUME IInv, NEW i \in Instruments, WriteDay(i)
  PROVE  IInv'
<1> DEFINE b == task[i].batch
<1> USE DEF IInv
<1>1. exec # <<>> /\ Head(exec) = i /\ signalling = "none" /\ signalling' = "none"
  BY DEF WriteDay, Writing
<1>2. owner[i] \in InWriter
  BY <1>1, Leaves DEF StateTypes, Queues
<1>3. /\ disk \subseteq disk'
      /\ UNCHANGED <<polls, crossing, task, diskFull, callbacks, published, lost, sched, fault, feed,
                     writer, experiment>>
  BY DEF WriteDay
<1>4. /\ owner' \in [Instruments -> {"none"} \cup InWriter \cup Returned]
      /\ exec' \in Seq(Instruments) /\ ready' \in Seq(Instruments)
      /\ Queues'
      /\ \/ owner' = [owner EXCEPT ![i] = "committed"] /\ Durable(b)'
         \/ owner' = [owner EXCEPT ![i] = "half"] /\ <<b, 1>> \in disk'
      /\ exec = <<>> => exec' = <<>>
  <2>1. CASE owner[i] = "half"
    <3>1. Returns(i, "committed") /\ disk' = disk \cup {<<b, 2>>} /\ <<b, 1>> \in disk
      BY <2>1 DEF WriteDay, Receipts
    <3>2. Durable(b)'
      BY <3>1, <1>3 DEF Durable
    <3> QED
      BY <3>1, <3>2, <1>1, ReturnKeepsQueues DEF Returns, Returned
  <2>2. CASE owner[i] # "half" /\ b \notin crossing
    <3>1. Returns(i, "committed") /\ disk' = disk \cup {<<b, 1>>}
      BY <2>2 DEF WriteDay
    <3>2. Durable(b)'
      BY <3>1, <2>2, <1>3 DEF Durable
    <3> QED
      BY <3>1, <3>2, <1>1, ReturnKeepsQueues DEF Returns, Returned
  <2>3. CASE owner[i] # "half" /\ b \in crossing
    <3>1. /\ owner' = [owner EXCEPT ![i] = "half"] /\ UNCHANGED <<exec, ready>>
          /\ disk' = disk \cup {<<b, 1>>}
      BY <2>3 DEF WriteDay
    <3>2. \A j \in Instruments : /\ owner'[j] \in InWriter <=> owner[j] \in InWriter
                                 /\ owner'[j] \in Returned <=> owner[j] \in Returned
      BY <3>1, <1>2 DEF StateTypes, InWriter, Returned
    <3>3. Queues'
      BY <3>1, <3>2, <1>1 DEF Queues
    <3> QED
      BY <3>1, <3>3, <1>1 DEF StateTypes, InWriter
  <2> QED
    BY <2>1, <2>2, <2>3
<1>5. StateTypes'
  BY <1>1, <1>3, <1>4 DEF StateTypes
<1>6. Owners'
  BY <1>2, <1>3, <1>4 DEF Owners, InFlight, StateTypes, InWriter
<1>7. Lifecycle'
  BY <1>2, <1>3, <1>4 DEF Lifecycle, InWriter
<1>8. \A c : Durable(c) => Durable(c)'
  BY <1>3 DEF Durable
<1>9. Receipts' /\ PublishedIsDurable'
  BY <1>3, <1>4, <1>8 DEF Receipts, PublishedIsDurable, StateTypes
<1>10. FeedOK(feed)' /\ NoSilentOutage'
  BY <1>1, <1>3 DEF NoSilentOutage, FeedOK
<1>11. LossIsNoticed'
  <2>1. \A j \in Instruments : owner[j] = "refused" => owner'[j] = "refused"
    BY <1>2, <1>4 DEF StateTypes, InWriter
  <2>2. Pending => Pending'
    BY <1>1, <2>1 DEF Pending
  <2> QED
    BY <1>3, <2>2 DEF LossIsNoticed, Finished
<1> QED
  BY <1>4, <1>5, <1>6, <1>7, <1>9, <1>10, <1>11

\* WriteFaults: the flag is up before anything else happens.
LEMMA WriteFaultsKeeps ==
  ASSUME IInv, NEW i \in Instruments, WriteFaults(i)
  PROVE  IInv'
<1> USE DEF IInv
<1>1. /\ exec # <<>> /\ Head(exec) = i /\ signalling = "none" /\ signalling' = i
      /\ diskFull' \in BOOLEAN
      /\ UNCHANGED <<polls, crossing, task, owner, exec, ready, writer, callbacks, disk, published, lost,
                     sched, fault, experiment, feed>>
  BY DEF WriteFaults, Writing, StateTypes
<1>2. owner[i] \in InWriter
  BY <1>1, Leaves DEF StateTypes, Queues
<1>3. i # "none"
  BY AcquisitionAssumption
<1>4. StateTypes' /\ Queues' /\ Owners'
  BY <1>1 DEF StateTypes, Queues, Owners, InFlight
<1>5. Lifecycle'
  BY <1>1, <1>2 DEF Lifecycle, InWriter
<1>6. Receipts' /\ PublishedIsDurable'
  BY <1>1 DEF Receipts, PublishedIsDurable, Durable
<1>7. FeedOK(feed)' /\ NoSilentOutage' /\ LossIsNoticed'
  BY <1>1, <1>3 DEF FeedOK, NoSilentOutage, LossIsNoticed, Pending
<1> QED
  BY <1>4, <1>5, <1>6, <1>7

\* SignalFailure and WriteRaises: the call returns without a receipt.
LEMMA FailedWriteKeeps ==
  ASSUME IInv, NEW i \in Instruments, SignalFailure(i) \/ WriteRaises(i)
  PROVE  IInv'
<1> USE DEF IInv
<1>1. PICK outcome \in {"refused", "raised"} :
        /\ Returns(i, outcome) /\ signalling' = "none"
        /\ signalling = "none" \/ (signalling = i /\ outcome = "refused" /\ callbacks')
        /\ exec # <<>> /\ Head(exec) = i
  <2>1. CASE SignalFailure(i)
    BY <2>1, AcquisitionAssumption DEF SignalFailure, Queues
  <2>2. CASE WriteRaises(i)
    BY <2>2 DEF WriteRaises, Writing
  <2> QED
    BY <2>1, <2>2
<1>2. /\ callbacks' \in BOOLEAN /\ (callbacks => callbacks')
      /\ UNCHANGED <<polls, crossing, task, writer, diskFull, disk, published, lost, sched, fault,
                     experiment, feed>>
  BY DEF SignalFailure, WriteRaises, storeVars, StateTypes
<1>3. /\ owner[i] \in InWriter
      /\ owner' \in [Instruments -> {"none"} \cup InWriter \cup Returned]
      /\ exec' \in Seq(Instruments) /\ ready' \in Seq(Instruments)
      /\ Queues'
  BY <1>1, ReturnKeepsQueues DEF Returned
<1>4. owner' = [owner EXCEPT ![i] = outcome] /\ outcome # "half" /\ outcome # "committed"
  BY <1>1 DEF Returns
<1>5. StateTypes'
  BY <1>1, <1>2, <1>3 DEF StateTypes
<1>6. Owners' /\ Lifecycle'
  BY <1>1, <1>2, <1>3, <1>4 DEF Owners, Lifecycle, InFlight, StateTypes, InWriter
<1>7. Receipts' /\ PublishedIsDurable'
  BY <1>2, <1>4 DEF Receipts, PublishedIsDurable, Durable, StateTypes
<1>8. Pending => Pending'
  BY <1>1, <1>3, <1>4, ReturnKeepsPending DEF Returned
<1>9. FeedOK(feed)' /\ NoSilentOutage' /\ LossIsNoticed'
  BY <1>1, <1>2, <1>8 DEF FeedOK, NoSilentOutage, LossIsNoticed, Finished
<1> QED
  BY <1>3, <1>5, <1>6, <1>7, <1>9

-----------------------------------------------------------------------------
(* The poll tasks.                                                         *)

\* A poll that never becomes a batch: PollSkipped and PollRefused.
LEMMA PollLostKeeps ==
  ASSUME IInv, NEW i \in Instruments, PollSkipped(i) \/ PollRefused(i)
  PROVE  IInv'
<1> USE DEF IInv
<1>1. /\ polls' = polls + 1 /\ sched = "running"
      /\ fault' \in BOOLEAN /\ (fault => fault')
      /\ UNCHANGED <<crossing, task, owner, exec, signalling, ready, writer, diskFull, callbacks, disk,
                     published, sched, experiment>>
  BY DEF PollSkipped, PollRefused, Undelivered, storeVars, StateTypes
<1>2. (diskFull /\ feed' = feed) \/ feed' = Terminalized(feed)
  BY DEF PollSkipped, PollRefused
<1>3. feed' \in Feed /\ FeedOK(feed)' /\ ((diskFull /\ feed' = feed) \/ Finished(feed)')
  BY <1>2, FeedKeeps DEF StateTypes, FeedOK, Finished
<1>4. StateTypes' /\ Owners'
  BY <1>1, <1>3 DEF StateTypes, Owners, InFlight
<1>5. Queues' /\ Lifecycle'
  BY <1>1 DEF Queues, Lifecycle
<1>6. Receipts' /\ PublishedIsDurable' /\ NoSilentOutage'
  BY <1>1 DEF Receipts, PublishedIsDurable, Durable, NoSilentOutage
<1>7. LossIsNoticed'
  BY <1>1, <1>3 DEF LossIsNoticed, Pending, Finished
<1> QED
  BY <1>3, <1>4, <1>5, <1>6, <1>7

\* PollAdmitted: a new batch, of which nothing is on disk or published.
LEMMA PollAdmittedKeeps ==
  ASSUME IInv, NEW i \in Instruments, PollAdmitted(i)
  PROVE  IInv'
<1> USE DEF IInv
<1>1. /\ sched = "running" /\ task[i].pc = "idle" /\ writer = "open"
      /\ polls' = polls + 1
      /\ crossing' \in {crossing, crossing \cup {polls'}}
      /\ owner' = [owner EXCEPT ![i] = "queued"] /\ exec' = Append(exec, i)
      /\ UNCHANGED <<signalling, ready, writer, diskFull, callbacks, disk, published, lost, sched, fault,
                     experiment, feed>>
  BY DEF PollAdmitted, storeVars
<1>2. PICK silent \in BOOLEAN :
        task' = [task EXCEPT ![i] = [pc |-> "waiting", batch |-> polls', silent |-> silent]]
  BY DEF PollAdmitted
<1>3. owner[i] = "none"
  BY <1>1 DEF Owners, InFlight
<1>4. /\ owner' \in [Instruments -> {"none"} \cup InWriter \cup Returned]
      /\ exec' \in Seq(Instruments)
      /\ Queues'
  BY <1>1, <1>3, AdmissionKeepsQueues
<1>5. StateTypes'
  BY <1>1, <1>2, <1>4 DEF StateTypes
<1>6. Owners'
  BY <1>1, <1>2 DEF Owners, InFlight, StateTypes
<1>7. Lifecycle'
  BY <1>1 DEF Lifecycle
<1>8. \A b \in 1..polls : Durable(b) => Durable(b)'
  BY <1>1 DEF Durable, StateTypes
<1>9. PublishedIsDurable'
  BY <1>1, <1>8 DEF PublishedIsDurable, StateTypes
<1>10. Receipts'
  BY <1>1, <1>2, <1>8 DEF Receipts, Owners, StateTypes
<1>11. LossIsNoticed'
  <2>1. Pending => Pending'
    BY <1>1, <1>3 DEF Pending, StateTypes
  <2> QED
    BY <1>1, <2>1 DEF LossIsNoticed, Finished
<1>12. FeedOK(feed)' /\ NoSilentOutage'
  BY <1>1 DEF FeedOK, NoSilentOutage
<1> QED
  BY <1>4, <1>5, <1>6, <1>7, <1>9, <1>10, <1>11, <1>12

\* A settled batch: published if its receipt says so, else lost and seen.
LEMMA ResumeKeeps ==
  ASSUME IInv, NEW i \in Instruments, Resume(i)
  PROVE  IInv'
<1> DEFINE b == task[i].batch
<1> USE DEF IInv
<1>1. PICK next \in {"idle", "ended"} : Settled(i, next) /\ ready # <<>> /\ Head(ready) = i
  BY DEF Resume, CommitResumes, RefusalResumes, ErrorResumes, CancelledResumes, Resumes, After
<1>2. /\ owner' = [owner EXCEPT ![i] = "none"] /\ ready' = Tail(ready)
      /\ task' = [task EXCEPT ![i] = [Idle EXCEPT !.pc = next]]
      /\ UNCHANGED <<polls, crossing, exec, signalling, writer, diskFull, callbacks, disk, sched,
                     experiment>>
  BY <1>1 DEF Settled, storeVars
<1>3. /\ owner[i] \in Returned
      /\ owner' \in [Instruments -> {"none"} \cup InWriter \cup Returned]
      /\ ready' \in Seq(Instruments)
      /\ Queues'
  BY <1>1, <1>2, SettlementKeepsQueues
<1>4. fault' \in BOOLEAN /\ (fault => fault')
  BY DEF Resume, CommitResumes, RefusalResumes, ErrorResumes, CancelledResumes, Undelivered, StateTypes
<1>5. \/ /\ owner[i] = "committed" /\ feed' = Committed(feed) /\ lost' = lost
         /\ published' \in {published, published \cup {b}}
      \/ /\ feed' \in {Terminalized(feed), Rejected(feed)}
         /\ published' = published
  BY DEF Resume, CommitResumes, RefusalResumes, ErrorResumes, CancelledResumes
<1>6. feed' \in Feed /\ FeedOK(feed)'
  BY <1>5, FeedKeeps DEF StateTypes, FeedOK
<1>7. b \in 1..polls
  BY <1>3 DEF Owners, Returned
<1>8. published' \subseteq 1..polls
  BY <1>5, <1>7 DEF StateTypes
<1>9. StateTypes'
  BY <1>2, <1>3, <1>4, <1>6, <1>8 DEF StateTypes, Idle
<1>10. Owners'
  BY <1>2 DEF Owners, InFlight, StateTypes
<1>11. Lifecycle'
  BY <1>2, <1>3 DEF Lifecycle, Returned
<1>12. \A c : Durable(c) <=> Durable(c)'
  BY <1>2 DEF Durable
<1>13. Receipts'
  BY <1>2, <1>12 DEF Receipts, StateTypes
<1>14. PublishedIsDurable'
  <2>1. \A c \in published' : c \in published \/ (owner[i] = "committed" /\ c = b)
    BY <1>5
  <2>2. \A c \in published' : Durable(c)
    BY <2>1 DEF PublishedIsDurable, Receipts
  <2> QED
    BY <2>2, <1>12 DEF PublishedIsDurable
<1>15. LossIsNoticed'
  <2>1. CASE Finished(feed)'
    BY <2>1 DEF LossIsNoticed
  <2>2. CASE ~Finished(feed)'
    <3>1. owner[i] = "committed" /\ feed' = Committed(feed) /\ lost' = lost
      BY <2>2, <1>5, FeedKeeps DEF StateTypes, Finished
    <3>2. ~Finished(feed)
      BY <2>2, <3>1, FeedKeeps DEF StateTypes, Finished
    <3>3. Pending => Pending'
      BY <1>2, <3>1 DEF Pending, StateTypes
    <3> QED
      BY <1>2, <3>1, <3>2, <3>3 DEF LossIsNoticed
  <2> QED
    BY <2>1, <2>2
<1>16. NoSilentOutage'
  BY <1>2, <1>4 DEF NoSilentOutage
<1> QED
  BY <1>3, <1>6, <1>9, <1>10, <1>11, <1>13, <1>14, <1>15, <1>16

-----------------------------------------------------------------------------
(* Faults, start, stop and the operator.                                   *)

\* LatchPersistenceFault and ClearPersistenceFault: the flag and the fault
\* it needs go together.
LEMMA FaultKeeps ==
  ASSUME IInv, LatchPersistenceFault \/ ClearPersistenceFault
  PROVE  IInv'
<1> USE DEF IInv
<1>1. /\ UNCHANGED <<polls, crossing, task, owner, exec, signalling, ready, writer, disk, published, lost,
                     sched, experiment, feed>>
      /\ diskFull' \in BOOLEAN /\ callbacks' \in BOOLEAN /\ fault' \in BOOLEAN
      /\ diskFull' => diskFull /\ fault'
  <2>1. CASE LatchPersistenceFault
    BY <2>1 DEF LatchPersistenceFault, pipeVars, StateTypes
  <2>2. CASE ClearPersistenceFault
    BY <2>2 DEF ClearPersistenceFault, pipeVars, StateTypes
  <2> QED
    BY <2>1, <2>2
<1>2. StateTypes' /\ Queues' /\ Owners' /\ Lifecycle'
  BY <1>1 DEF StateTypes, Queues, Owners, InFlight, Lifecycle
<1>3. Receipts' /\ PublishedIsDurable'
  BY <1>1 DEF Receipts, PublishedIsDurable, Durable
<1>4. FeedOK(feed)' /\ LossIsNoticed' /\ NoSilentOutage'
  BY <1>1 DEF FeedOK, LossIsNoticed, Finished, Pending, NoSilentOutage
<1> QED
  BY <1>2, <1>3, <1>4

\* StopBegins and DrainTimesOut: a batch in flight stays in flight.
LEMMA DrainKeeps ==
  ASSUME IInv, StopBegins \/ DrainTimesOut
  PROVE  IInv'
<1> USE DEF IInv
<1>1. /\ UNCHANGED <<polls, crossing, owner, exec, signalling, ready, writer, diskFull, callbacks, disk,
                     published, lost, fault, experiment, feed>>
      /\ sched' = "draining"
  BY DEF StopBegins, DrainTimesOut, storeVars
<1>2. /\ task' \in [Instruments -> [pc: {"idle", "waiting", "cancelled", "ended"}, batch: Nat,
                                    silent: BOOLEAN]]
      /\ \A i \in Instruments : InFlight(i) => InFlight(i)' /\ task'[i].batch = task[i].batch
  <2>1. CASE StopBegins
    <3>1. task' = [i \in Instruments |-> IF InFlight(i) THEN task[i] ELSE [Idle EXCEPT !.pc = "ended"]]
      BY <2>1 DEF StopBegins
    <3>2. [Idle EXCEPT !.pc = "ended"] \in [pc: {"ended"}, batch: Nat, silent: BOOLEAN]
      BY DEF Idle
    <3> QED
      BY <3>1, <3>2 DEF StateTypes, InFlight
  <2>2. CASE DrainTimesOut
    <3>1. task' = [i \in Instruments |->
                     IF task[i].pc = "waiting" THEN [task[i] EXCEPT !.pc = "cancelled"] ELSE task[i]]
      BY <2>2 DEF DrainTimesOut
    <3> QED
      BY <3>1 DEF StateTypes, InFlight
  <2> QED
    BY <2>1, <2>2
<1>3. StateTypes' /\ Queues' /\ Owners' /\ Lifecycle'
  BY <1>1, <1>2 DEF StateTypes, Queues, Owners, Lifecycle
<1>4. Receipts' /\ PublishedIsDurable'
  BY <1>1, <1>2 DEF Receipts, PublishedIsDurable, Durable, Owners
<1>5. FeedOK(feed)' /\ LossIsNoticed' /\ NoSilentOutage'
  BY <1>1 DEF FeedOK, LossIsNoticed, Finished, Pending, NoSilentOutage
<1> QED
  BY <1>2, <1>3, <1>4, <1>5

\* The steps that only move the feed or the lifecycle.  SchedulerStart is the
\* one that activates the feed, when nothing was lost yet.
LEMMA LifecycleKeeps ==
  ASSUME IInv,
         \/ SchedulerStart \/ StopCompletes \/ StopIncomplete \/ WriterStops \/ WriterCloses
         \/ ExperimentActive \/ ExperimentEnds \/ FeedExpires
  PROVE  IInv'
<1> USE DEF IInv
<1>1. /\ UNCHANGED <<polls, crossing, task, owner, exec, signalling, ready, diskFull, callbacks, disk,
                     published, lost, fault>>
      /\ experiment' \in BOOLEAN
  BY DEF SchedulerStart, StopCompletes, StopIncomplete, WriterStops, WriterCloses, ExperimentActive,
         ExperimentEnds, FeedExpires, pipeVars, storeVars, StateTypes
<1>2. (sched' = "new" => sched = "new") /\ (writer' = "closed" => writer = "closed" \/ exec = <<>>)
  BY DEF SchedulerStart, StopCompletes, StopIncomplete, WriterStops, WriterCloses, ExperimentActive,
         ExperimentEnds, FeedExpires, storeVars
<1>3. /\ feed' \in Feed /\ FeedOK(feed)'
      /\ Finished(feed) => Finished(feed)' \/ sched = "new"
  <2>1. CASE SchedulerStart
    BY <2>1 DEF SchedulerStart, StateTypes, Feed, FeedOK
  <2>2. CASE StopCompletes
    BY <2>2, FeedKeeps DEF StopCompletes, StateTypes, FeedOK, Finished
  <2>3. CASE StopIncomplete
    BY <2>3, FeedKeeps DEF StopIncomplete, StateTypes, FeedOK, Finished
  <2>4. CASE ExperimentEnds
    BY <2>4 DEF ExperimentEnds, StateTypes, Feed, FeedOK, Finished
  <2>5. CASE FeedExpires
    BY <2>5, FeedKeeps DEF FeedExpires, StateTypes, FeedOK, Finished
  <2>6. CASE WriterStops \/ WriterCloses \/ ExperimentActive
    BY <2>6 DEF WriterStops, WriterCloses, ExperimentActive, StateTypes, FeedOK, Finished
  <2> QED
    BY <2>1, <2>2, <2>3, <2>4, <2>5, <2>6
<1>4. StateTypes' /\ Queues' /\ Owners'
  BY <1>1, <1>3 DEF StateTypes, Queues, Owners, InFlight
<1>5. Lifecycle'
  BY <1>1, <1>2 DEF Lifecycle
<1>6. Receipts' /\ PublishedIsDurable' /\ NoSilentOutage'
  BY <1>1 DEF Receipts, PublishedIsDurable, Durable, NoSilentOutage
<1>7. LossIsNoticed'
  BY <1>1, <1>3 DEF LossIsNoticed, Pending, Lifecycle
<1> QED
  BY <1>3, <1>4, <1>5, <1>6, <1>7

-----------------------------------------------------------------------------
(* The theorems.                                                           *)

\* At boot nothing is queued, lost or on disk.
LEMMA InitIInv == Init => IInv
<1> SUFFICES ASSUME Init PROVE IInv
  OBVIOUS
<1>1. StateTypes
  <2>1. feed \in Feed
    BY DEF Init, Feed
  <2>2. exec \in Seq(Instruments) /\ ready \in Seq(Instruments)
    BY DEF Init
  <2>3. /\ task \in [Instruments -> [pc: {"idle", "waiting", "cancelled", "ended"}, batch: Nat,
                                     silent: BOOLEAN]]
        /\ owner \in [Instruments -> {"none"} \cup InWriter \cup Returned]
    BY DEF Init, Idle
  <2> QED
    BY <2>1, <2>2, <2>3 DEF Init, StateTypes
<1>2. Queues
  BY DEF Init, Queues, Distinct, Elems, InWriter, Returned
<1>3. Owners /\ Lifecycle /\ Receipts /\ PublishedIsDurable
  BY DEF Init, Owners, Lifecycle, Receipts, PublishedIsDurable
<1>4. FeedOK(feed) /\ LossIsNoticed /\ NoSilentOutage
  BY DEF Init, FeedOK, LossIsNoticed, NoSilentOutage
<1> QED
  BY <1>1, <1>2, <1>3, <1>4 DEF IInv

\* Every step of the writer thread, the loop, the scheduler and the operator
\* keeps the invariant.
LEMMA NextIInv == IInv /\ [Next]_vars => IInv'
<1> SUFFICES ASSUME IInv, [Next]_vars PROVE IInv'
  OBVIOUS
<1>1. CASE \E i \in Instruments : PollSkipped(i) \/ PollRefused(i)
  BY <1>1, PollLostKeeps
<1>2. CASE \E i \in Instruments : PollAdmitted(i)
  BY <1>2, PollAdmittedKeeps
<1>3. CASE \E i \in Instruments : Thread(i)
  BY <1>3, WriteDayKeeps, WriteFaultsKeeps, FailedWriteKeeps DEF Thread
<1>4. CASE \E i \in Instruments : Resume(i)
  BY <1>4, ResumeKeeps
<1>5. CASE LatchPersistenceFault \/ ClearPersistenceFault
  BY <1>5, FaultKeeps
<1>6. CASE StopBegins \/ DrainTimesOut
  BY <1>6, DrainKeeps
<1>7. CASE \/ SchedulerStart \/ StopCompletes \/ StopIncomplete \/ WriterStops \/ WriterCloses
           \/ ExperimentActive \/ ExperimentEnds \/ FeedExpires
  BY <1>7, LifecycleKeeps
<1>8. CASE UNCHANGED vars
  BY <1>8 DEF IInv, StateTypes, Queues, Owners, InFlight, Lifecycle, Receipts, PublishedIsDurable, Durable,
              FeedOK, LossIsNoticed, Finished, Pending, NoSilentOutage, vars, pipeVars, storeVars
<1> QED
  BY <1>1, <1>2, <1>3, <1>4, <1>5, <1>6, <1>7, <1>8 DEF Next

\* The pipeline's invariant: queues and owners agree, receipts are for what
\* is on disk, and a loss ends the recording.
THEOREM PipelineInvariant == Spec => []IInv
<1> QED
  BY InitIInv, NextIInv, PTL DEF Spec

\* The scheduler publishes only batches that are on disk completely, in both
\* daily files when they cross midnight.
THEOREM PublicationsAreDurable == Spec => []PublishedIsDurable
<1>1. IInv => PublishedIsDurable
  BY DEF IInv
<1> QED
  BY <1>1, PipelineInvariant, PTL

\* A lost batch has ended the recording the operator is shown, or its refusal
\* is on its way; polling is never switched off without a fault to clear.
THEOREM OutagesAreShown == Spec => []OutageIsShown
<1>1. IInv => OutageIsShown
  <2> SUFFICES ASSUME IInv PROVE RecordingIsLossless /\ NoSilentOutage
    BY DEF OutageIsShown
  <2>1. feed.session \/ feed.storage = "available" => ~Finished(feed)
    BY DEF IInv, FeedOK, Finished
  <2>2. RecordingIsLossless
    BY <2>1 DEF IInv, LossIsNoticed, Pending, RecordingIsLossless
  <2> QED
    BY <2>2 DEF IInv
<1> QED
  BY <1>1, PipelineInvariant, PTL

\* Once SQLiteWriter.stop has reported the writer closed, nothing is written.
THEOREM ClosedIsSilent == Spec => NoWriteAfterClose
<1>1. IInv /\ [Next]_vars => (writer = "closed" => disk' = disk)
  <2> SUFFICES ASSUME IInv, [Next]_vars, writer = "closed" PROVE disk' = disk
    OBVIOUS
  <2>1. exec = <<>>
    BY DEF IInv, Lifecycle
  <2>2. \A i \in Instruments : ~WriteDay(i)
    BY <2>1 DEF WriteDay, Writing
  <2>3. CASE \E i \in Instruments : Thread(i) \/ PollSkipped(i) \/ PollRefused(i) \/ PollAdmitted(i)
    BY <2>2, <2>3 DEF Thread, WriteFaults, WriteRaises, SignalFailure, PollSkipped, PollRefused,
                      PollAdmitted, storeVars
  <2>4. CASE \E i \in Instruments : Resume(i)
    BY <2>4 DEF Resume, CommitResumes, RefusalResumes, ErrorResumes, CancelledResumes, Settled, storeVars
  <2>5. CASE \/ LatchPersistenceFault \/ ClearPersistenceFault \/ StopBegins \/ DrainTimesOut
             \/ SchedulerStart \/ StopCompletes \/ StopIncomplete \/ WriterStops \/ WriterCloses
             \/ ExperimentActive \/ ExperimentEnds \/ FeedExpires \/ UNCHANGED vars
    BY <2>5 DEF LatchPersistenceFault, ClearPersistenceFault, StopBegins, DrainTimesOut, SchedulerStart,
                StopCompletes, StopIncomplete, WriterStops, WriterCloses, ExperimentActive, ExperimentEnds,
                FeedExpires, vars, storeVars
  <2> QED
    BY <2>3, <2>4, <2>5 DEF Next
<1>2. IInv /\ [Next]_vars => [writer = "closed" => disk' = disk]_vars
  BY <1>1
<1> QED
  BY <1>2, PipelineInvariant, PTL DEF Spec, NoWriteAfterClose


-----------------------------------------------------------------------------
(* The bounds.                                                             *)

\* Batches are numbered as they are polled, and begin_committed admits no
\* more settlements than the writer has capacity for.
Bounded ==
  /\ polls <= MaxPolls
  /\ crossing \subseteq 1..polls /\ lost \subseteq 1..polls /\ disk \subseteq (1..polls) \X {1, 2}
  /\ \A i \in Instruments : task[i].batch \in 0..polls
  /\ blockers \subseteq Instruments
  /\ writer \in {"open", "stopping", "closed"}
  /\ sched \in {"new", "running", "draining", "stopped"}
  /\ capacity \in Capacities
  /\ tickets \subseteq 1..polls /\ Cardinality(tickets) <= capacity

\* A queue that names each instrument at most once is no longer than the
\* instruments are many: an instrument has one commit at a time.
LEMMA QueueFits ==
  ASSUME NEW q \in Seq(Instruments), Distinct(q)
  PROVE  Len(q) <= Cardinality(Instruments)
<1> SUFFICES ASSUME Len(q) > Cardinality(Instruments) PROVE FALSE
  <2>1. Cardinality(Instruments) \in Nat /\ Len(q) \in Nat
    BY AcquisitionAssumption, FS_CardinalityType
  <2> QED
    BY <2>1
<1>1. IsFiniteSet(1..Len(q)) /\ Cardinality(1..Len(q)) = Len(q)
  <2>1. Len(q) \in Nat /\ 1 \in Int /\ Len(q) \in Int
    OBVIOUS
  <2>2. /\ IsFiniteSet(1..Len(q))
        /\ Cardinality(1..Len(q)) = IF 1 > Len(q) THEN 0 ELSE Len(q) - 1 + 1
    BY <2>1, FS_Interval
  <2>3. (IF 1 > Len(q) THEN 0 ELSE Len(q) - 1 + 1) = Len(q)
    BY <2>1
  <2> QED
    BY <2>2, <2>3
<1>2. q \in [1..Len(q) -> Instruments]
  OBVIOUS
<1>3. \E x, y \in 1..Len(q) : x # y /\ q[x] = q[y]
  BY <1>1, <1>2, AcquisitionAssumption, FS_PigeonHole
<1> QED
  BY <1>3 DEF Distinct

\* A poll takes the next number; only an admitted batch takes a ticket.
LEMMA PollKeepsBounds ==
  ASSUME StateTypes, Bounded, NEW i \in Instruments,
         PollSkipped(i) \/ PollRefused(i) \/ PollAdmitted(i)
  PROVE  Bounded'
<1>1. polls' = polls + 1 /\ polls' <= MaxPolls /\ polls \in Nat /\ polls' \in 1..polls'
  <2>1. polls' = polls + 1 /\ polls < MaxPolls
    BY DEF PollSkipped, PollRefused, PollAdmitted
  <2>2. polls \in Nat /\ MaxPolls \in Nat
    BY AcquisitionAssumption DEF StateTypes
  <2> QED
    BY <2>1, <2>2
<1>2. 1..polls \subseteq 1..polls' /\ 0..polls \subseteq 0..polls' /\ polls' \in 0..polls'
  BY <1>1
<1>3. /\ UNCHANGED <<capacity, disk, writer, sched>>
      /\ blockers' \in {blockers, blockers \cup {i}}
      /\ crossing' \in {crossing, crossing \cup {polls'}} /\ lost' \in {lost, lost \cup {polls'}}
  BY DEF PollSkipped, PollRefused, PollAdmitted, Undelivered, storeVars
<1>4. \A j \in Instruments : task'[j].batch \in 0..polls'
  <2>1. CASE task' = task
    BY <1>2, <2>1 DEF Bounded
  <2>2. CASE \E silent \in BOOLEAN :
               task' = [task EXCEPT ![i] = [pc |-> "waiting", batch |-> polls', silent |-> silent]]
    BY <1>2, <2>2 DEF Bounded, StateTypes
  <2> QED
    BY <2>1, <2>2 DEF PollSkipped, PollRefused, PollAdmitted
<1>5. tickets' \subseteq 1..polls' /\ Cardinality(tickets') <= capacity
  <2>1. CASE tickets' = tickets
    BY <1>2, <2>1 DEF Bounded
  <2>2. CASE tickets' = tickets \cup {polls'} /\ Cardinality(tickets) < capacity
    <3>1. IsFiniteSet(1..polls) /\ tickets \in SUBSET (1..polls)
      BY <1>1, FS_Interval DEF Bounded
    <3>2. IsFiniteSet(tickets)
      BY <3>1, FS_Subset
    <3>3. Cardinality(tickets) \in Nat /\ Cardinality(tickets') \in {Cardinality(tickets), Cardinality(tickets) + 1}
      BY <2>2, <3>2, FS_AddElement, FS_CardinalityType
    <3>4. capacity \in Nat
      BY AcquisitionAssumption DEF Bounded
    <3>5. Cardinality(tickets') <= capacity
      BY <2>2, <3>3, <3>4
    <3> QED
      BY <1>1, <1>2, <2>2, <3>5 DEF Bounded
  <2> QED
    BY <2>1, <2>2 DEF PollSkipped, PollRefused, PollAdmitted
<1> QED
  BY <1>1, <1>2, <1>3, <1>4, <1>5 DEF Bounded

\* Tickets given back leave no more than there were.
LEMMA FewerTickets ==
  ASSUME StateTypes, Bounded, NEW T \in SUBSET tickets
  PROVE  Cardinality(T) <= capacity
<1>1. IsFiniteSet(1..polls) /\ tickets \in SUBSET (1..polls)
  BY FS_Interval DEF Bounded, StateTypes
<1>2. IsFiniteSet(tickets)
  BY <1>1, FS_Subset
<1>3. IsFiniteSet(T) /\ Cardinality(T) <= Cardinality(tickets)
  BY <1>2, FS_Subset
<1>4. Cardinality(T) \in Nat /\ Cardinality(tickets) \in Nat /\ capacity \in Nat
  BY <1>2, <1>3, FS_CardinalityType, AcquisitionAssumption DEF Bounded
<1> QED
  BY <1>3, <1>4 DEF Bounded

\* A settlement gives its ticket back, and can only lose the batch it settles.
LEMMA ResumeKeepsBounds ==
  ASSUME IInv, Bounded, NEW i \in Instruments, Resume(i)
  PROVE  Bounded'
<1>1. PICK next \in {"idle", "ended"} : Settled(i, next) /\ ready # <<>> /\ Head(ready) = i
  BY DEF Resume, CommitResumes, RefusalResumes, ErrorResumes, CancelledResumes, Resumes, After
<1>2. /\ task' = [task EXCEPT ![i] = [Idle EXCEPT !.pc = next]]
      /\ owner' = [owner EXCEPT ![i] = "none"] /\ ready' = Tail(ready)
      /\ UNCHANGED <<capacity, polls, crossing, exec, signalling, disk, writer, sched>>
  BY <1>1 DEF Settled, storeVars
<1>3. task[i].batch \in 1..polls
  <2>1. owner[i] \in Returned
    BY <1>1, <1>2, SettlementKeepsQueues DEF IInv
  <2> QED
    BY <2>1 DEF IInv, Owners, Returned
<1>4. \A j \in Instruments : task'[j].batch \in 0..polls
  <2>1. 0 \in 0..polls
    BY DEF IInv, StateTypes
  <2> QED
    BY <1>2, <2>1 DEF Bounded, IInv, StateTypes, Idle
<1>5. /\ tickets' \subseteq tickets
      /\ lost' \in {lost, lost \cup {task[i].batch}}
      /\ blockers' \subseteq blockers \cup {i}
  BY DEF Resume, CommitResumes, RefusalResumes, ErrorResumes, CancelledResumes, Undelivered
<1>6. Cardinality(tickets') <= capacity
  BY <1>5, FewerTickets DEF IInv
<1> QED
  BY <1>2, <1>3, <1>4, <1>5, <1>6 DEF Bounded

\* The writer puts on disk the batch that its task waits for.
LEMMA ThreadKeepsBounds ==
  ASSUME IInv, Bounded, NEW i \in Instruments, Thread(i)
  PROVE  Bounded'
<1>1. UNCHANGED <<capacity, polls, crossing, task, tickets, lost, blockers, writer, sched>>
  BY DEF Thread, WriteDay, WriteFaults, WriteRaises, SignalFailure, storeVars
<1>2. disk' = disk \/ \E part \in {1, 2} : Writing(i) /\ disk' = disk \cup {<<task[i].batch, part>>}
  BY DEF Thread, WriteDay, WriteFaults, WriteRaises, SignalFailure, storeVars
<1>3. Writing(i) => task[i].batch \in 1..polls
  <2>1. Writing(i) => owner[i] \in InWriter
    BY Leaves DEF Writing, IInv, StateTypes, Queues
  <2> QED
    BY <2>1 DEF IInv, Owners, InWriter
<1>4. disk' \subseteq (1..polls) \X {1, 2}
  BY <1>2, <1>3 DEF Bounded
<1> QED
  BY <1>1, <1>4 DEF Bounded

\* The rest of the loop, the operator and the two stops.
LEMMA OthersKeepBounds ==
  ASSUME IInv, Bounded,
         \/ LatchPersistenceFault \/ ClearPersistenceFault \/ StopBegins \/ DrainTimesOut
         \/ SchedulerStart \/ StopCompletes \/ StopIncomplete \/ WriterStops \/ WriterCloses
         \/ ExperimentActive \/ ExperimentEnds \/ FeedExpires \/ UNCHANGED vars
  PROVE  Bounded'
<1>1. /\ UNCHANGED <<capacity, polls, crossing, disk, lost, blockers>>
      /\ writer' \in {writer, "stopping", "closed"} /\ sched' \in {sched, "running", "draining", "stopped"}
      /\ tickets' \in {tickets, {}}
  BY DEF LatchPersistenceFault, ClearPersistenceFault, StopBegins, DrainTimesOut, SchedulerStart,
         StopCompletes, StopIncomplete, WriterStops, WriterCloses, ExperimentActive, ExperimentEnds,
         FeedExpires, vars, pipeVars, storeVars
<1>2. \A i \in Instruments : task'[i].batch \in {task[i].batch, 0}
  <2>1. CASE StopBegins
    BY <2>1 DEF StopBegins, Idle
  <2>2. CASE DrainTimesOut
    <3>1. task' = [i \in Instruments |->
                     IF task[i].pc = "waiting" THEN [task[i] EXCEPT !.pc = "cancelled"] ELSE task[i]]
      BY <2>2 DEF DrainTimesOut
    <3> QED
      BY <3>1 DEF IInv, StateTypes
  <2>3. CASE UNCHANGED task
    BY <2>3
  <2> QED
    BY <2>1, <2>2, <2>3 DEF LatchPersistenceFault, ClearPersistenceFault, SchedulerStart, StopCompletes,
       StopIncomplete, WriterStops, WriterCloses, ExperimentActive, ExperimentEnds, FeedExpires, vars, pipeVars
<1>3. 0 \in 0..polls
  BY DEF IInv, StateTypes
<1>4. tickets' \in SUBSET tickets
  BY <1>1
<1>5. Cardinality(tickets') <= capacity
  BY <1>4, FewerTickets DEF IInv
<1> QED
  BY <1>1, <1>2, <1>3, <1>4, <1>5 DEF Bounded

\* The variables keep their types for any number of polls: in particular no
\* more than the writer's capacity of settlements is retained, a queue names
\* an instrument once, and nothing is written or lost that was not polled.
THEOREM CapacityIsKept == Spec => []TypeOK
<1>1. Init => Bounded
  <2> SUFFICES ASSUME Init PROVE Bounded
    OBVIOUS
  <2>1. capacity \in Nat /\ MaxPolls \in Nat /\ Cardinality(tickets) = 0 /\ tickets = {}
    BY AcquisitionAssumption, FS_EmptySet DEF Init
  <2>2. \A i \in Instruments : task[i].batch = 0
    BY DEF Init, Idle
  <2> QED
    BY <2>1, <2>2 DEF Init, Bounded
<1>2. IInv /\ Bounded /\ [Next]_vars => Bounded'
  BY PollKeepsBounds, ThreadKeepsBounds, ResumeKeepsBounds, OthersKeepBounds DEF Next, IInv
<1>3. IInv /\ Bounded => TypeOK
  <2> SUFFICES ASSUME IInv, Bounded PROVE TypeOK
    OBVIOUS
  <2> USE DEF IInv
  <2>1. polls \in Nat /\ MaxPolls \in Nat /\ polls <= MaxPolls
    BY AcquisitionAssumption DEF StateTypes, Bounded
  <2>2. polls \in 0..MaxPolls /\ 1..polls \subseteq 1..MaxPolls /\ 0..polls \subseteq 0..MaxPolls
    BY <2>1
  <2>3. Len(exec) <= Cardinality(Instruments) /\ Len(ready) <= Cardinality(Instruments)
    BY QueueFits DEF StateTypes, Queues
  <2>4. task \in [Instruments -> [pc: {"idle", "waiting", "cancelled", "ended"}, batch: 0..MaxPolls,
                                  silent: BOOLEAN]]
    <3> SUFFICES ASSUME NEW i \in Instruments
                 PROVE  task[i] \in [pc: {"idle", "waiting", "cancelled", "ended"}, batch: 0..MaxPolls,
                                     silent: BOOLEAN]
      BY DEF StateTypes
    <3>1. task[i].batch \in 0..MaxPolls
      BY <2>2 DEF Bounded
    <3> QED
      BY <3>1 DEF StateTypes
  <2>5. owner \in [Instruments -> {"none", "queued", "half", "committed", "refused", "raised"}]
    BY DEF StateTypes, InWriter, Returned
  <2>6. /\ crossing \subseteq 1..MaxPolls /\ lost \subseteq 1..MaxPolls /\ published \subseteq 1..MaxPolls
        /\ tickets \subseteq 1..MaxPolls /\ disk \subseteq (1..MaxPolls) \X {1, 2}
    BY <2>2 DEF StateTypes, Bounded
  <2> QED
    BY <2>2, <2>3, <2>4, <2>5, <2>6 DEF StateTypes, Bounded, TypeOK
<1> QED
  BY <1>1, <1>2, <1>3, PipelineInvariant, PTL DEF Spec
=============================================================================

--------------------------- MODULE KeithleySource ---------------------------
(***************************************************************************)
(* The dual-channel source driver (drivers/instruments/keithley_2604b.py)  *)
(* over its process-owned USBTMC session (drivers/transport/usbtmc.py).    *)
(*                                                                         *)
(* Coroutines interleave at every await: a source start per channel, any   *)
(* number of OFF callers (emergency_off, stop_source), the poll that reads *)
(* and regulates, and the connect/disconnect owner.  OFF is never queued   *)
(* behind a broad lock; instead every OFF and every start preclaims a new  *)
(* command epoch of its channel, and what is concluded from the instrument *)
(* is bound to that epoch and to the connection generation.                *)
(*                                                                         *)
(* The transport serves one command at a time, in the order of arrival at  *)
(* its lock: ahead[t] is the set of waiters in front of t.  A command that *)
(* raises may or may not have acted on the instrument.                     *)
(***************************************************************************)
EXTENDS Naturals, FiniteSets

CONSTANTS
  Channels,     \* the SMU channels
  Polled,       \* the channels read_channels visits
  Reachable,    \* the channels somebody may switch on at the front panel
  Callers,      \* concurrent callers of emergency_off / stop_source
  MaxEpoch,     \* bound: no start or read of a channel begins beyond this epoch
  MaxOffEpoch,  \* bound: no OFF of a channel is called for beyond this epoch
  MaxGen        \* bound: number of connect attempts

ASSUME ChannelSubsets == Polled \subseteq Channels /\ Reachable \subseteq Channels
ASSUME ChannelsFinite == IsFiniteSet(Channels) /\ Channels # {}
ASSUME TasksDistinct ==
  /\ Channels \cap Callers = {}
  /\ (Channels \cup Callers) \cap {"life", "reader", "none"} = {}
ASSUME Bounds == MaxEpoch \in Nat /\ MaxOffEpoch \in Nat /\ MaxGen \in Nat

\* Owners of an OFF sequence: an external caller, the failed start of a
\* channel (named by the channel), or the connect/disconnect owner.
OffOwners == Callers \cup Channels \cup {"life"}

\* Coroutines that issue commands; a start and its cleanup are one coroutine.
Tasks == OffOwners \cup {"reader"}

VARIABLES
  \* evidence and authority, per channel
  epoch, startToken, offDepth, regEpoch, proof, active, obs, unsafe,
  \* connection lifecycle
  gen, connected, recovery, connecting, disconnecting, teardown,
  \* coroutines
  start, attempted, op, rd, life,
  \* transport: lock waiters, their order, replies, ordinary-I/O lock, session
  waiting, ahead, reply, ioOwner, session,
  \* the instrument, and outputs switched on at its front panel
  outputOn, level, tampered

evidence == <<epoch, startToken, offDepth, regEpoch, proof, active, obs, unsafe>>
lifecycle == <<gen, connected, recovery, connecting, disconnecting, teardown>>
wire == <<waiting, ahead>>
plant == <<outputOn, level, tampered>>
vars == <<evidence, lifecycle, start, attempted, op, rd, life, wire, reply, ioOwner, session, plant>>

NoProof == [gen |-> 0, epoch |-> 0]
NoObs == [gen |-> 0, epoch |-> 0, kind |-> "none"]
NoOp == [pc |-> "idle", chans |-> {}, todo |-> {}, cur |-> {}, tok |-> [c \in Channels |-> 0],
         gen |-> 0, failed |-> {}, ok |-> TRUE]
NoRead(c) == [pc |-> "idle", ch |-> c, gen |-> 0, epoch |-> 0]

\* Types, and the ordinary-I/O lock is held only across a command.
TypeOK ==
  /\ epoch \in [Channels -> Nat] /\ startToken \in [Channels -> Nat]
  /\ offDepth \in [Channels -> Nat] /\ regEpoch \in [Channels -> Nat]
  /\ proof \in [Channels -> [gen : Nat, epoch : Nat]]
  /\ active \in [Channels -> BOOLEAN]
  /\ obs \in [Channels -> [gen : Nat, epoch : Nat, kind : {"none", "output_on", "invalid_readback"}]]
  /\ unsafe \in BOOLEAN
  /\ gen \in Nat
  /\ connected \in BOOLEAN /\ recovery \in BOOLEAN
  /\ connecting \in BOOLEAN /\ disconnecting \in BOOLEAN
  /\ teardown \in {"no", "settleable", "terminal"}
  /\ start \in [Channels -> {"idle", "configure", "on", "readback", "cleanup"}]
  /\ attempted \in [Channels -> BOOLEAN]
  /\ op \in [OffOwners -> [pc : {"idle", "write", "read", "settled"},
                           chans : SUBSET Channels, todo : SUBSET Channels,
                           cur : SUBSET Channels,
                           tok : [Channels -> Nat], gen : Nat,
                           failed : SUBSET Channels, ok : BOOLEAN]]
  /\ rd \in [pc : {"idle", "query", "measure", "level"}, ch : Channels, gen : Nat, epoch : Nat]
  /\ life \in {"idle", "opening", "connect_off", "connect_tail", "failed_close",
               "disconnect_off", "closing", "settling"}
  /\ waiting \subseteq Tasks /\ ahead \in [Tasks -> SUBSET Tasks]
  /\ reply \in [Tasks -> {"none", "ok", "raised", "on", "off", "bad"}]
  /\ ioOwner \in Channels \cup {"reader", "none"}
  /\ ioOwner # "none" => ioOwner \in waiting \/ reply[ioOwner] # "none"
  /\ session \in {"closed", "open", "desync", "dead"}
  /\ outputOn \in [Channels -> BOOLEAN] /\ level \in [Channels -> {"zero", "nonzero"}]
  /\ tampered \subseteq Channels

\* A process that starts beside an instrument in an unknown output state.
Init ==
  /\ epoch = [c \in Channels |-> 0] /\ startToken = [c \in Channels |-> 0]
  /\ offDepth = [c \in Channels |-> 0] /\ regEpoch = [c \in Channels |-> 0]
  /\ proof = [c \in Channels |-> NoProof] /\ active = [c \in Channels |-> FALSE]
  /\ obs = [c \in Channels |-> NoObs] /\ unsafe = TRUE
  /\ gen = 0 /\ connected = FALSE /\ recovery = FALSE
  /\ connecting = FALSE /\ disconnecting = FALSE /\ teardown = "no"
  /\ start = [c \in Channels |-> "idle"] /\ attempted = [c \in Channels |-> FALSE]
  /\ op = [o \in OffOwners |-> NoOp]
  /\ rd \in {NoRead(c) : c \in Channels}
  /\ life = "idle"
  /\ waiting = {} /\ ahead = [t \in Tasks |-> {}] /\ reply = [t \in Tasks |-> "none"]
  /\ ioOwner = "none" /\ session = "closed"
  /\ outputOn \in [Channels -> BOOLEAN] /\ level \in [Channels -> {"zero", "nonzero"}]
  /\ tampered = {}

(***************************************************************************)
(* Evidence predicates.                                                    *)
(***************************************************************************)

TransportAvailable == connected \/ connecting \/ recovery

HasCurrentOffReadback(c) ==
  /\ TransportAvailable
  /\ proof[c] # NoProof
  /\ proof[c].gen = gen
  /\ proof[c].epoch = epoch[c]

HasCurrentOffProof(c) ==
  HasCurrentOffReadback(c) /\ startToken[c] = 0 /\ offDepth[c] = 0

\* _require_operational_connection does not raise.
Operational == connected /\ ~recovery /\ teardown = "no" /\ ~connecting /\ ~disconnecting

\* DEFECT: only the token is compared, not the epoch nor the OFF depth.
StartOwnsToken(c, token) == connected /\ startToken[c] = token

\* _start_operation_is_current: no OFF has claimed the channel since.
StartOperationIsCurrent(c, token) ==
  /\ connected /\ ~connecting /\ ~disconnecting
  /\ startToken[c] = token /\ epoch[c] = token /\ offDepth[c] = 0

RegulationIsCurrent(c, g, e) ==
  /\ connected /\ ~connecting /\ ~disconnecting
  /\ g = gen /\ e = epoch[c] /\ regEpoch[c] = e
  /\ startToken[c] = 0 /\ offDepth[c] = 0 /\ active[c]

\* The observations other components may see (unsafe_output_observations).
ObservationIsCurrent(c) ==
  /\ connected /\ ~connecting /\ ~disconnecting
  /\ obs[c].kind # "none" /\ obs[c].gen = gen /\ obs[c].epoch = epoch[c]
  /\ startToken[c] = 0 /\ offDepth[c] = 0 /\ ~active[c]

\* DEFECT: one proved channel is taken for all.
RefreshFromAnyChannel == unsafe' = ~ \E c \in Channels : HasCurrentOffProof(c)'

\* _refresh_output_uncertainty, evaluated on the state just written.
RefreshOutputUncertainty == unsafe' = ~ \A c \in Channels : HasCurrentOffProof(c)'

\* _enter_recovery_after_transport_loss: demote a live session, keep its
\* handle for OFF only.  It does nothing while not connected.
EnterRecovery ==
  IF connected
  THEN /\ connected' = FALSE /\ recovery' = TRUE
       /\ proof' = [c \in Channels |-> NoProof] /\ obs' = [c \in Channels |-> NoObs]
       /\ unsafe' = TRUE
  ELSE UNCHANGED <<connected, recovery, proof, obs, unsafe>>

(***************************************************************************)
(* The transport (external): a FIFO lock around one command at a time.     *)
(***************************************************************************)

Enqueue(t) ==
  /\ waiting' = waiting \cup {t}
  /\ ahead' = [ahead EXCEPT ![t] = waiting]

\* A coroutine releases the lock when it resumes with its reply; only the close
\* of disconnect() runs in a task of its own and has released it by then.
LockHeld == \E t \in Tasks : reply[t] # "none" /\ (t = "life" => life # "closing")

Dequeue(t) ==
  /\ t \in waiting /\ ahead[t] = {} /\ ~LockHeld
  /\ waiting' = waiting \ {t}
  /\ ahead' = [u \in Tasks |-> ahead[u] \ {t}]

\* Does the session pass this command?  One that lost query synchronisation
\* refuses ordinary traffic; the OFF writes and the OFF challenge still pass.
Passes(ordinary) == session = "open" \/ (session = "desync" /\ ~ordinary)

\* The outcomes of a write: its reply, the session it leaves behind, and
\* whether it acted on the instrument, which a write that raised may have done.
WriteOutcomes(ordinary) ==
  IF Passes(ordinary)
  THEN [r : {"ok"}, s : {session}, acts : {TRUE}] \cup [r : {"raised"}, s : {session, "dead"}, acts : BOOLEAN]
  ELSE [r : {"raised"}, s : {session}, acts : {FALSE}]

\* The outcomes of a query: the value, an unusable text, or an error.
QueryOutcomes(ordinary, value) ==
  IF Passes(ordinary)
  THEN [r : {value, "bad"}, s : {session}] \cup [r : {"raised"}, s : {"desync", "dead"}]
  ELSE [r : {"raised"}, s : {session}]

\* The configuration writes of a start: reset() .. levelv = 0.
ExecConfigure(c) ==
  /\ start[c] = "configure" /\ Dequeue(c)
  /\ \E out \in WriteOutcomes(TRUE) :
       /\ reply' = [reply EXCEPT ![c] = out.r] /\ session' = out.s
       /\ level' = IF out.acts THEN [level EXCEPT ![c] = "zero"] ELSE level
       /\ outputOn' = IF out.acts THEN [outputOn EXCEPT ![c] = FALSE] ELSE outputOn
       /\ tampered' = IF out.acts THEN tampered \ {c} ELSE tampered
  /\ UNCHANGED <<evidence, lifecycle, start, attempted, op, rd, life, ioOwner>>

\* source.output = OUTPUT_ON.
ExecOn(c) ==
  /\ start[c] = "on" /\ Dequeue(c)
  /\ \E out \in WriteOutcomes(TRUE) :
       /\ reply' = [reply EXCEPT ![c] = out.r] /\ session' = out.s
       /\ outputOn' = IF out.acts THEN [outputOn EXCEPT ![c] = TRUE] ELSE outputOn
  /\ UNCHANGED <<evidence, lifecycle, start, attempted, op, rd, life, ioOwner, level, tampered>>

OutputValue(c) == IF outputOn[c] THEN "on" ELSE "off"

\* print(source.output), asked by the start of a channel ...
ExecStartReadback(c) ==
  /\ start[c] = "readback" /\ Dequeue(c)
  /\ \E out \in QueryOutcomes(TRUE, OutputValue(c)) :
       reply' = [reply EXCEPT ![c] = out.r] /\ session' = out.s
  /\ UNCHANGED <<evidence, lifecycle, start, attempted, op, rd, life, ioOwner, plant>>

\* ... or by the poll of an idle channel; of an active one it asks measure.iv().
ExecPollQuery ==
  /\ rd.pc \in {"query", "measure"} /\ Dequeue("reader")
  /\ \E out \in QueryOutcomes(TRUE, IF rd.pc = "query" THEN OutputValue(rd.ch) ELSE "ok") :
       reply' = [reply EXCEPT !["reader"] = out.r] /\ session' = out.s
  /\ UNCHANGED <<evidence, lifecycle, start, attempted, op, rd, life, ioOwner, plant>>

\* source.levelv = target_v, the regulation step of an active channel.
ExecLevel ==
  /\ rd.pc = "level" /\ Dequeue("reader")
  /\ \E out \in WriteOutcomes(TRUE) :
       /\ reply' = [reply EXCEPT !["reader"] = out.r] /\ session' = out.s
       /\ level' = IF out.acts THEN [level EXCEPT ![rd.ch] = "nonzero"] ELSE level
  /\ UNCHANGED <<evidence, lifecycle, start, attempted, op, rd, life, ioOwner, outputOn, tampered>>

\* levelv = 0 and source.output = OUTPUT_OFF of one channel of an OFF sequence.
ExecOff(o) ==
  /\ op[o].pc = "write" /\ Dequeue(o)
  /\ \E out \in WriteOutcomes(FALSE) :
       /\ reply' = [reply EXCEPT ![o] = out.r] /\ session' = out.s
       /\ outputOn' = [c \in Channels |-> outputOn[c] /\ ~(out.acts /\ c \in op[o].cur)]
       /\ level' = [c \in Channels |-> IF out.acts /\ c \in op[o].cur THEN "zero" ELSE level[c]]
       /\ tampered' = IF out.acts THEN tampered \ op[o].cur ELSE tampered
  /\ UNCHANGED <<evidence, lifecycle, start, attempted, op, rd, life, ioOwner>>

\* The OFF challenge: output state and a fresh nonce in one response.
ExecOffChallenge(o) ==
  /\ op[o].pc = "read" /\ Dequeue(o)
  /\ \E c \in op[o].cur : \E out \in QueryOutcomes(FALSE, OutputValue(c)) :
       reply' = [reply EXCEPT ![o] = out.r] /\ session' = out.s
  /\ UNCHANGED <<evidence, lifecycle, start, attempted, op, rd, life, ioOwner, plant>>

\* close() of the process-owned session.
ExecClose ==
  /\ life \in {"closing", "failed_close", "settling"} /\ Dequeue("life")
  /\ \/ /\ session \in {"open", "desync", "closed"} \/ (session = "dead" /\ teardown = "settleable")
        /\ session' = "closed" /\ reply' = [reply EXCEPT !["life"] = "ok"]
     \/ /\ session # "closed"
        /\ session' = "dead" /\ reply' = [reply EXCEPT !["life"] = "raised"]
  /\ UNCHANGED <<evidence, lifecycle, start, attempted, op, rd, life, ioOwner, plant>>

\* Somebody switches an output on at the instrument's front panel.
FrontPanelOn(c) ==
  /\ c \in Reachable /\ ~outputOn[c] /\ tampered = {}
  /\ outputOn' = [outputOn EXCEPT ![c] = TRUE]
  /\ tampered' = tampered \cup {c}
  /\ UNCHANGED <<evidence, lifecycle, start, attempted, op, rd, life, wire, reply, ioOwner, session, level>>

(***************************************************************************)
(* OFF sequences (_attempt_owned_off and _attempt_output_off_sequence).    *)
(***************************************************************************)

\* _begin_off_operation: preclaim a new epoch of every target before the first
\* await.  "lost" also demotes the connection, in the same step.
BeginOff(o, C, lost) ==
  /\ epoch' = [c \in Channels |-> IF c \in C THEN epoch[c] + 1 ELSE epoch[c]]
  /\ offDepth' = [c \in Channels |-> IF c \in C THEN offDepth[c] + 1 ELSE offDepth[c]]
  /\ regEpoch' = [c \in Channels |-> IF c \in C THEN 0 ELSE regEpoch[c]]
  /\ proof' = [c \in Channels |-> IF c \in C \/ (lost /\ connected) THEN NoProof ELSE proof[c]]
  /\ obs' = [c \in Channels |-> IF c \in C \/ (lost /\ connected) THEN NoObs ELSE obs[c]]
  /\ unsafe' = TRUE
  /\ connected' = (connected /\ ~lost)
  /\ recovery' = (recovery \/ (lost /\ connected))
  /\ op' = [op EXCEPT ![o] =
       [pc |-> "write", chans |-> C, todo |-> C, cur |-> {},
        tok |-> [c \in Channels |-> IF c \in C THEN epoch[c] + 1 ELSE 0],
        gen |-> gen, failed |-> {}, ok |-> TRUE]]

\* _finish_off_operation by the owner, once its sequence has settled.
FinishOff(o) ==
  /\ op[o].pc = "settled"
  /\ offDepth' = [c \in Channels |->
       IF c \in op[o].chans /\ offDepth[c] > 0 THEN offDepth[c] - 1 ELSE offDepth[c]]
  /\ op' = [op EXCEPT ![o] = NoOp]

\* Where the sequence q stands once the command to its target c is over: OFF goes
\* to every target, then the challenge to every target, then the result is known.
Visited(q, c, failed, ok) ==
  LET left == q.todo \ {c} IN
  [pc |-> IF left # {} THEN q.pc ELSE IF q.pc = "write" THEN "read" ELSE "settled",
   chans |-> q.chans, todo |-> IF left = {} /\ q.pc = "write" THEN q.chans ELSE left, cur |-> {},
   tok |-> q.tok, gen |-> q.gen, failed |-> failed, ok |-> ok]

\* _invalidate_channel_off_evidence of the target, unless a later command owns it.
InvalidateIfOwned(o, c) ==
  IF op[o].tok[c] = epoch[c]
  THEN /\ regEpoch' = [regEpoch EXCEPT ![c] = 0]
       /\ proof' = [proof EXCEPT ![c] = NoProof]
       /\ obs' = [obs EXCEPT ![c] = NoObs]
       /\ unsafe' = TRUE
  ELSE UNCHANGED <<regEpoch, proof, obs, unsafe>>

\* Send the next command of the sequence to the transport.
OffIssue(o) ==
  /\ op[o].pc \in {"write", "read"} /\ op[o].cur = {}
  /\ op[o].pc = "write" \/ TransportAvailable
  /\ \E c \in op[o].todo : op' = [op EXCEPT ![o].cur = {c}, ![o].todo = @ \ {c}]
  /\ Enqueue(o)
  /\ UNCHANGED <<evidence, lifecycle, start, attempted, rd, life, reply, ioOwner, session, plant>>

\* DEFECT: the verification waits for a transport that is gone.
OffAwaitsTransport(o) ==
  /\ op[o].pc = "read" /\ op[o].cur = {} /\ TransportAvailable
  /\ \E c \in op[o].todo :
       /\ op' = [op EXCEPT ![o] = Visited(op[o], c, op[o].failed, FALSE)]
       /\ InvalidateIfOwned(o, c)
  /\ UNCHANGED <<epoch, startToken, offDepth, active, lifecycle, start, attempted, rd, life, wire, reply,
                 ioOwner, session, plant>>

\* _verify_output_off without a transport: False, and no query.
OffUnverifiable(o) ==
  /\ op[o].pc = "read" /\ op[o].cur = {} /\ ~TransportAvailable
  /\ \E c \in op[o].todo :
       /\ op' = [op EXCEPT ![o] = Visited(op[o], c, op[o].failed, FALSE)]
       /\ InvalidateIfOwned(o, c)
  /\ UNCHANGED <<epoch, startToken, offDepth, active, lifecycle, start, attempted, rd, life, wire, reply,
                 ioOwner, session, plant>>

\* An OFF write came back; one that raised demotes the connection.
OffWriteReply(o) ==
  /\ op[o].pc = "write" /\ reply[o] # "none"
  /\ reply' = [reply EXCEPT ![o] = "none"]
  /\ \E c \in op[o].cur :
       IF reply[o] = "raised"
       THEN /\ EnterRecovery
            /\ op' = [op EXCEPT ![o] = Visited(op[o], c, op[o].failed \cup {c}, op[o].ok)]
       ELSE /\ op' = [op EXCEPT ![o] = Visited(op[o], c, op[o].failed, op[o].ok)]
            /\ UNCHANGED <<connected, recovery, proof, obs, unsafe>>
  /\ UNCHANGED <<epoch, startToken, offDepth, regEpoch, active, gen, connecting, disconnecting, teardown,
                 start, attempted, rd, life, wire, ioOwner, session, plant>>

\* _mark_channel_off_verified accepts the readback only for the connection and
\* the command epoch it was taken for.
MarkAccepted(o, c) ==
  TransportAvailable /\ op[o].gen = gen /\ op[o].tok[c] = epoch[c]

MarkChannelOffVerified(c) ==
  /\ regEpoch' = [regEpoch EXCEPT ![c] = 0]
  /\ active' = [active EXCEPT ![c] = FALSE]
  /\ obs' = [obs EXCEPT ![c] = NoObs]
  /\ proof' = [proof EXCEPT ![c] = [gen |-> gen, epoch |-> epoch[c]]]

\* An OFF challenge came back: commit the proof, or count the target as
\* unconfirmed and drop what evidence the sequence still owns.
OffReadReply(o) ==
  /\ op[o].pc = "read" /\ reply[o] # "none"
  /\ reply' = [reply EXCEPT ![o] = "none"]
  /\ \E c \in op[o].cur :
       IF reply[o] = "off" /\ c \notin op[o].failed
       THEN /\ op' = [op EXCEPT ![o] = Visited(op[o], c, op[o].failed, op[o].ok /\ MarkAccepted(o, c))]
            /\ UNCHANGED <<epoch, startToken, offDepth, lifecycle>>
            /\ IF MarkAccepted(o, c)
               THEN MarkChannelOffVerified(c) /\ RefreshOutputUncertainty
               ELSE UNCHANGED <<regEpoch, active, obs, proof, unsafe>>
       ELSE /\ op' = [op EXCEPT ![o] = Visited(op[o], c, op[o].failed, FALSE)]
            /\ IF reply[o] = "raised" /\ connected
               THEN /\ EnterRecovery
                    /\ regEpoch' = IF op[o].tok[c] = epoch[c] THEN [regEpoch EXCEPT ![c] = 0] ELSE regEpoch
               ELSE InvalidateIfOwned(o, c) /\ UNCHANGED <<connected, recovery>>
            /\ UNCHANGED <<epoch, startToken, offDepth, active, gen, connecting, disconnecting, teardown>>
  /\ UNCHANGED <<start, attempted, rd, life, wire, ioOwner, session, plant>>

(***************************************************************************)
(* emergency_off and stop_source.                                          *)
(***************************************************************************)

OffBound(C) == \A c \in C : epoch[c] < MaxOffEpoch

\* emergency_off(channel) or emergency_off(): accepted on a live or a
\* recovery-only transport, whatever else is in flight.
EmergencyOff(o, C) ==
  /\ op[o].pc = "idle" /\ OffBound(C)
  /\ teardown = "no" /\ (connected \/ recovery)
  /\ BeginOff(o, C, FALSE)
  /\ UNCHANGED <<startToken, active, gen, connecting, disconnecting, teardown, start, attempted, rd, life,
                 wire, reply, ioOwner, session, plant>>

\* stop_source(channel): needs an operational connection.
StopSource(o, c) ==
  /\ op[o].pc = "idle" /\ OffBound({c})
  /\ Operational
  /\ BeginOff(o, {c}, FALSE)
  /\ UNCHANGED <<startToken, active, gen, connecting, disconnecting, teardown, start, attempted, rd, life,
                 wire, reply, ioOwner, session, plant>>

\* Either of them without a session: the state is unknown, and said to be.
OffUnavailable ==
  /\ teardown = "no" /\ ~connected /\ ~recovery
  /\ unsafe' = TRUE
  /\ UNCHANGED <<epoch, startToken, offDepth, regEpoch, proof, active, obs, lifecycle, start, attempted, op,
                 rd, life, wire, reply, ioOwner, session, plant>>

\* The caller resumes with the result op[o].ok.
OffReturn(o) ==
  /\ FinishOff(o)
  /\ UNCHANGED <<epoch, startToken, regEpoch, proof, active, obs, lifecycle, start, attempted, rd, life, wire,
                 reply, ioOwner, session, plant>>
  /\ RefreshOutputUncertainty

(***************************************************************************)
(* start_source.                                                           *)
(***************************************************************************)

\* _begin_start_operation: only from a current OFF proof, never beside an OFF.
StartBegin(c) ==
  /\ start[c] = "idle" /\ epoch[c] < MaxEpoch
  /\ Operational /\ ~active[c]
  /\ startToken[c] = 0 /\ offDepth[c] = 0 /\ HasCurrentOffProof(c)
  /\ epoch' = [epoch EXCEPT ![c] = @ + 1]
  /\ startToken' = [startToken EXCEPT ![c] = epoch[c] + 1]
  /\ regEpoch' = [regEpoch EXCEPT ![c] = 0]
  /\ proof' = [proof EXCEPT ![c] = NoProof] /\ obs' = [obs EXCEPT ![c] = NoObs]
  /\ unsafe' = TRUE
  /\ start' = [start EXCEPT ![c] = "configure"]
  /\ attempted' = [attempted EXCEPT ![c] = FALSE]
  /\ UNCHANGED <<offDepth, active, lifecycle, op, rd, life, wire, reply, ioOwner, session, plant>>

\* Any exception inside the start: it begins its own OFF of the channel.
StartFails(c, lost) ==
  /\ BeginOff(c, {c}, lost)
  /\ start' = [start EXCEPT ![c] = "cleanup"]
  /\ UNCHANGED <<startToken, active, attempted, gen, connecting, disconnecting, teardown>>

\* DEFECT: ownership is not checked again once the lock is obtained.
StartIssueUnchecked(c) ==
  /\ start[c] \in {"configure", "on", "readback"}
  /\ c \notin waiting /\ reply[c] = "none" /\ ioOwner = "none"
  /\ ioOwner' = c /\ Enqueue(c)
  /\ UNCHANGED <<evidence, lifecycle, start, attempted, op, rd, life, reply, session, plant>>

\* _operational_write / _operational_query: under the ordinary-I/O lock the
\* connection is checked again and, for a write, so is the start's ownership.
StartIssue(c) ==
  /\ start[c] \in {"configure", "on", "readback"}
  /\ c \notin waiting /\ reply[c] = "none" /\ ioOwner = "none"
  /\ IF Operational /\ (start[c] = "readback" \/ StartOperationIsCurrent(c, startToken[c]))
     THEN /\ ioOwner' = c /\ Enqueue(c)
          /\ UNCHANGED <<evidence, lifecycle, start, attempted, op>>
     ELSE StartFails(c, FALSE) /\ UNCHANGED <<ioOwner, wire>>
  /\ UNCHANGED <<rd, life, reply, session, plant>>

\* DEFECT: the lock is not released when the start fails.
StartReplyKeepsLock(c) ==
  /\ start[c] \in {"configure", "on", "readback"} /\ reply[c] = "raised"
  /\ reply' = [reply EXCEPT ![c] = "none"]
  /\ StartFails(c, TRUE)
  /\ UNCHANGED <<ioOwner, rd, life, wire, session, plant>>

\* A reply releases the lock; ownership is checked again before going on.  The
\* channel counts as active before OUTPUT_ON is even sent.
StartReply(c) ==
  /\ start[c] \in {"configure", "on", "readback"} /\ reply[c] # "none"
  /\ reply' = [reply EXCEPT ![c] = "none"] /\ ioOwner' = "none"
  /\ IF reply[c] = "raised" \/ ~StartOperationIsCurrent(c, startToken[c])
                            \/ (start[c] = "readback" /\ reply[c] # "on")
     THEN StartFails(c, reply[c] = "raised")
     ELSE /\ start' = [start EXCEPT ![c] = CASE @ = "configure" -> "on" [] @ = "on" -> "readback" [] OTHER -> "idle"]
          /\ active' = [active EXCEPT ![c] = TRUE]
          /\ attempted' = [attempted EXCEPT ![c] = TRUE]
          /\ IF start[c] = "readback"
             THEN /\ regEpoch' = [regEpoch EXCEPT ![c] = startToken[c]]
                  /\ startToken' = [startToken EXCEPT ![c] = 0]
             ELSE UNCHANGED <<regEpoch, startToken>>
          /\ UNCHANGED <<epoch, offDepth, proof, obs, lifecycle, op>>
          /\ IF start[c] = "readback" THEN RefreshOutputUncertainty ELSE UNCHANGED unsafe
  /\ UNCHANGED <<rd, life, wire, session, plant>>

\* The failed start's OFF has settled: without an exact proof the channel stays
\* marked active if OUTPUT_ON may have been sent.
StartCleanupDone(c) ==
  /\ start[c] = "cleanup" /\ FinishOff(c)
  /\ start' = [start EXCEPT ![c] = "idle"]
  /\ startToken' = [startToken EXCEPT ![c] = 0]
  /\ IF op[c].ok THEN UNCHANGED <<regEpoch, active>>
     ELSE /\ regEpoch' = [regEpoch EXCEPT ![c] = 0]
          /\ active' = [active EXCEPT ![c] = attempted[c]]
  /\ UNCHANGED <<epoch, proof, obs, lifecycle, attempted, rd, life, wire, reply, ioOwner, session, plant>>
  /\ RefreshOutputUncertainty

(***************************************************************************)
(* read_channels, one channel at a time.                                   *)
(***************************************************************************)

\* Idle channels are asked for their output state, active ones are measured;
\* generation and epoch are captured before the await.
ReadBegin(c) ==
  /\ c \in Polled /\ rd.pc = "idle" /\ Operational /\ epoch[c] < MaxEpoch
  /\ rd' = [pc |-> IF active[c] THEN "measure" ELSE "query", ch |-> c, gen |-> gen, epoch |-> epoch[c]]
  /\ UNCHANGED <<evidence, lifecycle, start, attempted, op, life, wire, reply, ioOwner, session, plant>>

\* A regulation write is authorised again under the lock, at the last moment.
ReadIssue ==
  /\ rd.pc # "idle" /\ "reader" \notin waiting /\ reply["reader"] = "none" /\ ioOwner = "none"
  /\ IF Operational /\ (rd.pc = "level" => RegulationIsCurrent(rd.ch, rd.gen, rd.epoch))
     THEN ioOwner' = "reader" /\ Enqueue("reader") /\ UNCHANGED rd
     ELSE rd' = [rd EXCEPT !.pc = "idle"] /\ UNCHANGED <<ioOwner, wire>>
  /\ UNCHANGED <<evidence, lifecycle, start, attempted, op, life, reply, session, plant>>

\* DEFECT: the observation is committed whatever happened since the query.
RecordStaleOutput(c, kind) ==
  /\ epoch' = [epoch EXCEPT ![c] = @ + 1]
  /\ regEpoch' = [regEpoch EXCEPT ![c] = 0]
  /\ proof' = [proof EXCEPT ![c] = NoProof]
  /\ obs' = [obs EXCEPT ![c] = [gen |-> gen, epoch |-> epoch[c] + 1, kind |-> kind]]
  /\ unsafe' = TRUE

\* _record_unsafe_output_observation: an ON or unreadable output of a channel
\* nobody commands is committed only if nothing changed since it was asked.
RecordUnsafeOutput(c, kind) ==
  IF /\ connected /\ ~connecting /\ ~disconnecting
     /\ rd.gen = gen /\ rd.epoch = epoch[c]
     /\ startToken[c] = 0 /\ offDepth[c] = 0 /\ ~active[c]
  THEN /\ epoch' = [epoch EXCEPT ![c] = @ + 1]
       /\ regEpoch' = [regEpoch EXCEPT ![c] = 0]
       /\ proof' = [proof EXCEPT ![c] = NoProof]
       /\ obs' = [obs EXCEPT ![c] = [gen |-> gen, epoch |-> epoch[c] + 1, kind |-> kind]]
       /\ unsafe' = TRUE
  ELSE UNCHANGED <<epoch, regEpoch, proof, obs, unsafe>>

ReadReply ==
  /\ rd.pc # "idle" /\ reply["reader"] # "none"
  /\ reply' = [reply EXCEPT !["reader"] = "none"] /\ ioOwner' = "none"
  /\ rd' = [rd EXCEPT !.pc =
       IF @ = "measure" /\ reply["reader"] = "ok" /\ RegulationIsCurrent(rd.ch, rd.gen, rd.epoch)
       THEN "level" ELSE "idle"]
  /\ IF reply["reader"] = "raised"
     THEN EnterRecovery /\ UNCHANGED <<epoch, regEpoch>>
     ELSE /\ UNCHANGED <<connected, recovery>>
          /\ IF rd.pc = "query" /\ reply["reader"] \in {"on", "bad"}
             THEN RecordUnsafeOutput(rd.ch, IF reply["reader"] = "on" THEN "output_on" ELSE "invalid_readback")
             ELSE UNCHANGED <<epoch, regEpoch, proof, obs, unsafe>>
  /\ UNCHANGED <<startToken, offDepth, active, gen, connecting, disconnecting, teardown, start, attempted, op,
                 life, wire, session, plant>>

(***************************************************************************)
(* connect and disconnect, called by one lifecycle owner.                  *)
(***************************************************************************)

RevokeOffEvidence ==
  /\ proof' = [c \in Channels |-> NoProof] /\ obs' = [c \in Channels |-> NoObs]
  /\ unsafe' = TRUE

\* connect() after an unsettled close first reconciles that close.
ConnectSettle ==
  /\ life = "idle" /\ teardown = "settleable" /\ gen < MaxGen
  /\ life' = "settling" /\ Enqueue("life")
  /\ UNCHANGED <<evidence, lifecycle, start, attempted, op, rd, reply, ioOwner, session, plant>>

ConnectSettled ==
  /\ life = "settling" /\ reply["life"] # "none"
  /\ reply' = [reply EXCEPT !["life"] = "none"] /\ life' = "idle"
  /\ IF reply["life"] = "ok"
     THEN /\ teardown' = "no" /\ recovery' = FALSE /\ connected' = FALSE
          /\ RevokeOffEvidence
     ELSE /\ teardown' \in {"settleable", "terminal"}
          /\ UNCHANGED <<connected, recovery, proof, obs, unsafe>>
  /\ UNCHANGED <<epoch, startToken, offDepth, regEpoch, active, gen, connecting, disconnecting, start,
                 attempted, op, rd, wire, ioOwner, session, plant>>

\* A new generation: every epoch moves on, so no older conclusion survives.
ConnectBegin ==
  /\ life = "idle" /\ gen < MaxGen
  /\ teardown = "no" /\ ~recovery /\ ~connected /\ ~connecting /\ ~disconnecting
  /\ \A c \in Channels : startToken[c] = 0 /\ offDepth[c] = 0
  /\ gen' = gen + 1 /\ connecting' = TRUE /\ life' = "opening"
  /\ epoch' = [c \in Channels |-> epoch[c] + 1]
  /\ startToken' = [c \in Channels |-> 0] /\ active' = [c \in Channels |-> FALSE]
  /\ RevokeOffEvidence
  /\ UNCHANGED <<offDepth, regEpoch, connected, recovery, disconnecting, teardown, start, attempted, op, rd,
                 wire, reply, ioOwner, session, plant>>

\* The session opens and identifies itself: both outputs are forced off.
ConnectOpened ==
  /\ life = "opening" /\ session = "closed"
  /\ session' = "open" /\ life' = "connect_off"
  /\ BeginOff("life", Channels, FALSE)
  /\ UNCHANGED <<startToken, active, gen, connecting, disconnecting, teardown, start, attempted, rd, wire,
                 reply, ioOwner, plant>>

\* _settle_failed_connect: the lifecycle barrier falls, then the session closes.
FailedConnectCloses ==
  /\ connected' = FALSE /\ recovery' = FALSE /\ connecting' = FALSE
  /\ RevokeOffEvidence
  /\ life' = "failed_close" /\ Enqueue("life")

\* Opening or identification failed: no OFF command may be sent to what answered.
ConnectOpenFailed ==
  /\ life = "opening"
  /\ session' \in IF session = "closed" THEN {"closed", "open", "desync", "dead"} ELSE {session}
  /\ FailedConnectCloses
  /\ UNCHANGED <<epoch, startToken, offDepth, regEpoch, active, gen, disconnecting, teardown, start, attempted,
                 op, rd, reply, ioOwner, plant>>

\* The exception path after identification: keep an unproved session for OFF
\* recovery, close a proved one.
ConnectRaises ==
  IF \A c \in Channels : HasCurrentOffProof(c)
  THEN FailedConnectCloses
  ELSE /\ connected' = FALSE /\ recovery' = TRUE /\ connecting' = FALSE
       /\ unsafe' = TRUE /\ life' = "idle"
       /\ UNCHANGED <<proof, obs, wire>>

\* The forced OFF has settled.
ConnectOffDone ==
  /\ life = "connect_off" /\ FinishOff("life")
  /\ UNCHANGED <<epoch, startToken, regEpoch, proof, active, obs, gen, disconnecting, teardown, start, attempted,
                 rd, wire, reply, ioOwner, session, plant>>
  /\ IF op["life"].ok
     THEN /\ life' = "connect_tail"
          /\ UNCHANGED <<connected, recovery, connecting>>
          /\ RefreshOutputUncertainty
     ELSE /\ connected' = FALSE /\ recovery' = TRUE /\ connecting' = FALSE
          /\ unsafe' = TRUE /\ life' = "idle"

\* Error queue cleared, watchdog armed, serial accepted: connected ...
ConnectSucceeds ==
  /\ life = "connect_tail"
  /\ connected' = TRUE /\ recovery' = FALSE /\ connecting' = FALSE /\ life' = "idle"
  /\ UNCHANGED <<evidence, gen, disconnecting, teardown, start, attempted, op, rd, wire, reply, ioOwner,
                 session, plant>>

\* ... or one of them failed.
ConnectTailFailed ==
  /\ life = "connect_tail"
  /\ ConnectRaises
  /\ session' \in {session, "desync", "dead"}
  /\ UNCHANGED <<epoch, startToken, offDepth, regEpoch, active, gen, disconnecting, teardown, start, attempted,
                 op, rd, reply, ioOwner, plant>>

FailedConnectClosed ==
  /\ life = "failed_close" /\ reply["life"] # "none"
  /\ reply' = [reply EXCEPT !["life"] = "none"] /\ life' = "idle"
  /\ IF reply["life"] = "ok" THEN UNCHANGED teardown ELSE teardown' \in {"settleable", "terminal"}
  /\ connected' = FALSE /\ recovery' = FALSE /\ connecting' = FALSE
  /\ RevokeOffEvidence
  /\ UNCHANGED <<epoch, startToken, offDepth, regEpoch, active, gen, disconnecting, start, attempted, op, rd,
                 wire, ioOwner, session, plant>>

\* DEFECT: a recovery-only session is closed without an OFF proof.
DisconnectBeginUnproved ==
  /\ life = "idle" /\ teardown = "no" /\ ~connecting /\ ~disconnecting
  /\ connected \/ recovery
  /\ disconnecting' = TRUE
  /\ life' = "closing" /\ Enqueue("life")
  /\ UNCHANGED <<evidence, gen, connected, recovery, connecting, teardown, start, attempted, op, rd, reply, ioOwner,
                 session, plant>>

\* disconnect(): a close needs a current OFF proof of both channels, taken now
\* if the connection is live; a recovery-only session must already have it.
DisconnectBegin ==
  /\ life = "idle" /\ teardown = "no" /\ ~connecting /\ ~disconnecting
  /\ connected \/ recovery
  /\ disconnecting' = TRUE
  /\ \/ /\ \A c \in Channels : HasCurrentOffProof(c)
        /\ life' = "closing" /\ Enqueue("life")
        /\ UNCHANGED <<epoch, offDepth, regEpoch, proof, obs, unsafe, connected, recovery, op>>
     \/ /\ ~ \A c \in Channels : HasCurrentOffProof(c)
        /\ ~recovery /\ OffBound(Channels)
        /\ life' = "disconnect_off"
        /\ BeginOff("life", Channels, FALSE) /\ UNCHANGED wire
  /\ UNCHANGED <<startToken, active, gen, connecting, teardown, start, attempted, rd, reply, ioOwner, session,
                 plant>>

DisconnectOffDone ==
  /\ life = "disconnect_off" /\ FinishOff("life")
  /\ UNCHANGED <<epoch, startToken, regEpoch, proof, active, obs, gen, connected, recovery, connecting, teardown,
                 start, attempted, rd, reply, ioOwner, session, plant>>
  /\ IF op["life"].ok
     THEN /\ life' = "closing" /\ Enqueue("life") /\ UNCHANGED disconnecting
          /\ RefreshOutputUncertainty
     ELSE /\ life' = "idle" /\ disconnecting' = FALSE /\ UNCHANGED wire
          /\ unsafe' = TRUE

Disconnected ==
  /\ life = "closing" /\ reply["life"] # "none"
  /\ reply' = [reply EXCEPT !["life"] = "none"] /\ life' = "idle"
  /\ connected' = FALSE /\ disconnecting' = FALSE
  /\ RevokeOffEvidence
  /\ IF reply["life"] = "ok"
     THEN recovery' = FALSE /\ UNCHANGED teardown
     ELSE recovery' = TRUE /\ teardown' \in {"settleable", "terminal"}
  /\ UNCHANGED <<epoch, startToken, offDepth, regEpoch, active, gen, connecting, start, attempted, op, rd, wire,
                 ioOwner, session, plant>>

Execute ==
  \/ \E c \in Channels : ExecConfigure(c) \/ ExecOn(c) \/ ExecStartReadback(c)
  \/ ExecPollQuery \/ ExecLevel
  \/ \E o \in OffOwners : ExecOff(o) \/ ExecOffChallenge(o)
  \/ ExecClose

\* One step of an OFF sequence on the driver's side.
OffStep(o) == OffIssue(o) \/ OffUnverifiable(o) \/ OffWriteReply(o) \/ OffReadReply(o)

Next ==
  \/ Execute
  \/ \E c \in Channels : FrontPanelOn(c)
  \/ \E o \in OffOwners : OffStep(o)
  \/ \E o \in Callers :
       \/ OffReturn(o)
       \/ EmergencyOff(o, Channels)
       \/ \E c \in Channels : EmergencyOff(o, {c}) \/ StopSource(o, c)
  \/ OffUnavailable
  \/ \E c \in Channels :
       StartBegin(c) \/ StartIssue(c) \/ StartReply(c) \/ StartCleanupDone(c) \/ ReadBegin(c)
  \/ ReadIssue \/ ReadReply
  \/ ConnectSettle \/ ConnectSettled \/ ConnectBegin \/ ConnectOpened \/ ConnectOpenFailed
  \/ ConnectOffDone \/ ConnectSucceeds \/ ConnectTailFailed \/ FailedConnectClosed
  \/ DisconnectBegin \/ DisconnectOffDone \/ Disconnected

\* Every transport command is bounded by a timeout and returns or raises, and
\* the event loop resumes every coroutine whose await is over.  The ordinary-I/O
\* lock is an asyncio.Lock, served in order of arrival: polls that come and go
\* cannot overtake a start for ever, hence strong fairness of StartIssue.
Fairness ==
  /\ WF_vars(Execute)
  /\ \A o \in OffOwners : WF_vars(OffStep(o))
  /\ \A o \in Callers : WF_vars(OffReturn(o))
  /\ \A c \in Channels : SF_vars(StartIssue(c)) /\ WF_vars(StartReply(c)) /\ WF_vars(StartCleanupDone(c))
  /\ WF_vars(ReadIssue) /\ WF_vars(ReadReply)
  /\ WF_vars(ConnectSettled \/ ConnectOffDone \/ FailedConnectClosed \/ DisconnectOffDone \/ Disconnected)

Spec == Init /\ [][Next]_vars

FairSpec == Spec /\ Fairness

(***************************************************************************)
(* Properties.                                                             *)
(***************************************************************************)

\* The OFF evidence is honest: whatever starts, failures, OFF callers and
\* reconnects interleave, a channel with a current OFF readback is really off,
\* unless its output was switched on at the front panel since.
OffEvidenceHonest ==
  \A c \in Channels : HasCurrentOffReadback(c) => ~outputOn[c] \/ c \in tampered

\* emergency_off / stop_source report OFF only for outputs that are off and that
\* no superseded start can still switch on behind the report.
ReportedOffIsOff ==
  \A o \in OffOwners :
    op[o].pc = "settled" /\ op[o].ok =>
      \A c \in op[o].chans : (~outputOn[c] \/ c \in tampered) /\ ~(c \in waiting /\ start[c] = "on")

\* The negative cache is exact on its safe side: when output_state_unverified is
\* False on an open session, every output is off (front panel aside).
VerifiedMeansOff ==
  (connected \/ recovery) /\ ~unsafe =>
    \A c \in Channels : HasCurrentOffProof(c) /\ (~outputOn[c] \/ c \in tampered)

\* A managed output is never forgotten: while connected, an output that is on is
\* marked active, is being switched, or was switched on at the front panel.
LiveOutputIsTracked ==
  connected => \A c \in Channels :
    outputOn[c] => active[c] \/ startToken[c] # 0 \/ offDepth[c] # 0 \/ c \in tampered

\* An unsafe observation other components act upon is not stale: the output was
\* on when asked and nothing has switched it off since.
ObservationNotStale ==
  \A c \in Channels : ObservationIsCurrent(c) /\ obs[c].kind = "output_on" => outputOn[c]

\* What the driver says of its outputs covers every live one and nothing else:
\* none is forgotten, and none is reported from an old answer.
OutputsAccountedFor == LiveOutputIsTracked /\ ObservationNotStale

\* OUTPUT_ON always acts at level zero: no regulation write of an earlier epoch
\* slips in between the configuration of a start and its OUTPUT_ON.
OnAtZeroLevel ==
  [][\A c \in Channels : ~outputOn[c] /\ outputOn'[c] /\ c \notin tampered' => level'[c] = "zero"]_vars

\* The session of an authorised instrument is closed only over outputs that are off.
ClosedOnlyWhenOff ==
  [][session # "closed" /\ session' = "closed" /\ life = "closing" =>
       \A c \in Channels : ~outputOn[c] \/ c \in tampered]_vars

\* No write or close that lost its authority while it waited for the wire acts
\* on the instrument.
WireAuthorised == OnAtZeroLevel /\ ClosedOnlyWhenOff

\* An OFF request is never left hanging, whatever fails or closes meanwhile: it
\* returns with a verdict.
OffSettles == \A o \in Callers : (op[o].pc # "idle") ~> (op[o].pc = "idle")

\* A start that was begun ends, as started or as cleaned up.
StartSettles == \A c \in Channels : (start[c] # "idle") ~> (start[c] = "idle")

\* Whatever fails or closes meanwhile, no OFF and no start is left hanging.
CallsSettle == OffSettles /\ StartSettles
=============================================================================

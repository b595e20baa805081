--------------------------- MODULE SourceContract ---------------------------
(***************************************************************************)
(* What the safety layer may assume of the source driver: the two calls it *)
(* makes, start_source and emergency_off / stop_source, each begun and     *)
(* returning in separate steps so that calls overlap.                      *)
(*                                                                         *)
(* An OFF call takes its channels over from every call already in flight   *)
(* on them: a start it supersedes can only fail, an earlier OFF it         *)
(* supersedes can only return "unknown".  KeithleySource models the driver *)
(* behind this contract, command by command.                               *)
(***************************************************************************)
EXTENDS FiniteSets

CONSTANTS Channels,   \* the SMU channels
          Owners      \* whoever may have a driver call in flight

VARIABLES
  out,        \* channels whose physical output is on
  proved,     \* channels with a current OFF proof in the driver
  running,    \* the driver's active_channels
  call        \* the call each owner has in flight

drv == <<out, proved, running, call>>

NoCall == [kind |-> "none", chans |-> {}, stale |-> FALSE]

ContractTypeOK ==
  /\ out \subseteq Channels /\ proved \subseteq Channels /\ running \subseteq Channels
  /\ call \in [Owners -> [kind : {"none", "off", "start", "refused"},
                          chans : SUBSET Channels, stale : BOOLEAN]]

ContractInit ==
  /\ out = {} /\ proved = Channels /\ running = {}
  /\ call = [o \in Owners |-> NoCall]

\* Channels with a call in flight.
Busy == {c \in Channels : \E o \in Owners : c \in call[o].chans}

\* Channels an OFF call is working on.
BeingSwitchedOff == {c \in Channels : \E o \in Owners : call[o].kind = "off" /\ c \in call[o].chans}

\* Channels of starts that nothing has superseded yet.
Starting == {c \in Channels : \E o \in Owners : call[o].kind = "start" /\ ~call[o].stale /\ c \in call[o].chans}

\* emergency_off(C) or stop_source: supersedes what is in flight on C.  The
\* OUTPUT_ON of a superseded start may still land, ahead of the OFF.
BeginOffCall(o, C) ==
  /\ call' = [u \in Owners |->
       IF u = o THEN [kind |-> "off", chans |-> C, stale |-> FALSE]
       ELSE IF call[u].chans \cap C # {} THEN [call[u] EXCEPT !.stale = TRUE] ELSE call[u]]
  /\ proved' = proved \ C
  /\ \E late \in SUBSET (Starting \cap C) : out' = out \cup late
  /\ UNCHANGED running

\* start_source(c): refused outright without an OFF proof, on an active channel,
\* or beside any other call on the channel.
BeginStartCall(o, c) ==
  /\ IF c \in proved /\ c \notin running /\ c \notin Busy
     THEN /\ call' = [call EXCEPT ![o] = [kind |-> "start", chans |-> {c}, stale |-> FALSE]]
          /\ proved' = proved \ {c}
     ELSE /\ call' = [call EXCEPT ![o] = [kind |-> "refused", chans |-> {}, stale |-> TRUE]]
          /\ UNCHANGED proved
  /\ UNCHANGED <<out, running>>

\* What is left of the channels C when a call ends without success: `on` stays
\* on, `gained` was proved off all the same, `held` counts as active.  A lost
\* transport voids every proof.
LeftUnsettled(C, mayBeOn, mayBeHeld) ==
  \E on \in SUBSET (C \cap mayBeOn) : \E gained \in SUBSET (C \ on) :
    /\ out' = (out \ C) \cup on
    /\ proved' \in {proved \cup gained, {}}
    /\ \E held \in SUBSET (mayBeHeld \ gained) : running' = (running \ gained) \cup held

\* An OFF call returns: confirmed by readback, unless superseded, or unknown.
OffReturns(o, confirmed) ==
  /\ call[o].kind = "off"
  /\ confirmed => ~call[o].stale
  /\ call' = [call EXCEPT ![o] = NoCall]
  /\ IF confirmed
     THEN /\ out' = out \ call[o].chans
          /\ proved' = proved \cup call[o].chans
          /\ running' = running \ call[o].chans
     ELSE LeftUnsettled(call[o].chans, out, {})

\* A start returns: on and acknowledged, or failed after its own OFF cleanup,
\* which may itself be confirmed or not.  A superseded start switches nothing on
\* any more.
StartReturns(o, ok) ==
  /\ call[o].kind \in {"start", "refused"}
  /\ ok => call[o].kind = "start" /\ ~call[o].stale
  /\ call' = [call EXCEPT ![o] = NoCall]
  /\ IF ok
     THEN out' = out \cup call[o].chans /\ running' = running \cup call[o].chans /\ UNCHANGED proved
     ELSE LeftUnsettled(call[o].chans, IF call[o].stale THEN out ELSE Channels, call[o].chans)

\* A transport loss or an unusable readback, seen by the poll, voids the proofs.
ProofsLost ==
  /\ proved # {} /\ proved' = {}
  /\ UNCHANGED <<out, running, call>>

\* What the contract guarantees in every state: a proof excludes a live output
\* and a start still to come, and a start that nothing has superseded has its
\* channel to itself.
ContractInv ==
  /\ ContractTypeOK
  /\ \A o \in Owners : call[o].kind \in {"none", "refused"} => call[o].chans = {}
  /\ proved \cap (out \cup Starting) = {}
  /\ \A o, u \in Owners :
       call[u].kind = "start" /\ ~call[u].stale /\ o # u =>
         call[o].chans \cap call[u].chans = {}
=============================================================================

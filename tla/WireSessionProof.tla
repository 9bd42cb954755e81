---------------------------- MODULE WireSessionProof ----------------------------
(***************************************************************************)
(* WireSession, for any number of connections, turns, requests and tools:  *)
(* its types, and its safety.  A parked turn can be answered, an external  *)
(* tool can be serviced, the token in the slot is of a live turn, a client *)
(* is deaf only while its replay walks, no request reaches a client twice  *)
(* by way of its snapshot and its staging, a prompt is answered once and   *)
(* to the client that typed it, and a client that caught up can answer     *)
(* whatever its catch-up did not file as history.                          *)
(***************************************************************************)
EXTENDS WireSessionProps, FiniteSetTheorems, TLAPS

(* The operations of the fan-out keep its types. *)

LEMMA FanoutSame == FanoutTypeOK /\ UNCHANGED routeVars => FanoutTypeOK'
  BY DEF FanoutTypeOK, routeVars

LEMMA AttachType ==
  ASSUME FanoutTypeOK, NEW c \in Conns, Attach(c) PROVE FanoutTypeOK'
  BY DEF FanoutTypeOK, Attach

LEMMA DropType ==
  ASSUME FanoutTypeOK, NEW cs \in SUBSET Conns, Drop(cs)
  PROVE  /\ attached' \in SUBSET Conns /\ staging' \in SUBSET Conns
         /\ staged' \in [Conns -> Seq(Message)]
  BY DEF FanoutTypeOK, Drop

LEMMA DetachType ==
  ASSUME FanoutTypeOK, NEW c \in Conns, Detach(c) PROVE FanoutTypeOK'
<1>1. Drop({c}) /\ queue' = queue /\ open' \in SUBSET Conns
  BY DEF FanoutTypeOK, Detach
<1>2. QED
  BY <1>1, DropType DEF FanoutTypeOK

LEMMA BroadcastType ==
  ASSUME FanoutTypeOK, NEW m \in Message, Broadcast(m) PROVE FanoutTypeOK'
<1>1. queue' \in [Conns -> Seq(Message)] /\ staged' \in [Conns -> Seq(Message)]
  BY DEF FanoutTypeOK, Broadcast
<1>2. QED
  BY <1>1 DEF FanoutTypeOK, Broadcast

LEMMA SendToType ==
  ASSUME FanoutTypeOK, NEW c, NEW m \in Message, SendTo(c, m) PROVE FanoutTypeOK'
<1>1. queue' \in [Conns -> Seq(Message)] /\ open' = open
  BY DEF FanoutTypeOK, SendTo
<1>2. CASE c \in attached \ open
  BY <1>1, <1>2, DropType DEF FanoutTypeOK, SendTo
<1>3. CASE c \notin attached \ open
  BY <1>1, <1>3 DEF FanoutTypeOK, SendTo
<1>4. QED
  BY <1>2, <1>3

LEMMA BeginCatchUpType ==
  ASSUME FanoutTypeOK, NEW c \in Conns, BeginCatchUp(c) PROVE FanoutTypeOK'
<1>1. <<>> \in Seq(Message)
  OBVIOUS
<1>2. staged' \in [Conns -> Seq(Message)] /\ staging' \in SUBSET Conns
  BY <1>1 DEF FanoutTypeOK, BeginCatchUp
<1>3. QED
  BY <1>2 DEF FanoutTypeOK, BeginCatchUp

LEMMA EndCatchUpType ==
  ASSUME FanoutTypeOK, NEW c \in Conns, EndCatchUp(c) PROVE FanoutTypeOK'
<1>1. queue' \in [Conns -> Seq(Message)]
  BY DEF FanoutTypeOK, EndCatchUp
<1>2. staged' \in [Conns -> Seq(Message)]
  BY DEF FanoutTypeOK, EndCatchUp
<1>3. QED
  BY <1>1, <1>2 DEF FanoutTypeOK, EndCatchUp

LEMMA ShutdownType == ASSUME FanoutTypeOK, Shutdown PROVE FanoutTypeOK'
<1>1. Drop(attached) /\ queue' = queue /\ open' \in SUBSET Conns /\ attached \in SUBSET Conns
  BY DEF FanoutTypeOK, Shutdown
<1>2. QED
  BY <1>1, DropType DEF FanoutTypeOK

LEMMA TakeType ==
  ASSUME FanoutTypeOK, NEW c \in Conns, Take(c)
  PROVE  FanoutTypeOK' /\ Head(queue[c]) \in Message
<1>1. queue[c] \in Seq(Message) /\ queue[c] # <<>>
  BY DEF FanoutTypeOK, Take
<1>2. Head(queue[c]) \in Message /\ Tail(queue[c]) \in Seq(Message)
  BY <1>1
<1>3. QED
  BY <1>2 DEF FanoutTypeOK, Take

---------------------------------------------------------------------------------
(* Types, one lemma per group of actions.                                         *)

LEMMA Messages ==
  /\ Record \subseteq Message
  /\ \A k \in {"Initialized", "Replayed", "ReplayedRunning", "Prompted"} : Say(k) \in Message
  /\ \A k \in {"initialize", "replay", "prompt", "cancel", "shutdown", "eof"} : Say(k) \in Call
  /\ \A r \in Requests : /\ Msg("Request", r) \in Record
                         /\ Msg("ApprovalResponse", r) \in Record
                         /\ Msg("answer", r) \in Call
  /\ \A t \in Turns : Msg("TurnBegin", t) \in Record /\ Msg("TurnEnd", t) \in Record
  BY DEF Message, Record, Response, Call, Msg, Say

LEMMA Kinds ==
  ASSUME NEW m \in Message
  PROVE  /\ m.kind \in {"Request", "ApprovalResponse"} => m.of \in Requests
         /\ m.kind = "Request" => m = Msg("Request", m.of)
  BY DEF Message, Record, Response, Msg

LEMMA CallKinds ==
  ASSUME NEW m \in Call, m.kind = "answer" PROVE m.of \in Requests /\ m = Msg("answer", m.of)
  BY DEF Call, Msg

LEMMA Unchanged ==
  /\ CoreTypeOK /\ UNCHANGED coreVars => CoreTypeOK'
  /\ ConnTypeOK /\ UNCHANGED connVars => ConnTypeOK'
  /\ TurnTypeOK /\ UNCHANGED turnVars => TurnTypeOK'
  /\ RecordTypeOK /\ UNCHANGED recordVars => RecordTypeOK'
  /\ ClientTypeOK /\ UNCHANGED clientVars => ClientTypeOK'
  BY DEF CoreTypeOK, coreVars, ConnTypeOK, connVars, TurnTypeOK, turnVars, RecordTypeOK,
         recordVars, ClientTypeOK, clientVars

LEMMA TypeClient == ASSUME TypeOK, NEW c \in Conns, Client(c) PROVE TypeOK'
<1> USE DEF TypeOK
<1>s. ASSUME NEW call \in Call, Send(c, call) PROVE uplink' \in [Conns -> Seq(Call)]
  BY <1>s DEF ClientTypeOK, Send
<1>e. NoDialogs \in [Requests -> Nat]
  BY DEF NoDialogs
<1>1. CASE Connect(c)
  <2>1. FanoutTypeOK'
    BY <1>1, AttachType DEF Connect
  <2>2. CoreTypeOK' /\ TurnTypeOK' /\ RecordTypeOK'
    BY <1>1, Unchanged DEF Connect
  <2>3. ConnTypeOK'
    BY <1>1 DEF Connect, ConnTypeOK
  <2>4. uplink' \in [Conns -> Seq(Call)]
    BY <1>1, <1>s, Messages DEF Connect
  <2>5. QED
    BY <1>1, <2>1, <2>2, <2>3, <2>4 DEF Connect, ClientTypeOK
<1>2. CASE Submit(c)
  <2>1. FanoutTypeOK' /\ CoreTypeOK' /\ ConnTypeOK' /\ TurnTypeOK' /\ RecordTypeOK'
    BY <1>2, FanoutSame, Unchanged DEF Submit, Idle
  <2>2. uplink' \in [Conns -> Seq(Call)]
    BY <1>2, <1>s, Messages DEF Submit
  <2>3. QED
    BY <1>2, <2>1, <2>2 DEF Submit, ClientTypeOK
<1>3. CASE Cancel(c)
  <2>1. FanoutTypeOK' /\ CoreTypeOK' /\ ConnTypeOK' /\ TurnTypeOK' /\ RecordTypeOK'
    BY <1>3, FanoutSame, Unchanged DEF Cancel, Idle
  <2>2. uplink' \in [Conns -> Seq(Call)]
    BY <1>3, <1>s, Messages DEF Cancel
  <2>3. QED
    BY <1>3, <2>1, <2>2 DEF Cancel, ClientTypeOK
<1>4. CASE Resolve(c)
  <2>1. FanoutTypeOK' /\ CoreTypeOK' /\ ConnTypeOK' /\ TurnTypeOK' /\ RecordTypeOK'
    BY <1>4, FanoutSame, Unchanged DEF Resolve, Idle
  <2>2. PICK r \in Requests :
          /\ approvals[c][r] > 0
          /\ approvals' = [approvals EXCEPT ![c][r] = @ - 1]
          /\ Send(c, Msg("answer", r))
    BY <1>4 DEF Resolve
  <2>3. uplink' \in [Conns -> Seq(Call)]
    BY <1>s, <2>2, Messages
  <2>4. approvals' \in [Conns -> [Requests -> Nat]]
    BY <2>2 DEF ClientTypeOK
  <2>5. QED
    BY <1>4, <2>1, <2>3, <2>4 DEF Resolve, ClientTypeOK
<1>5. CASE AskToStop(c)
  <2>1. FanoutTypeOK' /\ CoreTypeOK' /\ ConnTypeOK' /\ TurnTypeOK' /\ RecordTypeOK'
    BY <1>5, FanoutSame, Unchanged DEF AskToStop, Idle
  <2>2. uplink' \in [Conns -> Seq(Call)]
    BY <1>5, <1>s, Messages DEF AskToStop
  <2>3. QED
    BY <1>5, <2>1, <2>2 DEF AskToStop, ClientTypeOK
<1>6. CASE HangUp(c)
  <2>1. FanoutTypeOK' /\ CoreTypeOK' /\ ConnTypeOK' /\ TurnTypeOK' /\ RecordTypeOK'
    BY <1>6, FanoutSame, Unchanged DEF HangUp, Idle
  <2>2. uplink' \in [Conns -> Seq(Call)]
    BY <1>6, <1>s, Messages DEF HangUp
  <2>3. QED
    BY <1>6, <1>e, <2>1, <2>2 DEF HangUp, ClientTypeOK
<1>7. CASE Lose(c)
  BY <1>7, TakeType, Unchanged DEF Lose, Idle
<1>8. CASE ConnectionEnded(c)
  <2>1. FanoutTypeOK' /\ CoreTypeOK' /\ ConnTypeOK' /\ TurnTypeOK' /\ RecordTypeOK'
    BY <1>8, FanoutSame, Unchanged DEF ConnectionEnded, Idle
  <2>2. QED
    BY <1>8, <1>e, <2>1 DEF ConnectionEnded, ClientTypeOK
<1>9. CASE Receive(c)
  <2>1. FanoutTypeOK' /\ Head(queue[c]) \in Message
    BY <1>9, TakeType DEF Receive
  <2>2. CoreTypeOK' /\ ConnTypeOK' /\ TurnTypeOK' /\ RecordTypeOK'
    BY <1>9, Unchanged DEF Receive, Idle
  <2> DEFINE m == Head(queue[c])
  <2> HIDE DEF m
  <2>3. ClientTypeOK'
    <3>1. CASE TakeEvent(c, m)
      <4>1. approvals' \in [Conns -> [Requests -> Nat]]
        BY <2>1, <3>1, Kinds DEF TakeEvent, ClientTypeOK, m
      <4>2. QED
        BY <3>1, <4>1 DEF TakeEvent, ClientTypeOK
    <3>2. CASE m.kind = "Request" /\ TakeRequest(c, m.of)
      <4>1. m.of \in Requests
        BY <2>1, <3>2, Kinds DEF m
      <4>2. approvals' \in [Conns -> [Requests -> Nat]]
        BY <3>2, <4>1 DEF TakeRequest, ClientTypeOK
      <4>3. uplink' \in [Conns -> Seq(Call)]
        BY <1>s, <3>2, <4>1, Messages DEF TakeRequest, ClientTypeOK
      <4>4. QED
        BY <3>2, <4>2, <4>3 DEF TakeRequest, ClientTypeOK
    <3>3. CASE TakeResponse(c, m.kind)
      <4>1. uplink' \in [Conns -> Seq(Call)]
        BY <1>s, <3>3, Messages DEF TakeResponse, ClientTypeOK
      <4>2. phase' \in [Conns -> {"Absent", "Initializing", "Replaying", "Ready",
                                  "Running", "Detached", "Left"}]
        BY <3>3 DEF TakeResponse, ClientTypeOK
      <4>3. QED
        BY <3>3, <4>1, <4>2 DEF TakeResponse, ClientTypeOK
    <3>4. QED
      BY <1>9, <3>1, <3>2, <3>3 DEF Receive, m
  <2>4. QED
    BY <2>1, <2>2, <2>3
<1>10. QED
  BY <1>1, <1>2, <1>3, <1>4, <1>5, <1>6, <1>7, <1>8, <1>9 DEF Client

LEMMA TypeHandler == ASSUME TypeOK, NEW c \in Conns, Handler(c) PROVE TypeOK'
<1> USE DEF TypeOK
<1>r. ASSUME NEW kind, Reads(c, kind)
      PROVE  ClientTypeOK' /\ (kind = "answer" => Head(uplink[c]).of \in Requests)
  <2>1. uplink[c] \in Seq(Call) /\ uplink[c] # <<>> /\ Head(uplink[c]).kind = kind
    BY <1>r DEF Reads, ClientTypeOK
  <2>2. Head(uplink[c]) \in Call /\ Tail(uplink[c]) \in Seq(Call)
    BY <2>1
  <2>3. ClientTypeOK'
    BY <1>r, <2>2 DEF Reads, ClientTypeOK
  <2>4. QED
    BY <2>1, <2>2, <2>3, CallKinds
<1>1. CASE HandleInitialize(c)
  <2>1. FanoutTypeOK'
    BY <1>1, SendToType, Messages DEF HandleInitialize
  <2>2. TurnTypeOK' /\ RecordTypeOK' /\ ClientTypeOK'
    BY <1>1, <1>r, Unchanged DEF HandleInitialize
  <2>3. CoreTypeOK'
    BY <1>1 DEF HandleInitialize, CoreTypeOK, Granted
  <2>4. QED
    BY <1>1, <2>1, <2>2, <2>3 DEF HandleInitialize, ConnTypeOK
<1>2. CASE HandlePrompt(c)
  <2>1. FanoutTypeOK'
    BY <1>2, SendToType, FanoutSame, Messages
       DEF HandlePrompt, RefusePrompt, AdmitPrompt
  <2>2. CoreTypeOK' /\ TurnTypeOK' /\ RecordTypeOK' /\ ClientTypeOK'
    BY <1>2, <1>r, Unchanged DEF HandlePrompt
  <2>3. QED
    BY <1>2, <2>1, <2>2 DEF HandlePrompt, RefusePrompt, AdmitPrompt, ConnTypeOK
<1>3. CASE StartTurn(c)
  <2>1. FanoutTypeOK' /\ RecordTypeOK' /\ ClientTypeOK'
    BY <1>3, FanoutSame, Unchanged DEF StartTurn
  <2>2. CoreTypeOK'
    BY <1>3 DEF StartTurn, CoreTypeOK
  <2>3. TurnTypeOK'
    BY <1>3 DEF StartTurn, TurnTypeOK
  <2>4. QED
    BY <1>3, <2>1, <2>2, <2>3 DEF StartTurn, ConnTypeOK
<1>4. CASE HandleReplay(c)
  <2>1. FanoutTypeOK' /\ CoreTypeOK' /\ TurnTypeOK' /\ RecordTypeOK' /\ ClientTypeOK'
    BY <1>4, <1>r, FanoutSame, Unchanged DEF HandleReplay
  <2>2. [NoReplay EXCEPT !.at = "begin"] \in Replay
    <3>1. NoReplay \in Replay
      BY DEF NoReplay, Replay, Stages
    <3>2. QED
      BY <3>1 DEF Replay, Stages
  <2>3. QED
    BY <1>4, <2>1, <2>2 DEF HandleReplay, ConnTypeOK
<1>5. CASE HandleCancel(c)
  <2>1. FanoutTypeOK' /\ TurnTypeOK' /\ RecordTypeOK' /\ ClientTypeOK'
    BY <1>5, <1>r, FanoutSame, Unchanged DEF HandleCancel
  <2>2. CoreTypeOK'
    BY <1>5 DEF HandleCancel, CoreTypeOK
  <2>3. QED
    BY <1>5, <2>1, <2>2 DEF HandleCancel, ConnTypeOK
<1>6. CASE HandleShutdown(c)
  <2>1. FanoutTypeOK' /\ ConnTypeOK' /\ TurnTypeOK' /\ RecordTypeOK' /\ ClientTypeOK'
    BY <1>6, <1>r, FanoutSame, Unchanged DEF HandleShutdown
  <2>2. QED
    BY <1>6, <2>1 DEF HandleShutdown, CoreTypeOK
<1>7. CASE HandleResponse(c)
  <2>1. FanoutTypeOK' /\ ConnTypeOK' /\ TurnTypeOK' /\ ClientTypeOK'
    BY <1>7, <1>r, FanoutSame, Unchanged DEF HandleResponse
  <2>2. CoreTypeOK'
    BY <1>7 DEF HandleResponse, CoreTypeOK
  <2>3. RecordTypeOK'
    BY <1>7 DEF HandleResponse, RecordTypeOK, Resolved
  <2>4. QED
    BY <2>1, <2>2, <2>3
<1>8. CASE StopReading(c)
  <2>1. FanoutTypeOK' /\ CoreTypeOK' /\ TurnTypeOK' /\ RecordTypeOK' /\ ClientTypeOK'
    BY <1>8, <1>r, FanoutSame, Unchanged DEF StopReading
  <2>2. QED
    BY <1>8, <2>1 DEF StopReading, ConnTypeOK
<1>9. CASE AwaitReplay(c)
  <2>1. FanoutTypeOK' /\ CoreTypeOK' /\ TurnTypeOK' /\ RecordTypeOK' /\ ClientTypeOK'
    BY <1>9, FanoutSame, Unchanged DEF AwaitReplay
  <2>2. QED
    BY <1>9, <2>1 DEF AwaitReplay, ConnTypeOK
<1>10. CASE ReleaseExternalTools(c)
  <2>1. FanoutTypeOK' /\ TurnTypeOK' /\ RecordTypeOK' /\ ClientTypeOK'
    BY <1>10, FanoutSame, Unchanged DEF ReleaseExternalTools
  <2>2. CoreTypeOK'
    BY <1>10 DEF ReleaseExternalTools, CoreTypeOK
  <2>3. QED
    BY <1>10, <2>1, <2>2 DEF ReleaseExternalTools, ConnTypeOK
<1>11. CASE Close(c)
  <2>1. FanoutTypeOK' /\ CoreTypeOK' /\ TurnTypeOK' /\ RecordTypeOK' /\ ClientTypeOK'
    BY <1>11, DetachType, Unchanged DEF Close
  <2>2. QED
    BY <1>11, <2>1 DEF Close, ConnTypeOK
<1>12. QED
  BY <1>1, <1>2, <1>3, <1>4, <1>5, <1>6, <1>7, <1>8, <1>9, <1>10, <1>11 DEF Handler

LEMMA TypeCatchUp == ASSUME TypeOK, NEW c \in Conns, CatchUp(c) PROVE TypeOK'
<1> USE DEF TypeOK
<1>c. replay[c] \in Replay
  BY DEF ConnTypeOK
<1>r. ASSUME NEW m \in Record PROVE m \in Message
  BY Messages
<1>s. ASSUME NEW at, NEW next \in {"walk", "respond", "rearm"}, Replays(c, at, next)
      PROVE  /\ replay' \in [Conns -> Replay]
             /\ CoreTypeOK' /\ TurnTypeOK' /\ RecordTypeOK' /\ ClientTypeOK'
             /\ life' = life /\ initialized' = initialized
  <2>1. [replay[c] EXCEPT !.at = next] \in Replay
    BY <1>c DEF Replay, Stages
  <2>2. QED
    BY <1>s, <2>1, Unchanged DEF Replays, ConnTypeOK
<1>1. CASE ReplayBegin(c)
  <2>1. FanoutTypeOK'
    BY <1>1, BeginCatchUpType DEF ReplayBegin
  <2>2. CoreTypeOK' /\ TurnTypeOK' /\ RecordTypeOK' /\ ClientTypeOK'
    BY <1>1, Unchanged DEF ReplayBegin
  <2>3. [replay[c] EXCEPT !.at = "ask", !.open = pending] \in Replay
    BY <1>c DEF Replay, Stages, CoreTypeOK
  <2>4. QED
    BY <1>1, <2>1, <2>2, <2>3 DEF ReplayBegin, ConnTypeOK
<1>2. CASE ReplayAsk(c)
  <2>1. FanoutTypeOK' /\ CoreTypeOK' /\ TurnTypeOK' /\ RecordTypeOK' /\ ClientTypeOK'
    BY <1>2, FanoutSame, Unchanged DEF ReplayAsk
  <2>2. [replay[c] EXCEPT !.at = "walk", !.running = (token # NoTurn)] \in Replay
    BY <1>c DEF Replay, Stages
  <2>3. QED
    BY <1>2, <2>1, <2>2 DEF ReplayAsk, ConnTypeOK
<1>3. CASE ReplayWalk(c)
  <2>1. file[replay[c].pos] \in Message
    <3>1. file \in Seq(Record) /\ replay[c].pos \in 1..Len(file)
      BY <1>c, <1>3 DEF ReplayWalk, RecordTypeOK, Replay, Stages
    <3>2. QED
      BY <1>r, <3>1
  <2>2. FanoutTypeOK'
    BY <1>3, <2>1, SendToType, FanoutSame DEF ReplayWalk
  <2>3. CoreTypeOK' /\ TurnTypeOK' /\ RecordTypeOK' /\ ClientTypeOK'
    BY <1>3, Unchanged DEF ReplayWalk
  <2>4. [replay[c] EXCEPT !.pos = @ + 1] \in Replay
    BY <1>c DEF Replay, Stages
  <2>5. QED
    BY <1>3, <2>2, <2>3, <2>4 DEF ReplayWalk, ConnTypeOK
<1>4. CASE ReplayEnd(c)
  <2>1. FanoutTypeOK'
    BY <1>4, EndCatchUpType DEF ReplayEnd
  <2>2. CoreTypeOK' /\ TurnTypeOK' /\ ClientTypeOK'
    BY <1>4, Unchanged DEF ReplayEnd
  <2>3. RecordTypeOK'
    <3>1. replay[c].open \subseteq Requests
      BY <1>c DEF Replay, Stages
    <3>2. QED
      BY <1>4, <3>1 DEF ReplayEnd, RecordTypeOK
  <2>4. [replay[c] EXCEPT !.at = "clear", !.open = IF slot[c] = "cancelled" THEN {} ELSE @]
          \in Replay
    BY <1>c DEF Replay, Stages
  <2>5. QED
    BY <1>4, <2>1, <2>2, <2>3, <2>4 DEF ReplayEnd, ConnTypeOK
<1>5. CASE ReplayClear(c)
  <2>1. FanoutTypeOK'
    BY <1>5, FanoutSame DEF ReplayClear
  <2>2. QED
    BY <1>5, <1>s, <2>1 DEF ReplayClear, ConnTypeOK
<1>6. CASE ReplayRespond(c)
  <2>1. FanoutTypeOK'
    BY <1>6, SendToType, Messages DEF ReplayRespond
  <2>2. QED
    BY <1>6, <1>s, <2>1 DEF ReplayRespond, ConnTypeOK
<1>7. CASE RearmLook(c)
  <2>1. FanoutTypeOK' /\ CoreTypeOK' /\ TurnTypeOK' /\ RecordTypeOK' /\ ClientTypeOK'
    BY <1>7, FanoutSame, Unchanged DEF RearmLook
  <2>2. PICK r \in replay[c].open :
          replay' = [replay EXCEPT ![c].open = @ \ {r},
                                 ![c].at = IF r \in pending THEN r ELSE @]
    BY <1>7 DEF RearmLook
  <2>3. [replay[c] EXCEPT !.open = @ \ {r}, !.at = IF r \in pending THEN r ELSE @]
          \in Replay
    BY <1>c DEF Replay, Stages
  <2>4. QED
    BY <1>7, <2>1, <2>2, <2>3 DEF RearmLook, ConnTypeOK
<1>8. CASE RearmSend(c)
  <2>1. PICK r \in Requests : Replays(c, r, "rearm") /\ SendTo(c, Msg("Request", r))
    BY <1>8 DEF RearmSend
  <2>2. FanoutTypeOK'
    BY <1>r, <2>1, SendToType, Messages
  <2>3. QED
    BY <1>8, <1>s, <2>1, <2>2 DEF RearmSend, ConnTypeOK
<1>9. CASE ReplayDone(c)
  <2>1. FanoutTypeOK' /\ CoreTypeOK' /\ TurnTypeOK' /\ RecordTypeOK' /\ ClientTypeOK'
    BY <1>9, FanoutSame, Unchanged DEF ReplayDone
  <2>2. NoReplay \in Replay
    BY DEF NoReplay, Replay, Stages
  <2>3. QED
    BY <1>9, <2>1, <2>2 DEF ReplayDone, ConnTypeOK
<1>10. QED
  BY <1>1, <1>2, <1>3, <1>4, <1>5, <1>6, <1>7, <1>8, <1>9 DEF CatchUp

LEMMA TypeSoul == ASSUME TypeOK, NEW t \in Turns, Soul(t) PROVE TypeOK'
<1> USE DEF TypeOK
<1>s. ASSUME NEW m \in Record, Speak(t, m)
      PROVE  raw' \in [Turns -> Seq(Record)] /\ rec' \in [Turns -> Seq(Record)]
  BY <1>s DEF Speak, TurnTypeOK
<1>u. ASSUME SoulUnchanged
      PROVE  /\ FanoutTypeOK' /\ CoreTypeOK' /\ ConnTypeOK' /\ ClientTypeOK'
             /\ prompter' = prompter /\ parked' = parked /\ file' = file
             /\ shelved' = shelved
  BY <1>u, FanoutSame, Unchanged DEF SoulUnchanged
<1>1. CASE SoulBegin(t)
  <2>1. raw' \in [Turns -> Seq(Record)] /\ rec' \in [Turns -> Seq(Record)]
    BY <1>1, <1>s, Messages DEF SoulBegin
  <2>2. QED
    BY <1>1, <1>u, <2>1 DEF SoulBegin, TurnTypeOK, RecordTypeOK
<1>2. CASE SoulFinish(t)
  <2>1. raw' \in [Turns -> Seq(Record)] /\ rec' \in [Turns -> Seq(Record)]
    BY <1>2, <1>s, Messages DEF SoulFinish
  <2>2. QED
    BY <1>2, <1>u, <2>1 DEF SoulFinish, TurnTypeOK, RecordTypeOK
<1>3. CASE SoulCutShort(t)
  BY <1>3, <1>u DEF SoulCutShort, TurnTypeOK, RecordTypeOK
<1>4. ASSUME NEW r \in Requests, SoulAsk(t, r) PROVE TypeOK'
  <2>1. raw' \in [Turns -> Seq(Record)] /\ rec' \in [Turns -> Seq(Record)]
    BY <1>4, <1>s, Messages DEF SoulAsk
  <2>2. QED
    BY <1>4, <1>u, <2>1 DEF SoulAsk, TurnTypeOK, RecordTypeOK
<1>5. ASSUME NEW r \in Requests, SoulAnswered(t, r) PROVE TypeOK'
  <2>1. raw' \in [Turns -> Seq(Record)] /\ rec' \in [Turns -> Seq(Record)]
    BY <1>5, <1>s, Messages DEF SoulAnswered, TurnTypeOK
  <2>2. QED
    BY <1>5, <1>u, <2>1 DEF SoulAnswered, TurnTypeOK, RecordTypeOK
<1>6. QED
  BY <1>1, <1>2, <1>3, <1>4, <1>5 DEF Soul

LEMMA TypeTurnTasks == ASSUME TypeOK, NEW t \in Turns, TurnTasks(t) PROVE TypeOK'
<1> USE DEF TypeOK
<1>h. ASSUME raw[t] # <<>>
      PROVE  /\ Head(raw[t]) \in Record /\ Tail(raw[t]) \in Seq(Record)
             /\ Head(raw[t]) \in Message
             /\ Head(raw[t]).kind = "Request" => Head(raw[t]).of \in Requests
  <2>1. raw[t] \in Seq(Record)
    BY DEF TurnTypeOK
  <2>2. Head(raw[t]) \in Record /\ Tail(raw[t]) \in Seq(Record)
    BY <1>h, <2>1
  <2>3. QED
    BY <2>2, Messages, Kinds
<1>1. CASE StreamRequest(t)
  <2>1. Head(raw[t]).of \in Requests /\ Tail(raw[t]) \in Seq(Record)
    BY <1>1, <1>h DEF StreamRequest
  <2>2. FanoutTypeOK'
    BY <1>1, <2>1, BroadcastType, Messages DEF StreamRequest
  <2>3. ConnTypeOK' /\ ClientTypeOK'
    BY <1>1, Unchanged DEF StreamRequest
  <2>4. CoreTypeOK'
    BY <1>1, <2>1 DEF StreamRequest, CoreTypeOK
  <2>5. TurnTypeOK'
    BY <1>1, <2>1 DEF StreamRequest, TurnTypeOK
  <2>6. RecordTypeOK'
    BY <1>1, <2>1 DEF StreamRequest, RecordTypeOK
  <2>7. QED
    BY <2>2, <2>3, <2>4, <2>5, <2>6
<1>2. CASE StreamEvent(t)
  <2>1. Head(raw[t]) \in Message /\ Tail(raw[t]) \in Seq(Record)
    BY <1>2, <1>h DEF StreamEvent
  <2>2. FanoutTypeOK'
    BY <1>2, <2>1, BroadcastType DEF StreamEvent
  <2>3. CoreTypeOK' /\ ConnTypeOK' /\ RecordTypeOK' /\ ClientTypeOK'
    BY <1>2, Unchanged DEF StreamEvent
  <2>4. QED
    BY <1>2, <2>1, <2>2, <2>3 DEF StreamEvent, TurnTypeOK
<1>3. CASE Unpark(t)
  <2>1. FanoutTypeOK' /\ CoreTypeOK' /\ ConnTypeOK' /\ RecordTypeOK' /\ ClientTypeOK'
    BY <1>3, FanoutSame, Unchanged DEF Unpark
  <2>2. QED
    BY <1>3, <2>1 DEF Unpark, TurnTypeOK
<1>4. CASE WriteRecord(t)
  <2>1. FanoutTypeOK' /\ CoreTypeOK' /\ ConnTypeOK' /\ ClientTypeOK'
    BY <1>4, FanoutSame, Unchanged DEF WriteRecord
  <2>2. rec[t] \in Seq(Record) /\ rec[t] # <<>>
    BY <1>4 DEF WriteRecord, TurnTypeOK
  <2>3. Head(rec[t]) \in Record /\ Tail(rec[t]) \in Seq(Record)
    BY <2>2
  <2>4. TurnTypeOK'
    BY <1>4, <2>3 DEF WriteRecord, TurnTypeOK
  <2>5. RecordTypeOK'
    BY <1>4, <2>3 DEF WriteRecord, RecordTypeOK
  <2>6. QED
    BY <2>1, <2>4, <2>5
<1>5. CASE ClearToken(t)
  <2>1. FanoutTypeOK' /\ ConnTypeOK' /\ RecordTypeOK' /\ ClientTypeOK'
    BY <1>5, FanoutSame, Unchanged DEF ClearToken
  <2>2. CoreTypeOK'
    BY <1>5 DEF ClearToken, CoreTypeOK
  <2>3. QED
    BY <1>5, <2>1, <2>2 DEF ClearToken, TurnTypeOK
<1>6. CASE AnswerPrompt(t)
  <2>1. FanoutTypeOK'
    BY <1>6, SendToType, Messages DEF AnswerPrompt
  <2>2. CoreTypeOK' /\ ConnTypeOK' /\ RecordTypeOK' /\ ClientTypeOK'
    BY <1>6, Unchanged DEF AnswerPrompt
  <2>3. QED
    BY <1>6, <2>1, <2>2 DEF AnswerPrompt, TurnTypeOK
<1>7. QED
  BY <1>1, <1>2, <1>3, <1>4, <1>5, <1>6 DEF TurnTasks

LEMMA TypeTeardown == ASSUME TypeOK, Teardown PROVE TypeOK'
<1> USE DEF TypeOK
<1>1. CASE RejectPending
  <2>1. FanoutTypeOK' /\ ConnTypeOK' /\ TurnTypeOK' /\ ClientTypeOK'
    BY <1>1, FanoutSame, Unchanged DEF RejectPending
  <2>2. CoreTypeOK'
    BY <1>1 DEF RejectPending, CoreTypeOK
  <2>3. RecordTypeOK'
    BY <1>1 DEF RejectPending, RecordTypeOK, Resolved
  <2>4. QED
    BY <2>1, <2>2, <2>3
<1>2. CASE CancelTurn
  <2>1. FanoutTypeOK' /\ ConnTypeOK' /\ TurnTypeOK' /\ RecordTypeOK' /\ ClientTypeOK'
    BY <1>2, FanoutSame, Unchanged DEF CancelTurn
  <2>2. QED
    BY <1>2, <2>1 DEF CancelTurn, CoreTypeOK
<1>3. CASE CutLoose
  <2>1. FanoutTypeOK' /\ ConnTypeOK' /\ TurnTypeOK' /\ RecordTypeOK' /\ ClientTypeOK'
    BY <1>3, ShutdownType, Unchanged DEF CutLoose
  <2>2. QED
    BY <1>3, <2>1 DEF CutLoose, CoreTypeOK
<1>4. QED
  BY <1>1, <1>2, <1>3 DEF Teardown

LEMMA TypeInit == Init => TypeOK
<1> SUFFICES ASSUME Init PROVE TypeOK
  OBVIOUS
<1> USE ConstantsAssumption DEF Init
<1>1. FanoutTypeOK
  BY DEF FanoutTypeOK
<1>2. CoreTypeOK
  BY DEF CoreTypeOK
<1>3. ConnTypeOK
  <2>1. NoReplay \in Replay
    BY DEF NoReplay, Replay, Stages
  <2>2. QED
    BY <2>1 DEF ConnTypeOK
<1>4. TurnTypeOK
  BY DEF TurnTypeOK
<1>5. RecordTypeOK
  BY DEF RecordTypeOK
<1>6. ClientTypeOK
  BY DEF ClientTypeOK, NoDialogs
<1>7. QED
  BY <1>1, <1>2, <1>3, <1>4, <1>5, <1>6 DEF TypeOK

LEMMA TypeStep == TypeOK /\ [Next]_vars => TypeOK'
<1> SUFFICES ASSUME TypeOK, [Next]_vars PROVE TypeOK'
  OBVIOUS
<1>1. ASSUME NEW c \in Conns, Client(c) \/ Handler(c) \/ CatchUp(c) PROVE TypeOK'
  BY <1>1, TypeClient, TypeHandler, TypeCatchUp
<1>2. ASSUME NEW t \in Turns, Soul(t) \/ TurnTasks(t) PROVE TypeOK'
  BY <1>2, TypeSoul, TypeTurnTasks
<1>3. CASE Teardown
  BY <1>3, TypeTeardown
<1>4. CASE UNCHANGED vars
  BY <1>4, FanoutSame, Unchanged DEF vars, TypeOK
<1>5. QED
  BY <1>1, <1>2, <1>3, <1>4 DEF Next

(* Every variable of the session, its connections, its turns and its clients stays
   in its type, whatever the clients do and whenever they come and go. *)
THEOREM TypeCorrect == Spec => []TypeOK
<1>1. Init => TypeOK
  BY TypeInit
<1>2. TypeOK /\ [Next]_vars => TypeOK'
  BY TypeStep
<1>3. QED
  BY <1>1, <1>2, PTL DEF Spec

---------------------------------------------------------------------------------
(* What the groups of actions leave alone. *)

LEMMA ClientFrame ==
  ASSUME NEW c \in Conns, Client(c)
  PROVE  /\ UNCHANGED <<coreVars, turnVars, recordVars, initialized, slot, replay>>
         /\ ~Connect(c) => UNCHANGED <<life, attached, open, staging, staged>>
<1> USE DEF coreVars, turnVars, recordVars, connVars, routeVars, Idle
<1>1. CASE Connect(c)
  BY <1>1 DEF Connect
<1>2. CASE Submit(c) \/ Cancel(c) \/ Resolve(c) \/ AskToStop(c) \/ HangUp(c)
             \/ ConnectionEnded(c)
  BY <1>2 DEF Submit, Cancel, Resolve, AskToStop, HangUp, ConnectionEnded
<1>3. CASE Lose(c) \/ Receive(c)
  BY <1>3 DEF Lose, Receive, Take
<1>4. QED
  BY <1>1, <1>2, <1>3 DEF Client

LEMMA CatchUpFrame ==
  ASSUME NEW c \in Conns, CatchUp(c)
  PROVE  UNCHANGED <<coreVars, turnVars, clientVars, life, initialized, asker, answer,
                     relayed, file>>
<1> USE DEF coreVars, turnVars, clientVars, recordVars
<1>1. CASE ReplayClear(c) \/ ReplayRespond(c) \/ RearmSend(c)
  BY <1>1 DEF ReplayClear, ReplayRespond, RearmSend, Replays
<1>2. CASE ReplayBegin(c) \/ ReplayAsk(c) \/ ReplayWalk(c) \/ ReplayEnd(c)
             \/ RearmLook(c) \/ ReplayDone(c)
  BY <1>2 DEF ReplayBegin, ReplayAsk, ReplayWalk, ReplayEnd, RearmLook, ReplayDone
<1>3. QED
  BY <1>1, <1>2 DEF CatchUp

LEMMA SoulFrame ==
  ASSUME NEW t \in Turns, Soul(t)
  PROVE  UNCHANGED <<routeVars, coreVars, connVars, prompter, parked, file, shelved,
                     clientVars>>
<1>1. SoulUnchanged
  BY DEF Soul, SoulBegin, SoulFinish, SoulCutShort, SoulAsk, SoulAnswered
<1>2. QED
  BY <1>1 DEF SoulUnchanged

---------------------------------------------------------------------------------
(* A request leaves `pending` only as it is resolved.                             *)

LEMMA ParkedStep == TypeOK /\ ParkedIsAnswerable /\ [Next]_vars => ParkedIsAnswerable'
<1> SUFFICES ASSUME TypeOK, ParkedIsAnswerable, [Next]_vars PROVE ParkedIsAnswerable'
  OBVIOUS
<1>t. /\ answer \in [Requests -> {"none", "client", "shutdown"}]
      /\ parked \in [Turns -> Requests \cup {NoRequest}]
      /\ pending \in SUBSET Requests
  BY DEF TypeOK, RecordTypeOK, TurnTypeOK, CoreTypeOK
<1>s. ASSUME UNCHANGED <<parked, answer, pending>> PROVE ParkedIsAnswerable'
  BY <1>s DEF ParkedIsAnswerable
<1>r. ASSUME NEW rs \in SUBSET Requests, NEW how \in {"client", "shutdown"},
             pending' = pending \ rs, answer' = Resolved(pending \cap rs, how),
             parked' = parked
      PROVE  ParkedIsAnswerable'
  <2> SUFFICES ASSUME NEW t \in Turns, parked'[t] # NoRequest
               PROVE  answer'[parked'[t]] # "none" \/ parked'[t] \in pending'
    BY DEF ParkedIsAnswerable
  <2>1. parked[t] \in Requests /\ (answer[parked[t]] # "none" \/ parked[t] \in pending)
    BY <1>r, <1>t DEF ParkedIsAnswerable
  <2>2. QED
    BY <1>r, <1>t, <2>1 DEF Resolved
<1>1. ASSUME NEW c \in Conns, Client(c) PROVE ParkedIsAnswerable'
  BY <1>1, <1>s, ClientFrame DEF coreVars, turnVars, recordVars
<1>2. ASSUME NEW c \in Conns, CatchUp(c) PROVE ParkedIsAnswerable'
  BY <1>2, <1>s, CatchUpFrame DEF coreVars, turnVars
<1>3. ASSUME NEW c \in Conns, Handler(c) PROVE ParkedIsAnswerable'
  <2>1. CASE HandleResponse(c)
    <3> DEFINE r == Head(uplink[c]).of
    <3>1. r \in Requests
      <4>1. uplink[c] \in Seq(Call) /\ uplink[c] # <<>> /\ Head(uplink[c]).kind = "answer"
        BY <2>1 DEF HandleResponse, Reads, TypeOK, ClientTypeOK
      <4>2. Head(uplink[c]) \in Call
        BY <4>1
      <4>3. QED
        BY <4>1, <4>2, CallKinds
    <3>2. /\ pending' = pending \ {r} /\ answer' = Resolved(pending \cap {r}, "client")
          /\ parked' = parked
      BY <2>1 DEF HandleResponse, turnVars
    <3>3. QED
      BY <1>r, <3>1, <3>2
  <2>2. CASE HandleInitialize(c) \/ HandlePrompt(c) \/ StartTurn(c) \/ HandleReplay(c)
               \/ HandleCancel(c) \/ HandleShutdown(c)
    BY <1>s, <2>2 DEF HandleInitialize, HandlePrompt, StartTurn, HandleReplay,
       HandleCancel, HandleShutdown, coreVars, turnVars, recordVars
  <2>3. CASE StopReading(c) \/ AwaitReplay(c) \/ ReleaseExternalTools(c) \/ Close(c)
    BY <1>s, <2>3 DEF StopReading, AwaitReplay, ReleaseExternalTools, Close, coreVars,
       turnVars, recordVars
  <2>4. QED
    BY <1>3, <2>1, <2>2, <2>3 DEF Handler
<1>4. ASSUME NEW t \in Turns, Soul(t) PROVE ParkedIsAnswerable'
  <2>1. UNCHANGED <<parked, pending>>
    BY <1>4, SoulFrame DEF coreVars
  <2>2. UNCHANGED answer
    BY <1>4 DEF Soul, SoulBegin, SoulFinish, SoulCutShort, SoulAsk, SoulAnswered
  <2>3. QED
    BY <1>s, <2>1, <2>2
<1>5. ASSUME NEW t \in Turns, TurnTasks(t) PROVE ParkedIsAnswerable'
  <2>1. CASE StreamRequest(t)
    <3>1. PICK r : parked' = [parked EXCEPT ![t] = r] /\ pending' = pending \cup {r}
      BY <2>1 DEF StreamRequest
    <3>2. answer' = answer
      BY <2>1 DEF StreamRequest
    <3>3. QED
      BY <1>t, <3>1, <3>2 DEF ParkedIsAnswerable
  <2>2. CASE Unpark(t)
    <3>1. /\ parked' = [parked EXCEPT ![t] = NoRequest]
          /\ pending' = pending /\ answer' = answer
      BY <2>2 DEF Unpark, coreVars, recordVars
    <3>2. QED
      BY <1>t, <3>1 DEF ParkedIsAnswerable
  <2>3. CASE StreamEvent(t) \/ WriteRecord(t) \/ ClearToken(t) \/ AnswerPrompt(t)
    BY <1>s, <2>3 DEF StreamEvent, WriteRecord, ClearToken, AnswerPrompt, coreVars,
       recordVars
  <2>4. QED
    BY <1>5, <2>1, <2>2, <2>3 DEF TurnTasks
<1>6. CASE Teardown
  <2>1. CASE RejectPending
    <3>1. /\ pending' = pending \ pending /\ parked' = parked
          /\ answer' = Resolved(pending \cap pending, "shutdown")
      BY <2>1 DEF RejectPending, turnVars
    <3>2. QED
      BY <1>r, <1>t, <3>1
  <2>2. CASE CancelTurn \/ CutLoose
    BY <1>s, <2>2 DEF CancelTurn, CutLoose, turnVars, recordVars
  <2>3. QED
    BY <1>6, <2>1, <2>2 DEF Teardown
<1>7. CASE UNCHANGED vars
  BY <1>7, <1>s DEF vars, coreVars, turnVars, recordVars
<1>8. QED
  BY <1>1, <1>2, <1>3, <1>4, <1>5, <1>6, <1>7 DEF Next

(* A stream loop parked on a request can always be released: either the request is
   resolved or an answer to it still finds it. *)
THEOREM ParkedCorrect == Spec => []ParkedIsAnswerable
<1>1. Init => ParkedIsAnswerable
  BY DEF Init, ParkedIsAnswerable
<1>2. TypeOK /\ ParkedIsAnswerable /\ [Next]_vars => ParkedIsAnswerable'
  BY ParkedStep
<1>3. QED
  BY <1>1, <1>2, TypeCorrect, PTL DEF Spec

---------------------------------------------------------------------------------
(* The slot is filled as a turn starts and cleared before the turn is over.       *)

LEMMA TokenStep == TypeOK /\ TokenIsLive /\ [Next]_vars => TokenIsLive'
<1> SUFFICES ASSUME TypeOK, TokenIsLive, [Next]_vars PROVE TokenIsLive'
  OBVIOUS
<1>t. /\ turn \in [Turns -> {"none", "starting", "running", "closed", "cleared", "done"}]
      /\ token \in Turns \cup {NoTurn}
  BY DEF TypeOK, TurnTypeOK, CoreTypeOK
<1>s. ASSUME UNCHANGED <<token, turn>> PROVE TokenIsLive'
  BY <1>s DEF TokenIsLive
<1>1. ASSUME NEW c \in Conns, Client(c) PROVE TokenIsLive'
  BY <1>1, <1>s, ClientFrame DEF coreVars, turnVars
<1>2. ASSUME NEW c \in Conns, CatchUp(c) PROVE TokenIsLive'
  BY <1>2, <1>s, CatchUpFrame DEF coreVars, turnVars
<1>3. ASSUME NEW c \in Conns, Handler(c) PROVE TokenIsLive'
  <2>1. CASE StartTurn(c)
    <3>1. PICK t \in Turns : turn' = [turn EXCEPT ![t] = "starting"] /\ token' = t
      BY <2>1 DEF StartTurn
    <3>2. QED
      BY <1>t, <3>1 DEF TokenIsLive
  <2>2. CASE HandleInitialize(c) \/ HandlePrompt(c) \/ HandleReplay(c)
               \/ HandleCancel(c) \/ HandleShutdown(c) \/ HandleResponse(c)
    BY <1>s, <2>2 DEF HandleInitialize, HandlePrompt, HandleReplay,
       HandleCancel, HandleShutdown, HandleResponse, coreVars, turnVars
  <2>3. CASE StopReading(c) \/ AwaitReplay(c) \/ ReleaseExternalTools(c) \/ Close(c)
    BY <1>s, <2>3 DEF StopReading, AwaitReplay, ReleaseExternalTools, Close, coreVars,
       turnVars
  <2>4. QED
    BY <1>3, <2>1, <2>2, <2>3 DEF Handler
<1>4. ASSUME NEW t \in Turns, Soul(t) PROVE TokenIsLive'
  <2>1. token' = token
    BY <1>4, SoulFrame DEF coreVars
  <2>2. \/ turn' = turn
        \/ turn[t] = "starting" /\ turn' = [turn EXCEPT ![t] = "running"]
        \/ turn' = [turn EXCEPT ![t] = "closed"]
    BY <1>4 DEF Soul, SoulBegin, SoulFinish, SoulCutShort, SoulAsk, SoulAnswered
  <2>3. QED
    BY <1>t, <2>1, <2>2 DEF TokenIsLive
<1>5. ASSUME NEW t \in Turns, TurnTasks(t) PROVE TokenIsLive'
  <2>1. CASE ClearToken(t)
    BY <2>1 DEF ClearToken, TokenIsLive
  <2>2. CASE AnswerPrompt(t)
    <3>1. token' = token /\ turn[t] = "cleared" /\ turn' = [turn EXCEPT ![t] = "done"]
      BY <2>2 DEF AnswerPrompt, coreVars
    <3>2. QED
      BY <1>t, <3>1 DEF TokenIsLive
  <2>3. CASE StreamRequest(t) \/ StreamEvent(t) \/ Unpark(t) \/ WriteRecord(t)
    BY <1>s, <2>3 DEF StreamRequest, StreamEvent, Unpark, WriteRecord, coreVars
  <2>4. QED
    BY <1>5, <2>1, <2>2, <2>3 DEF TurnTasks
<1>6. CASE Teardown
  BY <1>6, <1>s DEF Teardown, RejectPending, CancelTurn, CutLoose, turnVars, TokenIsLive
<1>7. CASE UNCHANGED vars
  BY <1>7, <1>s DEF vars, coreVars, turnVars
<1>8. QED
  BY <1>1, <1>2, <1>3, <1>4, <1>5, <1>6, <1>7 DEF Next

(* The token in the slot is never that of a turn that gave it back: overlapping
   turns may clear each other's token, and none is left behind for good. *)
THEOREM TokenCorrect == Spec => []TokenIsLive
<1>1. Init => TokenIsLive
  BY DEF Init, TokenIsLive
<1>2. TypeOK /\ TokenIsLive /\ [Next]_vars => TokenIsLive'
  BY TokenStep
<1>3. QED
  BY <1>1, <1>2, TypeCorrect, PTL DEF Spec

---------------------------------------------------------------------------------
(* Tools are granted to a connection that reads, and given back before it is      *)
(* detached.                                                                      *)

LEMMA ToolsStep == TypeOK /\ ToolsAreServiceable /\ [Next]_vars => ToolsAreServiceable'
<1> SUFFICES ASSUME TypeOK, ToolsAreServiceable, [Next]_vars PROVE ToolsAreServiceable'
  OBVIOUS
<1> DEFINE Serving == {"reading", "prompting", "closing", "releasing"}
<1>t. /\ toolOwner \in [Tools -> Conns \cup {NoConn}] /\ registered \in SUBSET Tools
      /\ DOMAIN life = Conns /\ NoConn \notin Conns
  BY ConstantsAssumption DEF TypeOK, ConnTypeOK, CoreTypeOK
<1>s. ASSUME UNCHANGED <<toolOwner, registered, life>> PROVE ToolsAreServiceable'
  BY <1>s DEF ToolsAreServiceable
<1>l. ASSUME NEW c \in Conns, NEW where, UNCHANGED <<toolOwner, registered>>,
             life' = [life EXCEPT ![c] = where],
             life[c] \in Serving => where \in Serving
      PROVE  ToolsAreServiceable'
  BY <1>l, <1>t DEF ToolsAreServiceable
<1>1. ASSUME NEW c \in Conns, Client(c) PROVE ToolsAreServiceable'
  <2>1. UNCHANGED <<toolOwner, registered>>
    BY <1>1, ClientFrame DEF coreVars
  <2>2. CASE Connect(c)
    BY <1>l, <2>1, <2>2 DEF Connect
  <2>3. CASE ~Connect(c)
    BY <1>1, <1>s, <2>1, <2>3, ClientFrame
  <2>4. QED
    BY <2>2, <2>3
<1>2. ASSUME NEW c \in Conns, CatchUp(c) PROVE ToolsAreServiceable'
  BY <1>2, <1>s, CatchUpFrame DEF coreVars
<1>3. ASSUME NEW c \in Conns, Handler(c) PROVE ToolsAreServiceable'
  <2>1. CASE HandleInitialize(c)
    <3>1. PICK offer \in SUBSET Tools :
            /\ registered' = registered \cup Granted(c, offer)
            /\ toolOwner' = [n \in Tools |->
                                IF n \in Granted(c, offer) THEN c ELSE toolOwner[n]]
      BY <2>1 DEF HandleInitialize
    <3>2. life' = life /\ life[c] = "reading" /\ Granted(c, offer) \subseteq Tools
      BY <2>1 DEF HandleInitialize, Reads, Granted
    <3>3. QED
      BY <1>t, <3>1, <3>2 DEF ToolsAreServiceable
  <2>2. CASE HandlePrompt(c)
    <3>1. UNCHANGED <<toolOwner, registered>>
      BY <2>2 DEF HandlePrompt, coreVars
    <3>2. life' = life \/ life' = [life EXCEPT ![c] = "prompting"]
      BY <2>2 DEF HandlePrompt, RefusePrompt, AdmitPrompt
    <3>3. QED
      BY <1>l, <1>s, <3>1, <3>2
  <2>3. CASE ReleaseExternalTools(c)
    <3> DEFINE mine == {n \in Tools : toolOwner[n] = c}
    <3>1. /\ registered' = registered \ mine
          /\ toolOwner' = [n \in Tools |-> IF n \in mine THEN NoConn ELSE toolOwner[n]]
          /\ life' = [life EXCEPT ![c] = "detaching"]
      BY <2>3 DEF ReleaseExternalTools
    <3>2. registered' = {n \in Tools : toolOwner'[n] # NoConn}
      BY <1>t, <3>1 DEF ToolsAreServiceable
    <3>3. ASSUME NEW n \in registered' PROVE life'[toolOwner'[n]] \in Serving
      <4>1. n \in registered /\ toolOwner[n] # c /\ toolOwner'[n] = toolOwner[n]
        BY <1>t, <3>1, <3>3
      <4>2. life[toolOwner[n]] \in Serving
        BY <4>1 DEF ToolsAreServiceable
      <4>3. QED
        BY <1>t, <3>1, <4>1, <4>2
    <3>4. QED
      BY <3>2, <3>3 DEF ToolsAreServiceable
  <2>4. CASE StartTurn(c) \/ StopReading(c) \/ AwaitReplay(c) \/ Close(c)
    <3>1. UNCHANGED <<toolOwner, registered>>
      BY <2>4 DEF StartTurn, StopReading, AwaitReplay, Close, coreVars
    <3>2. PICK where : /\ life' = [life EXCEPT ![c] = where]
                       /\ life[c] \in Serving => where \in Serving
      BY <2>4 DEF StartTurn, StopReading, AwaitReplay, Close
    <3>3. QED
      BY <1>l, <3>1, <3>2
  <2>5. CASE HandleReplay(c) \/ HandleCancel(c) \/ HandleShutdown(c) \/ HandleResponse(c)
    BY <1>s, <2>5 DEF HandleReplay, HandleCancel, HandleShutdown, HandleResponse, coreVars,
       connVars
  <2>6. QED
    BY <1>3, <2>1, <2>2, <2>3, <2>4, <2>5 DEF Handler
<1>4. ASSUME NEW t \in Turns, Soul(t) PROVE ToolsAreServiceable'
  BY <1>4, <1>s, SoulFrame DEF coreVars, connVars
<1>5. ASSUME NEW t \in Turns, TurnTasks(t) PROVE ToolsAreServiceable'
  BY <1>5, <1>s DEF TurnTasks, StreamRequest, StreamEvent, Unpark, WriteRecord, ClearToken,
     AnswerPrompt, coreVars, connVars
<1>6. CASE Teardown
  BY <1>6, <1>s DEF Teardown, RejectPending, CancelTurn, CutLoose, connVars
<1>7. CASE UNCHANGED vars
  BY <1>7, <1>s DEF vars, coreVars, connVars
<1>8. QED
  BY <1>1, <1>2, <1>3, <1>4, <1>5, <1>6, <1>7 DEF Next

(* A registered external tool has an owner whose connection still serves it. *)
THEOREM ToolsCorrect == Spec => []ToolsAreServiceable
<1>1. Init => ToolsAreServiceable
  BY DEF Init, ToolsAreServiceable
<1>2. TypeOK /\ ToolsAreServiceable /\ [Next]_vars => ToolsAreServiceable'
  BY ToolsStep
<1>3. QED
  BY <1>1, <1>2, TypeCorrect, PTL DEF Spec

---------------------------------------------------------------------------------
(* Staging: only a replay that asks or walks stages, it holds the slot meanwhile, *)
(* and nothing is held back for anyone else.                                      *)

SlotIsHeld ==
    \A c \in Conns : replay[c].at \in {"begin", "ask", "walk", "clear"} => slot[c] # "none"

StagingIsReplaying ==
    \A c \in Conns : /\ c \in staging => replay[c].at \in {"ask", "walk"}
                     /\ c \notin staging => staged[c] = <<>>

\* The fan-out stages for nobody new, and releases nothing it goes on staging.
Quiet ==
    /\ staging' \subseteq staging
    /\ \A c \in Conns : /\ staged'[c] \in {staged[c], <<>>}
                        /\ c \notin staging' => staged'[c] \in {<<>>} \cup
                              (IF c \in staging THEN {} ELSE {staged[c]})

LEMMA QuietSame == UNCHANGED routeVars => Quiet
  BY DEF routeVars, Quiet

LEMMA QuietSteps ==
  ASSUME FanoutTypeOK, NEW c, NEW m,
         Attach(c) \/ Detach(c) \/ SendTo(c, m) \/ EndCatchUp(c) \/ Shutdown \/ Take(c)
  PROVE  Quiet
<1> USE DEF FanoutTypeOK, Quiet
<1>1. CASE Attach(c) \/ Take(c)
  BY <1>1 DEF Attach, Take
<1>2. CASE Detach(c)
  BY <1>2 DEF Detach, Drop
<1>3. CASE SendTo(c, m)
  BY <1>3 DEF SendTo, Drop
<1>4. CASE EndCatchUp(c)
  BY <1>4 DEF EndCatchUp
<1>5. CASE Shutdown
  BY <1>5 DEF Shutdown, Drop
<1>6. QED
  BY <1>1, <1>2, <1>3, <1>4, <1>5

LEMMA BroadcastStages ==
  ASSUME FanoutTypeOK, NEW m \in Message, Broadcast(m)
  PROVE  /\ staging' = staging
         /\ \A c \in Conns :
              \/ staged'[c] = staged[c]
              \/ c \in staging /\ staged'[c] = Append(staged[c], m)
<1>1. staging' = staging
  BY DEF Broadcast
<1>2. ASSUME NEW c \in Conns
      PROVE  staged'[c] = IF c \in attached \cap staging THEN Append(staged[c], m)
                                                         ELSE staged[c]
  BY DEF Broadcast
<1>3. QED
  BY <1>1, <1>2

(* What the steps do to the staging and to the catch-up of d. *)

LEMMA ClientQuiet == ASSUME TypeOK, NEW c \in Conns, Client(c) PROVE Quiet
<1>1. CASE Connect(c)
  BY <1>1, QuietSteps DEF Connect, TypeOK
<1>2. CASE Lose(c) \/ Receive(c)
  BY <1>2, QuietSteps DEF Lose, Receive, TypeOK
<1>3. CASE ~Connect(c)
  BY <1>3, ClientFrame DEF Quiet
<1>4. QED
  BY <1>1, <1>3

LEMMA HandlerQuiet == ASSUME TypeOK, NEW c \in Conns, Handler(c) PROVE Quiet
<1>1. CASE HandleInitialize(c) \/ HandlePrompt(c)
  BY <1>1, QuietSame, QuietSteps DEF HandleInitialize, HandlePrompt, RefusePrompt,
     AdmitPrompt, TypeOK
<1>2. CASE Close(c)
  BY <1>2, QuietSteps DEF Close, TypeOK
<1>3. CASE StartTurn(c) \/ HandleReplay(c) \/ HandleCancel(c) \/ HandleShutdown(c)
             \/ HandleResponse(c) \/ StopReading(c) \/ AwaitReplay(c)
             \/ ReleaseExternalTools(c)
  BY <1>3, QuietSame DEF StartTurn, HandleReplay, HandleCancel, HandleShutdown,
     HandleResponse, StopReading, AwaitReplay, ReleaseExternalTools
<1>4. QED
  BY <1>1, <1>2, <1>3 DEF Handler

LEMMA HandlerCatchUp ==
  ASSUME TypeOK, NEW c \in Conns, Handler(c)
  PROVE  \/ UNCHANGED <<slot, replay>>
         \/ /\ slot[c] = "none" /\ slot' = [slot EXCEPT ![c] = "live"]
            /\ replay' = [replay EXCEPT ![c] = [NoReplay EXCEPT !.at = "begin"]]
         \/ /\ slot' = [slot EXCEPT ![c] = "cancelled"] /\ replay' = replay
<1>1. CASE HandleReplay(c)
  BY <1>1 DEF HandleReplay
<1>2. CASE HandleCancel(c)
  BY <1>2 DEF HandleCancel
<1>3. CASE StartTurn(c) \/ HandleInitialize(c) \/ HandlePrompt(c) \/ HandleShutdown(c)
             \/ HandleResponse(c) \/ StopReading(c) \/ AwaitReplay(c)
             \/ ReleaseExternalTools(c) \/ Close(c)
  BY <1>3 DEF StartTurn, HandleInitialize, HandlePrompt, HandleShutdown,
     HandleResponse, StopReading, AwaitReplay, ReleaseExternalTools, Close, connVars
<1>4. QED
  BY <1>1, <1>2, <1>3 DEF Handler

LEMMA TurnTasksQuiet ==
  ASSUME TypeOK, NEW t \in Turns, TurnTasks(t), ~StreamRequest(t), ~StreamEvent(t)
  PROVE  Quiet
<1>1. CASE AnswerPrompt(t)
  BY <1>1, QuietSteps DEF AnswerPrompt, TypeOK
<1>2. CASE Unpark(t) \/ WriteRecord(t) \/ ClearToken(t)
  BY <1>2, QuietSame DEF Unpark, WriteRecord, ClearToken
<1>3. QED
  BY <1>1, <1>2 DEF TurnTasks

LEMMA StreamHead ==
  ASSUME TypeOK, NEW t \in Turns, raw[t] # <<>>
  PROVE  /\ Head(raw[t]) \in Message /\ raw[t] \in Seq(Record)
         /\ Head(raw[t]).kind = "Request" =>
              /\ Head(raw[t]).of \in Requests
              /\ Head(raw[t]) = Msg("Request", Head(raw[t]).of)
<1>1. raw[t] \in Seq(Record)
  BY DEF TypeOK, TurnTypeOK
<1>2. Head(raw[t]) \in Record
  BY <1>1
<1>3. QED
  BY <1>1, <1>2, Messages, Kinds

LEMMA TurnTasksStage ==
  ASSUME TypeOK, NEW t \in Turns, TurnTasks(t)
  PROVE  /\ UNCHANGED <<slot, replay>>
         /\ \/ Quiet
            \/ staging' = staging /\ (\A c \in Conns \ staging : staged'[c] = staged[c])
<1>1. UNCHANGED <<slot, replay>>
  BY DEF TurnTasks, StreamRequest, StreamEvent, Unpark, WriteRecord, ClearToken,
     AnswerPrompt, connVars
<1>2. CASE StreamRequest(t)
  <2>1. Head(raw[t]).of \in Requests
    BY <1>2, StreamHead DEF StreamRequest
  <2>2. Msg("Request", Head(raw[t]).of) \in Message
    BY <2>1, Messages
  <2>3. QED
    BY <1>1, <1>2, <2>2, BroadcastStages DEF StreamRequest, TypeOK
<1>3. CASE StreamEvent(t)
  <2>1. Head(raw[t]) \in Message
    BY <1>3, StreamHead DEF StreamEvent
  <2>2. QED
    BY <1>1, <1>3, <2>1, BroadcastStages DEF StreamEvent, TypeOK
<1>4. CASE ~StreamRequest(t) /\ ~StreamEvent(t)
  <2>1. Quiet
    BY <1>4, TurnTasksQuiet
  <2>2. QED
    BY <1>1, <2>1
<1>5. QED
  BY <1>2, <1>3, <1>4

LEMMA TeardownQuiet == ASSUME TypeOK, Teardown PROVE Quiet /\ UNCHANGED <<slot, replay>>
<1>1. UNCHANGED <<slot, replay>>
  BY DEF Teardown, RejectPending, CancelTurn, CutLoose, connVars
<1>2. CASE CutLoose
  BY <1>1, <1>2, QuietSteps DEF CutLoose, TypeOK
<1>3. CASE RejectPending \/ CancelTurn
  BY <1>1, <1>3, QuietSame DEF RejectPending, CancelTurn
<1>4. QED
  BY <1>2, <1>3 DEF Teardown

---------------------------------------------------------------------------------
LEMMA SlotStep == TypeOK /\ SlotIsHeld /\ [Next]_vars => SlotIsHeld'
<1> SUFFICES ASSUME TypeOK, SlotIsHeld, [Next]_vars PROVE SlotIsHeld'
  OBVIOUS
<1>t. /\ slot \in [Conns -> {"none", "live", "cancelled"}]
      /\ replay \in [Conns -> Replay]
  BY DEF TypeOK, ConnTypeOK
<1>s. ASSUME UNCHANGED <<slot, replay>> PROVE SlotIsHeld'
  BY <1>s DEF SlotIsHeld
<1>1. ASSUME NEW c \in Conns, Client(c) PROVE SlotIsHeld'
  BY <1>1, <1>s, ClientFrame
<1>2. ASSUME NEW c \in Conns, Handler(c) PROVE SlotIsHeld'
  BY <1>2, <1>s, <1>t, HandlerCatchUp DEF SlotIsHeld
<1>3. ASSUME NEW c \in Conns, CatchUp(c) PROVE SlotIsHeld'
  <2>1. CASE ReplayBegin(c) \/ ReplayAsk(c) \/ ReplayWalk(c) \/ ReplayEnd(c)
    <3>1. /\ slot' = slot /\ replay[c].at \in {"begin", "ask", "walk"}
          /\ \A d \in Conns : d # c => replay'[d] = replay[d]
      BY <1>t, <2>1 DEF ReplayBegin, ReplayAsk, ReplayWalk, ReplayEnd
    <3>2. QED
      BY <1>t, <3>1 DEF SlotIsHeld
  <2>2. CASE ReplayClear(c)
    <3>1. /\ slot' = [slot EXCEPT ![c] = "none"]
          /\ replay' = [replay EXCEPT ![c].at = "respond"]
      BY <2>2 DEF ReplayClear, Replays
    <3>2. replay'[c].at = "respond" /\ \A d \in Conns \ {c} : replay'[d] = replay[d]
      BY <1>t, <3>1 DEF Replay
    <3>3. QED
      BY <1>t, <3>1, <3>2 DEF SlotIsHeld
  <2>3. CASE ReplayRespond(c) \/ RearmLook(c) \/ RearmSend(c) \/ ReplayDone(c)
    <3>1. slot' = slot /\ \A d \in Conns \ {c} : replay'[d] = replay[d]
      BY <1>t, <2>3 DEF ReplayRespond, RearmLook, RearmSend, ReplayDone, Replays
    <3>2. replay'[c].at \in {"rearm", "idle"} \cup Requests
      <4>1. replay[c] \in Replay
        BY <1>t
      <4>2. CASE ReplayRespond(c) \/ RearmSend(c)
        BY <1>t, <4>1, <4>2 DEF ReplayRespond, RearmSend, Replays, Replay
      <4>3. CASE RearmLook(c)
        <5>1. PICK r \in replay[c].open :
                replay' = [replay EXCEPT ![c].open = @ \ {r},
                                         ![c].at = IF r \in pending THEN r ELSE @]
          BY <4>3 DEF RearmLook
        <5>2. r \in Requests /\ replay[c].at = "rearm"
          BY <4>1, <4>3 DEF RearmLook, Replay
        <5>3. QED
          BY <1>t, <4>1, <5>1, <5>2 DEF Replay
      <4>4. CASE ReplayDone(c)
        BY <1>t, <4>4 DEF ReplayDone, NoReplay
      <4>5. QED
        BY <2>3, <4>2, <4>3, <4>4
    <3>3. replay'[c].at \notin {"begin", "ask", "walk", "clear"}
      BY <3>2, ConstantsAssumption DEF Stages
    <3>4. QED
      BY <3>1, <3>3 DEF SlotIsHeld
  <2>4. QED
    BY <1>3, <2>1, <2>2, <2>3 DEF CatchUp
<1>4. ASSUME NEW t \in Turns, Soul(t) PROVE SlotIsHeld'
  BY <1>4, <1>s, SoulFrame DEF connVars
<1>5. ASSUME NEW t \in Turns, TurnTasks(t) PROVE SlotIsHeld'
  BY <1>5, <1>s, TurnTasksStage
<1>6. CASE Teardown
  BY <1>6, <1>s, TeardownQuiet
<1>7. CASE UNCHANGED vars
  BY <1>7, <1>s DEF vars, connVars
<1>8. QED
  BY <1>1, <1>2, <1>3, <1>4, <1>5, <1>6, <1>7 DEF Next

LEMMA StagingStep ==
  TypeOK /\ SlotIsHeld /\ StagingIsReplaying /\ [Next]_vars => StagingIsReplaying'
<1> SUFFICES ASSUME TypeOK, SlotIsHeld, StagingIsReplaying, [Next]_vars
             PROVE  StagingIsReplaying'
  OBVIOUS
<1>t. replay \in [Conns -> Replay] /\ staging \in SUBSET Conns
  BY DEF TypeOK, ConnTypeOK, FanoutTypeOK
<1>q. ASSUME Quiet, \A c \in staging' : replay'[c] = replay[c] PROVE StagingIsReplaying'
  BY <1>q DEF Quiet, StagingIsReplaying
<1>1. ASSUME NEW c \in Conns, Client(c) PROVE StagingIsReplaying'
  BY <1>1, <1>q, ClientFrame, ClientQuiet
<1>2. ASSUME NEW c \in Conns, Handler(c) PROVE StagingIsReplaying'
  <2>1. slot[c] = "none" => c \notin staging
    BY DEF SlotIsHeld, StagingIsReplaying
  <2>2. Quiet /\ staging' \subseteq staging
    BY <1>2, HandlerQuiet DEF Quiet
  <2>3. \A d \in staging' : replay'[d] = replay[d]
    BY <1>2, <1>t, <2>1, <2>2, HandlerCatchUp
  <2>4. QED
    BY <1>q, <2>2, <2>3
<1>3. ASSUME NEW c \in Conns, CatchUp(c) PROVE StagingIsReplaying'
  <2>1. CASE ReplayBegin(c)
    <3>1. /\ replay'[c].at = "ask" /\ \A d \in Conns \ {c} : replay'[d] = replay[d]
      BY <1>t, <2>1 DEF ReplayBegin, Replay
    <3>2. c \notin staging /\ staging' \in {staging, staging \cup {c}}
      BY <2>1 DEF ReplayBegin, BeginCatchUp, StagingIsReplaying
    <3>3. \A d \in Conns : d # c => staged'[d] = staged[d]
      BY <2>1 DEF ReplayBegin, BeginCatchUp, TypeOK, FanoutTypeOK
    <3>4. c \notin staging' => staged'[c] = <<>>
      BY <2>1, <3>2 DEF ReplayBegin, BeginCatchUp, StagingIsReplaying
    <3>5. QED
      BY <3>1, <3>2, <3>3, <3>4 DEF StagingIsReplaying
  <2>2. CASE ReplayAsk(c) \/ ReplayWalk(c)
    <3>1. Quiet
      BY <2>2, QuietSame, QuietSteps DEF ReplayAsk, ReplayWalk, TypeOK
    <3>2. /\ replay'[c].at = "walk" /\ \A d \in Conns \ {c} : replay'[d] = replay[d]
      BY <1>t, <2>2 DEF ReplayAsk, ReplayWalk, Replay
    <3>3. QED
      BY <3>1, <3>2 DEF Quiet, StagingIsReplaying
  <2>3. CASE ReplayEnd(c)
    <3>1. Quiet /\ c \notin staging'
      BY <2>3, QuietSteps DEF ReplayEnd, EndCatchUp, TypeOK
    <3>2. \A d \in Conns \ {c} : replay'[d] = replay[d]
      BY <1>t, <2>3 DEF ReplayEnd
    <3>3. QED
      BY <1>q, <1>t, <3>1, <3>2 DEF Quiet
  <2>4. CASE ReplayClear(c) \/ ReplayRespond(c) \/ RearmLook(c) \/ RearmSend(c)
               \/ ReplayDone(c)
    <3>1. Quiet
      BY <2>4, QuietSame, QuietSteps DEF ReplayClear, ReplayRespond, RearmLook,
         RearmSend, ReplayDone, TypeOK
    <3>2. \A d \in Conns \ {c} : replay'[d] = replay[d]
      BY <1>t, <2>4 DEF ReplayClear, ReplayRespond, RearmLook, RearmSend, ReplayDone,
         Replays
    <3>3. replay[c].at \in {"clear", "respond", "rearm"} \cup Requests
      BY <2>4 DEF ReplayClear, ReplayRespond, RearmLook, RearmSend, ReplayDone, Replays
    <3>4. c \notin staging
      BY <3>3, ConstantsAssumption DEF StagingIsReplaying, Stages
    <3>5. QED
      BY <1>q, <1>t, <3>1, <3>2, <3>4 DEF Quiet
  <2>5. QED
    BY <1>3, <2>1, <2>2, <2>3, <2>4 DEF CatchUp
<1>4. ASSUME NEW t \in Turns, Soul(t) PROVE StagingIsReplaying'
  BY <1>4, <1>q, SoulFrame, QuietSame DEF connVars
<1>5. ASSUME NEW t \in Turns, TurnTasks(t) PROVE StagingIsReplaying'
  BY <1>5, <1>q, TurnTasksStage DEF StagingIsReplaying
<1>6. CASE Teardown
  BY <1>6, <1>q, TeardownQuiet
<1>7. CASE UNCHANGED vars
  BY <1>7, <1>q, QuietSame DEF vars, connVars
<1>8. QED
  BY <1>1, <1>2, <1>3, <1>4, <1>5, <1>6, <1>7 DEF Next

LEMMA StagingCorrect == Spec => [](SlotIsHeld /\ StagingIsReplaying)
<1>1. Init => SlotIsHeld /\ StagingIsReplaying
  BY DEF Init, SlotIsHeld, StagingIsReplaying, NoReplay
<1>2. TypeOK /\ SlotIsHeld /\ StagingIsReplaying /\ [Next]_vars
        => SlotIsHeld' /\ StagingIsReplaying'
  BY SlotStep, StagingStep
<1>3. QED
  BY <1>1, <1>2, TypeCorrect, PTL DEF Spec

(* Every catch-up that began to stage ends it: a client is deaf to its session only
   while its replay walks the file. *)
THEOREM DeafCorrect == Spec => []DeafOnlyWhileReplaying
<1>1. TypeOK /\ StagingIsReplaying => DeafOnlyWhileReplaying
  BY DEF TypeOK, FanoutTypeOK, StagingIsReplaying, DeafOnlyWhileReplaying
<1>2. QED
  BY <1>1, TypeCorrect, StagingCorrect, PTL

---------------------------------------------------------------------------------
(* Requests: each is raised once, and the agent knows of it only once its stream  *)
(* loop has taken it off the wire.                                                *)

Unheard(r) == r \notin pending /\ \A c \in Conns : r \notin replay[c].open

RaisedBeforeHeard == \A r \in Requests : asker[r] = NoTurn => Unheard(r)

RawIsUnheard ==
    \A t \in Turns : \A i \in 1..Len(raw[t]) :
        raw[t][i].kind = "Request" => asker[raw[t][i].of] = t /\ Unheard(raw[t][i].of)

RawIsOnce ==
    \A t \in Turns : \A i, j \in 1..Len(raw[t]) :
        raw[t][i].kind = "Request" /\ raw[t][j] = raw[t][i] => i = j

LEMMA Appended ==
  ASSUME NEW S, NEW s \in Seq(S), NEW m \in S
  PROVE  \A i \in 1..Len(Append(s, m)) :
            \/ i \in 1..Len(s) /\ Append(s, m)[i] = s[i]
            \/ i = Len(s) + 1 /\ Append(s, m)[i] = m
  OBVIOUS

LEMMA TailOf ==
  ASSUME NEW S, NEW s \in Seq(S), s # <<>>
  PROVE  /\ 1 \in 1..Len(s) /\ Head(s) = s[1]
         /\ \A i \in 1..Len(Tail(s)) : /\ i + 1 \in 1..Len(s) /\ i + 1 # 1
                                       /\ Tail(s)[i] = s[i + 1]
         /\ \A i, j \in 1..Len(Tail(s)) : i + 1 = j + 1 => i = j
  OBVIOUS

\* No catch-up opens anything but what is pending, and only as it begins.
LEMMA OpenShrinks ==
  ASSUME TypeOK, [Next]_vars
  PROVE  \A d \in Conns : \/ replay'[d].open \subseteq replay[d].open
                          \/ ReplayBegin(d) /\ replay'[d].open = pending
<1>t. replay \in [Conns -> Replay]
  BY DEF TypeOK, ConnTypeOK
<1>s. ASSUME replay' = replay PROVE \A d \in Conns : replay'[d].open \subseteq replay[d].open
  BY <1>s
<1>1. ASSUME NEW c \in Conns, Client(c) PROVE replay' = replay
  BY <1>1, ClientFrame
<1>2. ASSUME NEW c \in Conns, Handler(c)
      PROVE  \A d \in Conns : replay'[d].open \subseteq replay[d].open
  <2>1. [NoReplay EXCEPT !.at = "begin"].open = {}
    BY DEF NoReplay
  <2>2. \/ replay' = replay
        \/ replay' = [replay EXCEPT ![c] = [NoReplay EXCEPT !.at = "begin"]]
    BY <1>2, HandlerCatchUp
  <2>3. QED
    BY <1>t, <2>1, <2>2
<1>3. ASSUME NEW c \in Conns, CatchUp(c), ~ReplayBegin(c)
      PROVE  \A d \in Conns : replay'[d].open \subseteq replay[d].open
  <2>0. replay[c] \in Replay
    BY <1>t
  <2>1. \A d \in Conns \ {c} : replay'[d] = replay[d]
    BY <1>3, <1>t DEF CatchUp, ReplayAsk, ReplayWalk, ReplayEnd, ReplayClear, ReplayRespond,
       RearmLook, RearmSend, ReplayDone, Replays
  <2>2. replay'[c].open \subseteq replay[c].open
    <3>1. CASE ReplayAsk(c) \/ ReplayWalk(c) \/ ReplayEnd(c) \/ ReplayClear(c)
                 \/ ReplayRespond(c) \/ RearmSend(c)
      BY <1>t, <2>0, <3>1 DEF ReplayAsk, ReplayWalk, ReplayEnd, ReplayClear, ReplayRespond,
         RearmSend, Replays, Replay
    <3>2. CASE RearmLook(c)
      <4>1. PICK r : replay' = [replay EXCEPT ![c].open = @ \ {r},
                                             ![c].at = IF r \in pending THEN r ELSE @]
        BY <3>2 DEF RearmLook
      <4>2. QED
        BY <1>t, <2>0, <4>1 DEF Replay
    <3>3. CASE ReplayDone(c)
      BY <1>t, <3>3 DEF ReplayDone, NoReplay
    <3>4. QED
      BY <1>3, <3>1, <3>2, <3>3 DEF CatchUp
  <2>3. QED
    BY <2>1, <2>2
<1>4. ASSUME NEW c \in Conns, ReplayBegin(c)
      PROVE  /\ replay'[c].open = pending
             /\ \A d \in Conns \ {c} : replay'[d] = replay[d]
  BY <1>4, <1>t DEF ReplayBegin, Replay
<1>5. ASSUME NEW t \in Turns, Soul(t) \/ TurnTasks(t) PROVE replay' = replay
  BY <1>5, SoulFrame, TurnTasksStage DEF connVars
<1>6. CASE Teardown
  BY <1>6, <1>s, TeardownQuiet
<1>7. CASE UNCHANGED vars
  BY <1>7, <1>s DEF vars, connVars
<1>8. QED
  BY <1>s, <1>1, <1>2, <1>3, <1>4, <1>5, <1>6, <1>7 DEF Next

LEMMA PendingShrinks ==
  ASSUME TypeOK, [Next]_vars
  PROVE  \/ pending' \subseteq pending
         \/ \E t \in Turns : StreamRequest(t)
<1>1. ASSUME NEW c \in Conns, Client(c) \/ CatchUp(c) PROVE pending' = pending
  BY <1>1, ClientFrame, CatchUpFrame DEF coreVars
<1>2. ASSUME NEW c \in Conns, Handler(c) PROVE pending' \subseteq pending
  BY <1>2 DEF Handler, HandleInitialize, HandlePrompt, StartTurn, HandleReplay, HandleCancel,
     HandleShutdown, HandleResponse, StopReading, AwaitReplay, ReleaseExternalTools, Close,
     coreVars
<1>3. ASSUME NEW t \in Turns, Soul(t) PROVE pending' = pending
  BY <1>3, SoulFrame DEF coreVars
<1>4. ASSUME NEW t \in Turns, TurnTasks(t), ~StreamRequest(t) PROVE pending' = pending
  BY <1>4 DEF TurnTasks, StreamEvent, Unpark, WriteRecord, ClearToken, AnswerPrompt, coreVars
<1>5. CASE Teardown
  BY <1>5 DEF Teardown, RejectPending, CancelTurn, CutLoose
<1>6. CASE UNCHANGED vars
  BY <1>6 DEF vars, coreVars
<1>7. QED
  BY <1>1, <1>2, <1>3, <1>4, <1>5, <1>6 DEF Next

LEMMA StaysUnheard ==
  ASSUME TypeOK, [Next]_vars, NEW r, Unheard(r),
         \A t \in Turns : StreamRequest(t) => r # Head(raw[t]).of
  PROVE  Unheard(r)'
<1>1. r \notin pending'
  <2>1. CASE pending' \subseteq pending
    BY <2>1 DEF Unheard
  <2>2. ASSUME NEW t \in Turns, StreamRequest(t) PROVE r \notin pending'
    <3>1. pending' = pending \cup {Head(raw[t]).of} /\ r # Head(raw[t]).of
      BY <2>2 DEF StreamRequest
    <3>2. QED
      BY <3>1 DEF Unheard
  <2>3. QED
    BY <2>1, <2>2, PendingShrinks
<1>2. \A c \in Conns : r \notin replay'[c].open
  BY OpenShrinks DEF Unheard
<1>3. QED
  BY <1>1, <1>2 DEF Unheard

\* What may happen to what the soul has sent: nothing, more, or its head is taken.
LEMMA RawSteps ==
  ASSUME TypeOK, [Next]_vars
  PROVE  \/ UNCHANGED <<raw, asker>>
         \/ \E t \in Turns : \E m \in Record :
               /\ m.kind # "Request" /\ raw' = [raw EXCEPT ![t] = Append(@, m)]
               /\ asker' = asker
         \/ \E t \in Turns : \E r \in Requests :
               /\ asker[r] = NoTurn /\ asker' = [asker EXCEPT ![r] = t]
               /\ raw' = [raw EXCEPT ![t] = Append(@, Msg("Request", r))]
         \/ \E t \in Turns :
               /\ StreamRequest(t) \/ StreamEvent(t)
               /\ raw[t] # <<>> /\ raw' = [raw EXCEPT ![t] = Tail(@)] /\ asker' = asker
<1>1. ASSUME NEW c \in Conns, Client(c) \/ CatchUp(c) PROVE UNCHANGED <<raw, asker>>
  BY <1>1, ClientFrame, CatchUpFrame DEF turnVars, recordVars
<1>2. ASSUME NEW c \in Conns, Handler(c) PROVE UNCHANGED <<raw, asker>>
  BY <1>2 DEF Handler, HandleInitialize, HandlePrompt, StartTurn, HandleReplay, HandleCancel,
     HandleShutdown, HandleResponse, StopReading, AwaitReplay, ReleaseExternalTools, Close,
     turnVars, recordVars
<1>3. ASSUME NEW t \in Turns, Soul(t)
      PROVE  \/ UNCHANGED <<raw, asker>>
             \/ \E m \in Record : /\ m.kind # "Request" /\ asker' = asker
                                  /\ raw' = [raw EXCEPT ![t] = Append(@, m)]
             \/ \E r \in Requests :
                  /\ asker[r] = NoTurn /\ asker' = [asker EXCEPT ![r] = t]
                  /\ raw' = [raw EXCEPT ![t] = Append(@, Msg("Request", r))]
  <2>1. CASE SoulBegin(t)
    <3>1. Msg("TurnBegin", t) \in Record /\ Msg("TurnBegin", t).kind # "Request"
      BY Messages DEF Msg
    <3>2. QED
      BY <2>1, <3>1 DEF SoulBegin, Speak
  <2>2. CASE SoulFinish(t)
    <3>1. Msg("TurnEnd", t) \in Record /\ Msg("TurnEnd", t).kind # "Request"
      BY Messages DEF Msg
    <3>2. QED
      BY <2>2, <3>1 DEF SoulFinish, Speak
  <2>3. CASE SoulCutShort(t)
    BY <2>3 DEF SoulCutShort
  <2>4. ASSUME NEW r \in Requests, SoulAsk(t, r)
        PROVE  /\ asker[r] = NoTurn /\ asker' = [asker EXCEPT ![r] = t]
               /\ raw' = [raw EXCEPT ![t] = Append(@, Msg("Request", r))]
    BY <2>4 DEF SoulAsk, Speak
  <2>5. ASSUME NEW r \in Requests, SoulAnswered(t, r)
        PROVE  \/ UNCHANGED <<raw, asker>>
               \/ \E m \in Record : /\ m.kind # "Request" /\ asker' = asker
                                    /\ raw' = [raw EXCEPT ![t] = Append(@, m)]
    <3>1. /\ Msg("ApprovalResponse", r) \in Record
          /\ Msg("ApprovalResponse", r).kind # "Request"
      BY Messages DEF Msg
    <3>2. QED
      BY <2>5, <3>1 DEF SoulAnswered, Speak
  <2>6. QED
    BY <1>3, <2>1, <2>2, <2>3, <2>4, <2>5 DEF Soul
<1>4. ASSUME NEW t \in Turns, TurnTasks(t)
      PROVE  \/ UNCHANGED <<raw, asker>>
             \/ /\ StreamRequest(t) \/ StreamEvent(t)
                /\ raw[t] # <<>> /\ raw' = [raw EXCEPT ![t] = Tail(@)] /\ asker' = asker
  BY <1>4 DEF TurnTasks, StreamRequest, StreamEvent, Unpark, WriteRecord, ClearToken,
     AnswerPrompt, recordVars
<1>5. CASE Teardown
  BY <1>5 DEF Teardown, RejectPending, CancelTurn, CutLoose, turnVars, recordVars
<1>6. CASE UNCHANGED vars
  BY <1>6 DEF vars, turnVars, recordVars
<1>7. QED
  BY <1>1, <1>2, <1>3, <1>4, <1>5, <1>6 DEF Next

LEMMA OnceStep == TypeOK /\ RawIsOnce /\ RawIsUnheard /\ [Next]_vars => RawIsOnce'
<1> SUFFICES ASSUME TypeOK, RawIsOnce, RawIsUnheard, [Next]_vars, NEW u \in Turns,
                    NEW i \in 1..Len(raw'[u]), NEW j \in 1..Len(raw'[u]),
                    raw'[u][i].kind = "Request", raw'[u][j] = raw'[u][i]
             PROVE  i = j
  BY DEF RawIsOnce
<1>t. raw \in [Turns -> Seq(Record)]
  BY DEF TypeOK, TurnTypeOK
<1>s. raw'[u] = raw[u] => i = j
  BY DEF RawIsOnce
<1>1. ASSUME NEW t \in Turns, NEW m \in Record, raw' = [raw EXCEPT ![t] = Append(@, m)],
             m.kind = "Request" => \A k \in 1..Len(raw[t]) : raw[t][k] # m
      PROVE  i = j
  <2>1. CASE u = t
    <3>1. raw'[u] = Append(raw[u], m) /\ raw[u] \in Seq(Record)
      BY <1>t, <1>1, <2>1
    <3>2. \A k \in 1..Len(raw'[u]) : \/ k \in 1..Len(raw[u]) /\ raw'[u][k] = raw[u][k]
                                     \/ k = Len(raw[u]) + 1 /\ raw'[u][k] = m
      BY <3>1, Appended
    <3>3. QED
      BY <1>1, <2>1, <3>2 DEF RawIsOnce
  <2>2. CASE u # t
    BY <1>s, <1>t, <1>1, <2>2
  <2>3. QED
    BY <2>1, <2>2
<1>2. ASSUME NEW t \in Turns, NEW r \in Requests, asker[r] = NoTurn
      PROVE  \A k \in 1..Len(raw[t]) : raw[t][k] # Msg("Request", r)
  <2>1. ASSUME NEW k \in 1..Len(raw[t]), raw[t][k] = Msg("Request", r) PROVE FALSE
    <3>1. raw[t][k].kind = "Request" /\ raw[t][k].of = r
      BY <2>1 DEF Msg
    <3>2. asker[r] = t
      BY <3>1 DEF RawIsUnheard
    <3>3. QED
      BY <1>2, <3>2 DEF Turns, NoTurn
  <2>2. QED
    BY <2>1
<1>3. ASSUME NEW t \in Turns, raw[t] # <<>>, raw' = [raw EXCEPT ![t] = Tail(@)]
      PROVE  i = j
  <2>1. CASE u = t
    <3>1. raw'[u] = Tail(raw[u]) /\ raw[u] \in Seq(Record) /\ raw[u] # <<>>
      BY <1>t, <1>3, <2>1
    <3>2. /\ i + 1 \in 1..Len(raw[u]) /\ raw'[u][i] = raw[u][i + 1]
          /\ j + 1 \in 1..Len(raw[u]) /\ raw'[u][j] = raw[u][j + 1]
          /\ i + 1 = j + 1 => i = j
      BY <3>1, TailOf
    <3>3. QED
      BY <3>2 DEF RawIsOnce
  <2>2. CASE u # t
    BY <1>s, <1>t, <1>3, <2>2
  <2>3. QED
    BY <2>1, <2>2
<1>4. QED
  <2>1. CASE \E t \in Turns : \E r \in Requests :
               /\ asker[r] = NoTurn /\ asker' = [asker EXCEPT ![r] = t]
               /\ raw' = [raw EXCEPT ![t] = Append(@, Msg("Request", r))]
    BY <1>1, <1>2, <2>1, Messages
  <2>2. CASE UNCHANGED <<raw, asker>>
    BY <1>s, <2>2
  <2>3. QED
    BY <1>1, <1>3, <2>1, <2>2, RawSteps

LEMMA UnheardStep ==
  TypeOK /\ RaisedBeforeHeard /\ RawIsUnheard /\ RawIsOnce /\ [Next]_vars
    => RaisedBeforeHeard' /\ RawIsUnheard'
<1> SUFFICES ASSUME TypeOK, RaisedBeforeHeard, RawIsUnheard, RawIsOnce, [Next]_vars
             PROVE  RaisedBeforeHeard' /\ RawIsUnheard'
  OBVIOUS
<1>t. /\ raw \in [Turns -> Seq(Record)]
      /\ asker \in [Requests -> Turns \cup {NoTurn}]
      /\ \A t \in Turns : t # NoTurn
  BY DEF TypeOK, TurnTypeOK, RecordTypeOK, Turns, NoTurn
<1>k. ASSUME NEW t \in Turns, NEW i \in 1..Len(raw[t]), raw[t][i].kind = "Request"
      PROVE  raw[t][i] = Msg("Request", raw[t][i].of) /\ raw[t][i].of \in Requests
  <2>1. raw[t][i] \in Record
    BY <1>t
  <2>2. QED
    BY <1>k, <2>1, Messages, Kinds
<1>h. ASSUME NEW t \in Turns, StreamRequest(t)
      PROVE  /\ raw[t] \in Seq(Record) /\ raw[t] # <<>> /\ 1 \in 1..Len(raw[t])
             /\ Head(raw[t]) = raw[t][1] /\ raw[t][1].kind = "Request"
  BY <1>h, <1>t, TailOf DEF StreamRequest
<1>1. RaisedBeforeHeard'
  <2> SUFFICES ASSUME NEW r \in Requests, asker'[r] = NoTurn PROVE Unheard(r)'
    BY DEF RaisedBeforeHeard
  <2>1. asker[r] = NoTurn
    BY <1>t, RawSteps
  <2>2. ASSUME NEW t \in Turns, StreamRequest(t) PROVE r # Head(raw[t]).of
    BY <1>h, <1>t, <2>1, <2>2 DEF RawIsUnheard
  <2>3. QED
    BY <2>1, <2>2, StaysUnheard DEF RaisedBeforeHeard
<1>2. RawIsUnheard'
  <2> SUFFICES ASSUME NEW u \in Turns, NEW i \in 1..Len(raw'[u]),
                      raw'[u][i].kind = "Request", NEW r, r = raw'[u][i].of
               PROVE  asker'[r] = u /\ Unheard(r)'
    BY DEF RawIsUnheard, Unheard
  \* A request that was on the wire and still is.
  <2>o. ASSUME NEW k \in 1..Len(raw[u]), raw'[u][i] = raw[u][k],
               StreamRequest(u) => k # 1
        PROVE  asker'[r] = u /\ Unheard(r)'
    <3>1. /\ raw[u][k].kind = "Request" /\ raw[u][k].of = r
          /\ asker[r] = u /\ Unheard(r) /\ raw[u][k] = Msg("Request", r) /\ r \in Requests
      BY <1>k, <2>o DEF RawIsUnheard
    <3>2. ASSUME NEW t \in Turns, StreamRequest(t) PROVE r # Head(raw[t]).of
      <4>1. CASE t = u
        <5>1. raw[u][1] = Msg("Request", raw[u][1].of) /\ raw[u][1] # raw[u][k]
          BY <1>h, <1>k, <2>o, <3>1, <3>2, <4>1 DEF RawIsOnce
        <5>2. QED
          BY <1>h, <3>1, <3>2, <4>1, <5>1
      <4>2. CASE t # u
        BY <1>h, <3>1, <3>2, <4>2 DEF RawIsUnheard
      <4>3. QED
        BY <4>1, <4>2
    <3>3. Unheard(r)'
      BY <3>1, <3>2, StaysUnheard
    <3>4. asker'[r] = u
      BY <1>t, <3>1, RawSteps
    <3>5. QED
      BY <3>3, <3>4
  <2>1. CASE UNCHANGED <<raw, asker>>
    <3>1. ASSUME StreamRequest(u) PROVE FALSE
      <4>1. raw[u] \in Seq(Record) /\ raw[u] # <<>> /\ raw'[u] = Tail(raw[u])
        BY <1>h, <1>t, <3>1 DEF StreamRequest
      <4>2. Len(Tail(raw[u])) # Len(raw[u])
        BY <4>1
      <4>3. QED
        BY <2>1, <4>1, <4>2
    <3>2. QED
      BY <2>o, <2>1, <3>1
  <2>2. ASSUME NEW t \in Turns, NEW m \in Record,
               raw' = [raw EXCEPT ![t] = Append(@, m)],
               \/ m.kind # "Request"
               \/ \E q \in Requests : /\ m = Msg("Request", q) /\ asker[q] = NoTurn
                                      /\ asker' = [asker EXCEPT ![q] = t]
        PROVE  asker'[r] = u /\ Unheard(r)'
    <3>n. ~StreamRequest(u)
      <4>1. ASSUME StreamRequest(u) PROVE FALSE
        <5>1. raw[u] \in Seq(Record) /\ raw[u] # <<>> /\ raw'[u] = Tail(raw[u])
          BY <1>h, <1>t, <4>1 DEF StreamRequest
        <5>2. Len(Tail(raw[u])) < Len(raw[u]) /\ Len(Append(raw[u], m)) > Len(raw[u])
          BY <5>1
        <5>3. raw'[u] \in {raw[u], Append(raw[u], m)}
          BY <1>t, <2>2
        <5>4. QED
          BY <5>1, <5>2, <5>3
      <4>2. QED
        BY <4>1
    <3>1. CASE u # t
      <4>1. raw'[u] = raw[u]
        BY <1>t, <2>2, <3>1
      <4>2. QED
        BY <2>o, <3>n, <4>1
    <3>2. CASE u = t
      <4>1. raw'[u] = Append(raw[u], m) /\ raw[u] \in Seq(Record)
        BY <1>t, <2>2, <3>2
      <4>2. CASE i \in 1..Len(raw[u]) /\ raw'[u][i] = raw[u][i]
        BY <2>o, <3>n, <4>2
      <4>3. CASE raw'[u][i] = m
        <5>1. PICK q \in Requests : /\ m = Msg("Request", q) /\ asker[q] = NoTurn
                                    /\ asker' = [asker EXCEPT ![q] = t]
          BY <2>2, <4>3
        <5>2. r = q
          BY <4>3, <5>1 DEF Msg
        <5>3. ASSUME NEW s \in Turns, StreamRequest(s) PROVE q # Head(raw[s]).of
          BY <1>h, <1>t, <5>1, <5>3 DEF RawIsUnheard
        <5>4. Unheard(q)'
          BY <5>1, <5>3, StaysUnheard DEF RaisedBeforeHeard
        <5>5. QED
          BY <1>t, <3>2, <5>1, <5>2, <5>4
      <4>4. QED
        BY <4>1, <4>2, <4>3, Appended
    <3>3. QED
      BY <3>1, <3>2
  <2>3. ASSUME NEW t \in Turns, StreamRequest(t) \/ StreamEvent(t), raw[t] # <<>>,
               raw' = [raw EXCEPT ![t] = Tail(@)]
        PROVE  asker'[r] = u /\ Unheard(r)'
    <3>1. CASE u # t
      <4>1. raw'[u] = raw[u]
        BY <1>t, <2>3, <3>1
      <4>2. ASSUME StreamRequest(u) PROVE FALSE
        <5>1. raw[u] \in Seq(Record) /\ raw[u] # <<>> /\ raw'[u] = Tail(raw[u])
          BY <1>h, <1>t, <4>2 DEF StreamRequest
        <5>2. Len(Tail(raw[u])) # Len(raw[u])
          BY <5>1
        <5>3. QED
          BY <4>1, <5>1, <5>2
      <4>3. QED
        BY <2>o, <4>1, <4>2
    <3>2. CASE u = t
      <4>1. raw'[u] = Tail(raw[u]) /\ raw[u] \in Seq(Record) /\ raw[u] # <<>>
        BY <1>t, <2>3, <3>2
      <4>2. i + 1 \in 1..Len(raw[u]) /\ i + 1 # 1 /\ raw'[u][i] = raw[u][i + 1]
        BY <4>1, TailOf
      <4>3. QED
        BY <2>o, <4>2
    <3>3. QED
      BY <3>1, <3>2
  <2>4. CASE \E t \in Turns : \E q \in Requests :
               /\ asker[q] = NoTurn /\ asker' = [asker EXCEPT ![q] = t]
               /\ raw' = [raw EXCEPT ![t] = Append(@, Msg("Request", q))]
    BY <2>2, <2>4, Messages
  <2>5. QED
    BY <2>1, <2>2, <2>3, <2>4, RawSteps
<1>3. QED
  BY <1>1, <1>2

LEMMA UnheardCorrect == Spec => [](RaisedBeforeHeard /\ RawIsUnheard /\ RawIsOnce)
<1>1. Init => RaisedBeforeHeard /\ RawIsUnheard /\ RawIsOnce
  BY DEF Init, RaisedBeforeHeard, RawIsUnheard, RawIsOnce, Unheard, NoReplay
<1>2. TypeOK /\ RaisedBeforeHeard /\ RawIsUnheard /\ RawIsOnce /\ [Next]_vars
        => RaisedBeforeHeard' /\ RawIsUnheard' /\ RawIsOnce'
  BY UnheardStep, OnceStep
<1>3. QED
  BY <1>1, <1>2, TypeCorrect, PTL DEF Spec

---------------------------------------------------------------------------------
LEMMA SnapshotStep ==
  TypeOK /\ StagingIsReplaying /\ RawIsUnheard /\ SnapshotXorStaged /\ [Next]_vars
    => SnapshotXorStaged'
<1> SUFFICES ASSUME TypeOK, StagingIsReplaying, RawIsUnheard, SnapshotXorStaged, [Next]_vars
             PROVE  SnapshotXorStaged'
  OBVIOUS
<1> DEFINE Apart(d) == \A r \in replay'[d].open : \A i \in DOMAIN staged'[d] :
                          staged'[d][i] # Msg("Request", r)
<1>g. (\A d \in Conns : Apart(d)) => SnapshotXorStaged'
  BY DEF SnapshotXorStaged
<1>e. ASSUME NEW d \in Conns, staged'[d] = <<>> PROVE Apart(d)
  BY <1>e
<1>o. ASSUME NEW d \in Conns, replay'[d].open \subseteq replay[d].open,
             staged'[d] \in {staged[d], <<>>}
      PROVE  Apart(d)
  BY <1>e, <1>o DEF SnapshotXorStaged
<1>b. ASSUME NEW c \in Conns, ReplayBegin(c) PROVE \A d \in Conns : Apart(d)
  <2>1. c \notin staging
    BY <1>b DEF ReplayBegin, StagingIsReplaying
  <2>2. staged'[c] = <<>>
    BY <1>b, <2>1 DEF ReplayBegin, BeginCatchUp, StagingIsReplaying, TypeOK, FanoutTypeOK
  <2>3. \A d \in Conns : d # c => staged'[d] = staged[d] /\ replay'[d] = replay[d]
    BY <1>b DEF ReplayBegin, BeginCatchUp, TypeOK, FanoutTypeOK, ConnTypeOK
  <2>4. QED
    BY <1>e, <1>o, <2>2, <2>3
<1>q. ASSUME Quiet PROVE \A d \in Conns : Apart(d)
  BY <1>b, <1>o, <1>q, OpenShrinks DEF Quiet
<1>1. ASSUME NEW c \in Conns, CatchUp(c), ~ReplayBegin(c) PROVE Quiet
  BY <1>1, QuietSame, QuietSteps DEF CatchUp, ReplayAsk, ReplayWalk, ReplayEnd, ReplayClear,
     ReplayRespond, RearmLook, RearmSend, ReplayDone, TypeOK
<1>2. ASSUME NEW t \in Turns, NEW m \in Message, Broadcast(m), replay' = replay,
             \A c \in Conns : \A r \in replay[c].open : m # Msg("Request", r)
      PROVE  \A d \in Conns : Apart(d)
  <2> TAKE d \in Conns
  <2>1. staged[d] \in Seq(Message)
    BY DEF TypeOK, FanoutTypeOK
  <2>2. CASE staged'[d] = staged[d]
    BY <1>o, <1>2, <2>2
  <2>3. CASE staged'[d] = Append(staged[d], m)
    <3>1. \A i \in DOMAIN staged'[d] : \/ i \in 1..Len(staged[d]) /\ staged'[d][i] = staged[d][i]
                                       \/ staged'[d][i] = m
      BY <2>1, <2>3, Appended
    <3>2. DOMAIN staged[d] = 1..Len(staged[d])
      BY <2>1
    <3>3. QED
      BY <1>2, <3>1, <3>2 DEF SnapshotXorStaged
  <2>4. QED
    BY <1>2, <2>2, <2>3, BroadcastStages DEF TypeOK
<1>3. ASSUME NEW t \in Turns, StreamRequest(t) PROVE \A d \in Conns : Apart(d)
  <2> DEFINE q == Head(raw[t]).of
  <2>1. /\ q \in Requests /\ raw[t] \in Seq(Record) /\ raw[t] # <<>>
        /\ Head(raw[t]).kind = "Request"
    BY <1>3, StreamHead DEF StreamRequest
  <2>2. Unheard(q)
    <3>1. 1 \in 1..Len(raw[t]) /\ Head(raw[t]) = raw[t][1]
      BY <2>1, TailOf
    <3>2. QED
      BY <2>1, <3>1 DEF RawIsUnheard
  <2>3. ASSUME NEW c \in Conns, NEW r \in replay[c].open
        PROVE  Msg("Request", q) # Msg("Request", r)
    <3>1. q # r
      BY <2>2 DEF Unheard
    <3>2. QED
      BY <3>1 DEF Msg
  <2>4. replay' = replay /\ Broadcast(Msg("Request", q)) /\ Msg("Request", q) \in Message
    BY <1>3, <2>1, Messages DEF StreamRequest, connVars
  <2>5. QED
    BY <1>2, <2>3, <2>4
<1>4. ASSUME NEW t \in Turns, StreamEvent(t) PROVE \A d \in Conns : Apart(d)
  <2>1. /\ Head(raw[t]) \in Message /\ Broadcast(Head(raw[t])) /\ replay' = replay
        /\ Head(raw[t]).kind # "Request"
    BY <1>4, StreamHead DEF StreamEvent, connVars
  <2>2. \A r : Head(raw[t]) # Msg("Request", r)
    BY <2>1 DEF Msg
  <2>3. QED
    BY <1>2, <2>1, <2>2
<1>5. CASE \E c \in Conns : Client(c) \/ Handler(c) \/ CatchUp(c)
  BY <1>b, <1>g, <1>q, <1>1, <1>5, ClientQuiet, HandlerQuiet
<1>6. CASE \E t \in Turns : Soul(t) \/ TurnTasks(t)
  BY <1>g, <1>q, <1>3, <1>4, <1>6, SoulFrame, QuietSame, TurnTasksQuiet
<1>7. CASE Teardown \/ UNCHANGED vars
  BY <1>g, <1>q, <1>7, TeardownQuiet, QuietSame DEF vars
<1>8. QED
  BY <1>5, <1>6, <1>7 DEF Next

(* The snapshot a catch-up takes of the open requests and the traffic staged for the
   same client never hold one request between them. *)
THEOREM SnapshotCorrect == Spec => []SnapshotXorStaged
<1>1. Init => SnapshotXorStaged
  BY DEF Init, SnapshotXorStaged, NoReplay
<1>2. TypeOK /\ StagingIsReplaying /\ RawIsUnheard /\ SnapshotXorStaged /\ [Next]_vars
        => SnapshotXorStaged'
  BY SnapshotStep
<1>3. QED
  BY <1>1, <1>2, TypeCorrect, StagingCorrect, UnheardCorrect, PTL DEF Spec

---------------------------------------------------------------------------------
(* How many messages of a kind a queue holds, as it grows at its end and loses its
   head.  Only for these lemmas is Count unfolded. *)

OfKind(s, kind) == {i \in 1..Len(s) : s[i].kind = kind}

LEMMA OfKindFinite ==
  ASSUME NEW S, NEW s \in Seq(S), NEW kind
  PROVE  /\ IsFiniteSet(OfKind(s, kind)) /\ Count(s, kind) = Cardinality(OfKind(s, kind))
         /\ Count(s, kind) \in Nat
<1>1. IsFiniteSet(1..Len(s))
  BY FS_Interval
<1>2. IsFiniteSet(OfKind(s, kind))
  BY <1>1, FS_Subset DEF OfKind
<1>3. Count(s, kind) = Cardinality(OfKind(s, kind))
  <2>1. DOMAIN s = 1..Len(s)
    OBVIOUS
  <2>2. {i \in DOMAIN s : s[i].kind = kind} = OfKind(s, kind)
    BY <2>1 DEF OfKind
  <2>3. QED
    BY <2>2 DEF Count
<1>4. Cardinality(OfKind(s, kind)) \in Nat
  BY <1>2, FS_CardinalityType
<1>5. QED
  BY <1>2, <1>3, <1>4

LEMMA CountAppend ==
  ASSUME NEW S, NEW s \in Seq(S), NEW m \in S, NEW kind
  PROVE  /\ m.kind = kind => Count(Append(s, m), kind) = Count(s, kind) + 1
         /\ m.kind # kind => Count(Append(s, m), kind) = Count(s, kind)
<1>1. /\ Append(s, m) \in Seq(S) /\ Len(Append(s, m)) = Len(s) + 1
      /\ \A i \in 1..Len(s) : Append(s, m)[i] = s[i]
      /\ Append(s, m)[Len(s) + 1] = m
  OBVIOUS
<1>2. OfKind(Append(s, m), kind) =
        IF m.kind = kind THEN OfKind(s, kind) \cup {Len(s) + 1} ELSE OfKind(s, kind)
  BY <1>1 DEF OfKind
<1>3. Len(s) + 1 \notin OfKind(s, kind)
  BY DEF OfKind
<1>4. /\ Count(Append(s, m), kind) = Cardinality(OfKind(Append(s, m), kind))
      /\ Count(s, kind) = Cardinality(OfKind(s, kind)) /\ Count(s, kind) \in Nat
      /\ IsFiniteSet(OfKind(s, kind))
  BY <1>1, OfKindFinite
<1>5. Cardinality(OfKind(s, kind) \cup {Len(s) + 1}) = Cardinality(OfKind(s, kind)) + 1
  BY <1>3, <1>4, FS_AddElement
<1>6. QED
  BY <1>2, <1>4, <1>5

LEMMA CountTail ==
  ASSUME NEW S, NEW s \in Seq(S), s # <<>>, NEW kind
  PROVE  /\ Count(Tail(s), kind) \in Nat
         /\ Head(s).kind = kind => Count(Tail(s), kind) = Count(s, kind) - 1
         /\ Head(s).kind # kind => Count(s, kind) = Count(Tail(s), kind)
<1> DEFINE rest == OfKind(s, kind) \ {1}
           f == [i \in rest |-> i - 1]
<1>1. /\ Tail(s) \in Seq(S) /\ Len(Tail(s)) = Len(s) - 1 /\ Len(s) \in Nat \ {0}
      /\ Head(s) = s[1] /\ \A i \in 1..(Len(s) - 1) : Tail(s)[i] = s[i + 1]
  OBVIOUS
<1>2. f \in Bijection(rest, OfKind(Tail(s), kind))
  <2>1. ASSUME NEW i \in rest PROVE f[i] \in OfKind(Tail(s), kind)
    BY <1>1 DEF OfKind
  <2>2. ASSUME NEW j \in OfKind(Tail(s), kind) PROVE j + 1 \in rest /\ f[j + 1] = j
    BY <1>1 DEF OfKind
  <2>3. \A i, j \in rest : f[i] = f[j] => i = j
    BY <1>1 DEF OfKind
  <2>4. f \in [rest -> OfKind(Tail(s), kind)]
    BY <2>1
  <2>5. f \in Injection(rest, OfKind(Tail(s), kind))
    BY <2>3, <2>4 DEF Injection, IsInjective
  <2>6. f \in Surjection(rest, OfKind(Tail(s), kind))
    BY <2>2, <2>4 DEF Surjection
  <2>7. QED
    BY <2>5, <2>6 DEF Bijection
<1>3. IsFiniteSet(rest) /\ Cardinality(rest) = Cardinality(OfKind(Tail(s), kind))
  BY <1>1, <1>2, OfKindFinite, FS_RemoveElement, FS_Bijection DEF ExistsBijection
<1>4. 1 \in OfKind(s, kind) <=> Head(s).kind = kind
  BY <1>1 DEF OfKind
<1>5. /\ Count(s, kind) = Cardinality(OfKind(s, kind)) /\ Count(s, kind) \in Nat
      /\ Count(Tail(s), kind) = Cardinality(OfKind(Tail(s), kind))
      /\ IsFiniteSet(OfKind(s, kind))
  BY <1>1, OfKindFinite
<1>6. Cardinality(rest) = IF Head(s).kind = kind THEN Count(s, kind) - 1 ELSE Count(s, kind)
  BY <1>4, <1>5, FS_RemoveElement
<1>7. Count(Tail(s), kind) \in Nat
  BY <1>1, OfKindFinite
<1>8. Head(s).kind = kind => Count(Tail(s), kind) = Count(s, kind) - 1
  BY <1>3, <1>5, <1>6
<1>9. Head(s).kind # kind => Count(s, kind) = Count(Tail(s), kind)
  BY <1>3, <1>5, <1>6
<1>10. QED
  BY <1>7, <1>8, <1>9

LEMMA CountConcat ==
  ASSUME NEW S, NEW s \in Seq(S), NEW u \in Seq(S), NEW kind,
         \A i \in DOMAIN u : u[i].kind # kind
  PROVE  Count(s \o u, kind) = Count(s, kind)
<1>1. /\ s \o u \in Seq(S) /\ Len(s \o u) = Len(s) + Len(u)
      /\ \A i \in 1..(Len(s) + Len(u)) :
            (s \o u)[i] = IF i <= Len(s) THEN s[i] ELSE u[i - Len(s)]
  OBVIOUS
<1>2. OfKind(s \o u, kind) = OfKind(s, kind)
  BY <1>1 DEF OfKind
<1>3. QED
  BY <1>1, <1>2, OfKindFinite

LEMMA CountEmpty == ASSUME NEW kind PROVE Count(<<>>, kind) = 0
<1>1. DOMAIN <<>> = {}
  OBVIOUS
<1>2. QED
  BY <1>1, FS_EmptySet DEF Count

LEMMA CountNone ==
  ASSUME NEW S, NEW s \in Seq(S), NEW kind
  PROVE  Count(s, kind) = 0 <=> \A i \in DOMAIN s : s[i].kind # kind
<1>1. OfKind(s, kind) = {} <=> \A i \in DOMAIN s : s[i].kind # kind
  BY DEF OfKind
<1>2. QED
  BY <1>1, OfKindFinite, FS_EmptySet

---------------------------------------------------------------------------------
(* What is plain: a connection that has not come has left no trace, the clients   *)
(* attached are those whose queue is open, only the traffic of turns is staged,   *)
(* and a catch-up that is over holds no snapshot.                                 *)

AbsentIsClean ==
    \A c \in Conns : life[c] = "absent" =>
        /\ phase[c] = "Absent" /\ c \notin prompting /\ c \notin attached
        /\ uplink[c] = <<>> /\ queue[c] = <<>> /\ replay[c].at = "idle"
        /\ \A t \in Turns : prompter[t] # c

AttachedIsOpen == attached = open

StagedIsTraffic == \A c \in Conns : staged[c] \in Seq(Record)

IdleHoldsNothing == \A c \in Conns : replay[c].at = "idle" => replay[c].open = {}

Plain == AbsentIsClean /\ AttachedIsOpen /\ StagedIsTraffic /\ IdleHoldsNothing

LEMMA SendToPlain ==
  ASSUME FanoutTypeOK, AttachedIsOpen, NEW c, NEW m, SendTo(c, m)
  PROVE  /\ UNCHANGED <<attached, open, staging, staged>>
         /\ \A d \in Conns : queue'[d] = IF d = c /\ d \in attached THEN Append(queue[d], m)
                                                                  ELSE queue[d]
  BY DEF FanoutTypeOK, AttachedIsOpen, SendTo

LEMMA BroadcastPlain ==
  ASSUME FanoutTypeOK, AttachedIsOpen, NEW m, Broadcast(m)
  PROVE  /\ UNCHANGED <<attached, open, staging>>
         /\ \A d \in Conns :
              /\ queue'[d] = IF d \in attached \ staging THEN Append(queue[d], m)
                                                         ELSE queue[d]
              /\ staged'[d] = IF d \in attached \cap staging THEN Append(staged[d], m)
                                                             ELSE staged[d]
  BY DEF FanoutTypeOK, AttachedIsOpen, Broadcast, Live

LEMMA EndCatchUpPlain ==
  ASSUME FanoutTypeOK, AttachedIsOpen, NEW c \in Conns, EndCatchUp(c)
  PROVE  /\ UNCHANGED <<attached, open>>
         /\ \A d \in Conns :
              /\ queue'[d] = IF d = c /\ c \in staging \cap attached
                             THEN queue[d] \o staged[d] ELSE queue[d]
              /\ staged'[d] = IF d = c THEN <<>> ELSE staged[d]
  BY DEF FanoutTypeOK, AttachedIsOpen, EndCatchUp

LEMMA LeavePlain ==
  ASSUME FanoutTypeOK, AttachedIsOpen, NEW c, Detach(c) \/ Shutdown
  PROVE  /\ AttachedIsOpen' /\ attached' \subseteq attached /\ queue' = queue
         /\ \A d \in Conns : staged'[d] \in {staged[d], <<>>}
  BY DEF FanoutTypeOK, AttachedIsOpen, Detach, Shutdown, Drop

LEMMA PlainStep == TypeOK /\ Plain /\ [Next]_vars => Plain'
<1> SUFFICES ASSUME TypeOK, Plain, [Next]_vars PROVE Plain'
  OBVIOUS
<1> USE DEF Plain, TypeOK
<1>t. /\ FanoutTypeOK /\ DOMAIN life = Conns /\ replay \in [Conns -> Replay]
      /\ phase \in [Conns -> {"Absent", "Initializing", "Replaying", "Ready", "Running",
                              "Detached", "Left"}]
      /\ DOMAIN uplink = Conns /\ DOMAIN prompter = Turns /\ DOMAIN queue = Conns
      /\ DOMAIN staged = Conns
  BY DEF ConnTypeOK, ClientTypeOK, TurnTypeOK, FanoutTypeOK
\* What is staged is the traffic of turns.
<1>m. ASSUME NEW m \in Record, Broadcast(m) PROVE StagedIsTraffic'
  <2>1. \A d \in Conns : staged'[d] \in {staged[d], Append(staged[d], m)}
    BY <1>m, <1>t, BroadcastPlain
  <2>2. \A d \in Conns : staged[d] \in Seq(Record) /\ Append(staged[d], m) \in Seq(Record)
    BY DEF StagedIsTraffic
  <2>3. QED
    BY <2>1, <2>2 DEF StagedIsTraffic
<1>e. ASSUME \A d \in Conns : staged'[d] \in {staged[d], <<>>} PROVE StagedIsTraffic'
  <2>1. <<>> \in Seq(Record)
    OBVIOUS
  <2>2. QED
    BY <1>e, <2>1 DEF StagedIsTraffic
<1>1. ASSUME NEW c \in Conns, Client(c) PROVE Plain'
  <2>0. UNCHANGED <<prompter, replay>>
    BY <1>1, ClientFrame DEF turnVars
  <2>1. CASE Connect(c)
    BY <1>t, <2>0, <2>1 DEF Connect, Attach, Send, AbsentIsClean, AttachedIsOpen,
       StagedIsTraffic, IdleHoldsNothing
  <2>2. CASE ~Connect(c)
    <3>1. UNCHANGED <<life, attached, open, staging, staged>>
      BY <1>1, <2>2, ClientFrame
    <3>2. phase[c] # "Absent"
      BY <1>1, <1>t, <2>2 DEF Client, Submit, Cancel, Resolve, AskToStop, HangUp, Lose,
         ConnectionEnded, Receive, MayType, Here
    <3>3. \A d \in Conns \ {c} : /\ phase'[d] = phase[d] /\ uplink'[d] = uplink[d]
                                /\ queue'[d] = queue[d]
                                /\ (d \in prompting' => d \in prompting)
      <4>1. CASE Submit(c) \/ Cancel(c) \/ Resolve(c) \/ AskToStop(c) \/ HangUp(c)
                   \/ ConnectionEnded(c)
        BY <1>t, <4>1 DEF Submit, Cancel, Resolve, AskToStop, HangUp, ConnectionEnded, Send,
           routeVars
      <4>2. CASE Lose(c)
        BY <1>t, <4>2 DEF Lose, Take, clientVars
      <4>3. CASE Receive(c)
        BY <1>t, <4>3 DEF Receive, Take, TakeEvent, TakeRequest, TakeResponse, Send
      <4>4. QED
        BY <1>1, <2>2, <4>1, <4>2, <4>3 DEF Client
    <3>4. life[c] # "absent"
      BY <3>2 DEF AbsentIsClean
    <3>5. AbsentIsClean'
      BY <2>0, <3>1, <3>3, <3>4 DEF AbsentIsClean
    <3>6. QED
      BY <2>0, <3>1, <3>5 DEF AttachedIsOpen, StagedIsTraffic, IdleHoldsNothing
  <2>3. QED
    BY <2>1, <2>2
<1>2. ASSUME NEW c \in Conns, Handler(c) PROVE Plain'
  <2>0. life[c] # "absent"
    BY <1>2 DEF Handler, HandleInitialize, HandlePrompt, StartTurn, HandleReplay, HandleCancel,
       HandleShutdown, HandleResponse, StopReading, AwaitReplay, ReleaseExternalTools, Close,
       Reads
  <2>1. /\ \A d \in Conns : life'[d] = "absent" => life[d] = "absent"
        /\ \A d \in Conns \ {c} : uplink'[d] = uplink[d]
        /\ UNCHANGED <<phase, prompting>>
    BY <1>2, <1>t, <2>0 DEF Handler, HandleInitialize, HandlePrompt, RefusePrompt, AdmitPrompt,
       StartTurn, HandleReplay, HandleCancel, HandleShutdown, HandleResponse, StopReading,
       AwaitReplay, ReleaseExternalTools, Close, Reads, clientVars, connVars
  <2>2. \A t \in Turns : prompter'[t] \in {prompter[t], c}
    BY <1>2, <1>t DEF Handler, HandleInitialize, HandlePrompt, StartTurn, HandleReplay,
       HandleCancel, HandleShutdown, HandleResponse, StopReading, AwaitReplay,
       ReleaseExternalTools, Close, turnVars
  <2>3. IdleHoldsNothing' /\ \A d \in Conns \ {c} : replay'[d] = replay[d]
    BY <1>2, <1>t, HandlerCatchUp DEF NoReplay, IdleHoldsNothing
  <2>4. AttachedIsOpen' /\ StagedIsTraffic' /\ attached' \subseteq attached
          /\ \A d \in Conns : queue'[d] = queue[d] \/ d = c
    <3>1. CASE HandleInitialize(c) \/ HandlePrompt(c)
      <4>1. UNCHANGED routeVars \/ \E m : SendTo(c, m)
        BY <3>1 DEF HandleInitialize, HandlePrompt, RefusePrompt, AdmitPrompt
      <4>2. QED
        BY <1>t, <4>1, SendToPlain DEF routeVars, AttachedIsOpen, StagedIsTraffic
    <3>2. CASE Close(c)
      BY <1>e, <1>t, <3>2, LeavePlain DEF Close
    <3>3. CASE StartTurn(c) \/ HandleReplay(c) \/ HandleCancel(c) \/ HandleShutdown(c)
                 \/ HandleResponse(c) \/ StopReading(c) \/ AwaitReplay(c)
                 \/ ReleaseExternalTools(c)
      <4>1. UNCHANGED routeVars
        BY <3>3 DEF StartTurn, HandleReplay, HandleCancel, HandleShutdown, HandleResponse,
           StopReading, AwaitReplay, ReleaseExternalTools
      <4>2. QED
        BY <4>1 DEF routeVars, AttachedIsOpen, StagedIsTraffic
    <3>4. QED
      BY <1>2, <3>1, <3>2, <3>3 DEF Handler
  <2>5. QED
    BY <2>0, <2>1, <2>2, <2>3, <2>4 DEF AbsentIsClean
<1>3. ASSUME NEW c \in Conns, CatchUp(c) PROVE Plain'
  <2>0. UNCHANGED <<life, phase, prompting, uplink, prompter>>
    BY <1>3, CatchUpFrame DEF turnVars, clientVars
  <2>1. IdleHoldsNothing' /\ (\A d \in Conns \ {c} : replay'[d] = replay[d])
    <3>1. \A d \in Conns \ {c} : replay'[d] = replay[d]
      BY <1>3, <1>t DEF CatchUp, ReplayBegin, ReplayAsk, ReplayWalk, ReplayEnd, ReplayClear,
         ReplayRespond, RearmLook, RearmSend, ReplayDone, Replays
    <3>2. replay'[c].at = "idle" => replay'[c].open = {}
      <4>1. CASE ReplayBegin(c) \/ ReplayAsk(c) \/ ReplayEnd(c) \/ ReplayClear(c)
                   \/ ReplayRespond(c) \/ RearmSend(c)
        BY <1>t, <4>1, ConstantsAssumption DEF ReplayBegin, ReplayAsk, ReplayEnd, ReplayClear,
           ReplayRespond, RearmSend, Replays, Replay
      <4>2. CASE ReplayWalk(c)
        BY <1>t, <4>2 DEF ReplayWalk, Replay
      <4>3. CASE RearmLook(c)
        BY <1>t, <4>3, ConstantsAssumption DEF RearmLook, Replay, Stages
      <4>4. CASE ReplayDone(c)
        BY <1>t, <4>4 DEF ReplayDone, NoReplay
      <4>5. QED
        BY <1>3, <4>1, <4>2, <4>3, <4>4 DEF CatchUp
    <3>3. QED
      BY <3>1, <3>2 DEF IdleHoldsNothing
  <2>2. /\ AttachedIsOpen' /\ StagedIsTraffic' /\ attached' = attached
        /\ \A d \in Conns : queue'[d] = queue[d] \/ d \in attached
    <3>1. CASE ReplayBegin(c)
      <4>1. \A d \in Conns : staged'[d] \in {staged[d], <<>>}
        BY <1>t, <3>1 DEF ReplayBegin, BeginCatchUp
      <4>2. QED
        BY <1>e, <3>1, <4>1 DEF ReplayBegin, BeginCatchUp, AttachedIsOpen
    <3>2. CASE ReplayEnd(c)
      BY <1>e, <1>t, <3>2, EndCatchUpPlain DEF ReplayEnd, AttachedIsOpen
    <3>3. CASE ReplayWalk(c) \/ ReplayRespond(c) \/ RearmSend(c)
      <4>1. UNCHANGED routeVars \/ \E m : SendTo(c, m)
        BY <3>3 DEF ReplayWalk, ReplayRespond, RearmSend
      <4>2. QED
        BY <1>t, <4>1, SendToPlain DEF routeVars, AttachedIsOpen, StagedIsTraffic
    <3>4. CASE ReplayAsk(c) \/ ReplayClear(c) \/ RearmLook(c) \/ ReplayDone(c)
      <4>1. UNCHANGED routeVars
        BY <3>4 DEF ReplayAsk, ReplayClear, RearmLook, ReplayDone
      <4>2. QED
        BY <4>1 DEF routeVars, AttachedIsOpen, StagedIsTraffic
    <3>5. QED
      BY <1>3, <3>1, <3>2, <3>3, <3>4 DEF CatchUp
  <2>3. replay[c].at # "idle"
    BY <1>3, ConstantsAssumption DEF CatchUp, ReplayBegin, ReplayAsk, ReplayWalk, ReplayEnd,
       ReplayClear, ReplayRespond, RearmLook, RearmSend, ReplayDone, Replays, Stages
  <2>4. QED
    BY <2>0, <2>1, <2>2, <2>3 DEF AbsentIsClean
<1>4. ASSUME NEW t \in Turns, Soul(t) PROVE Plain'
  BY <1>4, SoulFrame DEF routeVars, connVars, clientVars, AbsentIsClean, AttachedIsOpen,
     StagedIsTraffic, IdleHoldsNothing
<1>5. ASSUME NEW t \in Turns, TurnTasks(t) PROVE Plain'
  <2>0. UNCHANGED <<life, phase, prompting, uplink, prompter, replay>>
    BY <1>5 DEF TurnTasks, StreamRequest, StreamEvent, Unpark, WriteRecord, ClearToken,
       AnswerPrompt, connVars, clientVars
  <2>1. /\ AttachedIsOpen' /\ StagedIsTraffic' /\ attached' = attached
        /\ \A d \in Conns : queue'[d] = queue[d] \/ d \in attached
    <3>1. CASE StreamRequest(t) \/ StreamEvent(t)
      <4>1. PICK m \in Record : Broadcast(m)
        BY <3>1, StreamHead, Messages DEF StreamRequest, StreamEvent
      <4>2. QED
        BY <1>m, <1>t, <4>1, BroadcastPlain DEF AttachedIsOpen
    <3>2. CASE AnswerPrompt(t)
      BY <1>t, <3>2, SendToPlain DEF AnswerPrompt, AttachedIsOpen, StagedIsTraffic
    <3>3. CASE Unpark(t) \/ WriteRecord(t) \/ ClearToken(t)
      <4>1. UNCHANGED routeVars
        BY <3>3 DEF Unpark, WriteRecord, ClearToken
      <4>2. QED
        BY <4>1 DEF routeVars, AttachedIsOpen, StagedIsTraffic
    <3>4. QED
      BY <1>5, <3>1, <3>2, <3>3 DEF TurnTasks
  <2>2. QED
    BY <2>0, <2>1 DEF AbsentIsClean, IdleHoldsNothing
<1>6. CASE Teardown
  <2>0. UNCHANGED <<life, phase, prompting, uplink, prompter, replay>>
    BY <1>6 DEF Teardown, RejectPending, CancelTurn, CutLoose, connVars, clientVars, turnVars
  <2>1. CASE CutLoose
    <3>1. /\ AttachedIsOpen' /\ attached' \subseteq attached /\ queue' = queue
          /\ StagedIsTraffic'
      BY <1>e, <1>t, <2>1, LeavePlain DEF CutLoose
    <3>2. QED
      BY <2>0, <3>1 DEF AbsentIsClean, IdleHoldsNothing
  <2>2. CASE RejectPending \/ CancelTurn
    BY <2>0, <2>2 DEF RejectPending, CancelTurn, routeVars, AbsentIsClean, AttachedIsOpen,
       StagedIsTraffic, IdleHoldsNothing
  <2>3. QED
    BY <1>6, <2>1, <2>2 DEF Teardown
<1>7. CASE UNCHANGED vars
  BY <1>7 DEF vars, routeVars, connVars, clientVars, turnVars, AbsentIsClean, AttachedIsOpen,
     StagedIsTraffic, IdleHoldsNothing
<1>8. QED
  BY <1>1, <1>2, <1>3, <1>4, <1>5, <1>6, <1>7 DEF Next

---------------------------------------------------------------------------------
(* The ledger of a client that is attached and there: what it asked is in one     *)
(* place until it is answered, and its screen says which question is open.        *)

One(p) == IF p THEN 1 ELSE 0

ReplayGoesOn(c) == replay[c].at \in {"begin", "ask", "walk", "clear", "respond"}

Owed(c) == {t \in Turns : prompter[t] = c
                            /\ turn[t] \in {"starting", "running", "closed", "cleared"}}

Ledger(c) ==
    /\ Count(uplink[c], "initialize") + Count(queue[c], "Initialized")
         = One(phase[c] = "Initializing")
    /\ Count(uplink[c], "replay") + One(ReplayGoesOn(c)) + Count(queue[c], "Replayed")
         + Count(queue[c], "ReplayedRunning") = One(phase[c] = "Replaying")
    /\ Count(uplink[c], "prompt") + One(life[c] = "prompting") + Cardinality(Owed(c))
         + Count(queue[c], "Prompted") = One(c \in prompting)
    /\ c \in prompting => phase[c] = "Running"

Ledgers == \A c \in attached : Here(c) => Ledger(c)

LEMMA LedgersSayPrompts == Ledgers => PromptInOnePlace
  BY DEF Ledgers, Ledger, PromptInOnePlace, Owed, One

LEMMA OwedIsFinite ==
  ASSUME NEW c PROVE IsFiniteSet(Owed(c)) /\ Cardinality(Owed(c)) \in Nat
<1>1. IsFiniteSet(Turns)
  BY ConstantsAssumption, FS_Interval DEF Turns
<1>2. IsFiniteSet(Owed(c))
  BY <1>1, FS_Subset DEF Owed
<1>3. QED
  BY <1>2, FS_CardinalityType

LEMMA CountsAreNat ==
  ASSUME TypeOK, NEW c \in Conns, NEW kind
  PROVE  Count(uplink[c], kind) \in Nat /\ Count(queue[c], kind) \in Nat
<1>1. uplink[c] \in Seq(Call) /\ queue[c] \in Seq(Message)
  BY DEF TypeOK, ClientTypeOK, FanoutTypeOK
<1>2. QED
  BY <1>1, OfKindFinite

LEMMA SendCounts ==
  ASSUME TypeOK, NEW c \in Conns, NEW call \in Call, Send(c, call), NEW kind
  PROVE  /\ call.kind = kind => Count(uplink'[c], kind) = Count(uplink[c], kind) + 1
         /\ call.kind # kind => Count(uplink'[c], kind) = Count(uplink[c], kind)
         /\ \A d \in Conns \ {c} : uplink'[d] = uplink[d]
<1>1. uplink \in [Conns -> Seq(Call)]
  BY DEF TypeOK, ClientTypeOK
<1>2. uplink'[c] = Append(uplink[c], call) /\ uplink[c] \in Seq(Call)
  BY <1>1 DEF Send
<1>3. QED
  BY <1>1, <1>2, CountAppend DEF Send

LEMMA ReadsCounts ==
  ASSUME TypeOK, NEW c \in Conns, NEW word, Reads(c, word), NEW kind
  PROVE  /\ word = kind => Count(uplink'[c], kind) = Count(uplink[c], kind) - 1
         /\ word # kind => Count(uplink[c], kind) = Count(uplink'[c], kind)
         /\ \A d \in Conns \ {c} : uplink'[d] = uplink[d]
<1>1. uplink \in [Conns -> Seq(Call)]
  BY DEF TypeOK, ClientTypeOK
<1>2. /\ uplink'[c] = Tail(uplink[c]) /\ uplink[c] \in Seq(Call) /\ uplink[c] # <<>>
      /\ Head(uplink[c]).kind = word
  BY <1>1 DEF Reads
<1>3. QED
  BY <1>1, <1>2, CountTail DEF Reads

LEMMA TakeCounts ==
  ASSUME TypeOK, NEW c \in Conns, Take(c), NEW kind
  PROVE  /\ Head(queue[c]).kind = kind => Count(queue'[c], kind) = Count(queue[c], kind) - 1
         /\ Head(queue[c]).kind # kind => Count(queue[c], kind) = Count(queue'[c], kind)
         /\ \A d \in Conns \ {c} : queue'[d] = queue[d]
<1>1. queue \in [Conns -> Seq(Message)]
  BY DEF TypeOK, FanoutTypeOK
<1>2. /\ queue'[c] = Tail(queue[c]) /\ queue[c] \in Seq(Message) /\ queue[c] # <<>>
  BY <1>1 DEF Take
<1>3. QED
  BY <1>1, <1>2, CountTail DEF Take

LEMMA SendToCounts ==
  ASSUME TypeOK, Plain, NEW c, NEW m \in Message, SendTo(c, m), NEW d \in attached, NEW kind
  PROVE  /\ d = c /\ m.kind = kind => Count(queue'[d], kind) = Count(queue[d], kind) + 1
         /\ d # c \/ m.kind # kind => Count(queue'[d], kind) = Count(queue[d], kind)
<1>1. d \in Conns /\ queue[d] \in Seq(Message)
  BY DEF TypeOK, FanoutTypeOK
<1>2. queue'[d] = IF d = c THEN Append(queue[d], m) ELSE queue[d]
  BY <1>1, SendToPlain DEF TypeOK, Plain
<1>3. QED
  BY <1>1, <1>2, CountAppend

\* The answers a connection gives, as against the traffic of turns.
Word == {"Initialized", "Replayed", "ReplayedRunning", "Prompted"}

LEMMA RecordKinds ==
  ASSUME NEW m \in Record
  PROVE  m.kind \in {"TurnBegin", "TurnEnd", "Request", "ApprovalResponse"}
  BY DEF Record

LEMMA BroadcastCounts ==
  ASSUME TypeOK, Plain, NEW m \in Record, Broadcast(m), NEW d \in Conns, NEW kind \in Word
  PROVE  Count(queue'[d], kind) = Count(queue[d], kind)
<1>1. queue[d] \in Seq(Message) /\ Count(queue[d], kind) \in Nat /\ m \in Message
  BY CountsAreNat, Messages DEF TypeOK, FanoutTypeOK
<1>2. queue'[d] \in {queue[d], Append(queue[d], m)}
  BY BroadcastPlain DEF TypeOK, Plain
<1>3. m.kind # kind
  BY RecordKinds DEF Word
<1>4. Count(Append(queue[d], m), kind) = Count(queue[d], kind)
  BY <1>1, <1>3, CountAppend
<1>5. QED
  BY <1>2, <1>4

LEMMA EndCatchUpCounts ==
  ASSUME TypeOK, Plain, NEW c \in Conns, EndCatchUp(c), NEW d \in Conns, NEW kind \in Word
  PROVE  Count(queue'[d], kind) = Count(queue[d], kind)
<1>1. /\ queue[d] \in Seq(Message) /\ staged[d] \in Seq(Message) /\ staged[d] \in Seq(Record)
  BY DEF TypeOK, FanoutTypeOK, Plain, StagedIsTraffic
<1>2. queue'[d] \in {queue[d], queue[d] \o staged[d]}
  BY EndCatchUpPlain DEF TypeOK, Plain
<1>3. \A i \in DOMAIN staged[d] : staged[d][i].kind # kind
  <2>1. \A i \in DOMAIN staged[d] : staged[d][i] \in Record
    BY <1>1
  <2>2. QED
    BY <2>1, RecordKinds DEF Word
<1>4. Count(queue[d] \o staged[d], kind) = Count(queue[d], kind)
  BY <1>1, <1>3, CountConcat
<1>5. QED
  BY <1>2, <1>4

LEMMA LedgerStep == TypeOK /\ Plain /\ Ledgers /\ [Next]_vars => Ledgers'
<1> SUFFICES ASSUME TypeOK, Plain, Ledgers, [Next]_vars,
                    NEW d \in Conns, d \in attached', Here(d)'
             PROVE  Ledger(d)'
  BY TypeStep DEF Ledgers, TypeOK, FanoutTypeOK
<1> DEFINE ui == Count(uplink[d], "initialize")
           ur == Count(uplink[d], "replay")
           up == Count(uplink[d], "prompt")
           qi == Count(queue[d], "Initialized")
           qr == Count(queue[d], "Replayed")
           qg == Count(queue[d], "ReplayedRunning")
           qp == Count(queue[d], "Prompted")
           on == One(ReplayGoesOn(d))
           lp == One(life[d] = "prompting")
           ow == Cardinality(Owed(d))
           Books == /\ phase[d] = "Initializing" => ui + qi = 1
                    /\ phase[d] # "Initializing" => ui + qi = 0
                    /\ phase[d] = "Replaying" => ur + on + qr + qg = 1
                    /\ phase[d] # "Replaying" => ur + on + qr + qg = 0
                    /\ d \in prompting => up + lp + ow + qp = 1 /\ phase[d] = "Running"
                    /\ d \notin prompting => up + lp + ow + qp = 0
           SameAsks == UNCHANGED <<ui, ur, up>>
           SameWords == UNCHANGED <<qi, qr, qg, qp>>
           SameScreen == phase'[d] = phase[d] /\ (d \in prompting' <=> d \in prompting)
           SameStage == UNCHANGED <<on, lp>>
           SameTurns == UNCHANGED ow
<1>l. (Ledger(d) <=> Books) /\ (Ledger(d)' <=> Books')
  BY DEF Ledger, One
<1>t. /\ life \in [Conns -> {"absent", "reading", "prompting", "closing",
                             "releasing", "detaching", "gone"}]
      /\ replay \in [Conns -> Replay]
      /\ phase \in [Conns -> {"Absent", "Initializing", "Replaying", "Ready", "Running",
                              "Detached", "Left"}]
      /\ prompting \subseteq Conns /\ attached \subseteq Conns
      /\ turn \in [Turns -> {"none", "starting", "running", "closed", "cleared", "done"}]
      /\ prompter \in [Turns -> Conns \cup {NoConn}]
  BY DEF TypeOK, ConnTypeOK, ClientTypeOK, TurnTypeOK, FanoutTypeOK
<1>n. /\ ui \in Nat /\ ur \in Nat /\ up \in Nat /\ on \in {0, 1}
      /\ qi \in Nat /\ qr \in Nat /\ qg \in Nat /\ qp \in Nat
      /\ lp \in {0, 1} /\ ow \in Nat
  BY CountsAreNat, OwedIsFinite DEF One
<1>m. /\ ui' \in Nat /\ ur' \in Nat /\ up' \in Nat /\ on' \in {0, 1}
      /\ qi' \in Nat /\ qr' \in Nat /\ qg' \in Nat /\ qp' \in Nat
      /\ lp' \in {0, 1} /\ ow' \in Nat
  <2>1. \A kind : Count(uplink'[d], kind) \in Nat /\ Count(queue'[d], kind) \in Nat
    <3>1. uplink'[d] \in Seq(Call) /\ queue'[d] \in Seq(Message)
      BY TypeStep DEF TypeOK, ClientTypeOK, FanoutTypeOK
    <3>2. QED
      BY <3>1, OfKindFinite
  <2>2. Cardinality(Owed(d)') \in Nat
    <3>1. Owed(d)' \subseteq Turns /\ IsFiniteSet(Turns)
      BY ConstantsAssumption, FS_Interval DEF Owed, Turns
    <3>2. QED
      BY <3>1, FS_Subset, FS_CardinalityType
  <2>3. QED
    BY <2>1, <2>2 DEF One
<1>o. Owed(d)' = {t \in Turns : prompter'[t] = d
                    /\ turn'[t] \in {"starting", "running", "closed", "cleared"}}
  BY DEF Owed
<1>u. (\A t \in Turns : prompter'[t] = prompter[t]
          /\ (turn'[t] \in {"starting", "running", "closed", "cleared"} <=>
              turn[t] \in {"starting", "running", "closed", "cleared"})) => SameTurns
  BY <1>o DEF Owed
<1>y. uplink'[d] = uplink[d] => SameAsks
  OBVIOUS
<1>q. queue'[d] = queue[d] => SameWords
  OBVIOUS
<1>v. replay'[d].at = replay[d].at => UNCHANGED on
  BY DEF ReplayGoesOn
<1>w. (life'[d] = "prompting" <=> life[d] = "prompting") => UNCHANGED lp
  BY DEF One
\* What goes up, comes off, and comes down, in the books of d.
<1>a. ASSUME NEW c \in Conns, NEW call \in Call, Send(c, call)
      PROVE  /\ d # c \/ call.kind \notin {"initialize", "replay", "prompt"} => SameAsks
             /\ d = c /\ call.kind = "initialize" => ui' = ui + 1 /\ UNCHANGED <<ur, up>>
             /\ d = c /\ call.kind = "replay" => ur' = ur + 1 /\ UNCHANGED <<ui, up>>
             /\ d = c /\ call.kind = "prompt" => up' = up + 1 /\ UNCHANGED <<ui, ur>>
  BY <1>a, <1>y, SendCounts
<1>b. ASSUME NEW c \in Conns, NEW word, Reads(c, word)
      PROVE  /\ d # c \/ word \notin {"initialize", "replay", "prompt"} => SameAsks
             /\ d = c /\ word = "initialize" => ui' = ui - 1 /\ UNCHANGED <<ur, up>>
             /\ d = c /\ word = "replay" => ur' = ur - 1 /\ UNCHANGED <<ui, up>>
             /\ d = c /\ word = "prompt" => up' = up - 1 /\ UNCHANGED <<ui, ur>>
  BY <1>b, <1>y, ReadsCounts
<1>c. ASSUME NEW c \in Conns, Take(c), NEW k, k = Head(queue[c]).kind
      PROVE  /\ d # c \/ k \notin Word => SameWords
             /\ d = c /\ k = "Initialized" => qi' = qi - 1 /\ UNCHANGED <<qr, qg, qp>>
             /\ d = c /\ k = "Replayed" => qr' = qr - 1 /\ UNCHANGED <<qi, qg, qp>>
             /\ d = c /\ k = "ReplayedRunning" => qg' = qg - 1 /\ UNCHANGED <<qi, qr, qp>>
             /\ d = c /\ k = "Prompted" => qp' = qp - 1 /\ UNCHANGED <<qi, qr, qg>>
  BY <1>c, <1>q, TakeCounts DEF Word
<1>d. ASSUME NEW c, NEW m \in Message, SendTo(c, m)
      PROVE  /\ attached' = attached
             /\ d # c \/ m.kind \notin Word => SameWords
             /\ d = c /\ m.kind = "Initialized" => qi' = qi + 1 /\ UNCHANGED <<qr, qg, qp>>
             /\ d = c /\ m.kind = "Replayed" => qr' = qr + 1 /\ UNCHANGED <<qi, qg, qp>>
             /\ d = c /\ m.kind = "ReplayedRunning" => qg' = qg + 1 /\ UNCHANGED <<qi, qr, qp>>
             /\ d = c /\ m.kind = "Prompted" => qp' = qp + 1 /\ UNCHANGED <<qi, qr, qg>>
  <2>1. attached' = attached
    BY <1>d, SendToPlain DEF Plain, TypeOK
  <2>2. QED
    BY <1>d, <2>1, SendToCounts DEF Word
<1> HIDE DEF ui, ur, up, qi, qr, qg, qp, on, lp, ow
<1> SUFFICES Books'
  BY <1>l
<1>h. d \in attached /\ Here(d) => Books
  BY <1>l DEF Ledgers
<1>s. ASSUME d \in attached, Here(d), SameWords, SameAsks, SameScreen, SameStage, SameTurns
      PROVE  Books'
  BY <1>h, <1>s
<1>1. ASSUME NEW c \in Conns, Client(c) PROVE Books'
  <2>0. UNCHANGED <<turn, prompter, replay>> /\ SameTurns
    BY <1>1, <1>u, ClientFrame DEF turnVars
  <2>1. CASE Connect(c)
    <3>1. CASE d # c
      BY <1>a, <1>q, <1>s, <1>t, <1>v, <1>w, <2>0, <2>1, <3>1, Messages
      DEF Connect, Attach, Here, Say, Msg
    <3>2. CASE d = c
      <4>1. /\ c \notin prompting /\ uplink[c] = <<>> /\ queue[c] = <<>>
            /\ replay[c].at = "idle" /\ \A t \in Turns : prompter[t] # c
        BY <2>1 DEF Connect, Plain, AbsentIsClean
      <4>2. ui = 0 /\ ur = 0 /\ up = 0 /\ qi = 0 /\ qr = 0 /\ qg = 0 /\ qp = 0
        BY <3>2, <4>1, CountEmpty DEF ui, ur, up, qi, qr, qg, qp
      <4>3. ow = 0 /\ on = 0
        <5>1. Owed(d) = {}
          BY <3>2, <4>1 DEF Owed
        <5>2. QED
          BY <3>2, <4>1, <5>1, FS_EmptySet DEF ow, on, ReplayGoesOn, One
      <4>4. /\ life'[c] = "reading" /\ phase'[c] = "Initializing" /\ queue' = queue
            /\ prompting' = prompting /\ Send(c, Say("initialize")) /\ replay' = replay
        BY <1>t, <2>0, <2>1 DEF Connect, Attach
      <4>5. ui' = ui + 1 /\ UNCHANGED <<ur, up>>
        BY <1>a, <3>2, <4>4, Messages DEF Say, Msg
      <4>6. SameWords /\ UNCHANGED on /\ lp' = 0
        BY <1>q, <1>v, <3>2, <4>4 DEF lp, One
      <4>7. QED
        BY <2>0, <3>2, <4>1, <4>2, <4>3, <4>4, <4>5, <4>6
    <3>3. QED
      BY <3>1, <3>2
  <2>2. CASE ~Connect(c)
    <3>0. UNCHANGED <<life, attached>> /\ d \in attached /\ SameStage
      BY <1>1, <1>v, <1>w, <2>0, <2>2, ClientFrame
    <3>1. CASE Submit(c)
      <4>1. SameWords /\ Send(c, Say("prompt")) /\ Say("prompt") \in Call
        BY <1>q, <3>1, Messages DEF Submit, routeVars
      <4>2. CASE d # c
        BY <1>a, <1>s, <1>t, <2>0, <3>0, <3>1, <4>1, <4>2 DEF Submit, Here
      <4>3. CASE d = c
        <5>1. /\ Here(c) /\ phase[c] = "Ready" /\ phase'[c] = "Running" /\ c \in prompting'
          BY <1>t, <3>1 DEF Submit, MayType
        <5>2. up' = up + 1 /\ UNCHANGED <<ui, ur>>
          BY <1>a, <4>1, <4>3 DEF Say, Msg
        <5>3. QED
          BY <1>h, <1>n, <2>0, <3>0, <4>1, <4>3, <5>1, <5>2
      <4>4. QED
        BY <4>2, <4>3
    <3>2. CASE Cancel(c) \/ Resolve(c) \/ AskToStop(c)
      <4>1. UNCHANGED <<queue, phase, prompting>>
        BY <3>2 DEF Cancel, Resolve, AskToStop, routeVars
      <4>2. PICK call \in Call : Send(c, call) /\ call.kind \in {"cancel", "answer", "shutdown"}
        BY <3>2, Messages DEF Cancel, Resolve, AskToStop, Say, Msg
      <4>3. SameAsks
        BY <1>a, <4>2
      <4>4. QED
        BY <1>q, <1>s, <2>0, <3>0, <4>1, <4>3 DEF Here
    <3>3. CASE HangUp(c) \/ ConnectionEnded(c)
      <4>1. d # c
        BY <1>t, <3>3 DEF HangUp, ConnectionEnded, Here
      <4>2. SameAsks
        BY <1>a, <1>y, <3>3, <4>1, Messages DEF HangUp, ConnectionEnded
      <4>3. QED
        BY <1>q, <1>s, <1>t, <2>0, <3>0, <3>3, <4>1, <4>2
        DEF HangUp, ConnectionEnded, Here, routeVars
    <3>4. CASE Lose(c)
      <4>1. d # c /\ UNCHANGED <<phase, prompting, uplink>> /\ Take(c)
        BY <3>4 DEF Lose, Here, clientVars
      <4>2. SameWords
        BY <1>c, <4>1
      <4>3. QED
        BY <1>s, <1>y, <2>0, <3>0, <4>1, <4>2 DEF Here
    <3>5. CASE Receive(c)
      <4> DEFINE m == Head(queue[c])
      <4>0. Take(c) /\ Here(c) /\ m \in Message
        BY <3>5, TakeType DEF Receive, TypeOK
      <4>c. /\ d # c \/ m.kind \notin Word => SameWords
            /\ d = c /\ m.kind = "Initialized" => qi' = qi - 1 /\ UNCHANGED <<qr, qg, qp>>
            /\ d = c /\ m.kind = "Replayed" => qr' = qr - 1 /\ UNCHANGED <<qi, qg, qp>>
            /\ d = c /\ m.kind = "ReplayedRunning" => qg' = qg - 1 /\ UNCHANGED <<qi, qr, qp>>
            /\ d = c /\ m.kind = "Prompted" => qp' = qp - 1 /\ UNCHANGED <<qi, qr, qg>>
        BY <1>c, <4>0
      <4>r. \/ m.kind \in {"TurnBegin", "TurnEnd", "ApprovalResponse"} /\ TakeEvent(c, m)
            \/ m.kind = "Request" /\ TakeRequest(c, m.of)
            \/ m \in Response /\ TakeResponse(c, m.kind)
        BY <3>5 DEF Receive
      <4> HIDE DEF m
      <4>1. CASE m.kind \in {"TurnBegin", "TurnEnd", "ApprovalResponse"} /\ TakeEvent(c, m)
        <5>1. UNCHANGED <<prompting, uplink>> /\ SameWords /\ SameAsks
          BY <1>y, <4>1, <4>c DEF TakeEvent, Word
        <5>2. \/ phase' = phase
              \/ /\ phase[c] = "Running" /\ c \notin prompting
                 /\ phase' = [phase EXCEPT ![c] = "Ready"]
          BY <4>1 DEF TakeEvent
        <5>3. CASE d # c
          BY <1>s, <1>t, <2>0, <3>0, <5>1, <5>2, <5>3 DEF Here
        <5>4. CASE d = c
          BY <1>h, <1>t, <2>0, <3>0, <4>0, <5>1, <5>2, <5>4
        <5>5. QED
          BY <5>3, <5>4
      <4>2. CASE m.kind = "Request" /\ TakeRequest(c, m.of)
        <5>1. UNCHANGED <<phase, prompting>> /\ SameWords
          BY <4>2, <4>c DEF TakeRequest, Word
        <5>2. SameAsks
          <6>1. Msg("answer", m.of) \in Call /\ Msg("answer", m.of).kind = "answer"
            BY <4>0, <4>2, Kinds, Messages DEF Msg
          <6>2. uplink' = uplink \/ Send(c, Msg("answer", m.of))
            BY <4>2 DEF TakeRequest
          <6>3. QED
            BY <1>a, <1>y, <6>1, <6>2
        <5>3. QED
          BY <1>s, <2>0, <3>0, <5>1, <5>2 DEF Here
      <4>3. CASE m \in Response /\ TakeResponse(c, m.kind)
        <5>1. m.kind \in Word
          BY <4>3 DEF Response, Word
        <5>2. /\ phase' = [phase EXCEPT ![c] = CASE m.kind = "Initialized" -> "Replaying"
                                                 [] m.kind = "ReplayedRunning" -> "Running"
                                                 [] OTHER -> "Ready"]
              /\ prompting' = IF m.kind = "Prompted" THEN prompting \ {c} ELSE prompting
              /\ m.kind = "Initialized" => Send(c, Say("replay"))
              /\ m.kind # "Initialized" => uplink' = uplink
          BY <4>3 DEF TakeResponse
        <5>3. CASE d # c
          <6>1. SameWords /\ SameAsks /\ SameScreen
            BY <1>a, <1>t, <1>y, <4>c, <5>2, <5>3, Messages DEF Say, Msg
          <6>2. QED
            BY <1>s, <2>0, <3>0, <6>1 DEF Here
        <5>4. CASE d = c
          <6>0. Books
            BY <1>h, <3>0, <4>0, <5>4
          <6>1. CASE m.kind = "Initialized"
            <7>1. /\ phase'[d] = "Replaying" /\ prompting' = prompting
                  /\ ur' = ur + 1 /\ UNCHANGED <<ui, up>>
                  /\ qi' = qi - 1 /\ UNCHANGED <<qr, qg, qp>>
              BY <1>a, <1>t, <4>c, <5>2, <5>4, <6>1, Messages DEF Say, Msg
            <7>2. ui + qi # 0
              BY <1>n, <1>m, <7>1
            <7>3. phase[d] = "Initializing" /\ ui + qi = 1 /\ ur + on + qr + qg = 0
                    /\ d \notin prompting /\ up + lp + ow + qp = 0
              BY <6>0, <7>2
            <7>4. ui' + qi' = 0 /\ ur' + on + qr + qg = 1
              BY <1>n, <1>m, <7>1, <7>3
            <7>5. QED
              BY <2>0, <3>0, <7>1, <7>3, <7>4
          <6>2. CASE m.kind \in {"Replayed", "ReplayedRunning"}
            <7>1. /\ phase'[d] \in {"Ready", "Running"} /\ prompting' = prompting
                  /\ SameAsks /\ UNCHANGED <<qi, qp>>
              BY <1>t, <1>y, <4>c, <5>2, <5>4, <6>2
            <7>2. \/ qr' = qr - 1 /\ qg' = qg
                  \/ qg' = qg - 1 /\ qr' = qr
              BY <4>c, <5>4, <6>2
            <7>c. ur + on + qr + qg # 0
              BY <1>n, <1>m, <7>2
            <7>3. /\ phase[d] = "Replaying" /\ ur + on + qr + qg = 1 /\ ui + qi = 0
                  /\ d \notin prompting /\ up + lp + ow + qp = 0
              BY <6>0, <7>c
            <7>4. ur + on + qr' + qg' = 0
              <8>1. ur = 0 /\ on = 0 /\ qr + qg = 1
                BY <1>n, <1>m, <7>2, <7>3
              <8>2. qr' = 0 /\ qg' = 0
                BY <1>n, <1>m, <7>2, <8>1
              <8>3. QED
                BY <8>1, <8>2
            <7>5. QED
              BY <2>0, <3>0, <7>1, <7>3, <7>4
          <6>3. CASE m.kind = "Prompted"
            <7>1. /\ phase'[d] = "Ready" /\ d \notin prompting'
                  /\ SameAsks /\ qp' = qp - 1 /\ UNCHANGED <<qi, qr, qg>>
              BY <1>t, <1>y, <4>c, <5>2, <5>4, <6>3
            <7>2. up + lp + ow + qp # 0
              BY <1>n, <1>m, <7>1
            <7>3. phase[d] = "Running" /\ up + lp + ow + qp = 1 /\ ui + qi = 0
                    /\ ur + on + qr + qg = 0
              BY <6>0, <7>2
            <7>4. up + lp + ow + qp' = 0
              BY <1>n, <1>m, <7>1, <7>3
            <7>5. QED
              BY <2>0, <3>0, <7>1, <7>3, <7>4
          <6>4. QED
            BY <5>1, <6>1, <6>2, <6>3 DEF Word
        <5>5. QED
          BY <5>3, <5>4
      <4>4. QED
        BY <4>r, <4>1, <4>2, <4>3
    <3>6. QED
      BY <1>1, <2>2, <3>1, <3>2, <3>3, <3>4, <3>5 DEF Client
  <2>3. QED
    BY <2>1, <2>2
<1>2. ASSUME NEW c \in Conns, Handler(c) PROVE Books'
  <2>0. /\ UNCHANGED <<phase, prompting>> /\ d \in attached /\ Here(d) /\ Books
        /\ \A e \in Conns \ {c} : replay'[e] = replay[e] /\ life'[e] = life[e]
    <3>1. UNCHANGED <<phase, prompting>> /\ \A e \in Conns \ {c} : life'[e] = life[e]
      BY <1>2, <1>t DEF Handler, HandleInitialize, HandlePrompt, RefusePrompt, AdmitPrompt,
         StartTurn, HandleReplay, HandleCancel, HandleShutdown, HandleResponse, StopReading,
         AwaitReplay, ReleaseExternalTools, Close, Reads, clientVars, connVars
    <3>2. \A e \in Conns \ {c} : replay'[e] = replay[e]
      BY <1>2, <1>t, HandlerCatchUp
    <3>3. attached' \subseteq attached
      BY <1>2, SendToPlain, LeavePlain DEF Handler, HandleInitialize, HandlePrompt,
         RefusePrompt, AdmitPrompt, StartTurn, HandleReplay, HandleCancel, HandleShutdown,
         HandleResponse, StopReading, AwaitReplay, ReleaseExternalTools, Close, routeVars,
         Plain, TypeOK
    <3>4. QED
      BY <1>h, <3>1, <3>2, <3>3 DEF Here
  <2>d. d # c => SameStage
    BY <1>v, <1>w, <2>0
  <2>1. CASE HandleInitialize(c)
    <3>1. /\ SendTo(c, Say("Initialized")) /\ Say("Initialized") \in Message
          /\ Reads(c, "initialize") /\ UNCHANGED <<life, replay, turn, prompter>>
      BY <2>1, Messages DEF HandleInitialize, turnVars
    <3>2. SameStage /\ SameTurns
      BY <1>u, <1>v, <1>w, <3>1
    <3>3. d # c => SameAsks /\ SameWords
      BY <1>b, <1>d, <3>1
    <3>4. d = c => ui' = ui - 1 /\ qi' = qi + 1 /\ UNCHANGED <<ur, up, qr, qg, qp>>
      BY <1>b, <1>d, <3>1 DEF Say, Msg
    <3>5. CASE d # c
      BY <2>0, <3>2, <3>3, <3>5
    <3>6. CASE d = c
      <4>1. ui' + qi' = ui + qi
        BY <1>n, <1>m, <3>4, <3>6
      <4>2. QED
        BY <2>0, <3>2, <3>4, <3>6, <4>1
    <3>7. QED
      BY <3>5, <3>6
  <2>2. CASE HandlePrompt(c)
    <3>1. /\ Reads(c, "prompt") /\ life[c] = "reading"
          /\ UNCHANGED <<replay, turn, prompter>>
          /\ \/ SendTo(c, Say("Prompted")) /\ life' = life
             \/ life' = [life EXCEPT ![c] = "prompting"] /\ queue' = queue
      BY <2>2 DEF HandlePrompt, RefusePrompt, AdmitPrompt, turnVars, routeVars, Reads
    <3>2. SameTurns /\ UNCHANGED on
      BY <1>u, <1>v, <3>1
    <3>3. CASE d # c
      BY <1>b, <1>d, <1>q, <2>0, <2>d, <3>1, <3>2, <3>3, Messages
    <3>4. CASE d = c
      <4>1. up' = up - 1 /\ UNCHANGED <<ui, ur>>
        BY <1>b, <3>1, <3>4
      <4>2. CASE SendTo(c, Say("Prompted")) /\ life' = life
        <5>1. UNCHANGED lp /\ qp' = qp + 1 /\ UNCHANGED <<qi, qr, qg>>
          BY <1>d, <1>w, <3>4, <4>2, Messages DEF Say, Msg
        <5>2. up' + lp + ow + qp' = up + lp + ow + qp
          BY <1>n, <1>m, <4>1, <5>1
        <5>3. QED
          BY <2>0, <3>2, <4>1, <5>1, <5>2
      <4>3. CASE life' = [life EXCEPT ![c] = "prompting"] /\ queue' = queue
        <5>1. SameWords /\ lp = 0 /\ lp' = 1
          BY <1>q, <1>t, <3>1, <3>4, <4>3 DEF lp, One
        <5>2. up' + lp' + ow + qp = up + lp + ow + qp
          BY <1>n, <1>m, <4>1, <5>1
        <5>3. QED
          BY <2>0, <3>2, <4>1, <5>1, <5>2
      <4>4. QED
        BY <3>1, <4>2, <4>3
    <3>5. QED
      BY <3>3, <3>4
  <2>3. CASE StartTurn(c)
    <3>1. /\ life[c] = "prompting" /\ life' = [life EXCEPT ![c] = "reading"]
          /\ UNCHANGED <<queue, uplink, replay>>
      BY <2>3 DEF StartTurn, routeVars, clientVars
    <3>2. PICK t \in Turns : /\ turn[t] = "none" /\ turn' = [turn EXCEPT ![t] = "starting"]
                             /\ prompter' = [prompter EXCEPT ![t] = c]
      BY <2>3 DEF StartTurn
    <3>3. SameWords /\ SameAsks /\ UNCHANGED on
      BY <1>q, <1>v, <1>y, <3>1
    <3>4. CASE d # c
      <4>1. Owed(d)' = Owed(d)
        BY <1>o, <1>t, <3>2, <3>4 DEF Owed
      <4>2. QED
        BY <2>0, <2>d, <3>3, <3>4, <4>1 DEF ow
    <3>5. CASE d = c
      <4>1. Owed(d)' = Owed(d) \cup {t} /\ t \notin Owed(d)
        BY <1>o, <1>t, <3>2, <3>5 DEF Owed
      <4>2. ow' = ow + 1
        BY <4>1, OwedIsFinite, FS_AddElement DEF ow
      <4>3. lp = 1 /\ lp' = 0
        BY <1>t, <3>1, <3>5 DEF lp, One
      <4>4. QED
        BY <1>n, <1>m, <2>0, <3>3, <4>2, <4>3
    <3>6. QED
      BY <3>4, <3>5
  <2>4. CASE HandleReplay(c)
    <3>1. /\ Reads(c, "replay") /\ UNCHANGED <<life, turn, prompter, queue>>
          /\ replay' = [replay EXCEPT ![c] = [NoReplay EXCEPT !.at = "begin"]]
      BY <2>4 DEF HandleReplay, turnVars, routeVars
    <3>2. SameTurns /\ SameWords /\ UNCHANGED lp
      BY <1>q, <1>u, <1>w, <3>1
    <3>3. CASE d # c
      BY <1>b, <2>0, <2>d, <3>1, <3>2, <3>3
    <3>4. CASE d = c
      <4>1. ur' = ur - 1 /\ UNCHANGED <<ui, up>>
        BY <1>b, <3>1, <3>4
      <4>2. on' = 1
        BY <1>t, <3>1, <3>4 DEF NoReplay, on, ReplayGoesOn, One
      <4>3. ur + on + qr + qg # 0
        BY <1>n, <1>m, <4>1
      <4>4. phase[d] = "Replaying" /\ ur + on + qr + qg = 1
        BY <2>0, <4>3
      <4>5. ur' + on' + qr + qg = 1
        BY <1>n, <1>m, <4>1, <4>2, <4>4
      <4>6. QED
        BY <2>0, <3>2, <4>1, <4>4, <4>5
    <3>5. QED
      BY <3>3, <3>4
  <2>5. CASE HandleCancel(c) \/ HandleShutdown(c) \/ HandleResponse(c) \/ StopReading(c)
    <3>1. /\ UNCHANGED <<replay, turn, prompter, queue>>
          /\ \/ life' = life
             \/ life[c] = "reading" /\ life' = [life EXCEPT ![c] = "closing"]
      BY <2>5 DEF HandleCancel, HandleShutdown, HandleResponse, StopReading, Reads, turnVars,
         connVars, routeVars
    <3>2. \/ \E word \in {"cancel", "shutdown", "answer", "eof"} : Reads(c, word)
          \/ uplink' = uplink
      BY <2>5 DEF HandleCancel, HandleShutdown, HandleResponse, StopReading, clientVars
    <3>3. SameAsks
      BY <1>b, <1>y, <3>2
    <3>4. QED
      BY <1>q, <1>s, <1>t, <1>u, <1>v, <1>w, <2>0, <3>1, <3>3
  <2>6. CASE AwaitReplay(c) \/ ReleaseExternalTools(c) \/ Close(c)
    <3>1. UNCHANGED <<replay, turn, prompter, queue, uplink>>
      BY <2>6 DEF AwaitReplay, ReleaseExternalTools, Close, Detach, turnVars, connVars,
         routeVars, clientVars
    <3>2. life'[d] = "prompting" <=> life[d] = "prompting"
      BY <1>t, <2>6 DEF AwaitReplay, ReleaseExternalTools, Close
    <3>3. QED
      BY <1>q, <1>s, <1>u, <1>v, <1>w, <1>y, <2>0, <3>1, <3>2
  <2>7. QED
    BY <1>2, <2>1, <2>2, <2>3, <2>4, <2>5, <2>6 DEF Handler
<1>3. ASSUME NEW c \in Conns, CatchUp(c) PROVE Books'
  <2>0. UNCHANGED <<phase, prompting, uplink, life, turn, prompter>>
    BY <1>3, CatchUpFrame DEF turnVars, clientVars
  <2>1. /\ attached' = attached
        /\ \A e \in Conns \ {c} : replay'[e] = replay[e]
    <3>1. attached' = attached
      BY <1>3, SendToPlain, EndCatchUpPlain DEF CatchUp, ReplayBegin, BeginCatchUp, ReplayAsk,
         ReplayWalk, ReplayEnd, ReplayClear, ReplayRespond, RearmLook, RearmSend, ReplayDone,
         routeVars, Plain, TypeOK
    <3>2. \A e \in Conns \ {c} : replay'[e] = replay[e]
      BY <1>3, <1>t DEF CatchUp, ReplayBegin, ReplayAsk, ReplayWalk, ReplayEnd, ReplayClear,
         ReplayRespond, RearmLook, RearmSend, ReplayDone, Replays
    <3>3. QED
      BY <3>1, <3>2
  <2>h. Books /\ SameAsks /\ SameTurns /\ UNCHANGED lp /\ SameScreen
    BY <1>h, <1>u, <1>w, <1>y, <2>0, <2>1 DEF Here
  \* But for its answer, nothing a catch-up sends is an answer.
  <2>q. ASSUME SameWords, ReplayGoesOn(c)' <=> ReplayGoesOn(c) PROVE Books'
    <3>1. ReplayGoesOn(d)' <=> ReplayGoesOn(d)
      BY <2>1, <2>q DEF ReplayGoesOn
    <3>2. UNCHANGED on
      BY <3>1 DEF on, One
    <3>3. QED
      BY <2>h, <2>q, <3>2
  <2>2. CASE ReplayBegin(c) \/ ReplayAsk(c) \/ ReplayClear(c)
    <3>1. queue' = queue
      BY <2>2 DEF ReplayBegin, BeginCatchUp, ReplayAsk, ReplayClear, routeVars
    <3>2. ReplayGoesOn(c)' <=> ReplayGoesOn(c)
      BY <1>t, <2>2 DEF ReplayBegin, ReplayAsk, ReplayClear, Replays, ReplayGoesOn, Replay
    <3>3. QED
      BY <1>q, <2>q, <3>1, <3>2
  <2>3. CASE RearmLook(c) \/ ReplayDone(c)
    <3>1. queue' = queue
      BY <2>3 DEF RearmLook, ReplayDone, routeVars
    <3>2. ReplayGoesOn(c)' <=> ReplayGoesOn(c)
      <4>1. replay[c].at = "rearm" /\ replay'[c].at \in {"rearm", "idle"} \cup Requests
        <5>1. CASE RearmLook(c)
          <6>1. PICK r \in replay[c].open :
                  replay' = [replay EXCEPT ![c].open = @ \ {r},
                                           ![c].at = IF r \in pending THEN r ELSE @]
            BY <5>1 DEF RearmLook
          <6>2. r \in Requests /\ replay[c].at = "rearm" /\ replay[c] \in Replay
            BY <1>t, <5>1 DEF RearmLook, Replay
          <6>3. QED
            BY <1>t, <6>1, <6>2 DEF Replay
        <5>2. CASE ReplayDone(c)
          BY <1>t, <5>2 DEF ReplayDone, NoReplay
        <5>3. QED
          BY <2>3, <5>1, <5>2
      <4>2. QED
        BY <4>1, ConstantsAssumption DEF ReplayGoesOn, Stages
    <3>3. QED
      BY <1>q, <2>q, <3>1, <3>2
  <2>4. CASE ReplayWalk(c)
    <3>1. queue' = queue \/ \E m \in Record : SendTo(c, m)
      <4>1. file \in Seq(Record) /\ replay[c].pos \in Nat \ {0}
        BY <1>t DEF TypeOK, RecordTypeOK, Replay
      <4>2. replay[c].pos <= Len(file) => file[replay[c].pos] \in Record
        BY <4>1
      <4>3. QED
        BY <2>4, <4>2 DEF ReplayWalk, routeVars
    <3>2. SameWords
      BY <1>d, <1>q, <3>1, Messages, RecordKinds DEF Word
    <3>3. ReplayGoesOn(c)' <=> ReplayGoesOn(c)
      BY <1>t, <2>4 DEF ReplayWalk, ReplayGoesOn, Replay
    <3>4. QED
      BY <2>q, <3>2, <3>3
  <2>5. CASE ReplayEnd(c)
    <3>1. SameWords
      BY <2>5, EndCatchUpCounts DEF ReplayEnd, qi, qr, qg, qp, Word
    <3>2. ReplayGoesOn(c)' <=> ReplayGoesOn(c)
      BY <1>t, <2>5 DEF ReplayEnd, ReplayGoesOn, Replay
    <3>3. QED
      BY <2>q, <3>1, <3>2
  <2>6. CASE RearmSend(c)
    <3>1. PICK r \in Requests : Replays(c, r, "rearm") /\ SendTo(c, Msg("Request", r))
      BY <2>6 DEF RearmSend
    <3>2. SameWords
      BY <1>d, <3>1, Messages DEF Msg, Word
    <3>3. ReplayGoesOn(c)' <=> ReplayGoesOn(c)
      BY <1>t, <3>1, ConstantsAssumption DEF Replays, ReplayGoesOn, Replay, Stages
    <3>4. QED
      BY <2>q, <3>2, <3>3
  <2>7. CASE ReplayRespond(c)
    <3>1. /\ replay[c].at = "respond" /\ replay'[c].at = "rearm"
          /\ \E k \in {"Replayed", "ReplayedRunning"} : SendTo(c, Say(k))
      BY <1>t, <2>7 DEF ReplayRespond, Replays, Replay
    <3>2. PICK k \in {"Replayed", "ReplayedRunning"} : SendTo(c, Say(k))
      BY <3>1
    <3>3. d = c => on = 1 /\ on' = 0
      BY <3>1 DEF on, ReplayGoesOn, One
    <3>4. d # c => SameWords /\ UNCHANGED on
      BY <1>d, <1>v, <2>1, <3>2, Messages
    <3>5. d = c => qr' + qg' = qr + qg + 1 /\ UNCHANGED <<qi, qp>>
      <4>1. Say(k) \in Message /\ Say(k).kind = k
        BY Messages DEF Say, Msg
      <4>2. CASE k = "Replayed"
        BY <1>d, <1>n, <3>2, <4>1, <4>2
      <4>3. CASE k = "ReplayedRunning"
        BY <1>d, <1>n, <3>2, <4>1, <4>3
      <4>4. QED
        BY <4>2, <4>3
    <3>6. CASE d # c
      BY <2>h, <3>4, <3>6
    <3>7. CASE d = c
      <4>1. ur + on + qr + qg # 0 /\ ur + on + qr + qg = 1
        BY <1>n, <2>h, <3>3, <3>7
      <4>2. ur = 0 /\ qr = 0 /\ qg = 0
        BY <1>n, <3>3, <3>7, <4>1
      <4>3. ur' + on' + qr' + qg' = 1
        BY <1>m, <2>h, <3>3, <3>5, <3>7, <4>2
      <4>4. QED
        BY <2>h, <3>5, <3>7, <4>1, <4>3
    <3>8. QED
      BY <3>6, <3>7
  <2>8. QED
    BY <1>3, <2>2, <2>3, <2>4, <2>5, <2>6, <2>7 DEF CatchUp
<1>4. ASSUME NEW t \in Turns, Soul(t) PROVE Books'
  <2>1. UNCHANGED <<attached, queue, life, replay, prompter, phase, prompting, uplink>>
    BY <1>4, SoulFrame DEF routeVars, connVars, clientVars
  <2>2. \/ turn' = turn
        \/ turn[t] = "starting" /\ turn' = [turn EXCEPT ![t] = "running"]
        \/ turn[t] \in {"starting", "running"} /\ turn' = [turn EXCEPT ![t] = "closed"]
    BY <1>4 DEF Soul, SoulBegin, SoulFinish, SoulCutShort, SoulAsk, SoulAnswered
  <2>3. SameTurns
    BY <1>t, <1>u, <2>1, <2>2
  <2>4. QED
    BY <1>q, <1>s, <1>v, <1>w, <1>y, <2>1, <2>3 DEF Here
<1>5. ASSUME NEW t \in Turns, TurnTasks(t) PROVE Books'
  <2>0. UNCHANGED <<life, replay, prompter, phase, prompting, uplink>>
    BY <1>5 DEF TurnTasks, StreamRequest, StreamEvent, Unpark, WriteRecord, ClearToken,
       AnswerPrompt, connVars, clientVars
  <2>s. SameAsks /\ SameScreen /\ SameStage /\ (attached' = attached => Books)
    BY <1>h, <1>v, <1>w, <1>y, <2>0 DEF Here
  <2>1. CASE StreamRequest(t) \/ StreamEvent(t)
    <3>1. PICK m \in Record : Broadcast(m)
      BY <2>1, StreamHead, Messages DEF StreamRequest, StreamEvent
    <3>2. attached' = attached /\ SameWords
      BY <3>1, BroadcastPlain, BroadcastCounts DEF Plain, TypeOK, qi, qr, qg, qp, Word
    <3>3. turn' = turn
      BY <2>1 DEF StreamRequest, StreamEvent
    <3>4. QED
      BY <1>u, <2>0, <2>s, <3>2, <3>3
  <2>2. CASE Unpark(t) \/ WriteRecord(t) \/ ClearToken(t)
    <3>1. UNCHANGED <<attached, queue>>
      BY <2>2 DEF Unpark, WriteRecord, ClearToken, routeVars
    <3>2. turn' = turn \/ (turn[t] = "closed" /\ turn' = [turn EXCEPT ![t] = "cleared"])
      BY <2>2 DEF Unpark, WriteRecord, ClearToken
    <3>3. SameTurns
      BY <1>t, <1>u, <2>0, <3>2
    <3>4. QED
      BY <1>q, <2>s, <3>1, <3>3
  <2>3. CASE AnswerPrompt(t)
    <3>1. /\ turn[t] = "cleared" /\ turn' = [turn EXCEPT ![t] = "done"]
          /\ SendTo(prompter[t], Say("Prompted")) /\ Say("Prompted") \in Message
      BY <2>3, Messages DEF AnswerPrompt
    <3>2. attached' = attached
      BY <1>d, <3>1
    <3>3. CASE d = prompter[t]
      <4>1. Owed(d)' = Owed(d) \ {t} /\ t \in Owed(d)
        BY <1>o, <1>t, <2>0, <3>1, <3>3 DEF Owed
      <4>2. ow' = ow - 1
        BY <4>1, OwedIsFinite, FS_RemoveElement DEF ow
      <4>3. qp' = qp + 1 /\ UNCHANGED <<qi, qr, qg>>
        BY <1>d, <3>1, <3>3 DEF Say, Msg
      <4>4. QED
        BY <1>n, <1>m, <2>s, <3>2, <4>2, <4>3
    <3>4. CASE d # prompter[t]
      <4>1. Owed(d)' = Owed(d)
        BY <1>o, <1>t, <2>0, <3>1, <3>4 DEF Owed
      <4>2. SameWords
        BY <1>d, <3>1, <3>4
      <4>3. QED
        BY <2>s, <3>2, <4>1, <4>2 DEF ow
    <3>5. QED
      BY <3>3, <3>4
  <2>4. QED
    BY <1>5, <2>1, <2>2, <2>3 DEF TurnTasks
<1>6. CASE Teardown
  <2>1. /\ UNCHANGED <<life, replay, prompter, phase, prompting, uplink, turn, queue>>
        /\ attached' \subseteq attached
    BY <1>6, LeavePlain DEF Teardown, RejectPending, CancelTurn, CutLoose, connVars, clientVars,
       turnVars, routeVars, Plain, TypeOK
  <2>2. QED
    BY <1>q, <1>s, <1>u, <1>v, <1>w, <1>y, <2>1 DEF Here
<1>7. CASE UNCHANGED vars
  <2>1. UNCHANGED <<life, replay, prompter, phase, prompting, uplink, turn, queue, attached>>
    BY <1>7 DEF vars, routeVars, connVars, clientVars, turnVars
  <2>2. QED
    BY <1>q, <1>s, <1>u, <1>v, <1>w, <1>y, <2>1 DEF Here
<1>8. QED
  BY <1>1, <1>2, <1>3, <1>4, <1>5, <1>6, <1>7 DEF Next

LEMMA PlainAndLedgersInit == Init => Plain /\ Ledgers
<1> SUFFICES ASSUME Init PROVE Plain /\ Ledgers
  OBVIOUS
<1>1. Plain
  <2>1. <<>> \in Seq(Record)
    OBVIOUS
  <2>2. QED
    BY <2>1, ConstantsAssumption DEF Init, Plain, AbsentIsClean, AttachedIsOpen,
       StagedIsTraffic, IdleHoldsNothing, NoReplay
<1>2. ASSUME NEW c \in attached PROVE Ledger(c)
  <2>1. c \in Veterans /\ c \in Conns
    BY <1>2, ConstantsAssumption DEF Init
  <2>2. /\ uplink[c] = <<>> /\ queue[c] = <<>> /\ phase[c] = "Ready" /\ c \notin prompting
        /\ life[c] = "reading" /\ replay[c].at = "idle"
    BY <2>1 DEF Init, NoReplay
  <2>3. Owed(c) = {} /\ Cardinality(Owed(c)) = 0
    <3>1. Owed(c) = {}
      BY <2>1, ConstantsAssumption DEF Init, Owed
    <3>2. QED
      BY <3>1, FS_EmptySet
  <2>4. QED
    BY <2>2, <2>3, CountEmpty DEF Ledger, One, ReplayGoesOn
<1>3. QED
  BY <1>1, <1>2 DEF Ledgers

LEMMA LedgersCorrect == Spec => [](Plain /\ Ledgers)
<1>1. Init => Plain /\ Ledgers
  BY PlainAndLedgersInit
<1>2. TypeOK /\ Plain /\ Ledgers /\ [Next]_vars => Plain' /\ Ledgers'
  BY PlainStep, LedgerStep
<1>3. QED
  BY <1>1, <1>2, TypeCorrect, PTL DEF Spec

(* server.rs:561-566, session.rs:553-557: the prompt of a client that waits for its
   answer is in exactly one place -- on its way up, being admitted, a turn, or an
   answer on its way down -- whoever else types, cancels or leaves meanwhile. *)
THEOREM PromptsCorrect == Spec => []PromptInOnePlace
<1>1. Plain /\ Ledgers => PromptInOnePlace
  BY LedgersSayPrompts
<1>2. QED
  BY <1>1, LedgersCorrect, PTL

---------------------------------------------------------------------------------
(* An answer on its way to the clients is an answer given: no message takes a      *)
(* dialog down while its request is still open.                                    *)

\* What the wire may say: the answer to a request only once there is one.
TrueRecord == {m \in Record : m.kind = "ApprovalResponse" => answer[m.of] # "none"}

AnswersAreGiven ==
    /\ \A t \in Turns : raw[t] \in Seq(TrueRecord) /\ rec[t] \in Seq(TrueRecord)
    /\ file \in Seq(TrueRecord)
    /\ \A c \in Conns : /\ staged[c] \in Seq(TrueRecord)
                        /\ queue[c] \in Seq(TrueRecord \cup Response)

\* A request has an answer only once it was raised, heard and taken off the table.
OpenIsUnanswered ==
    /\ \A r \in pending : answer[r] = "none"
    /\ \A r \in Requests : answer[r] # "none" => asker[r] # NoTurn
    /\ \A t \in Turns : \A i \in 1..Len(raw[t]) :
          raw[t][i].kind = "Request" => answer[raw[t][i].of] = "none"

LEMMA SeqGrows ==
  ASSUME NEW S, NEW T, S \subseteq T, NEW s \in Seq(S) PROVE s \in Seq(T)
  OBVIOUS

LEMMA SeqSteps ==
  ASSUME NEW S, NEW s \in Seq(S)
  PROVE  /\ \A m \in S : Append(s, m) \in Seq(S)
         /\ s # <<>> => Head(s) \in S /\ Tail(s) \in Seq(S)
         /\ \A u \in Seq(S) : s \o u \in Seq(S)
  OBVIOUS

LEMMA AnswerSteps ==
  ASSUME TypeOK, [Next]_vars
  PROVE  \A r \in Requests : /\ answer[r] # "none" => answer'[r] # "none"
                             /\ answer'[r] # answer[r] => r \in pending \ pending'
<1>t. answer \in [Requests -> {"none", "client", "shutdown"}]
  BY DEF TypeOK, RecordTypeOK
<1>1. ASSUME NEW c \in Conns, Client(c) \/ CatchUp(c) PROVE answer' = answer
  BY <1>1, ClientFrame, CatchUpFrame DEF recordVars
<1>2. ASSUME NEW c \in Conns, Handler(c), ~HandleResponse(c) PROVE answer' = answer
  BY <1>2 DEF Handler, HandleInitialize, HandlePrompt, StartTurn, HandleReplay, HandleCancel,
     HandleShutdown, StopReading, AwaitReplay, ReleaseExternalTools, Close, recordVars
<1>3. ASSUME NEW c \in Conns, HandleResponse(c)
      PROVE  \E r : pending' = pending \ {r} /\ answer' = Resolved(pending \cap {r}, "client")
  BY <1>3 DEF HandleResponse
<1>4. ASSUME NEW t \in Turns, Soul(t) \/ TurnTasks(t) PROVE answer' = answer
  BY <1>4 DEF Soul, SoulBegin, SoulFinish, SoulCutShort, SoulAsk, SoulAnswered, TurnTasks,
     StreamRequest, StreamEvent, Unpark, WriteRecord, ClearToken, AnswerPrompt, recordVars
<1>5. ASSUME Teardown
      PROVE  answer' = answer \/ (pending' = {} /\ answer' = Resolved(pending, "shutdown"))
  BY <1>5 DEF Teardown, RejectPending, CancelTurn, CutLoose, recordVars
<1>6. CASE UNCHANGED vars
  BY <1>6 DEF vars, recordVars
<1>7. QED
  BY <1>t, <1>1, <1>2, <1>3, <1>4, <1>5, <1>6 DEF Next, Resolved

LEMMA TruthGrows ==
  ASSUME TypeOK, [Next]_vars
  PROVE  TrueRecord \subseteq TrueRecord'
<1>1. ASSUME NEW m \in Record, m.kind = "ApprovalResponse" PROVE m.of \in Requests
  BY <1>1, Messages, Kinds
<1>2. QED
  BY <1>1, AnswerSteps DEF TrueRecord

LEMMA AnswersStep == TypeOK /\ Plain /\ AnswersAreGiven /\ [Next]_vars => AnswersAreGiven'
<1> SUFFICES ASSUME TypeOK, Plain, AnswersAreGiven, [Next]_vars PROVE AnswersAreGiven'
  OBVIOUS
<1> DEFINE R == TrueRecord'
           M == TrueRecord' \cup Response
           Wires == \A t \in Turns : raw'[t] \in Seq(R) /\ rec'[t] \in Seq(R)
           Routes == \A d \in Conns : staged'[d] \in Seq(R) /\ queue'[d] \in Seq(M)
<1>t. /\ FanoutTypeOK /\ AttachedIsOpen /\ replay \in [Conns -> Replay]
      /\ raw \in [Turns -> Seq(Record)] /\ rec \in [Turns -> Seq(Record)]
  BY DEF TypeOK, Plain, ConnTypeOK, TurnTypeOK
<1>o. /\ \A t \in Turns : raw[t] \in Seq(R) /\ rec[t] \in Seq(R)
      /\ file \in Seq(R)
      /\ \A d \in Conns : staged[d] \in Seq(R) /\ queue[d] \in Seq(M)
  <2>1. TrueRecord \subseteq R /\ TrueRecord \cup Response \subseteq M
    BY TruthGrows
  <2>2. QED
    BY <2>1, SeqGrows DEF AnswersAreGiven
<1>r. R \subseteq M /\ <<>> \in Seq(R) /\ \A k \in Word : Say(k) \in M
  BY DEF Word, Response, Say, Msg, NoTurn
<1>q. AnswersAreGiven' <=> Wires /\ file' \in Seq(R) /\ Routes
  BY DEF AnswersAreGiven
<1>k. ASSUME NEW r \in Requests PROVE Msg("Request", r) \in R
  BY Messages DEF TrueRecord, Msg
<1> HIDE DEF R, M
<1>w. UNCHANGED <<raw, rec>> => Wires
  BY <1>o
<1>f. UNCHANGED <<queue, staged>> => Routes
  BY <1>o
<1>s. ASSUME NEW c, NEW m \in M, SendTo(c, m) PROVE Routes
  <2>1. /\ staged' = staged
        /\ \A d \in Conns : queue'[d] = IF d = c /\ d \in attached THEN Append(queue[d], m)
                                                                  ELSE queue[d]
    BY <1>s, <1>t, SendToPlain
  <2>2. \A d \in Conns : Append(queue[d], m) \in Seq(M)
    BY <1>o, <1>s, SeqSteps
  <2>3. QED
    BY <1>o, <2>1, <2>2
<1>b. ASSUME NEW m \in R, Broadcast(m) PROVE Routes
  <2>1. \A d \in Conns : /\ queue'[d] \in {queue[d], Append(queue[d], m)}
                         /\ staged'[d] \in {staged[d], Append(staged[d], m)}
    BY <1>b, <1>t, BroadcastPlain
  <2>2. \A d \in Conns : Append(queue[d], m) \in Seq(M) /\ Append(staged[d], m) \in Seq(R)
    BY <1>b, <1>o, <1>r, SeqSteps
  <2>3. QED
    BY <1>o, <2>1, <2>2
<1>1. ASSUME NEW c \in Conns, Client(c) PROVE AnswersAreGiven'
  <2>1. UNCHANGED <<raw, rec, file>>
    BY <1>1, ClientFrame DEF turnVars, recordVars
  <2>2. staged' = staged
    BY <1>1 DEF Client, Connect, Attach, Submit, Cancel, Resolve, AskToStop, HangUp, Lose,
       ConnectionEnded, Receive, Take, routeVars
  <2>3. queue' = queue \/ Take(c)
    BY <1>1 DEF Client, Connect, Attach, Submit, Cancel, Resolve, AskToStop, HangUp, Lose,
       ConnectionEnded, Receive, routeVars
  <2>4. \A d \in Conns : queue'[d] \in Seq(M)
    <3>1. CASE queue' = queue
      BY <1>o, <3>1
    <3>2. CASE Take(c)
      <4>1. \A d \in Conns : queue'[d] = IF d = c THEN Tail(queue[d]) ELSE queue[d]
        BY <1>t, <3>2 DEF Take, FanoutTypeOK
      <4>2. queue[c] # <<>>
        BY <3>2 DEF Take
      <4>3. Tail(queue[c]) \in Seq(M)
        BY <1>o, <4>2, SeqSteps
      <4>4. QED
        BY <1>o, <4>1, <4>3
    <3>3. QED
      BY <2>3, <3>1, <3>2
  <2>5. QED
    BY <1>o, <1>q, <1>w, <2>1, <2>2, <2>4
<1>2. ASSUME NEW c \in Conns, Handler(c) PROVE AnswersAreGiven'
  <2>1. UNCHANGED <<raw, rec, file>>
    BY <1>2 DEF Handler, HandleInitialize, HandlePrompt, StartTurn, HandleReplay,
       HandleCancel, HandleShutdown, HandleResponse, StopReading, AwaitReplay,
       ReleaseExternalTools, Close, turnVars, recordVars
  <2>2. \/ UNCHANGED <<queue, staged>> \/ Detach(c)
        \/ \E k \in Word : SendTo(c, Say(k))
    BY <1>2 DEF Handler, HandleInitialize, HandlePrompt, RefusePrompt, AdmitPrompt,
       StartTurn, HandleReplay, HandleCancel, HandleShutdown, HandleResponse, StopReading,
       AwaitReplay, ReleaseExternalTools, Close, routeVars, Word
  <2>3. Detach(c) => Routes
    BY <1>o, <1>r, <1>t, LeavePlain
  <2>4. QED
    BY <1>f, <1>o, <1>q, <1>r, <1>s, <1>w, <2>1, <2>2, <2>3
<1>3. ASSUME NEW c \in Conns, CatchUp(c) PROVE AnswersAreGiven'
  <2>1. UNCHANGED <<raw, rec, file>>
    BY <1>3, CatchUpFrame DEF turnVars, recordVars
  <2>2. Routes
    <3>1. CASE ReplayBegin(c)
      BY <1>o, <1>r, <1>t, <3>1 DEF ReplayBegin, BeginCatchUp, FanoutTypeOK
    <3>2. CASE ReplayAsk(c) \/ ReplayClear(c) \/ RearmLook(c) \/ ReplayDone(c)
      BY <1>f, <3>2 DEF ReplayAsk, ReplayClear, RearmLook, ReplayDone, routeVars
    <3>3. CASE ReplayWalk(c)
      <4>1. replay[c].pos \in 1..Len(file)
        BY <1>o, <1>t, <3>3 DEF ReplayWalk, Replay
      <4>2. file[replay[c].pos] \in M
        BY <1>o, <1>r, <4>1
      <4>3. QED
        BY <1>f, <1>s, <3>3, <4>2 DEF ReplayWalk, routeVars
    <3>4. CASE ReplayEnd(c)
      <4>1. \A d \in Conns : /\ queue'[d] \in {queue[d], queue[d] \o staged[d]}
                             /\ staged'[d] \in {staged[d], <<>>}
        BY <1>t, <3>4, EndCatchUpPlain DEF ReplayEnd
      <4>2. \A d \in Conns : staged[d] \in Seq(M)
        BY <1>o, <1>r, SeqGrows
      <4>3. \A d \in Conns : queue[d] \o staged[d] \in Seq(M)
        BY <1>o, <4>2, SeqSteps
      <4>4. QED
        BY <1>o, <1>r, <4>1, <4>3
    <3>5. CASE ReplayRespond(c)
      BY <1>r, <1>s, <3>5 DEF ReplayRespond, Word
    <3>6. CASE RearmSend(c)
      BY <1>k, <1>r, <1>s, <3>6 DEF RearmSend
    <3>7. QED
      BY <1>3, <3>1, <3>2, <3>3, <3>4, <3>5, <3>6 DEF CatchUp
  <2>3. QED
    BY <1>o, <1>q, <1>w, <2>1, <2>2
<1>4. ASSUME NEW t \in Turns, Soul(t) PROVE AnswersAreGiven'
  <2>1. UNCHANGED <<queue, staged, file>>
    BY <1>4, SoulFrame DEF routeVars
  <2>2. UNCHANGED <<raw, rec>> \/ \E m \in R : Speak(t, m)
    <3>1. SoulBegin(t) => Msg("TurnBegin", t) \in R
      BY Messages DEF R, TrueRecord, Msg
    <3>2. SoulFinish(t) => Msg("TurnEnd", t) \in R
      BY Messages DEF R, TrueRecord, Msg
    <3>3. \A r \in Requests : SoulAnswered(t, r) => Msg("ApprovalResponse", r) \in R
      BY Messages DEF R, TrueRecord, Msg, SoulAnswered
    <3>4. QED
      BY <1>4, <1>k, <3>1, <3>2, <3>3 DEF Soul, SoulBegin, SoulFinish, SoulCutShort, SoulAsk,
         SoulAnswered
  <2>3. Wires
    <3>1. CASE UNCHANGED <<raw, rec>>
      BY <1>w, <3>1
    <3>2. ASSUME NEW m \in R, Speak(t, m) PROVE Wires
      <4>1. Append(raw[t], m) \in Seq(R) /\ Append(rec[t], m) \in Seq(R)
        BY <1>o, <3>2, SeqSteps
      <4>2. QED
        BY <1>o, <1>t, <3>2, <4>1 DEF Speak
    <3>3. QED
      BY <2>2, <3>1, <3>2
  <2>4. QED
    BY <1>f, <1>o, <1>q, <2>1, <2>3
<1>5. ASSUME NEW t \in Turns, TurnTasks(t) PROVE AnswersAreGiven'
  <2>1. CASE StreamRequest(t) \/ StreamEvent(t)
    <3>1. /\ raw[t] # <<>> /\ raw' = [raw EXCEPT ![t] = Tail(@)] /\ UNCHANGED <<rec, file>>
      BY <2>1 DEF StreamRequest, StreamEvent, recordVars
    <3>2. Head(raw[t]) \in R
      BY <1>o, <3>1
    <3>3. Broadcast(Head(raw[t]))
      BY <2>1, <3>1, StreamHead DEF StreamRequest, StreamEvent
    <3>4. Wires
      BY <1>o, <1>t, <3>1
    <3>5. QED
      BY <1>b, <1>o, <1>q, <3>1, <3>2, <3>3, <3>4
  <2>2. CASE WriteRecord(t)
    <3>1. /\ rec[t] # <<>> /\ rec' = [rec EXCEPT ![t] = Tail(@)]
          /\ file' = Append(file, Head(rec[t])) /\ UNCHANGED <<raw, queue, staged>>
      BY <2>2 DEF WriteRecord, routeVars
    <3>2. Head(rec[t]) \in R
      BY <1>o, <3>1
    <3>3. Wires /\ file' \in Seq(R)
      BY <1>o, <1>t, <3>1, <3>2
    <3>4. QED
      BY <1>f, <1>q, <3>1, <3>3
  <2>3. CASE Unpark(t) \/ ClearToken(t) \/ AnswerPrompt(t)
    <3>1. UNCHANGED <<raw, rec, file>>
      BY <2>3 DEF Unpark, ClearToken, AnswerPrompt, recordVars
    <3>2. UNCHANGED <<queue, staged>> \/ SendTo(prompter[t], Say("Prompted"))
      BY <2>3 DEF Unpark, ClearToken, AnswerPrompt, routeVars
    <3>3. QED
      BY <1>f, <1>o, <1>q, <1>r, <1>s, <1>w, <3>1, <3>2 DEF Word
  <2>4. QED
    BY <1>5, <2>1, <2>2, <2>3 DEF TurnTasks
<1>6. CASE Teardown
  <2>1. UNCHANGED <<raw, rec, file>>
    BY <1>6 DEF Teardown, RejectPending, CancelTurn, CutLoose, turnVars, recordVars
  <2>2. UNCHANGED <<queue, staged>> \/ Shutdown
    BY <1>6 DEF Teardown, RejectPending, CancelTurn, CutLoose, routeVars
  <2>3. Routes
    BY <1>f, <1>o, <1>r, <1>t, <2>2, LeavePlain
  <2>4. QED
    BY <1>o, <1>q, <1>w, <2>1, <2>3
<1>7. CASE UNCHANGED vars
  BY <1>f, <1>o, <1>q, <1>w, <1>7 DEF vars, routeVars, turnVars, recordVars
<1>8. QED
  BY <1>1, <1>2, <1>3, <1>4, <1>5, <1>6, <1>7 DEF Next

LEMMA UnansweredStep ==
  TypeOK /\ RaisedBeforeHeard /\ RawIsUnheard /\ OpenIsUnanswered /\ [Next]_vars
    => OpenIsUnanswered'
<1> SUFFICES ASSUME TypeOK, RaisedBeforeHeard, RawIsUnheard, OpenIsUnanswered, [Next]_vars
             PROVE  OpenIsUnanswered'
  OBVIOUS
<1>t. /\ raw \in [Turns -> Seq(Record)] /\ asker \in [Requests -> Turns \cup {NoTurn}]
      /\ pending \subseteq Requests /\ NoTurn \notin Turns
  BY DEF TypeOK, TurnTypeOK, RecordTypeOK, CoreTypeOK, Turns, NoTurn
<1>1. ASSUME NEW r \in pending' PROVE answer'[r] = "none"
  <2>1. r \in Requests
    BY <1>1, TypeStep DEF TypeOK, CoreTypeOK
  <2>2. CASE r \in pending
    BY <1>1, <2>1, <2>2, AnswerSteps DEF OpenIsUnanswered
  <2>3. CASE r \notin pending
    <3>1. PICK t \in Turns : StreamRequest(t)
      BY <1>1, <2>3, PendingShrinks
    <3>2. /\ r = Head(raw[t]).of /\ raw[t] # <<>> /\ Head(raw[t]).kind = "Request"
      BY <1>1, <2>3, <3>1 DEF StreamRequest
    <3>3. 1 \in 1..Len(raw[t]) /\ Head(raw[t]) = raw[t][1]
      BY <1>t, <3>2, TailOf
    <3>4. answer[r] = "none"
      BY <3>2, <3>3 DEF OpenIsUnanswered
    <3>5. QED
      BY <2>1, <2>3, <3>4, AnswerSteps
  <2>4. QED
    BY <2>2, <2>3
<1>2. ASSUME NEW r \in Requests, answer'[r] # "none" PROVE asker'[r] # NoTurn
  <2>1. asker[r] # NoTurn
    BY <1>2, AnswerSteps DEF OpenIsUnanswered, RaisedBeforeHeard, Unheard
  <2>2. QED
    BY <1>t, <2>1, RawSteps
<1>3. ASSUME NEW u \in Turns, NEW i \in 1..Len(raw'[u]), raw'[u][i].kind = "Request"
      PROVE  answer'[raw'[u][i].of] = "none"
  <2>o. ASSUME NEW k \in 1..Len(raw[u]), raw'[u][i] = raw[u][k]
        PROVE  answer'[raw'[u][i].of] = "none"
    <3>1. raw[u][k] \in Record /\ raw[u][k].kind = "Request"
      BY <1>t, <1>3, <2>o
    <3>2. raw[u][k].of \in Requests /\ raw[u][k].of \notin pending
      BY <3>1, Messages, Kinds DEF RawIsUnheard, Unheard
    <3>3. QED
      BY <2>o, <3>1, <3>2, AnswerSteps DEF OpenIsUnanswered
  <2>1. CASE UNCHANGED <<raw, asker>>
    BY <2>1, <2>o
  <2>2. ASSUME NEW t \in Turns, NEW m \in Record, raw' = [raw EXCEPT ![t] = Append(@, m)],
               \/ m.kind # "Request"
               \/ \E r \in Requests : asker[r] = NoTurn /\ m = Msg("Request", r)
        PROVE  answer'[raw'[u][i].of] = "none"
    <3>1. CASE u # t
      BY <1>t, <2>2, <2>o, <3>1
    <3>2. CASE u = t
      <4>1. raw'[u] = Append(raw[u], m) /\ raw[u] \in Seq(Record)
        BY <1>t, <2>2, <3>2
      <4>2. CASE raw'[u][i] = m
        <5>1. PICK r \in Requests : asker[r] = NoTurn /\ m = Msg("Request", r)
          BY <1>3, <2>2, <4>2
        <5>2. r \notin pending /\ answer[r] = "none"
          BY <5>1 DEF RaisedBeforeHeard, Unheard, OpenIsUnanswered
        <5>3. QED
          BY <4>2, <5>1, <5>2, AnswerSteps DEF Msg
      <4>3. QED
        BY <2>o, <4>1, <4>2, Appended
    <3>3. QED
      BY <3>1, <3>2
  <2>3. ASSUME NEW t \in Turns, raw[t] # <<>>, raw' = [raw EXCEPT ![t] = Tail(@)]
        PROVE  answer'[raw'[u][i].of] = "none"
    <3>1. CASE u # t
      BY <1>t, <2>3, <2>o, <3>1
    <3>2. CASE u = t
      <4>1. raw'[u] = Tail(raw[u]) /\ raw[u] \in Seq(Record) /\ raw[u] # <<>>
        BY <1>t, <2>3, <3>2
      <4>2. i + 1 \in 1..Len(raw[u]) /\ raw'[u][i] = raw[u][i + 1]
        BY <4>1, TailOf
      <4>3. QED
        BY <2>o, <4>2
    <3>3. QED
      BY <3>1, <3>2
  <2>4. QED
    <3>1. CASE \E t \in Turns : \E r \in Requests :
                 /\ asker[r] = NoTurn /\ asker' = [asker EXCEPT ![r] = t]
                 /\ raw' = [raw EXCEPT ![t] = Append(@, Msg("Request", r))]
      BY <2>2, <3>1, Messages
    <3>2. QED
      BY <2>1, <2>2, <2>3, <3>1, RawSteps
<1>4. QED
  BY <1>1, <1>2, <1>3 DEF OpenIsUnanswered

LEMMA AnswersCorrect == Spec => [](AnswersAreGiven /\ OpenIsUnanswered)
<1>1. Init => AnswersAreGiven /\ OpenIsUnanswered
  <2>1. <<>> \in Seq(TrueRecord) /\ <<>> \in Seq(TrueRecord \cup Response)
    OBVIOUS
  <2>2. QED
    BY <2>1 DEF Init, AnswersAreGiven, OpenIsUnanswered
<1>2. TypeOK /\ Plain /\ RaisedBeforeHeard /\ RawIsUnheard /\ AnswersAreGiven
        /\ OpenIsUnanswered /\ [Next]_vars => AnswersAreGiven' /\ OpenIsUnanswered'
  BY AnswersStep, UnansweredStep
<1>3. QED
  BY <1>1, <1>2, TypeCorrect, LedgersCorrect, UnheardCorrect, PTL DEF Spec

---------------------------------------------------------------------------------
(* A client that knows its catch-up to be over can answer what is open: the        *)
(* request is in the snapshot its catch-up still has to hand over, up as a dialog, *)
(* answered, or in its queue behind the word that the catch-up is over.            *)

CaughtUpWords == {"Replayed", "ReplayedRunning"}

HasWord(q) == \E i \in 1..Len(q) : q[i].kind \in CaughtUpWords

\* A request the client will take for one of now and not for history.
Coming(q, r) ==
    \E i \in 1..Len(q) : /\ q[i] = Msg("Request", r)
                         /\ \A j \in 1..Len(q) : q[j].kind \in CaughtUpWords => j < i

Told(c) == phase[c] \in {"Ready", "Running"} \/ HasWord(queue[c])

Promised(c, r) ==
    \/ r \in replay[c].open \/ replay[c].at = r
    \/ Armed(c, r) \/ OnItsWayUp(c, r) \/ Coming(queue[c], r)

Kept(c, r) == /\ CatchingUp(c) => r \in replay[c].open
              /\ Told(c) => Promised(c, r)

DialogsAreKept ==
    \A c \in attached : Here(c) =>
        \A r \in pending \ ToolCalls : <<c, r>> \notin shelved => Kept(c, r)

LEMMA QueueGrows ==
  ASSUME NEW S, NEW q \in Seq(S), NEW m \in S, NEW r
  PROVE  /\ m.kind \notin CaughtUpWords =>
              /\ HasWord(Append(q, m)) => HasWord(q)
              /\ Coming(q, r) => Coming(Append(q, m), r)
         /\ m = Msg("Request", r) => Coming(Append(q, m), r)
<1>1. /\ Len(Append(q, m)) = Len(q) + 1 /\ Append(q, m)[Len(q) + 1] = m
      /\ \A i \in 1..Len(q) : Append(q, m)[i] = q[i]
  OBVIOUS
<1>2. m = Msg("Request", r) => m.kind \notin CaughtUpWords
  BY DEF Msg, CaughtUpWords
<1>3. Len(q) \in Nat
  OBVIOUS
<1>4. ASSUME m.kind \notin CaughtUpWords
      PROVE  \A j \in 1..(Len(q) + 1) : Append(q, m)[j].kind \in CaughtUpWords =>
                j \in 1..Len(q) /\ q[j].kind \in CaughtUpWords
  BY <1>1, <1>3, <1>4
<1>5. m.kind \notin CaughtUpWords /\ HasWord(Append(q, m)) => HasWord(q)
  BY <1>1, <1>4 DEF HasWord
<1>6. ASSUME m.kind \notin CaughtUpWords, Coming(q, r) PROVE Coming(Append(q, m), r)
  <2>1. PICK i \in 1..Len(q) : /\ q[i] = Msg("Request", r)
                               /\ \A j \in 1..Len(q) : q[j].kind \in CaughtUpWords => j < i
    BY <1>6 DEF Coming
  <2>2. i \in 1..Len(Append(q, m)) /\ Append(q, m)[i] = Msg("Request", r)
    BY <1>1, <1>3, <2>1
  <2>3. \A j \in 1..Len(Append(q, m)) : Append(q, m)[j].kind \in CaughtUpWords => j < i
    BY <1>1, <1>4, <1>6, <2>1
  <2>4. QED
    BY <2>2, <2>3 DEF Coming
<1>7. ASSUME m = Msg("Request", r) PROVE Coming(Append(q, m), r)
  <2>1. \A j \in 1..Len(Append(q, m)) :
           Append(q, m)[j].kind \in CaughtUpWords => j < Len(q) + 1
    BY <1>1, <1>2, <1>3, <1>4, <1>7
  <2>2. Len(q) + 1 \in 1..Len(Append(q, m))
    BY <1>1, <1>3
  <2>3. QED
    BY <1>1, <1>7, <2>1, <2>2 DEF Coming
<1>8. QED
  BY <1>5, <1>6, <1>7

LEMMA QueueDrains ==
  ASSUME NEW S, NEW q \in Seq(S), q # <<>>, NEW r
  PROVE  /\ HasWord(Tail(q)) => HasWord(q)
         /\ Coming(q, r) => \/ Coming(Tail(q), r)
                            \/ Head(q) = Msg("Request", r) /\ ~HasWord(q)
<1>1. /\ Len(q) \in Nat \ {0} /\ Len(Tail(q)) = Len(q) - 1 /\ Head(q) = q[1]
      /\ \A i \in 1..(Len(q) - 1) : Tail(q)[i] = q[i + 1]
  OBVIOUS
<1>2. HasWord(Tail(q)) => HasWord(q)
  BY <1>1 DEF HasWord
<1>3. ASSUME Coming(q, r)
      PROVE  Coming(Tail(q), r) \/ (Head(q) = Msg("Request", r) /\ ~HasWord(q))
  <2>1. PICK i \in 1..Len(q) : /\ q[i] = Msg("Request", r)
                               /\ \A j \in 1..Len(q) : q[j].kind \in CaughtUpWords => j < i
    BY <1>3 DEF Coming
  <2>2. CASE i = 1
    BY <1>1, <2>1, <2>2 DEF HasWord
  <2>3. CASE i # 1
    <3>1. i - 1 \in 1..Len(Tail(q)) /\ Tail(q)[i - 1] = Msg("Request", r)
      BY <1>1, <2>1, <2>3
    <3>2. ASSUME NEW j \in 1..Len(Tail(q)), Tail(q)[j].kind \in CaughtUpWords
          PROVE  j < i - 1
      <4>1. j + 1 \in 1..Len(q) /\ q[j + 1].kind \in CaughtUpWords
        BY <1>1, <3>2
      <4>2. QED
        BY <1>1, <2>1, <4>1
    <3>3. QED
      BY <3>1, <3>2 DEF Coming
  <2>4. QED
    BY <2>2, <2>3
<1>4. QED
  BY <1>2, <1>3

\* What is on its way up stays there as more goes up and as the agent reads on.
LEMMA UplinkGrows ==
  ASSUME NEW S, NEW u \in Seq(S), NEW call \in S, NEW m
  PROVE  /\ (\E i \in DOMAIN u : u[i] = m) =>
               \E i \in DOMAIN Append(u, call) : Append(u, call)[i] = m
         /\ call = m => \E i \in DOMAIN Append(u, call) : Append(u, call)[i] = m
<1>1. /\ DOMAIN u = 1..Len(u) /\ DOMAIN Append(u, call) = 1..(Len(u) + 1) /\ Len(u) \in Nat
      /\ Append(u, call)[Len(u) + 1] = call
      /\ \A i \in 1..Len(u) : Append(u, call)[i] = u[i]
  OBVIOUS
<1>2. Len(u) + 1 \in 1..(Len(u) + 1) /\ 1..Len(u) \subseteq 1..(Len(u) + 1)
  BY <1>1
<1>3. QED
  BY <1>1, <1>2

LEMMA UplinkDrains ==
  ASSUME NEW S, NEW u \in Seq(S), u # <<>>, NEW m, Head(u) # m, \E i \in DOMAIN u : u[i] = m
  PROVE  \E i \in DOMAIN Tail(u) : Tail(u)[i] = m
<1>1. /\ DOMAIN u = 1..Len(u) /\ DOMAIN Tail(u) = 1..(Len(u) - 1) /\ Len(u) \in Nat \ {0}
      /\ Head(u) = u[1] /\ \A i \in 1..(Len(u) - 1) : Tail(u)[i] = u[i + 1]
  OBVIOUS
<1>2. PICK i \in 1..Len(u) : u[i] = m
  BY <1>1
<1>3. i # 1 /\ i - 1 \in 1..(Len(u) - 1) /\ Tail(u)[i - 1] = u[i]
  BY <1>1, <1>2
<1>4. QED
  BY <1>1, <1>2, <1>3

\* While a catch-up has its answer still to give, or has yet to be asked for,
\* the client has not been told.
LEMMA Untold ==
  ASSUME TypeOK, Ledgers, NEW c \in attached, Here(c),
         ReplayGoesOn(c) \/ Count(uplink[c], "replay") # 0
  PROVE  ~Told(c)
<1>1. c \in Conns /\ queue[c] \in Seq(Message)
  BY DEF TypeOK, FanoutTypeOK
<1>2. /\ Count(uplink[c], "replay") \in Nat /\ Count(queue[c], "Replayed") \in Nat
      /\ Count(queue[c], "ReplayedRunning") \in Nat
  BY <1>1, CountsAreNat
<1>3. /\ Count(uplink[c], "replay") + One(ReplayGoesOn(c)) + Count(queue[c], "Replayed")
           + Count(queue[c], "ReplayedRunning") = One(phase[c] = "Replaying")
      /\ One(ReplayGoesOn(c)) \in {0, 1} /\ One(phase[c] = "Replaying") \in {0, 1}
  BY DEF Ledgers, Ledger, One
<1>4. Count(uplink[c], "replay") + One(ReplayGoesOn(c)) # 0
  BY <1>2, <1>3 DEF One
<1>5. /\ Count(queue[c], "Replayed") = 0 /\ Count(queue[c], "ReplayedRunning") = 0
      /\ One(phase[c] = "Replaying") = 1
  BY <1>2, <1>3, <1>4
<1>6. phase[c] = "Replaying"
  BY <1>5 DEF One
<1>7. \A i \in DOMAIN queue[c] : queue[c][i].kind \notin CaughtUpWords
  BY <1>1, <1>5, CountNone DEF CaughtUpWords
<1>8. DOMAIN queue[c] = 1..Len(queue[c])
  BY <1>1
<1>9. QED
  BY <1>6, <1>7, <1>8 DEF Told, HasWord

TellsInTime ==
    \A c \in attached : Here(c) /\ ReplayGoesOn(c) => ~Told(c)

LEMMA TellsInTimeAlways == TypeOK /\ Ledgers => TellsInTime
  BY Untold DEF TellsInTime

LEMMA TellsInTimeNext == TypeOK /\ Plain /\ Ledgers /\ [Next]_vars => TellsInTime'
  BY TellsInTimeAlways, LedgerStep, TypeStep, PTL

\* Only a client that runs is owed the answer to a prompt.
LEMMA PromptedRuns ==
  ASSUME TypeOK, Ledgers, NEW c \in attached, Here(c),
         queue[c] # <<>>, Head(queue[c]).kind = "Prompted"
  PROVE  phase[c] = "Running"
<1>1. /\ c \in Conns /\ queue[c] \in Seq(Message) /\ 1 \in DOMAIN queue[c]
      /\ queue[c][1].kind = "Prompted"
  <2>1. c \in Conns /\ queue[c] \in Seq(Message)
    BY DEF TypeOK, FanoutTypeOK
  <2>2. QED
    BY <2>1
<1>2. Count(queue[c], "Prompted") # 0 /\ Count(queue[c], "Prompted") \in Nat
  BY <1>1, CountNone, CountsAreNat
<1>3. Count(uplink[c], "prompt") \in Nat /\ Cardinality(Owed(c)) \in Nat
  BY <1>1, CountsAreNat, OwedIsFinite
<1>4. Count(uplink[c], "prompt") + One(life[c] = "prompting") + Cardinality(Owed(c))
        + Count(queue[c], "Prompted") = One(c \in prompting)
  BY DEF Ledgers, Ledger
<1>5. One(life[c] = "prompting") \in {0, 1}
  BY DEF One
<1>6. One(c \in prompting) # 0
  BY <1>2, <1>3, <1>4, <1>5
<1>7. QED
  BY <1>6 DEF One, Ledgers, Ledger

LEMMA DialogsStep ==
  TypeOK /\ Plain /\ Ledgers /\ StagingIsReplaying /\ AnswersAreGiven /\ OpenIsUnanswered
    /\ DialogsAreKept /\ [Next]_vars => DialogsAreKept'
<1> SUFFICES ASSUME TypeOK, Plain, Ledgers, StagingIsReplaying, AnswersAreGiven,
                    OpenIsUnanswered, DialogsAreKept, [Next]_vars,
                    NEW d \in attached', Here(d)',
                    NEW r \in pending' \ ToolCalls, <<d, r>> \notin shelved'
             PROVE  Kept(d, r)'
  BY DEF DialogsAreKept
<1>t. /\ replay \in [Conns -> Replay] /\ approvals \in [Conns -> [Requests -> Nat]]
      /\ phase \in [Conns -> {"Absent", "Initializing", "Replaying", "Ready", "Running",
                              "Detached", "Left"}]
      /\ attached \subseteq Conns /\ DOMAIN queue = Conns /\ DOMAIN uplink = Conns
      /\ pending \subseteq Requests
      /\ FanoutTypeOK /\ AttachedIsOpen
  BY DEF TypeOK, ConnTypeOK, ClientTypeOK, FanoutTypeOK, CoreTypeOK, Plain
<1>i. d \in Conns /\ r \in Requests
  BY TypeStep DEF TypeOK, FanoutTypeOK, CoreTypeOK
<1>v. queue[d] \in Seq(Message) /\ uplink[d] \in Seq(Call) /\ approvals[d] \in [Requests -> Nat]
  BY <1>i DEF TypeOK, FanoutTypeOK, ClientTypeOK
<1>h. d \in attached /\ Here(d) /\ r \in pending /\ <<d, r>> \notin shelved => Kept(d, r)
  BY DEF DialogsAreKept
\* Until its own catch-up has answered, the client has not been told.
<1>u. ReplayGoesOn(d)' => ~Told(d)'
  BY TellsInTimeNext DEF TellsInTime
<1>s. ASSUME d \in attached, Here(d), r \in pending, <<d, r>> \notin shelved,
             phase'[d] = phase[d], approvals'[d] = approvals[d], uplink'[d] = uplink[d],
             queue'[d] = queue[d], replay'[d] = replay[d]
      PROVE  Kept(d, r)'
  BY <1>h, <1>s DEF Kept, Told, Promised, Armed, OnItsWayUp, CatchingUp
\* The catch-up does not move and the client hears no more than it knew.
<1>m. ASSUME d \in attached, Here(d), r \in pending, <<d, r>> \notin shelved,
             replay'[d] = replay[d], Told(d)' => Told(d),
             Told(d) /\ (Armed(d, r) \/ OnItsWayUp(d, r) \/ Coming(queue[d], r)) =>
                (Armed(d, r) \/ OnItsWayUp(d, r) \/ Coming(queue[d], r))'
      PROVE  Kept(d, r)'
  <2>1. CatchingUp(d)' <=> CatchingUp(d)
    BY <1>m DEF CatchingUp
  <2>2. Promised(d, r) /\ Told(d) => Promised(d, r)'
    BY <1>m DEF Promised
  <2>3. QED
    BY <1>h, <1>m, <2>1, <2>2 DEF Kept
<1>a. ASSUME uplink'[d] = uplink[d] \/ \E call \in Call : Send(d, call)
      PROVE  OnItsWayUp(d, r) => OnItsWayUp(d, r)'
  <2>1. CASE uplink'[d] = uplink[d]
    BY <2>1 DEF OnItsWayUp
  <2>2. ASSUME NEW call \in Call, Send(d, call)
        PROVE  OnItsWayUp(d, r) => OnItsWayUp(d, r)'
    <3>1. uplink'[d] = Append(uplink[d], call)
      BY <1>i, <1>t, <2>2 DEF Send
    <3>2. QED
      BY <1>v, <2>2, <3>1, UplinkGrows DEF OnItsWayUp
  <2>3. QED
    BY <1>a, <2>1, <2>2
<1>1. ASSUME NEW c \in Conns, Client(c) PROVE Kept(d, r)'
  <2>0. UNCHANGED <<pending, shelved, replay>>
    BY <1>1, ClientFrame DEF coreVars, recordVars
  <2>1. CASE Connect(c)
    <3>1. CASE d # c
      BY <1>i, <1>s, <1>t, <2>0, <2>1, <3>1 DEF Connect, Attach, Send, Here
    <3>2. CASE d = c
      <4>1. queue[d] = <<>> /\ replay[d].at = "idle"
        BY <1>i, <2>1, <3>2 DEF Connect, Plain, AbsentIsClean
      <4>2. queue'[d] = <<>> /\ replay'[d].at = "idle" /\ phase'[d] = "Initializing"
        BY <1>i, <1>t, <2>0, <2>1, <3>2, <4>1 DEF Connect, Attach
      <4>3. QED
        BY <4>2 DEF Kept, Told, HasWord, CatchingUp
    <3>3. QED
      BY <3>1, <3>2
  <2>2. CASE ~Connect(c)
    <3>0. d \in attached /\ <<d, r>> \notin shelved /\ r \in pending
      BY <1>1, <2>0, <2>2, ClientFrame
    <3>1. CASE d # c
      BY <1>1, <1>i, <1>s, <1>t, <2>0, <2>2, <3>0, <3>1
      DEF Client, Submit, Cancel, Resolve, AskToStop, HangUp, Lose, ConnectionEnded, Receive,
          TakeEvent, TakeRequest, TakeResponse, Take, Send, routeVars, clientVars, Here
    <3>2. CASE d = c
      <4>1. CASE Submit(c) \/ Cancel(c) \/ AskToStop(c)
        <5>1. \E call \in Call : Send(d, call)
          BY <3>2, <4>1, Messages DEF Submit, Cancel, AskToStop
        <5>2. queue' = queue /\ approvals' = approvals /\ Here(d)
          BY <3>2, <4>1 DEF Submit, Cancel, AskToStop, MayType, routeVars
        <5>3. Told(d)' => Told(d)
          BY <1>t, <3>2, <4>1, <5>2 DEF Submit, Cancel, AskToStop, Told
        <5>4. QED
          BY <1>a, <1>m, <2>0, <3>0, <5>1, <5>2, <5>3 DEF Armed
      <4>2. CASE Resolve(c)
        <5>1. UNCHANGED <<queue, phase>> /\ Here(d)
          BY <3>2, <4>2 DEF Resolve, MayType, routeVars
        <5>2. PICK q \in Requests : /\ approvals' = [approvals EXCEPT ![d][q] = @ - 1]
                                    /\ Send(d, Msg("answer", q))
          BY <3>2, <4>2 DEF Resolve
        <5>3. Msg("answer", q) \in Call
          BY Messages
        <5>4. CASE q = r
          <6>1. uplink'[d] = Append(uplink[d], Msg("answer", r))
            BY <1>i, <1>t, <5>2, <5>4 DEF Send
          <6>2. OnItsWayUp(d, r)'
            BY <1>v, <5>3, <5>4, <6>1, UplinkGrows DEF OnItsWayUp
          <6>3. QED
            BY <1>m, <2>0, <3>0, <5>1, <6>2 DEF Told
        <5>5. CASE q # r
          <6>1. Armed(d, r)' <=> Armed(d, r)
            BY <1>i, <1>t, <1>v, <5>2, <5>5 DEF Armed
          <6>2. QED
            BY <1>a, <1>m, <2>0, <3>0, <5>1, <5>2, <5>3, <6>1 DEF Told
        <5>6. QED
          BY <5>4, <5>5
      <4>3. CASE HangUp(c) \/ ConnectionEnded(c)
        BY <1>i, <1>t, <3>2, <4>3 DEF HangUp, ConnectionEnded, Here
      <4>4. CASE Lose(c)
        BY <3>2, <4>4 DEF Lose, clientVars, Here
      <4>5. CASE Receive(c)
        <5> DEFINE m == Head(queue[d])
        <5>0. /\ Here(d) /\ queue[d] # <<>> /\ queue'[d] = Tail(queue[d])
              /\ m \in Message /\ m \in TrueRecord \cup Response
          <6>1. Here(d) /\ queue[d] # <<>> /\ queue'[d] = Tail(queue[d])
            BY <1>i, <1>t, <3>2, <4>5 DEF Receive, Take
          <6>2. queue[d] \in Seq(TrueRecord \cup Response)
            BY <1>i DEF AnswersAreGiven
          <6>3. QED
            BY <1>v, <6>1, <6>2, SeqSteps
        <5>1. \/ m.kind \in {"TurnBegin", "TurnEnd", "ApprovalResponse"} /\ TakeEvent(d, m)
              \/ m.kind = "Request" /\ TakeRequest(d, m.of)
              \/ m \in Response /\ TakeResponse(d, m.kind)
          BY <3>2, <4>5 DEF Receive
        <5>2. m.kind = "ApprovalResponse" => m.of # r /\ m.of \in Requests
          <6>1. m.kind = "ApprovalResponse" => m \in TrueRecord
            BY <5>0 DEF Response
          <6>2. QED
            BY <3>0, <5>0, <6>1, Kinds DEF TrueRecord, OpenIsUnanswered
        <5>3. m.kind = "Request" => m = Msg("Request", m.of) /\ m.of \in Requests
          BY <5>0, Kinds
        <5>4. m.kind \in CaughtUpWords => HasWord(queue[d])
          BY <1>v, <5>0, TailOf DEF HasWord
        <5>5. m.kind = "Prompted" => phase[d] = "Running"
          BY <3>0, <5>0, PromptedRuns
        <5> HIDE DEF m
        <5>6. phase'[d] \in {"Ready", "Running"} => Told(d)
          <6>1. CASE m.kind \in {"TurnBegin", "TurnEnd", "ApprovalResponse"} /\ TakeEvent(d, m)
            BY <1>i, <1>t, <6>1 DEF TakeEvent, Told
          <6>2. CASE TakeRequest(d, m.of)
            BY <6>2 DEF TakeRequest, Told
          <6>3. CASE m \in Response /\ TakeResponse(d, m.kind)
            BY <1>i, <1>t, <5>4, <5>5, <6>3 DEF TakeResponse, Told, Response, CaughtUpWords
          <6>4. QED
            BY <5>1, <6>1, <6>2, <6>3
        <5>7. Told(d)' => Told(d)
          BY <1>v, <5>0, <5>6, QueueDrains DEF Told
        <5>8. OnItsWayUp(d, r) => OnItsWayUp(d, r)'
          <6>1. uplink'[d] = uplink[d] \/ \E call \in Call : Send(d, call)
            BY <5>1, <5>3, Messages DEF TakeEvent, TakeRequest, TakeResponse
          <6>2. QED
            BY <1>a, <6>1
        <5>9. Armed(d, r) => Armed(d, r)'
          <6>1. CASE m.kind \in {"TurnBegin", "TurnEnd", "ApprovalResponse"} /\ TakeEvent(d, m)
            BY <1>i, <1>t, <1>v, <5>2, <6>1 DEF TakeEvent, Armed
          <6>2. CASE m.kind = "Request" /\ TakeRequest(d, m.of)
            BY <1>i, <1>t, <1>v, <5>3, <6>2 DEF TakeRequest, Armed
          <6>3. CASE TakeResponse(d, m.kind)
            BY <6>3 DEF TakeResponse, Armed
          <6>4. QED
            BY <5>1, <6>1, <6>2, <6>3
        <5>10. Told(d) /\ Coming(queue[d], r) => Coming(queue[d], r)' \/ Armed(d, r)'
          <6>1. CASE m = Msg("Request", r) /\ ~HasWord(queue[d]) /\ Told(d)
            <7>1. m.kind = "Request" /\ m.of = r /\ phase[d] # "Replaying"
              BY <6>1 DEF Msg, Told
            <7>2. TakeRequest(d, r)
              BY <5>1, <7>1 DEF Response
            <7>3. QED
              BY <1>i, <1>t, <1>v, <7>1, <7>2 DEF TakeRequest, Armed
          <6>2. CASE ~(m = Msg("Request", r) /\ ~HasWord(queue[d]))
            BY <1>v, <5>0, <6>2, QueueDrains DEF m
          <6>3. QED
            BY <6>1, <6>2
        <5>11. QED
          BY <1>m, <2>0, <3>0, <5>0, <5>7, <5>8, <5>9, <5>10
      <4>6. QED
        BY <1>1, <2>2, <4>1, <4>2, <4>3, <4>4, <4>5 DEF Client
    <3>3. QED
      BY <3>1, <3>2
  <2>3. QED
    BY <2>1, <2>2
<1>2. ASSUME NEW c \in Conns, Handler(c) PROVE Kept(d, r)'
  <2>0. /\ UNCHANGED <<phase, approvals, shelved>>
        /\ pending' \subseteq pending /\ d \in attached /\ Here(d)
    <3>1. UNCHANGED <<phase, approvals, shelved>> /\ pending' \subseteq pending
      BY <1>2 DEF Handler, HandleInitialize, HandlePrompt, StartTurn, HandleReplay,
         HandleCancel, HandleShutdown, HandleResponse, StopReading, AwaitReplay,
         ReleaseExternalTools, Close, Reads, coreVars, clientVars, recordVars
    <3>2. attached' \subseteq attached
      BY <1>2, <1>t, SendToPlain, LeavePlain DEF Handler, HandleInitialize, HandlePrompt,
         RefusePrompt, AdmitPrompt, StartTurn, HandleReplay, HandleCancel, HandleShutdown,
         HandleResponse, StopReading, AwaitReplay, ReleaseExternalTools, Close, routeVars
    <3>3. QED
      BY <3>1, <3>2 DEF Here
  <2>1. \/ queue' = queue
        \/ \E k \in {"Initialized", "Prompted"} : SendTo(c, Say(k))
    BY <1>2, <1>t, LeavePlain DEF Handler, HandleInitialize, HandlePrompt,
       RefusePrompt, AdmitPrompt, StartTurn, HandleReplay, HandleCancel, HandleShutdown,
       HandleResponse, StopReading, AwaitReplay, ReleaseExternalTools, Close, routeVars
  <2>2. /\ HasWord(queue'[d]) => HasWord(queue[d])
        /\ Coming(queue[d], r) => Coming(queue'[d], r)
        /\ d # c => queue'[d] = queue[d]
    <3>1. CASE queue' = queue
      BY <3>1
    <3>2. ASSUME NEW k \in {"Initialized", "Prompted"}, SendTo(c, Say(k))
          PROVE  /\ HasWord(queue'[d]) => HasWord(queue[d])
                 /\ Coming(queue[d], r) => Coming(queue'[d], r)
                 /\ d # c => queue'[d] = queue[d]
      <4>1. Say(k) \in Message /\ Say(k).kind \notin CaughtUpWords
        BY Messages DEF Say, Msg, CaughtUpWords
      <4>2. queue'[d] = IF d = c /\ d \in attached THEN Append(queue[d], Say(k)) ELSE queue[d]
        BY <1>i, <1>t, <3>2, SendToPlain
      <4>3. QED
        BY <1>v, <4>1, <4>2, QueueGrows
    <3>3. QED
      BY <2>1, <3>1, <3>2
  <2>3. /\ OnItsWayUp(d, r) => OnItsWayUp(d, r)'
        /\ d # c => uplink'[d] = uplink[d]
    <3>1. \/ uplink' = uplink
          \/ /\ uplink[c] # <<>> /\ uplink' = [uplink EXCEPT ![c] = Tail(@)]
             /\ \/ Head(uplink[c]).kind # "answer"
                \/ pending' = pending \ {Head(uplink[c]).of}
      BY <1>2 DEF Handler, HandleInitialize, HandlePrompt, StartTurn, HandleReplay,
         HandleCancel, HandleShutdown, HandleResponse, StopReading, AwaitReplay,
         ReleaseExternalTools, Close, Reads, clientVars
    <3>2. CASE uplink' = uplink
      BY <3>2 DEF OnItsWayUp
    <3>3. CASE /\ uplink[c] # <<>> /\ uplink' = [uplink EXCEPT ![c] = Tail(@)]
               /\ \/ Head(uplink[c]).kind # "answer"
                  \/ pending' = pending \ {Head(uplink[c]).of}
      <4>1. CASE d # c
        BY <1>i, <1>t, <3>3, <4>1 DEF OnItsWayUp
      <4>2. CASE d = c
        <5>1. Head(uplink[d]) # Msg("answer", r) /\ uplink'[d] = Tail(uplink[d])
          BY <1>i, <1>t, <3>3, <4>2 DEF Msg
        <5>2. uplink[d] # <<>>
          BY <3>3, <4>2
        <5>3. ASSUME OnItsWayUp(d, r) PROVE OnItsWayUp(d, r)'
          <6>1. \E i \in DOMAIN Tail(uplink[d]) : Tail(uplink[d])[i] = Msg("answer", r)
            BY <1>v, <5>1, <5>2, <5>3, UplinkDrains DEF OnItsWayUp
          <6>2. QED
            BY <5>1, <6>1 DEF OnItsWayUp
        <5>4. QED
          BY <4>2, <5>3
      <4>3. QED
        BY <4>1, <4>2
    <3>4. QED
      BY <3>1, <3>2, <3>3
  <2>4. \/ replay'[d] = replay[d]
        \/ replay'[d].at = "begin"
    <3>1. \/ replay' = replay
          \/ replay' = [replay EXCEPT ![c] = [NoReplay EXCEPT !.at = "begin"]]
      BY <1>2, HandlerCatchUp
    <3>2. QED
      BY <1>i, <1>t, <3>1 DEF NoReplay
  <2>5. CASE replay'[d] = replay[d]
    BY <1>m, <2>0, <2>2, <2>3, <2>5 DEF Told, Armed
  <2>6. CASE replay'[d].at = "begin"
    BY <1>u, <2>6 DEF ReplayGoesOn, Kept, CatchingUp
  <2>7. QED
    BY <2>4, <2>5, <2>6
<1>3. ASSUME NEW c \in Conns, CatchUp(c) PROVE Kept(d, r)'
  <2>0. /\ UNCHANGED <<phase, approvals, uplink, pending>>
        /\ r \in pending /\ d \in attached /\ Here(d) /\ <<d, r>> \notin shelved
    <3>1. UNCHANGED <<phase, approvals, uplink, pending>>
      BY <1>3, CatchUpFrame DEF coreVars, clientVars
    <3>2. attached' = attached
      BY <1>3, <1>t, SendToPlain, EndCatchUpPlain DEF CatchUp, ReplayBegin, BeginCatchUp,
         ReplayAsk, ReplayWalk, ReplayEnd, ReplayClear, ReplayRespond, RearmLook, RearmSend,
         ReplayDone, routeVars
    <3>3. shelved \subseteq shelved'
      BY <1>3 DEF CatchUp, ReplayBegin, ReplayAsk, ReplayWalk, ReplayEnd, ReplayClear,
         ReplayRespond, RearmLook, RearmSend, ReplayDone, Replays, recordVars
    <3>4. QED
      BY <3>1, <3>2, <3>3 DEF Here
  <2>k. Kept(d, r)
    BY <1>h, <2>0
  <2>1. CASE d # c
    <3>1. replay'[d] = replay[d]
      BY <1>3, <1>i, <1>t, <2>1 DEF CatchUp, ReplayBegin, ReplayAsk, ReplayWalk, ReplayEnd,
         ReplayClear, ReplayRespond, RearmLook, RearmSend, ReplayDone, Replays
    <3>2. \/ queue' = queue \/ EndCatchUp(c) \/ \E m : SendTo(c, m)
      BY <1>3 DEF CatchUp, ReplayBegin, BeginCatchUp, ReplayAsk, ReplayWalk, ReplayEnd,
         ReplayClear, ReplayRespond, RearmLook, RearmSend, ReplayDone, routeVars
    <3>3. queue'[d] = queue[d]
      BY <1>i, <1>t, <2>1, <3>2, SendToPlain, EndCatchUpPlain
    <3>4. QED
      BY <1>s, <2>0, <3>1, <3>3
  <2>2. CASE d = c
    <3>z. replay[d] \in Replay
      BY <1>i, <1>t
    <3>1. CASE ReplayBegin(c)
      BY <1>i, <1>t, <1>u, <2>0, <2>2, <3>1, <3>z DEF ReplayBegin, ReplayGoesOn, Kept,
         CatchingUp, Replay
    <3>2. CASE ReplayAsk(c) \/ ReplayWalk(c) \/ ReplayClear(c)
      <4>1. /\ replay[d].at \in {"ask", "walk", "clear"}
            /\ replay'[d].at \in {"walk", "respond"} /\ replay'[d].open = replay[d].open
        BY <1>i, <1>t, <2>2, <3>2, <3>z DEF ReplayAsk, ReplayWalk, ReplayClear, Replays, Replay
      <4>2. QED
        BY <1>u, <2>k, <4>1 DEF ReplayGoesOn, Kept, CatchingUp
    <3>3. CASE ReplayEnd(c)
      <4>1. slot[c] # "cancelled"
        BY <1>i, <2>k, <2>2, <3>3 DEF ReplayEnd, Kept, CatchingUp
      <4>2. QED
        BY <1>i, <1>t, <1>u, <2>k, <2>2, <3>3, <3>z, <4>1 DEF ReplayEnd, ReplayGoesOn, Kept,
           CatchingUp, Replay
    <3>4. CASE ReplayRespond(c)
      BY <1>i, <1>t, <2>k, <2>2, <3>4, <3>z DEF ReplayRespond, Replays, Kept, CatchingUp,
         Promised, Replay
    <3>5. CASE RearmLook(c)
      <4>1. PICK q \in replay[d].open :
              replay'[d] = [replay[d] EXCEPT !.open = @ \ {q},
                                             !.at = IF q \in pending THEN q ELSE @]
        BY <1>i, <1>t, <2>2, <3>5, <3>z DEF RearmLook, Replay
      <4>2. replay[d].at = "rearm" /\ queue' = queue /\ q \in Requests
        BY <2>2, <3>5, <3>z DEF RearmLook, routeVars, Replay
      <4>3. /\ replay'[d].at \in {"rearm"} \cup Requests
            /\ r \in replay[d].open => r \in replay'[d].open \/ replay'[d].at = r
        BY <2>0, <3>z, <4>1, <4>2 DEF Replay
      <4>4. ~CatchingUp(d)' /\ replay[d].at # r
        BY <1>i, <4>2, <4>3, ConstantsAssumption DEF CatchingUp, Stages
      <4>5. QED
        BY <2>0, <2>k, <4>2, <4>3, <4>4 DEF Kept, Told, Promised, Armed, OnItsWayUp
    <3>6. CASE RearmSend(c)
      <4>1. PICK q \in Requests : /\ replay[d].at = q
                                  /\ replay' = [replay EXCEPT ![d].at = "rearm"]
                                  /\ SendTo(d, Msg("Request", q))
        BY <2>2, <3>6 DEF RearmSend, Replays
      <4>2. Msg("Request", q) \in Message /\ Msg("Request", q).kind \notin CaughtUpWords
        BY Messages DEF Msg, CaughtUpWords
      <4>3. queue'[d] = Append(queue[d], Msg("Request", q))
        BY <1>i, <1>t, <2>0, <4>1, SendToPlain
      <4>4. /\ HasWord(queue'[d]) => HasWord(queue[d])
            /\ Coming(queue[d], r) \/ q = r => Coming(queue'[d], r)
        BY <1>v, <4>2, <4>3, QueueGrows
      <4>5. replay'[d].at = "rearm" /\ replay'[d].open = replay[d].open
        BY <1>i, <1>t, <3>z, <4>1 DEF Replay
      <4>6. QED
        BY <2>0, <2>k, <4>1, <4>4, <4>5 DEF Kept, CatchingUp, Told, Promised, Armed, OnItsWayUp
    <3>7. CASE ReplayDone(c)
      <4>1. /\ replay[d].at = "rearm" /\ replay[d].open = {} /\ queue' = queue
            /\ replay'[d].at = "idle"
        BY <1>i, <1>t, <2>2, <3>7 DEF ReplayDone, NoReplay, routeVars
      <4>2. replay[d].at # r
        BY <1>i, <4>1, ConstantsAssumption DEF Stages
      <4>3. QED
        BY <2>0, <2>k, <4>1, <4>2 DEF Kept, CatchingUp, Told, Promised, Armed, OnItsWayUp
    <3>8. QED
      BY <1>3, <3>1, <3>2, <3>3, <3>4, <3>5, <3>6, <3>7 DEF CatchUp
  <2>3. QED
    BY <2>1, <2>2
<1>4. ASSUME NEW t \in Turns, Soul(t) PROVE Kept(d, r)'
  BY <1>4, <1>s, SoulFrame DEF routeVars, coreVars, connVars, clientVars, Here
<1>5. ASSUME NEW t \in Turns, TurnTasks(t) PROVE Kept(d, r)'
  <2>0. UNCHANGED <<phase, approvals, uplink, replay>>
    BY <1>5 DEF TurnTasks, StreamRequest, StreamEvent, Unpark, WriteRecord, ClearToken,
       AnswerPrompt, clientVars, connVars
  <2>1. CASE StreamRequest(t)
    <3>1. PICK q \in Requests : /\ pending' = pending \cup {q} /\ Broadcast(Msg("Request", q))
                                /\ shelved' = shelved \cup ({c \in Conns : CatchingUp(c)} \X {q})
      BY <2>1, StreamHead DEF StreamRequest
    <3>2. Msg("Request", q) \in Message /\ Msg("Request", q).kind \notin CaughtUpWords
      BY Messages DEF Msg, CaughtUpWords
    <3>3. /\ attached' = attached
          /\ queue'[d] = IF d \in attached \ staging THEN Append(queue[d], Msg("Request", q))
                                                     ELSE queue[d]
      BY <1>i, <1>t, <3>1, BroadcastPlain
    <3>4. /\ HasWord(queue'[d]) => HasWord(queue[d])
          /\ Coming(queue[d], r) => Coming(queue'[d], r)
          /\ q = r /\ d \notin staging => Coming(queue'[d], r)
      BY <1>v, <3>2, <3>3, QueueGrows
    <3>5. d \in attached /\ Here(d) /\ <<d, r>> \notin shelved
      BY <2>0, <3>1, <3>3 DEF Here
    <3>6. CASE r = q
      <4>1. ~CatchingUp(d)
        BY <1>i, <3>1, <3>6
      <4>2. d \notin staging
        BY <1>i, <4>1 DEF StagingIsReplaying, CatchingUp
      <4>3. QED
        BY <2>0, <3>4, <3>6, <4>1, <4>2 DEF Kept, CatchingUp, Promised
    <3>7. CASE r # q
      BY <1>m, <2>0, <3>1, <3>4, <3>5, <3>7 DEF Told, Armed, OnItsWayUp
    <3>8. QED
      BY <3>6, <3>7
  <2>2. CASE StreamEvent(t)
    <3>1. /\ Head(raw[t]) \in Record /\ Broadcast(Head(raw[t])) /\ UNCHANGED <<pending, shelved>>
      BY <2>2, StreamHead DEF StreamEvent, coreVars, recordVars
    <3>2. Head(raw[t]) \in Message /\ Head(raw[t]).kind \notin CaughtUpWords
      BY <3>1, Messages, RecordKinds DEF CaughtUpWords
    <3>3. /\ attached' = attached
          /\ queue'[d] \in {queue[d], Append(queue[d], Head(raw[t]))}
      BY <1>i, <1>t, <3>1, BroadcastPlain
    <3>4. /\ HasWord(queue'[d]) => HasWord(queue[d])
          /\ Coming(queue[d], r) => Coming(queue'[d], r)
      BY <1>v, <3>2, <3>3, QueueGrows
    <3>5. QED
      BY <1>m, <2>0, <3>1, <3>3, <3>4 DEF Told, Armed, OnItsWayUp, Here
  <2>3. CASE AnswerPrompt(t)
    <3>1. SendTo(prompter[t], Say("Prompted")) /\ UNCHANGED <<pending, shelved>>
      BY <2>3 DEF AnswerPrompt, coreVars, recordVars
    <3>2. Say("Prompted") \in Message /\ Say("Prompted").kind \notin CaughtUpWords
      BY Messages DEF Say, Msg, CaughtUpWords
    <3>3. /\ attached' = attached
          /\ queue'[d] \in {queue[d], Append(queue[d], Say("Prompted"))}
      BY <1>i, <1>t, <3>1, SendToPlain
    <3>4. /\ HasWord(queue'[d]) => HasWord(queue[d])
          /\ Coming(queue[d], r) => Coming(queue'[d], r)
      BY <1>v, <3>2, <3>3, QueueGrows
    <3>5. QED
      BY <1>m, <2>0, <3>1, <3>3, <3>4 DEF Told, Armed, OnItsWayUp, Here
  <2>4. CASE Unpark(t) \/ WriteRecord(t) \/ ClearToken(t)
    BY <1>s, <2>0, <2>4 DEF Unpark, WriteRecord, ClearToken, routeVars, coreVars,
       recordVars, Here
  <2>5. QED
    BY <1>5, <2>1, <2>2, <2>3, <2>4 DEF TurnTasks
<1>6. CASE Teardown
  <2>1. /\ UNCHANGED <<phase, approvals, uplink, replay, queue, shelved>>
        /\ pending' \subseteq pending /\ attached' \subseteq attached
    BY <1>6, <1>t, LeavePlain DEF Teardown, RejectPending, CancelTurn, CutLoose, routeVars,
       connVars, clientVars, recordVars
  <2>2. QED
    BY <1>s, <2>1 DEF Here
<1>7. CASE UNCHANGED vars
  BY <1>7, <1>s DEF vars, routeVars, coreVars, connVars, clientVars, recordVars, Here
<1>8. QED
  BY <1>1, <1>2, <1>3, <1>4, <1>5, <1>6, <1>7 DEF Next

LEMMA DialogsCorrect == Spec => []DialogsAreKept
<1>1. Init => DialogsAreKept
  BY DEF Init, DialogsAreKept
<1>2. TypeOK /\ Plain /\ Ledgers /\ SlotIsHeld /\ StagingIsReplaying /\ AnswersAreGiven
        /\ OpenIsUnanswered /\ DialogsAreKept /\ [Next]_vars => DialogsAreKept'
  BY DialogsStep
<1>3. QED
  BY <1>1, <1>2, TypeCorrect, LedgersCorrect, StagingCorrect, AnswersCorrect, PTL DEF Spec

(* server.rs:800-805: however the attaching, the raising of requests and the answers
   of other clients interleave, an attached client that caught up can answer every
   approval still open, but for the ones its own catch-up filed as history. *)
THEOREM ArmedCorrect == Spec => []ArmedUnlessShelved
<1>1. TypeOK /\ Plain /\ DialogsAreKept => ArmedUnlessShelved
  <2> SUFFICES ASSUME TypeOK, Plain, DialogsAreKept, NEW c \in Conns,
                      NEW r \in pending \ ToolCalls, Settled(c), <<c, r>> \notin shelved
               PROVE  Armed(c, r) \/ InQueue(c, Msg("Request", r)) \/ OnItsWayUp(c, r)
    BY DEF ArmedUnlessShelved
  <2>1. /\ c \in attached /\ Here(c) /\ Told(c) /\ replay[c].at = "idle"
        /\ replay[c].open = {}
    BY DEF Settled, Here, Told, Plain, IdleHoldsNothing
  <2>2. Promised(c, r)
    BY <2>1 DEF DialogsAreKept, Kept
  <2>3. r \in Requests /\ queue[c] \in Seq(Message)
    BY DEF TypeOK, CoreTypeOK, FanoutTypeOK
  <2>4. replay[c].at # r
    BY <2>1, <2>3, ConstantsAssumption DEF Stages
  <2>5. Coming(queue[c], r) => InQueue(c, Msg("Request", r))
    <3>1. DOMAIN queue[c] = 1..Len(queue[c])
      BY <2>3
    <3>2. QED
      BY <3>1 DEF Coming, InQueue
  <2>6. QED
    BY <2>1, <2>2, <2>4, <2>5 DEF Promised
<1>2. QED
  BY <1>1, TypeCorrect, LedgersCorrect, DialogsCorrect, PTL
=================================================================================

------------------------------- MODULE WireSession -------------------------------
(***************************************************************************)
(* One live agent and the frontends attached to it: the SessionCore, the   *)
(* Connections and the per-turn tasks of                                   *)
(* server/dvadva-agent/src/wire/server.rs, the turn driver of soul/mod.rs, *)
(* and at the other end of each connection the client session of           *)
(* client/inkvizitor/src/session.rs and client/dvadva-tui/src/agent.rs.    *)
(*                                                                         *)
(* A step is what a task does between two awaits.  The soul is abstract:   *)
(* it raises requests, waits for their answers, and ends its turn well,    *)
(* badly or cancelled.  Message contents, status figures and acks no       *)
(* client reads are left out.  Steering has no part here.                  *)
(***************************************************************************)
EXTENDS Naturals, Sequences, FiniteSets

CONSTANTS
    Conns,      \* the connections there will ever be: ids are never reused
    Veterans,   \* those attached and caught up, on an empty session, at the start
    Habits,     \* what clients do: "cancel", "interrupt", "hangup", "shutdown"
    Requests,   \* the ids the agent mints for its requests
    ToolCalls,  \* the requests that are external tool calls, not approvals
    Tools,      \* the names clients may offer as external tools
    Builtin,    \* those of them the toolset already has
    MaxTurns,   \* bound: turns started
    MaxUplink,  \* bound: messages a user has in flight to the agent
    Fallible,   \* the turns that may end in an error
    NoConn,     \* no connection: the owner of an unclaimed tool
    NoRequest   \* no request: a stream loop that is not parked

\* Where a catch-up task is; between RearmLook and RearmSend it holds a request.
Stages == {"idle", "begin", "ask", "walk", "clear", "respond", "rearm"}

ASSUME ConstantsAssumption ==
    /\ Veterans \subseteq Conns
    /\ Requests \cap Stages = {}
    /\ ToolCalls \subseteq Requests /\ Builtin \subseteq Tools
    /\ MaxTurns \in Nat /\ MaxUplink \in Nat
    /\ NoConn \notin Conns /\ NoRequest \notin Requests

Turns == 1..MaxTurns
NoTurn == 0

\* Messages.  `of` is the turn or the request a message is about.
Record == [kind : {"TurnBegin", "TurnEnd"}, of : Turns]
            \cup [kind : {"Request", "ApprovalResponse"}, of : Requests]

Response == [kind : {"Initialized", "Replayed", "ReplayedRunning", "Prompted"},
             of : {NoTurn}]

Message == Record \cup Response

Call == [kind : {"initialize", "replay", "prompt", "cancel", "shutdown", "eof"},
         of : {NoTurn}]
           \cup [kind : {"answer"}, of : Requests]

Msg(kind, of) == [kind |-> kind, of |-> of]
Say(kind) == Msg(kind, NoTurn)

VARIABLES
    attached, open, staging, staged, queue,   \* the fan-out
    \* SessionCore
    pending,       \* the requests awaiting an answer
    token,         \* the turn whose token is in the cancel_token slot
    cancelled,     \* the turns whose token was cancelled
    toolOwner,     \* which connection owns each external tool
    registered,    \* the external tools the toolset holds
    stop,          \* whether the stop token is cancelled
    teardown,      \* how far the session's own shutdown has got
    \* each Connection
    life,          \* where its serve_connection is
    initialized,   \* the connections that have initialized
    slot,          \* replay_cancel: "none", "live" or "cancelled"
    replay,        \* its catch-up task
    \* each turn
    turn,          \* where the turn is
    prompter,      \* the connection whose prompt started it
    parked,        \* the request its stream loop waits on
    raw,           \* what the soul sent and the stream loop has not taken
    rec,           \* what the soul sent and the recorder has not written
    \* requests, and the wire file
    asker,         \* the turn that raised each request
    answer,        \* how each request was resolved
    relayed,       \* the requests whose answer the soul has taken
    file,          \* the session's wire file
    shelved,       \* history: <<c, r>> if c's catch-up filed r away while r was open
    \* each client
    phase,         \* the lifecycle its screen shows
    prompting,     \* the clients with a prompt_id
    approvals,     \* how many dialogs its screen has armed for each request
    uplink         \* what it sent and the agent has not read

INSTANCE Fanout WITH Msgs <- Message

routeVars == <<attached, open, staging, staged, queue>>
coreVars == <<pending, token, cancelled, toolOwner, registered, stop, teardown>>
connVars == <<life, initialized, slot, replay>>
turnVars == <<turn, prompter, parked, raw, rec>>
recordVars == <<asker, answer, relayed, file, shelved>>
clientVars == <<phase, prompting, approvals, uplink>>
vars == <<routeVars, coreVars, connVars, turnVars, recordVars, clientVars>>

\* Mutant: positions in the file counted from zero.
NoReplayFromZero == [at |-> "idle", pos |-> 0, open |-> {}, running |-> FALSE]

NoReplay == [at |-> "idle", pos |-> 1, open |-> {}, running |-> FALSE]

NoDialogs == [r \in Requests |-> 0]

CoreTypeOK ==
    /\ pending \in SUBSET Requests
    /\ token \in Turns \cup {NoTurn}
    /\ cancelled \in SUBSET Turns
    /\ toolOwner \in [Tools -> Conns \cup {NoConn}]
    /\ registered \in SUBSET Tools
    /\ stop \in BOOLEAN
    /\ teardown \in {"up", "rejected", "cancelled", "down"}

Replay == [at : Stages \cup Requests, pos : Nat \ {0}, open : SUBSET Requests,
           running : BOOLEAN]

ConnTypeOK ==
    /\ life \in [Conns -> {"absent", "reading", "prompting", "closing",
                           "releasing", "detaching", "gone"}]
    /\ initialized \in SUBSET Conns
    /\ slot \in [Conns -> {"none", "live", "cancelled"}]
    /\ replay \in [Conns -> Replay]

TurnTypeOK ==
    /\ turn \in [Turns -> {"none", "starting", "running", "closed", "cleared", "done"}]
    /\ prompter \in [Turns -> Conns \cup {NoConn}]
    /\ parked \in [Turns -> Requests \cup {NoRequest}]
    /\ raw \in [Turns -> Seq(Record)]
    /\ rec \in [Turns -> Seq(Record)]

RecordTypeOK ==
    /\ asker \in [Requests -> Turns \cup {NoTurn}]
    /\ answer \in [Requests -> {"none", "client", "shutdown"}]
    /\ relayed \in SUBSET Requests
    /\ file \in Seq(Record)
    /\ shelved \in SUBSET (Conns \X Requests)

ClientTypeOK ==
    /\ phase \in [Conns -> {"Absent", "Initializing", "Replaying", "Ready", "Running",
                            "Detached", "Left"}]
    /\ prompting \in SUBSET Conns
    /\ approvals \in [Conns -> [Requests -> Nat]]
    /\ uplink \in [Conns -> Seq(Call)]

TypeOK ==
    /\ FanoutTypeOK /\ CoreTypeOK /\ ConnTypeOK /\ TurnTypeOK /\ RecordTypeOK
    /\ ClientTypeOK

\* Veterans attached to a session with no history, initialized, replayed it and
\* were told it was quiet.
Init ==
    /\ attached = Veterans /\ open = Veterans /\ staging = {}
    /\ staged = [c \in Conns |-> <<>>]
    /\ queue = [c \in Conns |-> <<>>]
    /\ pending = {} /\ token = NoTurn /\ cancelled = {}
    /\ toolOwner = [n \in Tools |-> NoConn] /\ registered = {}
    /\ stop = FALSE /\ teardown = "up"
    /\ life = [c \in Conns |-> IF c \in Veterans THEN "reading" ELSE "absent"]
    /\ initialized = Veterans
    /\ slot = [c \in Conns |-> "none"]
    /\ replay = [c \in Conns |-> NoReplay]
    /\ turn = [t \in Turns |-> "none"]
    /\ prompter = [t \in Turns |-> NoConn]
    /\ parked = [t \in Turns |-> NoRequest]
    /\ raw = [t \in Turns |-> <<>>] /\ rec = [t \in Turns |-> <<>>]
    /\ asker = [r \in Requests |-> NoTurn]
    /\ answer = [r \in Requests |-> "none"] /\ relayed = {}
    /\ file = <<>> /\ shelved = {}
    /\ phase = [c \in Conns |-> IF c \in Veterans THEN "Ready" ELSE "Absent"]
    /\ prompting = {}
    /\ approvals = [c \in Conns |-> NoDialogs]
    /\ uplink = [c \in Conns |-> <<>>]

---------------------------------------------------------------------------------
(* The client.  It is `Here` until its connection ends under it or it leaves. *)

Here(c) == phase[c] \in {"Initializing", "Replaying", "Ready", "Running"}

Send(c, call) == uplink' = [uplink EXCEPT ![c] = Append(@, call)]

\* serve_connection: attach, spawn the writer, start reading.  The client's first
\* word is already on the way.
Connect(c) ==
    /\ life[c] = "absent"
    /\ Attach(c)
    /\ life' = [life EXCEPT ![c] = "reading"]
    /\ phase' = [phase EXCEPT ![c] = "Initializing"]
    /\ Send(c, Say("initialize"))
    /\ UNCHANGED <<coreVars, turnVars, recordVars, initialized, slot, replay,
                   prompting, approvals>>

Idle == UNCHANGED <<coreVars, connVars, turnVars, recordVars>>

MayType(c) == Here(c) /\ Len(uplink[c]) < MaxUplink

\* Bound: no more prompts afloat than turns left to start.
PromptsAfloat ==
    {c \in Conns : life[c] = "prompting"
                      \/ \E i \in DOMAIN uplink[c] : uplink[c][i].kind = "prompt"}

TurnsLeft == Cardinality({t \in Turns : turn[t] = "none"}) > Cardinality(PromptsAfloat)

Submit(c) ==
    /\ MayType(c) /\ TurnsLeft
    /\ phase[c] = "Ready"
    /\ Send(c, Say("prompt"))
    /\ prompting' = prompting \cup {c}
    /\ phase' = [phase EXCEPT ![c] = "Running"]
    /\ Idle /\ UNCHANGED <<routeVars, approvals>>

\* Escape, or a client that gives up on a long catch-up.
Cancel(c) ==
    /\ MayType(c)
    /\ \/ phase[c] = "Running" /\ "cancel" \in Habits
       \/ phase[c] = "Replaying" /\ "interrupt" \in Habits
    /\ Send(c, Say("cancel"))
    /\ Idle /\ UNCHANGED <<routeVars, phase, prompting, approvals>>

\* Answer one of the dialogs: it comes down and its answer goes up.
Resolve(c) ==
    /\ MayType(c)
    /\ \E r \in Requests :
          /\ approvals[c][r] > 0
          /\ approvals' = [approvals EXCEPT ![c][r] = @ - 1]
          /\ Send(c, Msg("answer", r))
    /\ Idle /\ UNCHANGED <<routeVars, phase, prompting>>

\* Bound: nobody asks again once the session stops.
AskToStop(c) ==
    /\ MayType(c) /\ "shutdown" \in Habits /\ ~stop
    /\ Send(c, Say("shutdown"))
    /\ Idle /\ UNCHANGED <<routeVars, phase, prompting, approvals>>

\* The client goes: a closed window, a dropped tunnel.
HangUp(c) ==
    /\ Here(c) /\ "hangup" \in Habits
    /\ phase' = [phase EXCEPT ![c] = "Left"]
    /\ prompting' = prompting \ {c}
    /\ approvals' = [approvals EXCEPT ![c] = NoDialogs]
    /\ Send(c, Say("eof"))
    /\ Idle /\ UNCHANGED routeVars

\* What was meant for a client that left reaches nobody.
Lose(c) ==
    /\ phase[c] \in {"Left", "Detached"}
    /\ Take(c)
    /\ Idle /\ UNCHANGED clientVars

\* The stream ended: drained, and shut down on the agent's side.
ConnectionEnded(c) ==
    /\ Here(c) /\ c \notin open /\ queue[c] = <<>>
    /\ phase' = [phase EXCEPT ![c] = "Detached"]
    /\ prompting' = prompting \ {c}
    /\ approvals' = [approvals EXCEPT ![c] = NoDialogs]
    /\ Idle /\ UNCHANGED <<routeVars, uplink>>

\* drain_inbound, one message.  While it replays, the client takes a request for
\* history: it renders it and does not arm it.
TakeEvent(c, m) ==
    /\ phase' = IF m.kind = "TurnEnd" /\ phase[c] = "Running" /\ c \notin prompting
                THEN [phase EXCEPT ![c] = "Ready"] ELSE phase
    /\ approvals' = IF m.kind = "ApprovalResponse"
                    THEN [approvals EXCEPT ![c][m.of] = 0]
                    ELSE approvals
    /\ UNCHANGED <<prompting, uplink>>

TakeRequest(c, r) ==
    /\ approvals' = IF phase[c] = "Replaying" \/ r \in ToolCalls THEN approvals
                    ELSE [approvals EXCEPT ![c][r] = @ + 1]
    /\ IF phase[c] # "Replaying" /\ r \in ToolCalls
       THEN Send(c, Msg("answer", r)) ELSE UNCHANGED uplink
    /\ UNCHANGED <<phase, prompting>>

TakeResponse(c, kind) ==
    /\ phase' = [phase EXCEPT ![c] = CASE kind = "Initialized" -> "Replaying"
                                       [] kind = "ReplayedRunning" -> "Running"
                                       [] OTHER -> "Ready"]
    /\ prompting' = IF kind = "Prompted" THEN prompting \ {c} ELSE prompting
    /\ IF kind = "Initialized" THEN Send(c, Say("replay")) ELSE UNCHANGED uplink
    /\ UNCHANGED approvals

Receive(c) ==
    /\ Here(c)
    /\ Take(c)
    /\ LET m == Head(queue[c]) IN
         \/ m.kind \in {"TurnBegin", "TurnEnd", "ApprovalResponse"} /\ TakeEvent(c, m)
         \/ m.kind = "Request" /\ TakeRequest(c, m.of)
         \/ m \in Response /\ TakeResponse(c, m.kind)
    /\ Idle

---------------------------------------------------------------------------------
(* A connection's read loop: one message at a time, each handler to its end. *)

Reads(c, kind) ==
    /\ life[c] = "reading"
    /\ uplink[c] # <<>> /\ Head(uplink[c]).kind = kind
    /\ uplink' = [uplink EXCEPT ![c] = Tail(@)]
    /\ UNCHANGED <<phase, prompting, approvals>>

\* A name is granted unless a builtin has it or another connection owns it.
Granted(c, offer) ==
    {n \in offer \ Builtin : toolOwner[n] \in {NoConn, c}}

HandleInitialize(c) ==
    /\ Reads(c, "initialize")
    /\ \E offer \in SUBSET Tools :
          /\ registered' = registered \cup Granted(c, offer)
          /\ toolOwner' = [n \in Tools |->
                              IF n \in Granted(c, offer) THEN c ELSE toolOwner[n]]
    /\ initialized' = initialized \cup {c}
    /\ SendTo(c, Say("Initialized"))
    /\ UNCHANGED <<pending, token, cancelled, stop, teardown, life, slot, replay,
                   turnVars, recordVars>>

\* Mutant: a prompt that comes too early is dropped without an answer.
RefusePromptSilently(c) == token # NoTurn /\ UNCHANGED <<routeVars, life>>

\* handle_prompt looks at the slot in one critical section and fills it in a
\* later one.
RefusePrompt(c) ==
    /\ token # NoTurn
    /\ SendTo(c, Say("Prompted"))
    /\ UNCHANGED life

AdmitPrompt(c) ==
    /\ token = NoTurn
    /\ life' = [life EXCEPT ![c] = "prompting"]
    /\ UNCHANGED routeVars

HandlePrompt(c) ==
    /\ Reads(c, "prompt")
    /\ RefusePrompt(c) \/ AdmitPrompt(c)
    /\ UNCHANGED <<coreVars, initialized, slot, replay, turnVars, recordVars>>

StartTurn(c) ==
    /\ life[c] = "prompting"
    /\ life' = [life EXCEPT ![c] = "reading"]
    /\ \E t \in Turns :
          /\ turn[t] = "none" /\ \A u \in 1..(t - 1) : turn[u] # "none"
          /\ turn' = [turn EXCEPT ![t] = "starting"]
          /\ prompter' = [prompter EXCEPT ![t] = c]
          /\ token' = t
    /\ UNCHANGED <<routeVars, pending, cancelled, toolOwner, registered, stop, teardown,
                   initialized, slot, replay, parked, raw, rec, recordVars, clientVars>>

\* No Rust client asks twice on one connection; the slot refuses it if one does.
HandleReplay(c) ==
    /\ Reads(c, "replay")
    /\ slot[c] = "none"
    /\ slot' = [slot EXCEPT ![c] = "live"]
    /\ replay' = [replay EXCEPT ![c] = [NoReplay EXCEPT !.at = "begin"]]
    /\ UNCHANGED <<routeVars, coreVars, life, initialized, turnVars, recordVars>>

\* A cancel stops the sender's own catch-up if it has one, else the turn.
HandleCancel(c) ==
    /\ Reads(c, "cancel")
    /\ \/ /\ slot[c] # "none"
          /\ slot' = [slot EXCEPT ![c] = "cancelled"]
          /\ UNCHANGED cancelled
       \/ /\ slot[c] = "none"
          /\ cancelled' = cancelled \cup ({token} \ {NoTurn})
          /\ UNCHANGED slot
    /\ UNCHANGED <<routeVars, pending, token, toolOwner, registered, stop, teardown,
                   life, initialized, replay, turnVars, recordVars>>

HandleShutdown(c) ==
    /\ Reads(c, "shutdown")
    /\ stop' = TRUE
    /\ UNCHANGED <<routeVars, pending, token, cancelled, toolOwner, registered,
                   teardown, connVars, turnVars, recordVars>>

\* The first answer wins: PendingResponse::resolve keeps the value it has.
Resolved(rs, how) ==
    [r \in Requests |-> IF r \in rs /\ answer[r] = "none" THEN how ELSE answer[r]]

\* Mutant: an answer that cannot be read takes its request off the table.
HandleResponseUnread(c) ==
    /\ Reads(c, "answer")
    /\ pending' = pending \ {Head(uplink[c]).of}
    /\ UNCHANGED <<routeVars, token, cancelled, toolOwner, registered, stop, teardown,
                   connVars, turnVars, recordVars>>

HandleResponse(c) ==
    /\ Reads(c, "answer")
    /\ LET r == Head(uplink[c]).of IN
         /\ pending' = pending \ {r}
         /\ answer' = Resolved(pending \cap {r}, "client")
    /\ UNCHANGED <<routeVars, token, cancelled, toolOwner, registered, stop, teardown,
                   connVars, turnVars, asker, relayed, file, shelved>>

\* Mutant: the read loop does not watch the stop token.
StopReadingAtEof(c) ==
    /\ Reads(c, "eof")
    /\ life' = [life EXCEPT ![c] = "closing"]
    /\ UNCHANGED <<routeVars, coreVars, initialized, slot, replay, turnVars, recordVars>>

\* The loop ends on an end of file, or as soon as the session stops.
StopReading(c) ==
    /\ \/ Reads(c, "eof")
       \/ life[c] = "reading" /\ stop /\ UNCHANGED clientVars
    /\ life' = [life EXCEPT ![c] = "closing"]
    /\ UNCHANGED <<routeVars, coreVars, initialized, slot, replay, turnVars, recordVars>>

\* Connection::close lets the catch-up finish, takes the client's tools away, and
\* detaches it.
AwaitReplay(c) ==
    /\ life[c] = "closing" /\ replay[c].at = "idle"
    /\ life' = [life EXCEPT ![c] = "releasing"]
    /\ UNCHANGED <<routeVars, coreVars, initialized, slot, replay, turnVars, recordVars,
                   clientVars>>

\* Mutant: the names are free again, the tools stay in the toolset.
ReleaseExternalToolNames(c) ==
    /\ life[c] = "releasing"
    /\ toolOwner' = [n \in Tools |-> IF toolOwner[n] = c THEN NoConn ELSE toolOwner[n]]
    /\ life' = [life EXCEPT ![c] = "detaching"]
    /\ UNCHANGED <<routeVars, pending, token, cancelled, registered, stop, teardown,
                   initialized, slot, replay, turnVars, recordVars, clientVars>>

ReleaseExternalTools(c) ==
    /\ life[c] = "releasing"
    /\ LET mine == {n \in Tools : toolOwner[n] = c} IN
         /\ registered' = registered \ mine
         /\ toolOwner' = [n \in Tools |-> IF n \in mine THEN NoConn ELSE toolOwner[n]]
    /\ life' = [life EXCEPT ![c] = "detaching"]
    /\ UNCHANGED <<routeVars, pending, token, cancelled, stop, teardown, initialized,
                   slot, replay, turnVars, recordVars, clientVars>>

Close(c) ==
    /\ life[c] = "detaching"
    /\ Detach(c)
    /\ life' = [life EXCEPT ![c] = "gone"]
    /\ UNCHANGED <<coreVars, initialized, slot, replay, turnVars, recordVars, clientVars>>

---------------------------------------------------------------------------------
(* The catch-up task of a connection: replay_to, then the tail of handle_replay. *)

Replays(c, at, next) ==
    /\ replay[c].at = at
    /\ replay' = [replay EXCEPT ![c].at = next]
    /\ UNCHANGED <<coreVars, life, initialized, turnVars, recordVars, clientVars>>

\* Under the lock of pending: the snapshot and the staging are one step.
ReplayBegin(c) ==
    /\ replay[c].at = "begin"
    /\ replay' = [replay EXCEPT ![c].at = "ask", ![c].open = pending]
    /\ BeginCatchUp(c)
    /\ UNCHANGED <<coreVars, life, initialized, slot, turnVars, recordVars, clientVars>>

\* Mutant: the snapshot is taken again once the staging is on.
ReplayAskLate(c) ==
    /\ replay[c].at = "ask"
    /\ replay' = [replay EXCEPT ![c].at = "walk", ![c].open = pending,
                               ![c].running = (token # NoTurn)]
    /\ UNCHANGED <<routeVars, coreVars, life, initialized, slot, turnVars, recordVars,
                   clientVars>>

ReplayAsk(c) ==
    /\ replay[c].at = "ask"
    /\ replay' = [replay EXCEPT ![c].at = "walk", ![c].running = (token # NoTurn)]
    /\ UNCHANGED <<routeVars, coreVars, life, initialized, slot, turnVars, recordVars,
                   clientVars>>

\* One record of the file, which may grow under the walk.  A request still open
\* at the start is not history and is passed over.
ReplayWalk(c) ==
    /\ replay[c].at = "walk" /\ slot[c] # "cancelled"
    /\ replay[c].pos <= Len(file)
    /\ LET m == file[replay[c].pos] IN
         IF m.kind = "Request" /\ m.of \in replay[c].open
         THEN UNCHANGED routeVars ELSE SendTo(c, m)
    /\ replay' = [replay EXCEPT ![c].pos = @ + 1]
    /\ UNCHANGED <<coreVars, life, initialized, slot, turnVars, recordVars, clientVars>>

\* Mutant: a walk cut short leaves the connection staging.
ReplayEndDeaf(c) ==
    /\ replay[c].at = "walk"
    /\ slot[c] = "cancelled" \/ replay[c].pos > Len(file)
    /\ replay' = [replay EXCEPT ![c].at = "clear"]
    /\ IF slot[c] = "cancelled" THEN UNCHANGED routeVars ELSE EndCatchUp(c)
    /\ UNCHANGED <<coreVars, life, initialized, slot, turnVars, recordVars, clientVars>>

\* A walk cut short hands nothing over afterwards.
ReplayEnd(c) ==
    /\ replay[c].at = "walk"
    /\ slot[c] = "cancelled" \/ replay[c].pos > Len(file)
    /\ replay' = [replay EXCEPT ![c].at = "clear",
                               ![c].open = IF slot[c] = "cancelled" THEN {} ELSE @]
    /\ EndCatchUp(c)
    /\ shelved' = IF slot[c] = "cancelled" THEN shelved \cup ({c} \X replay[c].open)
                                          ELSE shelved
    /\ UNCHANGED <<coreVars, life, initialized, slot, turnVars, asker, answer, relayed,
                   file, clientVars>>

ReplayClear(c) ==
    /\ Replays(c, "clear", "respond")
    /\ slot' = [slot EXCEPT ![c] = "none"]
    /\ UNCHANGED routeVars

\* Mutant: the requests found open are never handed over.
ReplayRespondOnly(c) ==
    /\ replay[c].at = "respond"
    /\ replay' = [replay EXCEPT ![c].at = "rearm", ![c].open = {}]
    /\ SendTo(c, Say(IF replay[c].running THEN "ReplayedRunning" ELSE "Replayed"))
    /\ UNCHANGED <<coreVars, life, initialized, slot, turnVars, recordVars, clientVars>>

\* Mutant: the end of the catch-up is staged rather than sent.
ReplayRespondMute(c) == Replays(c, "respond", "rearm") /\ UNCHANGED <<slot, routeVars>>

ReplayRespond(c) ==
    /\ Replays(c, "respond", "rearm")
    /\ SendTo(c, Say(IF replay[c].running THEN "ReplayedRunning" ELSE "Replayed"))
    /\ UNCHANGED slot

\* rearm_open_requests looks a request up under the lock and sends it after.
RearmLook(c) ==
    /\ replay[c].at = "rearm"
    /\ \E r \in replay[c].open :
          replay' = [replay EXCEPT ![c].open = @ \ {r},
                                 ![c].at = IF r \in pending THEN r ELSE @]
    /\ UNCHANGED <<routeVars, coreVars, life, initialized, slot, turnVars, recordVars,
                   clientVars>>

RearmSend(c) ==
    /\ \E r \in Requests : Replays(c, r, "rearm") /\ SendTo(c, Msg("Request", r))
    /\ UNCHANGED slot

ReplayDone(c) ==
    /\ replay[c].at = "rearm" /\ replay[c].open = {}
    /\ replay' = [replay EXCEPT ![c] = NoReplay]
    /\ UNCHANGED <<routeVars, coreVars, life, initialized, slot, turnVars, recordVars,
                   clientVars>>

\* Between its snapshot and the word that its catch-up is over.
CatchingUp(c) == replay[c].at \in {"ask", "walk", "clear", "respond"}

---------------------------------------------------------------------------------
(* A turn.  The soul speaks on the turn's wire: to the stream loop, which tells   *)
(* the clients, and to the recorder, which writes the file, each at its own pace. *)

Speak(t, m) ==
    /\ raw' = [raw EXCEPT ![t] = Append(@, m)]
    /\ rec' = [rec EXCEPT ![t] = Append(@, m)]

SoulUnchanged == UNCHANGED <<routeVars, coreVars, connVars, prompter, parked, file,
                             shelved, clientVars>>

SoulBegin(t) ==
    /\ turn[t] = "starting"
    /\ turn' = [turn EXCEPT ![t] = "running"]
    /\ Speak(t, Msg("TurnBegin", t))
    /\ SoulUnchanged /\ UNCHANGED <<asker, answer, relayed>>

\* A tool wants approval, or is an external one that a client has to run.
SoulAsk(t, r) ==
    /\ turn[t] = "running" /\ asker[r] = NoTurn
    /\ asker' = [asker EXCEPT ![r] = t]
    /\ Speak(t, Msg("Request", r))
    /\ SoulUnchanged /\ UNCHANGED <<turn, answer, relayed>>

SoulAnswered(t, r) ==
    /\ turn[t] = "running" /\ asker[r] = t
    /\ answer[r] # "none" /\ r \notin relayed
    /\ relayed' = relayed \cup {r}
    /\ IF r \in ToolCalls THEN UNCHANGED <<raw, rec>>
                           ELSE Speak(t, Msg("ApprovalResponse", r))
    /\ SoulUnchanged /\ UNCHANGED <<turn, asker, answer>>

\* run_soul's select: the turn ends well and says so, ends in an error, or loses
\* to its cancel token.  Only the first of the three sends TurnEnd.  The wire is
\* closed in the same breath: what a surviving task says on it later is lost.
SoulFinish(t) ==
    /\ turn[t] = "running"
    /\ \A r \in Requests : asker[r] = t => r \in relayed
    /\ turn' = [turn EXCEPT ![t] = "closed"]
    /\ Speak(t, Msg("TurnEnd", t))
    /\ SoulUnchanged /\ UNCHANGED <<asker, answer, relayed>>

SoulCutShort(t) ==
    /\ \/ turn[t] = "running" /\ t \in Fallible
       \/ turn[t] \in {"starting", "running"} /\ t \in cancelled
    /\ turn' = [turn EXCEPT ![t] = "closed"]
    /\ SoulUnchanged /\ UNCHANGED <<raw, rec, asker, answer, relayed>>

\* stream_wire_messages: a request is registered and broadcast under one lock,
\* and the loop is parked until it is resolved.
StreamRequest(t) ==
    /\ parked[t] = NoRequest
    /\ raw[t] # <<>> /\ Head(raw[t]).kind = "Request"
    /\ LET r == Head(raw[t]).of IN
         /\ pending' = pending \cup {r}
         /\ parked' = [parked EXCEPT ![t] = r]
         /\ Broadcast(Msg("Request", r))
         /\ shelved' = shelved \cup ({c \in Conns : CatchingUp(c)} \X {r})
    /\ raw' = [raw EXCEPT ![t] = Tail(@)]
    /\ UNCHANGED <<token, cancelled, toolOwner, registered, stop, teardown, connVars,
                   turn, prompter, rec, asker, answer, relayed, file, clientVars>>

StreamEvent(t) ==
    /\ parked[t] = NoRequest
    /\ raw[t] # <<>> /\ Head(raw[t]).kind # "Request"
    /\ Broadcast(Head(raw[t]))
    /\ raw' = [raw EXCEPT ![t] = Tail(@)]
    /\ UNCHANGED <<coreVars, connVars, turn, prompter, parked, rec, recordVars, clientVars>>

Unpark(t) ==
    /\ parked[t] # NoRequest /\ answer[parked[t]] # "none"
    /\ parked' = [parked EXCEPT ![t] = NoRequest]
    /\ UNCHANGED <<routeVars, coreVars, connVars, turn, prompter, raw, rec, recordVars,
                   clientVars>>

WriteRecord(t) ==
    /\ rec[t] # <<>>
    /\ file' = Append(file, Head(rec[t]))
    /\ rec' = [rec EXCEPT ![t] = Tail(@)]
    /\ UNCHANGED <<routeVars, coreVars, connVars, turn, prompter, parked, raw, asker,
                   answer, relayed, shelved, clientVars>>

\* Mutant: the turn waits for its stream loop without the half-second timeout.
ClearTokenPatient(t) ==
    /\ turn[t] = "closed"
    /\ rec[t] = <<>> /\ raw[t] = <<>> /\ parked[t] = NoRequest
    /\ token' = NoTurn
    /\ turn' = [turn EXCEPT ![t] = "cleared"]
    /\ UNCHANGED <<routeVars, pending, cancelled, toolOwner, registered, stop, teardown,
                   connVars, prompter, parked, raw, rec, recordVars, clientVars>>

\* The recorder is joined, the stream loop waited for half a second: it outlasts
\* that only parked on a request.  Then the slot is cleared, whosever it is.
ClearToken(t) ==
    /\ turn[t] = "closed"
    /\ rec[t] = <<>> /\ (raw[t] = <<>> \/ parked[t] # NoRequest)
    /\ token' = NoTurn
    /\ turn' = [turn EXCEPT ![t] = "cleared"]
    /\ UNCHANGED <<routeVars, pending, cancelled, toolOwner, registered, stop, teardown,
                   connVars, prompter, parked, raw, rec, recordVars, clientVars>>

AnswerPrompt(t) ==
    /\ turn[t] = "cleared"
    /\ SendTo(prompter[t], Say("Prompted"))
    /\ turn' = [turn EXCEPT ![t] = "done"]
    /\ UNCHANGED <<coreVars, connVars, prompter, parked, raw, rec, recordVars, clientVars>>

---------------------------------------------------------------------------------
(* The session's own end, once the stop token has ended the accept loop. *)

RejectPending ==
    /\ stop /\ teardown = "up"
    /\ pending' = {}
    /\ answer' = Resolved(pending, "shutdown")
    /\ teardown' = "rejected"
    /\ UNCHANGED <<routeVars, token, cancelled, toolOwner, registered, stop, connVars,
                   turnVars, asker, relayed, file, shelved, clientVars>>

CancelTurn ==
    /\ teardown = "rejected"
    /\ cancelled' = cancelled \cup ({token} \ {NoTurn})
    /\ token' = NoTurn
    /\ teardown' = "cancelled"
    /\ UNCHANGED <<routeVars, pending, toolOwner, registered, stop, connVars, turnVars,
                   recordVars, clientVars>>

CutLoose ==
    /\ teardown = "cancelled"
    /\ Shutdown
    /\ teardown' = "down"
    /\ UNCHANGED <<pending, token, cancelled, toolOwner, registered, stop, connVars,
                   turnVars, recordVars, clientVars>>

\* What the idle watch of the listener asks: nobody attached, and no turn, or a
\* request nobody is there to answer.
IsIdle == attached = {} /\ (token = NoTurn \/ pending # {})

---------------------------------------------------------------------------------
Client(c) ==
    \/ Connect(c) \/ Submit(c) \/ Cancel(c) \/ Resolve(c) \/ AskToStop(c)
    \/ HangUp(c) \/ Lose(c) \/ ConnectionEnded(c) \/ Receive(c)

Handler(c) ==
    \/ HandleInitialize(c) \/ HandlePrompt(c) \/ StartTurn(c) \/ HandleReplay(c)
    \/ HandleCancel(c) \/ HandleShutdown(c) \/ HandleResponse(c)
    \/ StopReading(c) \/ AwaitReplay(c) \/ ReleaseExternalTools(c) \/ Close(c)

CatchUp(c) ==
    \/ ReplayBegin(c) \/ ReplayAsk(c) \/ ReplayWalk(c) \/ ReplayEnd(c) \/ ReplayClear(c)
    \/ ReplayRespond(c) \/ RearmLook(c) \/ RearmSend(c) \/ ReplayDone(c)

Soul(t) ==
    \/ SoulBegin(t) \/ SoulFinish(t) \/ SoulCutShort(t)
    \/ \E r \in Requests : SoulAsk(t, r) \/ SoulAnswered(t, r)

TurnTasks(t) ==
    \/ StreamRequest(t) \/ StreamEvent(t) \/ Unpark(t) \/ WriteRecord(t)
    \/ ClearToken(t) \/ AnswerPrompt(t)

Teardown == RejectPending \/ CancelTurn \/ CutLoose

Next ==
    \/ \E c \in Conns : Client(c) \/ Handler(c) \/ CatchUp(c)
    \/ \E t \in Turns : Soul(t) \/ TurnTasks(t)
    \/ Teardown

Spec == Init /\ [][Next]_vars

\* What the code's own tasks owe: the runtime schedules every one of them, a
\* client drains its inbound queue, and a cancelled select takes its branch.
\* Nobody owes a keystroke, an answer to a dialog, or an end to a turn.
Fairness ==
    /\ \A c \in Conns : /\ WF_vars(Receive(c) \/ Lose(c) \/ ConnectionEnded(c))
                        /\ WF_vars(Handler(c))
                        /\ WF_vars(CatchUp(c))
    /\ \A t \in Turns : /\ WF_vars(t \in cancelled /\ SoulCutShort(t))
                        /\ WF_vars(StreamRequest(t) \/ StreamEvent(t) \/ Unpark(t))
                        /\ WF_vars(WriteRecord(t))
                        /\ WF_vars(ClearToken(t) \/ AnswerPrompt(t))
    /\ WF_vars(Teardown)

FairSpec == Spec /\ Fairness

=================================================================================

----------------------------- MODULE ClientSession -----------------------------
(***************************************************************************)
(* One tab of a client: client/inkvizitor/src/session.rs over the          *)
(* connections of client/wire-client/src/lib.rs.  The terminal client      *)
(* (client/dvadva-tui/src/agent.rs) has the same session without the       *)
(* automatic attempts.                                                     *)
(*                                                                         *)
(* The other end is the session's agent, reduced to what it sends: the     *)
(* turn it runs, for this tab or for somebody else, the requests that      *)
(* wait, and its catch-up (server/dvadva-agent/src/wire/server.rs).        *)
(***************************************************************************)
EXTENDS Naturals, Sequences

CONSTANTS
    Attempts,       \* RECONNECT_ATTEMPTS
    MaxTurns,       \* bound: turns of the agent
    MaxDials        \* bound: connections after the first

ASSUME TabAssumption == {Attempts, MaxTurns, MaxDials} \subseteq Nat

VARIABLES
    \* the tab
    phase,          \* Phase
    wayBack,        \* WayBack: "remote", "local" or "none"
    named,          \* whether the agent arguments kept for the way back name the session
    session,        \* session_id: the session it knows it is, or 0
    attempts,       \* automatic attempts since a connection last got to ready
    due,            \* retry_at is set
    dialing,        \* the dialling thread: none, out, failed, or got with the session it got
    prompt,         \* prompt_id is set
    armed,          \* approvals: the turns whose dialog is up
    \* the connection
    linked,         \* it is up
    inbound,        \* messages on their way to the tab
    dials,          \* connections asked for
    \* its agent
    at,             \* the session it hosts
    fresh,          \* the next session an agent would make up
    alive,
    turn,           \* whose turn runs: "none", "ours", "theirs"
    turns,          \* turns begun
    asks,           \* the turn waits for an answer
    asked,          \* the last turn that asked: bound, once in a turn
    walk,           \* the catch-up: off, or what it saw when it began and what it stages
    rearm,          \* requests it has still to hand over
    held            \* requests it has found open and is about to hand over

tabVars == <<phase, wayBack, named, session, attempts, due, dialing, prompt, armed>>
lineVars == <<linked, inbound, dials>>
agentVars == <<at, fresh, alive, turn, turns, asks, asked, walk, rearm, held>>
clientVars == <<tabVars, lineVars, agentVars>>

Connected == {"initializing", "replaying", "ready", "running"}
Off == [on |-> FALSE, running |-> FALSE, open |-> {}, staged |-> <<>>]
Msg(kind) == [kind |-> kind, of |-> 0]
About(kind, t) == [kind |-> kind, of |-> t]
Thread(st) == [st |-> st, at |-> 0]
Got(s) == [st |-> "got", at |-> s]

TabTypeOK ==
    /\ phase \in Connected \cup {"detached", "failed", "closed"}
    /\ wayBack \in {"remote", "local", "none"}
    /\ {named, due, prompt, linked, alive, asks} \subseteq BOOLEAN
    /\ session \in 0..fresh - 1 /\ attempts \in 0..Attempts
    /\ dialing.st \in {"none", "out", "failed", "got"} /\ dialing.at \in 0..fresh - 1
    /\ armed \cup rearm \cup held \subseteq 1..turns
    /\ turn \in {"none", "ours", "theirs"} /\ turns \in 0..MaxTurns /\ dials \in 0..MaxDials
    /\ asks => turn # "none" /\ asked = turns
    /\ phase \in {"detached", "closed"} => inbound = <<>> /\ armed = {} /\ ~prompt /\ ~linked

\* A tab with a child of its own, one that joins a live agent here, one through a daemon.
TabInit ==
    /\ phase = "initializing" /\ wayBack \in {"remote", "local", "none"}
    /\ named \in BOOLEAN
    /\ session = IF wayBack = "none" THEN 0 ELSE 1
    /\ attempts = 0 /\ due = FALSE /\ dialing = Thread("none") /\ prompt = FALSE /\ armed = {}
    /\ linked = TRUE /\ inbound = <<Msg("initialized")>> /\ dials = 0
    /\ at = 1 /\ fresh = 2 /\ alive = TRUE /\ turn = "none" /\ turns = 0 /\ asks = FALSE
    /\ asked = 0 /\ walk = Off /\ rearm = {} /\ held = {}

---------------------------------------------------------------------------------
(* What the agent sends. *)

\* Live traffic of a connection that is catching up is staged; one that has not asked
\* for its replay gets it as it comes.
Told(ms) ==
    /\ inbound' = IF linked /\ ~walk.on THEN inbound \o ms ELSE inbound
    /\ walk' = IF walk.on THEN [walk EXCEPT !.staged = @ \o ms] ELSE walk

TurnBegins(whose) ==
    /\ alive /\ turn = "none" /\ turns < MaxTurns
    /\ turn' = whose /\ turns' = turns + 1

SomebodyPrompts ==
    /\ TurnBegins("theirs")
    /\ UNCHANGED <<tabVars, lineVars, at, fresh, alive, asks, asked, walk, rearm, held>>

AgentAsks ==
    /\ alive /\ turn # "none" /\ asked < turns
    /\ asks' = TRUE /\ asked' = turns
    /\ Told(<<About("request", turns)>>)
    /\ UNCHANGED <<tabVars, linked, dials, at, fresh, alive, turn, turns, rearm, held>>

Resolves == IF asks THEN <<About("resolved", turns)>> ELSE <<>>

SomebodyAnswers ==
    /\ asks /\ asks' = FALSE
    /\ Told(Resolves)
    /\ UNCHANGED <<tabVars, linked, dials, at, fresh, alive, turn, turns, asked, rearm, held>>

Answer == IF turn = "ours" THEN <<Msg("answer")>> ELSE <<>>

TurnEnds ==
    /\ alive /\ turn # "none" /\ ~asks
    /\ turn' = "none"
    /\ Told(<<Msg("end")>> \o Answer)
    /\ UNCHANGED <<tabVars, linked, dials, at, fresh, alive, turns, asks, asked, rearm, held>>

\* A turn that is cancelled, or that fails, has no end to tell.
TurnStops ==
    /\ alive /\ turn # "none"
    /\ turn' = "none" /\ asks' = FALSE
    /\ Told(Resolves \o Answer)
    /\ UNCHANGED <<tabVars, linked, dials, at, fresh, alive, turns, asked, rearm, held>>

\* What is staged goes out before the answer that the replay has ended.
EndCatchUp ==
    /\ linked /\ walk.on
    /\ inbound' = inbound \o walk.staged \o
                    <<[kind |-> "replayed", of |-> IF walk.running THEN 1 ELSE 0]>>
    /\ rearm' = walk.open /\ walk' = Off
    /\ UNCHANGED <<tabVars, linked, dials, at, fresh, alive, turn, turns, asks, asked, held>>

\* Looked at under the lock, and sent when that is released.
LookBeforeHandOver ==
    /\ rearm # {}
    /\ held' = IF asks THEN rearm \cap {turns} ELSE {}
    /\ rearm' = {}
    /\ UNCHANGED <<tabVars, lineVars, at, fresh, alive, turn, turns, asks, asked, walk>>

HandOver ==
    /\ \E t \in held : inbound' = Append(inbound, About("request", t))
    /\ held' = {}
    /\ UNCHANGED <<tabVars, linked, dials, at, fresh, alive, turn, turns, asks, asked, walk, rearm>>

Unlinks ==
    /\ linked' = FALSE /\ walk' = Off /\ rearm' = {} /\ held' = {}
    /\ inbound' = IF linked THEN Append(inbound, Msg("exited")) ELSE inbound

\* A connection that breaks: its agent stays, unless it is the tab's own child.
LineBreaks ==
    /\ linked /\ Unlinks
    /\ alive' = (alive /\ wayBack # "none") /\ asks' = (asks /\ alive')
    /\ turn' = IF alive' /\ turn # "none" THEN "theirs" ELSE "none"
    /\ UNCHANGED <<tabVars, dials, at, fresh, turns, asked>>

\* Idle, killed, or stopped by another of its clients.
AgentGoes ==
    /\ alive /\ Unlinks
    /\ alive' = FALSE /\ turn' = "none" /\ asks' = FALSE
    /\ UNCHANGED <<tabVars, dials, at, fresh, turns, asked>>

---------------------------------------------------------------------------------
(* What the tab makes of it. *)

Receives(kind) == inbound # <<>> /\ Head(inbound).kind = kind /\ inbound' = Tail(inbound)
Keeps(vs) == UNCHANGED <<vs, wayBack, named, dialing, linked, dials>>

Initialized ==
    /\ Receives("initialized")
    /\ phase' = "replaying" /\ session' = at
    /\ walk' = IF linked THEN [on |-> TRUE, running |-> turn # "none", staged |-> <<>>,
                               open |-> IF asks THEN {turns} ELSE {}]
                         ELSE Off
    /\ Keeps(<<attempts, due, prompt, armed, at, fresh, alive, turn, turns, asks, asked, rearm, held>>)

\* The protocol the agent speaks may be one this build does not.
NotUnderstood ==
    /\ Receives("initialized")
    /\ phase' = "failed"
    /\ Keeps(<<session, attempts, due, prompt, armed, agentVars>>)

Replayed ==
    /\ Receives("replayed")
    /\ phase' = IF Head(inbound).of = 1 THEN "running" ELSE "ready"
    /\ attempts' = 0 /\ due' = FALSE
    /\ Keeps(<<session, prompt, armed, agentVars>>)

EndHeard ==
    /\ Receives("end")
    /\ phase' = IF phase = "running" /\ ~prompt THEN "ready" ELSE phase
    /\ Keeps(<<session, attempts, due, prompt, armed, agentVars>>)

Answered ==
    /\ Receives("answer")
    /\ IF prompt THEN phase' = "ready" /\ prompt' = FALSE ELSE UNCHANGED <<phase, prompt>>
    /\ Keeps(<<session, attempts, due, armed, agentVars>>)

Requested ==
    /\ Receives("request")
    /\ armed' = IF phase = "replaying" THEN armed ELSE armed \cup {Head(inbound).of}
    /\ Keeps(<<phase, session, attempts, due, prompt, agentVars>>)

Resolved ==
    /\ Receives("resolved")
    /\ armed' = armed \ {Head(inbound).of}
    /\ Keeps(<<phase, session, attempts, due, prompt, agentVars>>)

\* Mutant: the prompt the connection took with it is still waited for.
EndedWithPrompt ==
    /\ Receives("exited") /\ phase # "failed"
    /\ armed' = {} /\ prompt' = prompt
    /\ phase' = IF wayBack = "none" THEN "failed" ELSE "detached"
    /\ due' = (wayBack # "none" /\ attempts < Attempts)
    /\ Keeps(<<session, attempts, agentVars>>)

ConnectionEnded ==
    /\ Receives("exited") /\ phase # "failed"
    /\ armed' = {} /\ prompt' = FALSE
    /\ phase' = IF wayBack = "none" THEN "failed" ELSE "detached"
    /\ due' = (wayBack # "none" /\ attempts < Attempts)
    /\ Keeps(<<session, attempts, agentVars>>)

\* A tab that has failed has nobody to tell.
EndIgnored ==
    /\ Receives("exited") /\ phase = "failed"
    /\ Keeps(<<phase, session, attempts, due, prompt, armed, agentVars>>)

Submit ==
    /\ phase = "ready"
    /\ phase' = "running" /\ prompt' = TRUE
    /\ IF linked /\ turn = "none"
       THEN TurnBegins("ours") /\ inbound' = inbound
       ELSE /\ inbound' = IF linked THEN Append(inbound, Msg("answer")) ELSE inbound
            /\ UNCHANGED <<turn, turns>>
    /\ UNCHANGED <<wayBack, named, session, attempts, due, dialing, armed, linked, dials,
                   at, fresh, alive, asks, asked, walk, rearm, held>>

\* Somebody else may have answered since: the agent drops what it does not wait for.
ResolveApproval ==
    /\ \E t \in armed :
         /\ armed' = armed \ {t}
         /\ IF linked /\ asks /\ t = turns
            THEN asks' = FALSE /\ Told(Resolves) ELSE UNCHANGED <<asks, inbound, walk>>
    /\ UNCHANGED <<phase, wayBack, named, session, attempts, due, dialing, prompt, linked, dials,
                   at, fresh, alive, turn, turns, asked, rearm, held>>

Cancel ==
    /\ phase = "running" /\ linked /\ TurnStops

---------------------------------------------------------------------------------
(* The way back. *)

Dials ==
    /\ wayBack # "none" /\ dials < MaxDials
    /\ dialing' = Thread("out") /\ due' = FALSE /\ dials' = dials + 1
    /\ UNCHANGED <<phase, wayBack, named, session, prompt, armed, linked, inbound, agentVars>>

Attempt ==
    /\ phase = "detached" /\ dialing.st = "none" /\ due
    /\ attempts' = attempts + 1
    /\ Dials

Button ==
    /\ phase = "detached" /\ dialing.st = "none" /\ ~due
    /\ attempts' = 0
    /\ Dials

\* Refused, out of reach, or with no answer in time.
DialFails == dialing' = Thread("failed") /\ UNCHANGED <<at, fresh, alive>>

\* Straight to the agent the registry has an entry of, if there is one.
AttachLive ==
    /\ wayBack = "local" /\ alive /\ session = at
    /\ dialing' = Got(at) /\ UNCHANGED <<at, fresh, alive>>

(* The daemon finds the live agent of the session, or starts one: for the session its
   arguments name, or for one it makes up.  Its answer names the session.  (A daemon too
   old to attach gives its tabs no way back.) *)
AttachTcp ==
    /\ wayBack = "remote" /\ alive' = TRUE
    /\ IF alive /\ session = at THEN UNCHANGED <<at, fresh>>
       ELSE IF named THEN at' = session /\ fresh' = fresh
                     ELSE at' = fresh /\ fresh' = fresh + 1
    /\ dialing' = Got(at')

\* On a thread of its own.
Dial ==
    /\ dialing.st = "out"
    /\ DialFails \/ AttachLive \/ AttachTcp
    /\ UNCHANGED <<phase, wayBack, named, session, attempts, due, prompt, armed, lineVars,
                   turn, turns, asks, asked, walk, rearm, held>>

DialFailed ==
    /\ dialing.st = "failed"
    /\ dialing' = Thread("none") /\ due' = (attempts < Attempts)
    /\ UNCHANGED <<phase, wayBack, named, session, attempts, prompt, armed, lineVars, agentVars>>

\* A connection made may have broken before it is looked at.
Adopt ==
    /\ dialing.st = "got"
    /\ dialing' = Thread("none") /\ session' = dialing.at
    /\ phase' = "initializing"
    /\ linked' = alive
    /\ inbound' = IF alive THEN <<Msg("initialized")>> ELSE <<Msg("exited")>>
    /\ UNCHANGED <<wayBack, named, attempts, due, prompt, armed, dials, agentVars>>

\* A client's half of the connection goes, and what was on its way with it; a child of its
\* own goes too.
HangUp == linked' = FALSE /\ walk' = Off /\ rearm' = {} /\ held' = {}

LeaveAgent ==
    /\ wayBack' = wayBack /\ alive' = (alive /\ wayBack # "none")
    /\ turn' = IF alive' /\ turn # "none" THEN "theirs" ELSE "none"
    /\ asks' = (asks /\ alive')

StopAgent == wayBack' = "none" /\ alive' = FALSE /\ turn' = "none" /\ asks' = FALSE

CloseTab ==
    /\ phase # "closed"
    /\ phase' = "closed" /\ inbound' = <<>> /\ armed' = {} /\ prompt' = FALSE
    /\ due' = FALSE /\ dialing' = Thread("none")
    /\ LeaveAgent \/ StopAgent
    /\ HangUp
    /\ UNCHANGED <<named, session, attempts, dials, at, fresh, turns, asked>>

TabNext ==
    \/ SomebodyPrompts \/ AgentAsks \/ SomebodyAnswers \/ TurnEnds \/ TurnStops
    \/ EndCatchUp \/ LookBeforeHandOver \/ HandOver \/ LineBreaks \/ AgentGoes
    \/ Initialized \/ NotUnderstood \/ Replayed \/ EndHeard \/ Answered \/ Requested
    \/ Resolved \/ ConnectionEnded \/ EndIgnored \/ Submit \/ ResolveApproval \/ Cancel
    \/ Attempt \/ Button \/ Dial \/ DialFailed \/ Adopt \/ CloseTab

TabSpec == TabInit /\ [][TabNext]_clientVars

---------------------------------------------------------------------------------
(* session.rs:353-357: a tab that waits for the end of its own prompt is going to hear
   of it, or that its connection has ended: it never waits with a prompt of an older
   connection, or of a turn that was refused. *)
PromptIsAnswered ==
    prompt => \/ linked /\ turn = "ours"
              \/ \E i \in DOMAIN inbound : inbound[i].kind \in {"answer", "exited"}

(* Does not hold, session.rs:35-37: both ways back "end at an `attach`, which finds the live
   agent or starts one on the same session files". *)
ComesBackToItsSession ==
    [][session # 0 => session' = session]_clientVars

(* server.rs:1038-1043: "A turn that ends *during* the file walk is reported as running
   and its `TurnEnd` is staged, so the client is told the truth and then told it
   changed." *)
ToldThatItChanged ==
    phase = "running" /\ linked /\ inbound = <<>> /\ ~prompt => turn # "none"
=================================================================================

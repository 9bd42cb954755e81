----------------------------- MODULE AttachDaemon -----------------------------
(***************************************************************************)
(* The remote bridge daemon, remote/dvadva-bridge/src/remote_daemon.rs:    *)
(* a connection that asks for a session joins the agent that hosts it or   *)
(* starts one, with the searches of server/dvadva-agent/src/live.rs; one   *)
(* that spawns has an agent of its own.                                    *)
(***************************************************************************)
EXTENDS LiveAgents

VARIABLES
    phase,      \* what the daemon does for each connection
    asked,      \* the session it asked for, if any
    named,      \* the session its arguments name to an agent that is started, if any
    seen,       \* the entry the daemon has read for it
    child,      \* the process started for it
    late        \* connections whose patience with their agent has run out

daemonVars == <<phase, asked, named, seen, child, late>>
vars == <<hostVars, daemonVars>>

Searching == {"find", "probe", "reap"}
Over == {"refused", "left", "ended", "over", "cut"}

TypeOK ==
    /\ HostTypeOK
    /\ phase \in [Conns -> Searching \cup Over \cup
                    {"none", "start", "dial", "joined", "pipe", "closed", "drained"}]
    /\ {asked, named} \subseteq [Conns -> Sessions \cup {NoSession}]
    /\ seen \in [Conns -> Entry \cup {NoEntry}]
    /\ child \in [Conns -> Agents \cup {NoAgent}]
    /\ late \subseteq Conns
    /\ \A a \in Agents : \A c \in clients[a] : phase[c] = "joined"

Init ==
    /\ HostInit
    /\ phase = [c \in Conns |-> "none"]
    /\ asked = [c \in Conns |-> NoSession] /\ named = asked
    /\ seen = [c \in Conns |-> NoEntry]
    /\ child = [c \in Conns |-> NoAgent]
    /\ late = {}

Goes(c, to) == phase' = [phase EXCEPT ![c] = to]
Moves(c, from, to) == phase[c] = from /\ Goes(c, to)

---------------------------------------------------------------------------------
\* The daemon makes no argument of the session that is asked for.
Ask(c) ==
    /\ \/ /\ Moves(c, "none", "find")
          /\ \E s \in Sessions, n \in Sessions \cup {NoSession} :
               /\ n \in {s, NoSession}
               /\ asked' = [asked EXCEPT ![c] = s]
               /\ named' = [named EXCEPT ![c] = n]
       \/ Moves(c, "none", "start") /\ UNCHANGED <<asked, named>>
    /\ UNCHANGED <<hostVars, seen, child, late>>

(* The registry is read to find the agent of a session, and once one was started to
   find that one by its pid, under whatever session. *)
Finding(c) == child[c] = NoAgent

Absent(c) ==
    /\ Moves(c, "find", "start")
    /\ Finding(c) /\ entry[asked[c]] = NoEntry
    /\ UNCHANGED <<hostVars, asked, named, seen, child, late>>

Read(c) ==
    /\ c \notin late
    /\ Moves(c, "find", "probe")
    /\ \E s \in Sessions :
         /\ Finding(c) => s = asked[c]
         /\ entry[s] # NoEntry
         /\ seen' = [seen EXCEPT ![c] = entry[s]]
    /\ UNCHANGED <<hostVars, asked, named, child, late>>

Probe(c) ==
    /\ phase[c] = "probe"
    /\ Goes(c, IF ~Reachable(seen[c]) THEN "reap"
               ELSE IF Finding(c) \/ seen[c].pid = child[c] THEN "dial" ELSE "find")
    /\ UNCHANGED <<hostVars, asked, named, seen, child, late>>

\* The file is removed, whatever it has become since it was read.
Reap(c) ==
    /\ Moves(c, "reap", IF Finding(c) THEN "start" ELSE "find")
    /\ entry' = [entry EXCEPT ![seen[c].session] = NoEntry]
    /\ UNCHANGED <<life, hosts, port, registered, stopping, quiet, busy, clients,
                   asked, named, seen, child, late>>

\* Mutant: whoever answers at the address will do.
TakesAnyone(b, e) == port[b] = e.port /\ life[b] = "serving"

\* The token of the session opens its agent, and the agent says which session it hosts.
Takes(b, e) == port[b] = e.port /\ life[b] = "serving" /\ hosts[b] = e.session

Join(c) ==
    /\ Moves(c, "dial", "joined")
    /\ \E b \in Agents :
         /\ Takes(b, seen[c])
         /\ clients' = [clients EXCEPT ![b] = @ \cup {c}]
    /\ UNCHANGED <<life, hosts, port, entry, registered, stopping, quiet, busy,
                   asked, named, seen, child, late>>

Killed(a) == IF life[a] \in Alive THEN Ends(a) ELSE UNCHANGED hostVars

\* Mutant: an agent that was given up is left to itself.
RefusedAndForgotten(c) == Goes(c, "refused") /\ UNCHANGED hostVars

\* An agent that was started and is of no use would hold the session against the next.
GivesUp(c) == Goes(c, "refused") /\ Killed(child[c])

\* Refused, wrong session, or no answer in time.
DialFails(c) ==
    /\ phase[c] = "dial"
    /\ IF Finding(c) THEN Goes(c, "start") /\ UNCHANGED hostVars ELSE GivesUp(c)
    /\ UNCHANGED <<asked, named, seen, child, late>>

StartAgent(c) ==
    /\ Moves(c, "start", "find")
    /\ \E a \in Agents :
         /\ Starts(a, named[c], "starting")
         /\ child' = [child EXCEPT ![c] = a]
    /\ UNCHANGED <<asked, named, seen, late>>

StartFails(c) ==
    /\ Moves(c, "start", "refused")
    /\ UNCHANGED <<hostVars, asked, named, seen, child, late>>

ChildDied(c) ==
    /\ phase[c] \in Searching /\ ~Finding(c) /\ life[child[c]] = "gone"
    /\ Goes(c, "refused")
    /\ UNCHANGED <<hostVars, asked, named, seen, child, late>>

RunLate(c) ==
    /\ phase[c] \in Searching /\ ~Finding(c)
    /\ late' = late \cup {c}
    /\ UNCHANGED <<hostVars, phase, asked, named, seen, child>>

\* Mutant: out of patience, and waiting on.
WaitsOn(c) ==
    /\ c \in late
    /\ Moves(c, "find", "find")
    /\ UNCHANGED <<hostVars, asked, named, seen, child, late>>

OutOfPatience(c) ==
    /\ phase[c] = "find" /\ c \in late
    /\ GivesUp(c)
    /\ UNCHANGED <<asked, named, seen, child, late>>

Leave(c) ==
    /\ Moves(c, "joined", "left")
    /\ clients' = [a \in Agents |-> clients[a] \ {c}]
    /\ UNCHANGED <<life, hosts, port, entry, registered, stopping, quiet, busy,
                   asked, named, seen, child, late>>

AgentGone(c) ==
    /\ \A a \in Agents : c \notin clients[a]
    /\ Moves(c, "joined", "ended")
    /\ UNCHANGED <<hostVars, asked, named, seen, child, late>>

---------------------------------------------------------------------------------
(* A spawned agent speaks over its pipes, and goes with its connection. *)

SpawnRelay(c) ==
    /\ Moves(c, "none", "pipe")
    /\ \E a \in Agents, s \in Sessions \cup {NoSession} :
         /\ Starts(a, s, "piped")
         /\ child' = [child EXCEPT ![c] = a]
    /\ UNCHANGED <<asked, named, seen, late>>

ClientCloses(c) ==
    /\ Moves(c, "pipe", "closed")
    /\ UNCHANGED <<hostVars, asked, named, seen, child, late>>

\* Its output ends when it exits, or before it does.
OutputEnds(c) ==
    /\ phase[c] \in {"pipe", "closed"}
    /\ Goes(c, "drained")
    /\ UNCHANGED <<hostVars, asked, named, seen, child, late>>

\* Gone by itself, or after its grace: the trailer says which.
RelayEnds(c) ==
    /\ Moves(c, "drained", "over")
    /\ Killed(child[c])
    /\ UNCHANGED <<asked, named, seen, child, late>>

(* The daemon ends, with the sockets it holds.  The agents it started for attached
   clients are not its own; a spawned one reads the end of its input. *)
DaemonEnds ==
    /\ \E c \in Conns : phase[c] \notin Over \cup {"none"}
    /\ phase' = [c \in Conns |-> IF phase[c] \in Over \cup {"none"} THEN phase[c] ELSE "cut"]
    /\ clients' = [a \in Agents |-> {}]
    /\ UNCHANGED <<life, hosts, port, entry, registered, stopping, quiet, busy,
                   asked, named, seen, child, late>>

---------------------------------------------------------------------------------
Serves(c) ==
    \/ Absent(c) \/ Read(c) \/ Probe(c) \/ Reap(c) \/ Join(c) \/ DialFails(c)
    \/ StartAgent(c) \/ StartFails(c) \/ ChildDied(c) \/ OutOfPatience(c)

Next ==
    \/ \E a \in Agents : Agent(a) /\ UNCHANGED daemonVars
    \/ \E c \in Conns :
          \/ Ask(c) \/ Serves(c) \/ RunLate(c) \/ Leave(c) \/ AgentGone(c)
          \/ SpawnRelay(c) \/ ClientCloses(c) \/ OutputEnds(c) \/ RelayEnds(c)
    \/ DaemonEnds

(* The daemon's steps end, its timers run out, and an agent that serves looks for
   idleness and stops when it was asked to.  Nothing says that an agent ever starts. *)
Fairness ==
    /\ \A c \in Conns : WF_vars(Serves(c)) /\ WF_vars(RunLate(c))
    /\ \A a \in Agents : WF_vars(AgentGoesOn(a) /\ UNCHANGED daemonVars)

Spec == Init /\ [][Next]_vars /\ Fairness

---------------------------------------------------------------------------------
(* remote_daemon.rs:570-574: whatever is left of an older agent, and whoever has its
   address since, a client is only ever joined to an agent of the session it is told:
   the one it asked for if that was found running, else the one its arguments name. *)
JoinedIsAsked ==
    \A a \in Agents : \A c \in clients[a] :
        /\ hosts[a] = seen[c].session
        /\ IF Finding(c) THEN hosts[a] = asked[c] ELSE named[c] \in {hosts[a], NoSession}

(* remote_daemon.rs:487-494: an attach that was refused, or a spawned agent's connection
   that is over, leaves no agent that it started: the process is gone, its address is free,
   nobody else is its client.  The file it wrote is left for a reader to reap. *)
RefusedLeavesNothing ==
    \A c \in Conns :
        phase[c] \in {"refused", "over"} /\ child[c] # NoAgent =>
            LET a == child[c] IN life[a] = "gone" /\ port[a] = NoPort /\ clients[a] = {}

\* Another process that hosts the session of a is at its end, and may have been the reason
\* to remove the file: by itself, or by a reader that had found it dead.
PeerEnded(a) ==
    \E b \in Agents \ {a} : hosts[b] = hosts[a] /\ life[b] \in {"withdrawn", "gone"}

(* live.rs:27-30 and listener.rs:206-208: whatever readers have probed and reaped in any
   order, the session of an agent that serves and could write the registry is found there,
   under this agent or under one that wrote over its file.  The one way out is that another
   process of the session has ended: a reader that had found that one dead removes what was
   written since. *)
ServedIsListed ==
    \A a \in registered :
        life[a] = "serving" /\ ~PeerEnded(a) =>
            entry[hosts[a]] # NoEntry /\ hosts[entry[hosts[a]].pid] = hosts[a]

(* remote_daemon.rs:350-408: a request to attach ends, joined or refused, whether an
   agent dies, hangs while it starts or stops for want of clients meanwhile. *)
AttachEnds ==
    \A c \in Conns :
        phase[c] \in Searching \cup {"start", "dial"} ~> phase[c] \in Over \cup {"joined"}

(* Does not hold, live.rs:20-22: "A process hosts exactly one session [...], so no two processes
   ever write the same entry." *)
OneWriter ==
    \A a, b \in registered : hosts[a] = hosts[b] => a = b
=================================================================================

------------------------------ MODULE LiveAgents ------------------------------
(***************************************************************************)
(* Agents that listen, and the registry that says where: the life of one   *)
(* process in server/dvadva-agent/src/wire/listener.rs, and the entries of *)
(* server/dvadva-agent/src/live.rs.                                        *)
(*                                                                         *)
(* A process and its pid are used once; ports come back.  A socket that    *)
(* listens is taken to accept a probe in time; a killed process leaves its *)
(* entry behind.                                                           *)
(***************************************************************************)
EXTENDS Naturals, FiniteSets

CONSTANTS
    Agents,     \* processes
    Sessions,
    Ports,
    Conns,      \* connections of the bridge daemon, the clients of these agents
    IdleLooks,  \* looks in a row that must find an agent idle before it stops
    NoAgent,
    NoSession,
    NoPort

ASSUME HostAssumption ==
    /\ IdleLooks \in Nat \ {0}
    /\ NoAgent \notin Agents /\ NoSession \notin Sessions /\ NoPort \notin Ports

VARIABLES
    life,       \* what each process is doing
    hosts,      \* the session it was started for
    port,       \* where it listens, from when it is bound to when it ends
    entry,      \* the registry: per session, the file an agent has written
    registered, \* processes that hold a Registration
    stopping,   \* processes whose stop token is cancelled
    quiet,      \* looks in a row that found it idle
    busy,       \* processes with a turn that waits for nobody
    clients     \* the connections each of them serves

hostVars == <<life, hosts, port, entry, registered, stopping, quiet, busy, clients>>

Entry == [session : Sessions, pid : Agents, port : Ports]
NoEntry == [pid |-> NoAgent]

Listening == {"bound", "listed", "serving", "ending", "withdrawn"}
Alive == Listening \cup {"starting", "piped"}

HostTypeOK ==
    /\ life \in [Agents -> Alive \cup {"none", "gone"}]
    /\ hosts \in [Agents -> Sessions \cup {NoSession}]
    /\ port \in [Agents -> Ports \cup {NoPort}]
    /\ entry \in [Sessions -> Entry \cup {NoEntry}]
    /\ registered \subseteq Agents /\ stopping \subseteq Agents /\ busy \subseteq Agents
    /\ quiet \in [Agents -> 0..IdleLooks]
    /\ clients \in [Agents -> SUBSET Conns]
    /\ \A a \in Agents : (port[a] = NoPort) <=> (life[a] \notin Listening)
    /\ \A a \in busy : life[a] = "serving"

HostInit ==
    /\ life = [a \in Agents |-> "none"]
    /\ hosts = [a \in Agents |-> NoSession]
    /\ port = [a \in Agents |-> NoPort]
    /\ entry = [s \in Sessions |-> NoEntry]
    /\ registered = {} /\ stopping = {} /\ busy = {}
    /\ quiet = [a \in Agents |-> 0]
    /\ clients = [a \in Agents |-> {}]

\* Mutant: the probe waits for a handshake.
ReachableIfItAnswers(e) == \E a \in Agents : port[a] = e.port /\ life[a] = "serving"

\* A bare connect, which the kernel answers from when the address is bound.
Reachable(e) == \E a \in Agents : port[a] = e.port

\* A session nobody has heard of yet, or the one that was named.
Named(s) ==
    IF s # NoSession THEN {s}
    ELSE {t \in Sessions : entry[t] = NoEntry /\ \A a \in Agents : hosts[a] # t}

---------------------------------------------------------------------------------
Starts(a, s, how) ==
    /\ life[a] = "none"
    /\ \E t \in Named(s) : hosts' = [hosts EXCEPT ![a] = t]
    /\ life' = [life EXCEPT ![a] = how]
    /\ UNCHANGED <<port, entry, registered, stopping, quiet, busy, clients>>

Bind(a) ==
    /\ life[a] = "starting"
    /\ \E p \in Ports :
         /\ \A b \in Agents : port[b] # p
         /\ port' = [port EXCEPT ![a] = p]
    /\ life' = [life EXCEPT ![a] = "bound"]
    /\ UNCHANGED <<hosts, entry, registered, stopping, quiet, busy, clients>>

\* A registry that cannot be written is no reason not to serve.
Publish(a) ==
    /\ life[a] = "bound"
    /\ life' = [life EXCEPT ![a] = "listed"]
    /\ \/ /\ entry' = [entry EXCEPT ![hosts[a]] =
                         [session |-> hosts[a], pid |-> a, port |-> port[a]]]
          /\ registered' = registered \cup {a}
       \/ UNCHANGED <<entry, registered>>
    /\ UNCHANGED <<hosts, port, stopping, quiet, busy, clients>>

Accept(a) ==
    /\ life[a] = "listed"
    /\ life' = [life EXCEPT ![a] = "serving"]
    /\ UNCHANGED <<hosts, port, entry, registered, stopping, quiet, busy, clients>>

\* A turn that nobody has to answer: an agent with one is not idle, attached to or not.
Works(a) ==
    /\ life[a] = "serving" /\ clients[a] # {}
    /\ busy' = busy \cup {a}
    /\ UNCHANGED <<life, hosts, port, entry, registered, stopping, quiet, clients>>

Rests(a) ==
    /\ a \in busy
    /\ busy' = busy \ {a}
    /\ UNCHANGED <<life, hosts, port, entry, registered, stopping, quiet, clients>>

Idle(a) == clients[a] = {} /\ a \notin busy

Look(a) ==
    /\ life[a] = "serving" /\ a \notin stopping /\ quiet[a] < IdleLooks
    /\ quiet' = [quiet EXCEPT ![a] = IF Idle(a) THEN @ + 1 ELSE 0]
    /\ UNCHANGED <<life, hosts, port, entry, registered, stopping, busy, clients>>

\* Decided on a look that is over: a client may have come since.
IdleStop(a) ==
    /\ life[a] = "serving" /\ quiet[a] = IdleLooks
    /\ stopping' = stopping \cup {a}
    /\ UNCHANGED <<life, hosts, port, entry, registered, quiet, busy, clients>>

\* A signal, or a client that asks the agent to end.
Shutdown(a) ==
    /\ life[a] = "serving"
    /\ stopping' = stopping \cup {a}
    /\ UNCHANGED <<life, hosts, port, entry, registered, quiet, busy, clients>>

EndAccept(a) ==
    /\ life[a] = "serving" /\ a \in stopping
    /\ life' = [life EXCEPT ![a] = "ending"]
    /\ busy' = busy \ {a}
    /\ UNCHANGED <<hosts, port, entry, registered, stopping, quiet, clients>>

\* The path is removed, whatever is there.
Withdraw(a) ==
    /\ life[a] = "ending"
    /\ life' = [life EXCEPT ![a] = "withdrawn"]
    /\ entry' = IF a \in registered THEN [entry EXCEPT ![hosts[a]] = NoEntry] ELSE entry
    /\ registered' = registered \ {a}
    /\ UNCHANGED <<hosts, port, stopping, quiet, busy, clients>>

\* The end of a process leaves the file it did not withdraw.
Ends(a) ==
    /\ life' = [life EXCEPT ![a] = "gone"]
    /\ port' = [port EXCEPT ![a] = NoPort]
    /\ registered' = registered \ {a} /\ busy' = busy \ {a} /\ stopping' = stopping \ {a}
    /\ quiet' = [quiet EXCEPT ![a] = 0]
    /\ clients' = [clients EXCEPT ![a] = {}]
    /\ UNCHANGED <<hosts, entry>>

Exit(a) == life[a] = "withdrawn" /\ Ends(a)
Dies(a) == life[a] \in Alive /\ Ends(a)

Agent(a) ==
    \/ Starts(a, NoSession, "starting") \/ (\E s \in Sessions : Starts(a, s, "starting"))
    \/ Bind(a) \/ Publish(a) \/ Accept(a) \/ Works(a) \/ Rests(a) \/ Look(a) \/ IdleStop(a)
    \/ Shutdown(a) \/ EndAccept(a) \/ Withdraw(a) \/ Exit(a) \/ Dies(a)

\* What an agent that serves does by itself.
AgentGoesOn(a) == Look(a) \/ IdleStop(a) \/ EndAccept(a) \/ Withdraw(a) \/ Exit(a)
=================================================================================

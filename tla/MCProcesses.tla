------------------------------ MODULE MCProcesses ------------------------------
(***************************************************************************)
(* What runs besides the turns of a session, for TLC, one part in each      *)
(* behaviour: a daemon that finds or starts the agents its clients ask for, *)
(* and an agent's background tasks.                                        *)
(***************************************************************************)
EXTENDS AttachDaemon, BackgroundTasks, TLC

CONSTANTS a1, s1, p1    \* the first agent, session and port that come up

VARIABLE part

processVars == <<part, vars, taskVars>>

ProcessInit == part \in {"daemon", "tasks"} /\ Init /\ TaskInit

InDaemon(action) == part = "daemon" /\ action /\ UNCHANGED <<part, taskVars>>
InTasks(action) == part = "tasks" /\ action /\ UNCHANGED <<part, vars>>

\* Which agent, session and port come first does not matter.
AgentsInOrder == (\E a \in Agents : life[a] # "none") => life[a1] # "none"
SessionsInOrder ==
    LET known == {hosts[a] : a \in Agents} \cup {asked[c] : c \in Conns}
    IN  known \subseteq {NoSession} \/ s1 \in known
PortsInOrder ==
    (\A a \in Agents : port[a] = NoPort) /\ (\A s \in Sessions : entry[s] = NoEntry)
    /\ (\A c \in Conns : seen[c] = NoEntry)
    => \A a \in Agents : port'[a] \in {NoPort, p1}

ProcessNext ==
    \/ InDaemon(Next) /\ AgentsInOrder' /\ SessionsInOrder' /\ PortsInOrder
    \/ InTasks(TaskNext)

\* The runtime runs what can go on, time passes, and so deadlines come.
ProcessFairness ==
    /\ \A c \in Conns :
         WF_processVars(InDaemon(Serves(c))) /\ WF_processVars(InDaemon(RunLate(c)))
    /\ \A a \in Agents : WF_processVars(InDaemon(AgentGoesOn(a) /\ UNCHANGED daemonVars))
    /\ \A t \in Tasks : WF_processVars(InTasks(MustWatch(t)))

ProcessSpec == ProcessInit /\ [][ProcessNext]_processVars /\ ProcessFairness

=================================================================================

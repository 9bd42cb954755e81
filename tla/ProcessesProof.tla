---------------------------- MODULE ProcessesProof -----------------------------
(***************************************************************************)
(* The safety of what runs besides the turns of a session, for any number  *)
(* of agents, sessions, ports, connections and tasks: the remote bridge    *)
(* daemon with the registry it searches, and an agent's background tasks.  *)
(***************************************************************************)
EXTENDS AttachDaemon, BackgroundTasks, TLAPS

---------------------------------------------------------------------------------
(* The daemon and the agents it finds or starts. *)

Published == {"listed", "serving", "ending", "withdrawn", "gone"}

(* What a registry file says of its writer stays true, but for the port, which is given
   up when the writer ends. *)
Trusted(e) ==
    /\ e \in Entry
    /\ hosts[e.pid] = e.session
    /\ life[e.pid] \in Published
    /\ port[e.pid] \in {e.port, NoPort}

HostInv ==
    /\ \A a \in Agents : life[a] = "none" <=> hosts[a] = NoSession
    /\ \A a \in registered : life[a] \in {"listed", "serving", "ending"}
    /\ \A s \in Sessions : entry[s] # NoEntry => Trusted(entry[s]) /\ entry[s].session = s
    /\ \A a \in Agents : life[a] \in {"none", "gone"} => clients[a] = {}

HasRead == {"probe", "reap", "dial", "joined"}

(* A connection goes by the file it has read of the session it asked for, and once it
   has started an agent, by the file of that one. *)
SearchOf(c) ==
    /\ seen[c] # NoEntry => Trusted(seen[c])
    /\ phase[c] \in HasRead => seen[c] # NoEntry
    /\ phase[c] \in HasRead /\ Finding(c) => seen[c].session = asked[c]
    /\ phase[c] \in {"dial", "joined"} /\ ~Finding(c) => seen[c].pid = child[c]
    /\ phase[c] = "reap" => life[seen[c].pid] = "gone"

(* The agent that was started for a connection. *)
ChildOf(c) ==
    /\ ~Finding(c) => life[child[c]] # "none"
    /\ phase[c] \in {"none", "start"} => Finding(c)
    /\ phase[c] \in {"pipe", "closed", "drained", "over"} \/ c \in late => ~Finding(c)
    /\ phase[c] \in Searching \cup {"dial", "joined"} /\ ~Finding(c)
         => named[c] \in {hosts[child[c]], NoSession}
    /\ phase[c] \in {"refused", "over"} /\ ~Finding(c) => life[child[c]] = "gone"

ConnInv == \A c \in Conns : SearchOf(c) /\ ChildOf(c)

ServedInv == \A a \in Agents : \A c \in clients[a] : hosts[a] = seen[c].session

ListedInv == \A a \in registered : entry[hosts[a]] = NoEntry => PeerEnded(a)

IInv == TypeOK /\ HostInv /\ ConnInv /\ ServedInv /\ ListedInv

---------------------------------------------------------------------------------
(* What a step of the agents may do to what the daemon relies on. *)

\* An agent that was started keeps its session, one that has published keeps its address
\* until it ends, and one that has ended does not come back.
AgentsGoOn ==
    \A b \in Agents :
        /\ life[b] # "none" => life'[b] # "none" /\ hosts'[b] = hosts[b]
        /\ life[b] \in Published => life'[b] \in Published /\ port'[b] \in {port[b], NoPort}
        /\ life[b] = "gone" => life'[b] = "gone"
        /\ life[b] \in {"withdrawn", "gone"} => life'[b] \in {"withdrawn", "gone"}

HostStep ==
    /\ AgentsGoOn /\ HostTypeOK' /\ HostInv' /\ ListedInv'
    /\ \A b \in Agents : clients'[b] \subseteq clients[b]

\* What a file says is still so after a step of the agents.
LEMMA TrustedStays ==
    ASSUME HostTypeOK, AgentsGoOn
    PROVE  \A e \in Entry : Trusted(e) =>
             /\ hosts'[e.pid] = e.session
             /\ life'[e.pid] \in Published
             /\ port'[e.pid] \in {e.port, NoPort}
<1> SUFFICES ASSUME NEW e \in Entry, Trusted(e)
             PROVE  /\ hosts'[e.pid] = e.session
                    /\ life'[e.pid] \in Published
                    /\ port'[e.pid] \in {e.port, NoPort}
  OBVIOUS
<1>1. e.pid \in Agents
  BY DEF Entry
<1> QED
  BY <1>1 DEF AgentsGoOn, Trusted, Published

\* A process that has ended excuses the others of its session from then on.
LEMMA PeerStays ==
    ASSUME HostTypeOK, HostInv, AgentsGoOn, NEW a \in registered
    PROVE  hosts'[a] = hosts[a] /\ (PeerEnded(a) => PeerEnded(a)')
<1>1. a \in Agents /\ life[a] # "none"
  BY DEF HostTypeOK, HostInv
<1>2. hosts'[a] = hosts[a]
  BY <1>1 DEF AgentsGoOn
<1>3. QED
  BY <1>2 DEF PeerEnded, AgentsGoOn

\* A step that removes no file and registers nobody.
LEMMA ListedKept ==
    ASSUME HostTypeOK, HostInv, ListedInv, AgentsGoOn, registered' \subseteq registered,
           \A s \in Sessions : entry'[s] = entry[s]
    PROVE  ListedInv'
<1> SUFFICES ASSUME NEW a \in registered, entry'[hosts'[a]] = NoEntry
             PROVE  PeerEnded(a)'
  BY DEF ListedInv
<1>1. hosts[a] \in Sessions /\ hosts'[a] = hosts[a]
  BY PeerStays, HostAssumption DEF HostTypeOK, HostInv
<1>2. QED
  BY <1>1, PeerStays DEF ListedInv

\* A process that starts is no other's writer, and takes no session from another.
LEMMA StartsStep ==
    ASSUME HostTypeOK, HostInv, ListedInv, NEW a \in Agents,
           NEW s \in Sessions \cup {NoSession}, NEW how \in {"starting", "piped"},
           Starts(a, s, how)
    PROVE  HostStep
<1>1. PICK t \in Named(s) : hosts' = [hosts EXCEPT ![a] = t]
  BY DEF Starts
<1>2. t \in Sessions
  BY DEF Named
<1>3. HostTypeOK'
  BY <1>1, <1>2, HostAssumption DEF HostTypeOK, Starts, Alive, Listening
<1>4. AgentsGoOn
  BY <1>1, <1>2, HostAssumption DEF HostTypeOK, Starts, AgentsGoOn, Published
<1>5. HostInv'
  <2>1. \A b \in Agents : (life[b] = "none" <=> hosts[b] = NoSession)'
    BY <1>1, <1>2, HostAssumption DEF HostTypeOK, HostInv, Starts
  <2>2. \A b \in registered' : life'[b] \in {"listed", "serving", "ending"}
    BY DEF HostTypeOK, HostInv, Starts
  <2>3. \A r \in Sessions : entry'[r] # NoEntry => Trusted(entry[r])' /\ entry'[r].session = r
    BY <1>4, TrustedStays DEF HostInv, Starts, HostTypeOK, AgentsGoOn, Trusted, Entry
  <2>4. \A b \in Agents : (life[b] \in {"none", "gone"} => clients[b] = {})'
    BY DEF HostTypeOK, HostInv, Starts
  <2>5. QED
    BY <2>1, <2>2, <2>3, <2>4 DEF HostInv
<1>6. ListedInv'
  BY <1>4, ListedKept DEF Starts
<1>7. QED
  BY <1>3, <1>4, <1>5, <1>6 DEF HostStep, Starts

\* The end of a process.
LEMMA EndsStep ==
    ASSUME HostTypeOK, HostInv, ListedInv, NEW a \in Agents, life[a] # "none", Ends(a)
    PROVE  HostStep /\ life'[a] = "gone"
<1>1. HostTypeOK'
  BY HostAssumption DEF HostTypeOK, Ends, Alive, Listening
<1>2. AgentsGoOn
  BY DEF HostTypeOK, Ends, AgentsGoOn, Published
<1>3. HostInv'
  <2>1. \A b \in Agents : (life[b] = "none" <=> hosts[b] = NoSession)'
    BY DEF HostTypeOK, HostInv, Ends
  <2>2. \A b \in registered' : life'[b] \in {"listed", "serving", "ending"}
    BY DEF HostTypeOK, HostInv, Ends
  <2>3. \A r \in Sessions : entry'[r] # NoEntry => Trusted(entry[r])' /\ entry'[r].session = r
    BY <1>2, TrustedStays DEF HostInv, Ends, HostTypeOK, AgentsGoOn, Trusted, Entry
  <2>4. \A b \in Agents : (life[b] \in {"none", "gone"} => clients[b] = {})'
    BY DEF HostTypeOK, HostInv, Ends
  <2>5. QED
    BY <2>1, <2>2, <2>3, <2>4 DEF HostInv
<1>4. ListedInv'
  BY <1>2, ListedKept DEF Ends
<1>5. QED
  BY <1>1, <1>2, <1>3, <1>4 DEF HostStep, Ends, HostTypeOK

\* An agent that publishes its address writes over whatever file its session has.
LEMMA PublishStep ==
    ASSUME HostTypeOK, HostInv, ListedInv, NEW a \in Agents, Publish(a)
    PROVE  HostStep
<1> DEFINE e == [session |-> hosts[a], pid |-> a, port |-> port[a]]
<1>1. e \in Entry /\ e.pid = a /\ e # NoEntry
  <2>1. hosts[a] \in Sessions /\ port[a] \in Ports
    BY HostAssumption DEF HostTypeOK, HostInv, Publish, Listening
  <2>2. e.pid # NoEntry.pid
    BY HostAssumption DEF NoEntry
  <2>3. QED
    BY <2>1, <2>2 DEF Entry
<1>2. CASE UNCHANGED <<entry, registered>>
  <2>1. HostTypeOK' /\ AgentsGoOn
    BY <1>2 DEF HostTypeOK, Publish, Alive, Listening, AgentsGoOn, Published
  <2>2. HostInv'
    BY <1>2, <2>1, TrustedStays DEF HostInv, Publish, HostTypeOK, Trusted
  <2>3. ListedInv'
    BY <1>2, <2>1, ListedKept
  <2>4. QED
    BY <2>1, <2>2, <2>3 DEF HostStep, Publish
<1>3. CASE entry' = [entry EXCEPT ![hosts[a]] = e] /\ registered' = registered \cup {a}
  <2>1. HostTypeOK' /\ AgentsGoOn
    BY <1>1, <1>3 DEF HostTypeOK, Publish, Alive, Listening, AgentsGoOn, Published
  <2>2. HostInv'
    <3>1. \A b \in Agents : (life[b] = "none" <=> hosts[b] = NoSession)'
      BY DEF HostTypeOK, HostInv, Publish
    <3>2. \A b \in registered' : life'[b] \in {"listed", "serving", "ending"}
      BY <1>3 DEF HostTypeOK, HostInv, Publish
    <3>3. ASSUME NEW r \in Sessions, entry'[r] # NoEntry
          PROVE  Trusted(entry[r])' /\ entry'[r].session = r
      <4>1. CASE r = hosts[a]
        BY <4>1, <1>1, <1>3 DEF Trusted, Entry, Publish, HostTypeOK, Published
      <4>2. CASE r # hosts[a]
        BY <4>2, <3>3, <1>3, <2>1, TrustedStays DEF HostInv, HostTypeOK, Trusted
      <4>3. QED
        BY <4>1, <4>2
    <3>4. \A b \in Agents : (life[b] \in {"none", "gone"} => clients[b] = {})'
      BY DEF HostTypeOK, HostInv, Publish
    <3>5. QED
      BY <3>1, <3>2, <3>3, <3>4 DEF HostInv
  <2>3. ListedInv'
    <3> SUFFICES ASSUME NEW b \in registered', entry'[hosts'[b]] = NoEntry
                 PROVE  PeerEnded(b)'
      BY DEF ListedInv
    <3>1. UNCHANGED hosts /\ b \in Agents
      BY <1>3 DEF Publish, HostTypeOK
    <3>2. hosts[b] # hosts[a]
      BY <3>1, <1>1, <1>3 DEF HostTypeOK, Entry
    <3>3. b \in registered /\ entry[hosts[b]] = NoEntry
      BY <3>1, <3>2, <1>3 DEF HostTypeOK
    <3>4. QED
      BY <2>1, <3>3, PeerStays DEF ListedInv
  <2>4. QED
    BY <2>1, <2>2, <2>3 DEF HostStep, Publish
<1>4. QED
  BY <1>2, <1>3 DEF Publish

\* An agent that withdraws removes the file of its session, whoever wrote it.
LEMMA WithdrawStep ==
    ASSUME HostTypeOK, HostInv, ListedInv, NEW a \in Agents, Withdraw(a)
    PROVE  HostStep
<1>1. HostTypeOK' /\ AgentsGoOn
  BY DEF HostTypeOK, Withdraw, Alive, Listening, AgentsGoOn, Published
<1>2. \A r \in Sessions : entry'[r] # NoEntry => entry'[r] = entry[r]
  BY DEF Withdraw, HostTypeOK
<1>3. HostInv'
  <2>1. \A b \in Agents : (life[b] = "none" <=> hosts[b] = NoSession)'
    BY DEF HostTypeOK, HostInv, Withdraw
  <2>2. \A b \in registered' : life'[b] \in {"listed", "serving", "ending"}
    BY DEF HostTypeOK, HostInv, Withdraw
  <2>3. \A r \in Sessions : entry'[r] # NoEntry => Trusted(entry[r])' /\ entry'[r].session = r
    BY <1>1, <1>2, TrustedStays DEF HostInv, HostTypeOK, Trusted
  <2>4. \A b \in Agents : (life[b] \in {"none", "gone"} => clients[b] = {})'
    BY DEF HostTypeOK, HostInv, Withdraw
  <2>5. QED
    BY <2>1, <2>2, <2>3, <2>4 DEF HostInv
<1>4. ListedInv'
  <2> SUFFICES ASSUME NEW b \in registered', entry'[hosts'[b]] = NoEntry
               PROVE  PeerEnded(b)'
    BY DEF ListedInv
  <2>1. b \in registered /\ b \in Agents /\ b # a /\ UNCHANGED hosts
    BY DEF Withdraw, HostTypeOK
  <2>2. CASE hosts[b] = hosts[a]
    BY <2>1, <2>2 DEF Withdraw, PeerEnded, HostTypeOK
  <2>3. CASE hosts[b] # hosts[a]
    <3>1. entry[hosts[b]] = NoEntry
      BY <2>1, <2>3 DEF Withdraw, HostTypeOK
    <3>2. QED
      BY <1>1, <2>1, <3>1, PeerStays DEF ListedInv
  <2>4. QED
    BY <2>2, <2>3
<1>5. QED
  BY <1>1, <1>3, <1>4 DEF HostStep, Withdraw

\* The other steps of an agent change no file and end nothing.
LEMMA QuietStep ==
    ASSUME HostTypeOK, HostInv, ListedInv, NEW a \in Agents,
           \/ Bind(a) \/ Accept(a) \/ Works(a) \/ Rests(a) \/ Look(a) \/ IdleStop(a)
           \/ Shutdown(a) \/ EndAccept(a)
    PROVE  HostStep
<1>1. HostTypeOK' /\ AgentsGoOn
  <2>1. CASE Bind(a)
    BY <2>1, HostAssumption DEF HostTypeOK, Bind, Alive, Listening, AgentsGoOn, Published
  <2>2. CASE Accept(a)
    BY <2>2 DEF HostTypeOK, Accept, Alive, Listening, AgentsGoOn, Published
  <2>3. CASE Works(a) \/ Rests(a) \/ IdleStop(a) \/ Shutdown(a)
    BY <2>3 DEF HostTypeOK, Works, Rests, IdleStop, Shutdown, AgentsGoOn, Published
  <2>4. CASE Look(a)
    BY <2>4, HostAssumption DEF HostTypeOK, Look, AgentsGoOn, Published
  <2>5. CASE EndAccept(a)
    BY <2>5 DEF HostTypeOK, EndAccept, Alive, Listening, AgentsGoOn, Published
  <2>6. QED
    BY <2>1, <2>2, <2>3, <2>4, <2>5
<1>2. /\ UNCHANGED <<hosts, entry, registered, clients>>
      /\ \A b \in Agents : life[b] = "none" <=> life'[b] = "none"
      /\ \A b \in Agents : life'[b] \in {"none", "gone"} => life[b] \in {"none", "gone"}
      /\ \A b \in registered : life'[b] \in {"listed", "serving", "ending"}
  BY DEF HostTypeOK, HostInv, Bind, Accept, Works, Rests, Look, IdleStop, Shutdown, EndAccept
<1>3. HostInv'
  BY <1>1, <1>2, TrustedStays DEF HostInv, HostTypeOK, Trusted
<1>4. ListedInv'
  BY <1>1, <1>2, ListedKept
<1>5. QED
  BY <1>1, <1>2, <1>3, <1>4 DEF HostStep

\* Every step of an agent.
LEMMA AgentStep ==
    ASSUME HostTypeOK, HostInv, ListedInv, NEW a \in Agents, Agent(a)
    PROVE  HostStep
<1>1. CASE Starts(a, NoSession, "starting") \/ \E s \in Sessions : Starts(a, s, "starting")
  BY <1>1, StartsStep
<1>2. CASE Exit(a) \/ Dies(a)
  BY <1>2, EndsStep DEF Exit, Dies, Alive, Listening
<1>3. QED
  BY <1>1, <1>2, PublishStep, WithdrawStep, QuietStep DEF Agent

---------------------------------------------------------------------------------
(* The daemon. *)

ConnTypeOK(c) ==
    /\ phase[c] \in Searching \cup Over \cup
                    {"none", "start", "dial", "joined", "pipe", "closed", "drained"}
    /\ asked[c] \in Sessions \cup {NoSession} /\ named[c] \in Sessions \cup {NoSession}
    /\ seen[c] \in Entry \cup {NoEntry}
    /\ child[c] \in Agents \cup {NoAgent}

\* The variables of the connections other than c.
OthersWait(c) ==
    /\ phase' = [phase EXCEPT ![c] = phase'[c]]
    /\ asked' = [asked EXCEPT ![c] = asked'[c]]
    /\ named' = [named EXCEPT ![c] = named'[c]]
    /\ seen' = [seen EXCEPT ![c] = seen'[c]]
    /\ child' = [child EXCEPT ![c] = child'[c]]
    /\ late' \in {late, late \cup {c}}

\* What was read and whom it started stays true for a connection that waits.
LEMMA ConnKept ==
    ASSUME TypeOK, HostTypeOK', HostInv, ConnInv, AgentsGoOn, NEW d \in Conns,
           phase'[d] = phase[d], asked'[d] = asked[d], named'[d] = named[d],
           seen'[d] = seen[d], child'[d] = child[d], d \in late' <=> d \in late
    PROVE  SearchOf(d)' /\ ChildOf(d)'
<1>1. SearchOf(d) /\ ChildOf(d)
  BY DEF ConnInv
<1>2. seen[d] \in Entry \cup {NoEntry} /\ child[d] \in Agents \cup {NoAgent}
  BY DEF TypeOK
<1>3. SearchOf(d)'
  <2>1. seen[d] # NoEntry => Trusted(seen[d])'
    BY <1>1, <1>2, TrustedStays DEF SearchOf, TypeOK, Trusted
  <2>2. phase[d] = "reap" => life'[seen[d].pid] = "gone"
    BY <1>1, <1>2 DEF SearchOf, HasRead, AgentsGoOn, Entry
  <2>3. QED
    BY <1>1, <2>1, <2>2 DEF SearchOf, Finding, Trusted
<1>4. ChildOf(d)'
  <2>1. ~Finding(d) => /\ life'[child[d]] # "none" /\ hosts'[child[d]] = hosts[child[d]]
                       /\ life[child[d]] = "gone" => life'[child[d]] = "gone"
    BY <1>1, <1>2 DEF ChildOf, Finding, AgentsGoOn
  <2>2. QED
    BY <1>1, <2>1 DEF ChildOf, Finding
<1>5. QED
  BY <1>3, <1>4

\* What a step for one connection has to show.
LEMMA ConnStep ==
    ASSUME IInv, NEW c \in Conns, OthersWait(c), ConnTypeOK(c)', SearchOf(c)', ChildOf(c)',
           HostTypeOK', HostInv', ListedInv', AgentsGoOn,
           \A a \in Agents : c \in clients'[a] =>
               phase'[c] = "joined" /\ hosts'[a] = seen'[c].session,
           \A a \in Agents : clients'[a] \subseteq clients[a] \cup {c}
    PROVE  IInv'
<1>1. TypeOK'
  <2>1. phase' \in [Conns -> Searching \cup Over \cup
                    {"none", "start", "dial", "joined", "pipe", "closed", "drained"}]
    BY DEF IInv, TypeOK, OthersWait, ConnTypeOK
  <2>2. {asked', named'} \subseteq [Conns -> Sessions \cup {NoSession}]
    BY DEF IInv, TypeOK, OthersWait, ConnTypeOK
  <2>3. seen' \in [Conns -> Entry \cup {NoEntry}] /\ child' \in [Conns -> Agents \cup {NoAgent}]
    BY DEF IInv, TypeOK, OthersWait, ConnTypeOK
  <2>4. \A a \in Agents : \A d \in clients'[a] : phase'[d] = "joined"
    BY DEF IInv, TypeOK, HostTypeOK, OthersWait
  <2>5. QED
    BY <2>1, <2>2, <2>3, <2>4 DEF IInv, TypeOK, OthersWait
<1>2. ConnInv'
  <2> SUFFICES ASSUME NEW d \in Conns, d # c
               PROVE  SearchOf(d)' /\ ChildOf(d)'
    BY DEF ConnInv
  <2>1. /\ phase'[d] = phase[d] /\ asked'[d] = asked[d] /\ named'[d] = named[d]
        /\ seen'[d] = seen[d] /\ child'[d] = child[d] /\ (d \in late' <=> d \in late)
    BY DEF IInv, TypeOK, OthersWait
  <2>2. QED
    BY <2>1, ConnKept DEF IInv
<1>3. ServedInv'
  <2> SUFFICES ASSUME NEW a \in Agents, NEW d \in clients'[a], d # c
               PROVE  hosts'[a] = seen'[d].session
    BY DEF ServedInv
  <2>1. d \in Conns /\ d \in clients[a] /\ phase[d] = "joined" /\ seen'[d] = seen[d]
    BY DEF IInv, TypeOK, HostTypeOK, OthersWait
  <2>2. hosts[a] = seen[d].session /\ seen[d].session \in Sessions
    BY <2>1 DEF IInv, ServedInv, ConnInv, SearchOf, HasRead, Trusted, Entry
  <2>3. hosts'[a] = hosts[a]
    BY <2>2, HostAssumption DEF IInv, HostInv, AgentsGoOn
  <2>4. QED
    BY <2>1, <2>2, <2>3
<1>4. QED
  BY <1>1, <1>2, <1>3 DEF IInv

\* The agents and the registry are left alone.
LEMMA HostKept ==
    ASSUME IInv, UNCHANGED hostVars
    PROVE  HostTypeOK' /\ HostInv' /\ ListedInv' /\ AgentsGoOn
BY DEF IInv, TypeOK, hostVars, HostTypeOK, HostInv, Trusted, ListedInv, PeerEnded, AgentsGoOn

\* Steps of the daemon that read, or look, and go on.
LEMMA LookingStep ==
    ASSUME IInv, NEW c \in Conns,
           \/ Ask(c) \/ Absent(c) \/ Read(c) \/ Probe(c) \/ StartFails(c) \/ ChildDied(c)
           \/ RunLate(c) \/ AgentGone(c) \/ ClientCloses(c) \/ OutputEnds(c)
    PROVE  IInv'
<1>1. UNCHANGED hostVars
  BY DEF Ask, Absent, Read, Probe, StartFails, ChildDied, RunLate, AgentGone, ClientCloses,
         OutputEnds
<1>2. HostTypeOK' /\ HostInv' /\ ListedInv' /\ AgentsGoOn
  BY <1>1, HostKept
<1>3. SearchOf(c) /\ ChildOf(c) /\ TypeOK
  BY DEF IInv, ConnInv
<1>4. OthersWait(c) /\ ConnTypeOK(c)' /\ (phase'[c] # "joined" \/ phase'[c] = phase[c])
  <2>1. CASE Ask(c) \/ Absent(c) \/ StartFails(c) \/ ChildDied(c) \/ RunLate(c)
    BY <2>1, <1>3 DEF Ask, Absent, StartFails, ChildDied, RunLate, Moves, Goes, TypeOK,
         OthersWait, ConnTypeOK, Over, Searching
  <2>2. CASE Read(c)
    BY <2>2, <1>1, <1>3 DEF Read, Moves, Goes, TypeOK, HostTypeOK, OthersWait, ConnTypeOK, Over,
         Searching
  <2>3. CASE Probe(c)
    BY <2>3, <1>3 DEF Probe, Goes, TypeOK, OthersWait, ConnTypeOK, Over, Searching
  <2>4. CASE AgentGone(c) \/ ClientCloses(c) \/ OutputEnds(c)
    BY <2>4, <1>3 DEF AgentGone, ClientCloses, OutputEnds, Moves, Goes, TypeOK, OthersWait,
         ConnTypeOK, Over, Searching
  <2>5. QED
    BY <2>1, <2>2, <2>3, <2>4
<1>5. SearchOf(c)' /\ ChildOf(c)'
  <2>1. CASE Ask(c)
    BY <2>1, <1>1, <1>3 DEF Ask, Moves, Goes, TypeOK, hostVars, SearchOf, ChildOf, Finding,
         Trusted, HasRead, Searching
  <2>2. CASE Absent(c) \/ StartFails(c) \/ RunLate(c) \/ AgentGone(c)
    BY <2>2, <1>1, <1>3 DEF Absent, StartFails, RunLate, AgentGone, Moves, Goes, TypeOK,
         hostVars, SearchOf, ChildOf, Finding, Trusted, HasRead, Searching
  <2>3. CASE ChildDied(c) \/ ClientCloses(c) \/ OutputEnds(c)
    BY <2>3, <1>1, <1>3 DEF ChildDied, ClientCloses, OutputEnds, Moves, Goes, TypeOK,
         hostVars, SearchOf, ChildOf, Finding, Trusted, HasRead, Searching
  <2>4. CASE Read(c)
    <3>1. PICK s \in Sessions :
            /\ Finding(c) => s = asked[c]
            /\ entry[s] # NoEntry
            /\ seen' = [seen EXCEPT ![c] = entry[s]]
      BY <2>4 DEF Read
    <3>2. Trusted(entry[s]) /\ entry[s].session = s /\ seen'[c] = entry[s]
      BY <3>1, <1>3 DEF IInv, HostInv, TypeOK
    <3>3. phase'[c] = "probe" /\ UNCHANGED <<asked, named, child, late>> /\ phase[c] = "find"
      BY <2>4, <1>3 DEF Read, Moves, Goes, TypeOK
    <3>4. QED
      BY <3>1, <3>2, <3>3, <1>1, <1>3 DEF hostVars, SearchOf, ChildOf, Finding, Trusted,
           HasRead, Searching
  <2>5. CASE Probe(c)
    <3>1. UNCHANGED <<hostVars, asked, named, seen, child, late>>
      BY <2>5 DEF Probe
    <3>2. phase[c] = "probe" /\ phase'[c] \in {"reap", "dial", "find"}
      BY <2>5, <1>3 DEF Probe, Goes, TypeOK
    <3>3. seen[c] # NoEntry /\ Trusted(seen[c])
      BY <1>3, <3>2 DEF SearchOf, HasRead
    <3>4. ASSUME phase'[c] = "reap" PROVE life[seen[c].pid] = "gone"
      <4>1. ~Reachable(seen[c])
        BY <2>5, <1>3, <3>4 DEF Probe, Goes, TypeOK
      <4>2. seen[c].pid \in Agents /\ port[seen[c].pid] = NoPort
        BY <4>1, <3>3 DEF Reachable, Trusted, Entry
      <4>3. QED
        BY <4>2, <3>3, <1>3 DEF TypeOK, HostTypeOK, Trusted, Published, Listening
    <3>5. ASSUME phase'[c] = "dial", ~Finding(c) PROVE seen[c].pid = child[c]
      BY <2>5, <1>3, <3>5 DEF Probe, Goes, TypeOK
    <3>6. QED
      BY <3>1, <3>2, <3>3, <3>4, <3>5, <1>3 DEF hostVars, SearchOf, ChildOf, Finding, Trusted,
           HasRead, Searching
  <2>6. QED
    BY <2>1, <2>2, <2>3, <2>4, <2>5
<1>6. \A a \in Agents : c \in clients'[a] => phase'[c] = "joined" /\ hosts'[a] = seen'[c].session
  <2> SUFFICES ASSUME NEW a \in Agents, c \in clients[a]
               PROVE  phase'[c] = "joined" /\ hosts[a] = seen'[c].session
    BY <1>1 DEF hostVars
  <2>1. phase[c] = "joined" /\ hosts[a] = seen[c].session
    BY <1>3 DEF IInv, TypeOK, ServedInv
  <2>2. RunLate(c)
    BY <2>1 DEF Ask, Absent, Read, Probe, StartFails, ChildDied, AgentGone, ClientCloses,
         OutputEnds, Moves, Searching
  <2>3. QED
    BY <2>1, <2>2 DEF RunLate
<1>7. QED
  BY <1>1, <1>2, <1>4, <1>5, <1>6, ConnStep DEF hostVars

\* A file is removed after the address read from it was found dead: the process that wrote
\* what was read has ended, whoever has written the file since.
LEMMA ReapStep ==
    ASSUME IInv, NEW c \in Conns, Reap(c)
    PROVE  IInv'
<1>1. SearchOf(c) /\ ChildOf(c) /\ TypeOK /\ phase[c] = "reap"
  BY DEF IInv, ConnInv, Reap, Moves
<1>2. /\ UNCHANGED <<life, hosts, port, registered, stopping, quiet, busy, clients,
                     asked, named, seen, child, late>>
      /\ phase' = [phase EXCEPT ![c] = IF Finding(c) THEN "start" ELSE "find"]
      /\ entry' = [entry EXCEPT ![seen[c].session] = NoEntry]
  BY DEF Reap, Moves, Goes
<1>3. Trusted(seen[c]) /\ life[seen[c].pid] = "gone"
  BY <1>1 DEF SearchOf, HasRead
<1>4. HostTypeOK' /\ AgentsGoOn
  <2>1. entry' \in [Sessions -> Entry \cup {NoEntry}]
    BY <1>1, <1>2 DEF TypeOK, HostTypeOK
  <2>2. QED
    BY <1>1, <1>2, <2>1 DEF TypeOK, HostTypeOK, AgentsGoOn
<1>5. HostInv'
  <2>1. \A s \in Sessions : entry'[s] # NoEntry => entry'[s] = entry[s]
    BY <1>1, <1>2 DEF TypeOK, HostTypeOK
  <2>2. QED
    BY <1>2, <2>1 DEF IInv, HostInv, Trusted
<1>6. ListedInv'
  <2> SUFFICES ASSUME NEW b \in registered, entry'[hosts[b]] = NoEntry
               PROVE  PeerEnded(b)'
    BY <1>2 DEF ListedInv
  <2>1. b \in Agents /\ life[b] # "gone" /\ seen[c].pid \in Agents
    BY <1>3 DEF IInv, TypeOK, HostTypeOK, HostInv, Trusted, Entry
  <2>2. CASE hosts[b] = seen[c].session
    BY <1>2, <1>3, <2>1, <2>2 DEF PeerEnded, Trusted
  <2>3. CASE hosts[b] # seen[c].session
    <3>1. entry[hosts[b]] = NoEntry
      BY <1>1, <1>2, <2>1, <2>3 DEF TypeOK, HostTypeOK
    <3>2. QED
      BY <1>1, <1>4, <3>1, PeerStays DEF IInv, TypeOK, ListedInv
  <2>4. QED
    BY <2>2, <2>3
<1>7. OthersWait(c) /\ ConnTypeOK(c)'
  BY <1>1, <1>2 DEF TypeOK, OthersWait, ConnTypeOK, Over, Searching
<1>8. SearchOf(c)' /\ ChildOf(c)'
  BY <1>1, <1>2 DEF TypeOK, SearchOf, ChildOf, Finding, Trusted, HasRead, Searching
<1>9. \A a \in Agents : c \notin clients[a]
  BY <1>1 DEF TypeOK
<1>10. QED
  BY <1>2, <1>4, <1>5, <1>6, <1>7, <1>8, <1>9, ConnStep

\* The agent that takes a connection says that it hosts the session of the file.
LEMMA JoinStep ==
    ASSUME IInv, NEW c \in Conns, Join(c)
    PROVE  IInv'
<1>1. SearchOf(c) /\ ChildOf(c) /\ TypeOK /\ phase[c] = "dial"
  BY DEF IInv, ConnInv, Join, Moves
<1>2. PICK b \in Agents :
        /\ Takes(b, seen[c])
        /\ clients' = [clients EXCEPT ![b] = @ \cup {c}]
  BY DEF Join
<1>3. /\ UNCHANGED <<life, hosts, port, entry, registered, stopping, quiet, busy,
                     asked, named, seen, child, late>>
      /\ phase' = [phase EXCEPT ![c] = "joined"]
  BY DEF Join, Moves, Goes
<1>4. HostTypeOK' /\ AgentsGoOn
  <2>1. clients' \in [Agents -> SUBSET Conns]
    BY <1>1, <1>2 DEF TypeOK, HostTypeOK
  <2>2. QED
    BY <1>1, <1>3, <2>1 DEF TypeOK, HostTypeOK, AgentsGoOn
<1>5. HostInv' /\ ListedInv'
  <2>1. \A a \in Agents : life[a] \in {"none", "gone"} => clients'[a] = {}
    BY <1>1, <1>2 DEF IInv, TypeOK, HostTypeOK, HostInv, Takes
  <2>2. QED
    BY <1>3, <2>1 DEF IInv, HostInv, Trusted, ListedInv, PeerEnded
<1>6. OthersWait(c) /\ ConnTypeOK(c)'
  BY <1>1, <1>3 DEF TypeOK, OthersWait, ConnTypeOK, Over, Searching
<1>7. SearchOf(c)' /\ ChildOf(c)'
  BY <1>1, <1>3 DEF TypeOK, SearchOf, ChildOf, Finding, Trusted, HasRead, Searching
<1>8. \A a \in Agents : /\ clients'[a] \subseteq clients[a] \cup {c}
                        /\ c \in clients'[a] => a = b
  BY <1>1, <1>2 DEF TypeOK, HostTypeOK
<1>9. hosts[b] = seen[c].session
  BY <1>2 DEF Takes
<1>10. phase'[c] = "joined"
  BY <1>1, <1>3 DEF TypeOK
<1>11. QED
  BY <1>3, <1>4, <1>5, <1>6, <1>7, <1>8, <1>9, <1>10, ConnStep

\* A connection that is over, or was refused, after its agent's end.
LEMMA KillStep ==
    ASSUME IInv, NEW c \in Conns, NEW to \in {"refused", "over"}, ~Finding(c),
           phase[c] # "joined", Goes(c, to), Killed(child[c]),
           UNCHANGED <<asked, named, seen, child, late>>
    PROVE  IInv'
<1>1. SearchOf(c) /\ ChildOf(c) /\ TypeOK /\ child[c] \in Agents /\ life[child[c]] # "none"
  BY DEF IInv, ConnInv, TypeOK, ChildOf, Finding
<1>2. /\ HostTypeOK' /\ HostInv' /\ ListedInv' /\ AgentsGoOn /\ life'[child[c]] = "gone"
      /\ \A a \in Agents : clients'[a] \subseteq clients[a]
  <2>1. CASE life[child[c]] \in Alive
    BY <1>1, <2>1, EndsStep DEF Killed, IInv, TypeOK, HostStep
  <2>2. CASE life[child[c]] \notin Alive
    BY <1>1, <2>2, HostKept DEF Killed, TypeOK, HostTypeOK, hostVars
  <2>3. QED
    BY <2>1, <2>2
<1>3. OthersWait(c) /\ ConnTypeOK(c)' /\ phase'[c] = to
  BY <1>1 DEF TypeOK, OthersWait, ConnTypeOK, Over, Searching, Goes
<1>4. SearchOf(c)' /\ ChildOf(c)'
  <2>1. seen[c] # NoEntry => Trusted(seen[c])'
    BY <1>1, <1>2, TrustedStays DEF SearchOf, TypeOK, Trusted
  <2>2. QED
    BY <1>1, <1>2, <1>3, <2>1 DEF SearchOf, ChildOf, Finding, HasRead, Searching, Trusted
<1>5. \A a \in Agents : c \notin clients'[a]
  BY <1>1, <1>2 DEF TypeOK
<1>6. QED
  BY <1>2, <1>3, <1>4, <1>5, ConnStep

\* A connection that starts an agent goes by that agent from then on.
LEMMA ChildStep ==
    ASSUME IInv, NEW c \in Conns, StartAgent(c) \/ SpawnRelay(c)
    PROVE  IInv'
<1>1. SearchOf(c) /\ ChildOf(c) /\ TypeOK /\ phase[c] \in {"start", "none"}
  BY DEF IInv, ConnInv, StartAgent, SpawnRelay, Moves
<1>2. PICK a \in Agents, s \in Sessions \cup {NoSession}, how \in {"starting", "piped"} :
        /\ Starts(a, s, how)
        /\ child' = [child EXCEPT ![c] = a]
        /\ StartAgent(c) => s = named[c]
  <2>1. CASE StartAgent(c)
    BY <1>1, <2>1 DEF StartAgent, TypeOK
  <2>2. CASE SpawnRelay(c) /\ ~StartAgent(c)
    BY <2>2 DEF SpawnRelay
  <2>3. QED
    BY <2>1, <2>2
<1>3. HostStep
  BY <1>1, <1>2, StartsStep DEF IInv, TypeOK
<1>4. /\ phase' = [phase EXCEPT ![c] = phase'[c]]
      /\ (phase'[c] = "find" /\ StartAgent(c)) \/ phase'[c] = "pipe"
      /\ UNCHANGED <<asked, named, seen, late>>
  BY <1>1 DEF StartAgent, SpawnRelay, Moves, Goes, TypeOK
<1>5. OthersWait(c) /\ ConnTypeOK(c)'
  BY <1>1, <1>2, <1>4 DEF TypeOK, OthersWait, ConnTypeOK, Over, Searching
<1>6. SearchOf(c)' /\ ChildOf(c)'
  <2>1. seen[c] # NoEntry => Trusted(seen[c])'
    BY <1>1, <1>3, <1>4, TrustedStays DEF SearchOf, TypeOK, HostStep, Trusted
  <2>2. child'[c] = a /\ a # NoAgent /\ life'[a] # "none" /\ life[a] = "none"
    BY <1>1, <1>2, HostAssumption DEF TypeOK, HostTypeOK, Starts
  <2>3. StartAgent(c) => named[c] \in {hosts'[a], NoSession}
    BY <1>1, <1>2 DEF Starts, Named, TypeOK, HostTypeOK
  <2>4. QED
    BY <1>1, <1>4, <2>1, <2>2, <2>3 DEF SearchOf, ChildOf, Finding, HasRead, Searching, Trusted
<1>7. \A b \in Agents : c \notin clients'[b] /\ clients'[b] \subseteq clients[b]
  BY <1>1, <1>3 DEF TypeOK, HostStep
<1>8. QED
  BY <1>3, <1>5, <1>6, <1>7, ConnStep DEF HostStep

\* A dial that failed starts an agent, or gives up the one that was started; a connection
\* runs out of patience with its agent; a spawned one's is over.
LEMMA FailingStep ==
    ASSUME IInv, NEW c \in Conns, DialFails(c) \/ OutOfPatience(c) \/ RelayEnds(c)
    PROVE  IInv'
<1>1. SearchOf(c) /\ ChildOf(c) /\ TypeOK
  BY DEF IInv, ConnInv
<1>2. CASE DialFails(c) /\ Finding(c)
  <2>1. /\ UNCHANGED <<hostVars, asked, named, seen, child, late>>
        /\ phase[c] = "dial" /\ phase' = [phase EXCEPT ![c] = "start"]
    BY <1>2 DEF DialFails, Goes
  <2>2. HostTypeOK' /\ HostInv' /\ ListedInv' /\ AgentsGoOn
    BY <2>1, HostKept
  <2>3. OthersWait(c) /\ ConnTypeOK(c)'
    BY <1>1, <2>1 DEF TypeOK, OthersWait, ConnTypeOK, Over, Searching
  <2>4. SearchOf(c)' /\ ChildOf(c)'
    BY <1>1, <1>2, <2>1 DEF TypeOK, hostVars, SearchOf, ChildOf, Finding, Trusted, HasRead,
         Searching
  <2>5. \A a \in Agents : c \notin clients[a]
    BY <1>1, <2>1 DEF TypeOK
  <2>6. QED
    BY <2>1, <2>2, <2>3, <2>4, <2>5, ConnStep DEF hostVars
<1>3. CASE DialFails(c) /\ ~Finding(c)
  BY <1>3, KillStep DEF DialFails, GivesUp
<1>4. CASE OutOfPatience(c)
  BY <1>1, <1>4, KillStep DEF OutOfPatience, GivesUp, ChildOf
<1>5. CASE RelayEnds(c)
  BY <1>1, <1>5, KillStep DEF RelayEnds, Moves, ChildOf
<1>6. QED
  BY <1>2, <1>3, <1>4, <1>5

\* A client leaves its agent.
LEMMA LeaveStep ==
    ASSUME IInv, NEW c \in Conns, Leave(c)
    PROVE  IInv'
<1>1. SearchOf(c) /\ ChildOf(c) /\ TypeOK
  BY DEF IInv, ConnInv
<1>2. /\ UNCHANGED <<life, hosts, port, entry, registered, stopping, quiet, busy,
                     asked, named, seen, child, late>>
      /\ phase[c] = "joined" /\ phase' = [phase EXCEPT ![c] = "left"]
      /\ clients' = [a \in Agents |-> clients[a] \ {c}]
  BY DEF Leave, Moves, Goes
<1>3. HostTypeOK' /\ AgentsGoOn
  BY <1>1, <1>2 DEF TypeOK, HostTypeOK, AgentsGoOn
<1>4. HostInv' /\ ListedInv'
  BY <1>2 DEF IInv, HostInv, Trusted, ListedInv, PeerEnded
<1>5. OthersWait(c) /\ ConnTypeOK(c)'
  BY <1>1, <1>2 DEF TypeOK, OthersWait, ConnTypeOK, Over, Searching
<1>6. SearchOf(c)' /\ ChildOf(c)'
  BY <1>1, <1>2 DEF TypeOK, SearchOf, ChildOf, Finding, Trusted, HasRead, Searching
<1>7. QED
  BY <1>2, <1>3, <1>4, <1>5, <1>6, ConnStep

\* The end of the daemon cuts every connection that is not over, and takes it from its
\* agent.
LEMMA DaemonEndsStep ==
    ASSUME IInv, DaemonEnds
    PROVE  IInv'
<1>1. /\ UNCHANGED <<life, hosts, port, entry, registered, stopping, quiet, busy,
                     asked, named, seen, child, late>>
      /\ phase' = [c \in Conns |-> IF phase[c] \in Over \cup {"none"} THEN phase[c] ELSE "cut"]
      /\ clients' = [a \in Agents |-> {}]
  BY DEF DaemonEnds
<1>2. HostTypeOK' /\ HostInv' /\ ListedInv'
  BY <1>1 DEF IInv, TypeOK, HostTypeOK, HostInv, Trusted, ListedInv, PeerEnded
<1>3. TypeOK'
  BY <1>1, <1>2 DEF IInv, TypeOK, Over
<1>4. ASSUME NEW c \in Conns PROVE SearchOf(c)' /\ ChildOf(c)'
  <2>1. SearchOf(c) /\ ChildOf(c)
    BY DEF IInv, ConnInv
  <2>2. CASE phase[c] \in Over \cup {"none"}
    BY <1>1, <2>1, <2>2 DEF SearchOf, ChildOf, Finding, Trusted
  <2>3. CASE phase[c] \notin Over \cup {"none"}
    BY <1>1, <2>1, <2>3 DEF SearchOf, ChildOf, Finding, Trusted, HasRead, Searching
  <2>4. QED
    BY <2>2, <2>3
<1>5. ServedInv'
  BY <1>1 DEF ServedInv
<1>6. QED
  BY <1>2, <1>3, <1>4, <1>5 DEF IInv, ConnInv

---------------------------------------------------------------------------------
\* The invariant holds at first, and every step keeps it.
LEMMA Invariance == Spec => []IInv
<1>1. Init => IInv
  BY HostAssumption DEF Init, HostInit, IInv, TypeOK, HostTypeOK, Alive, Listening, Over,
     Searching, HostInv, ConnInv, SearchOf, ChildOf, Finding, HasRead, ServedInv, ListedInv
<1>2. IInv /\ [Next]_vars => IInv'
  <2> SUFFICES ASSUME IInv, [Next]_vars
               PROVE  IInv'
    OBVIOUS
  <2>1. ASSUME NEW a \in Agents, Agent(a), UNCHANGED daemonVars
        PROVE  IInv'
    <3>1. HostStep /\ TypeOK
      BY <2>1, AgentStep DEF IInv, TypeOK
    <3>2. TypeOK'
      BY <2>1, <3>1 DEF TypeOK, daemonVars, HostStep, HostTypeOK
    <3>3. ConnInv'
      BY <2>1, <3>1, ConnKept DEF IInv, ConnInv, daemonVars, HostStep
    <3>4. ServedInv'
      <4> SUFFICES ASSUME NEW b \in Agents, NEW c \in clients[b]
                   PROVE  hosts'[b] = seen[c].session
        BY <2>1, <3>1 DEF ServedInv, daemonVars, HostStep
      <4>1. c \in Conns /\ phase[c] = "joined" /\ hosts[b] = seen[c].session
        BY <3>1 DEF IInv, TypeOK, HostTypeOK, ServedInv
      <4>2. hosts[b] \in Sessions
        BY <4>1 DEF IInv, ConnInv, SearchOf, HasRead, Trusted, Entry
      <4>3. QED
        BY <3>1, <4>1, <4>2, HostAssumption DEF IInv, HostInv, HostStep, AgentsGoOn
    <3>5. QED
      BY <3>1, <3>2, <3>3, <3>4 DEF IInv, HostStep
  <2>2. ASSUME NEW c \in Conns,
               \/ Ask(c) \/ Serves(c) \/ RunLate(c) \/ Leave(c) \/ AgentGone(c)
               \/ SpawnRelay(c) \/ ClientCloses(c) \/ OutputEnds(c) \/ RelayEnds(c)
        PROVE  IInv'
    BY <2>2, LookingStep, ReapStep, JoinStep, ChildStep, FailingStep, LeaveStep DEF Serves
  <2>3. CASE DaemonEnds
    BY <2>3, DaemonEndsStep
  <2>4. CASE UNCHANGED vars
    <3>1. HostTypeOK' /\ HostInv' /\ ListedInv' /\ AgentsGoOn
      BY <2>4, HostKept DEF vars
    <3>2. ConnInv'
      BY <2>4, <3>1, ConnKept DEF IInv, ConnInv, vars, daemonVars
    <3>3. TypeOK' /\ ServedInv'
      BY <2>4, <3>1 DEF IInv, TypeOK, ServedInv, vars, daemonVars, hostVars
    <3>4. QED
      BY <3>1, <3>2, <3>3 DEF IInv
  <2>5. QED
    BY <2>1, <2>2, <2>3, <2>4 DEF Next
<1>3. QED
  BY <1>1, <1>2, PTL DEF Spec

(* listener.rs and live.rs: every variable of the agents and of the daemon's connections
   has its type, and no agent serves a connection that is not joined. *)
THEOREM TypeCorrect == Spec => []TypeOK
<1>1. IInv => TypeOK
  BY DEF IInv
<1>2. QED
  BY <1>1, Invariance, PTL

(* remote_daemon.rs:570-574: a client is only ever joined to an agent of the session it is
   told, whatever is left of older agents and whoever has their addresses. *)
THEOREM JoinedToTheAsked == Spec => []JoinedIsAsked
<1>1. IInv => JoinedIsAsked
  <2> SUFFICES ASSUME IInv, NEW a \in Agents, NEW c \in clients[a]
               PROVE  /\ hosts[a] = seen[c].session
                      /\ IF Finding(c) THEN hosts[a] = asked[c]
                         ELSE named[c] \in {hosts[a], NoSession}
    BY DEF JoinedIsAsked
  <2>1. c \in Conns /\ phase[c] = "joined" /\ hosts[a] = seen[c].session
    BY DEF IInv, TypeOK, HostTypeOK, ServedInv
  <2>2. SearchOf(c) /\ ChildOf(c)
    BY <2>1 DEF IInv, ConnInv
  <2>3. QED
    BY <2>1, <2>2 DEF SearchOf, ChildOf, HasRead, Trusted
<1>2. QED
  BY <1>1, Invariance, PTL

(* remote_daemon.rs:487-494: a refused attach, and a spawned agent's connection that is
   over, leave no agent behind that was started for them. *)
THEOREM RefusalLeavesNothing == Spec => []RefusedLeavesNothing
<1>1. IInv => RefusedLeavesNothing
  <2> SUFFICES ASSUME IInv, NEW c \in Conns, phase[c] \in {"refused", "over"}, ~Finding(c)
               PROVE  /\ life[child[c]] = "gone" /\ port[child[c]] = NoPort
                      /\ clients[child[c]] = {}
    BY DEF RefusedLeavesNothing, Finding
  <2>1. child[c] \in Agents /\ life[child[c]] = "gone"
    BY DEF IInv, TypeOK, ConnInv, ChildOf, Finding
  <2>2. QED
    BY <2>1 DEF IInv, TypeOK, HostTypeOK, HostInv, Alive, Listening
<1>2. QED
  BY <1>1, Invariance, PTL

(* live.rs:27-30 and listener.rs:206-208: the session of an agent that serves and has
   published is found in the registry, whoever reaps, unless another process of the session
   has come to its end. *)
THEOREM ServedStaysListed == Spec => []ServedIsListed
<1>1. IInv => ServedIsListed
  <2> SUFFICES ASSUME IInv, NEW a \in registered, entry[hosts[a]] # NoEntry
               PROVE  hosts[entry[hosts[a]].pid] = hosts[a]
    BY DEF IInv, ListedInv, ServedIsListed
  <2>1. hosts[a] \in Sessions
    BY HostAssumption DEF IInv, TypeOK, HostTypeOK, HostInv
  <2>2. QED
    BY <2>1 DEF IInv, HostInv, Trusted
<1>2. QED
  BY <1>1, Invariance, PTL

---------------------------------------------------------------------------------
(* Background tasks. *)

\* A status is only ever taken from "running" by one who wakes whoever waits.
TaskInv ==
    /\ TaskTypeOK
    /\ waiter \in [Tasks -> {"idle", "armed", "asleep", "woken", "back"}]
    /\ reason \in [Tasks -> Terminal \cup {"none"}]
    /\ \A t \in Tasks : monitor[t] = "killing" => reason[t] \in Terminal
    /\ \A t \in Tasks : monitor[t] = "writing" => reason[t] \in Terminal
    /\ SleeperIsWoken

\* Starting a task, and what its process does.
LEMMA TaskBeginsStep ==
    ASSUME TaskInv, NEW t \in Tasks,
           \/ RunBackground(t) \/ SpawnAgent(t) \/ Handshake(t) \/ ClosesStream(t) \/ Exits(t)
           \/ WriteSpecFiles(t)
    PROVE  TaskInv'
<1>1. CASE RunBackground(t)
  BY <1>1 DEF TaskInv, TaskTypeOK, SleeperIsWoken, RunBackground, Register, Spawned, Terminal,
     Streams, Watching
<1>2. CASE SpawnAgent(t)
  BY <1>2 DEF TaskInv, TaskTypeOK, SleeperIsWoken, SpawnAgent, Spawned, Terminal, Streams
<1>3. CASE Handshake(t)
  BY <1>3 DEF TaskInv, TaskTypeOK, SleeperIsWoken, Handshake, Register, Terminal, Watching
<1>4. CASE ClosesStream(t) \/ Exits(t)
  BY <1>4 DEF TaskInv, TaskTypeOK, SleeperIsWoken, ClosesStream, Exits, Terminal
<1>5. CASE WriteSpecFiles(t)
  BY <1>5 DEF TaskInv, TaskTypeOK, SleeperIsWoken, WriteSpecFiles, Terminal, Watching
<1>6. QED
  BY <1>1, <1>2, <1>3, <1>4, <1>5

\* What the monitor of a task does, but for setting its status.
LEMMA TaskWatchedStep ==
    ASSUME TaskInv, NEW t \in Tasks,
           \/ StdoutEnds(t) \/ StderrEnds(t) \/ StderrAgain(t) \/ Deadline(t) \/ HearsKill(t)
           \/ KillIsOver(t) \/ WriteRuntimeFile(t) \/ ForwardToClient(t) \/ SendNotification(t)
    PROVE  TaskInv'
<1>1. CASE StdoutEnds(t) \/ StderrAgain(t)
  BY <1>1 DEF TaskInv, TaskTypeOK, SleeperIsWoken, StdoutEnds, StderrAgain, GoesTo, Quietly,
     Terminal, Watching
<1>2. CASE StderrEnds(t)
  BY <1>2 DEF TaskInv, TaskTypeOK, SleeperIsWoken, StderrEnds, Quietly, Streams
<1>3. CASE Deadline(t) \/ HearsKill(t)
  BY <1>3 DEF TaskInv, TaskTypeOK, SleeperIsWoken, Deadline, HearsKill, Kills, GoesTo, Quietly,
     Terminal, Watching
<1>4. CASE KillIsOver(t)
  BY <1>4 DEF TaskInv, TaskTypeOK, SleeperIsWoken, KillIsOver
<1>5. CASE WriteRuntimeFile(t)
  BY <1>5 DEF TaskInv, TaskTypeOK, SleeperIsWoken, WriteRuntimeFile, GoesTo, Terminal, Watching
<1>6. CASE ForwardToClient(t) \/ SendNotification(t)
  BY <1>6 DEF TaskInv, TaskTypeOK, SleeperIsWoken, ForwardToClient, SendNotification, GoesTo,
     Terminal, Watching
<1>7. QED
  BY <1>1, <1>2, <1>3, <1>4, <1>5, <1>6

\* Those who set the status, and those who wait for it.
LEMMA TaskStatusStep ==
    ASSUME TaskInv, NEW t \in Tasks,
           Complete(t) \/ TaskStop(t) \/ TaskStopWrites(t) \/ Block(t)
    PROVE  TaskInv'
<1>1. CASE Complete(t)
  <2>1. PICK s \in Terminal :
          status' = [status EXCEPT ![t] = s] /\ reason' = [reason EXCEPT ![t] = s]
    BY <1>1 DEF Complete, TaskInv, Terminal
  <2>2. QED
    BY <1>1, <2>1 DEF TaskInv, TaskTypeOK, SleeperIsWoken, Complete, GoesTo, Wake, Terminal, Watching
<1>2. CASE TaskStop(t)
  BY <1>2 DEF TaskInv, TaskTypeOK, SleeperIsWoken, TaskStop, Wake, Terminal
<1>3. CASE TaskStopWrites(t)
  BY <1>3 DEF TaskInv, TaskTypeOK, SleeperIsWoken, TaskStopWrites, Terminal
<1>4. CASE Block(t)
  BY <1>4 DEF TaskInv, TaskTypeOK, SleeperIsWoken, Block, Arm, LookAgain, Woken, OutOfTime, Waits
<1>5. QED
  BY <1>1, <1>2, <1>3, <1>4

\* The invariant holds at first, and every step keeps it.
LEMMA TaskInvariance == TaskSpec => []TaskInv
<1>1. TaskInit => TaskInv
  BY DEF TaskInit, TaskInv, TaskTypeOK, SleeperIsWoken, Terminal, Watching
<1>2. TaskInv /\ [TaskNext]_taskVars => TaskInv'
  <2> SUFFICES ASSUME TaskInv, [TaskNext]_taskVars
               PROVE  TaskInv'
    OBVIOUS
  <2>1. CASE TurnOver
    BY <2>1 DEF TaskInv, TaskTypeOK, SleeperIsWoken, TurnOver
  <2>2. CASE \E t \in Tasks : TaskStep(t)
    BY <2>2, TaskBeginsStep, TaskWatchedStep, TaskStatusStep DEF TaskStep, Watches
  <2>3. CASE UNCHANGED taskVars
    BY <2>3 DEF TaskInv, TaskTypeOK, SleeperIsWoken, taskVars
  <2>4. QED
    BY <2>1, <2>2, <2>3 DEF TaskNext
<1>3. QED
  BY <1>1, <1>2, PTL DEF TaskSpec

(* tasks.rs: a task that is being written down, told of or done with has come to an end,
   and every variable has its type. *)
THEOREM TaskTypeCorrect == TaskSpec => []TaskTypeOK
<1>1. TaskInv => TaskTypeOK
  BY DEF TaskInv
<1>2. QED
  BY <1>1, TaskInvariance, PTL

(* output.rs:77-97: nobody sleeps through the end of the task it waits for. *)
THEOREM SleeperWakes == TaskSpec => []SleeperIsWoken
<1>1. TaskInv => SleeperIsWoken
  BY DEF TaskInv
<1>2. QED
  BY <1>1, TaskInvariance, PTL
================================================================================

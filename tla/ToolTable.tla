-------------------------------- MODULE ToolTable --------------------------------
(***************************************************************************)
(* The tools an agent offers its model: KimiToolset of                     *)
(* server/dvadva-agent/src/soul/toolset.rs.                                *)
(*                                                                         *)
(* The table is filled from three sides: with the agent's own tools when   *)
(* it starts, with those of the MCP servers by a task that connects them   *)
(* one after the other in the background, and with those that clients      *)
(* offer when they initialize and take along when they leave.  The first   *)
(* turn waits for the task, unless it is cancelled there.                  *)
(*                                                                         *)
(* A server is a process or an address: it answers, refuses, or wants an   *)
(* authorization first.                                                    *)
(***************************************************************************)
EXTENDS Naturals, Sequences

CONSTANTS
    Names,          \* of tools
    BuiltIn,        \* those of the tools the agent brings along
    Clients,        \* connections
    Servers,        \* the names of MCP servers
    NoClient,
    NoServer,
    MaxServers      \* bound: servers in the configurations

ASSUME TableAssumption ==
    BuiltIn \subseteq Names /\ NoClient \notin Clients /\ NoServer \notin Servers
    /\ MaxServers \in Nat

VARIABLES
    table,          \* KimiToolset::tools: whose tool a name is
    external,       \* KimiToolset::external_tools
    owners,         \* SessionCore::tool_owner
    attached,       \* the connections that have not given their tools back
    status,         \* McpServerInfo::status; "absent" is no entry
    listed,         \* McpServerInfo::tools
    toConnect,      \* servers_to_connect, from the one that is connected on
    loader,         \* the task: not begun, its place, or over
    loadingTask,    \* mcp_loading_task is there to be waited for
    turnAt,         \* the turn: none, waiting (for the task) or running
    call,           \* the call of a tool that is made
    overlaid,       \* history: names a server brought while they were a client's
    cutShort        \* history: a turn was cancelled while it waited

mcpVars == <<status, listed, toConnect, loader>>
tableVars == <<table, external, owners, attached, mcpVars, loadingTask, turnAt, call,
               overlaid, cutShort>>

Nobodys == [by |-> "nobody"]
Agents == [by |-> "agent"]
OfClient(c) == [by |-> "client", client |-> c]
OfServer(s) == [by |-> "server", server |-> s]
Owner == {Nobodys, Agents} \cup {OfClient(c) : c \in Clients} \cup {OfServer(s) : s \in Servers}

NoToolCall == [at |-> "none", tool |-> Nobodys]

TableTypeOK ==
    /\ table \in [Names -> Owner]
    /\ external \subseteq Names /\ overlaid \subseteq Names /\ attached \subseteq Clients
    /\ owners \in [Names -> Clients \cup {NoClient}]
    /\ status \in [Servers -> {"absent", "unauthorized", "pending", "connecting",
                               "connected", "failed"}]
    /\ listed \in [Servers -> SUBSET Names]
    /\ toConnect \in Seq(Servers)
    /\ loader \in {"config", "next", "connecting", "listing", "over"}
    /\ turnAt \in {"none", "waiting", "running"} /\ {loadingTask, cutShort} \subseteq BOOLEAN
    /\ call \in [at : {"none", "asking", "sent", "answered"}, tool : Owner]

TableInit ==
    /\ table = [n \in Names |-> IF n \in BuiltIn THEN Agents ELSE Nobodys]
    /\ external = {} /\ overlaid = {} /\ attached = {}
    /\ owners = [n \in Names |-> NoClient]
    /\ status = [s \in Servers |-> "absent"] /\ listed = [s \in Servers |-> {}]
    /\ toConnect = <<>> /\ loader = "config" /\ loadingTask = FALSE
    /\ turnAt = "none" /\ call = NoToolCall /\ cutShort = FALSE

---------------------------------------------------------------------------------
(* The MCP servers. *)

\* A server may be named by several configurations: the last entry is kept, and its name
\* is on the list as often as it was to be connected.
LoadMcpTools(s, authorized) ==
    /\ loader = "config" /\ Len(toConnect) < MaxServers
    /\ listed' = [listed EXCEPT ![s] = {}]
    /\ IF authorized
       THEN /\ status' = [status EXCEPT ![s] = "pending"]
            /\ toConnect' = Append(toConnect, s)
       ELSE /\ status' = [status EXCEPT ![s] = "unauthorized"]
            /\ toConnect' = toConnect
    /\ UNCHANGED <<table, external, owners, attached, loader, loadingTask, turnAt, call,
                   overlaid, cutShort>>

LoadingBegins ==
    /\ loader = "config"
    /\ IF toConnect = <<>> THEN loader' = "over" /\ loadingTask' = FALSE
                           ELSE loader' = "next" /\ loadingTask' = TRUE
    /\ UNCHANGED <<table, external, owners, attached, status, listed, toConnect, turnAt,
                   call, overlaid, cutShort>>

\* From one server to the next, whatever became of it.
NextServer ==
    /\ toConnect' = Tail(toConnect)
    /\ loader' = IF Len(toConnect) = 1 THEN "over" ELSE "next"

Untouched ==
    UNCHANGED <<table, external, owners, attached, loadingTask, turnAt, call, overlaid, cutShort>>

ConnectMcpServer ==
    /\ loader = "next"
    /\ LET s == Head(toConnect) IN
         IF status[s] = "pending"
         THEN /\ status' = [status EXCEPT ![s] = "connecting"]
              /\ loader' = "connecting" /\ toConnect' = toConnect
         ELSE status' = status /\ NextServer
    /\ listed' = listed /\ Untouched

\* Refused, unreachable, no such transport; or its tokens do not do.
ConnectFails ==
    /\ loader \in {"connecting", "listing"}
    /\ \E st \in IF loader = "connecting" THEN {"failed", "unauthorized"} ELSE {"failed"} :
         status' = [status EXCEPT ![Head(toConnect)] = st]
    /\ NextServer
    /\ listed' = listed /\ Untouched

ConnectMcpClient ==
    /\ loader = "connecting" /\ loader' = "listing"
    /\ UNCHANGED <<status, listed, toConnect>> /\ Untouched

\* A server's tools take the names they have, whoever had them.
ListTools(tools) ==
    /\ loader = "listing"
    /\ LET s == Head(toConnect) IN
         /\ status' = [status EXCEPT ![s] = "connected"]
         /\ listed' = [listed EXCEPT ![s] = tools]
         /\ table' = [n \in Names |-> IF n \in tools THEN OfServer(s) ELSE table[n]]
    /\ overlaid' = overlaid \cup (tools \cap external)
    /\ NextServer
    /\ UNCHANGED <<external, owners, attached, loadingTask, turnAt, call, cutShort>>

---------------------------------------------------------------------------------
(* The clients. *)

HasBuiltinTool(n) == table[n] # Nobodys /\ n \notin external

\* What is badly described, or what another has offered, is refused.
Registers(c, granted) ==
    /\ table' = [n \in Names |-> IF n \in granted THEN OfClient(c) ELSE table[n]]
    /\ external' = external \cup granted

RegisterExternalTools(c, offer) ==
    /\ loader # "config"
    /\ LET granted == {n \in offer : ~HasBuiltinTool(n) /\ owners[n] \in {NoClient, c}} IN
         /\ Registers(c, granted)
         /\ owners' = [n \in Names |-> IF n \in granted THEN c ELSE owners[n]]
    /\ attached' = attached \cup {c}
    /\ UNCHANGED <<mcpVars, loadingTask, turnAt, call, overlaid, cutShort>>

\* Whatever a name stands for by now.
Unregisters(mine) ==
    /\ table' = [n \in Names |-> IF n \in mine \cap external THEN Nobodys ELSE table[n]]
    /\ external' = external \ mine

ReleaseExternalTools(c) ==
    /\ c \in attached /\ attached' = attached \ {c}
    /\ LET mine == {n \in Names : owners[n] = c} IN
         /\ Unregisters(mine)
         /\ owners' = [n \in Names |-> IF n \in mine THEN NoClient ELSE owners[n]]
    /\ UNCHANGED <<mcpVars, loadingTask, turnAt, call, overlaid, cutShort>>

---------------------------------------------------------------------------------
(* The turns, and the calls of their steps. *)

TurnGoes(to) ==
    /\ turnAt' = to
    /\ UNCHANGED <<table, external, owners, attached, mcpVars, overlaid>>

\* Mutant: the steps begin with the servers that are there.
RunsAtOnce ==
    /\ loader # "config" /\ turnAt = "none"
    /\ TurnGoes("running") /\ UNCHANGED <<loadingTask, call, cutShort>>

\* The task is there for the one who takes it.
TakeMcpLoadingTask ==
    /\ loader # "config" /\ turnAt = "none"
    /\ TurnGoes(IF loadingTask THEN "waiting" ELSE "running")
    /\ loadingTask' = FALSE
    /\ UNCHANGED <<call, cutShort>>

\* Well or not.
McpLoadingEnded ==
    /\ turnAt = "waiting" /\ loader = "over"
    /\ TurnGoes("running") /\ UNCHANGED <<loadingTask, call, cutShort>>

TurnEnds ==
    /\ turnAt = "running" /\ call = NoToolCall
    /\ TurnGoes("none") /\ UNCHANGED <<loadingTask, call, cutShort>>

\* What it waited for goes on without it.
TurnIsCut ==
    /\ turnAt # "none"
    /\ TurnGoes("none") /\ call' = NoToolCall /\ cutShort' = (cutShort \/ turnAt = "waiting")
    /\ loadingTask' = loadingTask

CallGoes(to) ==
    /\ call' = to
    /\ UNCHANGED <<table, external, owners, attached, mcpVars, loadingTask, turnAt, overlaid,
                   cutShort>>

\* A name that is nobody's, or arguments that are no JSON or not what the tool describes,
\* are answered at once.  The tool that was found is called, whatever becomes of its name.
Handle(n) ==
    /\ turnAt = "running" /\ call = NoToolCall
    /\ \/ CallGoes([at |-> "answered", tool |-> Nobodys])
       \/ /\ table[n] # Nobodys
          /\ CallGoes([at |-> IF table[n].by = "server" THEN "asking" ELSE "sent",
                       tool |-> table[n]])

\* An MCP tool asks for consent first.
McpToolAsks ==
    /\ call.at = "asking"
    /\ \E answer \in {"sent", "answered"} : CallGoes([call EXCEPT !.at = answer])

Answered == CallGoes([call EXCEPT !.at = "answered"])

\* A result, an error or the end of its time.
McpToolAnswers == call.at = "sent" /\ call.tool.by = "server" /\ Answered

OwnToolEnds == call.at = "sent" /\ call.tool.by = "agent" /\ Answered

\* A request on the wire, which a client answers for as long as it is there.
ExternalToolAnswers ==
    /\ call.at = "sent" /\ call.tool.by = "client" /\ call.tool.client \in attached
    /\ Answered

StepGoesOn == call.at = "answered" /\ CallGoes(NoToolCall)

---------------------------------------------------------------------------------
TableNext ==
    \/ \E s \in Servers, authorized \in BOOLEAN : LoadMcpTools(s, authorized)
    \/ LoadingBegins \/ ConnectMcpServer \/ ConnectFails \/ ConnectMcpClient
    \/ \E tools \in SUBSET Names : ListTools(tools)
    \/ \E c \in Clients, offer \in SUBSET Names : RegisterExternalTools(c, offer)
    \/ \E c \in Clients : ReleaseExternalTools(c)
    \/ TakeMcpLoadingTask \/ McpLoadingEnded \/ TurnEnds \/ TurnIsCut
    \/ \E n \in Names : Handle(n)
    \/ McpToolAsks \/ McpToolAnswers \/ OwnToolEnds \/ ExternalToolAnswers \/ StepGoesOn

TableSpec == TableInit /\ [][TableNext]_tableVars

---------------------------------------------------------------------------------
(* toolset.rs:208-227 and kimisoul.rs:757-764: but for a turn that was cancelled while it
   waited for them, no step is taken before every server has been connected or has failed,
   and from then on a connected server serves each tool it has listed, whatever clients
   register and release, but for a name that was a client's when it came. *)
TurnSeesItsServers ==
    /\ turnAt = "running" /\ ~cutShort =>
         \A s \in Servers : status[s] \notin {"pending", "connecting"}
    /\ \A s \in Servers : status[s] = "connected" =>
         \A n \in listed[s] \ overlaid : table[n].by = "server"
    /\ call.at \in {"asking", "sent"} /\ call.tool.by = "server" =>
         status[call.tool.server] = "connected"

(* Does not hold, toolset.rs:105-108: "Only external tools can be removed this way": the
   tool a server brought under the name of a client's goes with that client. *)
OnlyExternalIsRemoved ==
    [][\A n \in Names : table[n].by = "server" => table'[n] # Nobodys]_tableVars
=================================================================================

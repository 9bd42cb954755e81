-------------------------------- MODULE FlowRunner -------------------------------
(***************************************************************************)
(* Flows: a chart of prompts in a skill file, and the runner that walks    *)
(* it, in server/dvadva-agent/src:                                         *)
(*                                                                         *)
(*   the charts' parsers, statement by statement  skill/flow/d2.rs,        *)
(*                                                skill/flow/mermaid.rs    *)
(*   what a chart must be to be run               skill/flow/mod.rs        *)
(*   FlowRunner, and the flow of Ralph mode       soul/kimisoul.rs         *)
(*                                                                         *)
(* A statement is what the scanners of the two parsers make of the lines:  *)
(* a node with or without a label, or an edge.  Node identifiers and       *)
(* labels are strings because a node is what its label says, and a node    *)
(* without a label is labelled by its identifier.  What happens in a turn  *)
(* is AgentLoop's business: here it has an outcome.                        *)
(***************************************************************************)
EXTENDS Naturals, Sequences, FiniteSets

CONSTANTS
    NodeIds,        \* identifiers that occur in charts
    NodeLabels,     \* labels that occur in charts
    EdgeLabels,     \* labels of edges, "none" for an edge that has none
    Replies,        \* choices that a model's answer may hold, "none" for no choice
    MaxStatements,  \* bound: statements of a chart
    MaxFlowMoves,   \* DEFAULT_MAX_FLOW_MOVES
    MaxRalph,       \* bound: max_ralph_iterations
    MaxBadReplies   \* bound: answers without a valid choice

ASSUME FlowAssumption ==
    /\ MaxStatements \in Nat /\ MaxFlowMoves \in Nat /\ MaxRalph \in Nat
    /\ MaxBadReplies \in Nat /\ "none" \in Replies /\ IsFiniteSet(NodeIds)

VARIABLES
    flowState,  \* parsing, refused, running, or why the run ended
    statements, \* statements read
    nodes,      \* node definitions by identifier
    outgoing,   \* the edges of each node, in the order they were read
    flowNode,   \* where the runner is
    moves,      \* moves it made
    maxMoves,   \* FlowRunner::max_moves
    turns,      \* history: turns it ran
    badReplies  \* history: turns that did not answer with a choice

flowVars == <<flowState, statements, nodes, outgoing, flowNode, moves, maxMoves, turns,
              badReplies>>

RalphIds == {"R1", "R2"}
Undefined == [label |-> "", explicit |-> FALSE, kind |-> "undefined"]

\* "begin" and "end" make a node the first and the last, whatever their case and the
\* blanks around them.
KindOfLabel(label) ==
    CASE label = "begin" -> "begin" [] label = "end" -> "end" [] OTHER -> "task"

\* Blanks around a label, written _ here, are not part of a choice.
Trimmed(label) ==
    CASE label = "_a_" -> "a" [] label \in {"_", "none"} -> "" [] OTHER -> label

FlowTypeOK ==
    /\ flowState \in {"parsing", "refused", "running", "ended", "rejected", "failed", "stuck"}
    /\ flowNode \in NodeIds \cup RalphIds \cup {"begin", "end"}
    /\ \A id \in DOMAIN nodes :
         /\ nodes[id].kind = "undefined" <=> nodes[id] = Undefined
         /\ nodes[id].kind # "decision" =>
              nodes[id].kind \in {"undefined", KindOfLabel(nodes[id].label)}

FlowInit ==
    /\ flowState = "parsing" /\ statements = 0
    /\ nodes = [id \in NodeIds |-> Undefined]
    /\ outgoing = [id \in NodeIds |-> <<>>]
    /\ flowNode = "begin" /\ moves = 0 /\ maxMoves = MaxFlowMoves
    /\ turns = 0 /\ badReplies = 0

---------------------------------------------------------------------------------
(* Reading a chart. *)

\* The definitions after add_node, unless it conflicts with an earlier one.
AddNode(defs, id, label, explicit) ==
    LET node == [label |-> label, explicit |-> explicit, kind |-> KindOfLabel(label)] IN
    IF defs[id] # Undefined /\ (defs[id].label = label \/ (~explicit /\ defs[id].explicit))
    THEN defs ELSE [defs EXCEPT ![id] = node]

Conflicts(defs, id, label, explicit) ==
    /\ defs[id] # Undefined /\ defs[id].label # label
    /\ explicit = defs[id].explicit

ReadStatement ==
    /\ flowState = "parsing" /\ statements < MaxStatements
    /\ statements' = statements + 1
    /\ UNCHANGED <<flowNode, moves, maxMoves, turns, badReplies>>

\* What is no statement: D2 refuses the chart for it, Mermaid passes over it.
UnreadStatement ==
    /\ ReadStatement
    /\ flowState' \in {"parsing", "refused"}
    /\ UNCHANGED <<nodes, outgoing>>

\* A node with a label, or one that is only named.
NodeStatement(id, label, explicit) ==
    /\ ReadStatement
    /\ explicit \/ label = id
    /\ UNCHANGED outgoing
    /\ IF Conflicts(nodes, id, label, explicit)
       THEN flowState' = "refused" /\ nodes' = nodes
       ELSE flowState' = flowState /\ nodes' = AddNode(nodes, id, label, explicit)

\* An edge names its ends.  (In Mermaid an end may be labelled where it is named: that
\* is a node statement before this one.)
EdgeStatement(src, dst, label) ==
    /\ ReadStatement
    /\ outgoing' = [outgoing EXCEPT ![src] = Append(@, [dst |-> dst, label |-> label])]
    /\ nodes' = AddNode(AddNode(nodes, src, src, FALSE), dst, dst, FALSE)
    /\ flowState' = flowState

\* A task with more than one way on is a decision.
InferDecisionNodes(defs) ==
    [id \in DOMAIN defs |->
        IF defs[id].kind = "task" /\ Len(outgoing[id]) > 1
        THEN [defs[id] EXCEPT !.kind = "decision"] ELSE defs[id]]

OfKind(kind) == {id \in DOMAIN nodes : nodes[id].kind = kind}

\* Nothing leads out of these nodes.
LeadsNowhereElse(ids) ==
    \A id \in ids : \A i \in DOMAIN outgoing[id] : outgoing[id][i].dst \in ids

Reachable(from) ==
    {id \in DOMAIN nodes : \A ids \in SUBSET DOMAIN nodes :
        from \in ids /\ LeadsNowhereElse(ids) => id \in ids}

LabelsTellApart(edges) ==
    /\ \A i \in DOMAIN edges : Trimmed(edges[i].label) # ""
    /\ \A i, j \in DOMAIN edges :
         Trimmed(edges[i].label) = Trimmed(edges[j].label) => i = j

\* Mutant: the labels of the first node's edges only are looked at.
ValidFirst ==
    /\ Cardinality(OfKind("begin")) = 1 /\ Cardinality(OfKind("end")) = 1
    /\ LET reachable == Reachable(CHOOSE id \in OfKind("begin") : TRUE) IN
         /\ \A id \in OfKind("begin") : Len(outgoing[id]) > 1 => LabelsTellApart(outgoing[id])
         /\ OfKind("end") \subseteq reachable

ValidFlow ==
    /\ Cardinality(OfKind("begin")) = 1 /\ Cardinality(OfKind("end")) = 1
    /\ LET reachable == Reachable(CHOOSE id \in OfKind("begin") : TRUE) IN
         /\ \A id \in reachable : Len(outgoing[id]) > 1 => LabelsTellApart(outgoing[id])
         /\ OfKind("end") \subseteq reachable

\* The end of the text, and the slash command of the skill.
ParseEnds ==
    /\ flowState = "parsing"
    /\ IF ValidFlow
       THEN /\ flowState' = "running" /\ nodes' = InferDecisionNodes(nodes)
            /\ flowNode' \in OfKind("begin")
       ELSE flowState' = "refused" /\ UNCHANGED <<nodes, flowNode>>
    /\ UNCHANGED <<statements, outgoing, moves, maxMoves, turns, badReplies>>

RalphNode(kind) == [label |-> kind, explicit |-> TRUE, kind |-> kind]
RalphEdge(dst, label) == <<[dst |-> dst, label |-> label]>>

\* Ralph mode: a prompt makes a flow of itself.
RalphLoop(iterations) ==
    /\ flowState = "parsing" /\ statements = 0
    /\ flowState' = "running" /\ flowNode' = "begin"
    /\ nodes' = [id \in RalphIds \cup {"begin", "end"} |->
                   RalphNode(CASE id = "R1" -> "task" [] id = "R2" -> "decision"
                               [] OTHER -> id)]
    /\ outgoing' = [id \in RalphIds \cup {"begin", "end"} |->
                      CASE id = "begin" -> RalphEdge("R1", "none")
                        [] id = "R1" -> RalphEdge("R2", "none")
                        [] id = "R2" -> RalphEdge("R2", "a") \o RalphEdge("end", "b")
                        [] OTHER -> <<>>]
    /\ maxMoves' = iterations + 1
    /\ UNCHANGED <<statements, moves, turns, badReplies>>

---------------------------------------------------------------------------------
(* FlowRunner::run. *)

Edges == outgoing[flowNode]
AtNode(kinds) == flowState = "running" /\ nodes[flowNode].kind \in kinds
Working == {"task", "decision"}

\* The last node; or one that leads nowhere; or no move is left.
FlowEnds ==
    /\ flowState = "running"
    /\ \/ AtNode({"end"}) /\ flowState' = "ended"
       \/ AtNode({"begin"}) /\ Edges = <<>> /\ flowState' = "ended"
       \/ AtNode(Working) /\ moves >= maxMoves /\ flowState' = "failed"
       \/ AtNode(Working) /\ moves < maxMoves /\ Edges = <<>> /\ flowState' = "ended"
    /\ UNCHANGED <<statements, nodes, outgoing, flowNode, moves, maxMoves, turns, badReplies>>

\* From the first node the first edge leads on, without an await: one that leads back to
\* the first node is followed for ever.
LeaveBegin ==
    /\ AtNode({"begin"}) /\ Edges # <<>>
    /\ flowNode' = Edges[1].dst
    /\ flowState' = IF Edges[1].dst = flowNode THEN "stuck" ELSE "running"
    /\ UNCHANGED <<statements, nodes, outgoing, moves, maxMoves, turns, badReplies>>

\* A turn that fails, or in which the user rejected a tool call, is the last.
TurnOfFlow ==
    /\ AtNode(Working) /\ moves < maxMoves /\ Edges # <<>>
    /\ turns' = turns + 1
    /\ UNCHANGED <<statements, nodes, outgoing, maxMoves>>

TurnFails ==
    /\ TurnOfFlow
    /\ flowState' \in {"failed", "rejected"}
    /\ UNCHANGED <<flowNode, moves, badReplies>>

FlowMoves(i) == flowNode' = Edges[i].dst /\ moves' = moves + 1

TaskDone ==
    /\ AtNode({"task"}) /\ TurnOfFlow
    /\ FlowMoves(1)
    /\ UNCHANGED <<flowState, badReplies>>

\* A choice that no label equals is asked for again, and is no move.  A label with blanks
\* around it is equalled by none.
Decide(reply) ==
    /\ AtNode({"decision"}) /\ TurnOfFlow
    /\ LET matching == {i \in DOMAIN Edges : Edges[i].label = reply /\ reply # "none"} IN
         IF matching = {}
         THEN /\ badReplies < MaxBadReplies /\ badReplies' = badReplies + 1
              /\ UNCHANGED <<flowNode, moves>>
         ELSE /\ \E i \in matching : (\A j \in matching : i <= j) /\ FlowMoves(i)
              /\ badReplies' = badReplies
    /\ flowState' = flowState

FlowNext ==
    \/ \E id \in NodeIds, label \in NodeLabels, explicit \in BOOLEAN :
          NodeStatement(id, label, explicit)
    \/ \E src, dst \in NodeIds, label \in EdgeLabels : EdgeStatement(src, dst, label)
    \/ UnreadStatement \/ ParseEnds \/ (\E n \in 1..MaxRalph : RalphLoop(n))
    \/ FlowEnds \/ LeaveBegin \/ TurnFails \/ TaskDone
    \/ \E reply \in Replies : Decide(reply)

FlowSpec == FlowInit /\ [][FlowNext]_flowVars

---------------------------------------------------------------------------------
(* kimisoul.rs:1252-1399: wherever the runner comes, the node is known, there is one way
   on or a valid choice tells which, and the turns it has run are the moves it was given
   and the answers it could not use. *)
FlowIsSound ==
    flowState \in {"running", "ended", "failed"} =>
        /\ nodes[flowNode].kind # "undefined"
        /\ nodes[flowNode].kind = "task" => Len(Edges) <= 1
        /\ nodes[flowNode].kind = "decision" =>
             \A i, j \in DOMAIN Edges :
                 Edges[i].label = Edges[j].label /\ Edges[i].dst # Edges[j].dst => i = j
        /\ turns <= maxMoves + badReplies

(* Does not hold, cli/mod.rs:204: "Extra iterations after the first turn in Ralph mode.":
   the answer that gives no valid choice is asked for again, uncounted. *)
RalphKeepsCount ==
    "R1" \in DOMAIN nodes => turns <= maxMoves
=================================================================================

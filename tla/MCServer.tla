-------------------------------- MODULE MCServer --------------------------------
(***************************************************************************)
(* Parts of the agent that share no state with one another, for TLC: one   *)
(* of them in each behaviour.                                              *)
(***************************************************************************)
EXTENDS ApprovalPipe, CachedKaos, SoulInputs, FlowRunner, StepGeneration, FileTools, ToolTable

CONSTANTS a1, w1, p1, p2, f1, f2

VARIABLE part

serverVars == <<part, vars, kaosVars, inputVars, flowVars, stepVars, changeVars,
                tableVars>>

\* A part that stays out of it starts in one way.
ServerInit ==
    /\ part \in {"approvals", "files", "inputs", "flows", "steps", "tools", "table"}
    /\ Init /\ KaosInit /\ InputInit /\ FlowInit /\ StepInit /\ ToolsInit
    /\ TableInit
    \* The names of actions do not matter.
    /\ act[a1] = CHOOSE x \in Actions : TRUE
    /\ part = "approvals" \/ \A a \in Asks : act[a] = CHOOSE x \in Actions : TRUE
    /\ disk[p1] = "old" /\ disk[p2] = "none" /\ listing = Unscanned
    /\ part = "inputs" \/ \A f \in Forks : output[f] = "short"
    /\ text[f2] = Absent /\ text[f1] # Absent /\ (part = "tools" \/ text[f1] = <<>>)
    /\ \A i \in DOMAIN text[f1] : text[f1][i] = " a" => i = 1

\* Which of the calls asks first does not matter, nor which of two idle ones writes.
FirstAsks == tool'[a1] = "none" => tool' = tool
FirstWrites == writer[w1] = Idle => \A w \in Writers \ {w1} : writer[w] = Idle => writer'[w] = Idle

\* With an uncounted writer there is nothing to say of listings, nor of excused paths.
WorthWriting == loose => excused # Paths /\ \A r \in Readers : reader'[r] = reader[r]

\* Bound: a label with blanks is the last that is read.
BlanksLast ==
    statements' < MaxStatements =>
        \A id \in DOMAIN outgoing' : \A i \in DOMAIN outgoing'[id] :
            outgoing'[id][i].label # "_a_"

\* Which of two labels is read first does not matter.
EdgesLabelled(label) ==
    {id \in DOMAIN outgoing : \E i \in DOMAIN outgoing[id] : outgoing[id][i].label = label}
FirstLabel == EdgesLabelled("b")' # {} => EdgesLabelled("a")' # {}

\* Bound: with as many lines as can be, one call at a time begins.
RoomForBoth ==
    \/ \A f \in Targets : Len(text[f]) < FileLines
    \/ \A c \in ToolCalls : change[c] = NoChange => change'[c] = NoChange
    \/ \A c \in ToolCalls : change[c] = NoChange

ApprovalsMove == Next /\ FirstAsks /\ UNCHANGED
    <<part, kaosVars, inputVars, flowVars, stepVars, changeVars, tableVars>>
FilesMove == KaosNext /\ FirstWrites /\ WorthWriting /\ UNCHANGED
    <<part, vars, inputVars, flowVars, stepVars, changeVars, tableVars>>
InputsMove == InputNext /\ UNCHANGED
    <<part, vars, kaosVars, flowVars, stepVars, changeVars, tableVars>>
FlowsMove == FlowNext /\ BlanksLast /\ FirstLabel /\ UNCHANGED
    <<part, vars, kaosVars, inputVars, stepVars, changeVars, tableVars>>
StepsMove == StepNext /\ UNCHANGED
    <<part, vars, kaosVars, inputVars, flowVars, changeVars, tableVars>>
ToolsMove == ToolsNext /\ RoomForBoth /\ UNCHANGED
    <<part, vars, kaosVars, inputVars, flowVars, stepVars, tableVars>>
TableMove == TableNext /\ UNCHANGED
    <<part, vars, kaosVars, inputVars, flowVars, stepVars, changeVars>>

ServerNext ==
    \/ part = "approvals" /\ ApprovalsMove
    \/ part = "files" /\ FilesMove
    \/ part = "inputs" /\ InputsMove
    \/ part = "flows" /\ FlowsMove
    \/ part = "steps" /\ StepsMove
    \/ part = "tools" /\ ToolsMove
    \/ part = "table" /\ TableMove

ServerSpec == ServerInit /\ [][ServerNext]_serverVars
=================================================================================

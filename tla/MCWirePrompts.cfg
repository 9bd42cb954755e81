SPECIFICATION Spec
CONSTANTS
    Conns = {c1, c2}
    Veterans = {}
    Habits = {"hangup"}
    Requests = {}
    ToolCalls = {}
    Tools = {n, b}
    Builtin = {b}
    MaxTurns = 2
    MaxUplink = 1
    Fallible = {}
    NoConn = NoConn
    NoRequest = NoRequest
INVARIANTS
    PromptInOnePlace
    ToolsAreServiceable
SYMMETRY Newcomers
CONSTRAINT OneTurnLessIfSomeoneLeaves
CHECK_DEADLOCK FALSE

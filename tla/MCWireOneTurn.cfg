SPECIFICATION Spec
CONSTANTS
    Conns = {c1, c2}
    Veterans = {c1, c2}
    Habits = {}
    Requests = {}
    ToolCalls = {}
    Tools = {}
    Builtin = {}
    MaxTurns = 2
    MaxUplink = 1
    Fallible = {}
    NoConn = NoConn
    NoRequest = NoRequest
INVARIANTS
    OneTurnAtATime
CHECK_DEADLOCK FALSE

SPECIFICATION FairSpec
CONSTANTS
    Conns = {c1}
    Veterans = {}
    Habits = {"cancel", "hangup", "shutdown", "interrupt"}
    Requests = {r1}
    ToolCalls = {}
    Tools = {}
    Builtin = {}
    MaxTurns = 1
    MaxUplink = 1
    Fallible = {1}
    NoConn = NoConn
    NoRequest = NoRequest
INVARIANTS
    DeafOnlyWhileReplaying
PROPERTIES
    CancelEnds
    ReplayEnds
    StopEnds
CHECK_DEADLOCK FALSE

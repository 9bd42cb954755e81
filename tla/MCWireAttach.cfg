SPECIFICATION Spec
CONSTANTS
    Conns = {c1, c2}
    Veterans = {c1}
    Habits = {"cancel"}
    Requests = {r1}
    ToolCalls = {}
    Tools = {}
    Builtin = {}
    MaxTurns = 1
    MaxUplink = 2
    Fallible = {}
    NoConn = NoConn
    NoRequest = NoRequest
INVARIANTS
    TypeOK
    SnapshotXorStaged
    ParkedIsAnswerable
    ArmedUnlessShelved
CHECK_DEADLOCK FALSE

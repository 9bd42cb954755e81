SPECIFICATION ProcessSpec
CONSTANTS
    Agents = {a1, a2}
    Sessions = {s1, s2}
    Ports = {p1, p2}
    Tasks = {t1}
    Conns = {c1}
    IdleLooks = 1
    a1 = a1
    s1 = s1
    p1 = p1
    NoAgent = NoAgent
    NoSession = NoSession
    NoPort = NoPort
INVARIANTS SleeperIsWoken JoinedIsAsked RefusedLeavesNothing ServedIsListed
PROPERTIES WatchedTaskEnds AttachEnds
CHECK_DEADLOCK FALSE

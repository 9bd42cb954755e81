SPECIFICATION ProcessSpec
CONSTANTS
    Agents = {a1}
    Sessions = {s1}
    Ports = {p1}
    Tasks = {t1}
    Conns = {c1}
    IdleLooks = 1
    a1 = a1
    s1 = s1
    p1 = p1
    NoAgent = NoAgent
    NoSession = NoSession
    NoPort = NoPort
PROPERTIES TaskEnds
CHECK_DEADLOCK FALSE

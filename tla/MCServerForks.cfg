SPECIFICATION ServerSpec
CONSTANTS
    Asks = {a1}
    Actions = {x, y}
    MaxSteps = 2
    NoAsk = NoAsk
    a1 = a1
    w1 = w1
    p1 = p1
    p2 = p2
    Paths = {p1, p2}
    Writers = {w1, w2}
    Readers = {r1}
    MaxWrites = 2
    MaxUndoEntries = 2
    MaxUndoBytes = 1
    Steers = {}
    Forks = {k1}
    MaxRuns = 3
    MaxTurnSteps = 2
    NodeIds = {"begin", "end", "one"}
    NodeLabels = {"begin", "end", "one", "other"}
    EdgeLabels = {"none", "a", "b", "_a_"}
    Replies = {"none", "a", "b"}
    MaxStatements = 0
    MaxFlowMoves = 2
    MaxRalph = 2
    MaxBadReplies = 1
    MaxAttempts = 1
    MaxCalls = 0
    MaxEvents = 0
    EditCalls = {}
    WriteCalls = {}
    f1 = f1
    f2 = f2
    Targets = {f1, f2}
    Outside = {f2}
    FileLines = 0
    MaxLines = 2
    MaxLineLength = 2
    MaxBytes = 3
    Names = {}
    BuiltIn = {}
    Clients = {}
    Servers = {m1}
    NoClient = NoClient
    NoServer = NoServer
    MaxServers = 0
PROPERTY ForkSurfaces
CHECK_DEADLOCK FALSE

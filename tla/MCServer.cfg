SPECIFICATION ServerSpec
CONSTANTS
    Asks = {a1, a2}
    Actions = {x, y}
    MaxSteps = 2
    NoAsk = NoAsk
    a1 = a1
    w1 = w1
    p1 = p1
    p2 = p2
    Paths = {p1, p2}
    Writers = {w1, w2}
    Readers = {r1}
    MaxWrites = 2
    MaxUndoEntries = 2
    MaxUndoBytes = 1
    Steers = {s1, s2}
    Forks = {k1}
    MaxRuns = 3
    MaxTurnSteps = 2
    NodeIds = {"begin", "end", "one"}
    NodeLabels = {"begin", "end", "one", "other"}
    EdgeLabels = {"none", "a", "b", "_a_"}
    Replies = {"none", "a", "b"}
    MaxStatements = 4
    MaxFlowMoves = 2
    MaxRalph = 2
    MaxBadReplies = 1
    MaxAttempts = 2
    MaxCalls = 2
    MaxEvents = 4
    EditCalls = {e1}
    WriteCalls = {e2}
    f1 = f1
    f2 = f2
    Targets = {f1, f2}
    Outside = {f2}
    FileLines = 3
    MaxLines = 2
    MaxLineLength = 2
    MaxBytes = 3
    Names = {b1, n1}
    BuiltIn = {b1}
    Clients = {c1, c2}
    Servers = {m1, m2}
    NoClient = NoClient
    NoServer = NoServer
    MaxServers = 3
INVARIANTS NoRunWithoutConsent RequestInOnePlace
    IndexIsCurrent UndoTakesBack SteersAreHeard ForksAreKept FlowIsSound StepIsWhole
    EditsTouchOnlyTheMatch ReadersMissNothing TurnSeesItsServers
PROPERTY ChangedOnlyAsAllowed
CHECK_DEADLOCK FALSE

SPECIFICATION Spec
CONSTANTS
    Attempts = 1
    MaxTurns = 2
    MaxDials = 2
    Calls = {c1, c2}
    MaxSent = 5
    Saved = {1}
    MaxTabs = 3
    MaxTabIds = 3
    MaxPanes = 2
    MaxDialled = 2
    MaxLinesSaid = 2
    MaxJobs = 2
    Agents = {g1, g2}
    d1 = d1
    d2 = d2
    i1 = i1
    WorkDirs = {d1, d2}
    SessionIds = {i1, i2}
    SubIds = {k1}
    MaxRecords = 1
INVARIANTS ToldThatItChanged
CHECK_DEADLOCK FALSE

SPECIFICATION FairSpec
CONSTANTS
    Conns = {c1, c2}
    MaxFacts = 3
    MaxQueue = 2
PROPERTIES NeverPruned FeedSpec EveryFactArrives
CHECK_DEADLOCK FALSE

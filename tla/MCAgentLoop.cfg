SPECIFICATION BoundedLoop
CONSTANTS
    MaxTurns = 2
    MaxAsks = 2
    MaxTokens = 1
    MaxLate = 1
INVARIANTS FileCatchesUp CallsAreAnswered RewindLands
CHECK_DEADLOCK FALSE

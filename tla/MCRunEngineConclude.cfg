SPECIFICATION Spec
CONSTANTS
    Size = 4
    MaxEdges = 3
    MaxAttempt = 1
    Handles <- MCHandles
    Graphs <- MCGraphs
INVARIANT ConcludesWhenNothingCanMove
CHECK_DEADLOCK FALSE

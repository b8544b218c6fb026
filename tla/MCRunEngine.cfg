SPECIFICATION Spec
CONSTANTS
    Size = 3
    MaxEdges = 6
    MaxAttempt = 2
    Handles <- MCHandles
    Graphs <- MCGraphs
INVARIANTS
    TypeOK
    RecordIsSound
    TickIsSound
    CompletedMeansReached
PROPERTIES
    FinishedIsFinal
CHECK_DEADLOCK FALSE

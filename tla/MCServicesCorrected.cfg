SPECIFICATION MCSpec
CONSTANTS
    ChunkSize = 5
    ChunkOverlap = 2
    SnapWindow = 2
    Space = Space
    Line = Line
    Names = {n1}
    Texts <- MCTexts
    Callers = {c1, c2}
    MaxFailures = 2
    Addresses = {a1, a2}
    Subjects = {s1}
    NoSubject = NoSubject
    MaxHits = 2
    Window = 3
    Retention = 4
    SweepEvery = 2
    TicksPerSecond = 2
    MaxClock = 5
    Tools = {t1, t2, t3}
    MaxToolRounds = 2
    MaxBatch = 2
    MaxInvocations = 2
INVARIANT NextIngestionCorrects
CHECK_DEADLOCK FALSE

SPECIFICATION MCSpec
CONSTANTS
    Workflows = {w1}
    Names = {n1}
    Clients = {c1}
    Publishers = {c1}
    VersionIds = {1, 2}
    MaxRows = 3
    MaxTime = 2
    TriggersUsed = {"manual", "webhook", "schedule"}
    Operations <- Editing
    NoName = NoName
    Dispatchers = {d1, d2}
    Callers = {r1, r2}
    MaxRuns = 3
    MaxFailures = 1
INVARIANTS
    TypeOK
    RunsPinPublished
    StartsWhatWasAsked
PROPERTIES
    OccurrencesAdvance
    DueIsFired
CHECK_DEADLOCK FALSE

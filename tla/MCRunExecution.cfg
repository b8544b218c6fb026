SPECIFICATION FairSpec
CONSTANTS
    TheRun = r1
    Runs = {r1}
    Graph <- BranchGraph
    Emits <- BranchEmits
    Handles <- MCHandles
    Workers = {w1, w2}
    Resumers = {}
    Advancers = {}
    TaskIds = {1, 2}
    TTL = 2
    Interval = 1
    MaxDelay = 0
    Timely = TRUE
    Requeues = FALSE
    NoWorker = NoWorker
    NoRun = NoRun
    NoTask = NoTask
    MayFail = {2}
    MayRaise = {1, 2}
    Waits = {3}
    AtMostOnce = {2}
    MaxAttempt = 3
    MaxRaises = 1
    MaxTokens = 2
INVARIANTS
    TypeOK
    WithinCycleLimit
PROPERTIES
    RunSettles
    RecoversOnlyTheDead
CHECK_DEADLOCK FALSE

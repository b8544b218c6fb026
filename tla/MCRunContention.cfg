SPECIFICATION CastSpec
CONSTANTS
    TheRun = r1
    Runs = {r1}
    Graph <- ForkGraph
    Emits <- ForkEmits
    Handles <- MCHandles
    Workers = {w1, w2}
    Resumers = {c1, c2}
    Advancers = {a1}
    TaskIds = {1, 2}
    TTL = 2
    Interval = 1
    MaxDelay = 0
    Timely = FALSE
    Requeues = FALSE
    NoWorker = NoWorker
    NoRun = NoRun
    NoTask = NoTask
    MayFail = {}
    MayRaise = {2, 3}
    Waits = {1}
    AtMostOnce = {2, 3}
    MaxAttempt = 2
    MaxRaises = 2
    MaxTokens = 2
INVARIANTS
    CallsAreNotRepeated
    TokensNameSuspensions
    RunAndQueueAgree
PROPERTIES
    ImplementsEngine
    NothingReleasedUnfinished
SYMMETRY Symmetry
CHECK_DEADLOCK FALSE

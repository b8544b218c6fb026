SPECIFICATION OrderFairSpec
CONSTANTS
    Runs = {r1, r2, r3}
    Workers = {w1, w2}
    TaskIds = {1, 2, 3}
    TTL = 2
    Interval = 1
    MaxDelay = 0
    Timely = TRUE
    NoWorker = NoWorker
    NoRun = NoRun
    NoTask = NoTask
    Requeues = FALSE
INVARIANTS
    TimelyKeepsLease
PROPERTIES
    TasksAreTaken

SPECIFICATION QueueSpec
CONSTANTS
    Runs = {r1, r2}
    Workers = {w1, w2, w3}
    TaskIds = {1, 2, 3, 4}
    TTL = 2
    Interval = 1
    MaxDelay = 1
    Timely = FALSE
    NoWorker = NoWorker
    NoRun = NoRun
    NoTask = NoTask
    Requeues = TRUE
INVARIANTS
    OneOutstandingPerRun
    LeasesAreSound
PROPERTIES
    LiveLeaseIsRespected
SYMMETRY Symmetry

SPECIFICATION MCSpec
CONSTANTS
    Workflows = {w1, w2}
    Names = {n1, n2}
    Clients = {c1, c2}
    Publishers = {c1, c2}
    VersionIds = {1, 2, 3}
    MaxRows = 4
    MaxTime = 1
    Deep = 4
    TriggersUsed = {"none", "manual", "webhook", "schedule"}
    Operations <- AllOperations
    NoName = NoName
INVARIANTS
    RowsAgree
    SeriallySound
PROPERTY SeriallyPermanent
SYMMETRY Symmetry
CHECK_DEADLOCK FALSE

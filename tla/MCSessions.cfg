SPECIFICATION MCSpec
CONSTANTS
    Emails = {e1, e2, e3}
    OrganizationNames = {o1, o2}
    Clients = {c1, c2}
    MaxTokens = 4
    MaxGrants = 2
    SlugAttempts = 1
    Rehash = TRUE
INVARIANTS
    TypeOK
    SessionsAreSound
    SeriallyLockedOut
PROPERTIES
    LinksAreSound
    RefusedOnlyByRivals
SYMMETRY Symmetry
CHECK_DEADLOCK FALSE

SPECIFICATION Spec
CONSTANTS
    Calls = {c1, c2, c3}
    Identities = {x, y}
    Pages = 2
    RequestTimeout = 1
    Lease = 6
    MaxTime = 9
    MaxChecks = 3
    MaxRestarts = 2
    None = None
    c1 = c1
    c2 = c2
    c3 = c3
    x = x
    y = y
SYMMETRY Symmetry
INVARIANTS
    TypeOK
    DuplicatesFollowFailures
PROPERTIES
    ReportsAreRemembered
CHECK_DEADLOCK FALSE

\* The request budget below STUCK_THRESHOLD (the Compose default), and
\* convergence once the environment stops failing.
SPECIFICATION FairSpec
CONSTANTS
    x1 = x1
    x2 = x2
    s1 = s1
    Xorbs = {x1}
    Shards = {s1}
    Refs <- RefsOf
    Handlers = {h1}
    ObjIds = {o1, o2, o3}
    Seeded = {}
    MaxPinAttempts = 3
    BatchLimit = 1
    BudgetBelowThreshold = TRUE
    NULL = NULL
INVARIANTS
    PinningIsSwept
PROPERTIES
    ReconcilerNeverDemotes
    EveryRowSettles
    DurableXorbReachesSia

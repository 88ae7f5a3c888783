\* A 200 without bytes.
SPECIFICATION Spec
CONSTANTS
    x1 = x1
    x2 = x2
    s1 = s1
    Xorbs = {x1}
    Shards = {s1}
    Refs <- RefsOf
    Handlers = {h1}
    ObjIds = {o1, o2, o3}
    Seeded = {}
    MaxPinAttempts = 5
    BatchLimit = 1
    BudgetBelowThreshold = TRUE
    NULL = NULL
INVARIANTS
    AckedXorbIsDurable

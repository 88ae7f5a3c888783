\* Safety, for every relation of the request budget to STUCK_THRESHOLD: a xorb,
\* the shard that references it, another xorb found 'uploading' at boot, two
\* concurrent requests, a batch smaller than the set of stuck rows.
SPECIFICATION Spec
CONSTANTS
    x1 = x1
    x2 = x2
    s1 = s1
    Xorbs = {x1, x2}
    Shards = {s1}
    Refs <- RefsOf
    Handlers = {h1, h2}
    ObjIds = {o1, o2, o3}
    Seeded = {x2}
    MaxPinAttempts = 2
    BatchLimit = 1
    BudgetBelowThreshold = FALSE
    NULL = NULL
SYMMETRY Symmetry
INVARIANTS
    TypeOK
    PinnedNamesItsObject
    AcceptedShardIsDurable
    OrphanedMeansExhausted
    OutageNeverOrphans
PROPERTIES
    ObjectIdIsKept
    ImplementsObjectLife

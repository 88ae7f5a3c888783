\* Two racing writers and a reader on one repository.
SPECIFICATION FairSpec
CONSTANTS
    A = A
    B = B
    weights = weights
    card = card
    Names = {n1}
    Requests = {r1, r2}
    Clients = {c1}
    Contents = {A, B}
    Large = {A}
    Paths = {weights, card}
    Payloads <- AllPayloads
    main = main
    MaxCommits = 2
    NULL = NULL
INVARIANTS
    TypeOK
    HeadIsLastCommit
    ParentsAreOlder
    CommittedFilesAreStored
    ResolveIsConsistent
PROPERTIES
    EveryRequestEnds

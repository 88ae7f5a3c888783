\* Two commits that read the same parent.
SPECIFICATION Spec
CONSTANTS
    A = A
    B = B
    weights = weights
    card = card
    Names = {n1}
    Requests = {r1, r2}
    Clients = {c1}
    Contents = {A, B}
    Large = {A}
    Paths = {weights, card}
    Payloads <- ClientPayloads
    main = main
    MaxCommits = 2
    NULL = NULL
INVARIANTS
    HistoryIsAChain

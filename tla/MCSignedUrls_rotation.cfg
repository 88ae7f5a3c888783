\* Two rotations, two processes of each kind, two clients.
SPECIFICATION FairSpec
CONSTANTS
    Minters = {m1, m2}
    Gateways = {g1, g2}
    Clients = {c1, c2}
    Ttl = 2
    MaxKey = 3
    NULL = NULL
INVARIANTS
    TypeOK
    OrphanedOnlyByOldGateway
PROPERTIES
    EveryClientServed

\* A cache that holds one xorb of two, two concurrent requests, a disk that
\* may fail and downloads that may never end.
SPECIFICATION FairSpec
CONSTANTS
    Hashes = {h1, h2}
    Requests = {r1, r2}
    Size <- UnitSize
    MaxBytes = 1
    DiskFails = TRUE
    NULL = NULL
INVARIANTS
    TypeOK
    AccountingIsExact
    IndexedFileIsGood
    ServedBytesAreVerified
    OneFetchPerHash
PROPERTIES
    NoRefetchOfCached
    EveryRequestAnswered

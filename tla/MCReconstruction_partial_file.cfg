\* A file with one xorb pinned and one not.
SPECIFICATION Spec
CONSTANTS
    a = a
    b = b
    d = d
    x1 = x1
    x2 = x2
    x3 = x3
    f1 = f1
    f2 = f2
    f3 = f3
    s1 = s1
    s2 = s2
    s3 = s3
    XorbChunks <- ChunksOf
    FileChunks <- ContentOf
    Stored <- StoredLen
    Unpacked <- UnpackedLen
    Unindexed = {x3}
    Listed <- ListedIn
    Segments <- SegmentsOf
    Starts = {0, 1, 3}
    Specs <- Headers
    Clients = {c1}
    U64 = 64
    NULL = NULL
INVARIANT
    AnswerIsWhole

\* Two racing requests, two sessions, a nonce, two api_keys rows and a token.
SPECIFICATION Spec
CONSTANTS
    Processes = {p1}
    Requests = {r1, r2}
    Keys = {k1, k2}
    Sessions = {s1, s2}
    Nonces = {n1}
    Tokens = {t1}
    Member = Member
    Admin = Admin
    Guest = Guest
    CacheCap = 1
    KeyCacheTtl = 1
    SessionTtl = 1
    NonceTtl = 1
    TokenTtl = 0
    MaxFetch = 1
    NULL = NULL
SYMMETRY Symmetry
CONSTRAINT Scenes
INVARIANTS
    TypeOK
    RevokedKeyFades
    OneSessionPerNonce
    UploadNeedsUpload
PROPERTIES
    SessionsStayDead

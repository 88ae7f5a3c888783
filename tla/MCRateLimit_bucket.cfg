\* The rate of the upload and download classes (100 per minute) with a small
\* capacity; time in steps that leave fractions of a milli-token, readings that
\* arrive late by 300 milliseconds, and an expiry that happens.
SPECIFICATION Spec
CONSTANTS
    Capacity = 2
    Num = 100
    Den = 60
    Expiry = 1200
    Ticks = {199, 401}
    Lags = {0, 300}
    MaxNow = 2000
    MaxSlip = 600
    NULL = NULL
INVARIANTS
    TypeOK
    GrantsAreBounded
    RetryAfterIsEnough

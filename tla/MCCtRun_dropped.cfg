CONSTANTS
    c1 = c1
    c2 = c2
    c3 = c3
    c4 = c4
    Malformed = Malformed
    NoCert    = NoCert
    Log       <- MCLog
    Sampled   <- MCSampled
    Start     = 1
    Count     = 6
    PageSize  = 3
    MaxRuns   = 1
    Retries = 2
    Base = 1
    Cap = 3
    RetryAfters = {}
SPECIFICATION RunSpec
INVARIANT
    DropIsRetried
CHECK_DEADLOCK FALSE

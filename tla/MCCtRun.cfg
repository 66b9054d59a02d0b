CONSTANTS
    c1 = c1
    c2 = c2
    c3 = c3
    c4 = c4
    Malformed = Malformed
    NoCert    = NoCert
    Log       <- MCLog
    Sampled   <- MCSampled
    Start     = 1
    Count     = 6
    PageSize  = 3
    MaxRuns   = 2
    Retries = 3
    Base = 1
    Cap = 3
    RetryAfters = {0, 7}
SPECIFICATION FairSpec
INVARIANTS
    RetriesAsPromised
    DirectoryIsCorpus
    ProvenanceAccounts
PROPERTIES
    PagesAreAtomic
    RunEnds
CHECK_DEADLOCK FALSE

CONSTANTS
    None     = None
    NoUri    = None
    NoDomain = None
    NoCap    = NoCap
    NoLimit  = NoLimit
    PslLines   <- MCPslLines
    Percentile <- MCPercentile
    Runs    <- MCRuns
    Raw     <- MCRaw
    Normal  <- MCNormal
    Bucket  <- MCBucket
    Domains <- MCDomains
    Digest  <- MCDigest
    ChunkSize = 1
    Leftovers <- MCLeftovers
SPECIFICATION Spec
INVARIANTS
    SourceYieldsItsLinks
    KeepsFirstOfEachDomain
    OrderedOutput
CHECK_DEADLOCK FALSE

CONSTANTS
    Jobs  <- MCJobs
    Score <- MCScore
SPECIFICATION SampleSpec
INVARIANTS
    QuotaRule
    IndependentOfOrder
    ManifestMatchesFiles
CHECK_DEADLOCK FALSE

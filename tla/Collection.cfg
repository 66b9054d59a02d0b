CONSTANTS
    MaxRuns = 3
    MaxShards = 3
SPECIFICATION Spec
INVARIANTS
    DocumentsOfOneRun
    PublishedTogether
    NeverUnfounded
CHECK_DEADLOCK FALSE

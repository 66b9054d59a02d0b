CONSTANTS
    MaxSample = 2
    MaxOpen = 2
    Standards <- MCStandards
SPECIFICATION Spec
INVARIANTS
    EvidenceRestores
PROPERTY
    NothingLost
CHECK_DEADLOCK FALSE

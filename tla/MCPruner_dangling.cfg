CONSTANTS
    Jobs <- MCJobs
    Grammars <- MCGrammarSet
    MaxSample = 2
    Thresholds <- MCThresholds
SPECIFICATION Spec
INVARIANTS
    NoDanglingReferences
CHECK_DEADLOCK FALSE

CONSTANTS
    Grammars <- MCGrammarSet
    Thresholds <- MCThresholds
    MaxSample = 2
    Jobs <- MCJobs
SPECIFICATION FairSpec
INVARIANTS
    EmittedTextMeansKept
    KeptReferenceHasKeptRule
    SubgrammarKept
    OrderIndependent
    RequiredKept
    EmittedGrammarMeansKept
    ValidatorAcceptsMvs
PROPERTY
    Terminates
CHECK_DEADLOCK FALSE

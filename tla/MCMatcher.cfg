CONSTANTS
    Asts <- MCAsts
    Inputs <- MCInputs
    MaxDepth = 13
SPECIFICATION FairSpec
INVARIANTS
    DepthIsOpenFrames
    NothingToUndo
    AcceptsTheLanguage
    HitsAreDerivation
    VerdictIsParse
PROPERTY
    Terminates
CHECK_DEADLOCK FALSE

CONSTANTS
    Asts   <- MCAsts
    Tlvs   <- MCTlvs
    Inputs <- MCInputs
    MaxDepth = 7
    TagBits = 16
    NoTlv = NoTlv
SPECIFICATION FairSpec
INVARIANTS
    BytesHoldTheirValues
    DepthIsOpenCalls
    PlainCreditsClosed
    CreditsPrecisely
    KeepsItsPlace
PROPERTY
    Returns
CHECK_DEADLOCK FALSE

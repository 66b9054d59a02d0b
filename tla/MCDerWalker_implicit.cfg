CONSTANTS
    Asts   <- MCImplicit
    Tlvs   <- MCTlvs
    Inputs <- MCInputs
    MaxDepth = 40
    TagBits = 16
    NoTlv = NoTlv
SPECIFICATION Spec
INVARIANTS
    ReferenceHasRule
CHECK_DEADLOCK FALSE

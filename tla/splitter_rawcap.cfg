SPECIFICATION Spec
CONSTANTS
    Inputs <- MCInputs
    N = 12
    Lengths = {1, 3}
    MaxLValue = 2
    MaxMValue = 3
    MatchesPerBlock = 5
    MaxBlockRawBytes = 7
    MaxBlockLiterals = 6
INVARIANT NoCutInsideMatch
CHECK_DEADLOCK FALSE

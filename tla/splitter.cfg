SPECIFICATION Spec
CONSTANTS
    Inputs <- MCInputs
    N = 12
    Lengths = {1, 3}
    MaxLValue = 2
    MaxMValue = 3
    MatchesPerBlock = 5
    MaxBlockRawBytes = 9
    MaxBlockLiterals = 6
INVARIANTS
    TypeOK
    NoCutInsideMatch
    BlocksPartitionInput
    LiteralCap
    RecordsOfMatchesWithinBudget
PROPERTY ImplementsPartition
CHECK_DEADLOCK FALSE

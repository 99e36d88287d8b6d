SPECIFICATION Spec
CONSTANTS
    PrecisionBits = 30
    ByteBits = 2
    WordBytes = 6
    Lanes = 2
    LiteralsPerBlock = 206
    MatchesPerBlock = 5
    NStates <- MCNStates
    Extra <- MCExtra
    Base <- MCBase
    HeaderTail <- MCHeaderTail
    Queues <- MCQueues
INVARIANTS
    StatesInTables
    Restored
    ConsumedExactly
    ShortOnlyAtFront
    StatesAllOwned
    HeaderCanonical
CHECK_DEADLOCK FALSE

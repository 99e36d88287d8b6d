SPECIFICATION Spec
CONSTANTS
    MagicSize = 2
    StoredHeader = 3
    LzvnHeader = 4
    V1HeaderSize = 6
    V2HeaderMin = 4
    Expansion = 4
    MaxRun = 1
    MatchesPerBlock = 5
    FieldSize = 64
    LzvnThreshold = 4
    BlockSizes = {5, 6}
    CodedSizes = {0, 1, 2}
    Sources <- MCSources
    MaxOuts <- MCMaxOuts
    UintSize = 64
INVARIANTS
    ReadsInside
    AllocationBounded
    CompressedAccepted
    CutYieldsPrefix
PROPERTY ImplementsBoundedOutput
CHECK_DEADLOCK FALSE

SPECIFICATION CodecSpec
CONSTANTS
    Inputs <- MCInputs
    Frames <- NoFrames
    Bytes <- MCBytes
    Zero = 6
    N = 6
    Lengths = {1, 2, 3}
    Distances = {1, 2, 4}
    Lanes = 4
    Over = 2
    MaxLValue = 2
    MaxMValue = 3
    LiteralsPerBlock = 8
    RecordsPerBlock = 3
    MaxOut = 6
INVARIANTS
    DecodedIsSource
    LiteralsInStep
    DistancesAgree
PROPERTY Delivered
CHECK_DEADLOCK FALSE

SPECIFICATION Spec
CONSTANTS
    Frames <- MCFrames
    Bytes <- MCBytes
    Zero = 0
    Lanes = 2
    Over = 2
    MaxMValue = 3
    LiteralsPerBlock = 4
    RecordsPerBlock = 2
    MaxOut = 6
INVARIANTS
    TypeOK
    SlicesStayInBuffer
    ProducedWithinBound
    OutputWithinLimit
PROPERTY PrefixKept
CHECK_DEADLOCK FALSE

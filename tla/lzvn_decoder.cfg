SPECIFICATION DecoderSpec
CONSTANTS
    Payloads <- MCPayloads
    Rooms = {4, 300}
    Expansion = 136
    MaxItems = 4
    LargeBase = 16
    LenByte = 256
    ShortDistance = 1536
    LongDistance = 16384
INVARIANTS
    DecoderTypeOK
    StaysInBuffers
    PreviousDistanceInReach
PROPERTIES
    OpcodeExpandsWithin
    DecodingEnds
CHECK_DEADLOCK FALSE

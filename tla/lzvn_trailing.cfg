SPECIFICATION Spec
CONSTANTS
    Sources <- MCSources
    Hash <- MCHash
    Payloads <- NoPayloads
    Rooms = {}
    Expansion = 136
    Alphabet = {0, 1}
    Lengths = {3, 12, 13}
    LargeBase = 5
    LenByte = 2
    ShortDistance = 4
    LongDistance = 6
    Ways = 2
    MaxBacklog = 6
    MinMargin = 4
    MinSrcSize = 4
    MaxDistance = 6
    FarDistance = 5
INVARIANT TrailingRunWithinCap
CHECK_DEADLOCK FALSE

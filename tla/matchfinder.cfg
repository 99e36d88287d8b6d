SPECIFICATION Spec
CONSTANTS
    Sources <- MCSources
    Hash <- MCHash
    Alphabet = {0, 1}
    Lengths = {3, 5, 13}
    Ways = 2
    GoodMatch = 6
    MaxMValue = 7
    MaxDValue = 7
    Margin = 4
INVARIANTS
    TypeOK
    MatchesDisjoint
    MatchesCopy
    PendingInReach
CHECK_DEADLOCK FALSE

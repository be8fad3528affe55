SPECIFICATION DerivationsSpec
CONSTANTS
    P = 11
    Q = 5
    G = 3
    Nus = {0, 1, 2, 3, 4}
    MaxIndex = 12
CHECK_DEADLOCK FALSE
INVARIANTS
    KeySound
    LimitRight
    FirstSafePrimeGroup
    MembersInOrder
PROPERTY SearchEnds

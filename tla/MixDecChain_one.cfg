SPECIFICATION Spec
CONSTANTS
    N = 4
    x = x
    y = y
    z = z
    One = one
    Msg = {x, y, z, one}
    Box = {1, 2}
    Datasets <- OneBoxDatasets
CHECK_DEADLOCK FALSE
INVARIANTS
    VerdictSound
    PrevHoldsVotes
    HonestAccepted
PROPERTIES
    KeepsPromise

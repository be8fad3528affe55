SPECIFICATION Spec
CONSTANTS
    N = 2
    x = x
    y = y
    z = z
    One = one
    Msg = {x, y, z, one}
    Box = {1, 2}
    Datasets <- TwoBoxDatasets
CHECK_DEADLOCK FALSE
INVARIANTS
    LoopVerdict
    ChainInv

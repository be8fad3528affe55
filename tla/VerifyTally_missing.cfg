SPECIFICATION TallySpec
CONSTANTS
    N = 4
    x = x
    y = y
    z = z
    one = one
    One = one
    Msg = {x, y, z, one}
    Valid = {x, y}
    Box = {1, 2}
    Datasets <- TallyDatasets
CHECK_DEADLOCK FALSE
INVARIANT MissingFilesReported

SPECIFICATION Spec
CONSTANTS
    P = 383
    Q = 191
    Base = 3
    MaxLength = 2
    Inputs <- AllInputs
    Words <- MCWords
CHECK_DEADLOCK FALSE
INVARIANTS
    DecodedSound
    EnoughWriteIns
    RoundTrip

SPECIFICATION Spec
CONSTANTS
    Directories <- MCDirectories
    Evidence <- MCEvidence
    Originals <- MCOriginals
    EndOfTime = 2
CHECK_DEADLOCK FALSE
INVARIANTS
    AcceptedAsSigned
    EveryCheckReported
    HonestSignaturesAccepted
PROPERTY ExpiredRefused

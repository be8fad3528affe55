SPECIFICATION Spec
CONSTANTS
    Stores <- MCStores
    BallotBoxes <- MCBallotBoxes
    CardSets <- MCCardSets
    Occurs <- MCOccurs
    MCLayouts = {"fixture", "fixtureKeys", "fixtureKeysList"}
    MCFaults = FALSE
CHECK_DEADLOCK FALSE
INVARIANT KeyListAccepted

SPECIFICATION Spec
CONSTANTS
    Stores <- MCStores
    BallotBoxes <- MCBallotBoxes
    CardSets <- MCCardSets
    Occurs <- MCOccurs
    MCLayouts = {"exchange", "plain", "fixture", "fixtureKeys", "mixed", "beside"}
    MCFaults = TRUE
CHECK_DEADLOCK FALSE
INVARIANTS
    NoSecondCopy
    PathsTruthful
    OneTree
    HonestDatasetAccepted

SPECIFICATION ContentsSpec
CONSTANTS
    Configurations <- MCConfigurations
    DomainSets <- MCDomains
CHECK_DEADLOCK FALSE
INVARIANTS
    TriplesRight
    VotesAreInFile
    HonestFileAccepted

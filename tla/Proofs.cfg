SPECIFICATION ProofsSpec
CONSTANTS
    Q = 7
    Nu = 3
    Pk <- MCPk
    Challenges <- MCChallenges
    Shuffles <- MCShuffles
    Argument <- MCArgument
CHECK_DEADLOCK FALSE
INVARIANTS
    Sound
    HonestProversAccepted
    VerdictByAlgebra
    OfOneStatement
    HashesApart

SPECIFICATION FairSpec
CONSTANTS
    MaxRounds = 2
    Boards <- MCBoards
    MaxRepeats = 1
    MaxRespawns = 1
    MaxFaults = 1
INVARIANTS
    TextUsedOnce
    TextOfThisRound
    TextComesThrough
PROPERTY
    TextArrives
\* Both cars stop after their last round.
CHECK_DEADLOCK FALSE

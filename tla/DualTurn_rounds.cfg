SPECIFICATION FairSpec
CONSTANTS
    MaxRounds = 3
    PromptCallbacks = TRUE
INVARIANTS
    TypeOK
    StretchExclusive
    OneTurn
PROPERTIES
    BothFinish
    StrictTurns
\* Both nodes shut down after their last round: the system stops.
CHECK_DEADLOCK FALSE

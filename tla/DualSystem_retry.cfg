SPECIFICATION FairSystemSpec
CONSTANTS
    MaxRounds = 1
    PromptCallbacks = TRUE
    MaxSeq = 1
    SendDuration = 4
    ConnectTimeout = 2
    RetryInterval = 1
    MaxConnections = 1
    MaxFailures = 1
    MaxRestarts = 0
    NavStops = FALSE
INVARIANT
    DoneIsOnItsWay
PROPERTY
    RoundsComplete
\* Both nodes shut down after their last round: the system stops.
CHECK_DEADLOCK FALSE

SPECIFICATION SystemSpec
CONSTANTS
    MaxRounds = 1
    PromptCallbacks = TRUE
    MaxSeq = 1
    SendDuration = 0
    ConnectTimeout = 0
    RetryInterval = 1
    MaxConnections = 2
    MaxFailures = 0
    MaxRestarts = 1
    NavStops = TRUE
PROPERTY
    DiscardsOnlyHandled
\* Both nodes shut down after their last round: the system stops.
CHECK_DEADLOCK FALSE

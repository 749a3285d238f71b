SPECIFICATION Spec
CONSTANTS
    MaxRuns = 1
    MaxResults = 1
    MaxFaults = 1
    SignalDuringExport = TRUE
PROPERTY
    ShutdownEnds
\* After the last run nothing happens any more.
CHECK_DEADLOCK FALSE

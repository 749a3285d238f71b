SPECIFICATION Spec
CONSTANTS
    MaxRuns = 2
    MaxResults = 3
    MaxFaults = 2
    SignalDuringExport = FALSE
INVARIANTS
    WorkbookIsTheRun
    NothingMissing
    ShutdownMakesGood
PROPERTY
    ShutdownEnds
\* After the last run nothing happens any more.
CHECK_DEADLOCK FALSE

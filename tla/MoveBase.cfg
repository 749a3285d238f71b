SPECIFICATION FairSpec
CONSTANTS
    MaxGoals = 2
    Via = {1}
    Behaviors = 1
    MaxFaults = 2
INVARIANTS
    IdleIsReset
    RecoversStandingStill
    SucceedsThere
PROPERTIES
    ResultsAreFinal
    GoalsEnd
\* After the last goal nothing happens any more.
CHECK_DEADLOCK FALSE

SPECIFICATION Spec
CONSTANTS
    MaxGoals = 2
    Via = {1}
    Behaviors = 1
    MaxFaults = 0
INVARIANT
    SucceedsOnlyThere
\* After the last goal nothing happens any more.
CHECK_DEADLOCK FALSE

SPECIFICATION FairSpec
CONSTANTS
    MaxEnvironments = 3
INVARIANTS
    OneEnvironment
    ReadyIsCurrent
    StartsThisEnvironment
    StartedOnce
PROPERTY
    ActionEnds

SPECIFICATION FairSpec
CONSTANTS
    MaxVisits = 3
    StableFrames = 2
    Window = 2
    MaxPoor = 2
    MaxFaults = 2
INVARIANTS
    ReplyIsToTheRequest
PROPERTIES
    AnswersOnce
    VisitIsAnswered
\* After the last visit nothing happens any more.
CHECK_DEADLOCK FALSE

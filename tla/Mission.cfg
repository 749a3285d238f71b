SPECIFICATION FairSpec
CONSTANTS
    Queues <- MCQueues
    StableFrames = 2
    MaxMisreads = 2
    MaxVisionRestarts = 1
    SlowAlert = TRUE
    SlowDetection = TRUE
INVARIANTS
    BatchFollowed
    TaskAsShown
    StopsExactlyAtBoards
    TaskOfThisStop
    NeverWaitsInVain
PROPERTIES
    OldLabelsAreDropped
    DeliversInOrder
    KeepsDelivering
\* The node shuts down after a failed drive or a timeout.
CHECK_DEADLOCK FALSE

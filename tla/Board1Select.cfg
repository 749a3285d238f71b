SPECIFICATION Spec
INVARIANTS
    QueueIsAccepted
    QueueIsTheBoard
    PeerTakesNextTask
\* The loop ends when nothing is left to select.
CHECK_DEADLOCK FALSE

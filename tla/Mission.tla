------------------------------- MODULE Mission -------------------------------
(***************************************************************************)
(* The mission of a single car: its navigation node and its vision node,   *)
(* which talk over the topics nav_state, cam_return and board2_return and  *)
(* share nothing else.                                                     *)
(*                                                                         *)
(* Timing that the code relies on is stated in two places.  Message        *)
(* delivery and the steps of the vision node that do not wait for anything *)
(* take milliseconds: they are over when a drive ends.  The alert for an   *)
(* invalid code (up to 8 s) and the detection on the second board (up to   *)
(* 10 s) are slow: the alert may outlast the back-off and the few          *)
(* decimetres back to the first board (SlowAlert); the detection may       *)
(* outlast any drive, but, unless SlowDetection, not the whole round that  *)
(* takes the car to the second board again.  Callbacks, deadlines and the  *)
(* vision loop interleave freely with everything else the navigation node  *)
(* does.                                                                   *)
(***************************************************************************)
EXTENDS Navigation, Vision

CONSTANTS
    SlowAlert,           \* TRUE: the alert may outlast a short drive
    SlowDetection        \* TRUE: a detection may outlast a whole round

ASSUME MissionAssumption == SlowAlert \in BOOLEAN /\ SlowDetection \in BOOLEAN

mission_vars == <<topics, nav_vars, vision_vars>>

Init == TopicsInit /\ NavigationInit /\ VisionInit

-----------------------------------------------------------------------------

SettledForLongDrive ==
    /\ NothingOnItsWay /\ callback = "over"
    /\ loop \in {"idle"} \union
            IF SlowDetection \/ pc # "to_board2" THEN {"board2"} ELSE {}

SettledForShortDrive ==
    /\ NothingOnItsWay /\ callback = "over"
    /\ loop \in {"idle"} \union IF SlowAlert THEN {"alert"} ELSE {}

\* Drives that end; what the camera saw before gets older (see Topics).  The
\* first board may show other tasks when the car has been home.
LongDrive ==
    /\ SettledForLongDrive
    /\ LongDriveEnds
    /\ IF pc' \in {"at_board1", "at_board2"}
       THEN FramesAge
       ELSE UNCHANGED <<frame, board1_history>>
    /\ IF pc = "homing" THEN board' \in Queues ELSE UNCHANGED board
    /\ UNCHANGED <<current_nav_state, callback, board1_published,
                   board1_error_announced, board2_published, loop, same_visit,
                   misreads, vision_restarts>>

ShortDrive ==
    /\ SettledForShortDrive
    /\ ShortDriveEnds
    /\ UNCHANGED vision_vars

NavigationMain ==
    \/ LongDrive
    \/ ShortDrive
    \/ OtherMainSteps /\ UNCHANGED vision_vars

NavigationCallbacks ==
    /\ DetectBoard1Result \/ DetectBoard2Result
    /\ UNCHANGED vision_vars

NavigationStops == (Stop \/ Board1Timeout) /\ UNCHANGED vision_vars

\* The navigation node is not respawned: when it has stopped the mission is
\* over, and what the vision node does then is left out.
VisionLoop == up /\ MainLoop /\ UNCHANGED nav_vars

VisionCallback == up /\ (NavStateCb \/ StartVisit) /\ UNCHANGED nav_vars

VisionRespawn == up /\ VisionRestart /\ UNCHANGED nav_vars

Next ==
    \/ NavigationMain
    \/ NavigationCallbacks
    \/ DeadlinePasses /\ UNCHANGED vision_vars
    \/ NavigationStops
    \/ VisionLoop
    \/ VisionCallback
    \/ VisionRespawn

Spec == Init /\ [][Next]_mission_vars

\* Threads run, drives end, messages are delivered and the deadline of the
\* second board passes.  Misreads and respawns are bounded, so that in the
\* end the camera shows the board; nothing obliges the node to stop.
FairSpec ==
    /\ Spec
    /\ WF_mission_vars(NavigationMain)
    /\ WF_mission_vars(DetectBoard1Result /\ UNCHANGED vision_vars)
    /\ WF_mission_vars(DetectBoard2Result /\ UNCHANGED vision_vars)
    /\ WF_mission_vars(DeadlinePasses /\ UNCHANGED vision_vars)
    /\ WF_mission_vars(VisionLoop)
    /\ WF_mission_vars(VisionCallback)

-----------------------------------------------------------------------------
(* Properties.                                                             *)

TypeOK == NavigationTypeOK /\ VisionTypeOK

Executing == count \in GO_TO_PICKUP_WINDOWS .. GO_TO_LAB_WINDOW

\* What the car executes, and what it has cached, is the queue of the last
\* recognition less the tasks already delivered, in the order of the queue:
\* through recoveries, repeated results and the way home no task is lost,
\* repeated or taken from another recognition.
BatchFollowed ==
    Executing =>
        /\ deliveries < Len(accepted.queue)
        /\ <<task>> \o pending_board1_tasks =
                SubSeq(accepted.queue, deliveries + 1, Len(accepted.queue))

\* The car has stopped at the first board, or is on its way back to it.
AtStop == pc \in {"at_board1", "reversing", "renavigate", "to_board1_again"}

\* What is left to deliver of the last recognition.
TasksLeft ==
    IF Executing \/ (AtStop /\ board1_received)
    THEN <<task>> \o pending_board1_tasks
    ELSE pending_board1_tasks

\* What was decided at the second board, for the delivery that follows.
Verdict ==
    IF count \in BOARD2_RECOGNIZING .. GO_TO_LAB_WINDOW /\ board2_received
    THEN board2_result ELSE "none"

CR == INSTANCE Courier WITH
        tasks <- TasksLeft,
        delivered <- deliveries,
        load <- fetched,
        verdict <- Verdict

\* Whatever the two nodes tell each other, and however long it takes, the car
\* does nothing but read, fetch, decide and deliver as Courier promises.
DeliversInOrder == CR!Spec

\* A task accepted during a stop at the first board is the one the stop ends
\* with, whatever the vision node sends during back-off and recovery.
FirstTaskIsKept ==
    [][ /\ board1_received /\ board1_received'
        /\ pc \in {"at_board1", "reversing", "renavigate", "to_board1_again"}
        => UNCHANGED <<task, pending_board1_tasks>> ]_mission_vars

\* The vision node reads the first board until it has a queue to publish; or
\* has yet to be told that the car is there, or to begin anew after that.
WillRead ==
    /\ loop # "board1_flag"
    /\ \/ /\ nav_state = <<>> /\ current_nav_state = BOARD1_RECOGNIZING
          /\ ~board1_published
       \/ /\ nav_state = <<BOARD1_RECOGNIZING>>
          /\ current_nav_state # BOARD1_RECOGNIZING
       \/ /\ nav_state = <<>>
          /\ callback \in {"at_board1", "board1_cleared"}

\* A car that waits at the first board does not wait in vain: a queue is on
\* its way, or the vision node will read one, though it publishes once per
\* entry only and what comes outside state 10 is dropped.
NeverWaitsInVain ==
    up /\ count = BOARD1_RECOGNIZING /\ ~board1_received =>
        cam_return # <<>> \/ WillRead

\* A load is delivered with samples from exactly the windows of its task, to
\* its laboratory window; windows visited for the last load do not count.
LoadIsComplete ==
    count \in GO_TO_BOARD2 .. GO_TO_LAB_WINDOW => fetched = task.windows

\* A detection that took longer than the round is dropped when the car is at
\* the second board again: its label passes the check only in the instant
\* between the two assignments that nav_state_cb makes for state and visit.
OldLabelsAreDropped ==
    [][ frame.age > 0 /\ loop = "board2" /\ loop' = "board2_publish"
        => callback = "at_board2" ]_mission_vars

\* Whether the car waits for the laboratory is decided on a frame taken
\* during this stop at the second board, never on one of an earlier round.
\* (Of a detection that outlasts the round this is not so: see above.)
FreshBoard2Result ==
    [][ DetectBoard2Result /\ ~board2_received /\ board2_received'
        => Head(board2_return).age = 0 ]_mission_vars

\* A result that was adopted stays: neither a late result nor the default
\* after the deadline replaces it before the car leaves.
Board2ResultIsFinal ==
    [][board2_received /\ board2_received'
        => UNCHANGED board2_result]_mission_vars

\* The car stands still, with no goal of its own active, when a board is read
\* and when it backs off; only the drives over the via point and past home
\* use the relaxed tolerances.
StopsExactlyAtBoards ==
    /\ count \in {BOARD1_RECOGNIZING, BOARD2_RECOGNIZING} => ~goal_active
    /\ pc \notin {"to_via", "homing"} => (up => teb = "own")

\* A task is taken from frames of this stop at the first board.
TaskOfThisStop ==
    Executing /\ deliveries = 0 => accepted.age = 0

\* As long as fewer frames were misread than make a stable reading, the tasks
\* that a stop at the first board ends with are those it shows.
TaskAsShown ==
    /\ count = BOARD1_RECOGNIZING /\ board1_received
    /\ misreads < StableFrames
    => accepted.queue = board

\* If the node is not stopped, the car goes on delivering: no state waits for
\* a message that is not sent, or for one that was dropped.
KeepsDelivering == []up => []<>(count = GO_BACK_HOME)
=============================================================================

----------------------------- MODULE Navigation -----------------------------
(***************************************************************************)
(* The navigation node F1_yaofang_v5.py of a single car                    *)
(* (enable_dual_car false): the main thread, which runs the handlers of    *)
(* states 9 to 15 and blocks in drives, waits and playbacks, and the two   *)
(* recognition callbacks, which run in threads of their own.               *)
(*                                                                         *)
(* A drive is the span between send_goal and its end; it ends with success *)
(* or stops the node (every failure of a drive, a back-off, a TEB update   *)
(* or the wait at board one calls rospy.signal_shutdown).  How long a      *)
(* drive takes is left open; a deadline passes at any time after it is     *)
(* armed.  home_arrival.pass_through, board1_recovery.enabled and          *)
(* board2_approach.enabled are true, as configured.                        *)
(***************************************************************************)
EXTENDS Topics, SequencesExt

VARIABLES
    up,                  \* the node runs
    count,               \* self.count
    pc,                  \* main thread
    board1_received,
    task,                \* ram_result and the windows_* attributes
    pickup_done,         \* windows with their pickup_*_done flag set
    pending_board1_tasks,
    deliveries,          \* deliveries_since_board1_recognition
    stage,               \* of wait_for_board1_result
    board2_received,
    board2_result,       \* "free", "busy"
    deadline_passed,     \* board2_recognition_deadline is over
    goal_active,         \* a move_base goal of this node is active
    teb,                 \* planner settings: "own" or "relaxed"
    accepted,            \* (history) the last task queue accepted, with its age
    fetched              \* (history) windows visited for the load on board

nav_vars == <<up, count, pc, board1_received, task, pickup_done,
              pending_board1_tasks, deliveries, stage, board2_received,
              board2_result, deadline_passed, goal_active, teb, accepted,
              fetched>>

board1_vars == <<board1_received, task, pickup_done, pending_board1_tasks,
                 deliveries, accepted>>
board2_vars == <<board2_received, board2_result, deadline_passed>>
drive_vars == <<goal_active, teb>>

\* init_runtime_state: the attributes before the first recognition.
NoTask == [windows |-> Windows, lab |-> 3]

NavigationInit ==
    /\ up = TRUE
    /\ count = GO_TO_BOARD1
    /\ pc = "loop"
    /\ board1_received = FALSE
    /\ task = NoTask
    /\ pickup_done = {}
    /\ pending_board1_tasks = <<>>
    /\ deliveries = 0
    /\ stage = 0
    /\ board2_received = FALSE
    /\ board2_result = "free"
    /\ deadline_passed = FALSE
    /\ goal_active = FALSE
    /\ teb = "own"
    /\ accepted = [queue |-> <<>>, age |-> 0]
    /\ fetched = {}

-----------------------------------------------------------------------------
Main(from, to) ==
    /\ up
    /\ pc = from
    /\ pc' = to

\* self.count = s; self.pub_nav_state.publish(self.count)
SetCount(s) ==
    /\ count' = s
    /\ PublishNavState(s)

Quiet == UNCHANGED <<count, topics>>

Dispatch(s, to) ==
    /\ Main("loop", to)
    /\ count = s

\* send_goal after the checks of move(); the goal it replaces is forgotten.
SendGoal == goal_active' = TRUE

\* wait_for_result and get_state() = SUCCEEDED
GoalSucceeds == goal_active' = FALSE

\* Mutant: the pickup flags of the last task survive.
ApplyKeepsPickups(t) ==
    /\ task' = t
    /\ board1_received' = TRUE
    /\ UNCHANGED pickup_done

\* apply_board1_selected_msg; the load of the last task has been delivered.
Apply(t) ==
    /\ task' = t
    /\ pickup_done' = {}
    /\ board1_received' = TRUE

-----------------------------------------------------------------------------
(* States 9 and 10: the first board.                                       *)

GoToBoard1 ==
    /\ Dispatch(GO_TO_BOARD1, "to_board1")
    /\ board1_received' = FALSE
    /\ SendGoal
    /\ PublishNavState(GO_TO_BOARD1)
    /\ UNCHANGED <<up, count, task, pickup_done, pending_board1_tasks,
                   deliveries, accepted, stage, board2_vars, teb, fetched,
                   cam_return, board2_return>>

\* Mutant: the cached tasks are taken from the wrong end.
ArriveBoard1CachedLast ==
    /\ Main("to_board1", "loop")
    /\ pending_board1_tasks # <<>>
    /\ GoalSucceeds
    /\ Apply(Last(pending_board1_tasks))
    /\ pending_board1_tasks' = Front(pending_board1_tasks)
    /\ SetCount(GO_TO_PICKUP_WINDOWS)
    /\ UNCHANGED <<up, deliveries, accepted, stage, board2_vars, teb, fetched,
                   cam_return, board2_return>>

\* A task of the last recognition is left: it is executed.
ArriveBoard1Cached ==
    /\ Main("to_board1", "loop")
    /\ pending_board1_tasks # <<>>
    /\ GoalSucceeds
    /\ Apply(Head(pending_board1_tasks))
    /\ pending_board1_tasks' = Tail(pending_board1_tasks)
    /\ SetCount(GO_TO_PICKUP_WINDOWS)
    /\ UNCHANGED <<up, deliveries, accepted, stage, board2_vars, teb, fetched,
                   cam_return, board2_return>>

\* Otherwise the board is read.
ArriveBoard1 ==
    /\ Main("to_board1", "at_board1")
    /\ pending_board1_tasks = <<>>
    /\ GoalSucceeds
    /\ board1_received' = FALSE
    /\ stage' = 0
    /\ SetCount(BOARD1_RECOGNIZING)
    /\ UNCHANGED <<up, task, pickup_done, pending_board1_tasks, deliveries,
                   accepted, board2_vars, teb, fetched, cam_return,
                   board2_return>>

\* wait_for_board1_result, three seconds without a task: back off, with the
\* vision node still in state 10; move_base must not be driving.
BackOff ==
    /\ Main("at_board1", "reversing")
    /\ ~board1_received /\ stage = 0
    /\ ~goal_active
    /\ Quiet
    /\ UNCHANGED <<up, board1_vars, stage, board2_vars, drive_vars, fetched>>

BackOffEnds ==
    /\ Main("reversing", "at_board1")
    /\ stage' = 1
    /\ Quiet
    /\ UNCHANGED <<up, board1_vars, board2_vars, drive_vars, fetched>>

\* Three more seconds: drive to the board again.  A task that arrives after
\* this decision is kept.
GiveUpWaiting ==
    /\ Main("at_board1", "renavigate")
    /\ ~board1_received /\ stage = 1
    /\ Quiet
    /\ UNCHANGED <<up, board1_vars, stage, board2_vars, drive_vars, fetched>>

\* Mutant: the vision node is not told that the car leaves the board.
RenavigateUntold ==
    /\ Main("renavigate", "to_board1_again")
    /\ count' = GO_TO_BOARD1
    /\ SendGoal
    /\ UNCHANGED <<topics, up, board1_vars, stage, board2_vars, teb, fetched>>

Renavigate ==
    /\ Main("renavigate", "to_board1_again")
    /\ SetCount(GO_TO_BOARD1)
    /\ SendGoal
    /\ UNCHANGED <<up, board1_vars, stage, board2_vars, teb, fetched,
                   cam_return, board2_return>>

ArriveBoard1Again ==
    /\ Main("to_board1_again", "at_board1")
    /\ GoalSucceeds
    /\ stage' = 2
    /\ SetCount(BOARD1_RECOGNIZING)
    /\ UNCHANGED <<up, board1_vars, board2_vars, teb, fetched, cam_return,
                   board2_return>>

\* board1_wait_timeout_sec: the task is given up.
Board1Timeout ==
    /\ up /\ pc = "at_board1" /\ ~board1_received
    /\ up' = FALSE
    /\ Quiet
    /\ UNCHANGED <<pc, board1_vars, stage, board2_vars, drive_vars, fetched>>

Board1Recognized ==
    /\ Main("at_board1", "loop")
    /\ board1_received
    /\ stage' = 0
    /\ SetCount(GO_TO_PICKUP_WINDOWS)
    /\ UNCHANGED <<up, board1_vars, board2_vars, drive_vars, fetched,
                   cam_return, board2_return>>

IsAwaited == count = BOARD1_RECOGNIZING /\ ~board1_received

\* detect_board1_result: the attributes are written before board1_received,
\* which the main thread waits for.
DetectBoard1Result ==
    /\ up /\ cam_return # <<>>
    /\ cam_return' = Tail(cam_return)
    /\ LET msg == Head(cam_return)
       IN  IF IsAwaited
           THEN /\ Apply(Head(msg.queue))
                /\ pending_board1_tasks' = Tail(msg.queue)
                /\ deliveries' = 0
                /\ accepted' = msg
           ELSE UNCHANGED board1_vars
    /\ UNCHANGED <<up, count, pc, stage, board2_vars, drive_vars, fetched,
                   nav_state, latched, board2_return>>

-----------------------------------------------------------------------------
(* State 11: windows C, A, B in this order.                                *)

StillToFetch == task.windows \ pickup_done

NextWindow ==
    CASE "C" \in StillToFetch -> "C"
      [] "A" \in StillToFetch -> "A"
      [] OTHER -> "B"

\* The handler begins, or goes on after a window.
AtWindows(to) ==
    \/ Dispatch(GO_TO_PICKUP_WINDOWS, to)
    \/ Main("at_windows", to)

GoToWindow ==
    /\ AtWindows("to_window")
    /\ StillToFetch # {}
    /\ SendGoal
    /\ Quiet
    /\ UNCHANGED <<up, board1_vars, stage, board2_vars, teb, fetched>>

\* arrive_and_leave_pickup_window, for the last one while it is announced.
ArriveWindow ==
    /\ Main("to_window", "at_windows")
    /\ GoalSucceeds
    /\ pickup_done' = pickup_done \union {NextWindow}
    /\ fetched' = fetched \union {NextWindow}
    /\ Quiet
    /\ UNCHANGED <<up, board1_received, task, pending_board1_tasks, deliveries,
                   accepted, stage, board2_vars, teb>>

WindowsDone ==
    /\ AtWindows("loop")
    /\ StillToFetch = {}
    /\ SetCount(GO_TO_BOARD2)
    /\ UNCHANGED <<up, board1_vars, stage, board2_vars, drive_vars, fetched,
                   cam_return, board2_return>>

-----------------------------------------------------------------------------
(* States 12 and 13: the second board.                                     *)

\* handle_go_to_board2: the last result is cleared; move_to_board2: the
\* planner's tolerances are relaxed for the drive over the via point.
GoToBoard2 ==
    /\ Dispatch(GO_TO_BOARD2, "to_via")
    /\ board2_received' = FALSE
    /\ board2_result' = "free"
    /\ deadline_passed' = FALSE
    /\ teb' = "relaxed"
    /\ SendGoal
    /\ Quiet
    /\ UNCHANGED <<up, board1_vars, stage, fetched>>

\* Mutant: the tolerances are restored after the drive to the board.
PassViaPointRestoreLate ==
    /\ Main("to_via", "to_board2")
    /\ SendGoal
    /\ Quiet
    /\ UNCHANGED <<up, teb, board1_vars, stage, board2_vars, fetched>>

\* The via point is near (its goal stays active) or reached; the settings are
\* restored and the next goal takes over.
PassViaPoint ==
    /\ Main("to_via", "to_board2")
    /\ teb' = "own"
    /\ SendGoal
    /\ Quiet
    /\ UNCHANGED <<up, board1_vars, stage, board2_vars, fetched>>

ArriveBoard2 ==
    /\ Main("to_board2", "at_board2")
    /\ GoalSucceeds
    /\ SetCount(BOARD2_RECOGNIZING)
    /\ UNCHANGED <<up, board1_vars, stage, board2_vars, teb, fetched,
                   cam_return, board2_return>>

\* board2_wait_timeout_sec after the arrival.
DeadlinePasses ==
    /\ up /\ count = BOARD2_RECOGNIZING /\ ~deadline_passed
    /\ deadline_passed' = TRUE
    /\ Quiet
    /\ UNCHANGED <<pc, up, board1_vars, stage, board2_received, board2_result,
                   drive_vars, fetched>>

\* Mutant: a result that comes late is taken, too.
CanAcceptLate(timed_out) ==
    /\ count = BOARD2_RECOGNIZING
    /\ timed_out => ~board2_received

\* accept_board2_result, its conditions under board2_result_lock
CanAccept(timed_out) ==
    /\ count = BOARD2_RECOGNIZING /\ ~board2_received
    /\ timed_out \/ ~deadline_passed

AcceptBoard2(label) ==
    /\ board2_result' = label
    /\ board2_received' = TRUE

DetectBoard2Result ==
    /\ up /\ board2_return # <<>>
    /\ board2_return' = Tail(board2_return)
    /\ LET msg == Head(board2_return)
       IN  IF CanAccept(FALSE)
           THEN AcceptBoard2(msg.label)
           ELSE UNCHANGED <<board2_result, board2_received>>
    /\ UNCHANGED <<up, count, pc, board1_vars, stage, deadline_passed,
                   drive_vars, fetched, nav_state, latched, cam_return>>

\* wait_for_board2_result, its deadline: the laboratory counts as free.
Board2Default ==
    /\ Main("at_board2", "at_board2")
    /\ deadline_passed
    /\ CanAccept(TRUE)
    /\ AcceptBoard2("free")
    /\ Quiet
    /\ UNCHANGED <<up, board1_vars, stage, deadline_passed, drive_vars,
                   fetched>>

\* The result is announced, and a busy laboratory waited for.
AnnounceBoard2 ==
    /\ Main("at_board2", "announcing")
    /\ board2_received
    /\ Quiet
    /\ UNCHANGED <<up, board1_vars, stage, board2_vars, drive_vars, fetched>>

LeaveBoard2 ==
    /\ Main("announcing", "loop")
    /\ SetCount(GO_TO_LAB_WINDOW)
    /\ UNCHANGED <<up, board1_vars, stage, board2_vars, drive_vars, fetched,
                   cam_return, board2_return>>

-----------------------------------------------------------------------------
(* States 14 and 15: delivery and the way home.                            *)

GoToLabWindow ==
    /\ Dispatch(GO_TO_LAB_WINDOW, "to_lab")
    /\ SendGoal
    /\ Quiet
    /\ UNCHANGED <<up, board1_vars, stage, board2_vars, teb, fetched>>

\* Two deliveries, or no task left: what is cached is thrown away.
BatchOver(n) == n >= 2 \/ pending_board1_tasks = <<>>

Deliver ==
    /\ Main("to_lab", "loop")
    /\ GoalSucceeds
    /\ deliveries' = deliveries + 1
    /\ pending_board1_tasks' =
            IF BatchOver(deliveries + 1) THEN <<>> ELSE pending_board1_tasks
    /\ fetched' = {}
    /\ SetCount(GO_BACK_HOME)
    /\ UNCHANGED <<up, board1_received, task, pickup_done, accepted, stage,
                   board2_vars, teb, cam_return, board2_return>>

GoBackHome ==
    /\ Dispatch(GO_BACK_HOME, "homing")
    /\ PublishNavState(GO_BACK_HOME)
    /\ teb' = "relaxed"
    /\ SendGoal
    /\ UNCHANGED <<up, count, board1_vars, stage, board2_vars, fetched,
                   cam_return, board2_return>>

\* Home is near (its goal stays active) or reached; the same handler call
\* goes on to board one.
PassHome ==
    /\ Main("homing", "loop")
    /\ teb' = "own"
    /\ goal_active' \in BOOLEAN
    /\ SetCount(GO_TO_BOARD1)
    /\ UNCHANGED <<up, board1_vars, stage, board2_vars, fetched, cam_return,
                   board2_return>>

-----------------------------------------------------------------------------
\* A drive, a back-off or an update of the planner's settings fails, or the
\* node is stopped: signal_shutdown, and it is not respawned.
Stop ==
    /\ up
    /\ up' = FALSE
    /\ Quiet
    /\ UNCHANGED <<pc, board1_vars, stage, board2_vars, drive_vars, fetched>>

\* Steps of the main thread that end a drive between two places of the course.
LongDriveEnds ==
    \/ ArriveBoard1Cached \/ ArriveBoard1 \/ ArriveWindow \/ PassViaPoint
    \/ ArriveBoard2 \/ Deliver \/ PassHome

\* Movements of a few decimetres in front of the first board.
ShortDriveEnds == BackOffEnds \/ ArriveBoard1Again

OtherMainSteps ==
    \/ GoToBoard1 \/ BackOff \/ GiveUpWaiting \/ Renavigate
    \/ Board1Recognized \/ GoToWindow \/ WindowsDone \/ GoToBoard2
    \/ Board2Default \/ AnnounceBoard2 \/ LeaveBoard2 \/ GoToLabWindow
    \/ GoBackHome

NavigationTypeOK ==
    /\ up \in BOOLEAN
    /\ count \in States
    /\ pc \in {"loop", "to_board1", "at_board1", "reversing", "renavigate",
               "to_board1_again", "to_window", "at_windows", "to_via",
               "to_board2", "at_board2", "announcing", "to_lab", "homing"}
    /\ board1_received \in BOOLEAN
    /\ task \in Tasks
    /\ pickup_done \subseteq Windows
    /\ pending_board1_tasks \in Seq(Tasks)
    /\ deliveries \in 0 .. 2
    /\ stage \in 0 .. 2
    /\ board2_received \in BOOLEAN
    /\ board2_result \in Labels
    /\ deadline_passed \in BOOLEAN
    /\ goal_active \in BOOLEAN
    /\ teb \in {"own", "relaxed"}
=============================================================================

---------------------------- MODULE Mission_proofs ----------------------------
(***************************************************************************)
(* Proofs about Mission, for any task queues a board can give, any number  *)
(* of stable readings, of misread frames and of respawns of the vision     *)
(* node, and an alert and a detection of any length.                       *)
(***************************************************************************)
EXTENDS Mission, SequenceTheorems, TLAPS

Readings == [queue : Queues, age : Ages]

TopicsTypeOK ==
    /\ nav_state \in Seq(States)
    /\ latched \in States \union {0}
    /\ cam_return \in Seq(Readings)
    /\ board2_return \in Seq([label : Labels, age : Ages])

HistoryTypeOK ==
    /\ accepted.queue \in Seq(Tasks) /\ accepted.age \in Ages
    /\ fetched \subseteq Windows

\* The handler the main thread is in belongs to self.count.
PcMatchesCount ==
    /\ pc = "loop" => count \notin {BOARD1_RECOGNIZING, BOARD2_RECOGNIZING}
    /\ pc \in {"to_board1", "to_board1_again"} => count = GO_TO_BOARD1
    /\ pc \in {"at_board1", "reversing", "renavigate"} =>
            count = BOARD1_RECOGNIZING
    /\ pc \in {"to_window", "at_windows"} => count = GO_TO_PICKUP_WINDOWS
    /\ pc \in {"to_via", "to_board2"} => count = GO_TO_BOARD2
    /\ pc \in {"at_board2", "announcing"} => count = BOARD2_RECOGNIZING
    /\ pc = "to_lab" => count = GO_TO_LAB_WINDOW
    /\ pc = "homing" => count = GO_BACK_HOME

StandsStill ==
    /\ count \in {BOARD1_RECOGNIZING, BOARD2_RECOGNIZING} => ~goal_active
    /\ pc \notin {"to_via", "homing"} => teb = "own"

\* The task and what is cached are the queue without its first n tasks.
Follows(n) ==
    /\ n < Len(accepted.queue)
    /\ task = accepted.queue[n + 1]
    /\ pending_board1_tasks = SubSeq(accepted.queue, n + 2, Len(accepted.queue))

Batch ==
    /\ Executing => deliveries \in 0 .. 1 /\ Follows(deliveries)
    /\ AtStop /\ board1_received => deliveries = 0 /\ Follows(0)
    /\ ~Executing /\ ~AtStop /\ pending_board1_tasks # <<>> =>
        /\ deliveries = 1
        /\ pending_board1_tasks =
                SubSeq(accepted.queue, 2, Len(accepted.queue))

Load ==
    /\ count \in {GO_TO_BOARD1, BOARD1_RECOGNIZING, GO_BACK_HOME} =>
            fetched = {}
    /\ AtStop /\ board1_received => pickup_done = {}
    /\ count = GO_TO_PICKUP_WINDOWS =>
            fetched = pickup_done /\ pickup_done \subseteq task.windows
    /\ pc = "to_window" => StillToFetch # {}
    /\ LoadIsComplete

\* The last state on its way to the vision node is that of the car.
Told ==
    /\ nav_state = <<>> => current_nav_state = count
    /\ nav_state # <<>> => nav_state[Len(nav_state)] = count
    /\ latched = count \/ (latched = 0 /\ count = GO_TO_BOARD1)

\* A label seen before the car came to the second board passes the check only
\* between the two assignments of nav_state_cb.
OldIsDropped ==
    loop = "board2" /\ frame.age > 0 =>
        ~StillVisiting \/ callback = "at_board2"

\* A reading of this stop: not older, and a wrong one has cost a misread.
OfThisStop(reading) ==
    reading.age = 0 /\ (reading.queue # board => misreads >= StableFrames)

\* The last n readings of a history are wrong.
Wrong(n) ==
    \A i \in Len(board1_history) - n + 1 .. Len(board1_history) :
        board1_history[i].queue # board

AtWork == loop \in {"board1", "alert", "board1_select"}

\* The history has yet to be cleared for the visit.
NotYetBegun ==
    /\ current_nav_state # BOARD1_RECOGNIZING \/ callback = "at_board1"
    /\ ~AtWork

\* All of the history was read at this stop, and each wrong reading at its
\* end has cost a misread, and so has the frame.
HistoryOfThisStop ==
    /\ \A i \in 1 .. Len(board1_history) : board1_history[i].age = 0
    /\ \A n \in 0 .. Len(board1_history) :
        Wrong(n) => misreads >= n + IF AtWork /\ frame.queue # board
                                      THEN 1 ELSE 0

SeenAtBoard1 ==
    /\ AtStop =>
        /\ \A i \in 1 .. Len(cam_return) : OfThisStop(cam_return[i])
        /\ AtWork => frame.age = 0
        /\ HistoryOfThisStop \/ NotYetBegun
        /\ board1_received => OfThisStop(accepted)
    /\ TaskOfThisStop

Navigates == NavigationTypeOK /\ HistoryTypeOK /\ PcMatchesCount /\ StandsStill
             /\ Batch /\ Load

IInv ==
    /\ Navigates /\ VisionTypeOK /\ TopicsTypeOK
    /\ Told /\ OldIsDropped /\ SeenAtBoard1

-----------------------------------------------------------------------------
(* Tasks, queues and readings.                                             *)

USE DEF GO_TO_BOARD1, BOARD1_RECOGNIZING, GO_TO_PICKUP_WINDOWS, GO_TO_BOARD2,
    BOARD2_RECOGNIZING, GO_TO_LAB_WINDOW, GO_BACK_HOME, States, Labels, Ages,
    Windows

LEMMA TaskType ==
  /\ \A t \in Tasks : t.windows \subseteq Windows
  /\ NoTask \in Tasks
  <1>1. \A t \in Tasks : t.windows \in (SUBSET Windows) \ {{}}
    BY DEF Tasks
  <1>2. NoTask \in Tasks
    <2>1. "C" \in Windows /\ 3 \in Labs
      BY DEF Labs
    <2> HIDE DEF Windows
    <2> DEFINE subsets == SUBSET Windows
               loads == subsets \ {{}}
    <2>2. Windows \in loads
      <3>1. Windows # {}
        BY <2>1
      <3>2. Windows \in subsets
        OBVIOUS
      <3> HIDE DEF subsets
      <3>3. Windows \notin {{}}
        BY <3>1
      <3> QED  BY <3>2, <3>3
    <2> HIDE DEF loads
    <2>3. [windows |-> Windows, lab |-> 3] \in [windows : loads, lab : Labs]
      BY <2>1, <2>2
    <2>4. Tasks = [windows : loads, lab : Labs]
      BY DEF Tasks, loads, subsets
    <2>5. NoTask = [windows |-> Windows, lab |-> 3]
      BY DEF NoTask
    <2> QED  BY <2>3, <2>4, <2>5
  <1> QED  BY <1>1, <1>2

LEMMA QueueType ==
  ASSUME NEW q \in Queues
  PROVE  /\ q \in Seq(Tasks) /\ q # <<>> /\ Len(q) \in Nat /\ 0 < Len(q)
         /\ Head(q) \in Tasks /\ Head(q) = q[1]
         /\ Tail(q) \in Seq(Tasks) /\ Tail(q) = SubSeq(q, 2, Len(q))
  <1>1. q \in Seq(Tasks) /\ q # <<>>
    BY QueuesAssumption
  <1>2. Len(q) \in Nat /\ 0 < Len(q)
    BY <1>1
  <1> QED  BY <1>1, <1>2, HeadTailProperties, TailIsSubSeq

LEMMA ReadingType ==
  /\ \A m \in Readings : m.queue \in Queues /\ m.age \in Ages
  /\ \A q \in Queues, a \in Ages : [queue |-> q, age |-> a] \in Readings
  BY DEF Readings

\* What comes off the front of a sequence, and what stays.
LEMMA FrontOfSeq ==
  ASSUME NEW S, NEW s \in Seq(S), s # <<>>
  PROVE  /\ Head(s) \in S /\ Head(s) = s[1] /\ Tail(s) \in Seq(S)
         /\ Len(s) \in Nat /\ Len(s) >= 1 /\ Len(Tail(s)) = Len(s) - 1
         /\ \A i \in 1 .. Len(Tail(s)) : i + 1 \in 1 .. Len(s)
                                         /\ Tail(s)[i] = s[i + 1]
  <1>1. Len(s) \in Nat /\ Len(s) >= 1
    BY EmptySeq
  <1> QED  BY <1>1, HeadTailProperties

-----------------------------------------------------------------------------
(* The navigation node.                                                    *)

StandingStep ==
    \/ OtherMainSteps \/ DetectBoard1Result \/ DetectBoard2Result
    \/ DeadlinePasses \/ Stop \/ Board1Timeout

NavigationStep == LongDriveEnds \/ ShortDriveEnds \/ StandingStep

LEMMA PlaceKept ==
  ASSUME IInv, NavigationStep
  PROVE  PcMatchesCount' /\ StandsStill'
  <1> USE DEF IInv, Navigates, NavigationTypeOK, PcMatchesCount, StandsStill,
          Main, Dispatch, Quiet, SetCount, SendGoal, GoalSucceeds, drive_vars,
          AtWindows
  <1>1. CASE ArriveBoard1Cached
    BY <1>1 DEF ArriveBoard1Cached
  <1>2. CASE ArriveBoard1
    BY <1>2 DEF ArriveBoard1
  <1>3. CASE ArriveWindow
    BY <1>3 DEF ArriveWindow
  <1>4. CASE PassViaPoint
    BY <1>4 DEF PassViaPoint
  <1>5. CASE ArriveBoard2
    BY <1>5 DEF ArriveBoard2
  <1>6. CASE Deliver
    BY <1>6 DEF Deliver
  <1>7. CASE PassHome
    BY <1>7 DEF PassHome
  <1>8. CASE BackOffEnds
    BY <1>8 DEF BackOffEnds
  <1>9. CASE ArriveBoard1Again
    BY <1>9 DEF ArriveBoard1Again
  <1>10. CASE GoToBoard1
    BY <1>10 DEF GoToBoard1
  <1>11. CASE BackOff
    BY <1>11 DEF BackOff
  <1>12. CASE GiveUpWaiting
    BY <1>12 DEF GiveUpWaiting
  <1>13. CASE Renavigate
    BY <1>13 DEF Renavigate
  <1>14. CASE Board1Recognized
    BY <1>14 DEF Board1Recognized
  <1>15. CASE GoToWindow
    BY <1>15 DEF GoToWindow
  <1>16. CASE WindowsDone
    BY <1>16 DEF WindowsDone
  <1>17. CASE GoToBoard2
    BY <1>17 DEF GoToBoard2
  <1>18. CASE Board2Default
    BY <1>18 DEF Board2Default
  <1>19. CASE AnnounceBoard2
    BY <1>19 DEF AnnounceBoard2
  <1>20. CASE LeaveBoard2
    BY <1>20 DEF LeaveBoard2
  <1>21. CASE GoToLabWindow
    BY <1>21 DEF GoToLabWindow
  <1>22. CASE GoBackHome
    BY <1>22 DEF GoBackHome
  <1>23. CASE DetectBoard1Result
    BY <1>23 DEF DetectBoard1Result
  <1>24. CASE DetectBoard2Result
    BY <1>24 DEF DetectBoard2Result
  <1>25. CASE DeadlinePasses
    BY <1>25 DEF DeadlinePasses
  <1>26. CASE Stop
    BY <1>26 DEF Stop
  <1>27. CASE Board1Timeout
    BY <1>27 DEF Board1Timeout
  <1> QED  BY <1>1, <1>2, <1>3, <1>4, <1>5, <1>6, <1>7, <1>8, <1>9, <1>10,
      <1>11, <1>12, <1>13, <1>14, <1>15, <1>16, <1>17, <1>18, <1>19, <1>20,
      <1>21, <1>22, <1>23, <1>24, <1>25, <1>26, <1>27
      DEF NavigationStep, StandingStep, LongDriveEnds, ShortDriveEnds,
          OtherMainSteps

\* The first task of a message, and the rest of it.
LEMMA MessageType ==
  ASSUME IInv, cam_return # <<>>
  PROVE  /\ Head(cam_return) \in Readings
         /\ Head(cam_return).queue \in Queues /\ Head(cam_return).age \in Ages
  BY FrontOfSeq, ReadingType DEF IInv, TopicsTypeOK

\* The next task of the batch, while there is one.
LEMMA CachedTask ==
  ASSUME IInv, pc = "to_board1", pending_board1_tasks # <<>>
  PROVE  /\ deliveries = 1 /\ 1 < Len(accepted.queue)
         /\ Head(pending_board1_tasks) = accepted.queue[2]
         /\ Tail(pending_board1_tasks) =
                SubSeq(accepted.queue, 3, Len(accepted.queue))
         /\ Head(pending_board1_tasks) \in Tasks
         /\ Tail(pending_board1_tasks) \in Seq(Tasks)
  <1>1. /\ deliveries = 1 /\ accepted.queue \in Seq(Tasks)
        /\ pending_board1_tasks =
                SubSeq(accepted.queue, 2, Len(accepted.queue))
        /\ pending_board1_tasks \in Seq(Tasks)
    BY DEF IInv, Navigates, NavigationTypeOK, HistoryTypeOK, PcMatchesCount,
       Batch, AtStop, Executing
  <1>2. Len(accepted.queue) \in Nat
    BY <1>1
  <1>3. 1 < Len(accepted.queue)
    BY <1>1, <1>2, SubSeqEmpty
  <1>4. /\ Head(pending_board1_tasks) = accepted.queue[2]
        /\ Tail(pending_board1_tasks) =
                SubSeq(accepted.queue, 3, Len(accepted.queue))
    BY <1>1, <1>2, <1>3, HeadTailOfSubSeq
  <1> QED  BY <1>1, <1>3, <1>4, FrontOfSeq

Flags ==
    /\ up \in BOOLEAN /\ board1_received \in BOOLEAN
    /\ board2_received \in BOOLEAN /\ deadline_passed \in BOOLEAN
    /\ goal_active \in BOOLEAN

LEMMA FlagsKept ==
  ASSUME IInv, NavigationStep
  PROVE  Flags'
  <1>0. Flags
    BY DEF IInv, Navigates, NavigationTypeOK, Flags
  <1> USE <1>0, Zenon DEF Flags, Main, Dispatch, SendGoal, GoalSucceeds,
          drive_vars, board1_vars, board2_vars, AtWindows, Apply, AcceptBoard2
  <1>1. CASE LongDriveEnds
    BY <1>1 DEF LongDriveEnds, ArriveBoard1Cached, ArriveBoard1, ArriveWindow,
       PassViaPoint, ArriveBoard2, Deliver, PassHome
  <1>2. CASE ShortDriveEnds
    BY <1>2 DEF ShortDriveEnds, BackOffEnds, ArriveBoard1Again
  <1>3. CASE GoToBoard1 \/ BackOff \/ GiveUpWaiting \/ Renavigate
             \/ Board1Recognized \/ GoToWindow \/ WindowsDone
    BY <1>3 DEF GoToBoard1, BackOff, GiveUpWaiting, Renavigate,
       Board1Recognized, GoToWindow, WindowsDone
  <1>4. CASE GoToBoard2 \/ Board2Default \/ AnnounceBoard2 \/ LeaveBoard2
             \/ GoToLabWindow \/ GoBackHome
    BY <1>4 DEF GoToBoard2, Board2Default, AnnounceBoard2, LeaveBoard2,
       GoToLabWindow, GoBackHome
  <1>5. CASE DetectBoard1Result \/ DetectBoard2Result \/ DeadlinePasses
             \/ Stop \/ Board1Timeout
    BY <1>5 DEF DetectBoard1Result, DetectBoard2Result, DeadlinePasses, Stop,
       Board1Timeout
  <1> QED  BY <1>1, <1>2, <1>3, <1>4, <1>5
      DEF NavigationStep, StandingStep, OtherMainSteps

LEMMA NavigationTypesKept ==
  ASSUME IInv, NavigationStep
  PROVE  NavigationTypeOK' /\ HistoryTypeOK'
  <1>0. Flags'
    BY FlagsKept
  <1> USE <1>0 DEF Flags, IInv, Navigates, NavigationTypeOK, HistoryTypeOK,
          Main, Dispatch, Quiet, SetCount, drive_vars, board1_vars,
          board2_vars, AtWindows
  <1>1. CASE ArriveBoard1Cached
    <2>1. pc = "to_board1" /\ pending_board1_tasks # <<>>
      BY <1>1 DEF ArriveBoard1Cached
    <2>2. /\ Head(pending_board1_tasks) \in Tasks
          /\ Tail(pending_board1_tasks) \in Seq(Tasks)
      BY <2>1, CachedTask
    <2> QED  BY <1>1, <2>2 DEF ArriveBoard1Cached, Apply
  <1>2. CASE ArriveBoard1
    BY <1>2 DEF ArriveBoard1
  <1>3. CASE ArriveWindow
    <2>1. NextWindow \in Windows
      BY DEF NextWindow
    <2> QED  BY <1>3, <2>1 DEF ArriveWindow
  <1>4. CASE PassViaPoint
    BY <1>4 DEF PassViaPoint
  <1>5. CASE ArriveBoard2
    BY <1>5 DEF ArriveBoard2
  <1>6. CASE Deliver
    <2>1. deliveries \in 0 .. 1
      BY <1>6 DEF Deliver, PcMatchesCount, Batch, Executing
    <2>2. pending_board1_tasks' \in Seq(Tasks)
      BY <1>6, EmptySeq DEF Deliver
    <2> QED  BY <1>6, <2>1, <2>2 DEF Deliver
  <1>7. CASE PassHome
    BY <1>7 DEF PassHome
  <1>8. CASE BackOffEnds
    BY <1>8 DEF BackOffEnds
  <1>9. CASE ArriveBoard1Again
    BY <1>9 DEF ArriveBoard1Again
  <1>10. CASE GoToBoard1
    BY <1>10 DEF GoToBoard1
  <1>11. CASE BackOff
    BY <1>11 DEF BackOff
  <1>12. CASE GiveUpWaiting
    BY <1>12 DEF GiveUpWaiting
  <1>13. CASE Renavigate
    BY <1>13 DEF Renavigate
  <1>14. CASE Board1Recognized
    BY <1>14 DEF Board1Recognized
  <1>15. CASE GoToWindow
    BY <1>15 DEF GoToWindow
  <1>16. CASE WindowsDone
    BY <1>16 DEF WindowsDone
  <1>17. CASE GoToBoard2
    BY <1>17 DEF GoToBoard2
  <1>18. CASE Board2Default
    BY <1>18 DEF Board2Default, AcceptBoard2
  <1>19. CASE AnnounceBoard2
    BY <1>19 DEF AnnounceBoard2
  <1>20. CASE LeaveBoard2
    BY <1>20 DEF LeaveBoard2
  <1>21. CASE GoToLabWindow
    BY <1>21 DEF GoToLabWindow
  <1>22. CASE GoBackHome
    BY <1>22 DEF GoBackHome
  <1>23. CASE DetectBoard1Result
    <2>1. /\ Head(cam_return).queue \in Seq(Tasks)
          /\ Head(cam_return).age \in Ages
          /\ Head(Head(cam_return).queue) \in Tasks
          /\ Tail(Head(cam_return).queue) \in Seq(Tasks)
      BY <1>23, MessageType, QueueType DEF DetectBoard1Result
    <2>2. CASE IsAwaited
      <3>1. /\ accepted' = Head(cam_return)
            /\ task' = Head(Head(cam_return).queue)
            /\ pending_board1_tasks' = Tail(Head(cam_return).queue)
            /\ pickup_done' = {} /\ deliveries' = 0
        BY <1>23, <2>2 DEF DetectBoard1Result, Apply
      <3>2. UNCHANGED <<count, pc, stage, board2_vars, drive_vars, fetched>>
        BY <1>23 DEF DetectBoard1Result
      <3> QED  BY <2>1, <3>1, <3>2
    <2>3. CASE ~IsAwaited
      BY <1>23, <2>3 DEF DetectBoard1Result
    <2> QED  BY <2>2, <2>3
  <1>24. CASE DetectBoard2Result
    <2>1. Head(board2_return) \in [label : Labels, age : Ages]
      BY <1>24, FrontOfSeq DEF DetectBoard2Result, TopicsTypeOK
    <2>2. Head(board2_return).label \in Labels
      BY <2>1
    <2> QED  BY <1>24, <2>2 DEF DetectBoard2Result, AcceptBoard2
  <1>25. CASE DeadlinePasses
    BY <1>25 DEF DeadlinePasses
  <1>26. CASE Stop
    BY <1>26 DEF Stop
  <1>27. CASE Board1Timeout
    BY <1>27 DEF Board1Timeout
  <1> QED  BY <1>1, <1>2, <1>3, <1>4, <1>5, <1>6, <1>7, <1>8, <1>9, <1>10,
      <1>11, <1>12, <1>13, <1>14, <1>15, <1>16, <1>17, <1>18, <1>19, <1>20,
      <1>21, <1>22, <1>23, <1>24, <1>25, <1>26, <1>27
      DEF NavigationStep, StandingStep, LongDriveEnds, ShortDriveEnds,
          OtherMainSteps

LEMMA BatchKept ==
  ASSUME IInv, NavigationStep
  PROVE  Batch'
  <1> USE DEF IInv, Navigates, NavigationTypeOK, PcMatchesCount, Batch, Follows,
          Executing, AtStop, Main, Dispatch, Quiet, SetCount, board1_vars,
          AtWindows
  <1>1. CASE ArriveBoard1Cached
    <2>1. /\ task' = accepted.queue[2] /\ deliveries' = 1
          /\ pending_board1_tasks' =
                SubSeq(accepted.queue, 3, Len(accepted.queue))
          /\ 1 < Len(accepted.queue) /\ accepted' = accepted
          /\ pc' = "loop" /\ count' = GO_TO_PICKUP_WINDOWS
      BY <1>1, CachedTask DEF ArriveBoard1Cached, Apply
    <2> QED  BY <2>1
  <1>2. CASE ArriveBoard1
    BY <1>2 DEF ArriveBoard1
  <1>3. CASE ArriveWindow
    BY <1>3 DEF ArriveWindow
  <1>4. CASE PassViaPoint
    BY <1>4 DEF PassViaPoint
  <1>5. CASE ArriveBoard2
    BY <1>5 DEF ArriveBoard2
  <1>6. CASE Deliver
    <2>1. /\ deliveries \in 0 .. 1 /\ deliveries' = deliveries + 1
          /\ pending_board1_tasks =
                SubSeq(accepted.queue, deliveries + 2, Len(accepted.queue))
      BY <1>6 DEF Deliver
    <2>2. CASE BatchOver(deliveries + 1)
      BY <1>6, <2>2 DEF Deliver
    <2>3. CASE ~BatchOver(deliveries + 1)
      <3>1. deliveries = 0
        BY <2>1, <2>3 DEF BatchOver
      <3> QED  BY <1>6, <2>1, <2>3, <3>1 DEF Deliver
    <2> QED  BY <2>2, <2>3
  <1>7. CASE PassHome
    BY <1>7 DEF PassHome
  <1>8. CASE BackOffEnds
    BY <1>8 DEF BackOffEnds
  <1>9. CASE ArriveBoard1Again
    BY <1>9 DEF ArriveBoard1Again
  <1>10. CASE GoToBoard1
    BY <1>10 DEF GoToBoard1
  <1>11. CASE BackOff
    BY <1>11 DEF BackOff
  <1>12. CASE GiveUpWaiting
    BY <1>12 DEF GiveUpWaiting
  <1>13. CASE Renavigate
    BY <1>13 DEF Renavigate
  <1>14. CASE Board1Recognized
    BY <1>14 DEF Board1Recognized
  <1>15. CASE GoToWindow
    BY <1>15 DEF GoToWindow
  <1>16. CASE WindowsDone
    BY <1>16 DEF WindowsDone
  <1>17. CASE GoToBoard2
    BY <1>17 DEF GoToBoard2
  <1>18. CASE Board2Default
    BY <1>18 DEF Board2Default
  <1>19. CASE AnnounceBoard2
    BY <1>19 DEF AnnounceBoard2
  <1>20. CASE LeaveBoard2
    BY <1>20 DEF LeaveBoard2
  <1>21. CASE GoToLabWindow
    BY <1>21 DEF GoToLabWindow
  <1>22. CASE GoBackHome
    BY <1>22 DEF GoBackHome
  <1>23. CASE DetectBoard1Result
    <2>1. CASE IsAwaited
      <3> DEFINE q == Head(cam_return).queue
      <3>1. /\ 0 < Len(q) /\ Head(q) = q[1]
            /\ Tail(q) = SubSeq(q, 2, Len(q))
        BY <1>23, MessageType, QueueType DEF DetectBoard1Result
      <3>2. /\ accepted'.queue = q /\ task' = Head(q)
            /\ pending_board1_tasks' = Tail(q) /\ deliveries' = 0
            /\ UNCHANGED <<pc, count>> /\ count = BOARD1_RECOGNIZING
        BY <1>23, <2>1 DEF DetectBoard1Result, IsAwaited, Apply
      <3> HIDE DEF q
      <3>3. Follows(0)'
        BY <3>1, <3>2
      <3>4. ~Executing' /\ AtStop'
        BY <3>2
      <3> HIDE DEF Follows, Executing, AtStop
      <3> QED  BY <3>2, <3>3, <3>4
    <2>2. CASE ~IsAwaited
      BY <1>23, <2>2 DEF DetectBoard1Result
    <2> QED  BY <2>1, <2>2
  <1>24. CASE DetectBoard2Result
    BY <1>24 DEF DetectBoard2Result
  <1>25. CASE DeadlinePasses
    BY <1>25 DEF DeadlinePasses
  <1>26. CASE Stop
    BY <1>26 DEF Stop
  <1>27. CASE Board1Timeout
    BY <1>27 DEF Board1Timeout
  <1> QED  BY <1>1, <1>2, <1>3, <1>4, <1>5, <1>6, <1>7, <1>8, <1>9, <1>10,
      <1>11, <1>12, <1>13, <1>14, <1>15, <1>16, <1>17, <1>18, <1>19, <1>20,
      <1>21, <1>22, <1>23, <1>24, <1>25, <1>26, <1>27
      DEF NavigationStep, StandingStep, LongDriveEnds, ShortDriveEnds,
          OtherMainSteps

LEMMA LoadKept ==
  ASSUME IInv, NavigationStep
  PROVE  Load'
  <1> USE DEF IInv, Navigates, NavigationTypeOK, PcMatchesCount, Load, AtStop,
          LoadIsComplete, StillToFetch, Main, Dispatch, Quiet, SetCount,
          board1_vars, AtWindows, Apply
  <1>1. CASE ArriveBoard1Cached
    BY <1>1 DEF ArriveBoard1Cached
  <1>2. CASE ArriveBoard1
    BY <1>2 DEF ArriveBoard1
  <1>3. CASE ArriveWindow
    <2>1. NextWindow \in StillToFetch
      BY <1>3, TaskType DEF ArriveWindow, NextWindow
    <2>2. /\ pickup_done' = pickup_done \union {NextWindow}
          /\ fetched' = fetched \union {NextWindow}
      BY <1>3 DEF ArriveWindow
    <2>3. /\ pc' = "at_windows" /\ count = GO_TO_PICKUP_WINDOWS
          /\ UNCHANGED <<count, task, board1_received>>
      BY <1>3 DEF ArriveWindow
    <2>4. /\ NextWindow \in task.windows /\ fetched = pickup_done
          /\ pickup_done \subseteq task.windows
      BY <2>1, <2>3
    <2>5. fetched' = pickup_done' /\ pickup_done' \subseteq task.windows
      BY <2>2, <2>4
    <2> QED  BY <2>3, <2>5
  <1>4. CASE PassViaPoint
    BY <1>4 DEF PassViaPoint
  <1>5. CASE ArriveBoard2
    BY <1>5 DEF ArriveBoard2
  <1>6. CASE Deliver
    BY <1>6 DEF Deliver
  <1>7. CASE PassHome
    BY <1>7 DEF PassHome
  <1>8. CASE BackOffEnds
    BY <1>8 DEF BackOffEnds
  <1>9. CASE ArriveBoard1Again
    BY <1>9 DEF ArriveBoard1Again
  <1>10. CASE GoToBoard1
    BY <1>10 DEF GoToBoard1
  <1>11. CASE BackOff
    BY <1>11 DEF BackOff
  <1>12. CASE GiveUpWaiting
    BY <1>12 DEF GiveUpWaiting
  <1>13. CASE Renavigate
    BY <1>13 DEF Renavigate
  <1>14. CASE Board1Recognized
    <2>1. /\ fetched = {} /\ pickup_done = {}
          /\ pc' = "loop" /\ count' = GO_TO_PICKUP_WINDOWS
          /\ UNCHANGED <<fetched, pickup_done, task>>
      BY <1>14 DEF Board1Recognized
    <2> QED  BY <2>1
  <1>15. CASE GoToWindow
    BY <1>15 DEF GoToWindow
  <1>16. CASE WindowsDone
    <2>1. /\ count = GO_TO_PICKUP_WINDOWS /\ StillToFetch = {}
          /\ pc' = "loop" /\ count' = GO_TO_BOARD2
          /\ UNCHANGED <<fetched, pickup_done, task>>
      BY <1>16 DEF WindowsDone
    <2>2. fetched = task.windows
      BY <2>1
    <2> QED  BY <2>1, <2>2
  <1>17. CASE GoToBoard2
    BY <1>17 DEF GoToBoard2
  <1>18. CASE Board2Default
    BY <1>18 DEF Board2Default
  <1>19. CASE AnnounceBoard2
    BY <1>19 DEF AnnounceBoard2
  <1>20. CASE LeaveBoard2
    BY <1>20 DEF LeaveBoard2
  <1>21. CASE GoToLabWindow
    BY <1>21 DEF GoToLabWindow
  <1>22. CASE GoBackHome
    BY <1>22 DEF GoBackHome
  <1>23. CASE DetectBoard1Result
    <2>1. CASE IsAwaited
      <3>1. /\ pickup_done' = {} /\ fetched' = fetched
            /\ UNCHANGED <<pc, count>> /\ count = BOARD1_RECOGNIZING
        BY <1>23, <2>1 DEF DetectBoard1Result, IsAwaited
      <3> QED  BY <3>1
    <2>2. CASE ~IsAwaited
      BY <1>23, <2>2 DEF DetectBoard1Result
    <2> QED  BY <2>1, <2>2
  <1>24. CASE DetectBoard2Result
    BY <1>24 DEF DetectBoard2Result
  <1>25. CASE DeadlinePasses
    BY <1>25 DEF DeadlinePasses
  <1>26. CASE Stop
    BY <1>26 DEF Stop
  <1>27. CASE Board1Timeout
    BY <1>27 DEF Board1Timeout
  <1> QED  BY <1>1, <1>2, <1>3, <1>4, <1>5, <1>6, <1>7, <1>8, <1>9, <1>10,
      <1>11, <1>12, <1>13, <1>14, <1>15, <1>16, <1>17, <1>18, <1>19, <1>20,
      <1>21, <1>22, <1>23, <1>24, <1>25, <1>26, <1>27
      DEF NavigationStep, StandingStep, LongDriveEnds, ShortDriveEnds,
          OtherMainSteps

-----------------------------------------------------------------------------
(* Frames, histories and what the topics carry.                            *)

FrameSet == [queue : Queues \union {<<>>}, label : Labels, age : Ages]

LEMMA FrameType ==
  /\ \A f \in FrameSet :
        f.queue \in Queues \union {<<>>} /\ f.label \in Labels /\ f.age \in Ages
  /\ NoFrame \in FrameSet /\ NoFrame.age = 0 /\ NoFrame.queue = <<>>
  /\ \A q \in Queues \union {<<>>} :
        /\ [NoFrame EXCEPT !.queue = q] \in FrameSet
        /\ [NoFrame EXCEPT !.queue = q].queue = q
        /\ [NoFrame EXCEPT !.queue = q].age = 0
  /\ \A l \in Labels :
        /\ [NoFrame EXCEPT !.label = l] \in FrameSet
        /\ [NoFrame EXCEPT !.label = l].age = 0
  /\ \A f \in FrameSet, a \in Ages :
        /\ [f EXCEPT !.age = a] \in FrameSet
        /\ [f EXCEPT !.age = a].age = a
        /\ [f EXCEPT !.age = a].queue = f.queue
  <1> DEFINE readings == Queues \union {<<>>}
  <1>1. <<>> \in readings
    OBVIOUS
  <1> HIDE DEF readings
  <1> QED  BY <1>1 DEF FrameSet, NoFrame, readings

LEMMA AgedFrame ==
  ASSUME frame \in FrameSet, FramesAge
  PROVE  /\ frame' \in FrameSet
         /\ frame'.age = IF loop = "idle" THEN frame.age ELSE 1
  <1> DEFINE older == IF loop = "idle" THEN frame.age ELSE 1
  <1>1. older \in Ages
    BY FrameType
  <1>2. frame' = [frame EXCEPT !.age = older]
    BY DEF FramesAge
  <1> HIDE DEF older
  <1>3. /\ [frame EXCEPT !.age = older] \in FrameSet
        /\ [frame EXCEPT !.age = older].age = older
    BY <1>1, FrameType
  <1> QED  BY <1>2, <1>3 DEF older

LEMMA OlderType ==
  ASSUME NEW s \in Seq(Readings)
  PROVE  Older(s) \in Seq(Readings) /\ Len(Older(s)) = Len(s)
  <1> DEFINE o == Older(s)
  <1>1. DOMAIN s = 1 .. Len(s) /\ Len(s) \in Nat
    BY LenProperties
  <1>2. ASSUME NEW i \in 1 .. Len(s)
        PROVE  o[i] \in Readings
    <2>1. s[i] \in Readings /\ s[i].queue \in Queues
      BY ElementOfSeq, ReadingType
    <2>2. o[i] = [s[i] EXCEPT !.age = 1]
      BY <1>1 DEF Older
    <2>3. o[i] = [queue |-> s[i].queue, age |-> 1]
      BY <2>1, <2>2 DEF Readings
    <2>4. 1 \in Ages
      OBVIOUS
    <2> HIDE DEF o
    <2> QED  BY <2>1, <2>3, <2>4, ReadingType
  <1>3. o \in [1 .. Len(s) -> Readings]
    <2>1. o = [i \in 1 .. Len(s) |-> o[i]]
      BY <1>1 DEF Older
    <2> HIDE DEF o
    <2> QED  BY <1>2, <2>1
  <1> HIDE DEF o
  <1>4. o \in Seq(Readings)
    BY <1>1, <1>3, SeqDef
  <1>5. Len(o) = Len(s)
    BY <1>1, <1>3, <1>4, LenProperties
  <1> QED  BY <1>4, <1>5 DEF o

\* The history after a reading: it ends with the reading, and before it are
\* the last ones of the history before.
LEMMA RememberType ==
  ASSUME NEW r \in Readings,
         board1_history \in Seq(Readings),
         Len(board1_history) <= StableFrames
  PROVE  /\ Remember(r) \in Seq(Readings)
         /\ Len(Remember(r)) \in 1 .. StableFrames
         /\ Len(Remember(r)) <= Len(board1_history) + 1
         /\ Remember(r)[Len(Remember(r))] = r
         /\ \A n \in 1 .. Len(Remember(r)) - 1 :
                /\ Len(board1_history) + 1 - n \in 1 .. Len(board1_history)
                /\ Remember(r)[Len(Remember(r)) - n] =
                        board1_history[Len(board1_history) + 1 - n]
  <1> DEFINE all == Append(board1_history, r)
  <1>1. /\ all \in Seq(Readings) /\ all # <<>>
        /\ Len(all) = Len(board1_history) + 1 /\ Len(board1_history) \in Nat
        /\ \A i \in 1 .. Len(board1_history) : all[i] = board1_history[i]
        /\ all[Len(board1_history) + 1] = r
    BY AppendProperties, LenProperties
  <1>2. StableFrames \in Nat \ {0}
    BY VisionAssumption
  <1> HIDE DEF all
  <1>3. CASE Len(all) > StableFrames
    <2>1. Remember(r) = Tail(all)
      BY <1>3 DEF Remember, all
    <2>2. /\ Tail(all) \in Seq(Readings) /\ Len(Tail(all)) = Len(board1_history)
          /\ Len(board1_history) = StableFrames
          /\ \A i \in 1 .. Len(board1_history) : Tail(all)[i] = all[i + 1]
      BY <1>1, <1>2, <1>3, HeadTailProperties
    <2> QED  BY <1>1, <1>2, <2>1, <2>2
  <1>4. CASE ~(Len(all) > StableFrames)
    <2>1. Remember(r) = all
      BY <1>4 DEF Remember, all
    <2> QED  BY <1>1, <1>2, <1>4, <2>1
  <1> QED  BY <1>3, <1>4

LEMMA OldestType ==
  ASSUME NEW h \in Seq(Readings), Len(h) >= 1
  PROVE  /\ OldestOf(h) \in Ages
         /\ \E i \in 1 .. Len(h) : h[i].age = OldestOf(h)
  <1>1. DOMAIN h = 1 .. Len(h) /\ Len(h) \in Nat
    BY LenProperties
  <1>2. \A i \in DOMAIN h : h[i].age \in Ages
    BY <1>1, ElementOfSeq, ReadingType
  <1>3. CASE \E i \in DOMAIN h : h[i].age = 1
    BY <1>1, <1>3 DEF OldestOf
  <1>4. CASE ~ \E i \in DOMAIN h : h[i].age = 1
    <2>1. 1 \in DOMAIN h /\ h[1].age = 0
      BY <1>1, <1>2, <1>4
    <2> QED  BY <1>1, <1>4, <2>1 DEF OldestOf
  <1> QED  BY <1>3, <1>4

-----------------------------------------------------------------------------
(* Types of the vision node and of the topics.                             *)

VisionFlags ==
    /\ board1_published \in BOOLEAN /\ board1_error_announced \in BOOLEAN
    /\ board2_published \in BOOLEAN /\ same_visit \in BOOLEAN

VisionTypes ==
    /\ board \in Queues /\ current_nav_state \in States
    /\ callback \in {"over", "at_board1", "board1_cleared", "at_board2",
                     "board2_counted"}
    /\ board1_history \in Seq(Readings) /\ Len(board1_history) <= StableFrames
    /\ loop \in {"idle", "board1", "alert", "board1_select", "board1_flag",
                 "board2", "board2_publish", "board2_flag"}
    /\ frame \in FrameSet
    /\ misreads \in 0 .. MaxMisreads
    /\ vision_restarts \in 0 .. MaxVisionRestarts

LEMMA VisionTypeIs == VisionTypeOK <=> VisionFlags /\ VisionTypes
  BY DEF VisionTypeOK, VisionFlags, VisionTypes, Readings, FrameSet

\* Every step is one of the vision node, or one of the navigation node that
\* lets frames grow older or the board change.
VisionStep == MainLoop \/ NavStateCb \/ StartVisit \/ VisionRestart

Drive ==
    /\ LongDrive \/ ShortDrive
    /\ UNCHANGED <<frame, board1_history>> \/ FramesAge
    /\ board' \in Queues
    /\ UNCHANGED <<current_nav_state, callback, board1_published,
                   board1_error_announced, board2_published, loop, same_visit,
                   misreads, vision_restarts>>

LEMMA StepCases ==
  ASSUME IInv, Next
  PROVE  \/ VisionStep /\ UNCHANGED nav_vars
         \/ StandingStep /\ UNCHANGED vision_vars
         \/ NavigationStep /\ Drive
  <1>1. CASE LongDrive
    <2>1. NavigationStep
      BY <1>1 DEF LongDrive, NavigationStep
    <2>2. board' \in Queues
      BY <1>1 DEF LongDrive, IInv, VisionTypeOK
    <2> QED  BY <1>1, <2>1, <2>2 DEF LongDrive, Drive
  <1>2. CASE ShortDrive
    <2>1. NavigationStep
      BY <1>2 DEF ShortDrive, NavigationStep
    <2>2. board' \in Queues
      BY <1>2 DEF ShortDrive, IInv, VisionTypeOK, vision_vars
    <2> QED  BY <1>2, <2>1, <2>2 DEF ShortDrive, Drive, vision_vars
  <1> QED  BY <1>1, <1>2 DEF Next, NavigationMain, NavigationCallbacks,
      NavigationStops, VisionLoop, VisionCallback, VisionRespawn, VisionStep,
      StandingStep

LEMMA VisionFlagsKept ==
  ASSUME IInv, VisionStep
  PROVE  VisionFlags'
  <1>0. VisionFlags
    BY VisionTypeIs DEF IInv
  <1> USE <1>0 DEF VisionFlags
  <1>1. CASE MainLoop
    BY <1>1, Zenon DEF MainLoop, TakeBoard1Frame, AnnounceBoard1Error,
       AlertEnds, StablePublishBoard1, SetBoard1Published, TakeBoard2Frame,
       NoBoard2Result, CheckVisit, StablePublishBoard2, SetBoard2Published
  <1>2. CASE NavStateCb
    BY <1>2, Zenon DEF NavStateCb
  <1>3. CASE VisionRestart
    BY <1>3, Zenon DEF VisionRestart
  <1>4. CASE CountVisit
    <2>1. (loop # "board2") \in BOOLEAN
      OBVIOUS
    <2>2. UNCHANGED <<board1_published, board1_error_announced,
                      board2_published>>
      BY <1>4 DEF CountVisit
    <2>3. same_visit' = (loop # "board2")
      BY <1>4 DEF CountVisit
    <2> QED  BY <2>1, <2>2, <2>3, Zenon
  <1>5. CASE ClearReadings \/ AllowBoard1 \/ AllowBoard2
    BY <1>5, Zenon DEF ClearReadings, AllowBoard1, AllowBoard2
  <1> QED  BY <1>1, <1>2, <1>3, <1>4, <1>5 DEF VisionStep, StartVisit

\* What stable_publish_board1 appends and publishes.
LEMMA PublishBoard1 ==
  ASSUME IInv, StablePublishBoard1, frame.queue # <<>>
  PROVE  LET r == [queue |-> frame.queue, age |-> frame.age]
         IN  /\ r \in Readings /\ board1_history' = Remember(r)
             /\ \/ UNCHANGED cam_return /\ loop' = "idle"
                \/ /\ Stable(Remember(r)) /\ loop' = "board1_flag"
                   /\ cam_return' = Append(cam_return, [queue |-> frame.queue,
                                        age |-> OldestOf(Remember(r))])
  <1>1. frame.queue \in Queues /\ frame.age \in Ages
    BY VisionTypeIs, FrameType DEF IInv, VisionTypes
  <1> QED  BY <1>1, ReadingType DEF StablePublishBoard1

LEMMA VisionTypesKept ==
  ASSUME IInv, VisionStep
  PROVE  VisionTypes'
  <1>0. /\ VisionTypes /\ MaxMisreads \in Nat /\ StableFrames \in Nat \ {0}
        /\ MaxVisionRestarts \in Nat /\ TopicsTypeOK
    BY VisionTypeIs, VisionAssumption DEF IInv
  <1> USE <1>0 DEF VisionTypes
  <1>1. CASE TakeBoard1Frame
    <2>1. PICK r \in Queues \union {<<>>} :
              /\ r = board \/ misreads < MaxMisreads
              /\ Misread(r, board)
              /\ frame' = [NoFrame EXCEPT !.queue = r]
      BY <1>1 DEF TakeBoard1Frame
    <2>2. [NoFrame EXCEPT !.queue = r] \in FrameSet
      BY FrameType
    <2>3. misreads' \in 0 .. MaxMisreads
      BY <2>1 DEF Misread
    <2> QED  BY <1>1, <2>1, <2>2, <2>3 DEF TakeBoard1Frame
  <1>2. CASE AnnounceBoard1Error \/ AlertEnds \/ SetBoard1Published
             \/ CheckVisit
    BY <1>2 DEF AnnounceBoard1Error, AlertEnds, SetBoard1Published, CheckVisit
  <1>3. CASE StablePublishBoard1
    <2>1. CASE frame.queue = <<>>
      BY <1>3, <2>1, FrameType, EmptySeq DEF StablePublishBoard1
    <2>2. CASE frame.queue # <<>>
      <3>1. /\ board1_history' \in Seq(Readings)
            /\ Len(board1_history') <= StableFrames
        <4>1. Len(Remember([queue |-> frame.queue, age |-> frame.age]))
                  <= StableFrames
          BY <1>3, <2>2, PublishBoard1, RememberType
        <4> QED  BY <1>3, <2>2, <4>1, PublishBoard1, RememberType
      <3>2. loop' \in {"idle", "board1_flag"} /\ frame' = NoFrame
        BY <1>3, <2>2, PublishBoard1 DEF StablePublishBoard1
      <3> QED  BY <1>3, <3>1, <3>2, FrameType DEF StablePublishBoard1
    <2> QED  BY <2>1, <2>2
  <1>4. CASE TakeBoard2Frame
    <2>1. frame' \in FrameSet
      <3>1. \E r \in Labels : frame' = [NoFrame EXCEPT !.label = r]
        BY <1>4 DEF TakeBoard2Frame
      <3> QED  BY ONLY <3>1, FrameType
    <2>2. /\ loop' = "board2"
          /\ UNCHANGED <<board, current_nav_state, callback, board1_history>>
          /\ UNCHANGED <<board1_published, board1_error_announced>>
          /\ UNCHANGED <<board2_published, same_visit, misreads>>
          /\ UNCHANGED vision_restarts
      BY <1>4 DEF TakeBoard2Frame
    <2> QED  BY <2>1, <2>2
  <1>5. CASE NoBoard2Result
    BY <1>5, FrameType DEF NoBoard2Result
  <1>6. CASE StablePublishBoard2 \/ SetBoard2Published
    BY <1>6, FrameType DEF StablePublishBoard2, SetBoard2Published
  <1>7. CASE NavStateCb
    <2>1. Head(nav_state) \in States
      BY <1>7, FrontOfSeq DEF NavStateCb, TopicsTypeOK
    <2>2. /\ current_nav_state' = Head(nav_state)
          /\ callback' \in {"over", "at_board1", "at_board2"}
          /\ UNCHANGED <<board, board1_history, loop, frame, misreads,
                         vision_restarts>>
      BY <1>7 DEF NavStateCb
    <2> QED  BY <2>1, <2>2
  <1>9. CASE ClearReadings
    BY <1>9, EmptySeq DEF ClearReadings, Callback, OtherVision
  <1>10. CASE AllowBoard1 \/ CountVisit \/ AllowBoard2
    BY <1>10 DEF AllowBoard1, CountVisit, AllowBoard2, Callback, OtherVision
  <1>8. CASE VisionRestart
    BY <1>8, FrameType, EmptySeq DEF VisionRestart
  <1> QED  BY <1>1, <1>2, <1>3, <1>4, <1>5, <1>6, <1>7, <1>8,
      <1>9, <1>10 DEF VisionStep, MainLoop, StartVisit

LEMMA DriveTypesKept ==
  ASSUME IInv, Drive
  PROVE  VisionTypeOK'
  <1>0. VisionTypes /\ VisionFlags /\ StableFrames \in Nat
    BY VisionTypeIs, VisionAssumption DEF IInv
  <1>1. frame' \in FrameSet
    BY <1>0, AgedFrame DEF Drive, VisionTypes
  <1>2. /\ board1_history' \in Seq(Readings)
        /\ Len(board1_history') <= StableFrames
    <2>1. CASE FramesAge
      BY <1>0, <2>1, OlderType DEF FramesAge, VisionTypes
    <2> QED  BY <1>0, <2>1 DEF Drive, VisionTypes
  <1>3. VisionFlags'
    BY <1>0, Zenon DEF Drive, VisionFlags
  <1>4. /\ board' \in Queues
        /\ UNCHANGED <<current_nav_state, callback, loop, misreads,
                       vision_restarts>>
    BY DEF Drive
  <1>5. VisionTypes'
    BY <1>0, <1>1, <1>2, <1>4 DEF VisionTypes
  <1>6. (VisionTypeOK <=> VisionFlags /\ VisionTypes)'
    BY VisionTypeIs, PTL
  <1> QED  BY <1>3, <1>5, <1>6

-----------------------------------------------------------------------------
(* The topics.                                                             *)

\* The navigation node publishes count whenever it changes it.
LEMMA Publishes ==
  ASSUME IInv, NavigationStep
  PROVE  \/ UNCHANGED <<count, nav_state, latched>>
         \/ count' \in States /\ PublishNavState(count')
  <1> USE DEF IInv, Navigates, PcMatchesCount, Main, Dispatch, Quiet, SetCount,
          topics
  <1>1. CASE LongDriveEnds
    BY <1>1 DEF LongDriveEnds, ArriveBoard1Cached, ArriveBoard1, ArriveWindow,
       PassViaPoint, ArriveBoard2, Deliver, PassHome
  <1>2. CASE ShortDriveEnds
    BY <1>2 DEF ShortDriveEnds, BackOffEnds, ArriveBoard1Again
  <1>3. CASE GoToBoard1
    <2>1. count' = GO_TO_BOARD1 /\ PublishNavState(GO_TO_BOARD1)
      BY <1>3 DEF GoToBoard1
    <2> QED  BY <2>1
  <1>4. CASE GoBackHome
    <2>1. count' = GO_BACK_HOME /\ PublishNavState(GO_BACK_HOME)
      BY <1>4 DEF GoBackHome
    <2> QED  BY <2>1
  <1>5. CASE BackOff
    BY <1>5 DEF BackOff
  <1>6. CASE GiveUpWaiting
    BY <1>6 DEF GiveUpWaiting
  <1>7. CASE Renavigate
    BY <1>7 DEF Renavigate
  <1>8. CASE Board1Recognized
    BY <1>8 DEF Board1Recognized
  <1>9. CASE GoToWindow
    BY <1>9 DEF GoToWindow
  <1>10. CASE WindowsDone
    BY <1>10 DEF WindowsDone
  <1>11. CASE GoToBoard2
    BY <1>11 DEF GoToBoard2
  <1>12. CASE Board2Default
    BY <1>12 DEF Board2Default
  <1>13. CASE AnnounceBoard2
    BY <1>13 DEF AnnounceBoard2
  <1>14. CASE LeaveBoard2
    BY <1>14 DEF LeaveBoard2
  <1>15. CASE GoToLabWindow
    BY <1>15 DEF GoToLabWindow
  <1>16. CASE DetectBoard1Result \/ DetectBoard2Result \/ DeadlinePasses
             \/ Stop \/ Board1Timeout
    BY <1>16 DEF DetectBoard1Result, DetectBoard2Result, DeadlinePasses, Stop,
       Board1Timeout
  <1> QED  BY <1>1, <1>2, <1>3, <1>4, <1>5, <1>6, <1>7, <1>8, <1>9, <1>10,
      <1>11, <1>12, <1>13, <1>14, <1>15, <1>16
      DEF NavigationStep, StandingStep, OtherMainSteps

\* It takes results off the topics, and puts none on them.
LEMMA TakesResults ==
  ASSUME NavigationStep
  PROVE  /\ \/ UNCHANGED cam_return
            \/ cam_return # <<>> /\ cam_return' = Tail(cam_return)
         /\ \/ UNCHANGED board2_return
            \/ board2_return # <<>> /\ board2_return' = Tail(board2_return)
  <1> USE DEF Quiet, SetCount, PublishNavState, topics
  <1>1. CASE LongDriveEnds
    BY <1>1 DEF LongDriveEnds, ArriveBoard1Cached, ArriveBoard1, ArriveWindow,
       PassViaPoint, ArriveBoard2, Deliver, PassHome
  <1>2. CASE ShortDriveEnds
    BY <1>2 DEF ShortDriveEnds, BackOffEnds, ArriveBoard1Again
  <1>3. CASE OtherMainSteps
    BY <1>3 DEF OtherMainSteps, GoToBoard1, BackOff, GiveUpWaiting, Renavigate,
       Board1Recognized, GoToWindow, WindowsDone, GoToBoard2, Board2Default,
       AnnounceBoard2, LeaveBoard2, GoToLabWindow, GoBackHome
  <1>4. CASE DetectBoard1Result \/ DetectBoard2Result \/ DeadlinePasses
             \/ Stop \/ Board1Timeout
    BY <1>4 DEF DetectBoard1Result, DetectBoard2Result, DeadlinePasses, Stop,
       Board1Timeout
  <1> QED  BY <1>1, <1>2, <1>3, <1>4 DEF NavigationStep, StandingStep

\* What is on a topic after it was on it before.
LEMMA Leftover ==
  ASSUME NEW S, NEW s \in Seq(S), NEW t, t = s \/ (s # <<>> /\ t = Tail(s))
  PROVE  \A i \in 1 .. Len(t) : \E j \in 1 .. Len(s) : t[i] = s[j]
  <1>1. CASE t = s
    BY <1>1
  <1>2. CASE s # <<>> /\ t = Tail(s)
    <2>1. \A i \in 1 .. Len(Tail(s)) : i + 1 \in 1 .. Len(s)
                                       /\ Tail(s)[i] = s[i + 1]
      BY <1>2, FrontOfSeq
    <2> QED  BY <1>2, <2>1
  <1> QED  BY <1>1, <1>2

BoardTwoMessage == [label : Labels, age : Ages]

LEMMA StillThere ==
  ASSUME IInv, NavigationStep
  PROVE  /\ \A i \in 1 .. Len(cam_return') :
                \E j \in 1 .. Len(cam_return) : cam_return'[i] = cam_return[j]
         /\ \A i \in 1 .. Len(board2_return') :
                \E j \in 1 .. Len(board2_return) :
                    board2_return'[i] = board2_return[j]
  <1>1. /\ cam_return \in Seq(Readings)
        /\ board2_return \in Seq(BoardTwoMessage)
    BY DEF IInv, TopicsTypeOK, BoardTwoMessage
  <1>2. \/ cam_return' = cam_return
        \/ cam_return # <<>> /\ cam_return' = Tail(cam_return)
    BY TakesResults
  <1>3. \/ board2_return' = board2_return
        \/ board2_return # <<>> /\ board2_return' = Tail(board2_return)
    BY TakesResults
  <1> HIDE DEF BoardTwoMessage, Readings
  <1>4. \A i \in 1 .. Len(cam_return') :
            \E j \in 1 .. Len(cam_return) : cam_return'[i] = cam_return[j]
    BY <1>1, <1>2, Leftover
  <1>5. \A i \in 1 .. Len(board2_return') :
            \E j \in 1 .. Len(board2_return) :
                board2_return'[i] = board2_return[j]
    <2>1. ASSUME board2_return # <<>>
          PROVE  \A i \in 1 .. Len(Tail(board2_return)) :
                    /\ i + 1 \in 1 .. Len(board2_return)
                    /\ Tail(board2_return)[i] = board2_return[i + 1]
      BY <1>1, <2>1, FrontOfSeq
    <2> QED  BY <1>3, <2>1
  <1> QED  BY <1>4, <1>5

LEMMA BoardTwoMessageType ==
  \A l \in Labels, a \in Ages : [label |-> l, age |-> a] \in BoardTwoMessage
  BY DEF BoardTwoMessage

LEMMA TopicsKeptByNavigation ==
  ASSUME IInv, NavigationStep
  PROVE  TopicsTypeOK'
  <1>0. /\ nav_state \in Seq(States) /\ latched \in States \union {0}
        /\ cam_return \in Seq(Readings)
        /\ board2_return \in Seq(BoardTwoMessage)
    BY DEF IInv, TopicsTypeOK, BoardTwoMessage
  <1>1. nav_state' \in Seq(States) /\ latched' \in States \union {0}
    <2>1. CASE UNCHANGED <<count, nav_state, latched>>
      BY <1>0, <2>1
    <2>2. CASE count' \in States /\ PublishNavState(count')
      BY <1>0, <2>2, AppendProperties DEF PublishNavState
    <2> QED  BY <2>1, <2>2, Publishes
  <1>2. cam_return' \in Seq(Readings)
    BY <1>0, TakesResults, HeadTailProperties
  <1>3. board2_return' \in Seq(BoardTwoMessage)
    BY <1>0, TakesResults, HeadTailProperties
  <1> QED  BY <1>1, <1>2, <1>3 DEF TopicsTypeOK, BoardTwoMessage

LEMMA TopicsKeptByVision ==
  ASSUME IInv, VisionStep
  PROVE  TopicsTypeOK'
  <1>0. /\ nav_state \in Seq(States) /\ latched \in States \union {0}
        /\ cam_return \in Seq(Readings)
        /\ board2_return \in Seq(BoardTwoMessage) /\ VisionTypes
    BY VisionTypeIs DEF IInv, TopicsTypeOK, BoardTwoMessage
  <1> USE <1>0 DEF topics
  <1> HIDE DEF States
  <1>1. CASE StablePublishBoard1
    <2>1. CASE frame.queue = <<>>
      BY <1>1, <2>1 DEF StablePublishBoard1, TopicsTypeOK, BoardTwoMessage
    <2>2. CASE frame.queue # <<>>
      <3> DEFINE r == [queue |-> frame.queue, age |-> frame.age]
                 h == Remember(r)
                 reading == [queue |-> frame.queue, age |-> OldestOf(h)]
      <3>1. /\ r \in Readings /\ frame.queue \in Queues
            /\ \/ cam_return' = cam_return
               \/ cam_return' = Append(cam_return, reading)
        BY <1>1, <2>2, PublishBoard1, FrameType DEF VisionTypes
      <3>2. h \in Seq(Readings) /\ Len(h) >= 1
        BY <3>1, RememberType DEF VisionTypes
      <3>3. reading \in Readings
        BY <3>1, <3>2, OldestType, ReadingType
      <3> HIDE DEF r, h, reading
      <3>4. cam_return' \in Seq(Readings)
        BY <3>1, <3>3, AppendProperties
      <3> QED  BY <1>1, <3>4 DEF StablePublishBoard1, TopicsTypeOK,
                                 BoardTwoMessage
    <2> QED  BY <2>1, <2>2
  <1>2. CASE StablePublishBoard2
    <2>1. [label |-> frame.label, age |-> frame.age] \in BoardTwoMessage
      BY FrameType, BoardTwoMessageType DEF VisionTypes
    <2>2. board2_return' \in Seq(BoardTwoMessage)
      BY <1>2, <2>1, AppendProperties DEF StablePublishBoard2
    <2> QED  BY <1>2, <2>2 DEF StablePublishBoard2, TopicsTypeOK,
                               BoardTwoMessage
  <1>3. CASE TakeBoard1Frame \/ AnnounceBoard1Error \/ AlertEnds
             \/ SetBoard1Published \/ TakeBoard2Frame \/ NoBoard2Result
             \/ CheckVisit \/ SetBoard2Published
    <2>1. UNCHANGED topics
      BY <1>3 DEF TakeBoard1Frame, AnnounceBoard1Error, AlertEnds,
         SetBoard1Published, TakeBoard2Frame, NoBoard2Result, CheckVisit,
         SetBoard2Published
    <2> QED  BY <2>1 DEF TopicsTypeOK, BoardTwoMessage
  <1>4. CASE NavStateCb
    <2>1. nav_state' \in Seq(States)
      BY <1>4, FrontOfSeq DEF NavStateCb
    <2> QED  BY <1>4, <2>1 DEF NavStateCb, TopicsTypeOK, BoardTwoMessage
  <1>5. CASE VisionRestart
    <2>1. nav_state' = <<>> \/ (nav_state' = <<latched>> /\ latched \in States)
      BY <1>5 DEF VisionRestart
    <2>2. nav_state' \in Seq(States)
      <3>1. CASE nav_state' = <<>>
        BY <3>1, EmptySeq
      <3>2. CASE nav_state' = <<latched>> /\ latched \in States
        BY <3>2
      <3> QED  BY <2>1, <3>1, <3>2
    <2> QED  BY <1>5, <2>2 DEF VisionRestart, TopicsTypeOK, BoardTwoMessage
  <1>6. CASE StartVisit
    <2>1. UNCHANGED topics
      BY <1>6 DEF StartVisit, ClearReadings, AllowBoard1, CountVisit,
         AllowBoard2, OtherVision
    <2> QED  BY <2>1 DEF TopicsTypeOK, BoardTwoMessage
  <1> QED  BY <1>1, <1>2, <1>3, <1>4, <1>5, <1>6 DEF VisionStep, MainLoop

LEMMA ToldKeptByNavigation ==
  ASSUME IInv, NavigationStep, UNCHANGED current_nav_state
  PROVE  Told'
  <1>0. nav_state \in Seq(States)
    BY DEF IInv, TopicsTypeOK
  <1>1. CASE UNCHANGED <<count, nav_state, latched>>
    BY <1>1 DEF IInv, Told
  <1>2. CASE count' \in States /\ PublishNavState(count')
    <2>1. /\ nav_state' = Append(nav_state, count') /\ latched' = count'
          /\ nav_state' # <<>> /\ nav_state'[Len(nav_state')] = count'
      BY <1>0, <1>2, AppendProperties DEF PublishNavState
    <2> QED  BY <2>1 DEF Told
  <1> QED  BY <1>1, <1>2, Publishes

LEMMA ToldKeptByVision ==
  ASSUME IInv, VisionStep, UNCHANGED nav_vars
  PROVE  Told'
  <1>0. nav_state \in Seq(States) /\ count' = count
    BY DEF IInv, TopicsTypeOK, nav_vars
  <1>1. CASE MainLoop
    <2>1. UNCHANGED <<nav_state, latched, current_nav_state>>
      BY <1>1 DEF MainLoop, TakeBoard1Frame, AnnounceBoard1Error, AlertEnds,
         StablePublishBoard1, SetBoard1Published, TakeBoard2Frame,
         NoBoard2Result, CheckVisit, StablePublishBoard2, SetBoard2Published,
         topics
    <2> QED  BY <1>0, <2>1 DEF IInv, Told
  <1>2. CASE NavStateCb
    <2>1. /\ nav_state # <<>> /\ nav_state' = Tail(nav_state)
          /\ current_nav_state' = Head(nav_state) /\ latched' = latched
      BY <1>2 DEF NavStateCb
    <2>2. /\ Head(nav_state) = nav_state[1] /\ Len(nav_state) \in Nat
          /\ Len(Tail(nav_state)) = Len(nav_state) - 1 /\ Len(nav_state) >= 1
          /\ Tail(nav_state) \in Seq(States)
          /\ \A i \in 1 .. Len(Tail(nav_state)) :
                Tail(nav_state)[i] = nav_state[i + 1]
      BY <1>0, <2>1, FrontOfSeq
    <2>3. nav_state[Len(nav_state)] = count
      BY <2>1 DEF IInv, Told
    <2>4. CASE Len(nav_state) = 1
      <3>1. /\ nav_state' = <<>> /\ current_nav_state' = count
            /\ nav_state # <<>>
        BY <2>1, <2>2, <2>3, <2>4, EmptySeq
      <3> QED  BY <1>0, <2>1, <3>1 DEF IInv, Told
    <2>5. CASE Len(nav_state) > 1
      <3>1. Tail(nav_state)[Len(Tail(nav_state))] = count
        BY <2>2, <2>3, <2>5
      <3>2. Tail(nav_state) # <<>>
        <4>1. Len(Tail(nav_state)) # 0 /\ Len(<<>>) = 0
          BY <2>2, <2>5
        <4> QED  BY <4>1
      <3> QED  BY <1>0, <2>1, <3>1, <3>2 DEF IInv, Told
    <2> QED  BY <2>2, <2>4, <2>5
  <1>3. CASE VisionRestart
    <2>1. /\ latched' = latched /\ current_nav_state' = GO_TO_BOARD1
          /\ nav_state' = IF latched = 0 THEN <<>> ELSE <<latched>>
      BY <1>3 DEF VisionRestart
    <2>2. CASE latched = 0
      BY <1>0, <2>1, <2>2 DEF IInv, Told, Navigates, NavigationTypeOK
    <2>3. CASE latched # 0
      <3>1. latched = count
        BY <2>3 DEF IInv, Told
      <3>2. nav_state' = <<count>>
        BY <2>1, <2>3, <3>1
      <3>3. /\ nav_state' # <<>> /\ Len(nav_state') = 1
            /\ nav_state'[1] = count
        BY <3>2
      <3> QED  BY <1>0, <2>1, <3>1, <3>3 DEF Told
    <2> QED  BY <2>2, <2>3
  <1>4. CASE StartVisit
    <2>1. UNCHANGED <<nav_state, latched, current_nav_state>>
      BY <1>4 DEF StartVisit, ClearReadings, AllowBoard1, CountVisit,
         AllowBoard2, OtherVision, topics
    <2> QED  BY <1>0, <2>1 DEF IInv, Told
  <1> QED  BY <1>1, <1>2, <1>3, <1>4 DEF VisionStep

-----------------------------------------------------------------------------
(* The second board.                                                       *)

\* Only an arrival at a board begins its recognition.
LEMMA StandingEntersNone ==
  ASSUME IInv, StandingStep,
         count' \in {BOARD1_RECOGNIZING, BOARD2_RECOGNIZING}
  PROVE  UNCHANGED <<count, nav_state>>
  <1> USE DEF Quiet, SetCount, Dispatch, topics
  <1>1. CASE GoToBoard1
    BY <1>1 DEF GoToBoard1
  <1>2. CASE BackOff
    BY <1>2 DEF BackOff
  <1>3. CASE GiveUpWaiting
    BY <1>3 DEF GiveUpWaiting
  <1>4. CASE Renavigate
    BY <1>4 DEF Renavigate
  <1>5. CASE Board1Recognized
    BY <1>5 DEF Board1Recognized
  <1>6. CASE GoToWindow
    BY <1>6 DEF GoToWindow
  <1>7. CASE WindowsDone
    BY <1>7 DEF WindowsDone
  <1>8. CASE GoToBoard2
    BY <1>8 DEF GoToBoard2
  <1>9. CASE Board2Default
    BY <1>9 DEF Board2Default
  <1>10. CASE AnnounceBoard2
    BY <1>10 DEF AnnounceBoard2
  <1>11. CASE LeaveBoard2
    BY <1>11 DEF LeaveBoard2
  <1>12. CASE GoToLabWindow
    BY <1>12 DEF GoToLabWindow
  <1>13. CASE GoBackHome
    BY <1>13 DEF GoBackHome
  <1>14. CASE DetectBoard1Result \/ DetectBoard2Result \/ DeadlinePasses
             \/ Stop \/ Board1Timeout
    BY <1>14 DEF DetectBoard1Result, DetectBoard2Result, DeadlinePasses, Stop,
       Board1Timeout
  <1> QED  BY <1>1, <1>2, <1>3, <1>4, <1>5, <1>6, <1>7, <1>8, <1>9, <1>10,
      <1>11, <1>12, <1>13, <1>14 DEF StandingStep, OtherMainSteps

LEMMA DriveEnters ==
  ASSUME IInv, LongDrive \/ ShortDrive, count' = BOARD2_RECOGNIZING
  PROVE  LongDrive /\ ArriveBoard2
  <1> USE DEF IInv, Navigates, PcMatchesCount, Main, Quiet, SetCount, topics
  <1>1. CASE ShortDrive
    <2>1. ~BackOffEnds
      BY DEF BackOffEnds
    <2>2. ~ArriveBoard1Again
      BY DEF ArriveBoard1Again
    <2> QED  BY <1>1, <2>1, <2>2 DEF ShortDrive, ShortDriveEnds
  <1>2. CASE LongDrive
    <2>1. ~ArriveBoard1Cached
      BY DEF ArriveBoard1Cached
    <2>2. ~ArriveBoard1
      BY DEF ArriveBoard1
    <2>3. ~ArriveWindow
      BY DEF ArriveWindow
    <2>4. ~PassViaPoint
      BY DEF PassViaPoint
    <2>5. ~Deliver
      BY DEF Deliver
    <2>6. ~PassHome
      BY DEF PassHome
    <2> QED  BY <1>2, <2>1, <2>2, <2>3, <2>4, <2>5, <2>6
             DEF LongDrive, LongDriveEnds
  <1> QED  BY <1>1, <1>2

LEMMA OldIsDroppedDriving ==
  ASSUME IInv, Drive
  PROVE  OldIsDropped'
  <1>0. /\ OldIsDropped /\ VisionTypes
        /\ UNCHANGED <<loop, current_nav_state, same_visit, callback>>
    BY VisionTypeIs DEF IInv, Drive
  <1>1. CASE UNCHANGED frame
    BY <1>0, <1>1 DEF OldIsDropped, StillVisiting
  <1>2. CASE LongDrive /\ pc' \in {"at_board1", "at_board2"}
    <2>1. ArriveBoard1 \/ ArriveBoard2
      BY <1>2 DEF LongDrive, LongDriveEnds, ArriveBoard1Cached, ArriveWindow,
         PassViaPoint, Deliver, PassHome, Main
    <2>2. count \in {GO_TO_BOARD1, GO_TO_BOARD2} /\ nav_state = <<>>
      BY <1>2, <2>1 DEF ArriveBoard1, ArriveBoard2, Main, LongDrive,
         SettledForLongDrive, NothingOnItsWay, IInv, Navigates, PcMatchesCount
    <2>3. current_nav_state' # BOARD2_RECOGNIZING
      BY <1>0, <2>2 DEF IInv, Told
    <2> QED  BY <2>3 DEF OldIsDropped, StillVisiting
  <1> QED  BY <1>1, <1>2 DEF Drive, LongDrive, ShortDrive, vision_vars

LEMMA OldIsDroppedByVision ==
  ASSUME IInv, VisionStep
  PROVE  OldIsDropped'
  <1>0. OldIsDropped /\ VisionTypes
    BY VisionTypeIs DEF IInv
  <1> USE <1>0 DEF OldIsDropped, StillVisiting
  <1>1. CASE TakeBoard2Frame
    <2>1. frame'.age = 0
      BY <1>1, FrameType DEF TakeBoard2Frame
    <2> QED  BY <2>1
  <1>2. CASE TakeBoard1Frame \/ AnnounceBoard1Error \/ AlertEnds
             \/ StablePublishBoard1 \/ SetBoard1Published
    <2>1. loop' # "board2"
      BY <1>2 DEF TakeBoard1Frame, AnnounceBoard1Error, AlertEnds,
         StablePublishBoard1, SetBoard1Published
    <2> QED  BY <2>1
  <1>3. CASE NoBoard2Result \/ CheckVisit \/ StablePublishBoard2
             \/ SetBoard2Published \/ VisionRestart
    <2>1. loop' # "board2"
      BY <1>3 DEF NoBoard2Result, CheckVisit, StablePublishBoard2,
         SetBoard2Published, VisionRestart
    <2> QED  BY <2>1
  <1>4. CASE NavStateCb
    <2>1. /\ callback = "over" /\ current_nav_state' = Head(nav_state)
          /\ UNCHANGED <<loop, frame, same_visit>>
      BY <1>4 DEF NavStateCb
    <2>2. /\ current_nav_state # BOARD2_RECOGNIZING
          /\ Head(nav_state) = BOARD2_RECOGNIZING
          => callback' = "at_board2"
      BY <1>4 DEF NavStateCb, Entered
    <2> QED  BY <2>1, <2>2
  <1>5. CASE CountVisit
    BY <1>5 DEF CountVisit, OtherVision
  <1>6. CASE ClearReadings \/ AllowBoard1 \/ AllowBoard2
    BY <1>6 DEF ClearReadings, AllowBoard1, AllowBoard2, Callback, OtherVision
  <1> QED  BY <1>1, <1>2, <1>3, <1>4, <1>5, <1>6
      DEF VisionStep, MainLoop, StartVisit

-----------------------------------------------------------------------------
(* The first board.                                                        *)

\* While the car stands, a stop at the first board does not begin.
LEMMA StandingAtStop ==
  ASSUME IInv, StandingStep
  PROVE  /\ AtStop' => AtStop
         /\ \/ UNCHANGED accepted /\ (board1_received' => board1_received)
            \/ /\ cam_return # <<>> /\ accepted' = Head(cam_return)
               /\ count = BOARD1_RECOGNIZING /\ UNCHANGED count
         /\ Executing' /\ deliveries' = 0 =>
                \/ Executing /\ deliveries = 0
                \/ AtStop /\ board1_received
  <1> USE DEF AtStop, Main, Dispatch, Quiet, SetCount, AtWindows, board1_vars,
          Executing, IInv, Navigates, PcMatchesCount
  <1>1. CASE GoToBoard1
    BY <1>1 DEF GoToBoard1
  <1>2. CASE BackOff
    BY <1>2 DEF BackOff
  <1>3. CASE GiveUpWaiting
    BY <1>3 DEF GiveUpWaiting
  <1>4. CASE Renavigate
    BY <1>4 DEF Renavigate
  <1>5. CASE Board1Recognized
    BY <1>5 DEF Board1Recognized
  <1>6. CASE GoToWindow
    BY <1>6 DEF GoToWindow
  <1>7. CASE WindowsDone
    BY <1>7 DEF WindowsDone
  <1>8. CASE GoToBoard2
    BY <1>8 DEF GoToBoard2
  <1>9. CASE Board2Default
    BY <1>9 DEF Board2Default
  <1>10. CASE AnnounceBoard2
    BY <1>10 DEF AnnounceBoard2
  <1>11. CASE LeaveBoard2
    BY <1>11 DEF LeaveBoard2
  <1>12. CASE GoToLabWindow
    BY <1>12 DEF GoToLabWindow
  <1>13. CASE GoBackHome
    BY <1>13 DEF GoBackHome
  <1>14. CASE DetectBoard1Result
    <2>1. CASE IsAwaited
      BY <1>14, <2>1 DEF DetectBoard1Result, IsAwaited
    <2>2. CASE ~IsAwaited
      BY <1>14, <2>2 DEF DetectBoard1Result
    <2> QED  BY <2>1, <2>2
  <1>15. CASE DetectBoard2Result
    BY <1>15 DEF DetectBoard2Result
  <1>16. CASE DeadlinePasses \/ Stop \/ Board1Timeout
    BY <1>16 DEF DeadlinePasses, Stop, Board1Timeout
  <1> QED  BY <1>1, <1>2, <1>3, <1>4, <1>5, <1>6, <1>7, <1>8, <1>9, <1>10,
      <1>11, <1>12, <1>13, <1>14, <1>15, <1>16 DEF StandingStep, OtherMainSteps

LEMMA SeenAtBoard1KeptStanding ==
  ASSUME IInv, StandingStep, UNCHANGED vision_vars
  PROVE  SeenAtBoard1'
  <1>0. UNCHANGED <<board, current_nav_state, callback, board1_history, loop,
                    frame, misreads>>
    BY DEF vision_vars
  <1>1. TaskOfThisStop'
    <2>1. CASE UNCHANGED accepted
      BY <2>1, StandingAtStop
         DEF IInv, SeenAtBoard1, TaskOfThisStop, OfThisStop
    <2>2. CASE count' = BOARD1_RECOGNIZING
      BY <2>2 DEF TaskOfThisStop, Executing
    <2> QED  BY <2>1, <2>2, StandingAtStop
  <1>2. CASE ~AtStop'
    BY <1>1, <1>2 DEF SeenAtBoard1
  <1>3. CASE AtStop'
    <2>1. AtStop
      BY <1>3, StandingAtStop
    <2>2. /\ \A i \in 1 .. Len(cam_return) : OfThisStop(cam_return[i])
          /\ AtWork => frame.age = 0
          /\ HistoryOfThisStop \/ NotYetBegun
          /\ board1_received => OfThisStop(accepted)
      BY <2>1 DEF IInv, SeenAtBoard1
    <2>3. ASSUME NEW i \in 1 .. Len(cam_return')
          PROVE  OfThisStop(cam_return[i])'
      <3>1. PICK j \in 1 .. Len(cam_return) : cam_return'[i] = cam_return[j]
        BY StillThere DEF StandingStep, NavigationStep
      <3>2. OfThisStop(cam_return[j])
        BY <2>2
      <3> QED  BY <1>0, <3>1, <3>2 DEF OfThisStop
    <2>4. (AtWork => frame.age = 0)' /\ UNCHANGED current_nav_state
      BY <1>0, <2>2 DEF AtWork
    <2>5. (HistoryOfThisStop \/ NotYetBegun)'
      BY <1>0, <2>2 DEF AtWork, HistoryOfThisStop, Wrong, NotYetBegun
    <2>6. ASSUME board1_received' PROVE OfThisStop(accepted)'
      <3>1. CASE UNCHANGED accepted /\ board1_received
        BY <1>0, <2>2, <3>1 DEF OfThisStop
      <3>2. CASE cam_return # <<>> /\ accepted' = Head(cam_return)
        <4>1. 1 \in 1 .. Len(cam_return) /\ Head(cam_return) = cam_return[1]
          BY <3>2, FrontOfSeq DEF IInv, TopicsTypeOK
        <4>2. OfThisStop(cam_return[1])
          BY <2>2, <4>1
        <4> QED  BY <1>0, <3>2, <4>1, <4>2 DEF OfThisStop
      <3> QED  BY <2>6, <3>1, <3>2, StandingAtStop
    <2> QED  BY <1>1, <2>3, <2>4, <2>5, <2>6 DEF SeenAtBoard1
  <1> QED  BY <1>2, <1>3

LEMMA SeenAtBoard1KeptDriving ==
  ASSUME IInv, LongDrive \/ ShortDrive
  PROVE  SeenAtBoard1'
  <1> USE DEF Main
  <1>1. CASE LongDrive
    <2>0. /\ cam_return = <<>> /\ loop \in {"idle", "board2"}
          /\ UNCHANGED <<loop, current_nav_state>>
      BY <1>1 DEF LongDrive, SettledForLongDrive, NothingOnItsWay
    <2>1. CASE ArriveBoard1
      <3>1. /\ pc = "to_board1" /\ pc' = "at_board1" /\ board1_received' = FALSE
            /\ count' = BOARD1_RECOGNIZING /\ cam_return' = <<>>
            /\ nav_state = <<>>
        BY <1>1, <2>0, <2>1
           DEF ArriveBoard1, SetCount, LongDrive, SettledForLongDrive,
               NothingOnItsWay
      <3>2. current_nav_state' # BOARD1_RECOGNIZING
        BY <2>0, <3>1 DEF IInv, Told, Navigates, PcMatchesCount
      <3>3. ~AtWork'
        BY <2>0 DEF AtWork
      <3>4. TaskOfThisStop'
        BY <3>1 DEF TaskOfThisStop, Executing
      <3> QED  BY <3>1, <3>2, <3>3, <3>4 DEF SeenAtBoard1, NotYetBegun
    <2>2. CASE ArriveBoard1Cached
      <3>1. deliveries' = 1 /\ pc' = "loop"
        BY <2>2, CachedTask DEF ArriveBoard1Cached
      <3> QED  BY <3>1 DEF SeenAtBoard1, AtStop, TaskOfThisStop
    <2>3. CASE ArriveWindow \/ PassViaPoint
      <3>1. ~AtStop' /\ UNCHANGED <<count, deliveries, accepted>>
        BY <2>3 DEF ArriveWindow, PassViaPoint, AtStop, Quiet, board1_vars
      <3> QED  BY <3>1 DEF IInv, SeenAtBoard1, TaskOfThisStop, Executing
    <2>4. CASE ArriveBoard2
      <3>1. ~AtStop' /\ UNCHANGED <<deliveries, accepted>> /\ Executing
        BY <2>4 DEF ArriveBoard2, AtStop, board1_vars, IInv, Navigates,
                    PcMatchesCount, Executing
      <3> QED  BY <3>1 DEF IInv, SeenAtBoard1, TaskOfThisStop
    <2>5. CASE Deliver \/ PassHome
      <3>1. ~AtStop' /\ ~Executing'
        BY <2>5 DEF Deliver, PassHome, AtStop, SetCount, Executing
      <3> QED  BY <3>1 DEF SeenAtBoard1, TaskOfThisStop
    <2> QED  BY <1>1, <2>1, <2>2, <2>3, <2>4, <2>5 DEF LongDrive, LongDriveEnds
  <1>2. CASE ShortDrive
    <2>0. /\ AtStop /\ count \in {GO_TO_BOARD1, BOARD1_RECOGNIZING}
          /\ count' \in {GO_TO_BOARD1, BOARD1_RECOGNIZING}
          /\ cam_return' = <<>>
          /\ UNCHANGED <<accepted, board1_received, vision_vars>>
      <3>1. CASE BackOffEnds
        BY <1>2, <3>1
           DEF ShortDrive, SettledForShortDrive, NothingOnItsWay, BackOffEnds,
               AtStop, IInv, Navigates, PcMatchesCount, Quiet, board1_vars, topics
      <3>2. CASE ArriveBoard1Again
        BY <1>2, <3>2
           DEF ShortDrive, SettledForShortDrive, NothingOnItsWay,
               ArriveBoard1Again, AtStop, IInv, Navigates, PcMatchesCount,
               SetCount, board1_vars
      <3> QED  BY <1>2, <3>1, <3>2 DEF ShortDrive, ShortDriveEnds
    <2>1. /\ AtWork => frame.age = 0
          /\ HistoryOfThisStop \/ NotYetBegun
          /\ board1_received => OfThisStop(accepted)
      BY <2>0 DEF IInv, SeenAtBoard1
    <2>2. TaskOfThisStop' /\ (board1_received => OfThisStop(accepted))'
      BY <2>0, <2>1 DEF TaskOfThisStop, Executing, OfThisStop, vision_vars
    <2>3. /\ (AtWork => frame.age = 0)'
          /\ (HistoryOfThisStop \/ NotYetBegun)'
      BY <2>0, <2>1
         DEF vision_vars, AtWork, HistoryOfThisStop, Wrong, NotYetBegun
    <2> QED  BY <2>0, <2>2, <2>3 DEF SeenAtBoard1
  <1> QED  BY <1>1, <1>2

\* What the vision node does when it is not at work on a frame of the first
\* board, before or after, changes nothing of it.
Elsewhere ==
    /\ AtStop /\ ~AtWork /\ ~AtWork'
    /\ misreads' \in Nat /\ misreads <= misreads'
    /\ UNCHANGED <<board, current_nav_state, callback, board1_history,
                   cam_return, board1_received, accepted>>

LEMMA SeenElsewhere ==
  ASSUME IInv, Elsewhere
  PROVE  /\ \A i \in 1 .. Len(cam_return') : OfThisStop(cam_return[i])'
         /\ (HistoryOfThisStop \/ NotYetBegun)'
         /\ (board1_received => OfThisStop(accepted))'
  <1>1. /\ \A i \in 1 .. Len(cam_return) : OfThisStop(cam_return[i])
        /\ HistoryOfThisStop \/ NotYetBegun
        /\ board1_received => OfThisStop(accepted)
        /\ misreads \in Nat /\ misreads' \in Nat /\ misreads <= misreads'
        /\ StableFrames \in Nat
        /\ board1_history \in Seq(Readings) /\ Len(board1_history) \in Nat
    BY VisionTypeIs, VisionAssumption, LenProperties
       DEF IInv, SeenAtBoard1, Elsewhere, VisionTypes
  <1>2. \A i \in 1 .. Len(cam_return') : OfThisStop(cam_return[i])'
    BY <1>1 DEF OfThisStop, Elsewhere
  <1>3. (board1_received => OfThisStop(accepted))'
    BY <1>1 DEF OfThisStop, Elsewhere
  <1>4. ASSUME HistoryOfThisStop
        PROVE  HistoryOfThisStop'
    <2>1. \A n \in 0 .. Len(board1_history) : Wrong(n)' => Wrong(n)
      BY DEF Wrong, Elsewhere
    <2>2. \A n \in 0 .. Len(board1_history) : Wrong(n)' => misreads' >= n
      BY <1>1, <1>4, <2>1 DEF HistoryOfThisStop, Elsewhere
    <2> QED  BY <1>4, <2>2 DEF HistoryOfThisStop, Elsewhere
  <1> QED  BY <1>1, <1>2, <1>3, <1>4 DEF Elsewhere, NotYetBegun

\* A reading that is remembered, and one that is published.
LEMMA SeenAndPublished ==
  ASSUME IInv, StablePublishBoard1, AtStop
  PROVE  /\ HistoryOfThisStop'
         /\ \A i \in 1 .. Len(cam_return') : OfThisStop(cam_return[i])'
  <1>0. /\ AtWork /\ ~AtWork' /\ UNCHANGED <<board, misreads>>
    <2>1. loop \in {"board1", "board1_select"}
          /\ loop' \in {"idle", "board1_flag"} /\ UNCHANGED <<board, misreads>>
      BY DEF StablePublishBoard1
    <2> QED  BY <2>1 DEF AtWork
  <1>1. /\ HistoryOfThisStop /\ frame.age = 0
        /\ \A i \in 1 .. Len(cam_return) : OfThisStop(cam_return[i])
        /\ misreads \in Nat /\ StableFrames \in Nat \ {0} /\ VisionTypes
        /\ Len(board1_history) \in Nat /\ cam_return \in Seq(Readings)
    BY <1>0, VisionTypeIs, VisionAssumption, LenProperties
       DEF IInv, SeenAtBoard1, VisionTypes, TopicsTypeOK, NotYetBegun
  <1>2. CASE frame.queue = <<>>
    <2>1. board1_history' = <<>> /\ cam_return' = cam_return
      BY <1>2 DEF StablePublishBoard1
    <2>2. HistoryOfThisStop'
      BY <1>0, <1>1, <2>1 DEF HistoryOfThisStop
    <2> QED  BY <1>0, <1>1, <2>1, <2>2 DEF OfThisStop
  <1>3. CASE frame.queue # <<>>
    <2> DEFINE r == [queue |-> frame.queue, age |-> frame.age]
               h == Remember(r)
               published == [queue |-> frame.queue, age |-> OldestOf(h)]
    <2>1. /\ r \in Readings /\ board1_history' = h
          /\ r.queue = frame.queue /\ r.age = frame.age
          /\ published.queue = frame.queue /\ published.age = OldestOf(h)
          /\ \/ cam_return' = cam_return
             \/ Stable(h) /\ cam_return' = Append(cam_return, published)
      BY <1>3, PublishBoard1
    <2>2. /\ h \in Seq(Readings) /\ Len(h) \in 1 .. StableFrames
          /\ Len(h) <= Len(board1_history) + 1
          /\ h[Len(h)] = r
          /\ \A n \in 1 .. Len(h) - 1 :
                /\ Len(board1_history) + 1 - n \in 1 .. Len(board1_history)
                /\ h[Len(h) - n] = board1_history[Len(board1_history) + 1 - n]
      BY <1>1, <2>1, RememberType DEF VisionTypes
    <2>3. OldestOf(h) \in Ages /\ \E i \in 1 .. Len(h) : h[i].age = OldestOf(h)
      BY <2>2, OldestType
    <2> HIDE DEF r, h, published
    <2>4. ASSUME NEW i \in 1 .. Len(h)
          PROVE  h[i].age = 0
      <3>1. CASE i = Len(h)
        BY <1>1, <2>1, <2>2, <3>1
      <3>2. CASE i # Len(h)
        <4> DEFINE n == Len(h) - i
        <4>1. n \in 1 .. Len(h) - 1 /\ i = Len(h) - n
          BY <2>2, <3>2
        <4>2. /\ Len(board1_history) + 1 - n \in 1 .. Len(board1_history)
              /\ h[i] = board1_history[Len(board1_history) + 1 - n]
          BY <2>2, <4>1
        <4> QED  BY <1>1, <4>2 DEF HistoryOfThisStop
      <3> QED  BY <3>1, <3>2
    <2>5. ASSUME NEW n \in 1 .. Len(h),
                 \A i \in Len(h) - n + 1 .. Len(h) : h[i].queue # board
          PROVE  misreads >= n
      <3>1. frame.queue # board
        BY <2>1, <2>2, <2>5
      <3>2. n - 1 \in 0 .. Len(board1_history)
        BY <1>1, <2>2
      <3>3. ASSUME NEW k \in Len(board1_history) - (n - 1) + 1
                                .. Len(board1_history)
            PROVE  board1_history[k].queue # board
        <4> DEFINE m == Len(board1_history) + 1 - k
        <4>1. /\ m \in 1 .. Len(h) - 1 /\ k = Len(board1_history) + 1 - m
              /\ Len(h) - m \in Len(h) - n + 1 .. Len(h)
          BY <1>1, <2>2, <3>2
        <4>2. h[Len(h) - m] = board1_history[k]
          BY <2>2, <4>1
        <4> QED  BY <2>5, <4>1, <4>2
      <3>4. Wrong(n - 1)
        BY <3>3 DEF Wrong
      <3>5. misreads >= (n - 1) + 1
        BY <1>0, <1>1, <3>1, <3>2, <3>4 DEF HistoryOfThisStop
      <3> QED  BY <2>2, <3>5
    <2>6. HistoryOfThisStop'
      <3>1. \A i \in 1 .. Len(board1_history') : board1_history'[i].age = 0
        BY <2>1, <2>4
      <3>2. \A n \in 0 .. Len(board1_history') : Wrong(n)' => misreads' >= n
        <4>1. ASSUME NEW n \in 0 .. Len(board1_history'), Wrong(n)'
              PROVE  misreads' >= n
          <5>1. CASE n = 0
            BY <1>0, <1>1, <5>1
          <5>2. CASE n # 0
            <6>1. n \in 1 .. Len(h)
              BY <2>1, <2>2, <5>2
            <6>2. \A i \in Len(h) - n + 1 .. Len(h) : h[i].queue # board
              BY <1>0, <2>1, <4>1 DEF Wrong
            <6> QED  BY <1>0, <2>5, <6>1, <6>2
          <5> QED  BY <5>1, <5>2
        <4> QED  BY <4>1
      <3> QED  BY <1>0, <3>1, <3>2 DEF HistoryOfThisStop
    <2>7. ASSUME Stable(h)
          PROVE  published.age = 0 /\ (published.queue # board
                                            => misreads >= StableFrames)
      <3>1. published.age = 0
        BY <2>1, <2>3, <2>4
      <3>2. ASSUME frame.queue # board
            PROVE  misreads >= StableFrames
        <4>1. Len(h) = StableFrames /\ DOMAIN h = 1 .. Len(h)
          BY <2>2, <2>7, LenProperties DEF Stable
        <4>2. \A i \in 1 .. Len(h) : h[i].queue = h[1].queue
          BY <2>7, <4>1 DEF Stable
        <4>3. h[1].queue = frame.queue
          BY <2>1, <2>2, <4>2
        <4>4. /\ Len(h) \in 1 .. Len(h)
              /\ \A i \in Len(h) - Len(h) + 1 .. Len(h) : h[i].queue # board
          BY <2>2, <3>2, <4>2, <4>3
        <4>5. misreads >= Len(h)
          BY <2>5, <4>4
        <4> QED  BY <4>1, <4>5
      <3> QED  BY <2>1, <3>1, <3>2
    <2>8. \A i \in 1 .. Len(cam_return') : OfThisStop(cam_return[i])'
      <3>1. CASE cam_return' = cam_return
        BY <1>0, <1>1, <3>1 DEF OfThisStop
      <3>2. CASE Stable(h) /\ cam_return' = Append(cam_return, published)
        <4>1. /\ Len(cam_return') = Len(cam_return) + 1 /\ Len(cam_return) \in Nat
              /\ cam_return'[Len(cam_return) + 1] = published
              /\ \A i \in 1 .. Len(cam_return) : cam_return'[i] = cam_return[i]
          <5>1. published \in Readings
            BY <2>1, <2>3, FrameType, ReadingType, <1>1, <1>3
               DEF VisionTypes, published
          <5> QED  BY <1>1, <3>2, <5>1, AppendProperties, LenProperties
        <4>2. ASSUME NEW i \in 1 .. Len(cam_return')
              PROVE  OfThisStop(cam_return[i])'
          <5>1. CASE i = Len(cam_return) + 1
            BY <1>0, <2>7, <3>2, <4>1, <5>1 DEF OfThisStop
          <5>2. CASE i # Len(cam_return) + 1
            <6>1. i \in 1 .. Len(cam_return)
              BY <4>1, <5>2
            <6>2. OfThisStop(cam_return[i]) /\ cam_return'[i] = cam_return[i]
              BY <1>1, <4>1, <6>1
            <6> QED  BY <1>0, <6>2 DEF OfThisStop
          <5> QED  BY <5>1, <5>2
        <4> QED  BY <4>2
      <3> QED  BY <2>1, <3>1, <3>2
    <2> QED  BY <2>6, <2>8
  <1> QED  BY <1>2, <1>3

LEMMA SeenAtBoard1KeptByVision ==
  ASSUME IInv, VisionStep, UNCHANGED nav_vars
  PROVE  SeenAtBoard1'
  <1>0. /\ UNCHANGED <<count, pc, deliveries, board1_received, accepted>>
        /\ VisionTypes /\ misreads \in Nat /\ TaskOfThisStop
        /\ AtStop' = AtStop
    BY VisionTypeIs, VisionAssumption
       DEF nav_vars, IInv, SeenAtBoard1, VisionTypes, AtStop
  <1>1. TaskOfThisStop'
    BY <1>0 DEF TaskOfThisStop, Executing
  <1>2. CASE ~AtStop
    BY <1>0, <1>1, <1>2 DEF SeenAtBoard1
  <1>3. CASE AtStop
    <2>0. /\ \A i \in 1 .. Len(cam_return) : OfThisStop(cam_return[i])
          /\ AtWork => frame.age = 0
          /\ HistoryOfThisStop \/ NotYetBegun
          /\ board1_received => OfThisStop(accepted)
      BY <1>3 DEF IInv, SeenAtBoard1
    <2>1. CASE TakeBoard1Frame
      <3>1. PICK r \in Queues \union {<<>>} :
                Misread(r, board) /\ frame' = [NoFrame EXCEPT !.queue = r]
        BY <2>1 DEF TakeBoard1Frame
      <3>2. /\ frame'.queue = r /\ frame'.age = 0
            /\ misreads' = IF r = board THEN misreads ELSE misreads + 1
        BY <3>1, FrameType DEF Misread
      <3>3. /\ current_nav_state = BOARD1_RECOGNIZING /\ callback = "over"
            /\ loop = "idle"
            /\ UNCHANGED <<board, board1_history, cam_return>>
        BY <2>1 DEF TakeBoard1Frame, topics
      <3>4. HistoryOfThisStop'
        <4>1. HistoryOfThisStop /\ ~AtWork /\ Len(board1_history) \in Nat
          BY <1>0, <2>0, <3>3, LenProperties
             DEF AtWork, VisionTypes, NotYetBegun
        <4>2. \A n \in 0 .. Len(board1_history) : Wrong(n)' => Wrong(n)
          BY <3>3 DEF Wrong
        <4>3. \A n \in 0 .. Len(board1_history) :
                  Wrong(n)' => misreads' >= n + IF r # board THEN 1 ELSE 0
          BY <1>0, <3>2, <4>1, <4>2 DEF HistoryOfThisStop
        <4>4. \A n \in 0 .. Len(board1_history) :
                  Wrong(n)' => misreads' >= n + IF AtWork' /\ r # board
                                                   THEN 1 ELSE 0
          BY <1>0, <3>2, <4>1, <4>3
        <4> QED  BY <3>2, <3>3, <4>1, <4>4 DEF HistoryOfThisStop
      <3>5. \A i \in 1 .. Len(cam_return') : OfThisStop(cam_return[i])'
        BY <1>0, <2>0, <3>2, <3>3, VisionAssumption DEF OfThisStop
      <3>6. (board1_received => OfThisStop(accepted))'
        BY <1>0, <2>0, <3>2, <3>3, VisionAssumption DEF OfThisStop
      <3> QED  BY <1>1, <3>2, <3>4, <3>5, <3>6 DEF SeenAtBoard1
    <2>2. CASE AnnounceBoard1Error \/ AlertEnds
      <3>1. /\ AtWork /\ AtWork'
            /\ UNCHANGED <<board, current_nav_state, board1_history, cam_return,
                           frame, misreads>>
        BY <2>2 DEF AnnounceBoard1Error, AlertEnds, AtWork, topics
      <3>2. HistoryOfThisStop'
        BY <2>0, <3>1 DEF HistoryOfThisStop, Wrong, NotYetBegun
      <3> QED  BY <1>0, <1>1, <2>0, <3>1, <3>2 DEF SeenAtBoard1, OfThisStop
    <2>3. CASE StablePublishBoard1
      <3>1. ~AtWork' /\ UNCHANGED <<board, misreads>>
        <4>1. loop' \in {"idle", "board1_flag"} /\ UNCHANGED <<board, misreads>>
          BY <2>3 DEF StablePublishBoard1
        <4> QED  BY <4>1 DEF AtWork
      <3>2. (board1_received => OfThisStop(accepted))'
        BY <1>0, <2>0, <3>1 DEF OfThisStop
      <3> QED  BY <1>1, <1>3, <2>3, <3>1, <3>2, SeenAndPublished
               DEF SeenAtBoard1
    <2>4. CASE \/ SetBoard1Published \/ TakeBoard2Frame \/ CheckVisit
               \/ StablePublishBoard2 \/ SetBoard2Published
      <3>1. /\ ~AtWork /\ ~AtWork'
            /\ UNCHANGED <<board, current_nav_state, callback, board1_history,
                           cam_return, misreads>>
        BY <2>4 DEF SetBoard1Published, TakeBoard2Frame, CheckVisit,
           StablePublishBoard2, SetBoard2Published, AtWork, topics
      <3>2. Elsewhere
        BY <1>0, <1>3, <3>1 DEF Elsewhere
      <3> QED  BY <1>1, <3>1, <3>2, SeenElsewhere DEF SeenAtBoard1
    <2>5. CASE NoBoard2Result
      <3>1. /\ ~AtWork /\ ~AtWork'
            /\ UNCHANGED <<board, current_nav_state, callback, board1_history,
                           cam_return>>
            /\ misreads' = misreads \/ misreads' = misreads + 1
        BY <2>5 DEF NoBoard2Result, AtWork, topics
      <3>2. Elsewhere
        BY <1>0, <1>3, <3>1 DEF Elsewhere
      <3> QED  BY <1>1, <3>1, <3>2, SeenElsewhere DEF SeenAtBoard1
    <2>6. CASE NavStateCb
      <3>1. /\ callback = "over" /\ current_nav_state' = Head(nav_state)
            /\ UNCHANGED <<board, loop, frame, misreads, cam_return,
                           board1_history>>
            /\ Entered(BOARD1_RECOGNIZING) => callback' = "at_board1"
        BY <2>6 DEF NavStateCb, Entered
      <3>2. AtWork' <=> AtWork
        BY <3>1 DEF AtWork
      <3>3. (HistoryOfThisStop \/ NotYetBegun)'
        <4>1. CASE HistoryOfThisStop
          BY <3>1, <3>2, <4>1 DEF HistoryOfThisStop, Wrong
        <4>2. CASE NotYetBegun
          BY <3>1, <3>2, <4>2 DEF NotYetBegun, Entered
        <4> QED  BY <2>0, <4>1, <4>2
      <3> QED  BY <1>0, <1>1, <2>0, <3>1, <3>2, <3>3
               DEF SeenAtBoard1, OfThisStop
    <2>8. CASE ClearReadings
      <3>1. /\ board1_history' = <<>> /\ (AtWork' <=> AtWork)
            /\ UNCHANGED <<board, loop, frame, misreads, cam_return>>
        BY <2>8 DEF ClearReadings, OtherVision, AtWork, topics
      <3>2. misreads >= 0 + IF AtWork /\ frame.queue # board THEN 1 ELSE 0
        <4>1. CASE HistoryOfThisStop
          <5>1. Len(board1_history) \in Nat
            BY <1>0, LenProperties DEF VisionTypes
          <5>2. 0 \in 0 .. Len(board1_history) /\ Wrong(0)
            BY <5>1 DEF Wrong
          <5> QED  BY <4>1, <5>2 DEF HistoryOfThisStop
        <4>2. CASE ~AtWork
          BY <1>0, <4>2
        <4> QED  BY <2>0, <4>1, <4>2 DEF NotYetBegun
      <3>3. HistoryOfThisStop'
        BY <3>1, <3>2 DEF HistoryOfThisStop
      <3> QED  BY <1>0, <1>1, <2>0, <3>1, <3>3 DEF SeenAtBoard1, OfThisStop
    <2>9. CASE AllowBoard1 \/ CountVisit \/ AllowBoard2
      <3>1. /\ callback # "at_board1" /\ (AtWork' <=> AtWork)
            /\ UNCHANGED <<board, current_nav_state, loop, misreads, cam_return,
                           board1_history>>
            /\ frame' = frame
        BY <2>9 DEF AllowBoard1, CountVisit, AllowBoard2, Callback,
           OtherVision, AtWork, topics
      <3>2. (HistoryOfThisStop \/ NotYetBegun)'
        <4>1. CASE HistoryOfThisStop
          BY <3>1, <4>1 DEF HistoryOfThisStop, Wrong
        <4>2. CASE NotYetBegun
          BY <3>1, <4>2 DEF NotYetBegun
        <4> QED  BY <2>0, <4>1, <4>2
      <3> QED  BY <1>0, <1>1, <2>0, <3>1, <3>2 DEF SeenAtBoard1, OfThisStop
    <2>7. CASE VisionRestart
      <3>1. /\ board1_history' = <<>> /\ ~AtWork'
            /\ UNCHANGED <<board, misreads, cam_return>>
        BY <2>7 DEF VisionRestart, AtWork
      <3>2. HistoryOfThisStop'
        BY <1>0, <3>1 DEF HistoryOfThisStop
      <3> QED  BY <1>0, <1>1, <2>0, <3>1, <3>2 DEF SeenAtBoard1, OfThisStop
    <2> QED  BY <2>1, <2>2, <2>3, <2>4, <2>5, <2>6, <2>7, <2>8, <2>9
        DEF VisionStep, MainLoop, StartVisit
  <1> QED  BY <1>2, <1>3

-----------------------------------------------------------------------------
(* The invariant.                                                          *)

LEMMA InitInvariant == Init => IInv
  <1> SUFFICES ASSUME Init PROVE IInv
    OBVIOUS
  <1> USE DEF Init, TopicsInit, NavigationInit, VisionInit
  <1>1. NavigationTypeOK
    <2>1. task \in Tasks /\ pending_board1_tasks \in Seq(Tasks)
      <3>1. task = NoTask /\ pending_board1_tasks = <<>>
        OBVIOUS
      <3> QED  BY <3>1, TaskType, EmptySeq
    <2>2. Flags
      BY DEF Flags
    <2>3. /\ count \in States /\ pickup_done \subseteq Windows
          /\ deliveries \in 0 .. 2 /\ stage \in 0 .. 2
          /\ board2_result \in Labels /\ pc = "loop" /\ teb = "own"
      OBVIOUS
    <2> HIDE DEF Init, TopicsInit, NavigationInit, VisionInit
    <2> QED  BY <2>1, <2>2, <2>3 DEF NavigationTypeOK, Flags
  <1>2. HistoryTypeOK
    BY EmptySeq DEF HistoryTypeOK
  <1>3. PcMatchesCount /\ StandsStill
    BY DEF PcMatchesCount, StandsStill
  <1>4. Batch /\ Load
    BY DEF Batch, Load, LoadIsComplete, Executing, AtStop
  <1>5. VisionTypeOK
    <2>1. VisionFlags
      BY DEF VisionFlags
    <2>2. /\ board1_history \in Seq(Readings)
          /\ Len(board1_history) <= StableFrames
      BY EmptySeq, VisionAssumption
    <2>3. VisionTypes
      BY <2>2, FrameType, VisionAssumption DEF VisionTypes
    <2> QED  BY <2>1, <2>3, VisionTypeIs
  <1>6. TopicsTypeOK
    BY EmptySeq DEF TopicsTypeOK
  <1>7. Told /\ OldIsDropped /\ SeenAtBoard1
    BY DEF Told, OldIsDropped, SeenAtBoard1, TaskOfThisStop,
       Executing, AtStop
  <1> QED  BY <1>1, <1>2, <1>3, <1>4, <1>5, <1>6, <1>7 DEF IInv, Navigates

LEMMA NavigatesKept ==
  ASSUME IInv, NavigationStep
  PROVE  Navigates'
  BY PlaceKept, NavigationTypesKept, BatchKept, LoadKept DEF Navigates

LEMMA NextKeeps == IInv /\ [Next]_mission_vars => IInv'
  <1> SUFFICES ASSUME IInv, [Next]_mission_vars PROVE IInv'
    OBVIOUS
  <1>0. (VisionTypeOK <=> VisionFlags /\ VisionTypes)'
    BY VisionTypeIs, PTL
  <1>1. CASE VisionStep /\ UNCHANGED nav_vars
    <2>1. Navigates'
      <3>1. NavigationTypeOK' /\ HistoryTypeOK' /\ PcMatchesCount'
        BY <1>1 DEF nav_vars, IInv, Navigates, NavigationTypeOK, HistoryTypeOK,
                    PcMatchesCount
      <3>2. StandsStill' /\ Batch' /\ Load'
        BY <1>1 DEF nav_vars, IInv, Navigates, StandsStill, Batch, Load,
           Executing, AtStop, Follows, LoadIsComplete, StillToFetch
      <3> QED  BY <3>1, <3>2 DEF Navigates
    <2>2. VisionTypeOK'
      BY <1>0, <1>1, VisionFlagsKept, VisionTypesKept
    <2>3. TopicsTypeOK' /\ Told'
      BY <1>1, TopicsKeptByVision, ToldKeptByVision
    <2>4. OldIsDropped' /\ SeenAtBoard1'
      BY <1>1, OldIsDroppedByVision, SeenAtBoard1KeptByVision
    <2> QED  BY <2>1, <2>2, <2>3, <2>4 DEF IInv
  <1>2. CASE StandingStep /\ UNCHANGED vision_vars
    <2>0. NavigationStep /\ UNCHANGED current_nav_state
      BY <1>2 DEF StandingStep, NavigationStep, vision_vars
    <2>1. VisionTypeOK'
      <3>1. VisionFlags'
        BY <1>2, VisionTypeIs, Zenon DEF vision_vars, IInv, VisionFlags
      <3>2. VisionTypes'
        BY <1>2, VisionTypeIs DEF vision_vars, IInv, VisionTypes
      <3> QED  BY <1>0, <3>1, <3>2
    <2>2. Navigates' /\ TopicsTypeOK' /\ Told'
      BY <2>0, NavigatesKept, TopicsKeptByNavigation, ToldKeptByNavigation
    <2>3. OldIsDropped' /\ SeenAtBoard1'
      <3>1. OldIsDropped'
        BY <1>2 DEF vision_vars, IInv, OldIsDropped, StillVisiting
      <3> QED  BY <1>2, <3>1, SeenAtBoard1KeptStanding
    <2> QED  BY <2>1, <2>2, <2>3 DEF IInv
  <1>3. CASE NavigationStep /\ Drive
    <2>1. VisionTypeOK'
      BY <1>3, DriveTypesKept
    <2>2. Navigates' /\ TopicsTypeOK' /\ Told'
      BY <1>3, NavigatesKept, TopicsKeptByNavigation, ToldKeptByNavigation
         DEF Drive
    <2>3. OldIsDropped' /\ SeenAtBoard1'
      BY <1>3, OldIsDroppedDriving, SeenAtBoard1KeptDriving DEF Drive
    <2> QED  BY <2>1, <2>2, <2>3 DEF IInv
  <1>4. CASE UNCHANGED mission_vars
    <2>1. UNCHANGED <<topics, nav_vars, vision_vars>>
      BY <1>4 DEF mission_vars
    <2>2. Navigates'
      <3>1. NavigationTypeOK' /\ HistoryTypeOK' /\ PcMatchesCount'
        BY <2>1 DEF nav_vars, IInv, Navigates, NavigationTypeOK, HistoryTypeOK,
                    PcMatchesCount
      <3>2. StandsStill' /\ Batch' /\ Load'
        BY <2>1 DEF nav_vars, IInv, Navigates, StandsStill, Batch, Load,
           Executing, AtStop, Follows, LoadIsComplete, StillToFetch
      <3> QED  BY <3>1, <3>2 DEF Navigates
    <2>3. VisionTypeOK'
      <3>1. VisionFlags'
        BY <2>1, VisionTypeIs, Zenon DEF vision_vars, IInv, VisionFlags
      <3>2. VisionTypes'
        BY <2>1, VisionTypeIs DEF vision_vars, IInv, VisionTypes
      <3> QED  BY <1>0, <3>1, <3>2
    <2>4. TopicsTypeOK' /\ Told'
      BY <2>1 DEF topics, nav_vars, vision_vars, IInv, TopicsTypeOK, Told
    <2>5. OldIsDropped'
      BY <2>1 DEF vision_vars, IInv, OldIsDropped, StillVisiting
    <2>6. SeenAtBoard1'
      BY <2>1 DEF topics, nav_vars, vision_vars, IInv, SeenAtBoard1, AtStop,
         AtWork, OfThisStop, HistoryOfThisStop, Wrong, NotYetBegun,
         TaskOfThisStop, Executing
    <2> QED  BY <2>2, <2>3, <2>4, <2>5, <2>6 DEF IInv
  <1> QED  BY <1>1, <1>2, <1>3, <1>4, StepCases

THEOREM MissionInvariant == Spec => []IInv
  BY InitInvariant, NextKeeps, PTL DEF Spec

-----------------------------------------------------------------------------
(* Theorems.                                                               *)

\* Every variable of the two nodes and of the topics has its type: a task is
\* never taken from an empty queue, no deliveries are counted past two, and
\* the history of readings never outgrows its deque.
THEOREM TypeCorrect == Spec => []TypeOK
  <1>1. IInv => TypeOK
    BY DEF IInv, Navigates, TypeOK
  <1> QED  BY <1>1, MissionInvariant, PTL

\* What a queue has from a place on.
LEMMA FromPlace ==
  ASSUME NEW q \in Seq(Tasks), NEW n \in Nat, n < Len(q)
  PROVE  <<q[n + 1]>> \o SubSeq(q, n + 2, Len(q)) = SubSeq(q, n + 1, Len(q))
  <1>1. Len(q) \in Nat
    BY LenProperties
  <1>2. /\ n + 1 \in Int /\ Len(q) \in Int /\ n + 1 <= Len(q)
        /\ n + 1 \in 1 .. Len(q) /\ (n + 1) + 1 = n + 2
    BY <1>1
  <1>3. SubSeq(q, n + 1, Len(q)) = <<q[n + 1]>> \o SubSeq(q, (n + 1) + 1, Len(q))
    BY <1>2, SubSeqRecursiveFirst
  <1> QED  BY <1>2, <1>3

\* Whatever the queue, in recoveries, with repeated and late results and over
\* the way home, the car works off the queue of the last recognition in its
\* order (pending_board1_tasks, deliveries_since_board1_recognition).
THEOREM QueueIsFollowed == Spec => []BatchFollowed
  <1>1. IInv => BatchFollowed
    <2> SUFFICES ASSUME IInv, Executing
                 PROVE  /\ deliveries < Len(accepted.queue)
                        /\ <<task>> \o pending_board1_tasks =
                            SubSeq(accepted.queue, deliveries + 1,
                                   Len(accepted.queue))
      BY DEF BatchFollowed
    <2>1. /\ deliveries \in Nat /\ accepted.queue \in Seq(Tasks)
          /\ Follows(deliveries)
      BY DEF IInv, Navigates, Batch, HistoryTypeOK
    <2> QED  BY <2>1, FromPlace DEF Follows
  <1> QED  BY <1>1, MissionInvariant, PTL

\* The load delivered is that of the task (pickup_*_done).
THEOREM LoadsAreComplete == Spec => []LoadIsComplete
  <1>1. IInv => LoadIsComplete
    BY DEF IInv, Navigates, Load
  <1> QED  BY <1>1, MissionInvariant, PTL

\* However long a detection takes: what was seen before the car came to the
\* second board passes the check of state and visit only between the two
\* assignments of nav_state_cb (board2_visit).
THEOREM OldLabelsDropped == Spec => OldLabelsAreDropped
  <1> DEFINE Dropped == frame.age > 0 /\ loop = "board2"
                        /\ loop' = "board2_publish" => callback = "at_board2"
  <1>1. ASSUME IInv, [Next]_mission_vars
        PROVE  Dropped
    <2>1. CASE VisionStep
      <3>1. CASE CheckVisit
        BY <1>1, <3>1 DEF CheckVisit, IInv, OldIsDropped
      <3>2. CASE ~CheckVisit
        BY <2>1, <3>2 DEF VisionStep, MainLoop, StartVisit, TakeBoard1Frame,
           AnnounceBoard1Error, AlertEnds, StablePublishBoard1,
           SetBoard1Published, TakeBoard2Frame, NoBoard2Result,
           StablePublishBoard2, SetBoard2Published, NavStateCb, ClearReadings,
           AllowBoard1, CountVisit, AllowBoard2, OtherVision, VisionRestart
      <3> QED  BY <3>1, <3>2
    <2>2. CASE loop' = loop
      BY <2>2
    <2> HIDE DEF Dropped
    <2> QED  BY <1>1, <2>1, <2>2, StepCases
             DEF Drive, vision_vars, mission_vars
  <1> HIDE DEF Dropped
  <1>2. Spec => [][Dropped]_mission_vars
    BY <1>1, MissionInvariant, PTL DEF Spec
  <1> QED  BY <1>2 DEF OldLabelsAreDropped, Dropped

\* As long as no detection outlasts a round, whatever can be published while
\* the car is at the second board was seen there.
SeenAtBoard2 ==
    count = BOARD2_RECOGNIZING =>
        /\ \A i \in 1 .. Len(board2_return) : board2_return[i].age = 0
        /\ loop \in {"board2", "board2_publish"} => frame.age = 0

LEMMA SeenAtBoard2KeptDriving ==
  ASSUME ~SlowDetection, IInv, LongDrive \/ ShortDrive
  PROVE  SeenAtBoard2'
  <1>1. CASE count' = BOARD2_RECOGNIZING
    <2>1. LongDrive /\ ArriveBoard2
      BY <1>1, DriveEnters
    <2>2. /\ board2_return = <<>> /\ loop' = "idle"
      BY <2>1 DEF LongDrive, SettledForLongDrive, NothingOnItsWay,
         ArriveBoard2, Main
    <2>3. board2_return' = <<>>
      BY <2>1, <2>2 DEF ArriveBoard2
    <2> QED  BY <2>2, <2>3 DEF SeenAtBoard2
  <1>2. CASE count' # BOARD2_RECOGNIZING
    BY <1>2 DEF SeenAtBoard2
  <1> QED  BY <1>1, <1>2

LEMMA SeenAtBoard2KeptStanding ==
  ASSUME IInv, SeenAtBoard2, StandingStep, UNCHANGED vision_vars
  PROVE  SeenAtBoard2'
  <1> SUFFICES ASSUME count' = BOARD2_RECOGNIZING
               PROVE  /\ \A i \in 1 .. Len(board2_return') :
                            board2_return'[i].age = 0
                      /\ loop' \in {"board2", "board2_publish"} =>
                            frame'.age = 0
    BY DEF SeenAtBoard2
  <1>1. count = BOARD2_RECOGNIZING
    BY StandingEntersNone
  <1>2. \A i \in 1 .. Len(board2_return') :
            \E j \in 1 .. Len(board2_return) :
                board2_return'[i] = board2_return[j]
    BY StillThere DEF StandingStep, NavigationStep
  <1> QED  BY <1>1, <1>2 DEF SeenAtBoard2, vision_vars

LEMMA SeenAtBoard2KeptByVision ==
  ASSUME IInv, SeenAtBoard2, VisionStep, UNCHANGED nav_vars
  PROVE  SeenAtBoard2'
  <1>0. count' = count /\ VisionTypes
    BY VisionTypeIs DEF nav_vars, IInv
  <1> USE <1>0 DEF SeenAtBoard2, topics
  <1>1. CASE TakeBoard2Frame
    <2>1. frame'.age = 0
      BY <1>1, FrameType DEF TakeBoard2Frame
    <2> QED  BY <1>1, <2>1 DEF TakeBoard2Frame
  <1>2. CASE TakeBoard1Frame \/ AnnounceBoard1Error \/ AlertEnds
             \/ StablePublishBoard1 \/ SetBoard1Published
             \/ SetBoard2Published \/ NoBoard2Result \/ VisionRestart
    <2>1. /\ loop' \notin {"board2", "board2_publish"}
          /\ UNCHANGED board2_return
      BY <1>2 DEF TakeBoard1Frame, AnnounceBoard1Error, AlertEnds,
         StablePublishBoard1, SetBoard1Published, SetBoard2Published,
         NoBoard2Result, VisionRestart
    <2> QED  BY <2>1
  <1>3. CASE CheckVisit \/ NavStateCb \/ StartVisit
    <2>1. /\ UNCHANGED <<frame, board2_return>>
          /\ loop' \in {"board2", "board2_publish"} =>
                loop \in {"board2", "board2_publish"}
      BY <1>3 DEF CheckVisit, NavStateCb, StartVisit, ClearReadings,
         AllowBoard1, CountVisit, AllowBoard2, OtherVision
    <2> QED  BY <2>1
  <1>4. CASE StablePublishBoard2
    <2> DEFINE msg == [label |-> frame.label, age |-> frame.age]
    <2>1. /\ board2_return' = Append(board2_return, msg)
          /\ loop = "board2_publish" /\ loop' = "board2_flag"
          /\ msg.age = frame.age
      BY <1>4 DEF StablePublishBoard2
    <2>2. board2_return \in Seq(BoardTwoMessage) /\ msg \in BoardTwoMessage
      BY FrameType, BoardTwoMessageType
         DEF VisionTypes, IInv, TopicsTypeOK, BoardTwoMessage
    <2> HIDE DEF msg
    <2> QED  BY <2>1, <2>2, AppendProperties
  <1> QED  BY <1>1, <1>2, <1>3, <1>4 DEF VisionStep, MainLoop

\* If a detection never takes longer than a round, the label that is adopted
\* was seen at this stop at the second board, whichever messages and results
\* are late (board2_visit, accept_board2_result).
THEOREM Board2ResultIsFresh ==
  ASSUME ~SlowDetection
  PROVE  Spec => FreshBoard2Result
  <1> DEFINE Fresh == DetectBoard2Result /\ ~board2_received /\ board2_received'
                        => Head(board2_return).age = 0
  <1>1. Init => SeenAtBoard2
    BY DEF Init, NavigationInit, SeenAtBoard2
  <1>2. ASSUME IInv, SeenAtBoard2, [Next]_mission_vars
        PROVE  SeenAtBoard2'
    <2>1. CASE UNCHANGED mission_vars
      BY <1>2, <2>1
         DEF mission_vars, topics, nav_vars, vision_vars, SeenAtBoard2
    <2> QED  BY <1>2, <2>1, StepCases, SeenAtBoard2KeptByVision,
             SeenAtBoard2KeptStanding, SeenAtBoard2KeptDriving DEF Drive
  <1>3. ASSUME IInv, SeenAtBoard2
        PROVE  Fresh
    <2> SUFFICES ASSUME DetectBoard2Result, ~board2_received, board2_received'
                 PROVE  Head(board2_return).age = 0
      OBVIOUS
    <2>1. /\ board2_return \in Seq(BoardTwoMessage) /\ board2_return # <<>>
          /\ count = BOARD2_RECOGNIZING
      BY <1>3 DEF DetectBoard2Result, CanAccept, IInv, TopicsTypeOK,
         BoardTwoMessage
    <2>2. /\ 1 \in 1 .. Len(board2_return)
          /\ Head(board2_return) = board2_return[1]
      BY <2>1, FrontOfSeq
    <2> QED  BY <1>3, <2>1, <2>2 DEF SeenAtBoard2
  <1> HIDE DEF Fresh
  <1>4. Spec => [][Fresh]_mission_vars
    BY <1>1, <1>2, <1>3, MissionInvariant, PTL DEF Spec
  <1> QED  BY <1>4 DEF FreshBoard2Result, Fresh

\* The car reads a board, and backs off, with no goal of its own active; the
\* relaxed tolerances are never left on (move_to_board2, pass home).
THEOREM StopsAtBoards == Spec => []StopsExactlyAtBoards
  <1>1. IInv => StopsExactlyAtBoards
    BY DEF IInv, Navigates, StandsStill, StopsExactlyAtBoards
  <1> QED  BY <1>1, MissionInvariant, PTL

\* The first task of a batch was read at the stop before it (nav_state_cb
\* clears the history, handle_go_to_board1 the flag).
THEOREM TasksOfTheStop == Spec => []TaskOfThisStop
  <1>1. IInv => TaskOfThisStop
    BY DEF IInv, SeenAtBoard1
  <1> QED  BY <1>1, MissionInvariant, PTL

\* Fewer misread frames than BOARD1_STABLE_FRAMES never give a wrong task,
\* whatever resets, respawns and repeated results come between them.
THEOREM TasksAreShown == Spec => []TaskAsShown
  <1>1. IInv => TaskAsShown
    <2> SUFFICES ASSUME IInv, count = BOARD1_RECOGNIZING, board1_received,
                        misreads < StableFrames
                 PROVE  accepted.queue = board
      BY DEF TaskAsShown
    <2>1. AtStop
      BY DEF IInv, Navigates, NavigationTypeOK, PcMatchesCount, AtStop
    <2>2. OfThisStop(accepted)
      BY <2>1 DEF IInv, SeenAtBoard1
    <2>3. misreads \in Nat /\ StableFrames \in Nat
      BY VisionTypeIs, VisionAssumption DEF IInv, VisionTypes
    <2> QED  BY <2>2, <2>3 DEF OfThisStop
  <1> QED  BY <1>1, MissionInvariant, PTL

\* What detect_board1_result accepted during a stop is not replaced by what
\* comes later in the same stop.
THEOREM FirstTaskStays == Spec => FirstTaskIsKept
  <1> DEFINE Kept ==
        /\ board1_received /\ board1_received'
        /\ pc \in {"at_board1", "reversing", "renavigate", "to_board1_again"}
        => UNCHANGED <<task, pending_board1_tasks>>
  <1>1. ASSUME IInv, [Next]_mission_vars
        PROVE  Kept
    <2> USE DEF Main, Dispatch, board1_vars, AtWindows
    <2>1. CASE UNCHANGED nav_vars
      BY <2>1 DEF nav_vars
    <2>2. CASE LongDriveEnds
      <3>1. CASE ArriveBoard1Cached
        BY <3>1 DEF ArriveBoard1Cached
      <3>2. CASE Deliver
        BY <3>2 DEF Deliver
      <3>3. CASE ArriveBoard1 \/ ArriveWindow \/ PassViaPoint
                 \/ ArriveBoard2 \/ PassHome
        BY <3>3 DEF ArriveBoard1, ArriveWindow, PassViaPoint, ArriveBoard2,
           PassHome
      <3> QED  BY <2>2, <3>1, <3>2, <3>3 DEF LongDriveEnds
    <2>3. CASE ShortDriveEnds
      BY <2>3 DEF ShortDriveEnds, BackOffEnds, ArriveBoard1Again
    <2>4. CASE OtherMainSteps
      BY <2>4 DEF OtherMainSteps, GoToBoard1, BackOff, GiveUpWaiting,
         Renavigate, Board1Recognized, GoToWindow, WindowsDone, GoToBoard2,
         Board2Default, AnnounceBoard2, LeaveBoard2, GoToLabWindow, GoBackHome
    <2>5. CASE DetectBoard1Result
      BY <2>5 DEF DetectBoard1Result, IsAwaited
    <2>6. CASE DetectBoard2Result \/ DeadlinePasses \/ Stop \/ Board1Timeout
      BY <2>6 DEF DetectBoard2Result, DeadlinePasses, Stop, Board1Timeout
    <2>7. CASE UNCHANGED mission_vars
      BY <2>7 DEF mission_vars, nav_vars
    <2> HIDE DEF Kept
    <2> QED  BY <1>1, <2>1, <2>2, <2>3, <2>4, <2>5, <2>6, <2>7, StepCases
             DEF NavigationStep, StandingStep
  <1> HIDE DEF Kept
  <1>2. Spec => [][Kept]_mission_vars
    BY <1>1, MissionInvariant, PTL DEF Spec
  <1> QED  BY <1>2 DEF FirstTaskIsKept, Kept

\* accept_board2_result under its lock: a second result, or the default after
\* the deadline, does not replace the one adopted.
THEOREM Board2ResultStays == Spec => Board2ResultIsFinal
  <1> DEFINE Kept == board2_received /\ board2_received'
                        => UNCHANGED board2_result
  <1>1. ASSUME IInv, [Next]_mission_vars
        PROVE  Kept
    <2> USE DEF board2_vars
    <2>1. CASE UNCHANGED nav_vars
      BY <2>1 DEF nav_vars
    <2>2. CASE LongDriveEnds
      BY <2>2 DEF LongDriveEnds, ArriveBoard1Cached, ArriveBoard1,
         ArriveWindow, PassViaPoint, ArriveBoard2, Deliver, PassHome
    <2>3. CASE ShortDriveEnds
      BY <2>3 DEF ShortDriveEnds, BackOffEnds, ArriveBoard1Again
    <2>4. CASE GoToBoard2
      BY <2>4 DEF GoToBoard2
    <2>5. CASE Board2Default
      BY <2>5 DEF Board2Default, CanAccept
    <2>6. CASE \/ GoToBoard1 \/ BackOff \/ GiveUpWaiting \/ Renavigate
               \/ Board1Recognized \/ GoToWindow \/ WindowsDone
      BY <2>6 DEF GoToBoard1, BackOff, GiveUpWaiting, Renavigate,
         Board1Recognized, GoToWindow, WindowsDone
    <2>7. CASE AnnounceBoard2 \/ LeaveBoard2 \/ GoToLabWindow \/ GoBackHome
      BY <2>7 DEF AnnounceBoard2, LeaveBoard2, GoToLabWindow, GoBackHome
    <2>8. CASE DetectBoard2Result
      BY <2>8 DEF DetectBoard2Result, CanAccept
    <2>9. CASE DetectBoard1Result \/ DeadlinePasses \/ Stop \/ Board1Timeout
      BY <2>9 DEF DetectBoard1Result, DeadlinePasses, Stop, Board1Timeout
    <2>10. CASE UNCHANGED mission_vars
      BY <2>10 DEF mission_vars, nav_vars
    <2> HIDE DEF Kept
    <2> QED  BY <1>1, <2>1, <2>2, <2>3, <2>4, <2>5, <2>6, <2>7, <2>8, <2>9,
             <2>10, StepCases
             DEF NavigationStep, StandingStep, OtherMainSteps
  <1> HIDE DEF Kept
  <1>2. Spec => [][Kept]_mission_vars
    BY <1>1, MissionInvariant, PTL DEF Spec
  <1> QED  BY <1>2 DEF Board2ResultIsFinal, Kept

-----------------------------------------------------------------------------
(* At the first board the car never waits in vain.                         *)

\* While the car stands and waits, what it waits for stays.
LEMMA StillWaits ==
  ASSUME IInv, StandingStep,
         up', count' = BOARD1_RECOGNIZING, ~board1_received'
  PROVE  /\ up /\ count = BOARD1_RECOGNIZING /\ ~board1_received
         /\ UNCHANGED <<nav_state, cam_return>>
  <1>1. UNCHANGED <<count, nav_state>>
    BY StandingEntersNone
  <1> USE <1>1 DEF Main, Dispatch, Quiet, SetCount, AtWindows, topics,
          board1_vars, IInv, Navigates, PcMatchesCount
  <1>2. CASE GoToBoard1
    BY <1>2 DEF GoToBoard1
  <1>3. CASE BackOff \/ GiveUpWaiting
    BY <1>3 DEF BackOff, GiveUpWaiting
  <1>4. CASE Renavigate
    BY <1>4 DEF Renavigate
  <1>5. CASE Board1Recognized
    BY <1>5 DEF Board1Recognized
  <1>6. CASE WindowsDone
    BY <1>6 DEF WindowsDone
  <1>7. CASE LeaveBoard2
    BY <1>7 DEF LeaveBoard2
  <1>8. CASE GoToWindow
    BY <1>8 DEF GoToWindow
  <1>9. CASE GoToBoard2
    BY <1>9 DEF GoToBoard2
  <1>10. CASE Board2Default
    BY <1>10 DEF Board2Default
  <1>11. CASE AnnounceBoard2
    BY <1>11 DEF AnnounceBoard2
  <1>12. CASE GoToLabWindow
    BY <1>12 DEF GoToLabWindow
  <1>13. CASE GoBackHome
    BY <1>13 DEF GoBackHome
  <1>14. CASE DetectBoard1Result
    <2>1. ~IsAwaited
      BY <1>14 DEF DetectBoard1Result, Apply
    <2>2. up /\ ~board1_received
      BY <1>14, <2>1 DEF DetectBoard1Result
    <2> QED  BY <2>1, <2>2 DEF IsAwaited
  <1>15. CASE DetectBoard2Result
    BY <1>15 DEF DetectBoard2Result
  <1>16. CASE DeadlinePasses
    BY <1>16 DEF DeadlinePasses
  <1>17. CASE Stop \/ Board1Timeout
    BY <1>17 DEF Stop, Board1Timeout
  <1> QED  BY <1>2, <1>3, <1>4, <1>5, <1>6, <1>7, <1>8, <1>9, <1>10,
      <1>11, <1>12, <1>13, <1>14, <1>15, <1>16, <1>17
           DEF StandingStep, OtherMainSteps

LEMMA DriveArrives ==
  ASSUME IInv, LongDrive \/ ShortDrive, count' = BOARD1_RECOGNIZING
  PROVE  ArriveBoard1 \/ ArriveBoard1Again \/ BackOffEnds
  <1> USE DEF IInv, Navigates, PcMatchesCount, Main, Quiet, SetCount, topics
  <1>1. ~ArriveBoard1Cached
    BY DEF ArriveBoard1Cached
  <1>2. ~ArriveWindow
    BY DEF ArriveWindow
  <1>3. ~PassViaPoint
    BY DEF PassViaPoint
  <1>4. ~ArriveBoard2
    BY DEF ArriveBoard2
  <1>5. ~Deliver
    BY DEF Deliver
  <1>6. ~PassHome
    BY DEF PassHome
  <1> QED  BY <1>1, <1>2, <1>3, <1>4, <1>5, <1>6
           DEF LongDrive, ShortDrive, LongDriveEnds, ShortDriveEnds

\* An arrival finds the vision node at rest, in state 9, and sends it 10.
LEMMA ArrivalIsTold ==
  ASSUME IInv, LongDrive \/ ShortDrive, Drive, NeverWaitsInVain
  PROVE  NeverWaitsInVain'
  <1> SUFFICES ASSUME up', count' = BOARD1_RECOGNIZING, ~board1_received'
               PROVE  cam_return' # <<>> \/ WillRead'
    BY DEF NeverWaitsInVain
  <1> USE DEF IInv, Navigates, PcMatchesCount, Main, Quiet, SetCount, topics
  <1>1. /\ nav_state = <<>> /\ cam_return = <<>> /\ loop # "board1_flag"
        /\ callback = "over"
        /\ UNCHANGED <<loop, current_nav_state, callback, board1_published>>
    BY DEF LongDrive, ShortDrive, SettledForLongDrive, SettledForShortDrive,
       NothingOnItsWay, Drive
  <1>2. current_nav_state = count
    BY <1>1 DEF Told
  <1>3. CASE ArriveBoard1 \/ ArriveBoard1Again
    <2>1. count = GO_TO_BOARD1 /\ PublishNavState(BOARD1_RECOGNIZING)
      BY <1>3 DEF ArriveBoard1, ArriveBoard1Again
    <2>2. nav_state' = <<BOARD1_RECOGNIZING>>
      BY <1>1, <2>1 DEF PublishNavState
    <2> QED  BY <1>1, <1>2, <2>1, <2>2 DEF WillRead
  <1>4. CASE BackOffEnds
    <2>1. UNCHANGED <<up, count, nav_state, cam_return, board1_received>>
      BY <1>4 DEF BackOffEnds, board1_vars
    <2> QED  BY <1>1, <2>1 DEF NeverWaitsInVain, WillRead
  <1> QED  BY <1>3, <1>4, DriveArrives

\* The vision node publishes, or goes on reading; it is told of the visit
\* once, and its flag is reset then, since no publication is in between.
LEMMA VisionWillRead ==
  ASSUME IInv, VisionStep, UNCHANGED nav_vars, NeverWaitsInVain
  PROVE  NeverWaitsInVain'
  <1> SUFFICES ASSUME up, count = BOARD1_RECOGNIZING, ~board1_received
               PROVE  cam_return' # <<>> \/ WillRead'
    BY DEF NeverWaitsInVain, nav_vars
  <1>0. cam_return # <<>> \/ WillRead
    BY DEF NeverWaitsInVain
  <1>1. CASE StablePublishBoard1
    <2>1. CASE cam_return' = cam_return
      <3>1. /\ loop' = "idle"
            /\ UNCHANGED <<nav_state, current_nav_state, callback,
                           board1_published>>
        <4>1. Len(cam_return) \in Nat
          BY DEF IInv, TopicsTypeOK
        <4>2. \A m : Len(Append(cam_return, m)) = Len(cam_return) + 1
          BY DEF IInv, TopicsTypeOK
        <4>3. \A m : cam_return' # Append(cam_return, m)
          BY <2>1, <4>1, <4>2
        <4> QED  BY <1>1, <4>3 DEF StablePublishBoard1
      <3> QED  BY <1>0, <2>1, <3>1 DEF WillRead
    <2>2. CASE cam_return' # cam_return
      <3>1. PICK m : cam_return' = Append(cam_return, m)
        BY <1>1, <2>2 DEF StablePublishBoard1
      <3>2. Append(cam_return, m) # <<>>
        BY DEF IInv, TopicsTypeOK
      <3> QED  BY <3>1, <3>2
    <2> QED  BY <2>1, <2>2
  <1>2. CASE SetBoard1Published
    BY <1>0, <1>2 DEF SetBoard1Published, WillRead, topics
  <1>3. CASE TakeBoard1Frame \/ AnnounceBoard1Error \/ AlertEnds
             \/ TakeBoard2Frame \/ NoBoard2Result \/ CheckVisit
             \/ StablePublishBoard2 \/ SetBoard2Published
    <2>1. /\ loop' # "board1_flag"
          /\ UNCHANGED <<nav_state, cam_return, current_nav_state, callback,
                         board1_published>>
      BY <1>3 DEF TakeBoard1Frame, AnnounceBoard1Error, AlertEnds,
         TakeBoard2Frame, NoBoard2Result, CheckVisit, StablePublishBoard2,
         SetBoard2Published, topics
    <2> QED  BY <1>0, <2>1 DEF WillRead
  <1>4. CASE NavStateCb
    <2>1. UNCHANGED <<cam_return, loop>>
      BY <1>4 DEF NavStateCb
    <2>2. ASSUME cam_return = <<>> PROVE WillRead'
      <3>1. /\ nav_state = <<BOARD1_RECOGNIZING>> /\ loop # "board1_flag"
            /\ current_nav_state # BOARD1_RECOGNIZING
        BY <1>0, <1>4, <2>2 DEF NavStateCb, WillRead
      <3>2. /\ Head(nav_state) = BOARD1_RECOGNIZING /\ Tail(nav_state) = <<>>
        BY <3>1
      <3>3. /\ nav_state' = <<>> /\ current_nav_state' = BOARD1_RECOGNIZING
            /\ callback' = "at_board1"
        BY <1>4, <3>1, <3>2 DEF NavStateCb, Entered
      <3> QED  BY <2>1, <3>1, <3>3 DEF WillRead
    <2> QED  BY <2>1, <2>2
  <1>5. CASE VisionRestart
    <2>1. latched = BOARD1_RECOGNIZING
      BY DEF IInv, Told
    <2>2. /\ loop' = "idle" /\ nav_state' = <<BOARD1_RECOGNIZING>>
          /\ current_nav_state' = GO_TO_BOARD1
      BY <1>5, <2>1 DEF VisionRestart
    <2> QED  BY <2>2 DEF WillRead
  <1>6. CASE StartVisit
    <2>1. UNCHANGED <<cam_return, nav_state, loop, current_nav_state>>
      BY <1>6 DEF StartVisit, ClearReadings, AllowBoard1, CountVisit,
         AllowBoard2, OtherVision, topics
    <2>2. CASE ClearReadings
      BY <1>0, <2>1, <2>2 DEF ClearReadings, Callback, WillRead
    <2>3. CASE AllowBoard1
      <3>1. nav_state = <<>> => current_nav_state = BOARD1_RECOGNIZING
        BY DEF IInv, Told
      <3> QED  BY <1>0, <2>1, <2>3, <3>1 DEF AllowBoard1, Callback, WillRead
    <2>4. CASE CountVisit \/ AllowBoard2
      BY <1>0, <2>1, <2>4 DEF CountVisit, AllowBoard2, Callback, WillRead
    <2> QED  BY <1>6, <2>2, <2>3, <2>4 DEF StartVisit
  <1> QED  BY <1>1, <1>2, <1>3, <1>4, <1>5, <1>6 DEF VisionStep, MainLoop

\* wait_for_board1_result waits for a queue that is on its way or that the
\* vision node will read: none was dropped that will not be read again.
THEOREM WaitsForAQueue == Spec => []NeverWaitsInVain
  <1>1. Init => NeverWaitsInVain
    BY DEF Init, NavigationInit, NeverWaitsInVain
  <1>2. ASSUME IInv, NeverWaitsInVain, [Next]_mission_vars
        PROVE  NeverWaitsInVain'
    <2>1. CASE VisionStep /\ UNCHANGED nav_vars
      BY <1>2, <2>1, VisionWillRead
    <2>2. CASE StandingStep /\ UNCHANGED vision_vars
      <3> SUFFICES ASSUME up', count' = BOARD1_RECOGNIZING, ~board1_received'
                   PROVE  cam_return' # <<>> \/ WillRead'
        BY DEF NeverWaitsInVain
      <3>1. /\ up /\ count = BOARD1_RECOGNIZING /\ ~board1_received
            /\ UNCHANGED <<nav_state, cam_return>>
        BY <1>2, <2>2, StillWaits
      <3> QED  BY <1>2, <2>2, <3>1 DEF NeverWaitsInVain, WillRead, vision_vars
    <2>3. CASE NavigationStep /\ Drive
      BY <1>2, <2>3, ArrivalIsTold DEF Drive
    <2>4. CASE UNCHANGED mission_vars
      BY <1>2, <2>4 DEF mission_vars, topics, nav_vars, vision_vars,
         NeverWaitsInVain, WillRead
    <2> QED  BY <1>2, <2>1, <2>2, <2>3, <2>4, StepCases
  <1> QED  BY <1>1, <1>2, MissionInvariant, PTL DEF Spec

-----------------------------------------------------------------------------
(* Mission implements Courier.  What the abstract steps need beyond IInv:  *)
(* a board is only read with nothing left over, and the verdict of the     *)
(* second board is in when the car leaves it, not before it arrives.       *)

Decided ==
    /\ AtStop /\ ~board1_received => pending_board1_tasks = <<>>
    /\ pc \in {"to_via", "to_board2"} => ~board2_received
    /\ pc = "announcing" \/ count = GO_TO_LAB_WINDOW => board2_received

LEMMA DecidedKept ==
  ASSUME IInv, Decided, NavigationStep
  PROVE  Decided'
  <1> USE DEF Decided, AtStop, Main, Dispatch, Quiet, SetCount, board1_vars,
          board2_vars, AtWindows
  <1>0. NavigationTypeOK /\ PcMatchesCount
    BY DEF IInv, Navigates
  <1>1. CASE ArriveBoard1Cached \/ ArriveBoard1
    BY <1>0, <1>1 DEF ArriveBoard1Cached, ArriveBoard1, PcMatchesCount
  <1>2. CASE ArriveWindow \/ PassViaPoint \/ ArriveBoard2
    BY <1>0, <1>2 DEF ArriveWindow, PassViaPoint, ArriveBoard2, PcMatchesCount
  <1>3. CASE Deliver \/ PassHome
    BY <1>0, <1>3 DEF Deliver, PassHome, PcMatchesCount
  <1>4. CASE ShortDriveEnds
    BY <1>0, <1>4 DEF ShortDriveEnds, BackOffEnds, ArriveBoard1Again,
       PcMatchesCount
  <1>5. CASE GoToBoard1 \/ BackOff \/ GiveUpWaiting \/ Renavigate
    BY <1>0, <1>5 DEF GoToBoard1, BackOff, GiveUpWaiting, Renavigate,
       PcMatchesCount
  <1>6. CASE Board1Recognized \/ GoToWindow \/ WindowsDone
    BY <1>0, <1>6 DEF Board1Recognized, GoToWindow, WindowsDone,
       PcMatchesCount
  <1>7. CASE GoToBoard2 \/ Board2Default \/ AnnounceBoard2 \/ LeaveBoard2
    <2>1. CASE GoToBoard2
      BY <1>0, <2>1 DEF GoToBoard2, PcMatchesCount
    <2>2. CASE Board2Default
      BY <1>0, <2>2 DEF Board2Default, AcceptBoard2, PcMatchesCount
    <2>3. CASE AnnounceBoard2 \/ LeaveBoard2
      BY <1>0, <2>3 DEF AnnounceBoard2, LeaveBoard2, PcMatchesCount
    <2> QED  BY <1>7, <2>1, <2>2, <2>3
  <1>8. CASE GoToLabWindow \/ GoBackHome
    BY <1>0, <1>8 DEF GoToLabWindow, GoBackHome, PcMatchesCount
  <1>9. CASE DetectBoard1Result
    BY <1>0, <1>9 DEF DetectBoard1Result, Apply
  <1>10. CASE DetectBoard2Result
    BY <1>0, <1>10 DEF DetectBoard2Result, AcceptBoard2, CanAccept,
       PcMatchesCount
  <1>11. CASE DeadlinePasses \/ Stop \/ Board1Timeout
    BY <1>11 DEF DeadlinePasses, Stop, Board1Timeout
  <1> QED  BY <1>1, <1>2, <1>3, <1>4, <1>5, <1>6, <1>7, <1>8, <1>9, <1>10,
      <1>11 DEF NavigationStep, StandingStep, LongDriveEnds, OtherMainSteps

LEMMA OneAndRest ==
  ASSUME NEW S, NEW t \in S, NEW s \in Seq(S)
  PROVE  /\ <<t>> \o s # <<>>
         /\ Head(<<t>> \o s) = t /\ Tail(<<t>> \o s) = s
         /\ s # <<>> => <<Head(s)>> \o Tail(s) = s
  OBVIOUS

\* The abstract task is the one the car carries out.
LEMMA CarriesOut ==
  ASSUME IInv, Executing
  PROVE  /\ TasksLeft # <<>> /\ Head(TasksLeft) = task
         /\ Tail(TasksLeft) = pending_board1_tasks
         /\ deliveries \in 0 .. 1
  <1>1. task \in Tasks /\ pending_board1_tasks \in Seq(Tasks)
        /\ deliveries \in 0 .. 1
    BY DEF IInv, Navigates, NavigationTypeOK, Batch
  <1> QED  BY <1>1, OneAndRest DEF TasksLeft

Kept == UNCHANGED <<TasksLeft, deliveries, fetched, Verdict>>

\* Most steps of the node do nothing that Courier speaks of.
LEMMA NothingDelivered ==
  ASSUME IInv, Decided, NavigationStep,
         ~ArriveWindow, ~Deliver, ~Board2Default,
         ~DetectBoard1Result, ~DetectBoard2Result
  PROVE  Kept
  <1> USE DEF Main, Dispatch, Quiet, SetCount, board1_vars,
          board2_vars, AtWindows, Kept, TasksLeft, Verdict, Executing, AtStop
  <1>0. NavigationTypeOK /\ PcMatchesCount
    BY DEF IInv, Navigates
  <1>1. CASE ArriveBoard1Cached
    <2>1. <<Head(pending_board1_tasks)>> \o Tail(pending_board1_tasks)
            = pending_board1_tasks
      BY <1>0, <1>1 DEF ArriveBoard1Cached, NavigationTypeOK
    <2> QED  BY <1>0, <1>1, <2>1 DEF ArriveBoard1Cached, PcMatchesCount, Apply
  <1>2. CASE ArriveBoard1
    BY <1>0, <1>2 DEF ArriveBoard1, PcMatchesCount
  <1>3. CASE PassViaPoint
    BY <1>0, <1>3 DEF PassViaPoint, PcMatchesCount
  <1>4. CASE ArriveBoard2
    BY <1>0, <1>4 DEF ArriveBoard2, PcMatchesCount, Decided
  <1>5. CASE PassHome
    BY <1>0, <1>5 DEF PassHome, PcMatchesCount
  <1>6. CASE ShortDriveEnds
    BY <1>0, <1>6 DEF ShortDriveEnds, BackOffEnds, ArriveBoard1Again,
       PcMatchesCount
  <1>7. CASE GoToBoard1
    BY <1>0, <1>7 DEF GoToBoard1
  <1>8. CASE BackOff \/ GiveUpWaiting \/ Renavigate
    BY <1>0, <1>8 DEF BackOff, GiveUpWaiting, Renavigate, PcMatchesCount
  <1>9. CASE Board1Recognized
    BY <1>0, <1>9 DEF Board1Recognized, PcMatchesCount
  <1>10. CASE GoToWindow \/ WindowsDone
    BY <1>0, <1>10 DEF GoToWindow, WindowsDone, PcMatchesCount
  <1>11. CASE GoToBoard2
    BY <1>0, <1>11 DEF GoToBoard2, PcMatchesCount
  <1>12. CASE AnnounceBoard2 \/ LeaveBoard2
    BY <1>0, <1>12 DEF AnnounceBoard2, LeaveBoard2, PcMatchesCount
  <1>13. CASE GoToLabWindow \/ GoBackHome
    BY <1>0, <1>13 DEF GoToLabWindow, GoBackHome, PcMatchesCount
  <1>14. CASE DeadlinePasses \/ Stop \/ Board1Timeout
    BY <1>0, <1>14 DEF DeadlinePasses, Stop, Board1Timeout
  <1> QED  BY <1>1, <1>2, <1>3, <1>4, <1>5, <1>6, <1>7, <1>8, <1>9, <1>10,
      <1>11, <1>12, <1>13, <1>14
      DEF NavigationStep, StandingStep, LongDriveEnds, OtherMainSteps

LEMMA WindowIsFetched ==
  ASSUME IInv, ArriveWindow
  PROVE  CR!Fetch
  <1>1. /\ count = GO_TO_PICKUP_WINDOWS /\ count' = count
        /\ fetched = pickup_done /\ StillToFetch # {}
        /\ task.windows \subseteq Windows
    BY TaskType DEF ArriveWindow, Main, Quiet, IInv, Navigates,
       NavigationTypeOK, PcMatchesCount, Load
  <1>2. NextWindow \in task.windows \ fetched
    BY <1>1 DEF NextWindow, StillToFetch
  <1>3. Executing /\ Executing'
    BY <1>1 DEF Executing
  <1>4. UNCHANGED <<TasksLeft, deliveries, Verdict>>
    BY <1>1, <1>3 DEF TasksLeft, Verdict, ArriveWindow
  <1>5. fetched' = fetched \union {NextWindow}
    BY DEF ArriveWindow
  <1> QED  BY <1>2, <1>3, <1>4, <1>5, CarriesOut DEF CR!Fetch

LEMMA VerdictIsIn ==
  ASSUME IInv, Board2Default \/ DetectBoard2Result
  PROVE  CR!Decide \/ Kept
  <1>1. /\ count \in States /\ count' = count
        /\ UNCHANGED <<board1_vars, fetched>>
        /\ AtStop' <=> AtStop
    BY DEF Board2Default, DetectBoard2Result, Main, Quiet, IInv, Navigates,
       NavigationTypeOK, AtStop
  <1>2. UNCHANGED <<TasksLeft, deliveries, fetched>>
    BY <1>1 DEF TasksLeft, Executing, board1_vars
  <1>3. CASE UNCHANGED <<board2_result, board2_received>>
    BY <1>1, <1>2, <1>3 DEF Kept, Verdict
  <1>4. ASSUME NEW label \in Labels, AcceptBoard2(label),
               count = BOARD2_RECOGNIZING, ~board2_received
        PROVE  CR!Decide
    <2>1. Executing /\ fetched = task.windows
      BY <1>4 DEF Executing, IInv, Navigates, Load, LoadIsComplete
    <2>2. Verdict = "none" /\ Verdict' = label
      BY <1>1, <1>4 DEF Verdict, AcceptBoard2
    <2> QED  BY <1>2, <2>1, <2>2, CarriesOut DEF CR!Decide, CR!Loaded
  <1>5. CASE Board2Default
    BY <1>4, <1>5 DEF Board2Default, CanAccept
  <1>6. CASE DetectBoard2Result
    <2>1. Head(board2_return) \in BoardTwoMessage
      <3>1. board2_return \in Seq(BoardTwoMessage) /\ board2_return # <<>>
        BY <1>6 DEF DetectBoard2Result, IInv, TopicsTypeOK, BoardTwoMessage
      <3> QED  BY <3>1, FrontOfSeq
    <2>2. Head(board2_return).label \in Labels
      BY <2>1 DEF BoardTwoMessage
    <2> QED  BY <1>3, <1>4, <1>6, <2>2 DEF DetectBoard2Result, CanAccept
  <1> QED  BY <1>5, <1>6

LEMMA BoardIsRead ==
  ASSUME IInv, Decided, DetectBoard1Result
  PROVE  CR!Read \/ Kept
  <1>1. /\ UNCHANGED <<up, count, pc, board2_vars, fetched>>
    BY DEF DetectBoard1Result
  <1>2. UNCHANGED Verdict
    BY <1>1 DEF Verdict, board2_vars
  <1>3. CASE UNCHANGED board1_vars
    BY <1>1, <1>2, <1>3
       DEF Kept, TasksLeft, Executing, AtStop, board1_vars
  <1>4. CASE IsAwaited /\ up
    <2> DEFINE queue == Head(cam_return).queue
    <2>1. /\ count = BOARD1_RECOGNIZING /\ ~board1_received
          /\ AtStop /\ AtStop' /\ ~Executing /\ board1_received'
          /\ task' = Head(queue) /\ pending_board1_tasks' = Tail(queue)
          /\ deliveries' = 0
      BY <1>1, <1>4 DEF IsAwaited, DetectBoard1Result, Apply, IInv, Navigates,
         NavigationTypeOK, PcMatchesCount, AtStop, Executing
    <2>2. queue \in Queues
      BY MessageType DEF DetectBoard1Result
    <2> HIDE DEF queue
    <2>3. <<Head(queue)>> \o Tail(queue) = queue
      BY <2>2, QueueType, OneAndRest
    <2>4. TasksLeft = <<>> /\ TasksLeft' = queue
      BY <2>1, <2>3 DEF TasksLeft, Decided
    <2> QED  BY <1>1, <1>2, <2>1, <2>2, <2>4 DEF CR!Read
  <1> QED  BY <1>3, <1>4 DEF DetectBoard1Result

LEMMA TaskIsDelivered ==
  ASSUME IInv, Decided, Deliver
  PROVE  CR!Deliver
  <1>1. /\ count = GO_TO_LAB_WINDOW /\ count' = GO_BACK_HOME
        /\ Executing /\ ~Executing' /\ ~AtStop'
    BY DEF Deliver, Main, SetCount, IInv, Navigates, PcMatchesCount,
       Executing, AtStop
  <1>2. fetched = task.windows
    BY <1>1 DEF IInv, Navigates, Load, LoadIsComplete
  <1>3. Verdict # "none" /\ Verdict' = "none"
    BY <1>1 DEF Verdict, Decided, IInv, Navigates, NavigationTypeOK
  <1>4. TasksLeft' = IF deliveries' = 2 THEN <<>> ELSE Tail(TasksLeft)
    <2>1. /\ Tail(TasksLeft) = pending_board1_tasks
          /\ deliveries \in 0 .. 1 /\ deliveries' = deliveries + 1
      BY <1>1, CarriesOut DEF Deliver
    <2>2. TasksLeft' = pending_board1_tasks'
      BY <1>1 DEF TasksLeft
    <2>3. pending_board1_tasks' =
            IF deliveries + 1 = 2 THEN <<>> ELSE pending_board1_tasks
      BY <2>1 DEF Deliver, BatchOver
    <2> QED  BY <2>1, <2>2, <2>3
  <1>5. fetched' = {} /\ deliveries' = deliveries + 1
    BY DEF Deliver
  <1> QED  BY <1>1, <1>2, <1>3, <1>4, <1>5, CarriesOut
      DEF CR!Deliver, CR!Loaded

LEMMA StepDelivers ==
  ASSUME IInv, Decided, [Next]_mission_vars
  PROVE  /\ Decided'
         /\ [CR!Next]_(CR!vars)
  <1>1. CASE UNCHANGED nav_vars
    BY <1>1 DEF nav_vars, Decided, AtStop, TasksLeft, Executing, Verdict,
       CR!vars
  <1>2. CASE NavigationStep
    <2>1. Kept => UNCHANGED CR!vars
      BY DEF Kept, CR!vars
    <2> QED  BY <1>2, <2>1, DecidedKept, NothingDelivered,
             WindowIsFetched, VerdictIsIn, BoardIsRead, TaskIsDelivered
         DEF CR!Next
  <1> QED  BY <1>1, <1>2, StepCases DEF mission_vars, NavigationStep

\* The car does what Courier promises, whatever is on its way between its
\* nodes, however often a board is read, and whichever node starts again.
THEOREM ImplementsCourier == Spec => DeliversInOrder
  <1>1. Init => Decided /\ CR!Init
    BY DEF Init, NavigationInit, Decided, AtStop, CR!Init, TasksLeft,
       Executing, Verdict
  <1> QED  BY <1>1, StepDelivers, MissionInvariant, PTL
      DEF Spec, DeliversInOrder, CR!Spec
=============================================================================

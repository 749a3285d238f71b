------------------------------- MODULE Topics -------------------------------
(***************************************************************************)
(* The ROS topics between the navigation node and the vision node of one   *)
(* car.  rospy delivers the messages of a topic in order, each in a thread *)
(* of the subscriber; a topic is the sequence of messages on their way.    *)
(*                                                                         *)
(* cam_return carries the task queue of the whole first board, best task   *)
(* first.  A task is the windows to fetch from and the laboratory window   *)
(* to deliver to.  The age of a message is not in the code: it says how    *)
(* old the camera frames behind it are, 0 taken during this stop at the    *)
(* board, 1 before it.                                                     *)
(***************************************************************************)
EXTENDS Sequences, Integers

CONSTANT Queues      \* the task queues a first board can give

Windows == {"C", "A", "B"}
Labs == 0 .. 3
Tasks == [windows : (SUBSET Windows) \ {{}}, lab : Labs]

ASSUME QueuesAssumption == Queues \subseteq Seq(Tasks) \ {<<>>}

Labels == {"free", "busy"}
Ages == 0 .. 1

GO_TO_BOARD1 == 9
BOARD1_RECOGNIZING == 10
GO_TO_PICKUP_WINDOWS == 11
GO_TO_BOARD2 == 12
BOARD2_RECOGNIZING == 13
GO_TO_LAB_WINDOW == 14
GO_BACK_HOME == 15
States == GO_TO_BOARD1 .. GO_BACK_HOME

VARIABLES
    nav_state,         \* navigation -> vision, states
    latched,           \* the last one, kept for a subscriber that comes later
    cam_return,        \* vision -> navigation, [queue, age]
    board2_return      \* vision -> navigation, [label, age]

topics == <<nav_state, latched, cam_return, board2_return>>

TopicsInit ==
    /\ nav_state = <<>>
    /\ latched = 0
    /\ cam_return = <<>>
    /\ board2_return = <<>>

\* self.pub_nav_state.publish(s)
PublishNavState(s) ==
    /\ nav_state' = Append(nav_state, s)
    /\ latched' = s

Older(msgs) == [i \in DOMAIN msgs |-> [msgs[i] EXCEPT !.age = 1]]

NothingOnItsWay == nav_state = <<>> /\ cam_return = <<>> /\ board2_return = <<>>
=============================================================================

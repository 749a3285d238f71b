------------------------------- MODULE Vision -------------------------------
(***************************************************************************)
(* The vision node F1_detect_code_v5.py with board1_detector.py: the main  *)
(* loop takes a camera frame when the navigation state asks for one,       *)
(* collects stable readings and publishes one result per entry into states *)
(* 10 and 13; nav_state_cb runs in a thread of its own and sets the        *)
(* module's globals one by one, without a lock, while the loop is at work. *)
(*                                                                         *)
(* A reading of the first board is the task queue it yields, or <<>> when  *)
(* it yields none or the frame is lost; what the camera and the decoders   *)
(* make of a frame is a choice, wrong at most MaxMisreads times.  The      *)
(* second board needs one frame (stable_frames: 1), so its history is left *)
(* out.  The visit counter board2_visit is only compared with the copy the *)
(* loop took with the frame: same_visit is that comparison.                *)
(***************************************************************************)
EXTENDS Topics

CONSTANTS
    StableFrames,          \* BOARD1_STABLE_FRAMES
    MaxMisreads,           \* frames that do not show the board (bound)
    MaxVisionRestarts      \* respawns of the node (bound)

ASSUME VisionAssumption ==
    /\ StableFrames \in Nat \ {0}
    /\ MaxMisreads \in Nat /\ MaxVisionRestarts \in Nat

VARIABLES
    board,                 \* what the first board shows
    current_nav_state,
    callback,              \* where nav_state_cb is
    board1_history,        \* the last readings, [queue, age]
    board1_published,
    board1_error_announced,
    board2_published,
    loop,                  \* where the main loop is
    frame,                 \* the frame it is at work on, a reading and a label
    same_visit,            \* visit == board2_visit, while the loop has a visit
    misreads, vision_restarts

vision_vars == <<board, current_nav_state, callback, board1_history,
                 board1_published, board1_error_announced, board2_published,
                 loop, frame, same_visit, misreads, vision_restarts>>

NoFrame == [queue |-> <<>>, label |-> "free", age |-> 0]

VisionInit ==
    /\ board \in Queues
    /\ current_nav_state = GO_TO_BOARD1
    /\ callback = "over"
    /\ board1_history = <<>>
    /\ board1_published = FALSE
    /\ board1_error_announced = FALSE
    /\ board2_published = FALSE
    /\ loop = "idle"
    /\ frame = NoFrame
    /\ same_visit = TRUE
    /\ misreads = 0
    /\ vision_restarts = 0

-----------------------------------------------------------------------------
(* The callback thread.                                                    *)

Entered(s) == current_nav_state # s /\ Head(nav_state) = s

\* nav_state_cb sets the state first.  It has more to do when a recognition
\* state is entered.
NavStateCb ==
    /\ callback = "over" /\ nav_state # <<>>
    /\ nav_state' = Tail(nav_state)
    /\ current_nav_state' = Head(nav_state)
    /\ \/ Entered(BOARD1_RECOGNIZING) /\ callback' = "at_board1"
       \/ Entered(BOARD2_RECOGNIZING) /\ callback' = "at_board2"
       \/ /\ ~Entered(BOARD1_RECOGNIZING) /\ ~Entered(BOARD2_RECOGNIZING)
          /\ callback' = "over"
    /\ UNCHANGED <<board, board1_history, board1_published,
                   board1_error_announced, board2_published, loop, frame,
                   same_visit, misreads, vision_restarts, latched, cam_return,
                   board2_return>>

\* The next assignment of the callback.
Callback(from, to) == callback = from /\ callback' = to

OtherVision == UNCHANGED <<board, current_nav_state, loop, frame, misreads,
                           vision_restarts, topics>>

\* Mutant: entering state 10 leaves the readings of the last visit.
KeepReadings ==
    /\ Callback("at_board1", "board1_cleared")
    /\ board1_error_announced' = FALSE
    /\ UNCHANGED <<board1_history, board1_published, board2_published,
                   same_visit>>
    /\ OtherVision

ClearReadings ==
    /\ Callback("at_board1", "board1_cleared")
    /\ board1_history' = <<>>
    /\ board1_error_announced' = FALSE
    /\ UNCHANGED <<board1_published, board2_published, same_visit>>
    /\ OtherVision

\* Mutant: entering state 10 again does not allow another publication.
AllowNothing ==
    /\ Callback("board1_cleared", "over")
    /\ UNCHANGED <<board1_history, board1_published, board1_error_announced,
                   board2_published, same_visit>>
    /\ OtherVision

AllowBoard1 ==
    /\ Callback("board1_cleared", "over")
    /\ board1_published' = FALSE
    /\ UNCHANGED <<board1_history, board1_error_announced, board2_published,
                   same_visit>>
    /\ OtherVision

\* board2_visit += 1: the copy taken with a frame is out of date.
CountVisit ==
    /\ Callback("at_board2", "board2_counted")
    /\ same_visit' = (loop # "board2")
    /\ UNCHANGED <<board1_history, board1_published, board1_error_announced,
                   board2_published>>
    /\ OtherVision

AllowBoard2 ==
    /\ Callback("board2_counted", "over")
    /\ board2_published' = FALSE
    /\ UNCHANGED <<board1_history, board1_published, board1_error_announced,
                   same_visit>>
    /\ OtherVision

StartVisit == ClearReadings \/ AllowBoard1 \/ CountVisit \/ AllowBoard2

-----------------------------------------------------------------------------
(* The main loop, first board.  The loop alone sets board1_published (and  *)
(* board2_published), after its last look at it: the test repeated at the  *)
(* head of stable_publish_board1 cannot fail.                              *)

Misread(r, truth) ==
    misreads' = IF r = truth THEN misreads ELSE misreads + 1

\* A frame is taken in state 10 as long as nothing was published.  Reading
\* and decoding it takes longer than what nav_state_cb has left to do.
TakeBoard1Frame ==
    /\ loop = "idle" /\ callback = "over"
    /\ current_nav_state = BOARD1_RECOGNIZING /\ ~board1_published
    /\ \E r \in Queues \union {<<>>} :
          /\ r = board \/ misreads < MaxMisreads
          /\ Misread(r, board)
          /\ frame' = [NoFrame EXCEPT !.queue = r]
    /\ loop' = "board1"
    /\ UNCHANGED <<board, current_nav_state, callback, board1_history,
                   board1_published, board1_error_announced, board2_published,
                   same_visit, vision_restarts, topics>>

\* announce_stable_board1_error: the board has shown an invalid code often
\* enough.  The loop, with its frame, is held up for the length of the alert.
AnnounceBoard1Error ==
    /\ loop = "board1"
    /\ ~board1_error_announced
    /\ board1_error_announced' = TRUE
    /\ loop' = "alert"
    /\ UNCHANGED <<board, current_nav_state, callback, board1_history,
                   board1_published, board2_published, frame, same_visit,
                   misreads, vision_restarts, topics>>

AlertEnds ==
    /\ loop = "alert"
    /\ loop' = "board1_select"
    /\ UNCHANGED <<board, current_nav_state, callback, board1_history,
                   board1_published, board1_error_announced, board2_published,
                   frame, same_visit, misreads, vision_restarts, topics>>

\* deque(maxlen=BOARD1_STABLE_FRAMES).append
Remember(reading) ==
    LET all == Append(board1_history, reading)
    IN  IF Len(all) > StableFrames THEN Tail(all) ELSE all

\* Mutant: enough readings are stable, whatever they say.
StableFullOnly(history) == Len(history) = StableFrames

\* The history is full and all its readings are the same.
Stable(history) ==
    /\ Len(history) = StableFrames
    /\ \A i \in DOMAIN history : history[i].queue = history[1].queue

OldestOf(history) ==
    IF \E i \in DOMAIN history : history[i].age = 1 THEN 1 ELSE 0

\* stable_publish_board1: a frame without a task clears the history, a stable
\* history is published.
StablePublishBoard1 ==
    /\ loop \in {"board1", "board1_select"}
    /\ LET history == Remember([queue |-> frame.queue, age |-> frame.age])
       IN  IF frame.queue = <<>>
           THEN /\ board1_history' = <<>>
                /\ loop' = "idle"
                /\ UNCHANGED cam_return
           ELSE /\ board1_history' = history
                /\ IF Stable(history)
                   THEN /\ cam_return' = Append(cam_return,
                               [queue |-> frame.queue,
                                age |-> OldestOf(history)])
                        /\ loop' = "board1_flag"
                   ELSE loop' = "idle" /\ UNCHANGED cam_return
    /\ frame' = NoFrame
    /\ UNCHANGED <<board, current_nav_state, callback, board1_published,
                   board1_error_announced, board2_published, same_visit,
                   misreads, vision_restarts, nav_state, latched,
                   board2_return>>

\* The flag is set after the publication; nav_state_cb fits in between.
SetBoard1Published ==
    /\ loop = "board1_flag"
    /\ board1_published' = TRUE
    /\ loop' = "idle"
    /\ UNCHANGED <<board, current_nav_state, callback, board1_history,
                   board1_error_announced, board2_published, frame,
                   same_visit, misreads, vision_restarts, topics>>

-----------------------------------------------------------------------------
(* The main loop, second board.                                            *)

\* The frame is taken, the visit copied; detection may take up to ten
\* seconds, longer than the navigation node waits.  Only the check after it
\* counts: nav_state_cb may still be at work.
TakeBoard2Frame ==
    /\ loop = "idle"
    /\ current_nav_state = BOARD2_RECOGNIZING /\ ~board2_published
    /\ \E r \in Labels : frame' = [NoFrame EXCEPT !.label = r]
    /\ loop' = "board2"
    /\ UNCHANGED <<board, current_nav_state, callback, board1_history,
                   board1_published, board1_error_announced, board2_published,
                   same_visit, misreads, vision_restarts, topics>>

\* Mutant: whether the visit is still the same is not looked at.
StillVisitingStateOnly == current_nav_state = BOARD2_RECOGNIZING

StillVisiting == current_nav_state = BOARD2_RECOGNIZING /\ same_visit

\* Detection ends without a label, or after the visit: nothing is published.
NoBoard2Result ==
    /\ loop = "board2"
    /\ ~StillVisiting \/ misreads < MaxMisreads
    /\ misreads' = IF StillVisiting THEN misreads + 1 ELSE misreads
    /\ loop' = "idle"
    /\ frame' = NoFrame /\ same_visit' = TRUE
    /\ UNCHANGED <<board, current_nav_state, callback, board1_history,
                   board1_published, board1_error_announced, board2_published,
                   vision_restarts, topics>>

\* The visit is compared before stable_publish_board2 is called; the state may
\* change before it publishes.
CheckVisit ==
    /\ loop = "board2"
    /\ StillVisiting
    /\ loop' = "board2_publish"
    /\ UNCHANGED <<board, current_nav_state, callback, board1_history,
                   board1_published, board1_error_announced, board2_published,
                   frame, same_visit, misreads, vision_restarts, topics>>

StablePublishBoard2 ==
    /\ loop = "board2_publish"
    /\ board2_return' = Append(board2_return,
            [label |-> frame.label, age |-> frame.age])
    /\ loop' = "board2_flag"
    /\ frame' = NoFrame
    /\ UNCHANGED <<board, current_nav_state, callback, board1_history,
                   board1_published, board1_error_announced, board2_published,
                   same_visit, misreads, vision_restarts, nav_state, latched,
                   cam_return>>

SetBoard2Published ==
    /\ loop = "board2_flag"
    /\ board2_published' = TRUE
    /\ loop' = "idle"
    /\ UNCHANGED <<board, current_nav_state, callback, board1_history,
                   board1_published, board1_error_announced, frame,
                   same_visit, misreads, vision_restarts, topics>>

-----------------------------------------------------------------------------
\* respawn_detect: the node dies and starts again; the latched state is the
\* first message it gets.
VisionRestart ==
    /\ vision_restarts < MaxVisionRestarts
    /\ vision_restarts' = vision_restarts + 1
    /\ current_nav_state' = GO_TO_BOARD1 /\ callback' = "over"
    /\ board1_history' = <<>>
    /\ board1_published' = FALSE
    /\ board1_error_announced' = FALSE
    /\ board2_published' = FALSE
    /\ loop' = "idle"
    /\ frame' = NoFrame
    /\ same_visit' = TRUE
    /\ nav_state' = IF latched = 0 THEN <<>> ELSE <<latched>>
    /\ UNCHANGED <<board, misreads, latched, cam_return, board2_return>>

MainLoop ==
    \/ TakeBoard1Frame \/ AnnounceBoard1Error \/ AlertEnds
    \/ StablePublishBoard1 \/ SetBoard1Published
    \/ TakeBoard2Frame \/ NoBoard2Result \/ CheckVisit
    \/ StablePublishBoard2 \/ SetBoard2Published

\* Frames and readings age (see Topics).
FramesAge ==
    /\ frame' = [frame EXCEPT !.age = IF loop = "idle" THEN @ ELSE 1]
    /\ board1_history' = Older(board1_history)

VisionTypeOK ==
    /\ board \in Queues
    /\ current_nav_state \in States
    /\ callback \in {"over", "at_board1", "board1_cleared", "at_board2",
                     "board2_counted"}
    /\ board1_history \in Seq([queue : Queues, age : Ages])
    /\ Len(board1_history) <= StableFrames
    /\ {board1_published, board1_error_announced, board2_published,
        same_visit} \subseteq BOOLEAN
    /\ loop \in {"idle", "board1", "alert", "board1_select", "board1_flag",
                 "board2", "board2_publish", "board2_flag"}
    /\ frame \in [queue : Queues \union {<<>>}, label : Labels, age : Ages]
    /\ misreads \in 0 .. MaxMisreads
    /\ vision_restarts \in 0 .. MaxVisionRestarts
=============================================================================

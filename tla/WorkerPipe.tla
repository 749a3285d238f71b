------------------------------ MODULE WorkerPipe ------------------------------
(***************************************************************************)
(* Recognition of board two by YOLO: the main loop of the vision node      *)
(* (F1_detect_code_v5.py, source "yolo") asks a worker process             *)
(* (board2_yolo_worker.py) over two pipes (board2_detector.py), while      *)
(* nav_state_cb, in another thread, begins and ends visits and the worker  *)
(* may die, hang or be slow.                                               *)
(*                                                                         *)
(* Requests and replies carry no number of their own.  The model numbers   *)
(* them: n is the number of a detection, modulo 2.  A label is what it     *)
(* says and, recorded with it, the visits its frames were taken in.        *)
(*                                                                         *)
(* nav_state_cb holds no lock: it is made of three steps, and the loop may *)
(* take a frame after each of them.  Premises: the drive between two       *)
(* visits takes longer than the loop needs to be done with a detection of  *)
(* the first (it looks at the state every 0.1 s), and a detection longer   *)
(* than what is left of nav_state_cb.                                      *)
(*                                                                         *)
(* Not modelled: images, probabilities, the evidence that is written, the  *)
(* camera (a frame is a choice), a vision node that dies later than in its *)
(* preparations (its worker reads the end of stdin and ends by itself).    *)
(***************************************************************************)
EXTENDS Naturals, Sequences

CONSTANTS
    MaxVisits,       \* visits of board two (bound)
    StableFrames,    \* vision.yaml: equal labels in succession
    Window,          \* model_contract.json: smoothing_frames
    MaxPoor,         \* frames that are not read well (bound)
    MaxFaults        \* deaths, hangs, answers that are too late (bound)

ASSUME WorkerPipeAssumption ==
    /\ MaxVisits \in Nat \ {0} /\ StableFrames \in Nat \ {0}
    /\ Window \in Nat \ {0} /\ MaxPoor \in Nat /\ MaxFaults \in Nat

Visits == 1 .. MaxVisits

\* What a frame can show: no board (or one that cannot be measured, or an
\* image that cannot be decoded), a board that is not clear, a board that is
\* clearly read, as what it is or, for a glare, as something else.
Frames == {"none", "dim", "right", "wrong"}

\* visit is that of the message, at the visit the frame was taken in.
Request == [n : 0 .. 1, visit : 0 .. MaxVisits, at : Visits, frame : Frames]

\* The labels of board two, with the visits behind them.
Label == [says : {"right", "wrong"}, seen : SUBSET Visits]
NoLabel == [says |-> "none", seen |-> {}]

Reply == [n : 0 .. 1, label : Label \union {NoLabel}]
Ready == [n |-> 0, label |-> NoLabel]

VARIABLES
    \* written by nav_state_cb
    active,          \* current_nav_state is 13
    board2_visit,
    callback,        \* what nav_state_cb has done on entering the state
    \* the main loop
    step, visit,     \* where it is, and its local visit
    request,         \* the detection it is busy with
    result,          \* its reply
    board2_history, board2_published,
    answer,          \* visit -> the label published in it (recording)
    \* the worker and the pipes
    worker, stdin, stdout,
    recognizer,      \* its visit and its history
    poor, faults

nav == <<active, board2_visit, callback>>
loop == <<step, visit, request, result>>
stable == <<board2_history, board2_published, answer>>
process == <<worker, stdin, stdout, recognizer>>

vars == <<nav, loop, stable, process, poor, faults>>

NoRequest == [n |-> 0, visit |-> 0, at |-> 1, frame |-> "none"]
Fresh == [visit |-> 0, history |-> <<>>]

Init ==
    /\ active = FALSE /\ board2_visit = 0 /\ callback = "over"
    /\ step = "boot" /\ visit = 0 /\ request = NoRequest /\ result = Ready
    /\ board2_history = <<>> /\ board2_published = FALSE
    /\ answer = [v \in Visits |-> NoLabel]
    /\ worker = "none" /\ stdin = <<>> /\ stdout = <<>> /\ recognizer = Fresh
    /\ poor = 0 /\ faults = 0

Fault == faults < MaxFaults /\ faults' = faults + 1

\* The last n of a sequence: deque(maxlen = n).
LastOf(s, n) == SubSeq(s, IF Len(s) > n THEN Len(s) - n + 1 ELSE 1, Len(s))

-----------------------------------------------------------------------------
(* nav_state_cb.                                                           *)

\* The visit the car is at, or was at last: not yet counted by nav_state_cb
\* when it has only noted the state.
Stop == IF callback = "entered" THEN board2_visit + 1 ELSE board2_visit

\* The car sets out when the vision node has declared itself ready, and the
\* loop is done with the last visit when it arrives.
Enter ==
    /\ ~active /\ board2_visit < MaxVisits
    /\ step = "idle"
    /\ active' = TRUE /\ callback' = "entered"
    /\ UNCHANGED <<board2_visit, loop, stable, process, poor, faults>>

CountVisit ==
    /\ callback = "entered" /\ callback' = "counted"
    /\ board2_visit' = board2_visit + 1
    /\ UNCHANGED <<active, loop, stable, process, poor, faults>>

\* board2_published last: no frame is taken of a visit after an answered one
\* before its labels are cleared.
ClearLabels ==
    /\ callback = "counted" /\ callback' = "over"
    /\ board2_history' = <<>> /\ board2_published' = FALSE
    /\ UNCHANGED <<active, board2_visit, loop, answer, process, poor, faults>>

NavStateCb == CountVisit \/ ClearLabels

\* With the result or at the deadline of the wait.
Leave ==
    /\ active /\ active' = FALSE
    /\ callback = "over"
    /\ UNCHANGED <<board2_visit, callback, loop, stable, process, poor,
                   faults>>

-----------------------------------------------------------------------------
(* The worker.                                                             *)

Alive == worker \notin {"none", "dead"}

\* The models are loaded and warmed up.
WarmedUp ==
    /\ worker = "loading" /\ worker' = "serving"
    /\ stdout' = Append(stdout, Ready)
    /\ UNCHANGED <<nav, loop, stable, stdin, recognizer, poor, faults>>

\* Mutant: the history of the last visit is smoothed into the new one.
HistoryOfAnyVisit(req) ==
    IF req.frame = "none" THEN <<>>
    ELSE LastOf(Append(recognizer.history, req), Window)

\* infer: a new visit empties the history, so does a frame without board.
History(req) ==
    IF req.frame = "none" THEN <<>>
    ELSE LastOf(Append(IF req.visit = recognizer.visit
                         THEN recognizer.history ELSE <<>>, req), Window)

\* business_label of the mean over the window: none before it is full; what
\* the frames say when all say the same; anything when they differ or are not
\* clear.
Labels(history) ==
    LET seen == {history[i].at : i \in 1 .. Len(history)}
        said == {history[i].frame : i \in 1 .. Len(history)}
        Saying(words) == {[says |-> word, seen |-> seen] : word \in words}
    IN  IF Len(history) < Window THEN {NoLabel}
        ELSE IF said \in {{"right"}, {"wrong"}} THEN Saying(said)
        ELSE Saying({"right", "wrong"}) \union {NoLabel}

Infer ==
    /\ worker = "serving" /\ stdin # <<>>
    /\ LET req == Head(stdin) IN
       /\ recognizer' = [visit |-> req.visit, history |-> History(req)]
       /\ \E label \in Labels(History(req)) :
             stdout' = Append(stdout, [n |-> req.n, label |-> label])
    /\ stdin' = Tail(stdin)
    /\ UNCHANGED <<nav, loop, stable, worker, poor, faults>>

\* At any time; nobody else notices before he uses a pipe.
Dies ==
    /\ Alive /\ Fault
    /\ worker' = "dead"
    /\ UNCHANGED <<nav, loop, stable, stdin, stdout, recognizer, poor>>

Hangs ==
    /\ worker \in {"loading", "serving"} /\ Fault
    /\ worker' = "hung"
    /\ UNCHANGED <<nav, loop, stable, stdin, stdout, recognizer, poor>>

-----------------------------------------------------------------------------
(* board2_detector.py, called by the main loop.                            *)

IsActive == active /\ board2_visit = visit

\* Mutant: a worker that is still running is kept for the next detection.
CloseWorkerThatEnded ==
    IF Alive THEN UNCHANGED process
    ELSE /\ worker' = "none" /\ stdin' = <<>> /\ stdout' = <<>>
         /\ recognizer' = Fresh

\* close_board2_yolo: what the pipes hold is gone with the worker.
CloseWorker ==
    /\ worker' = "none" /\ stdin' = <<>> /\ stdout' = <<>>
    /\ recognizer' = Fresh

\* A worker that is there is used again; one that has ended is closed and
\* another one is started.
NeedsWorker == ~Alive

Prepare ==
    /\ step \in {"boot", "prepare"}
    /\ IF NeedsWorker
         THEN /\ worker' = "loading" /\ stdin' = <<>> /\ stdout' = <<>>
              /\ recognizer' = Fresh
              /\ step' = IF step = "boot" THEN "warmup" ELSE "loading"
         ELSE /\ UNCHANGED process
              /\ step' = "write"
    /\ UNCHANGED <<nav, visit, request, result, stable, poor, faults>>

\* The ready line; at startup ~startup_ready is set then.
GetReady ==
    /\ step \in {"warmup", "loading"} /\ stdout # <<>>
    /\ step' = IF step = "warmup" THEN "idle" ELSE "write"
    /\ stdout' = <<>>
    /\ UNCHANGED <<nav, visit, request, result, stable, worker, stdin,
                   recognizer, poor, faults>>

\* The whole line, though the pipe may have to be filled several times.
Write ==
    /\ step = "write" /\ Alive
    /\ step' = "read"
    /\ stdin' = Append(stdin, request)
    /\ UNCHANGED <<nav, visit, request, result, stable, worker, stdout,
                   recognizer, poor, faults>>

\* One line is used and what came with it is dropped.
Read ==
    /\ step = "read" /\ stdout # <<>>
    /\ step' = "result"
    /\ result' = Head(stdout)
    /\ stdout' = <<>>
    /\ UNCHANGED <<nav, visit, request, stable, worker, stdin, recognizer,
                   poor, faults>>

Waiting == step \in {"loading", "write", "read"}

\* A pipe is closed at the other end: EOF, or EPIPE while writing.
Broken == worker = "dead" /\ (step = "write" \/ stdout = <<>>)

\* is_active is polled every 0.1 s.
Cancelled == ~IsActive

\* 10 s.  Of a worker that is well it is a fault to need so long.
TimedOut ==
    IF worker = "hung" THEN faults' = faults ELSE Alive /\ Fault

\* Every exception ends in close_board2_yolo and no label.
DetectFails ==
    /\ Waiting
    /\ (Broken \/ Cancelled) /\ faults' = faults
    /\ CloseWorker
    /\ step' = "result" /\ result' = [n |-> request.n, label |-> NoLabel]
    /\ UNCHANGED <<nav, visit, request, stable, poor>>

DetectTimesOut ==
    /\ Waiting
    /\ TimedOut
    /\ CloseWorker
    /\ step' = "result" /\ result' = [n |-> request.n, label |-> NoLabel]
    /\ UNCHANGED <<nav, visit, request, stable, poor>>

\* The preparations at startup fail: the node shuts down, its worker with
\* it, and is respawned.
BootFails ==
    /\ step = "warmup"
    /\ \/ Broken /\ faults' = faults
       \/ TimedOut
    /\ CloseWorker
    /\ step' = "boot"
    /\ UNCHANGED <<nav, visit, request, result, stable, poor>>

-----------------------------------------------------------------------------
(* The main loop.                                                          *)

\* A visit that is not answered yet, a frame, and the detection begins.
TakeFrame ==
    /\ step = "idle" /\ active /\ ~board2_published
    /\ step' = "prepare"
    /\ visit' = board2_visit
    /\ \E frame \in Frames :
          /\ request' = [n |-> 1 - request.n, visit |-> board2_visit,
                         at |-> Stop, frame |-> frame]
          /\ IF frame = "right" THEN poor' = poor
             ELSE poor < MaxPoor /\ poor' = poor + 1
    /\ UNCHANGED <<nav, result, stable, process, faults>>

\* Is it still the visit of the frame?
Check ==
    /\ step = "result" /\ callback = "over"
    /\ step' = IF IsActive THEN "checked" ELSE "idle"
    /\ UNCHANGED <<nav, visit, request, result, stable, process, poor, faults>>

\* stable_publish_board2: no label empties the history; the last labels are
\* published when they are enough and all say the same.
StablePublish ==
    /\ step = "checked" /\ step' = "idle"
    /\ LET labels == LastOf(Append(board2_history, result.label), StableFrames)
           Stable == /\ Len(labels) = StableFrames
                     /\ \A i \in 1 .. Len(labels) :
                           labels[i].says = result.label.says
       IN
       \/ /\ result.label = NoLabel
          /\ board2_history' = <<>>
          /\ UNCHANGED <<board2_published, answer>>
       \/ /\ result.label # NoLabel /\ ~Stable
          /\ board2_history' = labels
          /\ UNCHANGED <<board2_published, answer>>
       \/ /\ result.label # NoLabel /\ Stable
          /\ board2_history' = labels
          /\ board2_published' = TRUE
          /\ answer' = [answer EXCEPT ![board2_visit] =
                [says |-> result.label.says,
                 seen |-> UNION {labels[i].seen : i \in 1 .. Len(labels)}]]
    /\ UNCHANGED <<nav, visit, request, result, process, poor, faults>>

-----------------------------------------------------------------------------

Detector ==
    \/ Prepare \/ GetReady \/ Write \/ Read
    \/ DetectFails \/ BootFails \/ TakeFrame \/ Check \/ StablePublish
    \/ DetectTimesOut

Worker == WarmedUp \/ Infer

Next == Enter \/ NavStateCb \/ Leave \/ Detector \/ Worker \/ Dies \/ Hangs

Spec == Init /\ [][Next]_vars

\* The threads and the worker run; a time-out is certain once the worker
\* hangs.
FairSpec ==
    Spec /\ WF_vars(Detector) /\ WF_vars(Worker) /\ WF_vars(NavStateCb)

-----------------------------------------------------------------------------
(* Properties.                                                             *)

TypeOK ==
    /\ active \in BOOLEAN /\ board2_visit \in 0 .. MaxVisits
    /\ callback \in {"over", "entered", "counted"}
    /\ step \in {"boot", "warmup", "idle", "prepare", "loading", "write",
                 "read", "result", "checked"}
    /\ visit \in 0 .. MaxVisits
    /\ request \in Request /\ result \in Reply
    /\ board2_history \in Seq(Label)
    /\ Len(board2_history) <= StableFrames
    /\ board2_published \in BOOLEAN
    /\ answer \in [Visits -> Label \union {NoLabel}]
    /\ worker \in {"none", "loading", "serving", "hung", "dead"}
    /\ stdin \in Seq(Request) /\ Len(stdin) <= 1
    /\ stdout \in Seq(Reply) /\ Len(stdout) <= 1
    /\ recognizer.visit \in 0 .. MaxVisits
    /\ recognizer.history \in Seq(Request)
    /\ Len(recognizer.history) <= Window
    /\ poor \in 0 .. MaxPoor /\ faults \in 0 .. MaxFaults

\* A reply is that to the request it was read for: one that was cancelled or
\* came too late is never taken for the reply to a later one.
ReplyIsToTheRequest == step \in {"result", "checked"} => result.n = request.n

\* What is published in a visit rests on frames of this visit only, though
\* the worker and its history outlive the visits and a frame may be taken
\* before nav_state_cb has counted the visit.
AnswerOfThisVisit == \A v \in Visits : answer[v].seen \subseteq {v}

\* The labels at the end of a history that say the same.
IsStreak(history, n) ==
    LET len == Len(history)
    IN  /\ n \in 0 .. len
        /\ len > 0 => n > 0
        /\ \A i \in len - n + 1 .. len : history[i].says = history[len].says
        /\ n < len => history[len - n].says # history[len].says

Agreeing(history) == CHOOSE n \in 0 .. Len(history) : IsStreak(history, n)

\* Between the arrival and ClearLabels the history is that of the last visit.
LastSaid ==
    IF callback # "over" \/ board2_history = <<>> THEN "none"
    ELSE board2_history[Len(board2_history)].says

Streak == IF callback # "over" THEN 0 ELSE Agreeing(board2_history)

VA == INSTANCE VisitAnswers WITH
        visit <- Stop, label <- LastSaid, streak <- Streak

\* A visit is answered once at most, as soon as StableFrames labels of this
\* visit that say the same came without a gap, and never after the next one
\* has begun.
AnswersOnce == VA!Spec

\* A visit that lasts is answered, through dead, hung and slow workers, when
\* the frames that are not read well come to an end.
VisitIsAnswered ==
    active ~> (active => answer[Stop] # NoLabel)
=============================================================================

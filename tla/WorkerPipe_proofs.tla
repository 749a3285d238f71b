--------------------------- MODULE WorkerPipe_proofs ---------------------------
(***************************************************************************)
(* Proofs about WorkerPipe, for any number of visits, frames and faults,   *)
(* any smoothing window and any number of stable labels.                   *)
(***************************************************************************)
EXTENDS WorkerPipe, SequenceTheorems, TLAPS

LabelsOf(v) == [says : {"right", "wrong"}, seen : {{v}}]
RequestsAt(v) == {req \in Request : req.at = v}

\* A label counts when its request carries the number of the visit.
Trusted(label) ==
    request.visit = Stop => label \in LabelsOf(Stop) \union {NoLabel}

\* Between two detections the pipes are empty, and the worker has sent its
\* ready line; during one they hold the request or its reply, if anything.
PipesMatch ==
    /\ step = "boot" => worker = "none"
    /\ step \notin {"warmup", "loading", "read"} =>
        stdin = <<>> /\ stdout = <<>> /\ worker # "loading"
    /\ step \in {"warmup", "loading"} =>
        /\ stdin = <<>> /\ stdout \in {<<>>, <<Ready>>}
        /\ worker = "loading" => stdout = <<>>
    /\ step = "read" =>
        /\ worker # "loading"
        /\ \/ stdin = <<request>> /\ stdout = <<>>
           \/ /\ stdin = <<>>
              /\ \E reply \in Reply :
                    /\ stdout = <<reply>> /\ reply.n = request.n
                    /\ Trusted(reply.label)
    /\ step \in {"result", "checked"} =>
        result.n = request.n /\ Trusted(result.label)

Detecting == step \notin {"boot", "warmup", "idle"}

\* nav_state_cb on its way: the car has arrived, and nothing is checked.
CallbackMatches ==
    /\ callback # "over" => active
    /\ callback = "entered" => board2_visit < MaxVisits
    /\ active => Stop # 0
    /\ step = "checked" => visit = board2_visit /\ callback = "over"

\* Whose frames the loop and the worker are busy with.
VisitsMatch ==
    /\ Detecting => request.visit = visit /\ request.at = Stop
    /\ visit <= board2_visit
    /\ recognizer.visit <= Stop
    /\ recognizer.visit = Stop => recognizer.history \in Seq(RequestsAt(Stop))
    /\ callback = "over" => board2_history \in Seq(LabelsOf(board2_visit))
    /\ AnswerOfThisVisit

IInv == TypeOK /\ PipesMatch /\ CallbackMatches /\ VisitsMatch

USE WorkerPipeAssumption DEF Visits, nav, loop, stable, process

\* Requests and replies.
LEMMA RequestType ==
  /\ \A req \in Request :
        req.n \in 0 .. 1 /\ req.visit \in 0 .. MaxVisits /\ req.at \in Visits
  /\ \A n \in 0 .. 1, v \in 0 .. MaxVisits, at \in Visits, frame \in Frames :
        [n |-> n, visit |-> v, at |-> at, frame |-> frame] \in Request
  BY DEF Request

LEMMA LabelType ==
  /\ NoLabel \notin Label /\ NoLabel.seen = {} /\ NoLabel.says = "none"
  /\ \A says \in {"right", "wrong"}, seen \in SUBSET Visits :
        [says |-> says, seen |-> seen] \in Label
  /\ \A label \in Label : /\ label.says \in {"right", "wrong"}
                          /\ label.seen \in SUBSET Visits
  /\ \A v \in Visits : LabelsOf(v) \subseteq Label
  /\ \A v : \A label \in LabelsOf(v) :
        label.seen = {v} /\ label.says \in {"right", "wrong"}
  BY DEF Label, NoLabel, LabelsOf

LEMMA ReplyType ==
  /\ \A n \in 0 .. 1, label \in Label \union {NoLabel} :
        [n |-> n, label |-> label] \in Reply
  /\ \A reply \in Reply : reply.label \in Label \union {NoLabel}
  /\ Ready \in Reply /\ NoRequest \in Request
  BY DEF Reply, Ready, NoRequest, Request, Frames

LEMMA FreshType ==
  /\ Fresh.visit = 0 /\ Fresh.history = <<>>
  /\ \A S : Fresh.history \in Seq(S)
  BY EmptySeq DEF Fresh

\* The number of the visit the car is at.
LEMMA StopType ==
  ASSUME TypeOK, CallbackMatches
  PROVE  Stop \in 0 .. MaxVisits /\ (active => Stop \in Visits)
  BY DEF TypeOK, CallbackMatches, Stop

\* What a bounded history holds after an append.
LEMMA LastOfAppend ==
  ASSUME NEW S, NEW s \in Seq(S), NEW x \in S, NEW n \in Nat \ {0}
  PROVE  /\ LastOf(Append(s, x), n) \in Seq(S)
         /\ Len(LastOf(Append(s, x), n)) \in 1 .. n
  <1> DEFINE t == Append(s, x)
             m == IF Len(t) > n THEN Len(t) - n + 1 ELSE 1
  <1>1. t \in Seq(S) /\ Len(t) \in Nat /\ Len(t) = Len(s) + 1 /\ Len(s) \in Nat
    OBVIOUS
  <1>2. m \in Int /\ m >= 1 /\ m <= Len(t) /\ Len(t) - m + 1 <= n
    BY <1>1
  <1>3. \A i \in m .. Len(t) : t[i] \in S
    BY <1>1, <1>2, ElementOfSeq
  <1>4. /\ SubSeq(t, m, Len(t)) \in Seq(S)
        /\ Len(SubSeq(t, m, Len(t))) = Len(t) - m + 1
    BY <1>1, <1>2, <1>3, SubSeqProperties
  <1> QED  BY <1>1, <1>2, <1>4 DEF LastOf

\* The history after a request, made of requests of any set.
LEMMA HistoryIn ==
  ASSUME NEW S, NEW req \in S,
         recognizer.visit = req.visit => recognizer.history \in Seq(S)
  PROVE  /\ History(req) \in Seq(S)
         /\ Len(History(req)) <= Window
  <1> DEFINE old == IF req.visit = recognizer.visit
                      THEN recognizer.history ELSE <<>>
  <1>1. old \in Seq(S)
    BY EmptySeq
  <1>2. /\ LastOf(Append(old, req), Window) \in Seq(S)
        /\ Len(LastOf(Append(old, req), Window)) \in 1 .. Window
    BY <1>1, LastOfAppend
  <1>3. CASE req.frame = "none"
    <2>1. History(req) = <<>>
      BY <1>3 DEF History
    <2> QED  BY <2>1, EmptySeq
  <1>4. CASE req.frame # "none"
    <2>1. History(req) = LastOf(Append(old, req), Window)
      BY <1>4 DEF History
    <2> HIDE DEF old
    <2> QED  BY <1>2, <2>1
  <1> QED  BY <1>3, <1>4

\* A label rests on the visits of the history it is made from.
LEMMA LabelOfRequests ==
  ASSUME NEW history \in Seq(Request), NEW label \in Labels(history)
  PROVE  label \in Label \union {NoLabel}
  <1> DEFINE seen == {history[i].at : i \in 1 .. Len(history)}
  <1>1. seen \subseteq Visits
    BY ElementOfSeq, RequestType
  <1>2. label = NoLabel \/ \E says \in {"right", "wrong"} :
            label = [says |-> says, seen |-> seen]
    BY DEF Labels
  <1> HIDE DEF seen
  <1> QED  BY <1>1, <1>2, LabelType

LEMMA LabelOfItsVisit ==
  ASSUME NEW v \in Visits, NEW history \in Seq(RequestsAt(v)),
         NEW label \in Labels(history)
  PROVE  label \in LabelsOf(v) \union {NoLabel}
  <1> DEFINE seen == {history[i].at : i \in 1 .. Len(history)}
  <1>1. CASE Len(history) < Window
    BY <1>1 DEF Labels
  <1>2. CASE ~(Len(history) < Window)
    <2>1. \A i \in 1 .. Len(history) : history[i].at = v
      BY ElementOfSeq DEF RequestsAt
    <2>2. Len(history) \in Nat /\ 1 \in 1 .. Len(history)
      BY <1>2
    <2>3. seen = {v}
      BY <2>1, <2>2
    <2>4. label = NoLabel \/ \E says \in {"right", "wrong"} :
              label = [says |-> says, seen |-> seen]
      BY <1>2 DEF Labels
    <2> HIDE DEF seen
    <2> QED  BY <2>3, <2>4 DEF LabelsOf
  <1> QED  BY <1>1, <1>2

-----------------------------------------------------------------------------
(* The invariant.                                                          *)

LEMMA InitInvariant == Init => IInv
  <1> SUFFICES ASSUME Init PROVE IInv
    OBVIOUS
  <1> USE DEF Init, Fresh
  <1>1. \A S : <<>> \in Seq(S) /\ Len(<<>>) = 0
    BY EmptySeq
  <1>2. TypeOK
    <2>1. /\ board2_history \in Seq(Label) /\ Len(board2_history) = 0
          /\ stdin \in Seq(Request) /\ Len(stdin) = 0
          /\ stdout \in Seq(Reply) /\ Len(stdout) = 0
          /\ recognizer.history \in Seq(Request) /\ Len(recognizer.history) = 0
          /\ recognizer.visit = 0
      BY <1>1
    <2>2. request \in Request /\ result \in Reply
      BY ReplyType
    <2>3. answer \in [Visits -> Label \union {NoLabel}]
      OBVIOUS
    <2>4. /\ active \in BOOLEAN /\ board2_published \in BOOLEAN
          /\ callback = "over"
          /\ step = "boot" /\ worker = "none" /\ visit = 0 /\ board2_visit = 0
          /\ poor = 0 /\ faults = 0
      OBVIOUS
    <2> HIDE DEF Init
    <2> QED  BY <2>1, <2>2, <2>3, <2>4 DEF TypeOK
  <1>3. PipesMatch
    BY DEF PipesMatch
  <1>4. CallbackMatches
    BY DEF CallbackMatches
  <1>5. VisitsMatch
    BY <1>1, LabelType DEF VisitsMatch, AnswerOfThisVisit, Stop, Detecting
  <1> QED  BY <1>2, <1>3, <1>4, <1>5 DEF IInv

\* The callback: an arrival makes a new visit of it, what follows does not.
LEMMA EnterKeeps == IInv /\ Enter => IInv'
  <1> SUFFICES ASSUME IInv, Enter PROVE IInv'
    OBVIOUS
  <1>1. /\ ~active /\ step = "idle" /\ active' = TRUE /\ callback' = "entered"
        /\ board2_visit < MaxVisits
        /\ UNCHANGED <<board2_visit, loop, stable, process, poor, faults>>
    BY DEF Enter
  <1>2. callback = "over" /\ Stop = board2_visit /\ Stop' = board2_visit + 1
    BY <1>1 DEF IInv, TypeOK, CallbackMatches, Stop
  <1>3. TypeOK'
    BY <1>1 DEF IInv, TypeOK
  <1>4. PipesMatch'
    BY <1>1 DEF IInv, PipesMatch
  <1>5. CallbackMatches'
    BY <1>1, <1>2 DEF IInv, TypeOK, CallbackMatches
  <1>6. VisitsMatch'
    <2>1. recognizer.visit <= board2_visit /\ recognizer.visit \in Nat
          /\ board2_visit \in Nat
      BY <1>2 DEF IInv, TypeOK, VisitsMatch
    <2> QED  BY <1>1, <1>2, <2>1
             DEF IInv, VisitsMatch, AnswerOfThisVisit, Detecting
  <1> QED  BY <1>3, <1>4, <1>5, <1>6 DEF IInv

LEMMA NavKeeps == IInv /\ (NavStateCb \/ Leave) => IInv'
  <1> SUFFICES ASSUME IInv, NavStateCb \/ Leave PROVE IInv'
    OBVIOUS
  <1>1. UNCHANGED <<loop, process, answer, poor, faults>>
    BY DEF NavStateCb, CountVisit, ClearLabels, Leave
  <1>2. /\ Stop' = Stop /\ active' \in BOOLEAN
        /\ board2_visit' \in 0 .. MaxVisits /\ board2_visit <= board2_visit'
        /\ callback' \in {"over", "entered", "counted"}
    <2> USE DEF IInv, TypeOK, CallbackMatches, Stop
    <2>1. CASE CountVisit
      BY <2>1 DEF CountVisit
    <2>2. CASE ClearLabels
      BY <2>2 DEF ClearLabels
    <2>3. CASE Leave
      <3>1. UNCHANGED <<board2_visit, callback>> /\ active' = FALSE
        BY <2>3 DEF Leave
      <3>2. /\ board2_visit \in 0 .. MaxVisits
            /\ callback \in {"over", "entered", "counted"}
        OBVIOUS
      <3>3. board2_visit <= board2_visit
        BY <3>2
      <3> HIDE DEF IInv, TypeOK, CallbackMatches
      <3> QED  BY <3>1, <3>2, <3>3
    <2> QED  BY <2>1, <2>2, <2>3 DEF NavStateCb
  <1>3. \/ UNCHANGED <<board2_history, board2_published>>
        \/ board2_history' = <<>> /\ board2_published' = FALSE
    BY DEF NavStateCb, CountVisit, ClearLabels, Leave
  <1>4. TypeOK'
    <2>1. /\ board2_history' \in Seq(Label)
          /\ Len(board2_history') <= StableFrames
          /\ board2_published' \in BOOLEAN
      <3>1. CASE UNCHANGED <<board2_history, board2_published>>
        BY <3>1 DEF IInv, TypeOK
      <3>2. CASE board2_history' = <<>> /\ board2_published' = FALSE
        <4>1. board2_history' \in Seq(Label) /\ Len(board2_history') = 0
          BY <3>2, EmptySeq
        <4>2. 0 <= StableFrames
          OBVIOUS
        <4> QED  BY <3>2, <4>1, <4>2
      <3> QED  BY <1>3, <3>1, <3>2
    <2>2. /\ UNCHANGED <<step, visit, request, result, answer, worker>>
          /\ UNCHANGED <<stdin, stdout, recognizer, poor, faults>>
      BY <1>1
    <2> QED  BY <1>2, <2>1, <2>2 DEF IInv, TypeOK
  <1>5. PipesMatch'
    BY <1>1, <1>2 DEF IInv, PipesMatch, Trusted
  <1>6. CallbackMatches'
    BY <1>1, <1>2
    DEF NavStateCb, CountVisit, ClearLabels, Leave, IInv, CallbackMatches
  <1>7. VisitsMatch'
    <2>1. callback' = "over" => board2_history' \in Seq(LabelsOf(board2_visit'))
      <3>1. CASE NavStateCb
        <4>1. callback' = "over" => board2_history' = <<>>
          BY <3>1 DEF NavStateCb, CountVisit, ClearLabels
        <4> QED  BY <4>1, EmptySeq
      <3>2. CASE Leave
        BY <3>2 DEF Leave, IInv, VisitsMatch
      <3> QED  BY <3>1, <3>2
    <2>2. visit' <= board2_visit'
      BY <1>1, <1>2 DEF IInv, TypeOK, VisitsMatch
    <2> QED  BY <1>1, <1>2, <2>1, <2>2
             DEF IInv, VisitsMatch, AnswerOfThisVisit, Detecting
  <1> QED  BY <1>4, <1>5, <1>6, <1>7 DEF IInv

\* Steps that leave nav_state_cb alone, and the visit the car is at.
LEMMA StopStays == UNCHANGED nav => Stop' = Stop
  BY DEF Stop

LEMMA ProcessKeeps == IInv /\ (WarmedUp \/ Dies \/ Hangs) => IInv'
  <1> SUFFICES ASSUME IInv, WarmedUp \/ Dies \/ Hangs PROVE IInv'
    OBVIOUS
  <1>1. UNCHANGED <<nav, loop, stable, stdin, recognizer, poor>> /\ Stop' = Stop
    BY StopStays DEF WarmedUp, Dies, Hangs
  <1>2. /\ worker' \in {"serving", "dead", "hung"}
        /\ faults' \in 0 .. MaxFaults
    BY DEF WarmedUp, Dies, Hangs, Fault, IInv, TypeOK
  <1>3. \/ stdout' = stdout
        \/ /\ step \in {"warmup", "loading"} /\ stdin = <<>>
           /\ stdout' = <<Ready>>
    <2>1. CASE WarmedUp
      <3>1. /\ step \in {"warmup", "loading"} /\ stdin = <<>> /\ stdout = <<>>
            /\ stdout' = Append(stdout, Ready)
        BY <2>1 DEF WarmedUp, IInv, TypeOK, PipesMatch
      <3> QED  BY <3>1
    <2> QED  BY <2>1 DEF Dies, Hangs
  <1>4. TypeOK'
    <2>1. stdout' \in Seq(Reply) /\ Len(stdout') <= 1
      <3>1. CASE stdout' = stdout
        BY <3>1 DEF IInv, TypeOK
      <3>2. CASE stdout' = <<Ready>>
        BY <3>2, ReplyType
      <3> QED  BY <1>3, <3>1, <3>2
    <2>2. /\ UNCHANGED <<active, board2_visit, callback>>
          /\ UNCHANGED <<step, visit, request, result, stable, stdin>>
          /\ UNCHANGED <<recognizer, poor>>
      BY <1>1
    <2> QED  BY <1>2, <2>1, <2>2 DEF IInv, TypeOK
  <1>5. PipesMatch'
    <2>1. step = "boot" => worker' = "none"
      BY DEF WarmedUp, Dies, Hangs, IInv, PipesMatch, Alive
    <2> QED  BY <1>1, <1>2, <1>3, <2>1 DEF IInv, PipesMatch, Trusted
  <1>6. CallbackMatches'
    BY <1>1 DEF IInv, CallbackMatches
  <1>7. VisitsMatch'
    BY <1>1 DEF IInv, VisitsMatch, AnswerOfThisVisit, Detecting
  <1> QED  BY <1>4, <1>5, <1>6, <1>7 DEF IInv

\* The reply of the worker is made from frames of the visit of the request,
\* or from those of a request with the number of the visit before.
LEMMA InferKeeps == IInv /\ Infer => IInv'
  <1> SUFFICES ASSUME IInv, Infer PROVE IInv'
    OBVIOUS
  <1>1. step = "read" /\ stdin = <<request>> /\ stdout = <<>>
    BY DEF Infer, IInv, PipesMatch
  <1>2. /\ recognizer' = [visit |-> request.visit, history |-> History(request)]
        /\ stdin' = <<>> /\ worker = "serving" /\ Stop' = Stop
        /\ UNCHANGED <<nav, loop, stable, worker, poor, faults>>
    BY <1>1, StopStays DEF Infer
  <1>3. PICK label \in Labels(History(request)) :
            stdout' = <<[n |-> request.n, label |-> label]>>
    BY <1>1 DEF Infer
  <1>4. /\ request \in Request /\ request.visit \in 0 .. MaxVisits
        /\ request.n \in 0 .. 1 /\ request.at = Stop /\ Stop \in Visits
        /\ request.visit <= Stop
    <2>1. request \in Request /\ request.at = Stop /\ request.visit = visit
      BY <1>1 DEF IInv, TypeOK, VisitsMatch, Detecting
    <2>2. Stop \in Visits
      BY <2>1, RequestType
    <2>3. visit <= board2_visit /\ board2_visit <= Stop
      BY DEF IInv, VisitsMatch, TypeOK, Stop
    <2> QED  BY <2>1, <2>2, <2>3, RequestType DEF IInv, TypeOK
  <1>5. History(request) \in Seq(Request) /\ Len(History(request)) <= Window
    BY <1>4, HistoryIn DEF IInv, TypeOK
  <1>6. request.visit = Stop => History(request) \in Seq(RequestsAt(Stop))
    <2>1. request \in RequestsAt(Stop)
      BY <1>4 DEF RequestsAt
    <2> QED  BY <2>1, HistoryIn DEF IInv, VisitsMatch
  <1>7. label \in Label \union {NoLabel}
    BY <1>5, LabelOfRequests
  <1>8. Trusted(label)
    BY <1>4, <1>6, LabelOfItsVisit DEF Trusted
  <1>9. [n |-> request.n, label |-> label] \in Reply
    BY <1>4, <1>7, ReplyType
  <1>10. TypeOK'
    BY <1>1, <1>2, <1>3, <1>4, <1>5, <1>9 DEF IInv, TypeOK
  <1>11. PipesMatch'
    BY <1>1, <1>2, <1>3, <1>8, <1>9 DEF IInv, PipesMatch, Trusted
  <1>12. CallbackMatches'
    BY <1>2 DEF IInv, CallbackMatches
  <1>13. VisitsMatch'
    BY <1>1, <1>2, <1>4, <1>6
    DEF IInv, VisitsMatch, AnswerOfThisVisit, Detecting
  <1> QED  BY <1>10, <1>11, <1>12, <1>13 DEF IInv

\* Every way into and out of a detection leaves the pipes empty.
LEMMA DetectionKeeps ==
  ASSUME IInv,
         Prepare \/ GetReady \/ Write \/ Read \/ DetectFails \/ DetectTimesOut
         \/ BootFails
  PROVE  IInv'
  <1>0. /\ UNCHANGED <<nav, visit, request, stable, poor>> /\ Stop' = Stop
        /\ step' # "checked"
    BY StopStays DEF Prepare, GetReady, Write, Read, DetectFails,
       DetectTimesOut, BootFails
  <1>1. CallbackMatches'
    BY <1>0 DEF IInv, CallbackMatches
  <1>2. Detecting' => Detecting
    BY DEF Prepare, GetReady, Write, Read, DetectFails, DetectTimesOut,
       BootFails, Detecting, Waiting, NeedsWorker, Alive, IInv, PipesMatch
  <1>3. recognizer' \in {recognizer, Fresh}
    BY DEF Prepare, GetReady, Write, Read, DetectFails, DetectTimesOut,
       BootFails, NeedsWorker, CloseWorker
  <1>4. VisitsMatch'
    <2>1. /\ recognizer'.visit <= Stop
          /\ recognizer'.visit = Stop =>
                recognizer'.history \in Seq(RequestsAt(Stop))
      <3>1. CASE recognizer' = recognizer
        BY <3>1 DEF IInv, VisitsMatch
      <3>2. CASE recognizer' = Fresh
        BY <3>2, FreshType, StopType DEF IInv
      <3> QED  BY <1>3, <3>1, <3>2
    <2> QED  BY <1>0, <1>2, <2>1 DEF IInv, VisitsMatch, AnswerOfThisVisit,
                Detecting
  <1>5. /\ recognizer'.visit \in 0 .. MaxVisits
        /\ recognizer'.history \in Seq(Request)
        /\ Len(recognizer'.history) <= Window
    <2>1. CASE recognizer' = recognizer
      BY <2>1 DEF IInv, TypeOK
    <2>2. CASE recognizer' = Fresh
      <3>1. Fresh.history \in Seq(Request) /\ Len(Fresh.history) = 0
        BY FreshType, EmptySeq
      <3> QED  BY <2>2, <3>1, FreshType
    <2> QED  BY <1>3, <2>1, <2>2
  <1>6. ASSUME /\ worker' \in {"none", "loading", "serving", "hung", "dead"}
               /\ stdin' \in Seq(Request) /\ Len(stdin') <= 1
               /\ stdout' \in Seq(Reply) /\ Len(stdout') <= 1
               /\ result' \in Reply /\ faults' \in 0 .. MaxFaults
               /\ step' \in {"boot", "warmup", "idle", "prepare", "loading",
                             "write", "read", "result", "checked"}
        PROVE  TypeOK'
    <2>1. UNCHANGED <<active, board2_visit, callback, visit, request>>
          /\ UNCHANGED <<board2_history, board2_published, answer, poor>>
      BY <1>0
    <2> QED  BY <1>5, <1>6, <2>1 DEF IInv, TypeOK
  <1>7. CASE Prepare
    <2>1. CASE NeedsWorker
      <3>1. /\ stdin' = <<>> /\ stdout' = <<>> /\ worker' = "loading"
            /\ step' \in {"warmup", "loading"} /\ UNCHANGED <<result, faults>>
        BY <1>7, <2>1 DEF Prepare
      <3>2. TypeOK'
        BY <1>6, <3>1, EmptySeq DEF IInv, TypeOK
      <3>3. PipesMatch'
        BY <3>1 DEF PipesMatch
      <3> QED  BY <1>1, <1>4, <3>2, <3>3 DEF IInv
    <2>2. CASE ~NeedsWorker
      <3>1. /\ UNCHANGED process /\ step' = "write" /\ step = "prepare"
            /\ UNCHANGED <<result, faults>>
        BY <1>7, <2>2 DEF Prepare, NeedsWorker, Alive, IInv, PipesMatch
      <3>2. TypeOK'
        BY <1>6, <3>1 DEF IInv, TypeOK
      <3>3. PipesMatch'
        BY <3>1 DEF IInv, PipesMatch
      <3> QED  BY <1>1, <1>4, <3>2, <3>3 DEF IInv
    <2> QED  BY <2>1, <2>2
  <1>8. CASE GetReady
    <2>1. /\ step' \in {"idle", "write"} /\ stdout' = <<>>
          /\ stdin = <<>> /\ worker # "loading"
          /\ UNCHANGED <<worker, stdin, result, faults>>
      BY <1>8 DEF GetReady, IInv, PipesMatch
    <2>2. TypeOK'
      BY <1>6, <2>1, EmptySeq DEF IInv, TypeOK
    <2>3. PipesMatch'
      BY <2>1 DEF PipesMatch
    <2> QED  BY <1>1, <1>4, <2>2, <2>3 DEF IInv
  <1>9. CASE Write
    <2>1. /\ step' = "read" /\ stdin' = <<request>> /\ stdout' = <<>>
          /\ worker' # "loading" /\ UNCHANGED <<worker, result, faults>>
      BY <1>9 DEF Write, IInv, PipesMatch
    <2>2. stdin' \in Seq(Request) /\ Len(stdin') = 1
      BY <2>1 DEF IInv, TypeOK
    <2>3. TypeOK'
      BY <1>6, <2>1, <2>2, EmptySeq DEF IInv, TypeOK
    <2>4. PipesMatch'
      BY <1>0, <2>1 DEF PipesMatch
    <2> QED  BY <1>1, <1>4, <2>3, <2>4 DEF IInv
  <1>10. CASE Read
    <2>1. /\ step = "read" /\ stdout # <<>> /\ step' = "result"
          /\ result' = Head(stdout) /\ stdout' = <<>>
          /\ UNCHANGED <<worker, stdin, faults>>
      BY <1>10 DEF Read
    <2>2. PICK reply \in Reply :
            /\ stdout = <<reply>> /\ reply.n = request.n /\ Trusted(reply.label)
            /\ stdin = <<>> /\ worker # "loading"
      BY <2>1 DEF IInv, PipesMatch
    <2>3. result' = reply
      BY <2>1, <2>2
    <2>4. TypeOK'
      BY <1>6, <2>1, <2>3, EmptySeq DEF IInv, TypeOK
    <2>5. PipesMatch'
      BY <1>0, <2>1, <2>2, <2>3 DEF PipesMatch, Trusted
    <2> QED  BY <1>1, <1>4, <2>4, <2>5 DEF IInv
  <1>11. CASE DetectFails \/ DetectTimesOut
    <2>1. /\ step' = "result" /\ worker' = "none" /\ stdin' = <<>>
          /\ stdout' = <<>>
          /\ result' = [n |-> request.n, label |-> NoLabel]
          /\ faults' \in 0 .. MaxFaults
      <3>1. faults' = faults \/ (faults < MaxFaults /\ faults' = faults + 1)
        <4>1. CASE DetectFails
          BY <4>1 DEF DetectFails
        <4>2. CASE DetectTimesOut
          BY <4>2 DEF DetectTimesOut, TimedOut, Fault
        <4> QED  BY <1>11, <4>1, <4>2
      <3>2. faults \in 0 .. MaxFaults /\ MaxFaults \in Nat
        BY DEF IInv, TypeOK
      <3>3. faults' \in 0 .. MaxFaults
        BY ONLY <3>1, <3>2
      <3> QED  BY <1>11, <3>3 DEF DetectFails, DetectTimesOut, CloseWorker
    <2>2. result' \in Reply /\ result'.n = request.n /\ result'.label = NoLabel
      BY <2>1, RequestType, ReplyType DEF IInv, TypeOK
    <2>3. TypeOK'
      BY <1>6, <2>1, <2>2, EmptySeq
    <2>4. PipesMatch'
      BY <1>0, <2>1, <2>2 DEF PipesMatch, Trusted
    <2> QED  BY <1>1, <1>4, <2>3, <2>4 DEF IInv
  <1>12. CASE BootFails
    <2>1. /\ step' = "boot" /\ worker' = "none" /\ stdin' = <<>>
          /\ stdout' = <<>> /\ UNCHANGED result
          /\ faults' \in 0 .. MaxFaults
      <3>1. faults' = faults \/ (faults < MaxFaults /\ faults' = faults + 1)
        <4>1. faults' = faults \/ TimedOut
          BY <1>12 DEF BootFails
        <4> QED  BY <4>1 DEF TimedOut, Fault
      <3>2. faults \in 0 .. MaxFaults /\ MaxFaults \in Nat
        BY DEF IInv, TypeOK
      <3>3. faults' \in 0 .. MaxFaults
        BY ONLY <3>1, <3>2
      <3> QED  BY <1>12, <3>3 DEF BootFails, CloseWorker
    <2>2. TypeOK'
      BY <1>6, <2>1, EmptySeq DEF IInv, TypeOK
    <2>3. PipesMatch'
      BY <2>1 DEF PipesMatch
    <2> QED  BY <1>1, <1>4, <2>2, <2>3 DEF IInv
  <1> QED  BY <1>7, <1>8, <1>9, <1>10, <1>11, <1>12

LEMMA TakeFrameKeeps == IInv /\ TakeFrame => IInv'
  <1> SUFFICES ASSUME IInv, TakeFrame PROVE IInv'
    OBVIOUS
  <1>1. /\ step = "idle" /\ active /\ step' = "prepare"
        /\ visit' = board2_visit /\ Stop' = Stop
        /\ UNCHANGED <<nav, result, stable, process, faults>>
    BY StopStays DEF TakeFrame
  <1>2. PICK frame \in Frames :
          /\ request' = [n |-> 1 - request.n, visit |-> board2_visit,
                         at |-> Stop, frame |-> frame]
          /\ IF frame = "right" THEN poor' = poor
             ELSE poor < MaxPoor /\ poor' = poor + 1
    BY Zenon DEF TakeFrame
  <1>3. Stop \in Visits /\ 1 - request.n \in 0 .. 1
    <2>1. Stop \in Visits
      BY <1>1, StopType DEF IInv
    <2>2. request.n \in 0 .. 1
      BY RequestType DEF IInv, TypeOK
    <2> QED  BY <2>1, <2>2
  <1>4. /\ request' \in Request /\ request'.at = Stop
        /\ request'.visit = board2_visit
    BY <1>2, <1>3, RequestType DEF IInv, TypeOK
  <1>5. TypeOK'
    <2>1. poor' \in 0 .. MaxPoor
      <3>1. poor \in 0 .. MaxPoor /\ MaxPoor \in Nat
        BY DEF IInv, TypeOK
      <3> QED  BY <1>2, <3>1
    <2> QED  BY <1>1, <1>4, <2>1 DEF IInv, TypeOK
  <1>6. PipesMatch'
    BY <1>1 DEF IInv, PipesMatch
  <1>7. CallbackMatches'
    BY <1>1 DEF IInv, CallbackMatches
  <1>8. VisitsMatch'
    BY <1>1, <1>4 DEF IInv, TypeOK, VisitsMatch, AnswerOfThisVisit
  <1> QED  BY <1>5, <1>6, <1>7, <1>8 DEF IInv

LEMMA CheckKeeps == IInv /\ Check => IInv'
  <1> SUFFICES ASSUME IInv, Check PROVE IInv'
    OBVIOUS
  <1>1. /\ step = "result" /\ callback = "over"
        /\ step' \in {"idle", "checked"}
        /\ step' = "checked" => visit = board2_visit
        /\ Stop' = Stop
        /\ UNCHANGED <<nav, visit, request, result, stable, process>>
        /\ UNCHANGED <<poor, faults>>
    BY StopStays DEF Check, IsActive
  <1>2. TypeOK'
    BY <1>1 DEF IInv, TypeOK
  <1>3. PipesMatch'
    BY <1>1 DEF IInv, PipesMatch, Trusted
  <1>4. CallbackMatches'
    BY <1>1 DEF IInv, CallbackMatches
  <1>5. VisitsMatch'
    BY <1>1 DEF IInv, VisitsMatch, AnswerOfThisVisit, Detecting
  <1> QED  BY <1>2, <1>3, <1>4, <1>5 DEF IInv

\* What stable_publish_board2 does with a label of this visit, or without.
\* This is where the check of the number before it is used.
LEMMA LabelIsPublished ==
  ASSUME IInv, StablePublish,
         NEW labels,
         labels = LastOf(Append(board2_history, result.label), StableFrames)
  PROVE  /\ Stop = board2_visit /\ board2_visit \in Visits
         /\ \/ /\ result.label = NoLabel /\ board2_history' = <<>>
               /\ UNCHANGED <<board2_published, answer>>
            \/ /\ result.label \in LabelsOf(board2_visit)
               /\ labels \in Seq(LabelsOf(board2_visit))
               /\ Len(labels) \in 1 .. StableFrames
               /\ board2_history' = labels
               /\ \/ /\ ~ /\ Len(labels) = StableFrames
                          /\ \A i \in 1 .. Len(labels) :
                                labels[i].says = result.label.says
                     /\ UNCHANGED <<board2_published, answer>>
                  \/ /\ Len(labels) = StableFrames
                     /\ \A i \in 1 .. Len(labels) :
                           labels[i].says = result.label.says
                     /\ board2_published' = TRUE
                     /\ answer' = [answer EXCEPT ![board2_visit] =
                           [says |-> result.label.says,
                            seen |-> {board2_visit}]]
  <1>1. /\ step = "checked" /\ callback = "over" /\ visit = board2_visit
        /\ Stop = board2_visit /\ request.visit = Stop /\ request.at = Stop
    BY DEF StablePublish, IInv, CallbackMatches, VisitsMatch, Detecting, Stop
  <1>2. board2_visit \in Visits
    BY <1>1, RequestType DEF IInv, TypeOK
  <1>3. result.label \in LabelsOf(board2_visit) \union {NoLabel}
    BY <1>1 DEF IInv, PipesMatch, Trusted
  <1>4. CASE result.label = NoLabel
    BY <1>1, <1>2, <1>4 DEF StablePublish
  <1>5. CASE result.label # NoLabel
    <2>1. /\ labels \in Seq(LabelsOf(board2_visit))
          /\ Len(labels) \in 1 .. StableFrames
      BY <1>1, <1>3, <1>5, LastOfAppend DEF IInv, VisitsMatch
    <2>2. \A i \in 1 .. Len(labels) : labels[i].seen = {board2_visit}
      BY <2>1, ElementOfSeq, LabelType
    <2>3. 1 \in 1 .. Len(labels)
      BY <2>1
    <2>4. {labels[i].seen : i \in 1 .. Len(labels)} = {{board2_visit}}
      BY <2>2, <2>3
    <2>5. UNION {labels[i].seen : i \in 1 .. Len(labels)} = {board2_visit}
      BY <2>4
    <2>6. \/ /\ ~ /\ Len(labels) = StableFrames
                  /\ \A i \in 1 .. Len(labels) :
                        labels[i].says = result.label.says
             /\ board2_history' = labels
             /\ UNCHANGED <<board2_published, answer>>
          \/ /\ Len(labels) = StableFrames
             /\ \A i \in 1 .. Len(labels) :
                   labels[i].says = result.label.says
             /\ board2_history' = labels
             /\ board2_published' = TRUE
             /\ answer' = [answer EXCEPT ![board2_visit] =
                   [says |-> result.label.says,
                    seen |-> UNION {labels[i].seen : i \in 1 .. Len(labels)}]]
      BY <1>5 DEF StablePublish
    <2> QED  BY <1>1, <1>2, <1>3, <1>5, <2>1, <2>5, <2>6
  <1> QED  BY <1>4, <1>5

LEMMA PublishKeeps == IInv /\ StablePublish => IInv'
  <1> SUFFICES ASSUME IInv, StablePublish PROVE IInv'
    OBVIOUS
  <1>1. /\ step = "checked" /\ step' = "idle" /\ Stop' = Stop
        /\ UNCHANGED <<nav, visit, request, result, process, poor, faults>>
    BY StopStays DEF StablePublish
  <1>2. /\ board2_visit \in Visits
        /\ board2_history' \in Seq(LabelsOf(board2_visit))
        /\ Len(board2_history') <= StableFrames
    <2>1. PICK labels :
            labels = LastOf(Append(board2_history, result.label), StableFrames)
      OBVIOUS
    <2>2. /\ board2_visit \in Visits
          /\ \/ board2_history' = <<>>
             \/ /\ board2_history' \in Seq(LabelsOf(board2_visit))
                /\ Len(board2_history') \in 1 .. StableFrames
      BY <2>1, LabelIsPublished
    <2>3. CASE board2_history' = <<>>
      <3>1. /\ board2_history' \in Seq(LabelsOf(board2_visit))
            /\ Len(board2_history') = 0
        BY <2>3, EmptySeq
      <3>2. 0 <= StableFrames
        OBVIOUS
      <3> QED  BY <2>2, <3>1, <3>2
    <2>4. CASE board2_history' # <<>>
      <3>1. \A n \in 1 .. StableFrames : n <= StableFrames
        OBVIOUS
      <3> QED  BY <2>2, <2>4, <3>1
    <2> QED  BY <2>3, <2>4
  <1>3. /\ board2_published' \in BOOLEAN
        /\ \/ answer' = answer
           \/ \E label \in LabelsOf(board2_visit) :
                 answer' = [answer EXCEPT ![board2_visit] = label]
    <2>1. result.label \in LabelsOf(board2_visit) =>
            [says |-> result.label.says, seen |-> {board2_visit}]
                \in LabelsOf(board2_visit)
      BY LabelType DEF LabelsOf
    <2> QED  BY <2>1, LabelIsPublished DEF IInv, TypeOK
  <1>4. TypeOK'
    <2>1. board2_history' \in Seq(Label)
      BY <1>2, LabelType, SeqMonotonic
    <2>2. answer' \in [Visits -> Label \union {NoLabel}]
      BY <1>2, <1>3, LabelType DEF IInv, TypeOK
    <2>3. /\ UNCHANGED <<active, board2_visit, callback, visit, request>>
          /\ UNCHANGED <<result, worker, stdin, stdout, recognizer>>
          /\ UNCHANGED <<poor, faults>>
      BY <1>1
    <2> QED  BY <1>1, <1>2, <1>3, <2>1, <2>2, <2>3 DEF IInv, TypeOK
  <1>5. PipesMatch'
    BY <1>1 DEF IInv, PipesMatch
  <1>6. CallbackMatches'
    BY <1>1 DEF IInv, CallbackMatches
  <1>7. VisitsMatch'
    <2>1. AnswerOfThisVisit'
      <3> SUFFICES ASSUME NEW v \in Visits PROVE answer'[v].seen \subseteq {v}
        BY DEF AnswerOfThisVisit
      <3>1. answer[v].seen \subseteq {v}
        BY DEF IInv, VisitsMatch, AnswerOfThisVisit
      <3>2. \/ answer'[v] = answer[v]
            \/ v = board2_visit /\ answer'[v] \in LabelsOf(board2_visit)
        BY <1>2, <1>3 DEF IInv, TypeOK
      <3>3. ASSUME answer'[v] \in LabelsOf(board2_visit)
            PROVE  answer'[v].seen = {board2_visit}
        BY <3>3, LabelType
      <3> QED  BY <3>1, <3>2, <3>3
    <2> QED  BY <1>1, <1>2, <2>1 DEF IInv, VisitsMatch, Detecting
  <1> QED  BY <1>4, <1>5, <1>6, <1>7 DEF IInv

LEMMA NextKeeps == IInv /\ [Next]_vars => IInv'
  <1> SUFFICES ASSUME IInv, [Next]_vars PROVE IInv'
    OBVIOUS
  <1>1. CASE UNCHANGED vars
    BY <1>1, StopStays DEF vars, IInv, TypeOK, PipesMatch, CallbackMatches,
       VisitsMatch, AnswerOfThisVisit, Trusted, Detecting
  <1>2. CASE Next
    BY <1>2, EnterKeeps, NavKeeps, ProcessKeeps, InferKeeps, DetectionKeeps,
       TakeFrameKeeps, CheckKeeps, PublishKeeps
    DEF Next, Detector, Worker
  <1> QED  BY <1>1, <1>2

-----------------------------------------------------------------------------
(* The theorems.                                                           *)

\* The inductive invariant: what the pipes can hold at each step of the loop,
\* and whose frames the histories are made of.
THEOREM PipeInvariant == Spec => []IInv
  BY InitInvariant, NextKeeps, PTL DEF Spec

\* Types; in particular neither pipe ever holds two lines.
THEOREM TypeCorrect == Spec => []TypeOK
  <1>1. IInv => TypeOK
    BY DEF IInv
  <1> QED  BY <1>1, PipeInvariant, PTL

\* _read_worker_result returns the reply to the request just written, though
\* replies carry no number: close_board2_yolo after every exception suffices.
THEOREM RepliesMatch == Spec => []ReplyIsToTheRequest
  <1>1. IInv => ReplyIsToTheRequest
    BY DEF IInv, PipesMatch, ReplyIsToTheRequest
  <1> QED  BY <1>1, PipeInvariant, PTL

\* What stable_publish_board2 publishes rests on frames of the visit it is
\* published in, for any smoothing window and any number of stable labels.
THEOREM AnswersOfTheVisit == Spec => []AnswerOfThisVisit
  <1>1. IInv => AnswerOfThisVisit
    BY DEF IInv, VisitsMatch
  <1> QED  BY <1>1, PipeInvariant, PTL

-----------------------------------------------------------------------------
(* No deadlock at the pipes.                                               *)

\* A loop that waits at a pipe has a worker; one that is well has sent the line
\* or has what it needs to send it.
LineIsComing ==
    /\ Waiting \/ step = "warmup" => worker # "none"
    /\ worker = "serving" =>
        /\ step \in {"warmup", "loading"} => stdout # <<>>
        /\ step = "read" => stdin # <<>> \/ stdout # <<>>

LEMMA LineKeepsComing ==
  ASSUME IInv, LineIsComing, [Next]_vars
  PROVE  LineIsComing'
  <1> USE DEF LineIsComing, Waiting
  <1>1. CASE Enter \/ NavStateCb \/ Leave \/ TakeFrame \/ Check \/ StablePublish
    BY <1>1 DEF Enter, NavStateCb, CountVisit, ClearLabels, Leave, TakeFrame,
                Check, StablePublish
  <1>2. CASE Prepare
    BY <1>2 DEF Prepare, NeedsWorker, Alive
  <1>3. CASE GetReady
    BY <1>3 DEF GetReady
  <1>4. CASE Write
    <2>1. stdin' # <<>> /\ step' = "read" /\ worker' = worker
      BY <1>4 DEF Write, IInv, TypeOK
    <2> QED  BY <1>4, <2>1 DEF Write
  <1>5. CASE Read
    BY <1>5 DEF Read
  <1>6. CASE WarmedUp \/ Infer
    <2>1. \E reply : stdout' = Append(stdout, reply)
      BY <1>6 DEF WarmedUp, Infer
    <2>2. PICK reply : stdout' = Append(stdout, reply)
      BY <2>1
    <2>3. stdout \in Seq(Reply \union {reply})
      BY DEF IInv, TypeOK
    <2>4. stdout' # <<>>
      BY <2>2, <2>3
    <2>5. UNCHANGED step /\ worker' # "none"
      BY <1>6 DEF WarmedUp, Infer
    <2> QED  BY <2>4, <2>5
  <1>7. CASE Dies \/ Hangs
    BY <1>7 DEF Dies, Hangs
  <1>8. CASE DetectFails \/ DetectTimesOut \/ BootFails
    BY <1>8 DEF DetectFails, DetectTimesOut, BootFails
  <1>9. CASE UNCHANGED vars
    BY <1>9 DEF vars
  <1> QED  BY <1>1, <1>2, <1>3, <1>4, <1>5, <1>6, <1>7, <1>8, <1>9
           DEF Next, Detector, Worker

\* Loop and worker never wait for each other: when _read_worker_result times
\* out, the worker was dead, hung or slow.
THEOREM LoopAndWorkerNeverBothWait == Spec => []LineIsComing
  <1>1. Init => LineIsComing
    BY DEF Init, LineIsComing, Waiting
  <1> QED  BY <1>1, LineKeepsComing, PipeInvariant, PTL DEF Spec

-----------------------------------------------------------------------------
(* Labels that say the same, at the end of a history.                      *)

\* There is one streak at most, so that Agreeing is it.
LEMMA AgreeingIsStreak ==
  ASSUME NEW history, Len(history) \in Nat, NEW n, IsStreak(history, n)
  PROVE  Agreeing(history) = n
  <1>1. \A m : IsStreak(history, m) => m = n
    <2> SUFFICES ASSUME NEW m, IsStreak(history, m) PROVE m = n
      OBVIOUS
    <2> DEFINE len == Len(history)
    <2>0. n \in 0 .. len /\ m \in 0 .. len /\ len \in Nat
      BY DEF IsStreak
    <2>1. ASSUME NEW a \in 0 .. len, NEW b \in 0 .. len, a < b,
                 history[len - a].says # history[len].says,
                 \A i \in len - b + 1 .. len :
                    history[i].says = history[len].says
          PROVE  FALSE
      <3>1. len - a \in len - b + 1 .. len
        BY <2>0, <2>1
      <3> QED  BY <2>1, <3>1
    <2>2. CASE n < m
      <3>1. n < len
        BY <2>0, <2>2
      <3> QED  BY <2>0, <2>1, <2>2, <3>1 DEF IsStreak
    <2>3. CASE m < n
      <3>1. m < len
        BY <2>0, <2>3
      <3> QED  BY <2>0, <2>1, <2>3, <3>1 DEF IsStreak
    <2> QED  BY <2>0, <2>2, <2>3
  <1>2. n \in 0 .. Len(history)
    BY DEF IsStreak
  <1> QED  BY <1>1, <1>2 DEF Agreeing

LEMMA NoStreak == IsStreak(<<>>, 0) /\ Agreeing(<<>>) = 0
  <1>1. Len(<<>>) = 0 /\ IsStreak(<<>>, 0)
    BY DEF IsStreak
  <1> QED  BY <1>1, AgreeingIsStreak

\* A bounded history after an append: the oldest label makes place if needed.
LEMMA ShiftedByAppend ==
  ASSUME NEW S, NEW s \in Seq(S), NEW x \in S, NEW n \in Nat \ {0},
         Len(s) <= n,
         NEW t, t = LastOf(Append(s, x), n),
         NEW d, d = IF Len(s) < n THEN 0 ELSE 1
  PROVE  /\ d \in 0 .. 1 /\ Len(t) = Len(s) + 1 - d /\ Len(t) \in 1 .. n
         /\ t \in Seq(S) /\ t[Len(t)] = x
         /\ \A i \in 1 .. Len(t) - 1 : t[i] = s[i + d]
  <1> DEFINE u == Append(s, x)
  <1>1. /\ u \in Seq(S) /\ Len(u) = Len(s) + 1 /\ Len(s) \in Nat
        /\ u[Len(s) + 1] = x /\ \A i \in 1 .. Len(s) : u[i] = s[i]
        /\ d \in 0 .. 1
    OBVIOUS
  <1> HIDE DEF u
  <1>2. t = SubSeq(u, 1 + d, Len(u))
    <2>1. (IF Len(u) > n THEN Len(u) - n + 1 ELSE 1) = 1 + d
      BY <1>1
    <2> QED  BY <2>1 DEF LastOf, u
  <1>3. \A i \in 1 + d .. Len(u) : u[i] \in S
    BY <1>1, ElementOfSeq
  <1>4. /\ t \in Seq(S) /\ Len(t) = Len(u) - (1 + d) + 1
        /\ \A i \in 1 .. Len(u) - (1 + d) + 1 : t[i] = u[1 + d + i - 1]
    <2>1. PICK m : m = 1 + d
      OBVIOUS
    <2>2. /\ m \in Int /\ Len(u) \in Int /\ m <= Len(u) + 1
          /\ \A i \in m .. Len(u) : u[i] \in S
      BY <1>1, <1>3, <2>1
    <2>3. /\ SubSeq(u, m, Len(u)) \in Seq(S)
          /\ Len(SubSeq(u, m, Len(u))) =
                IF m <= Len(u) THEN Len(u) - m + 1 ELSE 0
          /\ \A i \in 1 .. Len(u) - m + 1 :
                SubSeq(u, m, Len(u))[i] = u[m + i - 1]
      BY <1>1, <2>2, SubSeqProperties
    <2>4. m <= Len(u)
      BY <1>1, <2>1
    <2> QED  BY <1>2, <2>1, <2>3, <2>4
  <1>5. Len(t) = Len(s) + 1 - d /\ Len(t) \in 1 .. n
    BY <1>1, <1>4
  <1>6. \A i \in 1 .. Len(t) : t[i] = u[i + d]
    BY <1>1, <1>4, <1>5
  <1>7. t[Len(t)] = x
    <2>1. Len(t) \in 1 .. Len(t) /\ Len(t) + d = Len(s) + 1
      BY <1>1, <1>5
    <2> QED  BY <1>1, <1>6, <2>1
  <1>8. ASSUME NEW i \in 1 .. Len(t) - 1 PROVE t[i] = s[i + d]
    <2>1. i \in 1 .. Len(t) /\ i + d \in 1 .. Len(s)
      BY <1>1, <1>5, <1>8
    <2> QED  BY <1>1, <1>6, <2>1
  <1> QED  BY <1>1, <1>4, <1>5, <1>7, <1>8

LEMMA NewestIsLast ==
  ASSUME NEW S, NEW s \in Seq(S), NEW x \in S, NEW n \in Nat \ {0},
         NEW len, len = Len(LastOf(Append(s, x), n))
  PROVE  LastOf(Append(s, x), n)[len] = x
  <1>0. PICK t : t = LastOf(Append(s, x), n)
    OBVIOUS
  <1> DEFINE u == Append(s, x)
  <1>1. /\ u \in Seq(S) /\ Len(u) \in Nat \ {0} /\ u[Len(u)] = x
    OBVIOUS
  <1> HIDE DEF u
  <1>2. PICK m : m = IF Len(u) > n THEN Len(u) - n + 1 ELSE 1
    OBVIOUS
  <1>3. m \in Int /\ 1 <= m /\ m <= Len(u)
    BY <1>1, <1>2
  <1>4. \A i \in m .. Len(u) : u[i] \in S
    BY <1>1, <1>3, ElementOfSeq
  <1>5. /\ SubSeq(u, m, Len(u)) \in Seq(S)
        /\ Len(SubSeq(u, m, Len(u))) = Len(u) - m + 1
        /\ \A i \in 1 .. Len(u) - m + 1 :
              SubSeq(u, m, Len(u))[i] = u[m + i - 1]
    BY <1>1, <1>3, <1>4, SubSeqProperties
  <1>6. t = SubSeq(u, m, Len(u))
    BY <1>0, <1>2 DEF LastOf, u
  <1>7. t[Len(t)] = u[m + Len(t) - 1] /\ m + Len(t) - 1 = Len(u)
    BY <1>1, <1>3, <1>5, <1>6
  <1> QED  BY <1>0, <1>1, <1>5, <1>6, <1>7

\* What an append makes of a streak that is shorter than the bound.
LEMMA StreakAfterAppend ==
  ASSUME NEW S, NEW s \in Seq(S), NEW x \in S, NEW n \in Nat \ {0},
         Len(s) <= n, NEW k, IsStreak(s, k), k < n,
         NEW t, t = LastOf(Append(s, x), n),
         NEW m,
         m = IF s # <<>> /\ x.says = s[Len(s)].says THEN k + 1 ELSE 1
  PROVE  IsStreak(t, m)
  <1>0. PICK d : d = IF Len(s) < n THEN 0 ELSE 1
    OBVIOUS
  <1>1. /\ d \in 0 .. 1 /\ Len(t) = Len(s) + 1 - d /\ Len(t) \in 1 .. n
        /\ t[Len(t)] = x
        /\ \A i \in 1 .. Len(t) - 1 : t[i] = s[i + d]
    BY <1>0, ShiftedByAppend
  <1>2. /\ Len(s) \in Nat /\ k \in 0 .. Len(s) /\ (s = <<>> <=> Len(s) = 0)
        /\ \A i \in Len(s) - k + 1 .. Len(s) : s[i].says = s[Len(s)].says
        /\ k < Len(s) => s[Len(s) - k].says # s[Len(s)].says
    BY DEF IsStreak
  <1>3. Len(s) + 1 - d <= n /\ (d = 1 => Len(s) = n)
    BY <1>0, <1>2
  <1>4. CASE s # <<>> /\ x.says = s[Len(s)].says
    <2>1. m = k + 1 /\ m \in 0 .. Len(t)
      BY <1>1, <1>2, <1>3, <1>4
    <2>2. ASSUME NEW i \in Len(t) - m + 1 .. Len(t)
          PROVE  t[i].says = t[Len(t)].says
      <3>1. CASE i = Len(t)
        BY <3>1
      <3>2. CASE i # Len(t)
        <4>1. i \in 1 .. Len(t) - 1 /\ i + d \in Len(s) - k + 1 .. Len(s)
          <5>1. /\ Len(s) \in Nat /\ Len(t) \in Nat /\ k \in Nat /\ d \in 0 .. 1
                /\ m = k + 1 /\ m <= Len(t) /\ Len(t) = Len(s) + 1 - d
            BY <1>1, <1>2, <2>1
          <5>2. i \in Int /\ Len(t) - m + 1 <= i /\ i <= Len(t) /\ i # Len(t)
            BY <2>2, <3>2, <5>1
          <5> QED  BY ONLY <5>1, <5>2
        <4>2. t[i] = s[i + d] /\ t[Len(t)] = x
          BY <1>1, <4>1
        <4>3. s[i + d].says = s[Len(s)].says
          BY <1>2, <4>1
        <4> QED  BY <1>4, <4>2, <4>3
      <3> QED  BY <3>1, <3>2
    <2>3. m < Len(t) => t[Len(t) - m].says # t[Len(t)].says
      <3> SUFFICES ASSUME m < Len(t) PROVE t[Len(t) - m].says # t[Len(t)].says
        OBVIOUS
      <3>1. /\ Len(t) - m \in 1 .. Len(t) - 1 /\ Len(t) - m + d = Len(s) - k
            /\ k < Len(s)
        BY <1>1, <1>2, <2>1
      <3>2. t[Len(t) - m] = s[Len(s) - k]
        BY <1>1, <3>1
      <3> QED  BY <1>1, <1>2, <1>4, <3>1, <3>2
    <2> QED  BY <1>1, <1>2, <2>1, <2>2, <2>3 DEF IsStreak
  <1>5. CASE ~ (s # <<>> /\ x.says = s[Len(s)].says)
    <2>1. m = 1 /\ m \in 0 .. Len(t)
      BY <1>1, <1>5
    <2>2. \A i \in Len(t) - m + 1 .. Len(t) : t[i].says = t[Len(t)].says
      BY <1>1, <2>1
    <2>3. m < Len(t) => t[Len(t) - m].says # t[Len(t)].says
      <3> SUFFICES ASSUME 1 < Len(t) PROVE t[Len(t) - 1].says # t[Len(t)].says
        BY <2>1
      <3>1. Len(t) - 1 \in 1 .. Len(t) - 1 /\ Len(t) - 1 + d = Len(s)
            /\ Len(s) # 0
        BY <1>1, <1>2
      <3>2. t[Len(t) - 1] = s[Len(s)]
        BY <1>1, <3>1
      <3> QED  BY <1>1, <1>2, <1>5, <3>1, <3>2
    <2> QED  BY <1>1, <2>1, <2>2, <2>3 DEF IsStreak
  <1> QED  BY <1>4, <1>5

\* A streak as long as the bound: the history is full and of one opinion.
LEMMA FullStreak ==
  ASSUME NEW t, NEW n \in Nat \ {0}, Len(t) \in 1 .. n, NEW m, IsStreak(t, m)
  PROVE  /\ m \in 1 .. n
         /\ m = n <=> /\ Len(t) = n
                      /\ \A i \in 1 .. Len(t) : t[i].says = t[Len(t)].says
  <1>1. m \in 1 .. n /\ m \in 0 .. Len(t)
    BY DEF IsStreak
  <1>2. CASE m = n
    <2>1. Len(t) = n /\ Len(t) - m + 1 = 1
      BY <1>1, <1>2
    <2> QED  BY <1>1, <1>2, <2>1 DEF IsStreak
  <1>3. CASE m # n
    <2> SUFFICES ASSUME Len(t) = n,
                        \A i \in 1 .. Len(t) : t[i].says = t[Len(t)].says
                 PROVE  FALSE
      BY <1>1, <1>3
    <2>1. m < Len(t) /\ Len(t) - m \in 1 .. Len(t)
      BY <1>1, <1>3
    <2> QED  BY <2>1 DEF IsStreak
  <1> QED  BY <1>2, <1>3

-----------------------------------------------------------------------------
(* WorkerPipe implements VisitAnswers.                                     *)

\* While a visit is not answered its labels are counted; before nav_state_cb
\* is over nothing is answered.
Counted ==
    /\ Detecting => ~board2_published
    /\ callback = "over" /\ board2_visit \in Visits =>
        (board2_published <=> answer[board2_visit] # NoLabel)
    /\ \A v \in Visits :
        v > Stop \/ (v = Stop /\ callback # "over") => answer[v] = NoLabel
    /\ IsStreak(board2_history, Agreeing(board2_history))
    /\ callback = "over" /\ ~board2_published =>
        Agreeing(board2_history) < StableFrames

\* What stable_publish_board2 does with a label, told by the streak.
LEMMA LabelIsCounted ==
  ASSUME IInv, Counted, StablePublish
  PROVE  /\ Stop = board2_visit /\ Stop' = Stop /\ board2_visit \in Visits
         /\ callback = "over" /\ UNCHANGED <<board2_visit, callback>>
         /\ answer[Stop] = NoLabel /\ ~board2_published /\ ~Detecting'
         /\ IsStreak(board2_history', Agreeing(board2_history)')
         /\ \/ /\ board2_history' = <<>>
               /\ UNCHANGED <<board2_published, answer>>
            \/ \E says \in {"right", "wrong"} :
               /\ LastSaid' = says
               /\ Streak' = IF says = LastSaid THEN Streak + 1 ELSE 1
               /\ \/ /\ Agreeing(board2_history)' < StableFrames
                     /\ UNCHANGED <<board2_published, answer>>
                  \/ /\ Streak' = StableFrames
                     /\ board2_published' = TRUE
                     /\ answer' = [answer EXCEPT ![Stop] =
                            [says |-> says, seen |-> {Stop}]]
  <1>1. PICK labels :
          labels = LastOf(Append(board2_history, result.label), StableFrames)
    OBVIOUS
  <1>2. /\ step = "checked" /\ step' = "idle" /\ Stop' = Stop
        /\ UNCHANGED <<board2_visit, callback>>
    BY StopStays DEF StablePublish
  <1>3. /\ callback = "over" /\ Stop = board2_visit /\ board2_visit \in Visits
        /\ callback' = "over"
    BY <1>1, <1>2, LabelIsPublished DEF IInv, CallbackMatches
  <1>4. ~board2_published /\ answer[Stop] = NoLabel /\ ~Detecting'
    BY <1>2, <1>3 DEF Counted, Detecting
  <1>5. CASE result.label = NoLabel
    <2>1. board2_history' = <<>> /\ UNCHANGED <<board2_published, answer>>
      BY <1>1, <1>5, LabelIsPublished, LabelType
    <2>2. IsStreak(board2_history', Agreeing(board2_history)')
      BY <2>1, NoStreak
    <2> QED  BY <1>2, <1>3, <1>4, <2>1, <2>2
  <1>6. CASE result.label # NoLabel
    <2>1. /\ result.label \in LabelsOf(board2_visit)
          /\ labels \in Seq(LabelsOf(board2_visit))
          /\ Len(labels) \in 1 .. StableFrames
          /\ board2_history' = labels
          /\ \/ /\ ~ /\ Len(labels) = StableFrames
                     /\ \A i \in 1 .. Len(labels) :
                           labels[i].says = result.label.says
                /\ UNCHANGED <<board2_published, answer>>
             \/ /\ Len(labels) = StableFrames
                /\ \A i \in 1 .. Len(labels) :
                      labels[i].says = result.label.says
                /\ board2_published' = TRUE
                /\ answer' = [answer EXCEPT ![board2_visit] =
                      [says |-> result.label.says, seen |-> {board2_visit}]]
      BY <1>1, <1>6, LabelIsPublished
    <2>2. result.label.says \in {"right", "wrong"}
      BY <2>1, LabelType
    <2>3. PICK k : k = Agreeing(board2_history)
      OBVIOUS
    <2>4. PICK m : m = IF board2_history # <<>> /\ result.label.says =
                            board2_history[Len(board2_history)].says
                       THEN k + 1 ELSE 1
      OBVIOUS
    <2>5. /\ board2_history \in Seq(LabelsOf(board2_visit))
          /\ Len(board2_history) <= StableFrames
          /\ IsStreak(board2_history, k) /\ k < StableFrames
      BY <1>3, <1>4, <2>3 DEF IInv, TypeOK, VisitsMatch, Counted
    <2>6. IsStreak(labels, m)
      BY <1>1, <2>1, <2>4, <2>5, StreakAfterAppend
    <2>7. labels[Len(labels)] = result.label
      BY <1>1, <2>1, <2>5, NewestIsLast
    <2>8. /\ m \in 1 .. StableFrames
          /\ m = StableFrames <=>
                /\ Len(labels) = StableFrames
                /\ \A i \in 1 .. Len(labels) :
                      labels[i].says = result.label.says
      BY <2>1, <2>6, <2>7, FullStreak
    <2>9. Agreeing(board2_history)' = m
      <3>1. Agreeing(labels) = m
        BY <2>1, <2>6, AgreeingIsStreak
      <3> QED  BY <2>1, <3>1
    <2>10. Streak' = m /\ Streak = k
      BY <1>3, <2>3, <2>9 DEF Streak
    <2>11. LastSaid' = result.label.says
      <3>1. labels # <<>>
        BY <2>1
      <3> QED  BY <1>3, <2>1, <2>7, <3>1 DEF LastSaid
    <2>12. m = IF result.label.says = LastSaid THEN k + 1 ELSE 1
      BY <1>3, <2>2, <2>4 DEF LastSaid
    <2>13. IsStreak(board2_history', Agreeing(board2_history)')
      BY <2>1, <2>6, <2>9
    <2>14. \/ /\ m < StableFrames /\ UNCHANGED <<board2_published, answer>>
           \/ /\ m = StableFrames /\ board2_published' = TRUE
              /\ answer' = [answer EXCEPT ![board2_visit] =
                    [says |-> result.label.says, seen |-> {board2_visit}]]
      BY <2>1, <2>8
    <2> QED  BY <1>2, <1>3, <1>4, <2>2, <2>9, <2>10, <2>11, <2>12, <2>13, <2>14
  <1> QED  BY <1>5, <1>6

\* Steps that touch neither the callback nor the labels.
LEMMA OthersStayCounted ==
  ASSUME IInv, Counted, UNCHANGED <<board2_visit, callback, stable>>,
         Detecting' => Detecting \/ ~board2_published
  PROVE  Counted' /\ UNCHANGED VA!vars
  <1>1. Stop' = Stop /\ LastSaid' = LastSaid /\ Streak' = Streak
    BY DEF Stop, LastSaid, Streak
  <1> QED  BY <1>1 DEF Counted, VA!vars

LEMMA OtherSteps ==
  ASSUME IInv, Counted,
         \/ Leave \/ WarmedUp \/ Infer \/ Dies \/ Hangs \/ Prepare \/ GetReady
         \/ Write \/ Read \/ DetectFails \/ DetectTimesOut \/ BootFails
         \/ TakeFrame \/ Check \/ UNCHANGED vars
  PROVE  Counted' /\ UNCHANGED VA!vars
  <1>1. UNCHANGED <<board2_visit, callback, stable>>
    BY DEF Leave, WarmedUp, Infer, Dies, Hangs, Prepare, GetReady, Write, Read,
       DetectFails, DetectTimesOut, BootFails, TakeFrame, Check, vars
  <1>2. Detecting' => Detecting \/ ~board2_published
    BY DEF Leave, WarmedUp, Infer, Dies, Hangs, Prepare, GetReady, Write, Read,
       DetectFails, DetectTimesOut, BootFails, TakeFrame, Check, vars,
       Detecting, Waiting, NeedsWorker, Alive, IInv, PipesMatch
  <1> QED  BY <1>1, <1>2, OthersStayCounted

\* A visit begins with the note of the state; the rest of nav_state_cb makes
\* the history follow.
LEMMA ArrivalCounted ==
  ASSUME IInv, Counted, Enter PROVE Counted' /\ VA!Arrive
  <1>1. /\ callback = "over" /\ callback' = "entered" /\ step = "idle"
        /\ UNCHANGED <<board2_visit, stable, step>> /\ board2_visit \in Nat
        /\ board2_visit < MaxVisits
    BY DEF Enter, IInv, TypeOK, CallbackMatches
  <1>2. Stop = board2_visit /\ Stop' = board2_visit + 1 /\ Stop' \in Visits
    BY <1>1 DEF Stop
  <1>3. LastSaid' = "none" /\ Streak' = 0
    BY <1>1 DEF LastSaid, Streak
  <1>4. Counted'
    BY <1>1, <1>2 DEF Counted, Detecting
  <1> QED  BY <1>1, <1>2, <1>3, <1>4 DEF VA!Arrive

LEMMA CallbackCounted ==
  ASSUME IInv, Counted, NavStateCb PROVE Counted' /\ UNCHANGED VA!vars
  <1>1. /\ callback # "over" /\ step' = step /\ answer' = answer
        /\ Stop' = Stop /\ Streak = 0 /\ LastSaid = "none"
    BY DEF NavStateCb, CountVisit, ClearLabels, Stop, Streak, LastSaid
  <1>2. CASE CountVisit
    <2>1. callback' # "over" /\ UNCHANGED <<board2_history, board2_published>>
      BY <1>2 DEF CountVisit
    <2>2. Streak' = 0 /\ LastSaid' = "none"
      BY <2>1 DEF Streak, LastSaid
    <2> QED  BY <1>1, <2>1, <2>2 DEF Counted, Detecting, VA!vars
  <1>3. CASE ClearLabels
    <2>1. /\ callback = "counted" /\ callback' = "over"
          /\ board2_history' = <<>> /\ board2_published' = FALSE
          /\ board2_visit' = board2_visit
      BY <1>3 DEF ClearLabels
    <2>2. Stop = board2_visit /\ Stop' = board2_visit
      BY <2>1 DEF Stop
    <2>3. /\ IsStreak(board2_history', Agreeing(board2_history)')
          /\ Agreeing(board2_history)' = 0
      BY <2>1, NoStreak
    <2>4. Streak' = 0 /\ LastSaid' = "none"
      BY <2>1, <2>3 DEF Streak, LastSaid
    <2>5. 0 < StableFrames
      OBVIOUS
    <2> QED  BY <1>1, <2>1, <2>2, <2>3, <2>4, <2>5
             DEF Counted, Detecting, VA!vars
  <1> QED  BY <1>2, <1>3 DEF NavStateCb

LEMMA PublishCounted ==
  ASSUME IInv, Counted, StablePublish
  PROVE  /\ Counted'
         /\ VA!Miss \/ \E says \in {"right", "wrong"} :
                          VA!See(says) \/ VA!Answer(says)
  <1>1. /\ Stop = board2_visit /\ Stop' = Stop /\ board2_visit \in Visits
        /\ callback = "over" /\ UNCHANGED <<board2_visit, callback>>
        /\ answer[Stop] = NoLabel /\ ~board2_published /\ ~Detecting'
        /\ IsStreak(board2_history', Agreeing(board2_history)')
    BY LabelIsCounted
  <1>2. VA!Awaited
    BY <1>1 DEF VA!Awaited, VA!NoAnswer, NoLabel
  <1>3. \A v \in Visits : v > Stop => answer[v] = NoLabel
    BY DEF Counted
  <1>4. CASE board2_history' = <<>> /\ UNCHANGED <<board2_published, answer>>
    <2>1. Agreeing(board2_history)' = 0 /\ 0 < StableFrames
      BY <1>4, NoStreak
    <2>2. Streak' = 0 /\ LastSaid' = "none"
      BY <1>1, <1>4, <2>1 DEF Streak, LastSaid
    <2>3. Counted'
      BY <1>1, <1>3, <1>4, <2>1 DEF Counted
    <2> QED  BY <1>1, <1>2, <1>4, <2>2, <2>3 DEF VA!Miss
  <1>5. ASSUME NEW says \in {"right", "wrong"},
               LastSaid' = says,
               Streak' = IF says = LastSaid THEN Streak + 1 ELSE 1,
               Agreeing(board2_history)' < StableFrames,
               UNCHANGED <<board2_published, answer>>
        PROVE  Counted' /\ VA!See(says)
    <2>1. Streak' < StableFrames
      BY <1>1, <1>5 DEF Streak
    <2>2. Counted'
      BY <1>1, <1>3, <1>5 DEF Counted
    <2> QED  BY <1>1, <1>2, <1>5, <2>1, <2>2 DEF VA!See, VA!Hear
  <1>6. ASSUME NEW says \in {"right", "wrong"},
               LastSaid' = says,
               Streak' = IF says = LastSaid THEN Streak + 1 ELSE 1,
               Streak' = StableFrames, board2_published' = TRUE,
               answer' = [answer EXCEPT ![Stop] =
                            [says |-> says, seen |-> {Stop}]]
        PROVE  Counted' /\ VA!Answer(says)
    <2>1. answer \in [Visits -> Label \union {NoLabel}]
      BY DEF IInv, TypeOK
    <2>2. answer'[Stop] # NoLabel
      <3>1. answer'[Stop] = [says |-> says, seen |-> {Stop}]
        BY <1>1, <1>6, <2>1
      <3> QED  BY <3>1, <1>6 DEF NoLabel
    <2>3. \A v \in Visits : v > Stop => answer'[v] = NoLabel
      <3> SUFFICES ASSUME NEW v \in Visits, v > Stop PROVE answer'[v] = NoLabel
        OBVIOUS
      <3>1. v # Stop
        BY <1>1
      <3> QED  BY <1>3, <1>6, <2>1, <3>1
    <2>4. Counted'
      BY <1>1, <1>6, <2>2, <2>3 DEF Counted
    <2> QED  BY <1>1, <1>2, <1>6, <2>4 DEF VA!Answer, VA!Hear
  <1> QED  BY <1>4, <1>5, <1>6, LabelIsCounted

\* A step begins a visit, counts or misses a label, answers, or nothing.
LEMMA StepAnswers ==
  IInv /\ Counted /\ [Next]_vars => Counted' /\ [VA!Next]_(VA!vars)
  <1> SUFFICES ASSUME IInv, Counted, [Next]_vars
               PROVE  Counted' /\ (VA!Next \/ UNCHANGED VA!vars)
    OBVIOUS
  <1>1. CASE Enter
    BY <1>1, ArrivalCounted DEF VA!Next
  <1>2. CASE NavStateCb
    BY <1>2, CallbackCounted
  <1>3. CASE StablePublish
    BY <1>3, PublishCounted DEF VA!Next
  <1>4. CASE ~ (Enter \/ NavStateCb \/ StablePublish)
    BY <1>4, OtherSteps DEF Next, Detector, Worker
  <1> QED  BY <1>1, <1>2, <1>3, <1>4

\* With a worker that may die, hang or be late and a callback without a lock,
\* stable_publish_board2 answers a visit at most once, with the first label
\* that StableFrames labels of it in succession agree on.
THEOREM ImplementsVisitAnswers == Spec => AnswersOnce
  <1>1. Init => Counted /\ VA!Init
    <2> SUFFICES ASSUME Init PROVE Counted /\ VA!Init
      OBVIOUS
    <2>1. /\ board2_history = <<>> /\ callback = "over" /\ step = "boot"
          /\ board2_visit = 0 /\ board2_published = FALSE
          /\ answer = [v \in Visits |-> NoLabel]
      BY DEF Init
    <2>2. Stop = 0 /\ LastSaid = "none" /\ Streak = 0
      BY <2>1, NoStreak DEF Stop, LastSaid, Streak
    <2>3. /\ IsStreak(board2_history, Agreeing(board2_history))
          /\ Agreeing(board2_history) < StableFrames
      BY <2>1, NoStreak
    <2>4. Counted
      BY <2>1, <2>2, <2>3 DEF Counted, Detecting
    <2>5. VA!Init
      BY <2>1, <2>2 DEF VA!Init, VA!NoAnswer, NoLabel
    <2> QED  BY <2>4, <2>5
  <1> QED  BY <1>1, StepAnswers, PipeInvariant, PTL
           DEF Spec, AnswersOnce, VA!Spec
=============================================================================

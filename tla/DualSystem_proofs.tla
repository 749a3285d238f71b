-------------------------- MODULE DualSystem_proofs --------------------------
(***************************************************************************)
(* Proofs about DualTurn, for every max_rounds (0 included), and about     *)
(* DualSystem, for every value of its constants: any number of rounds,     *)
(* connections, failures and respawns of the link nodes, and any windows   *)
(* of time.                                                                *)
(*                                                                         *)
(* Those about DualTurn assume PromptCallbacks: a run of                   *)
(* peer_done_callback is over before a blocking call of the main thread    *)
(* returns.  Without it the properties do not hold: main thread and        *)
(* callback may each activate the same done.                               *)
(*                                                                         *)
(* Argument for DualTurn.  The four sequence numbers are always ordered as *)
(* in SeqOrder, with one of the inequalities strict: the strict one says   *)
(* where the turn is.  Local says, for one car, what its two threads can   *)
(* be doing in each state; it is what keeps an activation of the callback  *)
(* from meeting an activation of the main loop after the turn was used.    *)
(*                                                                         *)
(* Argument for DualSystem.  Wherever a done is (queued, snapshot, in a    *)
(* connection, past the check, on peer_done) it was published by the other *)
(* car, so what the link delivers is a step DualTurn allows (Sound).  And  *)
(* what the check compares with is 0, or something the link node did       *)
(* publish, or something a handler thread is about to publish (Handled).   *)
(* With link nodes that stay up, the time left in the window of a done     *)
(* that has not arrived is bounded below by what the attempts that failed  *)
(* have cost (Budget); while failures are left it is never used up.        *)
(***************************************************************************)
EXTENDS DualSystem, TLAPS

\* The state a main-thread point leaves self.count in.
PointCount(c) ==
    /\ pc[c] \in {"gate", "wait_check", "wait_activate", "wait_go",
                  "wait_sleep"} => count[c] \in {8, 9}
    /\ pc[c] = "loop" => count[c] \in {8, 9, 11, 12, 14, 15}
    /\ pc[c] \in {"board1", "to_board1"} => count[c] = 9
    /\ pc[c] = "at_board1" => count[c] = 10
    /\ pc[c] = "pickup" => count[c] = 11
    /\ pc[c] = "to_board2" => count[c] = 12
    /\ pc[c] = "at_board2" => count[c] = 13
    /\ pc[c] = "to_lab" => count[c] = 14
    /\ pc[c] \in {"release", "releasing", "homing", "home_check",
                  "home_activate", "home_go", "home_yield", "home_wait"}
            => count[c] = 15

\* The turn is being used, or will be by the next step of a thread.
Using(c) ==
    cb[c] = "go" \/ pc[c] \in {"wait_go", "home_go"} \/ OnSharedStretch(c)

\* Where the main thread can be while the callback activates.
Overlap(c) ==
    /\ cb[c] \in {"activate", "go"} =>
        /\ pc[c] \in {"gate", "loop", "wait_check", "wait_activate",
                      "wait_go", "wait_sleep"}
        /\ pc[c] # "wait_sleep" => count[c] = 8
    /\ cb[c] \in {"check", "activate"} =>
        peer_done_pending[c] \/ Using(c)
    /\ pc[c] = "wait_activate" =>
        peer_done_pending[c] \/ cb[c] = "go" \/ count[c] = 9
    /\ pc[c] = "home_activate" => peer_done_pending[c]

\* In use, the flags say so and no second done is cached.
Flags(c) ==
    /\ Using(c) => have_turn[c]
    /\ Using(c) \/ pc[c] = "release" =>
            ~turn_released_this_round[c] /\ ~peer_done_pending[c]

\* Where a round is counted.
Rounds(c) ==
    /\ dual_round_seq[c] = completed_rounds[c] +
            IF pc[c] \in {"releasing", "homing"}
               \/ (pc[c] = "loop" /\ count[c] = 15) THEN 1 ELSE 0
    /\ up[c] /\ MaxRounds # 0 => completed_rounds[c] < MaxRounds

NavState(c) ==
    pc[c] \in {"to_board1", "at_board1", "pickup", "to_board2", "at_board2",
               "to_lab", "release", "releasing", "homing"}
        => nav_state[c] = count[c]

\* nav_state follows every change of count, and lags only while waiting.
NavLoop(c) ==
    pc[c] = "loop" /\ count[c] \in {11, 12, 14, 15} => nav_state[c] = count[c]

Local(c) ==
    /\ PointCount(c)
    /\ Overlap(c)
    /\ Flags(c)
    /\ Rounds(c)
    /\ NavState(c)
    /\ NavLoop(c)

SeqOrder ==
    /\ last_peer_done_seq[1] <= dual_round_seq[2]
    /\ dual_round_seq[2] <= last_peer_done_seq[2]
    /\ last_peer_done_seq[2] <= dual_round_seq[1]
    /\ dual_round_seq[1] <= last_peer_done_seq[1] + 1

TurnIff ==
    /\ HasTurn(1) <=> dual_round_seq[1] = last_peer_done_seq[1]
    /\ HasTurn(2) <=> dual_round_seq[2] < last_peer_done_seq[2]

IInv ==
    /\ TypeOK
    /\ \A c \in Cars : Local(c)
    /\ SeqOrder
    /\ TurnIff

-----------------------------------------------------------------------------
USE DEF Cars, Peer, WAIT_TURN, GO_TO_BOARD1, BOARD1_RECOGNIZING,
        GO_TO_PICKUP_WINDOWS, GO_TO_BOARD2, BOARD2_RECOGNIZING,
        GO_TO_LAB_WINDOW, GO_BACK_HOME

\* The initial state of both nodes satisfies the invariant.
LEMMA InitInv == Init => IInv
  <1> SUFFICES ASSUME Init PROVE IInv
    OBVIOUS
  <1> USE DEF Init, StartActive
  <1>1. TypeOK
    BY MaxRoundsAssumption
    DEF MaxRoundsAssumption, TypeOK, MainPoints, CallbackPoints
  <1>2. ASSUME NEW c \in Cars PROVE Local(c)
    <2>1. PointCount(c) /\ Overlap(c) /\ NavState(c) /\ NavLoop(c)
      BY DEF PointCount, Overlap, NavState, NavLoop
    <2>2. Flags(c)
      <3>1. ~turn_released_this_round[c] /\ ~peer_done_pending[c]
        OBVIOUS
      <3>2. cb[c] # "go" /\ pc[c] \notin {"wait_go", "home_go"}
        OBVIOUS
      <3>3. CASE c = 1
        <4>1. have_turn[c]
          BY <3>3
        <4>2. QED
          BY <3>1, <4>1 DEF Flags
      <3>4. CASE c = 2
        <4>1. ~OnSharedStretch(c)
          BY <3>4 DEF OnSharedStretch
        <4>2. QED
          BY <3>1, <3>2, <4>1 DEF Flags, Using
      <3>5. QED
        BY <3>3, <3>4
    <2>3. Rounds(c)
      BY MaxRoundsAssumption DEF MaxRoundsAssumption, Rounds
    <2>4. QED
      BY <2>1, <2>2, <2>3 DEF Local
  <1>3. SeqOrder /\ TurnIff
    BY DEF SeqOrder, TurnIff, HasTurn, OnSharedStretch
  <1>4. QED
    BY <1>1, <1>2, <1>3 DEF IInv

\* A step that writes neither sequence number nor what HasTurn reads
\* differently keeps the global parts of the invariant.
LEMMA SameTurn ==
  ASSUME SeqOrder, TurnIff, UNCHANGED seqs,
         \A d \in Cars : HasTurn(d)' <=> HasTurn(d)
  PROVE  SeqOrder' /\ TurnIff'
  BY DEF SeqOrder, TurnIff, seqs

\* The start gate opens.
LEMMA StartInv ==
  ASSUME IInv, NEW c \in Cars, Start(c)
  PROVE  IInv'
  <1>1. TypeOK'
    BY DEF IInv, TypeOK, Start, Main, MainPoints, seqs
  <1>2. ASSUME NEW d \in Cars
        PROVE  Local(d)' /\ (HasTurn(d)' <=> HasTurn(d))
    BY DEF IInv, TypeOK, Local, PointCount, Overlap, Using, Flags, Rounds,
           NavState, NavLoop, OnSharedStretch, HasTurn, Start, Main,
           MainPoints, seqs
  <1>3. QED
    BY <1>1, <1>2, SameTurn DEF IInv, Start, seqs

\* The waiting handler begins.
LEMMA WaitTurnInv ==
  ASSUME IInv, NEW c \in Cars, WaitTurn(c)
  PROVE  IInv'
  <1>1. TypeOK'
    BY DEF IInv, TypeOK, WaitTurn, Main, MainPoints, seqs
  <1>2. ASSUME NEW d \in Cars
        PROVE  Local(d)' /\ (HasTurn(d)' <=> HasTurn(d))
    BY DEF IInv, TypeOK, Local, PointCount, Overlap, Using, Flags, Rounds,
           NavState, NavLoop, OnSharedStretch, HasTurn, WaitTurn, Main,
           MainPoints, seqs
  <1>3. QED
    BY <1>1, <1>2, SameTurn DEF IInv, WaitTurn, seqs

\* The cached done is looked for.
LEMMA WaitCheckInv ==
  ASSUME IInv, NEW c \in Cars, WaitCheck(c)
  PROVE  IInv'
  <1>1. TypeOK'
    BY DEF IInv, TypeOK, WaitCheck, Main, MainPoints, seqs
  <1>2. ASSUME NEW d \in Cars
        PROVE  Local(d)' /\ (HasTurn(d)' <=> HasTurn(d))
    BY DEF IInv, TypeOK, Local, PointCount, Overlap, Using, Flags, Rounds,
           NavState, NavLoop, OnSharedStretch, HasTurn, WaitCheck, Main,
           MainPoints, seqs
  <1>3. QED
    BY <1>1, <1>2, SameTurn DEF IInv, WaitCheck, seqs

\* The main loop consumes the cached done, or repeats what the callback did.
LEMMA WaitActivateInv ==
  ASSUME IInv, NEW c \in Cars, WaitActivate(c)
  PROVE  IInv'
  <1>1. TypeOK'
    BY DEF IInv, TypeOK, WaitActivate, Main, MainPoints, ConsumePeerDone,
           seqs
  <1>2. ASSUME NEW d \in Cars
        PROVE  Local(d)' /\ (HasTurn(d)' <=> HasTurn(d))
    BY DEF IInv, TypeOK, Local, PointCount, Overlap, Using, Flags, Rounds,
           NavState, NavLoop, OnSharedStretch, HasTurn, WaitActivate, Main,
           MainPoints, ConsumePeerDone, seqs
  <1>3. QED
    BY <1>1, <1>2, SameTurn DEF IInv, WaitActivate, seqs

\* The main loop enters state 9.
LEMMA WaitGoInv ==
  ASSUME IInv, NEW c \in Cars, WaitGo(c)
  PROVE  IInv'
  <1>1. TypeOK'
    BY DEF IInv, TypeOK, WaitGo, Main, MainPoints, SetCount, seqs
  <1>2. ASSUME NEW d \in Cars
        PROVE  Local(d)' /\ (HasTurn(d)' <=> HasTurn(d))
    BY DEF IInv, TypeOK, Local, PointCount, Overlap, Using, Flags, Rounds,
           NavState, NavLoop, OnSharedStretch, HasTurn, WaitGo, Main,
           MainPoints, SetCount, seqs
  <1>3. QED
    BY <1>1, <1>2, SameTurn DEF IInv, WaitGo, seqs

\* The loop period ends, with the callback idle.
LEMMA WaitSleepInv ==
  ASSUME PromptCallbacks, IInv, NEW c \in Cars, WaitSleep(c)
  PROVE  IInv'
  <1>1. TypeOK'
    BY DEF IInv, TypeOK, WaitSleep, Main, MainPoints, BlockingCallReturns,
           seqs
  <1>2. ASSUME NEW d \in Cars
        PROVE  Local(d)' /\ (HasTurn(d)' <=> HasTurn(d))
    BY DEF IInv, TypeOK, Local, PointCount, Overlap, Using, Flags, Rounds,
           NavState, NavLoop, OnSharedStretch, HasTurn, WaitSleep, Main,
           MainPoints, BlockingCallReturns, seqs
  <1>3. QED
    BY <1>1, <1>2, SameTurn DEF IInv, WaitSleep, seqs

\* The car leaves for board one; it has the turn.
LEMMA GoToBoard1Inv ==
  ASSUME IInv, NEW c \in Cars, GoToBoard1(c)
  PROVE  IInv'
  <1>1. TypeOK'
    <2>1. have_turn[c]
      BY DEF IInv, TypeOK, GoToBoard1, Local, PointCount, Using, Flags,
             OnSharedStretch
    <2>2. /\ count' \in [Cars -> WAIT_TURN .. GO_BACK_HOME]
          /\ nav_state' \in [Cars -> {0} \union (WAIT_TURN .. GO_BACK_HOME)]
      BY <2>1 DEF IInv, TypeOK, GoToBoard1, SetCount
    <2>3. pc' \in [Cars -> MainPoints]
      BY <2>1 DEF IInv, TypeOK, GoToBoard1, MainPoints
    <2>4. turn_released_this_round' \in [Cars -> BOOLEAN]
      BY <2>1, ZenonT(40) DEF IInv, TypeOK, GoToBoard1
    <2>5. QED
      BY <2>2, <2>3, <2>4 DEF IInv, TypeOK, GoToBoard1, seqs
  <1>2. ASSUME NEW d \in Cars
        PROVE  Local(d)' /\ (HasTurn(d)' <=> HasTurn(d))
    BY DEF IInv, TypeOK, Local, PointCount, Overlap, Using, Flags, Rounds,
           NavState, NavLoop, OnSharedStretch, HasTurn, GoToBoard1,
           SetCount, MainPoints, seqs
  <1>3. QED
    BY <1>1, <1>2, SameTurn DEF IInv, GoToBoard1, seqs

\* A leg ends.
LEMMA ArriveBoard1Inv ==
  ASSUME PromptCallbacks, IInv, NEW c \in Cars, ArriveBoard1(c)
  PROVE  IInv'
  <1>1. TypeOK'
    BY DEF IInv, TypeOK, ArriveBoard1, Leg, Main, MainPoints,
           BlockingCallReturns, SetCount, seqs
  <1>2. ASSUME NEW d \in Cars
        PROVE  Local(d)' /\ (HasTurn(d)' <=> HasTurn(d))
    BY DEF IInv, TypeOK, Local, PointCount, Overlap, Using, Flags, Rounds,
           NavState, NavLoop, OnSharedStretch, HasTurn, ArriveBoard1, Leg,
           Main, MainPoints, BlockingCallReturns, SetCount, seqs
  <1>3. QED
    BY <1>1, <1>2, SameTurn DEF IInv, ArriveBoard1, Leg, seqs

\* A leg ends.
LEMMA Board1RecognizedInv ==
  ASSUME PromptCallbacks, IInv, NEW c \in Cars, Board1Recognized(c)
  PROVE  IInv'
  <1>1. TypeOK'
    BY DEF IInv, TypeOK, Board1Recognized, Leg, Main, MainPoints,
           BlockingCallReturns, SetCount, seqs
  <1>2. ASSUME NEW d \in Cars
        PROVE  Local(d)' /\ (HasTurn(d)' <=> HasTurn(d))
    BY DEF IInv, TypeOK, Local, PointCount, Overlap, Using, Flags, Rounds,
           NavState, NavLoop, OnSharedStretch, HasTurn, Board1Recognized,
           Leg, Main, MainPoints, BlockingCallReturns, SetCount, seqs
  <1>3. QED
    BY <1>1, <1>2, SameTurn DEF IInv, Board1Recognized, Leg, seqs

\* A leg begins or ends.
LEMMA GoToPickupWindowsInv ==
  ASSUME PromptCallbacks, IInv, NEW c \in Cars, GoToPickupWindows(c)
  PROVE  IInv'
  <1>1. TypeOK'
    BY DEF IInv, TypeOK, GoToPickupWindows, Dispatch, Leg, Main, MainPoints,
           BlockingCallReturns, SetCount, seqs
  <1>2. ASSUME NEW d \in Cars
        PROVE  Local(d)' /\ (HasTurn(d)' <=> HasTurn(d))
    BY DEF IInv, TypeOK, Local, PointCount, Overlap, Using, Flags, Rounds,
           NavState, NavLoop, OnSharedStretch, HasTurn, GoToPickupWindows,
           Dispatch, Leg, Main, MainPoints, BlockingCallReturns, SetCount,
           seqs
  <1>3. QED
    BY <1>1, <1>2, SameTurn DEF IInv, GoToPickupWindows, Leg, Dispatch, seqs

\* A leg begins or ends.
LEMMA GoToBoard2Inv ==
  ASSUME PromptCallbacks, IInv, NEW c \in Cars, GoToBoard2(c)
  PROVE  IInv'
  <1>1. TypeOK'
    BY DEF IInv, TypeOK, GoToBoard2, Dispatch, Leg, Main, MainPoints,
           BlockingCallReturns, SetCount, seqs
  <1>2. ASSUME NEW d \in Cars
        PROVE  Local(d)' /\ (HasTurn(d)' <=> HasTurn(d))
    BY DEF IInv, TypeOK, Local, PointCount, Overlap, Using, Flags, Rounds,
           NavState, NavLoop, OnSharedStretch, HasTurn, GoToBoard2,
           Dispatch, Leg, Main, MainPoints, BlockingCallReturns, SetCount,
           seqs
  <1>3. QED
    BY <1>1, <1>2, SameTurn DEF IInv, GoToBoard2, Leg, Dispatch, seqs

\* The car leaves the stretch but has not released the turn.
LEMMA GoToLabWindowInv ==
  ASSUME PromptCallbacks, IInv, NEW c \in Cars, GoToLabWindow(c)
  PROVE  IInv'
  <1>1. TypeOK'
    BY DEF IInv, TypeOK, GoToLabWindow, Dispatch, Leg, Main, MainPoints,
           BlockingCallReturns, SetCount, seqs
  <1>2. ASSUME NEW d \in Cars
        PROVE  Local(d)' /\ (HasTurn(d)' <=> HasTurn(d))
    BY DEF IInv, TypeOK, Local, PointCount, Overlap, Using, Flags, Rounds,
           NavState, NavLoop, OnSharedStretch, HasTurn, GoToLabWindow,
           Dispatch, Leg, Main, MainPoints, BlockingCallReturns, SetCount,
           seqs
  <1>3. QED
    BY <1>1, <1>2, SameTurn DEF IInv, GoToLabWindow, Leg, Dispatch, seqs

\* The flags of the released turn are cleared.
LEMMA ReleaseDoneInv ==
  ASSUME PromptCallbacks, IInv, NEW c \in Cars, ReleaseDone(c)
  PROVE  IInv'
  <1>1. TypeOK'
    BY DEF IInv, TypeOK, ReleaseDone, Main, MainPoints, BlockingCallReturns,
           seqs
  <1>2. ASSUME NEW d \in Cars
        PROVE  Local(d)' /\ (HasTurn(d)' <=> HasTurn(d))
    BY DEF IInv, TypeOK, Local, PointCount, Overlap, Using, Flags, Rounds,
           NavState, NavLoop, OnSharedStretch, HasTurn, ReleaseDone, Main,
           MainPoints, BlockingCallReturns, seqs
  <1>3. QED
    BY <1>1, <1>2, SameTurn DEF IInv, ReleaseDone, seqs

\* The way home begins.
LEMMA GoBackHomeInv ==
  ASSUME IInv, NEW c \in Cars, GoBackHome(c)
  PROVE  IInv'
  <1>1. TypeOK'
    BY DEF IInv, TypeOK, GoBackHome, Main, MainPoints, seqs
  <1>2. ASSUME NEW d \in Cars
        PROVE  Local(d)' /\ (HasTurn(d)' <=> HasTurn(d))
    BY DEF IInv, TypeOK, Local, PointCount, Overlap, Using, Flags, Rounds,
           NavState, NavLoop, OnSharedStretch, HasTurn, GoBackHome, Main,
           MainPoints, seqs
  <1>3. QED
    BY <1>1, <1>2, SameTurn DEF IInv, GoBackHome, seqs

\* A round is counted.
LEMMA HomeReachedInv ==
  ASSUME PromptCallbacks, IInv, NEW c \in Cars, HomeReached(c)
  PROVE  IInv'
  <1>1. TypeOK'
    BY MaxRoundsAssumption DEF MaxRoundsAssumption, IInv, TypeOK, HomeReached, Main, MainPoints,
           BlockingCallReturns, RoundsOver, seqs, Local, Rounds
  <1>2. ASSUME NEW d \in Cars
        PROVE  Local(d)' /\ (HasTurn(d)' <=> HasTurn(d))
    <2> USE DEF IInv, TypeOK, HomeReached, Main, BlockingCallReturns, seqs
    <2>1. (HasTurn(d)' <=> HasTurn(d)) /\ (Using(d)' <=> Using(d))
      BY DEF MainPoints, Using, HasTurn, OnSharedStretch
    <2>2. PointCount(d)' /\ NavState(d)' /\ NavLoop(d)'
      BY DEF MainPoints, Local, PointCount, NavState, NavLoop
    <2>3. Overlap(d)' /\ Flags(d)'
      BY <2>1 DEF MainPoints, Local, Overlap, Flags
    <2>4. Rounds(d)'
      <3>1. CASE d = c
        <4>1. dual_round_seq'[c] = completed_rounds'[c] /\ pc'[c] = "home_check"
          BY DEF MainPoints, Local, Rounds
        <4>2. up'[c] => ~RoundsOver(completed_rounds'[c])
          OBVIOUS
        <4>3. completed_rounds'[c] \in Nat
          OBVIOUS
        <4>4. QED
          BY <3>1, <4>1, <4>2, <4>3, MaxRoundsAssumption
          DEF MaxRoundsAssumption, Rounds, RoundsOver
      <3>2. CASE d # c
        BY <3>2 DEF Local, Rounds
      <3>3. QED
        BY <3>1, <3>2
    <2>5. QED
      BY <2>1, <2>2, <2>3, <2>4 DEF Local
  <1>3. QED
    BY <1>1, <1>2, SameTurn DEF IInv, HomeReached, seqs

\* The cached done is looked for at home.
LEMMA HomeCheckInv ==
  ASSUME IInv, NEW c \in Cars, HomeCheck(c)
  PROVE  IInv'
  <1>1. TypeOK'
    BY DEF IInv, TypeOK, HomeCheck, Main, MainPoints, seqs
  <1>2. ASSUME NEW d \in Cars
        PROVE  Local(d)' /\ (HasTurn(d)' <=> HasTurn(d))
    BY DEF IInv, TypeOK, Local, PointCount, Overlap, Using, Flags, Rounds,
           NavState, NavLoop, OnSharedStretch, HasTurn, HomeCheck, Main,
           MainPoints, seqs
  <1>3. QED
    BY <1>1, <1>2, SameTurn DEF IInv, HomeCheck, seqs

\* have_turn is given up; it was not needed.
LEMMA HomeYieldInv ==
  ASSUME IInv, NEW c \in Cars, HomeYield(c)
  PROVE  IInv'
  <1>1. TypeOK'
    BY DEF IInv, TypeOK, HomeYield, Main, MainPoints, seqs
  <1>2. ASSUME NEW d \in Cars
        PROVE  Local(d)' /\ (HasTurn(d)' <=> HasTurn(d))
    BY DEF IInv, TypeOK, Local, PointCount, Overlap, Using, Flags, Rounds,
           NavState, NavLoop, OnSharedStretch, HasTurn, HomeYield, Main,
           MainPoints, seqs
  <1>3. QED
    BY <1>1, <1>2, SameTurn DEF IInv, HomeYield, seqs

\* The waiting state is entered.
LEMMA HomeWaitInv ==
  ASSUME IInv, NEW c \in Cars, HomeWait(c)
  PROVE  IInv'
  <1>1. TypeOK'
    BY DEF IInv, TypeOK, HomeWait, Main, MainPoints, SetCount, seqs
  <1>2. ASSUME NEW d \in Cars
        PROVE  Local(d)' /\ (HasTurn(d)' <=> HasTurn(d))
    BY DEF IInv, TypeOK, Local, PointCount, Overlap, Using, Flags, Rounds,
           NavState, NavLoop, OnSharedStretch, HasTurn, HomeWait, Main,
           MainPoints, SetCount, seqs
  <1>3. QED
    BY <1>1, <1>2, SameTurn DEF IInv, HomeWait, seqs

\* The cached done is consumed at home.
LEMMA HomeActivateInv ==
  ASSUME IInv, NEW c \in Cars, HomeActivate(c)
  PROVE  IInv'
  <1>1. TypeOK'
    BY DEF IInv, TypeOK, HomeActivate, Main, MainPoints, ConsumePeerDone,
           seqs
  <1>2. ASSUME NEW d \in Cars
        PROVE  Local(d)' /\ (HasTurn(d)' <=> HasTurn(d))
    BY DEF IInv, TypeOK, Local, PointCount, Overlap, Using, Flags, Rounds,
           NavState, NavLoop, OnSharedStretch, HasTurn, HomeActivate, Main,
           MainPoints, ConsumePeerDone, seqs
  <1>3. QED
    BY <1>1, <1>2, SameTurn DEF IInv, HomeActivate, seqs

\* State 9 is entered at home.
LEMMA HomeGoInv ==
  ASSUME IInv, NEW c \in Cars, HomeGo(c)
  PROVE  IInv'
  <1>1. TypeOK'
    BY DEF IInv, TypeOK, HomeGo, Main, MainPoints, SetCount, seqs
  <1>2. ASSUME NEW d \in Cars
        PROVE  Local(d)' /\ (HasTurn(d)' <=> HasTurn(d))
    BY DEF IInv, TypeOK, Local, PointCount, Overlap, Using, Flags, Rounds,
           NavState, NavLoop, OnSharedStretch, HasTurn, HomeGo, Main,
           MainPoints, SetCount, seqs
  <1>3. QED
    BY <1>1, <1>2, SameTurn DEF IInv, HomeGo, seqs

\* The callback looks at the state.
LEMMA CallbackCheckInv ==
  ASSUME IInv, NEW c \in Cars, CallbackCheck(c)
  PROVE  IInv'
  <1>1. TypeOK'
    BY DEF IInv, TypeOK, CallbackCheck, Callback, CallbackPoints, seqs
  <1>2. ASSUME NEW d \in Cars
        PROVE  Local(d)' /\ (HasTurn(d)' <=> HasTurn(d))
    <2> USE DEF IInv, TypeOK, CallbackCheck, Callback, seqs
    <2>1. (HasTurn(d)' <=> HasTurn(d)) /\ (Using(d)' <=> Using(d))
      BY DEF CallbackPoints, Using, HasTurn, OnSharedStretch
    <2>2. PointCount(d)' /\ Rounds(d)' /\ NavState(d)' /\ NavLoop(d)'
      BY DEF Local, PointCount, Rounds, NavState, NavLoop
    <2>3. Flags(d)'
      BY <2>1 DEF Local, Flags
    <2>4. Overlap(d)'
      BY <2>1 DEF CallbackPoints, MainPoints, Local, PointCount, Overlap
    <2>5. QED
      BY <2>1, <2>2, <2>3, <2>4 DEF Local
  <1>3. QED
    BY <1>1, <1>2, SameTurn DEF IInv, CallbackCheck, seqs

\* The callback consumes the done, or repeats what the main loop did.
LEMMA CallbackActivateInv ==
  ASSUME IInv, NEW c \in Cars, CallbackActivate(c)
  PROVE  IInv'
  <1>1. TypeOK'
    BY DEF IInv, TypeOK, CallbackActivate, Callback, CallbackPoints,
           ConsumePeerDone, seqs
  <1>2. ASSUME NEW d \in Cars
        PROVE  Local(d)' /\ (HasTurn(d)' <=> HasTurn(d))
    BY DEF IInv, TypeOK, Local, PointCount, Overlap, Using, Flags, Rounds,
           NavState, NavLoop, OnSharedStretch, HasTurn, CallbackActivate,
           Callback, CallbackPoints, ConsumePeerDone, seqs
  <1>3. QED
    BY <1>1, <1>2, SameTurn DEF IInv, CallbackActivate, seqs

\* The callback enters state 9.
LEMMA CallbackGoInv ==
  ASSUME IInv, NEW c \in Cars, CallbackGo(c)
  PROVE  IInv'
  <1>1. TypeOK'
    BY DEF IInv, TypeOK, CallbackGo, Callback, CallbackPoints, SetCount,
           seqs
  <1>2. ASSUME NEW d \in Cars
        PROVE  Local(d)' /\ (HasTurn(d)' <=> HasTurn(d))
    BY DEF IInv, TypeOK, Local, PointCount, Overlap, Using, Flags, Rounds,
           NavState, NavLoop, OnSharedStretch, HasTurn, CallbackGo,
           Callback, CallbackPoints, SetCount, seqs
  <1>3. QED
    BY <1>1, <1>2, SameTurn DEF IInv, CallbackGo, seqs

\* A node that stops keeps its state.
LEMMA StopInv ==
  ASSUME IInv, NEW c \in Cars, Stop(c)
  PROVE  IInv'
  <1>1. TypeOK'
    BY DEF IInv, TypeOK, Stop, seqs
  <1>2. ASSUME NEW d \in Cars
        PROVE  Local(d)' /\ (HasTurn(d)' <=> HasTurn(d))
    BY DEF IInv, TypeOK, Local, PointCount, Overlap, Using, Flags, Rounds,
           NavState, NavLoop, OnSharedStretch, HasTurn, Stop, seqs
  <1>3. QED
    BY <1>1, <1>2, SameTurn DEF IInv, Stop, seqs

\* The turn leaves the car with its done: the release is never skipped, and
\* nothing else of the car holds a turn.
LEMMA ReleaseInv ==
  ASSUME IInv, NEW c \in Cars, Release(c)
  PROVE  IInv'
  <1> USE DEF IInv, Release, Main
  <1>1. /\ ~turn_released_this_round[c]
        /\ ~peer_done_pending[c]
        /\ cb[c] \notin {"activate", "go"}
        /\ count[c] = 15
    BY DEF Local, Flags, Overlap, PointCount
  <1>2. /\ dual_round_seq' = [dual_round_seq EXCEPT ![c] = @ + 1]
        /\ pc' = [pc EXCEPT ![c] = "releasing"]
    BY <1>1
  <1>3. TypeOK'
    BY <1>2 DEF TypeOK, MainPoints
  <1>4. ASSUME NEW d \in Cars PROVE Local(d)'
    BY <1>1, <1>2
    DEF TypeOK, MainPoints, Local, PointCount, Overlap, Using, Flags, Rounds,
        NavState, NavLoop, OnSharedStretch
  <1>5. HasTurn(c) /\ ~HasTurn(c)'
    BY <1>1, <1>2 DEF TypeOK, HasTurn, OnSharedStretch
  <1>6. \A d \in Cars : d # c => (HasTurn(d)' <=> HasTurn(d))
    BY <1>2 DEF TypeOK, HasTurn, OnSharedStretch
  <1>7. SeqOrder' /\ TurnIff'
    <2>1. CASE c = 1
      BY <2>1, <1>2, <1>5, <1>6 DEF TypeOK, SeqOrder, TurnIff
    <2>2. CASE c = 2
      BY <2>2, <1>2, <1>5, <1>6 DEF TypeOK, SeqOrder, TurnIff
    <2>3. QED
      BY <2>1, <2>2
  <1>8. QED
    BY <1>3, <1>4, <1>7

\* A new done brings the turn to a car that has none: by the order of the
\* sequence numbers, a car that has the turn has seen every done.
LEMMA ReceiveDoneInv ==
  ASSUME IInv, NEW c \in Cars, NEW seq \in Published(Peer(c)),
         ReceiveDone(c, seq)
  PROVE  IInv'
  <1> USE DEF IInv, ReceiveDone, Callback, IsNew, Published
  <1>1. seq \in Nat /\ seq <= dual_round_seq[Peer(c)]
                   /\ seq > last_peer_done_seq[c]
    BY DEF TypeOK
  <1>2. ~HasTurn(c)
    <2>1. CASE c = 1
      BY <2>1, <1>1 DEF TypeOK, SeqOrder, TurnIff
    <2>2. CASE c = 2
      BY <2>2, <1>1 DEF TypeOK, SeqOrder, TurnIff
    <2>3. QED
      BY <2>1, <2>2
  <1>3. TypeOK'
    BY <1>1 DEF TypeOK, CallbackPoints
  <1>4. ASSUME NEW d \in Cars PROVE Local(d)'
    BY <1>2
    DEF TypeOK, CallbackPoints, HasTurn, Local, PointCount, Overlap, Using,
        Flags, Rounds, NavState, NavLoop, OnSharedStretch, seqs
  <1>5. HasTurn(c)'
    BY DEF TypeOK, HasTurn
  <1>6. \A d \in Cars : d # c => (HasTurn(d)' <=> HasTurn(d))
    BY DEF TypeOK, HasTurn, OnSharedStretch
  <1>7. SeqOrder' /\ TurnIff'
    <2>1. CASE c = 1
      BY <2>1, <1>1, <1>5, <1>6 DEF TypeOK, SeqOrder, TurnIff
    <2>2. CASE c = 2
      BY <2>2, <1>1, <1>5, <1>6 DEF TypeOK, SeqOrder, TurnIff
    <2>3. QED
      BY <2>1, <2>2
  <1>8. QED
    BY <1>3, <1>4, <1>7

-----------------------------------------------------------------------------
\* Every step of either car keeps the invariant.
LEMMA StepInv ==
  ASSUME PromptCallbacks, IInv, [Next]_vars
  PROVE  IInv'
  <1>1. CASE UNCHANGED vars
    BY <1>1
    DEF vars, IInv, TypeOK, Local, PointCount, Overlap, Using, Flags, Rounds,
        NavState, NavLoop, OnSharedStretch, SeqOrder, TurnIff, HasTurn
  <1>2. ASSUME NEW c \in Cars, MainThread(c)
        PROVE  IInv'
    BY <1>2, StartInv, WaitTurnInv, WaitCheckInv, WaitActivateInv, WaitGoInv,
       WaitSleepInv, GoToBoard1Inv, ArriveBoard1Inv, Board1RecognizedInv,
       GoToPickupWindowsInv, GoToBoard2Inv, GoToLabWindowInv, ReleaseInv,
       ReleaseDoneInv, GoBackHomeInv, HomeReachedInv, HomeCheckInv,
       HomeYieldInv, HomeWaitInv, HomeActivateInv, HomeGoInv, Zenon
    DEF MainThread
  <1>3. ASSUME NEW c \in Cars, CallbackThread(c)
        PROVE  IInv'
    BY <1>3, ReceiveDoneInv, CallbackCheckInv, CallbackActivateInv,
       CallbackGoInv, Zenon
    DEF CallbackThread
  <1>4. ASSUME NEW c \in Cars, Stop(c)
        PROVE  IInv'
    BY <1>4, StopInv
  <1>5. QED
    BY <1>1, <1>2, <1>3, <1>4 DEF Next

\* The invariant of the two cars, for every number of rounds.
THEOREM TurnInvariant ==
  ASSUME PromptCallbacks
  PROVE  Spec => []IInv
  <1>1. Init => IInv
    BY InitInv
  <1>2. IInv /\ [Next]_vars => IInv'
    BY StepInv
  <1>3. QED
    BY <1>1, <1>2, PTL DEF Spec

\* Types, and no more rounds than max_rounds.
THEOREM TypeCorrect ==
  ASSUME PromptCallbacks
  PROVE  Spec => []TypeOK
  <1>1. IInv => TypeOK
    BY DEF IInv
  <1>2. QED
    BY <1>1, TurnInvariant, PTL

\* Two cars are never on the shared stretch together: each would have the
\* turn, and SeqOrder leaves room for one.
THEOREM Exclusion ==
  ASSUME PromptCallbacks
  PROVE  Spec => []StretchExclusive
  <1>1. IInv => StretchExclusive
    BY DEF IInv, TypeOK, SeqOrder, TurnIff, HasTurn, StretchExclusive
  <1>2. QED
    BY <1>1, TurnInvariant, PTL

\* The turn is in exactly one place: it is never lost and never doubled.
THEOREM TurnIsUnique ==
  ASSUME PromptCallbacks
  PROVE  Spec => []OneTurn
  <1>1. IInv => OneTurn
    <2> SUFFICES ASSUME IInv PROVE OneTurn
      OBVIOUS
    <2> DEFINE a == dual_round_seq[1]
               b == last_peer_done_seq[2]
               e == dual_round_seq[2]
               f == last_peer_done_seq[1]
    <2>1. /\ a \in Nat /\ b \in Nat /\ e \in Nat /\ f \in Nat
          /\ f <= e /\ e <= b /\ b <= a /\ a <= f + 1
      BY DEF IInv, TypeOK, SeqOrder
    <2>2. /\ TurnAt(<<"car", 1>>) <=> a = f
          /\ TurnAt(<<"car", 2>>) <=> e < b
          /\ TurnAt(<<"done", 1>>) <=> a > b
          /\ TurnAt(<<"done", 2>>) <=> e > f
      BY DEF TurnAt, IInv, TurnIff, InFlight
    <2>3. Places = {<<"car", 1>>, <<"car", 2>>, <<"done", 1>>, <<"done", 2>>}
      BY DEF Places
    <2>4. \/ a = f /\ e = b /\ a = b /\ e = f
          \/ a # f /\ e < b /\ a = b /\ e = f
          \/ a # f /\ e = b /\ a > b /\ e = f
          \/ a # f /\ e = b /\ a = b /\ e > f
      BY <2>1
    <2> HIDE DEF a, b, e, f
    <2>5. CASE a = f /\ e = b /\ a = b /\ e = f
      BY <2>1, <2>2, <2>3, <2>5 DEF OneTurn
    <2>6. CASE a # f /\ e < b /\ a = b /\ e = f
      BY <2>1, <2>2, <2>3, <2>6 DEF OneTurn
    <2>7. CASE a # f /\ e = b /\ a > b /\ e = f
      BY <2>1, <2>2, <2>3, <2>7 DEF OneTurn
    <2>8. CASE a # f /\ e = b /\ a = b /\ e > f
      BY <2>1, <2>2, <2>3, <2>8 DEF OneTurn
    <2>9. QED
      BY <2>4, <2>5, <2>6, <2>7, <2>8
  <1>2. QED
    BY <1>1, TurnInvariant, PTL

\* In a leg, nav_state is the state of the car.
THEOREM NavStateIsCount ==
  ASSUME PromptCallbacks
  PROVE  Spec => []NavStateOfLeg
  <1>1. IInv => NavStateOfLeg
    BY DEF IInv, Local, NavState, NavStateOfLeg
  <1>2. QED
    BY <1>1, TurnInvariant, PTL

\* One release in each round.
THEOREM ReleasesMatchRounds ==
  ASSUME PromptCallbacks
  PROVE  Spec => []OneReleasePerRound
  <1>1. IInv => OneReleasePerRound
    BY DEF IInv, TypeOK, Local, Rounds, OneReleasePerRound
  <1>2. QED
    BY <1>1, TurnInvariant, PTL

-----------------------------------------------------------------------------
(* DualTurn implements Turnstile.  A step leaves the stretch as it was, or *)
(* takes the car that has the turn onto it, or off it.                     *)

StretchSame ==
    \A d \in Cars : /\ OnSharedStretch(d)' <=> OnSharedStretch(d)
                    /\ Passes(d)' = Passes(d)

OthersSame(c) ==
    \A d \in Cars \ {c} : /\ OnSharedStretch(d)' <=> OnSharedStretch(d)
                          /\ Passes(d)' = Passes(d)

StretchEntered(c) ==
    /\ ~OnSharedStretch(c) /\ OnSharedStretch(c)'
    /\ HasTurn(c) /\ Passes(c)' = Passes(c)
    /\ OthersSame(c)

StretchLeft(c) ==
    /\ OnSharedStretch(c) /\ ~OnSharedStretch(c)'
    /\ HasTurn(c) /\ pc[c] # "release" /\ Passes(c)' = Passes(c) + 1
    /\ OthersSame(c)

StretchStep == StretchSame \/ \E c \in Cars : StretchEntered(c) \/ StretchLeft(c)

\* Steps of a car that neither enter nor leave the stretch.
LEMMA StretchKept ==
  ASSUME PromptCallbacks, IInv, NEW c \in Cars,
         \/ Start(c) \/ WaitTurn(c) \/ WaitCheck(c)
         \/ WaitActivate(c) \/ WaitSleep(c) \/ GoToBoard1(c)
         \/ ArriveBoard1(c) \/ Board1Recognized(c) \/ GoToPickupWindows(c)
         \/ GoToBoard2(c) \/ ReleaseDone(c) \/ GoBackHome(c)
         \/ HomeReached(c) \/ HomeCheck(c) \/ HomeYield(c)
         \/ HomeWait(c) \/ HomeActivate(c) \/ CallbackCheck(c)
         \/ CallbackActivate(c) \/ Stop(c)
  PROVE  StretchSame
  <1> USE DEF IInv, TypeOK, MainPoints, StretchSame, OnSharedStretch, Passes,
              seqs
  <1>1. CASE Start(c)
    BY <1>1 DEF Start, Main
  <1>2. CASE WaitTurn(c)
    BY <1>2 DEF WaitTurn, Main
  <1>3. CASE WaitCheck(c)
    BY <1>3 DEF WaitCheck, Main
  <1>4. CASE WaitActivate(c)
    BY <1>4 DEF WaitActivate, Main, ConsumePeerDone
  <1>5. CASE WaitSleep(c)
    BY <1>5 DEF WaitSleep, Main
  <1>6. CASE GoToBoard1(c)
    BY <1>6 DEF GoToBoard1, SetCount, Local, PointCount, Using, Flags
  <1>7. CASE ArriveBoard1(c)
    BY <1>7 DEF ArriveBoard1, Leg, Main, SetCount, Local, PointCount
  <1>8. CASE Board1Recognized(c)
    BY <1>8 DEF Board1Recognized, Leg, Main, SetCount, Local, PointCount
  <1>9. CASE GoToPickupWindows(c)
    BY <1>9 DEF GoToPickupWindows, Leg, Dispatch, Main, SetCount, Local, PointCount
  <1>10. CASE GoToBoard2(c)
    BY <1>10 DEF GoToBoard2, Leg, Dispatch, Main, SetCount, Local, PointCount
  <1>11. CASE ReleaseDone(c)
    BY <1>11 DEF ReleaseDone, Main
  <1>12. CASE GoBackHome(c)
    BY <1>12 DEF GoBackHome, Main
  <1>13. CASE HomeReached(c)
    BY <1>13 DEF HomeReached, Main
  <1>14. CASE HomeCheck(c)
    BY <1>14 DEF HomeCheck, Main
  <1>15. CASE HomeYield(c)
    BY <1>15 DEF HomeYield, Main
  <1>16. CASE HomeWait(c)
    BY <1>16 DEF HomeWait, Main, SetCount, Local, PointCount
  <1>17. CASE HomeActivate(c)
    BY <1>17 DEF HomeActivate, Main, ConsumePeerDone
  <1>18. CASE CallbackCheck(c)
    BY <1>18 DEF CallbackCheck, Callback
  <1>19. CASE CallbackActivate(c)
    BY <1>19 DEF CallbackActivate, Callback, ConsumePeerDone
  <1>20. CASE Stop(c)
    BY <1>20 DEF Stop
  <1>21. QED
    BY <1>1, <1>2, <1>3, <1>4, <1>5, <1>6, <1>7, <1>8, <1>9, <1>10, <1>11, <1>12, <1>13, <1>14, <1>15, <1>16, <1>17, <1>18, <1>19, <1>20, Zenon

LEMMA StretchMoves ==
  ASSUME PromptCallbacks, IInv, [Next]_vars
  PROVE  StretchStep
  <1>1. CASE UNCHANGED vars
    BY <1>1 DEF vars, StretchStep, StretchSame, OnSharedStretch, Passes
  <1>2. ASSUME NEW c \in Cars, WaitGo(c) \/ HomeGo(c) \/ CallbackGo(c)
        PROVE  StretchStep
    <2>1. HasTurn(c) /\ OnSharedStretch(c)' /\ OthersSame(c)
                     /\ Passes(c)' = Passes(c)
      BY <1>2
      DEF WaitGo, HomeGo, CallbackGo, Main, Callback, SetCount, IInv, TypeOK,
          HasTurn, OnSharedStretch, OthersSame, Passes, seqs
    <2>2. QED
      BY <2>1 DEF StretchStep, StretchSame, StretchEntered, OthersSame
  <1>3. ASSUME NEW c \in Cars, GoToLabWindow(c)
        PROVE  StretchStep
    <2>1. CASE Dispatch(c, GO_TO_LAB_WINDOW, "to_lab")
      BY <2>1
      DEF Dispatch, Main, IInv, TypeOK, StretchStep, StretchSame,
          OnSharedStretch, Passes, seqs
    <2>2. CASE Leg(c, "to_lab", "release", GO_BACK_HOME)
      <3>1. OnSharedStretch(c) /\ HasTurn(c)
        BY <2>2
        DEF Leg, Main, IInv, Local, PointCount, HasTurn, OnSharedStretch
      <3>2. /\ ~OnSharedStretch(c)' /\ OthersSame(c)
            /\ pc[c] # "release" /\ Passes(c)' = Passes(c) + 1
        BY <2>2
        DEF Leg, Main, SetCount, IInv, TypeOK, OnSharedStretch, OthersSame,
            Passes, seqs
      <3>3. QED
        BY <3>1, <3>2 DEF StretchStep, StretchLeft
    <2>3. QED
      BY <1>3, <2>1, <2>2 DEF GoToLabWindow
  <1>4. ASSUME NEW c \in Cars, Release(c)
        PROVE  StretchStep
    <2>1. ~turn_released_this_round[c]
      BY <1>4 DEF Release, Main, IInv, Local, Flags
    <2>2. QED
      BY <1>4, <2>1
      DEF Release, Main, IInv, TypeOK, StretchStep, StretchSame,
          OnSharedStretch, Passes
  <1>5. ASSUME NEW c \in Cars, NEW seq \in Published(Peer(c)),
               ReceiveDone(c, seq)
        PROVE  StretchStep
    BY <1>5
    DEF ReceiveDone, Callback, StretchStep, StretchSame, OnSharedStretch,
        Passes
  <1>6. QED
    BY <1>1, <1>2, <1>3, <1>4, <1>5, StretchKept, Zenon
    DEF Next, MainThread, CallbackThread, StretchStep

\* The two cars pass the shared stretch strictly in turns, car 1 first: the
\* protocol implements Turnstile.
THEOREM ImplementsTurnstile ==
  ASSUME PromptCallbacks
  PROVE  Spec => StrictTurns
  <1>1. Init => TS!Init
    BY DEF Init, TS!Init, StartActive, OnSharedStretch, Passes
  <1>2. IInv /\ [Next]_vars => [TS!Next]_(TS!vars)
    <2> SUFFICES ASSUME IInv, [Next]_vars PROVE [TS!Next]_(TS!vars)
      OBVIOUS
    <2> DEFINE on == \E c \in Cars : OnSharedStretch(c)
               turn == IF Passes(1) = Passes(2) THEN 1 ELSE 2
    <2>1. StretchStep
      BY StretchMoves
    <2>2. ~(HasTurn(1) /\ HasTurn(2))
      BY DEF IInv, TypeOK, SeqOrder, TurnIff
    <2>3. \A c \in Cars : OnSharedStretch(c) => HasTurn(c)
      BY DEF HasTurn
    <2>4. CASE StretchSame
      BY <2>4 DEF StretchSame, TS!vars
    <2>5. ASSUME NEW c \in Cars, StretchEntered(c)
          PROVE  TS!Enter
      <3>1. ~on
        BY <2>2, <2>3, <2>5 DEF StretchEntered
      <3>2. on'
        BY <2>5 DEF StretchEntered
      <3>3. turn' = turn
        BY <2>5 DEF StretchEntered, OthersSame
      <3>4. QED
        BY <3>1, <3>2, <3>3 DEF TS!Enter
    <2>6. ASSUME NEW c \in Cars, StretchLeft(c)
          PROVE  TS!Leave
      <3>1. on
        BY <2>6 DEF StretchLeft
      <3>2. ~on'
        BY <2>2, <2>3, <2>6 DEF StretchLeft, OthersSame
      <3>3. turn' = 3 - turn
        <4> USE DEF IInv, TypeOK, SeqOrder, TurnIff, StretchLeft, OthersSame
        <4>1. CASE c = 1
          <5>1. Passes(1) = dual_round_seq[1] /\ Passes(2) = dual_round_seq[2]
            BY <2>2, <2>6, <4>1 DEF Passes, HasTurn
          <5>2. QED
            BY <2>2, <2>6, <4>1, <5>1
        <4>2. CASE c = 2
          <5>1. Passes(1) = dual_round_seq[1] /\ Passes(2) = dual_round_seq[2]
            BY <2>2, <2>6, <4>2 DEF Passes, HasTurn
          <5>2. QED
            BY <2>2, <2>6, <4>2, <5>1
        <4>3. QED
          BY <4>1, <4>2
      <3>4. QED
        BY <3>1, <3>2, <3>3 DEF TS!Leave
    <2>7. QED
      BY <2>1, <2>4, <2>5, <2>6 DEF StretchStep, TS!Next
  <1>3. QED
    BY <1>1, <1>2, TurnInvariant, PTL DEF Spec, StrictTurns, TS!Spec

-----------------------------------------------------------------------------
(* The link nodes and the composed system.                                 *)

LinkTypes ==
    /\ dual_round_seq \in [Cars -> Nat]
    /\ pending_msgs \in [LinkCars -> [Seqs -> Int]]
    /\ active_msgs \in [LinkCars -> SUBSET Seqs]
    /\ conns \in [LinkCars -> [Seqs -> Nat]]
    /\ passed \in [LinkCars -> [Seqs -> Nat]]
    /\ marked \in [LinkCars -> [Seqs -> Nat]]
    /\ last_peer_seq \in [LinkCars -> Nat]
    /\ peer_done \in [LinkCars -> SUBSET Seqs]

\* Car c's done with this seq exists somewhere in the link.
InLink(c, seq) ==
    \/ pending_msgs[c][seq] # Expired
    \/ seq \in active_msgs[c]
    \/ conns[Other(c)][seq] > 0
    \/ passed[Other(c)][seq] > 0
    \/ marked[Other(c)][seq] > 0
    \/ seq \in peer_done[Other(c)]

Sound == \A c \in LinkCars, seq \in Seqs :
    InLink(c, seq) => seq <= dual_round_seq[c]

Handled == \A c \in LinkCars :
    last_peer_seq[c] = 0 \/ Covered(c, last_peer_seq[c])

LinkInv == LinkTypes /\ Sound /\ Handled

-----------------------------------------------------------------------------
USE DEF LinkCars, Other

\* The link nodes start with nothing in memory.
LEMMA LinkInitInv == SystemInit => LinkInv
  BY TcpLinkAssumption
  DEF TcpLinkAssumption, SystemInit, Init, LinkInit, LinkInv, LinkTypes, Sound,
      Handled, InLink, None, Expired, Seqs

\* Only release_next_car_if_needed assigns dual_round_seq, and it counts up.
LEMMA SeqGrows ==
  ASSUME dual_round_seq \in [Cars -> Nat], NEW c \in Cars, MainThread(c)
  PROVE  /\ dual_round_seq' \in [Cars -> Nat]
         /\ \A d \in Cars : dual_round_seq[d] <= dual_round_seq'[d]
         /\ dual_round_seq' # dual_round_seq =>
                dual_round_seq' = [dual_round_seq EXCEPT ![c] = @ + 1]
  <1>1. CASE Release(c)
    BY <1>1 DEF Release
  <1>2. CASE UNCHANGED dual_round_seq
    BY <1>2
  <1>3. Release(c) \/ UNCHANGED dual_round_seq
    BY DEF MainThread, Start, WaitTurn, WaitCheck, WaitActivate, WaitGo,
           WaitSleep, GoToBoard1, ArriveBoard1, Board1Recognized,
           GoToPickupWindows, GoToBoard2, GoToLabWindow, ReleaseDone,
           GoBackHome, HomeReached, HomeCheck, HomeYield, HomeWait,
           HomeActivate, HomeGo, Leg, Dispatch, seqs
  <1>4. QED
    BY <1>1, <1>2, <1>3

\* A done enters the queue: it is one the car has published.
LEMMA RoundDoneInv ==
  ASSUME LinkInv, NEW c \in Cars, RoundDone(c, dual_round_seq'[c]),
         dual_round_seq' \in [Cars -> Nat],
         \A d \in Cars : dual_round_seq[d] <= dual_round_seq'[d]
  PROVE  LinkInv'
  <1>1. LinkTypes' /\ Handled'
    BY TcpLinkAssumption
    DEF TcpLinkAssumption, LinkInv, LinkTypes, Handled, Covered, RoundDone,
        Cars
  <1>2. ASSUME NEW d \in LinkCars, NEW seq \in Seqs, InLink(d, seq)'
        PROVE  seq <= dual_round_seq'[d]
    <2>1. CASE d = c /\ seq = dual_round_seq'[c]
      BY <2>1 DEF LinkInv, LinkTypes, Cars, Seqs
    <2>2. CASE ~(d = c /\ seq = dual_round_seq'[c])
      <3>1. InLink(d, seq)
        BY <1>2, <2>2 DEF InLink, RoundDone, LinkInv, LinkTypes
      <3>2. QED
        BY <3>1 DEF LinkInv, LinkTypes, Sound, Cars, Seqs
    <2>3. QED
      BY <2>1, <2>2
  <1>3. QED
    BY <1>1, <1>2 DEF LinkInv, Sound

\* Time passes: what is still queued was queued before.
LEMMA ElapseKeeps ==
  ASSUME LinkTypes, NEW c \in LinkCars, NEW t \in Nat, Elapse(c, t)
  PROVE  /\ pending_msgs' \in [LinkCars -> [Seqs -> Int]]
         /\ \A d \in LinkCars, seq \in Seqs :
                pending_msgs'[d][seq] # Expired => pending_msgs[d][seq] # Expired
  BY DEF LinkTypes, Elapse, Expired

\* Every step of a link node keeps the invariant.
LEMMA LinkStepInv ==
  ASSUME LinkInv, NEW c \in Cars, LinkStep(c), UNCHANGED vars
  PROVE  LinkInv'
  <1> USE DEF Cars
  <1>0. UNCHANGED dual_round_seq
    BY DEF vars, seqs
  <1>1. ASSUME LinkTypes', Handled',
               \A d \in LinkCars, seq \in Seqs :
                   InLink(d, seq)' => InLink(d, seq)
        PROVE  LinkInv'
    BY <1>0, <1>1 DEF LinkInv, Sound
  <1>2. CASE Scan(c)
    <2>1. LinkTypes' /\ Handled'
      BY <1>0, <1>2 DEF Scan, LinkInv, LinkTypes, Handled, Covered
    <2>2. \A d \in LinkCars, seq \in Seqs : InLink(d, seq)' => InLink(d, seq)
      BY <1>2 DEF Scan, LinkInv, LinkTypes, InLink
    <2>3. QED
      BY <1>1, <2>1, <2>2
  <1>3. ASSUME NEW seq \in Seqs, SendOk(c, seq)
        PROVE  LinkInv'
    <2>1. LinkTypes' /\ Handled'
      BY <1>0, <1>3 DEF SendOk, LinkInv, LinkTypes, Handled, Covered
    <2>2. \A d \in LinkCars, s \in Seqs : InLink(d, s)' => InLink(d, s)
      BY <1>3 DEF SendOk, LinkInv, LinkTypes, InLink
    <2>3. QED
      BY <1>1, <2>1, <2>2
  <1>4. ASSUME NEW seq \in Seqs, SendFails(c, seq)
        PROVE  LinkInv'
    <2>1. PICK t \in {0, ConnectTimeout} : Elapse(c, t)
      BY <1>4 DEF SendFails
    <2>2. t \in Nat
      BY <2>1, TcpLinkAssumption DEF TcpLinkAssumption
    <2>3. /\ pending_msgs' \in [LinkCars -> [Seqs -> Int]]
          /\ \A d \in LinkCars, s \in Seqs :
                pending_msgs'[d][s] # Expired => pending_msgs[d][s] # Expired
      BY <2>1, <2>2, ElapseKeeps DEF LinkInv
    <2>4. LinkTypes' /\ Handled'
      BY <1>0, <1>4, <2>3 DEF SendFails, LinkInv, LinkTypes, Handled, Covered
    <2>5. \A d \in LinkCars, s \in Seqs : InLink(d, s)' => InLink(d, s)
      BY <1>4, <2>3 DEF SendFails, LinkInv, LinkTypes, InLink
    <2>6. QED
      BY <1>1, <2>4, <2>5
  <1>5. CASE SenderSleeps(c)
    <2>1. /\ pending_msgs' \in [LinkCars -> [Seqs -> Int]]
          /\ \A d \in LinkCars, s \in Seqs :
                pending_msgs'[d][s] # Expired => pending_msgs[d][s] # Expired
      BY <1>5, ElapseKeeps, TcpLinkAssumption
      DEF TcpLinkAssumption, LinkInv, SenderSleeps
    <2>2. LinkTypes' /\ Handled'
      BY <1>0, <1>5, <2>1 DEF SenderSleeps, LinkInv, LinkTypes, Handled,
                                   Covered
    <2>3. \A d \in LinkCars, s \in Seqs : InLink(d, s)' => InLink(d, s)
      BY <1>5, <2>1 DEF SenderSleeps, InLink
    <2>4. QED
      BY <1>1, <2>2, <2>3
  <1>6. ASSUME NEW seq \in Seqs, HandlerChecks(c, seq)
        PROVE  LinkInv'
    <2>1. LinkTypes' /\ Handled'
      BY <1>0, <1>6 DEF HandlerChecks, LinkInv, LinkTypes, Handled, Covered
    <2>2. \A d \in LinkCars, s \in Seqs : InLink(d, s)' => InLink(d, s)
      BY <1>6 DEF HandlerChecks, LinkInv, LinkTypes, InLink
    <2>3. QED
      BY <1>1, <2>1, <2>2
  <1>7. ASSUME NEW seq \in Seqs, HandlerMarks(c, seq)
        PROVE  LinkInv'
    <2>0. seq \in Nat
      BY TcpLinkAssumption DEF TcpLinkAssumption, Seqs
    <2>1. LinkTypes'
      <3>1. /\ passed' \in [LinkCars -> [Seqs -> Nat]]
            /\ marked' \in [LinkCars -> [Seqs -> Nat]]
        BY <1>7 DEF HandlerMarks, LinkInv, LinkTypes
      <3>2. last_peer_seq' \in [LinkCars -> Nat]
        BY <1>7, <2>0 DEF HandlerMarks, LinkInv, LinkTypes
      <3>3. QED
        BY <1>0, <1>7, <3>1, <3>2 DEF HandlerMarks, LinkInv, LinkTypes
    <2>2. ASSUME NEW d \in LinkCars, last_peer_seq'[d] # 0
          PROVE  Covered(d, last_peer_seq[d])'
      <3>1. CASE d = c
        <4>1. last_peer_seq'[d] = seq /\ marked'[d][seq] > 0
          BY <1>7, <3>1 DEF HandlerMarks, LinkInv, LinkTypes
        <4>2. QED
          BY <2>0, <4>1 DEF Covered
      <3>2. CASE d # c
        <4>1. /\ last_peer_seq'[d] = last_peer_seq[d]
              /\ marked'[d] = marked[d] /\ peer_done' = peer_done
          BY <1>7, <3>2 DEF HandlerMarks, LinkInv, LinkTypes
        <4>2. QED
          BY <2>2, <4>1 DEF LinkInv, Handled, Covered
      <3>3. QED
        BY <3>1, <3>2
    <2>3. \A d \in LinkCars, s \in Seqs : InLink(d, s)' => InLink(d, s)
      BY <1>7 DEF HandlerMarks, LinkInv, LinkTypes, InLink
    <2>4. QED
      BY <1>1, <2>1, <2>2, <2>3 DEF Handled
  <1>8. ASSUME NEW seq \in Seqs, HandlerPublishes(c, seq)
        PROVE  LinkInv'
    <2>1. LinkTypes'
      <3>1. /\ marked' \in [LinkCars -> [Seqs -> Nat]]
            /\ peer_done' \in [LinkCars -> SUBSET Seqs]
        BY <1>8 DEF HandlerPublishes, LinkInv, LinkTypes
      <3>2. QED
        BY <1>0, <1>8, <3>1 DEF HandlerPublishes, LinkInv, LinkTypes
    <2>2. ASSUME NEW d \in LinkCars, Covered(d, last_peer_seq[d])
          PROVE  Covered(d, last_peer_seq[d])'
      <3>1. PICK later \in Seqs :
                /\ later >= last_peer_seq[d]
                /\ later \in peer_done[d] \/ marked[d][later] > 0
        BY <2>2 DEF Covered
      <3>2. later \in peer_done'[d] \/ marked'[d][later] > 0
        BY <1>8, <3>1 DEF HandlerPublishes, LinkInv, LinkTypes
      <3>3. last_peer_seq' = last_peer_seq
        BY <1>8 DEF HandlerPublishes
      <3>4. QED
        BY <3>1, <3>2, <3>3 DEF Covered
    <2>3. Handled'
      BY <1>8, <2>2 DEF HandlerPublishes, LinkInv, Handled
    <2>4. \A d \in LinkCars, s \in Seqs : InLink(d, s)' => InLink(d, s)
      BY <1>8 DEF HandlerPublishes, LinkInv, LinkTypes, InLink
    <2>5. QED
      BY <1>1, <2>1, <2>3, <2>4
  <1>9. CASE RestartLink(c)
    <2>1. LinkTypes' /\ Handled'
      BY <1>0, <1>9
      DEF RestartLink, LinkInv, LinkTypes, Handled, Covered, None, Expired
    <2>2. \A d \in LinkCars, s \in Seqs : InLink(d, s)' => InLink(d, s)
      BY <1>9 DEF RestartLink, LinkInv, LinkTypes, InLink, None
    <2>3. QED
      BY <1>1, <2>1, <2>2
  <1>10. QED
    BY <1>2, <1>3, <1>4, <1>5, <1>6, <1>7, <1>8, <1>9
    DEF LinkStep, SenderThread, HandlerThread

\* What the check takes for old was published or is about to be.
LEMMA OldIsCovered ==
  ASSUME LinkTypes, Handled, NEW c \in LinkCars, NEW seq \in Seqs,
         seq <= last_peer_seq[c]
  PROVE  Covered(c, seq)
  <1>0. MaxSeq \in Nat
    BY TcpLinkAssumption DEF TcpLinkAssumption
  <1>1. seq \in Nat /\ seq > 0 /\ last_peer_seq[c] \in Nat
    BY <1>0 DEF LinkTypes, Seqs
  <1>2. PICK later \in Seqs :
            /\ later >= last_peer_seq[c]
            /\ later \in peer_done[c] \/ marked[c][later] > 0
    BY <1>1 DEF Handled, Covered
  <1>3. later >= seq
    BY <1>0, <1>1, <1>2 DEF Seqs
  <1>4. QED
    BY <1>2, <1>3 DEF Covered

\* A step that leaves the link and the seqs alone keeps the invariant.
LEMMA LinkIdle ==
  ASSUME LinkInv, UNCHANGED link_vars, dual_round_seq' \in [Cars -> Nat],
         \A d \in Cars : dual_round_seq[d] <= dual_round_seq'[d]
  PROVE  LinkInv'
  <1>1. LinkTypes' /\ Handled'
    BY DEF LinkInv, LinkTypes, Handled, Covered, link_vars
  <1>2. ASSUME NEW d \in LinkCars, NEW seq \in Seqs, InLink(d, seq)'
        PROVE  seq <= dual_round_seq'[d]
    <2>1. InLink(d, seq)
      BY <1>2 DEF InLink, link_vars
    <2>2. QED
      BY <2>1 DEF LinkInv, LinkTypes, Sound, Cars, Seqs
  <1>3. QED
    BY <1>1, <1>2 DEF LinkInv, Sound

\* The callback thread and a stopping node publish no done.
LEMMA CallbackKeepsSeq ==
  ASSUME NEW c \in Cars, NavCallback(c) \/ NavStop(c)
  PROVE  UNCHANGED <<dual_round_seq, link_vars>>
  BY DEF NavCallback, NavStop, ReceiveDone, CallbackCheck, CallbackActivate,
         CallbackGo, Stop, seqs

\* Every step of the system keeps the invariant.
LEMMA SystemStepInv ==
  ASSUME LinkInv, [SystemNext]_sys_vars
  PROVE  LinkInv'
  <1>0. dual_round_seq \in [Cars -> Nat]
    BY DEF LinkInv, LinkTypes
  <1>1. CASE UNCHANGED sys_vars
    BY <1>0, <1>1, LinkIdle DEF sys_vars, vars, seqs
  <1>2. ASSUME NEW c \in Cars, NavMain(c)
        PROVE  LinkInv'
    <2>1. MainThread(c)
      BY <1>2 DEF NavMain
    <2>2. /\ dual_round_seq' \in [Cars -> Nat]
          /\ \A d \in Cars : dual_round_seq[d] <= dual_round_seq'[d]
      BY <1>0, <2>1, SeqGrows
    <2>3. CASE dual_round_seq' = dual_round_seq
      BY <1>2, <2>2, <2>3, LinkIdle DEF NavMain
    <2>4. CASE dual_round_seq' # dual_round_seq
      BY <1>2, <2>2, <2>4, RoundDoneInv DEF NavMain
    <2>5. QED
      BY <2>3, <2>4
  <1>3. ASSUME NEW c \in Cars, PublishAgain(c)
        PROVE  LinkInv'
    <2>1. UNCHANGED dual_round_seq
      BY <1>3 DEF PublishAgain, vars, seqs
    <2>2. RoundDone(c, dual_round_seq'[c])
      BY <1>3, <2>1 DEF PublishAgain
    <2>3. QED
      BY <1>0, <2>1, <2>2, RoundDoneInv
  <1>4. ASSUME NEW c \in Cars, NavCallback(c) \/ NavStop(c)
        PROVE  LinkInv'
    BY <1>0, <1>4, CallbackKeepsSeq, LinkIdle
  <1>5. ASSUME NEW c \in Cars, Link(c)
        PROVE  LinkInv'
    BY <1>5, LinkStepInv DEF Link
  <1>6. QED
    BY <1>1, <1>2, <1>3, <1>4, <1>5 DEF SystemNext

\* The invariant of cars and link together.
THEOREM LinkInvariant == SystemSpec => []LinkInv
  <1>1. SystemInit => LinkInv
    BY LinkInitInv
  <1>2. LinkInv /\ [SystemNext]_sys_vars => LinkInv'
    BY SystemStepInv
  <1>3. QED
    BY <1>1, <1>2, PTL DEF SystemSpec

\* Cars joined by the real link do nothing the turn protocol with the
\* weakest channel does not do.
THEOREM SystemImplementsTurns == SystemSpec => Implements
  <1>1. SystemInit => Init
    BY DEF SystemInit
  <1>2. LinkInv /\ [SystemNext]_sys_vars => [Next]_vars
    <2> SUFFICES ASSUME LinkInv, [SystemNext]_sys_vars PROVE [Next]_vars
      OBVIOUS
    <2>1. CASE UNCHANGED sys_vars
      BY <2>1 DEF sys_vars
    <2>2. ASSUME NEW c \in Cars, NavMain(c) PROVE Next
      BY <2>2 DEF NavMain, Next
    <2>3. ASSUME NEW c \in Cars, PublishAgain(c) \/ Link(c)
          PROVE  UNCHANGED vars
      BY <2>3 DEF PublishAgain, Link
    <2>4. ASSUME NEW c \in Cars, NavCallback(c) PROVE Next
      <3>1. CASE \E seq \in peer_done[c] : ReceiveDone(c, seq)
        <4>1. PICK seq \in peer_done[c] : ReceiveDone(c, seq)
          BY <3>1
        <4>2. seq \in Seqs /\ InLink(Peer(c), seq)
          BY <4>1 DEF LinkInv, LinkTypes, InLink, Cars, Peer
        <4>3. seq \in Published(Peer(c))
          BY <4>2
          DEF LinkInv, LinkTypes, Sound, Published, Seqs, Cars, Peer
        <4>4. QED
          BY <4>1, <4>3 DEF Next, CallbackThread
      <3>2. CASE CallbackCheck(c) \/ CallbackActivate(c) \/ CallbackGo(c)
        BY <3>2 DEF Next, CallbackThread
      <3>3. QED
        BY <2>4, <3>1, <3>2 DEF NavCallback
    <2>5. ASSUME NEW c \in Cars, NavStop(c) PROVE Next
      BY <2>5 DEF NavStop, Next
    <2>6. QED
      BY <2>1, <2>2, <2>3, <2>4, <2>5 DEF SystemNext
  <1>3. QED
    BY <1>1, <1>2, LinkInvariant, PTL DEF SystemSpec, Implements, Spec

\* With the real link between them two cars are never on the shared stretch
\* at the same time.
THEOREM SystemExclusion ==
  ASSUME PromptCallbacks
  PROVE  SystemSpec => []StretchExclusive
  BY SystemImplementsTurns, Exclusion, PTL DEF Implements

\* Two cars with the real link between them pass the shared stretch strictly
\* in turns, whatever the network, the handler threads and the respawns do.
THEOREM SystemImplementsTurnstile ==
  ASSUME PromptCallbacks
  PROVE  SystemSpec => StrictTurns
  BY SystemImplementsTurns, ImplementsTurnstile, PTL DEF Implements

\* A done is discarded only when it, or a later one, was published to the nav
\* node or is about to be published by another handler thread.
THEOREM DiscardsAreHarmless == SystemSpec => DiscardsOnlyHandled
  <1>1. ASSUME LinkInv,
               NEW c \in LinkCars, NEW seq \in Seqs,
               HandlerChecks(c, seq), passed' = passed
        PROVE  Covered(c, seq)
    <2>1. IsOld(c, seq)
      <3> SUFFICES ASSUME ~IsOld(c, seq) PROVE FALSE
        OBVIOUS
      <3>1. passed'[c][seq] = passed[c][seq] + 1
        BY <1>1 DEF HandlerChecks, LinkInv, LinkTypes
      <3>2. passed[c][seq] \in Nat
        BY <1>1 DEF LinkInv, LinkTypes
      <3>3. QED
        BY <1>1, <3>1, <3>2
    <2>2. QED
      BY <1>1, <2>1, OldIsCovered DEF IsOld, LinkInv
  <1>2. LinkInv => [\A c \in LinkCars, seq \in Seqs :
                       HandlerChecks(c, seq) /\ passed' = passed
                         => Covered(c, seq)]_link_vars
    BY <1>1
  <1>3. QED
    BY <1>2, LinkInvariant, PTL DEF DiscardsOnlyHandled

-----------------------------------------------------------------------------
(* The window of a done.                                                   *)

\* What a failed attempt can cost: it times out and the sender sleeps.
Attempt == ConnectTimeout + RetryInterval

\* The window is long enough for all attempts that can fail and one more.
WindowIsLongEnough == SendDuration >= MaxFailures * Attempt + RetryInterval

\* What is left of the window of car c's dones when its failures are paid.
Rest(c) == SendDuration - failures[c] * Attempt

Budget == \A c \in LinkCars, seq \in Seqs :
    seq <= dual_round_seq[c] /\ ~ArrivedAt(Other(c), seq)
        => /\ pending_msgs[c][seq] >= Rest(c) - RetryInterval
           /\ sender[c] = "send" /\ seq \notin active_msgs[c]
                => pending_msgs[c][seq] >= Rest(c)

BudgetInv ==
    /\ LinkInv
    /\ restarts = [c \in LinkCars |-> 0]
    /\ failures \in [LinkCars -> 0 .. MaxFailures]
    /\ sender \in [LinkCars -> {"scan", "send"}]
    /\ Budget

\* Products of natural numbers.
LEMMA Products ==
  ASSUME NEW m \in Nat, NEW n \in Nat, NEW k \in Nat
  PROVE  /\ m * k \in Nat
         /\ m <= n => m * k <= n * k
         /\ (m + 1) * k = m * k + k
  <1>1. m * k \in Nat /\ (m + 1) * k = m * k + k
    OBVIOUS
  <1>2. ASSUME m <= n PROVE m * k <= n * k
    <2>1. /\ n - m \in Nat
          /\ n * k = m * k + (n - m) * k
          /\ (n - m) * k \in Nat
      BY <1>2
    <2>2. QED
      BY <1>1, <2>1
  <1>3. QED
    BY <1>1, <1>2

\* The numbers, with the products kept out of the steps.
LEMMA RestIsEnough ==
  ASSUME WindowIsLongEnough, failures \in [LinkCars -> 0 .. MaxFailures],
         NEW c \in LinkCars
  PROVE  /\ Rest(c) \in Int /\ Rest(c) <= SendDuration
         /\ Rest(c) >= RetryInterval
         /\ failures[c] < MaxFailures
              => /\ SendDuration - (failures[c] + 1) * Attempt
                        = Rest(c) - ConnectTimeout - RetryInterval
                 /\ Rest(c) - ConnectTimeout - RetryInterval >= RetryInterval
  <1>1. /\ Attempt \in Nat /\ SendDuration \in Nat /\ ConnectTimeout \in Nat
        /\ RetryInterval \in Nat /\ MaxFailures \in Nat
        /\ failures[c] \in Nat /\ failures[c] <= MaxFailures
    BY TcpLinkAssumption DEF TcpLinkAssumption, Attempt
  <1>3. /\ failures[c] * Attempt \in Nat
        /\ MaxFailures * Attempt \in Nat
        /\ failures[c] * Attempt <= MaxFailures * Attempt
        /\ (failures[c] + 1) * Attempt = failures[c] * Attempt + Attempt
    BY <1>1, Products
  <1>4. failures[c] < MaxFailures
            => (failures[c] + 1) * Attempt <= MaxFailures * Attempt
    BY <1>1, Products
  <1> DEFINE spent == failures[c] * Attempt
             all == MaxFailures * Attempt
             next == (failures[c] + 1) * Attempt
  <1>5. /\ Rest(c) = SendDuration - spent
        /\ SendDuration >= all + RetryInterval
        /\ Attempt = ConnectTimeout + RetryInterval
    BY DEF Rest, WindowIsLongEnough, Attempt
  <1>6. /\ spent \in Nat /\ all \in Nat /\ spent <= all
        /\ next = spent + Attempt
        /\ failures[c] < MaxFailures => next <= all
    BY <1>3, <1>4
  <1> HIDE DEF spent, all, next, Attempt
  <1>7. /\ Rest(c) \in Int /\ Rest(c) <= SendDuration
        /\ Rest(c) >= RetryInterval
        /\ failures[c] < MaxFailures
              => /\ SendDuration - next
                        = Rest(c) - ConnectTimeout - RetryInterval
                 /\ Rest(c) - ConnectTimeout - RetryInterval >= RetryInterval
    BY <1>1, <1>5, <1>6
  <1>8. QED
    BY <1>7 DEF next

\* What arrived stays: a check discards a done only for one that is covered.
LEMMA ArrivalStays ==
  ASSUME LinkInv, MaxRestarts = 0, restarts = [d \in LinkCars |-> 0],
         NEW c \in Cars, LinkStep(c),
         NEW e \in LinkCars, NEW seq \in Seqs, ArrivedAt(e, seq)
  PROVE  ArrivedAt(e, seq)'
  <1> USE DEF Cars
  <1>0. PICK later \in Seqs :
            later >= seq /\ (AtWork(e, later) > 0 \/ later \in peer_done[e])
    BY DEF ArrivedAt
  <1>1. ASSUME AtWork(e, later)' > 0 \/ later \in peer_done'[e]
        PROVE  ArrivedAt(e, seq)'
    BY <1>0, <1>1 DEF ArrivedAt
  <1>2. CASE UNCHANGED <<conns, passed, marked, peer_done>>
    BY <1>0, <1>1, <1>2 DEF AtWork
  <1>3. ASSUME NEW s \in Seqs, SendOk(c, s)
        PROVE  ArrivedAt(e, seq)'
    BY <1>0, <1>1, <1>3 DEF SendOk, AtWork, LinkInv, LinkTypes
  <1>4. ASSUME NEW s \in Seqs, HandlerChecks(c, s)
        PROVE  ArrivedAt(e, seq)'
    <2>1. CASE ~IsOld(c, s) \/ e # c \/ s # later
      BY <1>0, <1>1, <1>4, <2>1 DEF HandlerChecks, AtWork, LinkInv, LinkTypes
    <2>2. CASE IsOld(c, s) /\ e = c /\ s = later
      <3>1. Covered(c, s)
        BY <2>2, OldIsCovered DEF IsOld, LinkInv
      <3>2. PICK more \in Seqs :
                more >= s /\ (more \in peer_done[c] \/ marked[c][more] > 0)
        BY <3>1 DEF Covered
      <3>3. more \in peer_done'[c] \/ AtWork(c, more)' > 0
        BY <1>4, <3>2 DEF HandlerChecks, AtWork, LinkInv, LinkTypes
      <3>4. more >= seq
        BY <1>0, <2>2, <3>2, TcpLinkAssumption DEF TcpLinkAssumption, Seqs
      <3>5. QED
        BY <2>2, <3>3, <3>4 DEF ArrivedAt
    <2>3. QED
      BY <2>1, <2>2
  <1>5. ASSUME NEW s \in Seqs, HandlerMarks(c, s)
        PROVE  ArrivedAt(e, seq)'
    BY <1>0, <1>1, <1>5 DEF HandlerMarks, AtWork, LinkInv, LinkTypes
  <1>6. ASSUME NEW s \in Seqs, HandlerPublishes(c, s)
        PROVE  ArrivedAt(e, seq)'
    BY <1>0, <1>1, <1>6 DEF HandlerPublishes, AtWork, LinkInv, LinkTypes
  <1>7. ~RestartLink(c)
    BY DEF RestartLink
  <1>8. QED
    BY <1>2, <1>3, <1>4, <1>5, <1>6, <1>7
    DEF LinkStep, SenderThread, HandlerThread, Scan, SendFails, SenderSleeps

\* A done that is neither queued long enough nor arrived would break Budget.
LEMMA BudgetKept ==
  ASSUME BudgetInv, NEW c \in Cars, UNCHANGED dual_round_seq,
         \A e \in LinkCars, seq \in Seqs :
             ArrivedAt(e, seq) => ArrivedAt(e, seq)',
         \A d \in LinkCars : d # c =>
             /\ pending_msgs'[d] = pending_msgs[d]
             /\ active_msgs'[d] = active_msgs[d]
             /\ sender'[d] = sender[d] /\ failures'[d] = failures[d],
         \A seq \in Seqs :
             /\ seq <= dual_round_seq[c]
             /\ ~ArrivedAt(Other(c), seq) /\ ~ArrivedAt(Other(c), seq)'
             => /\ pending_msgs'[c][seq] >= Rest(c)' - RetryInterval
                /\ sender'[c] = "send" /\ seq \notin active_msgs'[c]
                     => pending_msgs'[c][seq] >= Rest(c)'
  PROVE  Budget'
  <1> SUFFICES ASSUME NEW d \in LinkCars, NEW seq \in Seqs,
                      seq <= dual_round_seq[d], ~ArrivedAt(Other(d), seq)'
               PROVE  /\ pending_msgs'[d][seq] >= Rest(d)' - RetryInterval
                      /\ sender'[d] = "send" /\ seq \notin active_msgs'[d]
                           => pending_msgs'[d][seq] >= Rest(d)'
    BY DEF Budget
  <1>1. ~ArrivedAt(Other(d), seq)
    OBVIOUS
  <1>2. CASE d = c
    BY <1>1, <1>2
  <1>3. CASE d # c
    <2>1. Rest(d)' = Rest(d)
      BY <1>3 DEF Rest
    <2>2. QED
      BY <1>1, <1>3, <2>1 DEF BudgetInv, Budget
  <1>4. QED
    BY <1>2, <1>3

\* Time that passes takes its share of every window.
LEMMA ElapseTakes ==
  ASSUME LinkTypes, NEW c \in LinkCars, NEW t \in Nat, Elapse(c, t),
         NEW seq \in Seqs, pending_msgs[c][seq] >= t
  PROVE  pending_msgs'[c][seq] = pending_msgs[c][seq] - t
  BY DEF LinkTypes, Elapse

\* Every step of a link node keeps the budget.
LEMMA LinkStepBudget ==
  ASSUME BudgetInv, MaxRestarts = 0, WindowIsLongEnough,
         NEW c \in Cars, LinkStep(c), UNCHANGED vars
  PROVE  BudgetInv'
  <1> USE DEF Cars
  <1>0. /\ LinkInv' /\ UNCHANGED dual_round_seq
        /\ \A e \in LinkCars, seq \in Seqs :
               ArrivedAt(e, seq) => ArrivedAt(e, seq)'
    BY LinkStepInv, ArrivalStays DEF BudgetInv, vars, seqs
  <1>1. /\ SendDuration \in Nat /\ ConnectTimeout \in Nat
        /\ RetryInterval \in Nat
    BY TcpLinkAssumption DEF TcpLinkAssumption
  <1>2. /\ Rest(c) \in Int /\ Rest(c) <= SendDuration
        /\ Rest(c) >= RetryInterval
        /\ failures[c] < MaxFailures
              => /\ SendDuration - (failures[c] + 1) * Attempt
                        = Rest(c) - ConnectTimeout - RetryInterval
                 /\ Rest(c) - ConnectTimeout - RetryInterval >= RetryInterval
    BY RestIsEnough DEF BudgetInv
  <1>3. \A seq \in Seqs :
            /\ pending_msgs[c][seq] \in Int
            /\ seq <= dual_round_seq[c] /\ ~ArrivedAt(Other(c), seq)
                 => /\ pending_msgs[c][seq] >= Rest(c) - RetryInterval
                    /\ sender[c] = "send" /\ seq \notin active_msgs[c]
                         => pending_msgs[c][seq] >= Rest(c)
    BY DEF BudgetInv, Budget, LinkInv, LinkTypes
  <1>4. CASE Scan(c)
    <2>1. UNCHANGED <<restarts, failures, pending_msgs>>
      BY <1>4 DEF Scan
    <2>2. Rest(c)' = Rest(c)
      BY <2>1 DEF Rest
    <2>3. ASSUME NEW seq \in Seqs, seq <= dual_round_seq[c],
                 ~ArrivedAt(Other(c), seq)
          PROVE  /\ pending_msgs'[c][seq] >= Rest(c)' - RetryInterval
                 /\ seq \in active_msgs'[c]
      BY <1>1, <1>2, <1>3, <1>4, <2>1, <2>2, <2>3
      DEF Scan, Expired, BudgetInv, LinkInv, LinkTypes
    <2>4. \A d \in LinkCars : d # c =>
              /\ active_msgs'[d] = active_msgs[d] /\ sender'[d] = sender[d]
      BY <1>4 DEF Scan
    <2>5. Budget'
      BY <1>0, <2>1, <2>3, <2>4, BudgetKept
    <2>6. sender' \in [LinkCars -> {"scan", "send"}]
      BY <1>4 DEF Scan, BudgetInv
    <2>7. QED
      BY <1>0, <2>1, <2>5, <2>6 DEF BudgetInv
  <1>5. ASSUME NEW s \in Seqs, SendOk(c, s)
        PROVE  BudgetInv'
    <2>1. UNCHANGED <<restarts, failures, pending_msgs, sender>>
      BY <1>5 DEF SendOk
    <2>2. Rest(c)' = Rest(c)
      BY <2>1 DEF Rest
    <2>3. ArrivedAt(Other(c), s)'
      <3>1. AtWork(Other(c), s)' > 0
        BY <1>5 DEF SendOk, AtWork, BudgetInv, LinkInv, LinkTypes
      <3>2. s >= s
        BY TcpLinkAssumption DEF TcpLinkAssumption, Seqs
      <3>3. QED
        BY <3>1, <3>2 DEF ArrivedAt
    <2>4. /\ \A d \in LinkCars : d # c => active_msgs'[d] = active_msgs[d]
          /\ \A seq \in Seqs : seq # s =>
                 (seq \in active_msgs'[c] <=> seq \in active_msgs[c])
      BY <1>5 DEF SendOk, BudgetInv, LinkInv, LinkTypes
    <2>5. Budget'
      BY <1>0, <1>3, <2>1, <2>2, <2>3, <2>4, BudgetKept
    <2>6. QED
      BY <1>0, <2>1, <2>5 DEF BudgetInv
  <1>6. ASSUME NEW s \in Seqs, SendFails(c, s)
        PROVE  BudgetInv'
    <2>1. PICK t \in {0, ConnectTimeout} : Elapse(c, t)
      BY <1>6 DEF SendFails
    <2>2. t \in Nat /\ t <= ConnectTimeout
      BY <1>1, <2>1
    <2>3. /\ failures[c] < MaxFailures /\ sender[c] = "send"
          /\ UNCHANGED <<restarts, sender>>
      BY <1>6 DEF SendFails
    <2>4. /\ failures' \in [LinkCars -> 0 .. MaxFailures]
          /\ failures'[c] = failures[c] + 1
      BY <1>6, <2>3, TcpLinkAssumption
      DEF TcpLinkAssumption, SendFails, BudgetInv
    <2>5. Rest(c)' = Rest(c) - ConnectTimeout - RetryInterval
      BY <1>2, <2>3, <2>4 DEF Rest
    <2>6. ASSUME NEW seq \in Seqs, seq <= dual_round_seq[c],
                 ~ArrivedAt(Other(c), seq)
          PROVE  pending_msgs'[c][seq] >= Rest(c)'
      <3>1. pending_msgs[c][seq] >= Rest(c) - RetryInterval
        BY <1>3, <2>6
      <3>2. pending_msgs[c][seq] >= t
        BY <1>1, <1>2, <1>3, <2>2, <2>3, <3>1
      <3>3. pending_msgs'[c][seq] = pending_msgs[c][seq] - t
        BY <2>1, <2>2, <3>2, ElapseTakes DEF BudgetInv, LinkInv
      <3>4. QED
        BY <1>1, <1>2, <1>3, <2>2, <2>5, <3>1, <3>3
    <2>7. \A d \in LinkCars : d # c =>
              /\ pending_msgs'[d] = pending_msgs[d]
              /\ active_msgs'[d] = active_msgs[d]
              /\ failures'[d] = failures[d]
      BY <1>6, <2>1 DEF SendFails, Elapse
    <2>8. ASSUME NEW seq \in Seqs, pending_msgs'[c][seq] >= Rest(c)'
          PROVE  pending_msgs'[c][seq] >= Rest(c)' - RetryInterval
      BY <1>0, <1>1, <1>2, <2>5, <2>8 DEF LinkInv, LinkTypes
    <2>9. Budget'
      BY <1>0, <2>3, <2>6, <2>7, <2>8, BudgetKept
    <2>10. QED
      BY <1>0, <2>3, <2>4, <2>9 DEF BudgetInv
  <1>7. CASE SenderSleeps(c)
    <2>1. /\ UNCHANGED <<restarts, failures, active_msgs>>
          /\ Elapse(c, RetryInterval) /\ active_msgs[c] = {}
          /\ sender[c] = "send"
      BY <1>7 DEF SenderSleeps
    <2>2. Rest(c)' = Rest(c)
      BY <2>1 DEF Rest
    <2>3. sender'[c] = "scan"
      BY <1>7 DEF SenderSleeps, BudgetInv
    <2>4. ASSUME NEW seq \in Seqs, seq <= dual_round_seq[c],
                 ~ArrivedAt(Other(c), seq)
          PROVE  pending_msgs'[c][seq] >= Rest(c)' - RetryInterval
      <3>1. pending_msgs[c][seq] >= Rest(c)
        BY <1>3, <2>1, <2>4
      <3>2. pending_msgs[c][seq] >= RetryInterval
        BY <1>1, <1>2, <1>3, <3>1
      <3>3. pending_msgs'[c][seq] = pending_msgs[c][seq] - RetryInterval
        BY <1>1, <2>1, <3>2, ElapseTakes DEF BudgetInv, LinkInv
      <3>4. QED
        BY <1>1, <1>2, <1>3, <2>2, <3>1, <3>3
    <2>5. \A d \in LinkCars : d # c =>
              /\ pending_msgs'[d] = pending_msgs[d]
              /\ sender'[d] = sender[d]
      BY <1>7 DEF SenderSleeps, Elapse
    <2>6. Budget'
      BY <1>0, <2>1, <2>3, <2>4, <2>5, BudgetKept
    <2>7. sender' \in [LinkCars -> {"scan", "send"}]
      BY <1>7 DEF SenderSleeps, BudgetInv
    <2>8. QED
      BY <1>0, <2>1, <2>6, <2>7 DEF BudgetInv
  <1>8. CASE UNCHANGED <<restarts, failures, pending_msgs, active_msgs, sender>>
    <2>1. Rest(c)' = Rest(c)
      BY <1>8 DEF Rest
    <2>2. Budget'
      BY <1>0, <1>3, <1>8, <2>1, BudgetKept
    <2>3. QED
      BY <1>0, <1>8, <2>2 DEF BudgetInv
  <1>9. ~RestartLink(c)
    BY DEF RestartLink, BudgetInv
  <1>10. QED
    BY <1>4, <1>5, <1>6, <1>7, <1>8, <1>9
    DEF LinkStep, SenderThread, HandlerThread, HandlerChecks, HandlerMarks,
        HandlerPublishes

\* A done that enters the queue has its whole window before it.
LEMMA RoundDoneBudget ==
  ASSUME BudgetInv, WindowIsLongEnough, LinkInv',
         NEW c \in Cars, RoundDone(c, dual_round_seq'[c]),
         \/ UNCHANGED dual_round_seq
         \/ dual_round_seq' = [dual_round_seq EXCEPT ![c] = @ + 1]
  PROVE  BudgetInv'
  <1> USE DEF Cars
  <1>1. /\ UNCHANGED <<active_msgs, sender, conns, passed, marked,
                       peer_done, failures, restarts>>
        /\ \A d \in LinkCars : Rest(d)' = Rest(d)
        /\ \A e \in LinkCars, seq \in Seqs :
               ArrivedAt(e, seq)' <=> ArrivedAt(e, seq)
    BY DEF RoundDone, Rest, ArrivedAt, AtWork
  <1>2. ASSUME NEW d \in LinkCars, NEW seq \in Seqs,
               seq <= dual_round_seq'[d], ~ArrivedAt(Other(d), seq)
        PROVE  /\ pending_msgs'[d][seq] >= Rest(d) - RetryInterval
               /\ sender[d] = "send" /\ seq \notin active_msgs[d]
                    => pending_msgs'[d][seq] >= Rest(d)
    <2>1. CASE d = c /\ seq = dual_round_seq'[c]
      <3>1. pending_msgs'[d][seq] = SendDuration
        BY <2>1 DEF RoundDone, BudgetInv, LinkInv, LinkTypes
      <3>2. Rest(d) \in Int /\ Rest(d) <= SendDuration
        BY RestIsEnough DEF BudgetInv
      <3>3. QED
        BY <3>1, <3>2, TcpLinkAssumption DEF TcpLinkAssumption
    <2>2. CASE ~(d = c /\ seq = dual_round_seq'[c])
      <3>1. pending_msgs'[d][seq] = pending_msgs[d][seq]
        BY <2>2 DEF RoundDone, BudgetInv, LinkInv, LinkTypes
      <3>2. seq <= dual_round_seq[d]
        <4>1. /\ dual_round_seq \in [Cars -> Nat] /\ seq \in Nat
              /\ seq <= dual_round_seq'[d]
          BY <1>2, TcpLinkAssumption
          DEF TcpLinkAssumption, Seqs, BudgetInv, LinkInv, LinkTypes
        <4>2. CASE d = c
          <5>1. seq # dual_round_seq'[c]
            BY <2>2, <4>2
          <5>2. dual_round_seq'[c] <= dual_round_seq[c] + 1
            BY <4>1
          <5>3. dual_round_seq'[c] \in Nat
            BY <4>1
          <5>4. QED
            BY <4>1, <4>2, <5>1, <5>2, <5>3
        <4>3. CASE d # c
          BY <4>1, <4>3
        <4>4. QED
          BY <4>2, <4>3
      <3>3. QED
        BY <1>2, <3>1, <3>2 DEF BudgetInv, Budget
    <2>3. QED
      BY <2>1, <2>2
  <1>3. Budget'
    BY <1>1, <1>2 DEF Budget
  <1>4. QED
    BY <1>1, <1>3 DEF BudgetInv

\* Every step of the system keeps the budget.
LEMMA SystemStepBudget ==
  ASSUME BudgetInv, MaxRestarts = 0, WindowIsLongEnough,
         [SystemNext]_sys_vars
  PROVE  BudgetInv'
  <1>0. LinkInv' /\ dual_round_seq \in [Cars -> Nat]
    BY SystemStepInv DEF BudgetInv, LinkInv, LinkTypes
  <1>1. ASSUME UNCHANGED <<dual_round_seq, link_vars>>
        PROVE  BudgetInv'
    BY <1>0, <1>1
    DEF BudgetInv, Budget, Rest, ArrivedAt, AtWork, link_vars
  <1>2. CASE UNCHANGED sys_vars
    BY <1>1, <1>2 DEF sys_vars, vars, seqs
  <1>3. ASSUME NEW c \in Cars, NavMain(c)
        PROVE  BudgetInv'
    <2>1. CASE dual_round_seq' = dual_round_seq
      BY <1>1, <1>3, <2>1 DEF NavMain
    <2>2. CASE dual_round_seq' # dual_round_seq
      <3>1. MainThread(c) /\ RoundDone(c, dual_round_seq'[c])
        BY <1>3, <2>2 DEF NavMain
      <3>2. dual_round_seq' = [dual_round_seq EXCEPT ![c] = @ + 1]
        BY <1>0, <2>2, <3>1, SeqGrows
      <3>3. QED
        BY <1>0, <3>1, <3>2, RoundDoneBudget
    <2>3. QED
      BY <2>1, <2>2
  <1>4. ASSUME NEW c \in Cars, PublishAgain(c)
        PROVE  BudgetInv'
    <2>1. UNCHANGED dual_round_seq
      BY <1>4 DEF PublishAgain, vars, seqs
    <2>2. RoundDone(c, dual_round_seq'[c])
      BY <1>4, <2>1 DEF PublishAgain
    <2>3. QED
      BY <1>0, <2>1, <2>2, RoundDoneBudget
  <1>5. ASSUME NEW c \in Cars, NavCallback(c) \/ NavStop(c)
        PROVE  BudgetInv'
    BY <1>1, <1>5, CallbackKeepsSeq
  <1>6. ASSUME NEW c \in Cars, Link(c)
        PROVE  BudgetInv'
    BY <1>6, LinkStepBudget DEF Link
  <1>7. QED
    BY <1>2, <1>3, <1>4, <1>5, <1>6 DEF SystemNext

\* While the link nodes stay up and no more attempts fail than the window of
\* a done has room for, a published done is queued for another attempt until
\* the link node of the other car has taken it in.
THEOREM NoDoneIsLost ==
  ASSUME MaxRestarts = 0, WindowIsLongEnough
  PROVE  SystemSpec => []DoneIsOnItsWay
  <1>1. SystemInit => BudgetInv
    <2> SUFFICES ASSUME SystemInit PROVE BudgetInv
      OBVIOUS
    <2>1. LinkInv
      BY LinkInitInv
    <2>2. /\ restarts = [c \in LinkCars |-> 0]
          /\ failures \in [LinkCars -> 0 .. MaxFailures]
          /\ sender \in [LinkCars -> {"scan", "send"}]
      BY TcpLinkAssumption DEF TcpLinkAssumption, SystemInit, LinkInit
    <2>3. Budget
      BY TcpLinkAssumption
      DEF TcpLinkAssumption, SystemInit, Init, Budget, Seqs
    <2>4. QED
      BY <2>1, <2>2, <2>3 DEF BudgetInv
  <1>2. BudgetInv /\ [SystemNext]_sys_vars => BudgetInv'
    BY SystemStepBudget
  <1>3. BudgetInv => DoneIsOnItsWay
    <2> SUFFICES ASSUME BudgetInv, NEW c \in LinkCars, NEW seq \in Seqs,
                        seq <= dual_round_seq[c], ~ArrivedAt(Other(c), seq)
                 PROVE  pending_msgs[c][seq] # Expired
      BY DEF DoneIsOnItsWay
    <2>1. pending_msgs[c][seq] >= Rest(c) - RetryInterval
      BY DEF BudgetInv, Budget
    <2>2. Rest(c) \in Int /\ Rest(c) >= RetryInterval
      BY RestIsEnough DEF BudgetInv
    <2>3. pending_msgs[c][seq] \in Int /\ RetryInterval \in Nat
      BY TcpLinkAssumption
      DEF TcpLinkAssumption, BudgetInv, LinkInv, LinkTypes
    <2>4. QED
      BY <2>1, <2>2, <2>3 DEF Expired
  <1>4. QED
    BY <1>1, <1>2, <1>3, PTL DEF SystemSpec
=============================================================================

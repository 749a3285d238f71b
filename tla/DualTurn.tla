------------------------------ MODULE DualTurn ------------------------------
(***************************************************************************)
(* The turn protocol of two cars that share the course: the dual-car part  *)
(* of the navigation node F1_yaofang_v5.py, one instance per car.          *)
(*                                                                         *)
(* A car runs two threads without a lock: the main loop, which dispatches  *)
(* on self.count and blocks in every drive, and the rospy thread that runs *)
(* peer_done_callback.  Each is a program counter here (pc, cb), and an    *)
(* action is the longest stretch of statements that reads or writes shared *)
(* attributes only once, or whose accesses the other thread cannot tell    *)
(* apart: a step of the other thread fits between any check and the        *)
(* assignment that relies on it.                                           *)
(*                                                                         *)
(* Between the cars lies the done channel (round_done topic, tcp_link_v2,  *)
(* peer_done topic; module TcpLink).  Here it is the weakest one: a done   *)
(* that was published may reach the other car at any later time, in any    *)
(* order, any number of times or never.                                    *)
(*                                                                         *)
(* What a car does on a leg (recognition, audio, recovery) is in module    *)
(* Mission; here a leg either ends, and the state moves on, or stops the   *)
(* node (Stop).                                                            *)
(***************************************************************************)
EXTENDS Integers

CONSTANTS
    MaxRounds,         \* ~max_rounds, the same for both cars; 0 = continuous
    PromptCallbacks    \* TRUE: a callback that began is over before a
                       \* blocking call of the main thread returns

ASSUME MaxRoundsAssumption == MaxRounds \in Nat
ASSUME PromptCallbacksAssumption == PromptCallbacks \in BOOLEAN

Cars == {1, 2}
Peer(c) == 3 - c

\* vehicles.yaml: car 1 starts, car 2 may use car 1's board-one text.
StartActive(c) == c = 1
UsePeerBoard1Result(c) == c = 2

WAIT_TURN == 8
GO_TO_BOARD1 == 9
BOARD1_RECOGNIZING == 10
GO_TO_PICKUP_WINDOWS == 11
GO_TO_BOARD2 == 12
BOARD2_RECOGNIZING == 13
GO_TO_LAB_WINDOW == 14
GO_BACK_HOME == 15

VARIABLES
    up,                        \* the node runs
    count,                     \* self.count, the navigation state
    have_turn,
    peer_done_pending,
    turn_released_this_round,
    dual_round_seq,            \* seq of the last done this car published
    last_peer_done_seq,        \* seq of the last done accepted from the peer
    completed_rounds,
    nav_state,                 \* last value on the latched topic nav_state
    pass_through,              \* local of handle_go_back_home
    pc,                        \* main thread
    cb                         \* callback thread

vars == <<up, count, have_turn, peer_done_pending, turn_released_this_round,
          dual_round_seq, last_peer_done_seq, completed_rounds, nav_state,
          pass_through, pc, cb>>

seqs == <<dual_round_seq, last_peer_done_seq>>

MainPoints ==
    {"gate", "loop", "wait_check", "wait_activate", "wait_go", "wait_sleep",
     "board1", "to_board1", "at_board1", "pickup", "to_board2", "at_board2",
     "to_lab", "release", "releasing", "homing", "home_check",
     "home_activate", "home_go", "home_yield", "home_wait"}

CallbackPoints == {"idle", "check", "activate", "go"}

Init ==
    /\ up = [c \in Cars |-> TRUE]
    /\ count = [c \in Cars |-> IF StartActive(c) THEN GO_TO_BOARD1
                                                 ELSE WAIT_TURN]
    /\ have_turn = [c \in Cars |-> StartActive(c)]
    /\ peer_done_pending = [c \in Cars |-> FALSE]
    /\ turn_released_this_round = [c \in Cars |-> FALSE]
    /\ dual_round_seq = [c \in Cars |-> 0]
    /\ last_peer_done_seq = [c \in Cars |-> 0]
    /\ completed_rounds = [c \in Cars |-> 0]
    /\ nav_state = [c \in Cars |-> 0]
    /\ pass_through = [c \in Cars |-> FALSE]
    /\ pc = [c \in Cars |-> "gate"]
    /\ cb = [c \in Cars |-> "idle"]

-----------------------------------------------------------------------------
(* Shared vocabulary of the steps.                                         *)

\* The main thread of a running node at one point, moving to another.
Main(c, from, to) ==
    /\ up[c]
    /\ pc[c] = from
    /\ pc' = [pc EXCEPT ![c] = to]

Callback(c, from, to) ==
    /\ up[c]
    /\ cb[c] = from
    /\ cb' = [cb EXCEPT ![c] = to]

\* self.count = s; self.pub_nav_state.publish(self.count)
SetCount(c, s) ==
    /\ count' = [count EXCEPT ![c] = s]
    /\ nav_state' = [nav_state EXCEPT ![c] = s]

\* A blocking call of the main thread (a drive, a sleep, a playback) returns.
BlockingCallReturns(c) == PromptCallbacks => cb[c] = "idle"

\* activate_turn_from_peer up to its assignment of self.count.
ConsumePeerDone(c) ==
    /\ peer_done_pending' = [peer_done_pending EXCEPT ![c] = FALSE]
    /\ have_turn' = [have_turn EXCEPT ![c] = TRUE]
    /\ turn_released_this_round' =
            [turn_released_this_round EXCEPT ![c] = FALSE]

\* The done messages of car c that exist anywhere in the done channel.
Published(c) == 1 .. dual_round_seq[c]

-----------------------------------------------------------------------------
(* Main thread: start gate, dispatch and the waiting state.                *)

\* start_motion_callback releases wait_for_manual_start.  The done callback
\* is subscribed before, and may already have run.
Start(c) ==
    /\ Main(c, "gate", "loop")
    /\ UNCHANGED <<up, count, have_turn, peer_done_pending,
                   turn_released_this_round, seqs, completed_rounds,
                   nav_state, pass_through, cb>>

\* handle_wait_turn begins.
WaitTurn(c) ==
    /\ Main(c, "loop", "wait_check")
    /\ count[c] = WAIT_TURN
    /\ nav_state' = [nav_state EXCEPT ![c] = WAIT_TURN]
    /\ UNCHANGED <<up, count, have_turn, peer_done_pending,
                   turn_released_this_round, seqs, completed_rounds,
                   pass_through, cb>>

\* Mutant: the cached done is not looked at while waiting.
WaitCheckNoPoll(c) ==
    /\ Main(c, "wait_check", "wait_sleep")
    /\ UNCHANGED <<up, count, have_turn, peer_done_pending,
                   turn_released_this_round, seqs, completed_rounds,
                   nav_state, pass_through, cb>>

\* A done cached on the way home is looked for here.
WaitCheck(c) ==
    /\ Main(c, "wait_check",
            IF peer_done_pending[c] THEN "wait_activate" ELSE "wait_sleep")
    /\ UNCHANGED <<up, count, have_turn, peer_done_pending,
                   turn_released_this_round, seqs, completed_rounds,
                   nav_state, pass_through, cb>>

WaitActivate(c) ==
    /\ Main(c, "wait_activate", "wait_go")
    /\ ConsumePeerDone(c)
    /\ UNCHANGED <<up, count, seqs, completed_rounds, nav_state,
                   pass_through, cb>>

WaitGo(c) ==
    /\ Main(c, "wait_go", "wait_sleep")
    /\ SetCount(c, GO_TO_BOARD1)
    /\ UNCHANGED <<up, have_turn, peer_done_pending,
                   turn_released_this_round, seqs, completed_rounds,
                   pass_through, cb>>

\* rate.sleep() of run_state_machine after the short waiting handler; after
\* the other handlers the period is already over and it does not block.
WaitSleep(c) ==
    /\ Main(c, "wait_sleep", "loop")
    /\ BlockingCallReturns(c)
    /\ UNCHANGED <<up, count, have_turn, peer_done_pending,
                   turn_released_this_round, seqs, completed_rounds,
                   nav_state, pass_through, cb>>

-----------------------------------------------------------------------------
(* Main thread: the stretch shared with the other car, states 9 to 14.     *)

\* handle_go_to_board1 up to its drive: sent back to wait without the turn;
\* straight to the pickups with car 1's text; else the drive to board one.
GoToBoard1(c) ==
    /\ up[c]
    /\ \/ pc[c] = "loop" /\ count[c] = GO_TO_BOARD1
       \/ pc[c] = "board1"
    /\ \/ /\ ~have_turn[c]
          /\ SetCount(c, WAIT_TURN)
          /\ pc' = [pc EXCEPT ![c] = "loop"]
          /\ UNCHANGED turn_released_this_round
       \/ /\ have_turn[c]
          /\ turn_released_this_round' =
                [turn_released_this_round EXCEPT ![c] = FALSE]
          /\ \/ /\ UsePeerBoard1Result(c)
                /\ SetCount(c, GO_TO_PICKUP_WINDOWS)
                /\ pc' = [pc EXCEPT ![c] = "loop"]
             \/ /\ nav_state' = [nav_state EXCEPT ![c] = GO_TO_BOARD1]
                /\ pc' = [pc EXCEPT ![c] = "to_board1"]
                /\ UNCHANGED count
    /\ UNCHANGED <<up, have_turn, peer_done_pending, seqs, completed_rounds,
                   pass_through, cb>>

\* One leg ends and the next state is entered; self.count is overwritten.
Leg(c, from, to, s) ==
    /\ Main(c, from, to)
    /\ BlockingCallReturns(c)
    /\ SetCount(c, s)
    /\ UNCHANGED <<up, have_turn, peer_done_pending,
                   turn_released_this_round, seqs, completed_rounds,
                   pass_through, cb>>

\* The main loop hands a state to the handler whose first act is a drive.
Dispatch(c, s, to) ==
    /\ Main(c, "loop", to)
    /\ count[c] = s
    /\ UNCHANGED <<up, count, have_turn, peer_done_pending,
                   turn_released_this_round, seqs, completed_rounds,
                   nav_state, pass_through, cb>>

ArriveBoard1(c) == Leg(c, "to_board1", "at_board1", BOARD1_RECOGNIZING)

Board1Recognized(c) == Leg(c, "at_board1", "loop", GO_TO_PICKUP_WINDOWS)

GoToPickupWindows(c) ==
    \/ Dispatch(c, GO_TO_PICKUP_WINDOWS, "pickup")
    \/ Leg(c, "pickup", "loop", GO_TO_BOARD2)

GoToBoard2(c) ==
    \/ Dispatch(c, GO_TO_BOARD2, "to_board2")
    \/ Leg(c, "to_board2", "at_board2", BOARD2_RECOGNIZING)
    \/ Leg(c, "at_board2", "loop", GO_TO_LAB_WINDOW)

\* handle_go_to_lab_window: state 15 is entered before the turn is released.
GoToLabWindow(c) ==
    \/ Dispatch(c, GO_TO_LAB_WINDOW, "to_lab")
    \/ Leg(c, "to_lab", "release", GO_BACK_HOME)

\* release_next_car_if_needed up to the first publication.
Release(c) ==
    /\ Main(c, "release",
            IF turn_released_this_round[c] THEN "loop" ELSE "releasing")
    /\ dual_round_seq' =
            IF turn_released_this_round[c] THEN dual_round_seq
            ELSE [dual_round_seq EXCEPT ![c] = @ + 1]
    /\ UNCHANGED <<up, count, have_turn, peer_done_pending,
                   turn_released_this_round, last_peer_done_seq,
                   completed_rounds, nav_state, pass_through, cb>>

\* Its flags, cleared only after the repeated publications and their sleeps:
\* the other car may have moved long before.
ReleaseDone(c) ==
    /\ Main(c, "releasing", "loop")
    /\ BlockingCallReturns(c)
    /\ turn_released_this_round' =
            [turn_released_this_round EXCEPT ![c] = TRUE]
    /\ have_turn' = [have_turn EXCEPT ![c] = FALSE]
    /\ UNCHANGED <<up, count, peer_done_pending, seqs, completed_rounds,
                   nav_state, pass_through, cb>>

-----------------------------------------------------------------------------
(* Main thread: the way home.                                              *)

RoundsOver(n) == MaxRounds # 0 /\ n >= MaxRounds

\* handle_go_back_home up to its drive: whether to pass home without a stop
\* is decided from the done that is cached now.
GoBackHome(c) ==
    /\ Main(c, "loop", "homing")
    /\ count[c] = GO_BACK_HOME
    /\ nav_state' = [nav_state EXCEPT ![c] = GO_BACK_HOME]
    /\ pass_through' = [pass_through EXCEPT ![c] =
            peer_done_pending[c] /\ ~RoundsOver(completed_rounds[c] + 1)]
    /\ UNCHANGED <<up, count, have_turn, peer_done_pending,
                   turn_released_this_round, seqs, completed_rounds, cb>>

\* Mutant: the round counter is compared before it is incremented.
HomeReachedLate(c) ==
    LET n == completed_rounds[c]
    IN  /\ Main(c, "homing", "home_check")
        /\ BlockingCallReturns(c)
        /\ completed_rounds' = [completed_rounds EXCEPT ![c] = n + 1]
        /\ up' = [up EXCEPT ![c] = ~RoundsOver(n)]
        /\ UNCHANGED <<count, have_turn, peer_done_pending,
                       turn_released_this_round, seqs, nav_state,
                       pass_through, cb>>

\* Home: the round is counted, and after the last one the node shuts down.
HomeReached(c) ==
    LET n == completed_rounds[c] + 1
    IN  /\ Main(c, "homing", "home_check")
        /\ BlockingCallReturns(c)
        /\ completed_rounds' = [completed_rounds EXCEPT ![c] = n]
        /\ up' = [up EXCEPT ![c] = ~RoundsOver(n)]
        /\ UNCHANGED <<count, have_turn, peer_done_pending,
                       turn_released_this_round, seqs, nav_state,
                       pass_through, cb>>

\* A done cached so far starts the next round at once, else the turn is
\* given up.  A done may arrive between this check and the steps after it.
HomeCheck(c) ==
    /\ Main(c, "home_check",
            IF peer_done_pending[c] THEN "home_activate" ELSE "home_yield")
    /\ UNCHANGED <<up, count, have_turn, peer_done_pending,
                   turn_released_this_round, seqs, completed_rounds,
                   nav_state, pass_through, cb>>

HomeYield(c) ==
    /\ Main(c, "home_yield", "home_wait")
    /\ have_turn' = [have_turn EXCEPT ![c] = FALSE]
    /\ UNCHANGED <<up, count, peer_done_pending, turn_released_this_round,
                   seqs, completed_rounds, nav_state, pass_through, cb>>

HomeWait(c) ==
    /\ Main(c, "home_wait", "loop")
    /\ SetCount(c, WAIT_TURN)
    /\ UNCHANGED <<up, have_turn, peer_done_pending,
                   turn_released_this_round, seqs, completed_rounds,
                   pass_through, cb>>

HomeActivate(c) ==
    /\ Main(c, "home_activate", "home_go")
    /\ ConsumePeerDone(c)
    /\ UNCHANGED <<up, count, seqs, completed_rounds, nav_state,
                   pass_through, cb>>

\* With pass_through the same handler call goes on to board one.
HomeGo(c) ==
    /\ Main(c, "home_go", IF pass_through[c] THEN "board1" ELSE "loop")
    /\ SetCount(c, GO_TO_BOARD1)
    /\ UNCHANGED <<up, have_turn, peer_done_pending,
                   turn_released_this_round, seqs, completed_rounds,
                   pass_through, cb>>

-----------------------------------------------------------------------------
(* Callback thread: peer_done_callback.                                    *)

\* Mutant: repeated and old done messages are taken for new ones.
IsNewAlways(c, seq) == TRUE

IsNew(c, seq) == seq > last_peer_done_seq[c]

\* Mutant: a done that comes while the car is not waiting is dropped.
ReceiveDoneOnlyWaiting(c, seq) ==
    /\ Callback(c, "idle", "check")
    /\ IsNew(c, seq)
    /\ last_peer_done_seq' = [last_peer_done_seq EXCEPT ![c] = seq]
    /\ peer_done_pending' = [peer_done_pending EXCEPT ![c] =
            @ \/ count[c] = WAIT_TURN]
    /\ UNCHANGED <<up, count, have_turn, turn_released_this_round,
                   dual_round_seq, completed_rounds, nav_state,
                   pass_through, pc>>

\* A done of the peer that is not new leaves no trace; a new one is cached.
ReceiveDone(c, seq) ==
    /\ Callback(c, "idle", "check")
    /\ IsNew(c, seq)
    /\ last_peer_done_seq' = [last_peer_done_seq EXCEPT ![c] = seq]
    /\ peer_done_pending' = [peer_done_pending EXCEPT ![c] = TRUE]
    /\ UNCHANGED <<up, count, have_turn, turn_released_this_round,
                   dual_round_seq, completed_rounds, nav_state,
                   pass_through, pc>>

\* Mutant: the done starts the next round whatever the state.
CallbackCheckNoState(c) ==
    /\ Callback(c, "check", "activate")
    /\ UNCHANGED <<up, count, have_turn, peer_done_pending,
                   turn_released_this_round, seqs, completed_rounds,
                   nav_state, pass_through, pc>>

CallbackCheck(c) ==
    /\ Callback(c, "check",
                IF count[c] = WAIT_TURN THEN "activate" ELSE "idle")
    /\ UNCHANGED <<up, count, have_turn, peer_done_pending,
                   turn_released_this_round, seqs, completed_rounds,
                   nav_state, pass_through, pc>>

CallbackActivate(c) ==
    /\ Callback(c, "activate", "go")
    /\ ConsumePeerDone(c)
    /\ UNCHANGED <<up, count, seqs, completed_rounds, nav_state,
                   pass_through, pc>>

CallbackGo(c) ==
    /\ Callback(c, "go", "idle")
    /\ SetCount(c, GO_TO_BOARD1)
    /\ UNCHANGED <<up, have_turn, peer_done_pending,
                   turn_released_this_round, seqs, completed_rounds,
                   pass_through, pc>>

-----------------------------------------------------------------------------
\* rospy.signal_shutdown after a failed drive or a recognition timeout, or
\* the node is stopped from outside.  It is not respawned.
Stop(c) ==
    /\ up[c]
    /\ up' = [up EXCEPT ![c] = FALSE]
    /\ UNCHANGED <<count, have_turn, peer_done_pending,
                   turn_released_this_round, seqs, completed_rounds,
                   nav_state, pass_through, pc, cb>>

MainThread(c) ==
    \/ Start(c)
    \/ WaitTurn(c) \/ WaitCheck(c) \/ WaitActivate(c) \/ WaitGo(c)
    \/ WaitSleep(c)
    \/ GoToBoard1(c) \/ ArriveBoard1(c) \/ Board1Recognized(c)
    \/ GoToPickupWindows(c) \/ GoToBoard2(c) \/ GoToLabWindow(c)
    \/ Release(c) \/ ReleaseDone(c)
    \/ GoBackHome(c) \/ HomeReached(c) \/ HomeCheck(c)
    \/ HomeYield(c) \/ HomeWait(c) \/ HomeActivate(c) \/ HomeGo(c)

CallbackThread(c) ==
    \/ \E seq \in Published(Peer(c)) : ReceiveDone(c, seq)
    \/ CallbackCheck(c) \/ CallbackActivate(c) \/ CallbackGo(c)

Next == \E c \in Cars : MainThread(c) \/ CallbackThread(c) \/ Stop(c)

Spec == Init /\ [][Next]_vars

\* Threads run, drives end and a published done is delivered in the end;
\* nothing obliges a node to stop.
FairSpec ==
    /\ Spec
    /\ \A c \in Cars : WF_vars(MainThread(c)) /\ WF_vars(CallbackThread(c))

-----------------------------------------------------------------------------
(* Properties.                                                             *)

\* Types of the attributes; the round counter stops at max_rounds.
TypeOK ==
    /\ up \in [Cars -> BOOLEAN]
    /\ count \in [Cars -> WAIT_TURN .. GO_BACK_HOME]
    /\ have_turn \in [Cars -> BOOLEAN]
    /\ peer_done_pending \in [Cars -> BOOLEAN]
    /\ turn_released_this_round \in [Cars -> BOOLEAN]
    /\ dual_round_seq \in [Cars -> Nat]
    /\ last_peer_done_seq \in [Cars -> Nat]
    /\ completed_rounds \in [Cars -> Nat]
    /\ nav_state \in [Cars -> {0} \union (WAIT_TURN .. GO_BACK_HOME)]
    /\ pass_through \in [Cars -> BOOLEAN]
    /\ pc \in [Cars -> MainPoints]
    /\ cb \in [Cars -> CallbackPoints]
    /\ MaxRounds # 0 => \A c \in Cars : completed_rounds[c] <= MaxRounds

\* The stretch from the start towards board one to the lab window.
OnSharedStretch(c) == count[c] \in GO_TO_BOARD1 .. GO_TO_LAB_WINDOW

\* The two cars are never between the start and the lab window at the same
\* time, whatever the done channel repeats or reorders, and also after one
\* of them stopped there (states 9-14, have_turn and the done protocol).
StretchExclusive == ~(OnSharedStretch(1) /\ OnSharedStretch(2))

\* Car c has the turn: a done it accepted is cached or being activated, or
\* it is on the stretch, or in state 15 before its done is published.
HasTurn(c) ==
    \/ peer_done_pending[c]
    \/ cb[c] = "go"
    \/ pc[c] \in {"wait_go", "home_go", "release"}
    \/ OnSharedStretch(c)

\* Car c published a done that the other car has not accepted.
InFlight(c) == dual_round_seq[c] > last_peer_done_seq[Peer(c)]

\* Where the turn can be: with a car, or in a done on its way.
Places == {"car", "done"} \X Cars

TurnAt(place) ==
    IF place[1] = "car" THEN HasTurn(place[2]) ELSE InFlight(place[2])

\* There is exactly one turn in the system: no interleaving of the main
\* loop with peer_done_callback loses it (a done that arrives while the car
\* drives, stops at home or gives up its flag) or makes a second one.
OneTurn ==
    \E holder \in Places :
        \A place \in Places : TurnAt(place) <=> place = holder

\* In a leg the vision node, which only sees the latched topic nav_state,
\* is told the state the car is in: no late publication of the callback or
\* of the waiting handler overwrites it.
NavStateOfLeg ==
    \A c \in Cars :
        pc[c] \in {"to_board1", "at_board1", "pickup", "to_board2", "at_board2",
                  "to_lab", "release", "releasing", "homing"}
            => nav_state[c] = count[c]

\* Every completed round has released the turn exactly once, and a car is
\* at most one release ahead of its rounds.
OneReleasePerRound ==
    \A c \in Cars : dual_round_seq[c] - completed_rounds[c] \in {0, 1}

\* Passes of the stretch car c has finished.
Passes(c) == dual_round_seq[c] + IF pc[c] = "release" THEN 1 ELSE 0

TS == INSTANCE Turnstile WITH
        who <- IF Passes(1) = Passes(2) THEN 1 ELSE 2,
        inside <- \E c \in Cars : OnSharedStretch(c)

\* The cars pass the stretch strictly in turns, car 1 first (refinement).
StrictTurns == TS!Spec

\* If both nodes keep running, every car completes its rounds: no car waits
\* for ever for a turn, although a done may arrive at any point of its loop.
BothFinish ==
    []( \A c \in Cars : up[c] \/ RoundsOver(completed_rounds[c]) )
        => <>(\A c \in Cars : RoundsOver(completed_rounds[c]))
=============================================================================

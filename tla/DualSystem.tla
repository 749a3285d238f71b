----------------------------- MODULE DualSystem -----------------------------
(***************************************************************************)
(* Both cars' navigation nodes (DualTurn) with the link nodes (TcpLink)    *)
(* between them.  A done that release_next_car_if_needed publishes enters  *)
(* the pending queue of the car's own link node; the other car's callback  *)
(* receives only what its own link node published on peer_done.            *)
(*                                                                         *)
(* DualTurn alone lets a published done arrive at any time, in any order   *)
(* and any number of times; here it arrives, late, twice or not at all, by *)
(* what the sender and the handler threads really do.  Implements says     *)
(* that nothing else can come out of the link.                             *)
(***************************************************************************)
EXTENDS DualTurn, TcpLink

CONSTANT NavStops     \* whether a navigation node may stop in mid-course

ASSUME NavStopsAssumption == NavStops \in BOOLEAN

sys_vars == <<vars, link_vars>>

SystemInit == Init /\ LinkInit

-----------------------------------------------------------------------------

\* The main thread; the first publication of a done enters the queue.
NavMain(c) ==
    /\ MainThread(c)
    /\ IF dual_round_seq' = dual_round_seq
       THEN UNCHANGED link_vars
       ELSE RoundDone(c, dual_round_seq'[c])

\* The repeated publications while release_next_car_if_needed sleeps.
PublishAgain(c) ==
    /\ up[c] /\ pc[c] = "releasing"
    /\ RoundDone(c, dual_round_seq[c])
    /\ UNCHANGED vars

\* The callback thread; rospy delivers what the link node published.
NavCallback(c) ==
    /\ \/ \E seq \in peer_done[c] : ReceiveDone(c, seq)
       \/ CallbackCheck(c) \/ CallbackActivate(c) \/ CallbackGo(c)
    /\ UNCHANGED link_vars

\* The rest of the link node, and a nav node that stops.
Link(c) == LinkStep(c) /\ UNCHANGED vars

NavStop(c) == NavStops /\ Stop(c) /\ UNCHANGED link_vars

SystemNext ==
    \E c \in Cars :
        NavMain(c) \/ PublishAgain(c) \/ NavCallback(c) \/ NavStop(c) \/ Link(c)

SystemSpec == SystemInit /\ [][SystemNext]_sys_vars

\* Every thread of the four nodes runs.  Whether an attempt to send fails is
\* up to the network (MaxFailures), and nothing obliges a node to stop.
FairSystemSpec ==
    /\ SystemSpec
    /\ \A c \in Cars :
        /\ WF_sys_vars(NavMain(c))
        /\ WF_sys_vars(NavCallback(c))
        /\ WF_sys_vars(SenderThread(c) /\ UNCHANGED vars)
        /\ \A seq \in Seqs : WF_sys_vars(HandlerThread(c, seq) /\ UNCHANGED vars)

-----------------------------------------------------------------------------

\* Through the link every behaviour is one the turn protocol allows for: no
\* done is made up, and none arrives that was not published (refinement; with
\* it everything proved of DualTurn holds here).
Implements == Spec

\* The link node of car c took this done or a later one of the other car in.
ArrivedAt(c, seq) ==
    \E later \in Seqs :
        later >= seq /\ (AtWork(c, later) > 0 \/ later \in peer_done[c])

\* A done that was published is on its way until it is there: it is queued
\* for another attempt, or a handler of the other car has it, or the other
\* nav node was told.  It never leaves the queue before an attempt got
\* through, while the link nodes stay up and fewer attempts fail than its
\* window allows for, and no race of the handlers drops it (sender_loop,
\* handle_round_done_obj).
DoneIsOnItsWay ==
    \A c \in LinkCars, seq \in Seqs :
        seq <= dual_round_seq[c]
            => pending_msgs[c][seq] # Expired \/ ArrivedAt(Other(c), seq)

\* While the link nodes stay up and fewer attempts fail than a done's window
\* allows for, the link loses no done, and both cars complete their rounds.
RoundsComplete == BothFinish
=============================================================================

------------------------------- MODULE TcpLink -------------------------------
(***************************************************************************)
(* tcp_link_v2.py, the node that carries the done messages of one car to   *)
(* the other: round_done (ROS) -> pending queue -> one TCP connection per  *)
(* attempt -> one handler thread per connection -> peer_done (ROS).        *)
(*                                                                         *)
(* One instance of every variable per car; the actions of car c's node are *)
(* those with parameter c.  The sender thread snapshots the queue, sends   *)
(* the snapshot message by message, and sleeps; time passes only where it  *)
(* spends time.  Handler threads of one receiver run side by side without  *)
(* a lock: the check of last_peer_seq, its assignment and the publication  *)
(* are three steps.                                                        *)
(*                                                                         *)
(* Time is in units: SendDuration, ConnectTimeout and RetryInterval keep   *)
(* the order of dual_tcp's 3.0, 2.0 and 0.2 s (a message outlives one      *)
(* timed-out attempt, not two).  Message contents, the token and address   *)
(* checks and board1_all_text, which travels the same way, are left out.   *)
(***************************************************************************)
EXTENDS Integers, FiniteSets

CONSTANTS
    MaxSeq,            \* done messages of one car (bound)
    SendDuration,      \* SEND_DURATION
    ConnectTimeout,    \* SOCKET_TIMEOUT
    RetryInterval,     \* RETRY_INTERVAL
    MaxConnections,    \* handler threads at work on the same done (bound)
    MaxFailures,       \* failed attempts of one sender (bound)
    MaxRestarts        \* respawns of one link node (bound)

ASSUME TcpLinkAssumption ==
    /\ MaxSeq \in Nat \ {0}
    /\ SendDuration \in Nat /\ ConnectTimeout \in Nat
    /\ RetryInterval \in Nat \ {0}
    /\ MaxConnections \in Nat \ {0}
    /\ MaxFailures \in Nat /\ MaxRestarts \in Nat

LinkCars == {1, 2}
Other(c) == 3 - c
Seqs == 1 .. MaxSeq
Expired == -1

VARIABLES
    pending_msgs,     \* time left of each queued done, Expired if not queued
    active_msgs,      \* the rest of the sender thread's snapshot
    sender,           \* where the sender thread is
    conns,            \* received connections per seq, not looked at yet
    passed,           \* handler threads past the check of last_peer_seq
    marked,           \* handler threads past its assignment, publishing
    last_peer_seq,
    peer_done,        \* seqs published on peer_done, to the local nav node
    failures, restarts

link_vars == <<pending_msgs, active_msgs, sender, conns, passed, marked,
               last_peer_seq, peer_done, failures, restarts>>

None == [s \in Seqs |-> 0]

LinkInit ==
    /\ pending_msgs = [c \in LinkCars |-> [s \in Seqs |-> Expired]]
    /\ active_msgs = [c \in LinkCars |-> {}]
    /\ sender = [c \in LinkCars |-> "scan"]
    /\ conns = [c \in LinkCars |-> None]
    /\ passed = [c \in LinkCars |-> None]
    /\ marked = [c \in LinkCars |-> None]
    /\ last_peer_seq = [c \in LinkCars |-> 0]
    /\ peer_done = [c \in LinkCars |-> {}]
    /\ failures = [c \in LinkCars |-> 0]
    /\ restarts = [c \in LinkCars |-> 0]

-----------------------------------------------------------------------------
(* Sending side.                                                           *)

\* Time spent by car c's sender thread.
Elapse(c, t) ==
    pending_msgs' = [pending_msgs EXCEPT ![c] =
        [s \in Seqs |-> IF @[s] >= t THEN @[s] - t ELSE Expired]]

\* round_done_cb: the window of a done starts (again).
RoundDone(c, seq) ==
    /\ seq \in Seqs
    /\ pending_msgs' = [pending_msgs EXCEPT ![c][seq] = SendDuration]
    /\ UNCHANGED <<active_msgs, sender, conns, passed, marked,
                   last_peer_seq, peer_done, failures, restarts>>

\* One snapshot under pending_lock; expired messages are gone.  With none
\* left the loop has nothing to send and sleeps.
Scan(c) ==
    /\ sender[c] = "scan"
    /\ sender' = [sender EXCEPT ![c] = "send"]
    /\ active_msgs' = [active_msgs EXCEPT ![c] =
            {s \in Seqs : pending_msgs[c][s] # Expired}]
    /\ UNCHANGED <<pending_msgs, conns, passed, marked, last_peer_seq,
                   peer_done, failures, restarts>>

\* Connections of a done that the handler threads of car c have in hand.
AtWork(c, seq) == conns[c][seq] + passed[c][seq] + marked[c][seq]

\* send_payload_once reaches the peer's server, which starts a thread.
SendOk(c, seq) ==
    /\ sender[c] = "send"
    /\ seq \in active_msgs[c]
    /\ AtWork(Other(c), seq) < MaxConnections
    /\ conns' = [conns EXCEPT ![Other(c)][seq] = @ + 1]
    /\ active_msgs' = [active_msgs EXCEPT ![c] = @ \ {seq}]
    /\ UNCHANGED <<pending_msgs, sender, passed, marked, last_peer_seq,
                   peer_done, failures, restarts>>

\* Mutant: the queue gives a message up with the first attempt that fails.
SendFailsDequeues(c, seq) ==
    /\ sender[c] = "send"
    /\ seq \in active_msgs[c]
    /\ failures[c] < MaxFailures
    /\ failures' = [failures EXCEPT ![c] = @ + 1]
    /\ pending_msgs' = [pending_msgs EXCEPT ![c][seq] = Expired]
    /\ active_msgs' = [active_msgs EXCEPT ![c] = @ \ {seq}]
    /\ UNCHANGED <<sender, conns, passed, marked, last_peer_seq, peer_done,
                   restarts>>

\* It is refused at once or times out; the queue keeps the message.
SendFails(c, seq) ==
    /\ sender[c] = "send"
    /\ seq \in active_msgs[c]
    /\ failures[c] < MaxFailures
    /\ failures' = [failures EXCEPT ![c] = @ + 1]
    /\ \E t \in {0, ConnectTimeout} : Elapse(c, t)
    /\ active_msgs' = [active_msgs EXCEPT ![c] = @ \ {seq}]
    /\ UNCHANGED <<sender, conns, passed, marked, last_peer_seq, peer_done,
                   restarts>>

\* Mutant: a message is sent once and leaves the queue.
SenderSleepsOnce(c) ==
    /\ sender[c] = "send" /\ active_msgs[c] = {}
    /\ sender' = [sender EXCEPT ![c] = "scan"]
    /\ Elapse(c, SendDuration + 1)
    /\ UNCHANGED <<active_msgs, conns, passed, marked, last_peer_seq,
                   peer_done, failures, restarts>>

\* rospy.sleep(RETRY_INTERVAL)
SenderSleeps(c) ==
    /\ sender[c] = "send" /\ active_msgs[c] = {}
    /\ sender' = [sender EXCEPT ![c] = "scan"]
    /\ Elapse(c, RetryInterval)
    /\ UNCHANGED <<active_msgs, conns, passed, marked, last_peer_seq,
                   peer_done, failures, restarts>>

-----------------------------------------------------------------------------
(* Receiving side: handle_client threads running handle_round_done_obj.    *)

\* Mutant: the done after the last one is taken for an old one.
IsOldOffByOne(c, seq) == seq <= last_peer_seq[c] + 1

IsOld(c, seq) == seq <= last_peer_seq[c]

\* A thread compares seq with last_peer_seq; an old message ends it.
HandlerChecks(c, seq) ==
    /\ conns[c][seq] > 0
    /\ conns' = [conns EXCEPT ![c][seq] = @ - 1]
    /\ passed' = IF IsOld(c, seq) THEN passed
                 ELSE [passed EXCEPT ![c][seq] = @ + 1]
    /\ UNCHANGED <<pending_msgs, active_msgs, sender, marked, last_peer_seq,
                   peer_done, failures, restarts>>

\* A thread that passed the check sets last_peer_seq, backwards too when two
\* dones overtake each other.
HandlerMarks(c, seq) ==
    /\ passed[c][seq] > 0
    /\ passed' = [passed EXCEPT ![c][seq] = @ - 1]
    /\ marked' = [marked EXCEPT ![c][seq] = @ + 1]
    /\ last_peer_seq' = [last_peer_seq EXCEPT ![c] = seq]
    /\ UNCHANGED <<pending_msgs, active_msgs, sender, conns, peer_done,
                   failures, restarts>>

\* Only then does it publish, the same message several times.
HandlerPublishes(c, seq) ==
    /\ marked[c][seq] > 0
    /\ marked' = [marked EXCEPT ![c][seq] = @ - 1]
    /\ peer_done' = [peer_done EXCEPT ![c] = @ \union {seq}]
    /\ UNCHANGED <<pending_msgs, active_msgs, sender, conns, passed,
                   last_peer_seq, failures, restarts>>

\* respawn_comm: the node dies and is started again with nothing in memory.
\* What it already published stays with the nav node.
RestartLink(c) ==
    /\ restarts[c] < MaxRestarts
    /\ restarts' = [restarts EXCEPT ![c] = @ + 1]
    /\ pending_msgs' = [pending_msgs EXCEPT ![c] = [s \in Seqs |-> Expired]]
    /\ active_msgs' = [active_msgs EXCEPT ![c] = {}]
    /\ sender' = [sender EXCEPT ![c] = "scan"]
    /\ conns' = [conns EXCEPT ![c] = None]
    /\ passed' = [passed EXCEPT ![c] = None]
    /\ marked' = [marked EXCEPT ![c] = None]
    /\ last_peer_seq' = [last_peer_seq EXCEPT ![c] = 0]
    /\ UNCHANGED <<peer_done, failures>>

SenderThread(c) ==
    \/ Scan(c)
    \/ \E seq \in Seqs : SendOk(c, seq) \/ SendFails(c, seq)
    \/ SenderSleeps(c)

HandlerThread(c, seq) ==
    HandlerChecks(c, seq) \/ HandlerMarks(c, seq) \/ HandlerPublishes(c, seq)

LinkStep(c) ==
    \/ SenderThread(c)
    \/ \E seq \in Seqs : HandlerThread(c, seq)
    \/ RestartLink(c)

-----------------------------------------------------------------------------
(* Properties of the link alone.                                           *)

LinkTypeOK ==
    /\ pending_msgs \in [LinkCars -> [Seqs -> Expired .. SendDuration]]
    /\ active_msgs \in [LinkCars -> SUBSET Seqs]
    /\ sender \in [LinkCars -> {"scan", "send"}]
    /\ conns \in [LinkCars -> [Seqs -> 0 .. MaxConnections]]
    /\ passed \in [LinkCars -> [Seqs -> 0 .. MaxConnections]]
    /\ marked \in [LinkCars -> [Seqs -> 0 .. MaxConnections]]
    /\ last_peer_seq \in [LinkCars -> 0 .. MaxSeq]
    /\ peer_done \in [LinkCars -> SUBSET Seqs]
    /\ failures \in [LinkCars -> 0 .. MaxFailures]
    /\ restarts \in [LinkCars -> 0 .. MaxRestarts]

\* A done at least this far along has reached the nav node of car c, or a
\* handler thread is about to publish it.
Covered(c, seq) ==
    \E later \in Seqs :
        later >= seq /\ (later \in peer_done[c] \/ marked[c][later] > 0)

\* A received done is discarded only if it, or a later one, was published to
\* the nav node or is in the hands of a handler thread past the assignment:
\* deduplication never eats a done, even when last_peer_seq goes back in a
\* race of handlers or a respawn.
DiscardsOnlyHandled ==
    [][\A c \in LinkCars, seq \in Seqs :
          HandlerChecks(c, seq) /\ passed' = passed
            => Covered(c, seq)]_link_vars
=============================================================================

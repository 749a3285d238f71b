------------------------------ MODULE PeerBoard ------------------------------
(***************************************************************************)
(* The text of board one on its way from car 1 to car 2: vision node of    *)
(* car 1 (publish_board1_all_text) -> its link node -> link node of car 2  *)
(* -> navigation node of car 2, which takes a task from it and does not    *)
(* stop at the board (try_use_peer_board1_result_before_board1_navigation).*)
(*                                                                         *)
(* Four sequence numbers guard the way, in three processes that are        *)
(* respawned on their own; each forgets its number when it dies.  Rounds   *)
(* alternate (DualTurn, StrictTurns): car 1 reads the board and leaves,    *)
(* then car 2 sets out, then car 1 again.  A board is the queue of slots   *)
(* build_board1_task_queue makes of it (Board1Select); a text is named by  *)
(* the round it was read in and its seq.                                   *)
(*                                                                         *)
(* A done follows its text by the drive from board one to the laboratory,  *)
(* much longer than the 3 s a text is sent for: car 2 sets out when the    *)
(* text has come through, or a fault is counted for its being late.        *)
(* Faults are counted too for a text that is sent in vain for 3 s and for  *)
(* the death of the vision node, not for the respawns of link nodes, which *)
(* are started again at once.                                              *)
(***************************************************************************)
EXTENDS Naturals, Sequences

CONSTANTS
    MaxRounds,       \* rounds of both cars (bound)
    Boards,          \* what a board can show: queues of slots
    MaxRepeats,      \* entries of state 10 whose result came too late (bound)
    MaxRespawns,     \* deaths of link nodes (bound)
    MaxFaults        \* late texts, lost texts, deaths of the vision node

ASSUME PeerBoardAssumption ==
    /\ MaxRounds \in Nat \ {0} /\ MaxRepeats \in Nat
    /\ MaxRespawns \in Nat /\ MaxFaults \in Nat
    /\ Boards \subseteq Seq(0 .. 3) \ {<<>>} /\ Boards # {}

Rounds == 1 .. MaxRounds
MaxTexts == MaxRounds + MaxRepeats
Text == [round : Rounds, seq : 1 .. MaxTexts]
NoText == [round |-> 0, seq |-> 0]

VARIABLES
    board,         \* round -> what the board shows in it
    round, leg,    \* where the two cars are in their round
    \* vision node of car 1
    vision, board1_all_text_seq, latched, repeats,
    \* link node of car 1, connections, link node of car 2
    pending_board1_msgs, conns, passed, marked, last_peer_board1_seq,
    respawns,
    \* navigation node of car 2
    peer_board1_data, last_received_peer_board1_seq,
    last_used_peer_board1_seq,
    used,          \* round -> the text car 2 took its task from, if any
    windows,       \* round -> slot of the task car 2 took, before reading
    faults

course == <<board, round, leg>>
visionNode == <<vision, board1_all_text_seq, latched, repeats>>
link == <<pending_board1_msgs, conns, passed, marked, last_peer_board1_seq,
          respawns>>
received == <<peer_board1_data, last_received_peer_board1_seq>>
taken == <<last_used_peer_board1_seq, used, windows>>

vars == <<course, visionNode, link, received, taken, faults>>

Init ==
    /\ board \in [Rounds -> Boards]
    /\ round = 1 /\ leg = "reading"
    /\ vision = "looking" /\ board1_all_text_seq = 0 /\ latched = NoText
    /\ repeats = 0
    /\ pending_board1_msgs = {} /\ conns = {} /\ passed = {} /\ marked = {}
    /\ last_peer_board1_seq = 0 /\ respawns = 0
    /\ peer_board1_data = NoText /\ last_received_peer_board1_seq = 0
    /\ last_used_peer_board1_seq = 0
    /\ used = [r \in Rounds |-> NoText]
    /\ windows = [r \in Rounds |-> 4]
    /\ faults = 0

Fault == faults < MaxFaults /\ faults' = faults + 1

-----------------------------------------------------------------------------
(* Car 1.                                                                  *)

\* stable_publish_board1 publishes the tasks.  They are ignored if the
\* navigation node has left state 10 to drive to the board again.
PublishTasks ==
    /\ leg = "reading" /\ vision = "looking"
    /\ vision' = "publishing"
    /\ \/ leg' = "driving" /\ repeats' = repeats
       \/ repeats < MaxRepeats /\ repeats' = repeats + 1 /\ leg' = leg
    /\ UNCHANGED <<board, round, board1_all_text_seq, latched, link,
                   received, taken, faults>>

\* board1_all_text_cb: the queue has one text of a seq, the last one.
Enqueue(text) ==
    pending_board1_msgs' =
        {old \in pending_board1_msgs : old.seq # text.seq} \union {text}

\* publish_board1_all_text: latched for a link node that comes later.
PublishText ==
    /\ vision = "publishing"
    /\ vision' = IF leg = "reading" THEN "looking" ELSE "published"
    /\ board1_all_text_seq' = board1_all_text_seq + 1
    /\ latched' = [round |-> round, seq |-> board1_all_text_seq']
    /\ Enqueue(latched')
    /\ UNCHANGED <<course, repeats, conns, passed, marked,
                   last_peer_board1_seq, respawns, received, taken, faults>>

\* respawn_detect: seq begins anew, and nothing is latched.
VisionDies ==
    /\ Fault
    /\ vision' = IF leg = "reading" THEN "looking" ELSE "published"
    /\ board1_all_text_seq' = 0 /\ latched' = NoText
    /\ UNCHANGED <<course, repeats, link, received, taken>>

-----------------------------------------------------------------------------
(* The link nodes.                                                         *)

\* The connection reaches car 2's link node, which starts a thread.  The
\* message stays in the queue.
SendPayload(text) ==
    /\ text \in pending_board1_msgs
    /\ conns' = conns \union {text}
    /\ UNCHANGED <<course, visionNode, pending_board1_msgs, passed, marked,
                   last_peer_board1_seq, respawns, received, taken, faults>>

\* Texts that handler threads of car 2's link node have passed on, and not
\* published yet.
AtWork == passed \union marked

\* Car 2 has neither this text nor a later one.
Useful(text) == text.seq > last_received_peer_board1_seq

\* The 3 s of a text are over.  If it has not come through, and is not with
\* a handler thread, every attempt has failed.
Expire(text) ==
    /\ text \in pending_board1_msgs
    /\ pending_board1_msgs' = pending_board1_msgs \ {text}
    /\ IF Useful(text) /\ text \notin conns \union AtWork
       THEN Fault ELSE faults' = faults
    /\ UNCHANGED <<course, visionNode, conns, passed, marked,
                   last_peer_board1_seq, respawns, received, taken>>

\* Mutant: the text after the last one is taken for an old one.
IsOldOffByOne(text) == text.seq <= last_peer_board1_seq + 1

IsOld(text) == text.seq <= last_peer_board1_seq

\* handle_board1_all_text_obj: the check of last_peer_board1_seq ...
HandlerChecks(text) ==
    /\ text \in conns
    /\ conns' = conns \ {text}
    /\ passed' = IF IsOld(text) THEN passed ELSE passed \union {text}
    /\ UNCHANGED <<course, visionNode, pending_board1_msgs, marked,
                   last_peer_board1_seq, respawns, received, taken, faults>>

\* ... the number, which may go back, and which makes other threads discard
\* the text from here on ...
HandlerMarks(text) ==
    /\ text \in passed
    /\ passed' = passed \ {text} /\ marked' = marked \union {text}
    /\ last_peer_board1_seq' = text.seq
    /\ UNCHANGED <<course, visionNode, pending_board1_msgs, conns, respawns,
                   received, taken, faults>>

\* Mutant: the navigation node keeps whatever comes last.
ReceiveAny(text) ==
    /\ peer_board1_data' = text
    /\ last_received_peer_board1_seq' = text.seq

\* peer_board1_all_text_callback of car 2's navigation node.
Receive(text) ==
    IF text.seq <= last_received_peer_board1_seq THEN UNCHANGED received
    ELSE /\ peer_board1_data' = text
         /\ last_received_peer_board1_seq' = text.seq

\* ... and the publication: no lock joins the three.
HandlerPublishes(text) ==
    /\ text \in marked
    /\ marked' = marked \ {text}
    /\ Receive(text)
    /\ UNCHANGED <<course, visionNode, pending_board1_msgs, conns, passed,
                   last_peer_board1_seq, respawns, taken, faults>>

\* Mutant: the topic is not latched.
RespawnSenderUnlatched ==
    /\ respawns < MaxRespawns /\ respawns' = respawns + 1
    /\ pending_board1_msgs' = {}
    /\ UNCHANGED <<course, visionNode, conns, passed, marked,
                   last_peer_board1_seq, received, taken, faults>>

\* Car 1's link node dies with its queue.  The new one subscribes and is
\* given the latched text.
RespawnSender ==
    /\ respawns < MaxRespawns /\ respawns' = respawns + 1
    /\ pending_board1_msgs' = {latched} \ {NoText}
    /\ UNCHANGED <<course, visionNode, conns, passed, marked,
                   last_peer_board1_seq, received, taken, faults>>

\* Car 2's link node dies with its threads and its number.  What they held
\* is lost if car 1's link node has ceased to send it.
RespawnReceiver ==
    /\ respawns < MaxRespawns /\ respawns' = respawns + 1
    /\ conns' = {} /\ passed' = {} /\ marked' = {}
    /\ last_peer_board1_seq' = 0
    /\ IF \E text \in (conns \union AtWork) \ pending_board1_msgs : Useful(text)
       THEN Fault ELSE faults' = faults
    /\ UNCHANGED <<course, visionNode, pending_board1_msgs, received, taken>>

-----------------------------------------------------------------------------
(* The turn, and car 2.                                                    *)

\* Nothing is under way any more.
Quiet ==
    /\ vision # "publishing"
    /\ pending_board1_msgs = {} /\ conns = {} /\ AtWork = {}

\* Car 1 has reached the laboratory, its done arrives at car 2.
HandTurn ==
    /\ leg = "driving" /\ vision = "published"
    /\ IF Quiet THEN faults' = faults ELSE Fault
    /\ leg' = "peer"
    /\ UNCHANGED <<board, round, visionNode, link, received, taken>>

\* Mutant: a text that was used is used again.
IsUsableAgain(text) ==
    /\ text # NoText
    /\ Len(board[text.round]) > 1

\* A text, not used, that leaves a task when car 1's slot is taken off.
IsUsable(text) ==
    /\ text # NoText
    /\ text.seq > last_used_peer_board1_seq
    /\ Len(board[text.round]) > 1

\* remaining_all_text: the board without the slot car 1 selected.
Remaining(queue) == Tail(queue)

\* handle_go_to_board1 of car 2 takes its task from the text.
UsePeerBoard ==
    /\ leg = "peer" /\ IsUsable(peer_board1_data)
    /\ last_used_peer_board1_seq' = peer_board1_data.seq
    /\ used' = [used EXCEPT ![round] = peer_board1_data]
    /\ windows' = [windows EXCEPT
            ![round] = Head(Remaining(board[peer_board1_data.round]))]
    /\ leg' = "away"
    /\ UNCHANGED <<board, round, visionNode, link, received, faults>>

\* It goes and reads the board itself, as if there were no car 1.
ReadBoard ==
    /\ leg = "peer" /\ ~IsUsable(peer_board1_data)
    /\ windows' = [windows EXCEPT ![round] = Head(board[round])]
    /\ leg' = "away"
    /\ UNCHANGED <<board, round, visionNode, link, received,
                   last_used_peer_board1_seq, used, faults>>

\* Its done arrives at car 1: the next round.
NextRound ==
    /\ leg = "away" /\ round < MaxRounds
    /\ round' = round + 1 /\ leg' = "reading" /\ vision' = "looking"
    /\ UNCHANGED <<board, board1_all_text_seq, latched, repeats, link,
                   received, taken, faults>>

Next ==
    \/ PublishTasks \/ PublishText \/ VisionDies
    \/ \E text \in Text :
        \/ SendPayload(text) \/ Expire(text)
        \/ HandlerChecks(text) \/ HandlerMarks(text)
        \/ HandlerPublishes(text)
    \/ RespawnSender \/ RespawnReceiver
    \/ HandTurn \/ UsePeerBoard \/ ReadBoard \/ NextRound

Spec == Init /\ [][Next]_vars

\* The sender thread tries again what has not come through, and the handler
\* threads run.  Nothing obliges the cars to go on, or a node to die.
FairSpec ==
    /\ Spec
    /\ WF_vars(\E text \in Text :
                Useful(text) /\ text \notin conns \union AtWork
                /\ SendPayload(text))
    /\ WF_vars(\E text \in Text :
                Useful(text) /\ text \notin AtWork /\ HandlerChecks(text))
    /\ WF_vars(\E text \in Text : HandlerMarks(text) \/ HandlerPublishes(text))

-----------------------------------------------------------------------------
(* Properties.                                                             *)

TypeOK ==
    /\ board \in [Rounds -> Boards] /\ round \in Rounds
    /\ leg \in {"reading", "driving", "peer", "away"}
    /\ vision \in {"looking", "publishing", "published"}
    /\ board1_all_text_seq \in 0 .. MaxTexts
    /\ latched \in Text \union {NoText} /\ repeats \in 0 .. MaxRepeats
    /\ pending_board1_msgs \subseteq Text
    /\ conns \subseteq Text /\ AtWork \subseteq Text
    /\ last_peer_board1_seq \in 0 .. MaxTexts
    /\ respawns \in 0 .. MaxRespawns
    /\ peer_board1_data \in Text \union {NoText}
    /\ last_received_peer_board1_seq \in 0 .. MaxTexts
    /\ last_used_peer_board1_seq \in 0 .. MaxTexts
    /\ used \in [Rounds -> Text \union {NoText}]
    /\ windows \in [Rounds -> 0 .. 4] /\ faults \in 0 .. MaxFaults

\* Car 2 takes no task twice from one text, however often it is delivered
\* and whichever node in between has forgotten it.
TextUsedOnce ==
    \A r, s \in Rounds : used[r] # NoText /\ used[r] = used[s] => r = s

\* One fault, whatever it is, and any deaths of link nodes never make car 2
\* take a task from the board of an earlier round: at worst it reads the
\* board itself ("old or used, falls back", F1_yaofang_v5.py:832).
TextOfThisRound ==
    faults < 2 =>
        \A r \in Rounds : used[r] # NoText => used[r].round = r

\* Without a fault car 2 always takes the second task of the board car 1 has
\* just read, and leaves the first to car 1, even if link nodes die on the
\* way: what the queue lost is latched by the vision node.
TextComesThrough ==
    faults = 0 =>
        \A r \in Rounds :
            windows[r] # 4 /\ Len(board[r]) > 1 => windows[r] = board[r][2]

\* Car 2 catches up with what the vision node of car 1 published, whatever
\* link nodes die, unless a fault is to blame.
TextArrives ==
    last_received_peer_board1_seq < latched.seq ~>
        last_received_peer_board1_seq >= latched.seq \/ faults > 0
=============================================================================

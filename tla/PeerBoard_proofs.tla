--------------------------- MODULE PeerBoard_proofs ---------------------------
(***************************************************************************)
(* Proofs about PeerBoard, for any number of rounds, any boards and any    *)
(* number of repeated readings, respawns and faults.                       *)
(***************************************************************************)
EXTENDS PeerBoard, SequenceTheorems, TLAPS

\* How many texts the vision node has published, and where it can be in
\* each leg.
TextsAreFew ==
    /\ leg = "reading" => vision \in {"looking", "publishing"}
    /\ leg = "driving" => vision \in {"publishing", "published"}
    /\ leg \in {"peer", "away"} => vision = "published"
    /\ vision = "published" => board1_all_text_seq <= round + repeats
    /\ vision # "published" => board1_all_text_seq < round + repeats
    /\ vision = "publishing" /\ leg = "reading" =>
            board1_all_text_seq + 1 < round + repeats

\* No text that was used has a number above the last one used.
UsedBefore ==
    /\ \A r \in Rounds : used[r].seq <= last_used_peer_board1_seq
    /\ TextUsedOnce

\* Numbers on the side of car 2.  Its link node knows no number that the
\* navigation node has not, unless a thread is about to publish it.
Received ==
    /\ peer_board1_data.seq = last_received_peer_board1_seq
    /\ \/ last_peer_board1_seq <= last_received_peer_board1_seq
       \/ \E text \in marked : last_peer_board1_seq <= text.seq
    /\ last_used_peer_board1_seq <= last_received_peer_board1_seq

InTransit == pending_board1_msgs \union conns \union AtWork

\* The latched text, or a later one, is under way as long as car 2 needs it.
IsComing ==
    Useful(latched) => \E text \in InTransit : latched.seq <= text.seq

\* Without a fault the latched text is the last one, every text anywhere is
\* an earlier one or the same, and the last one is on its way or there.
Latest ==
    /\ latched.seq = board1_all_text_seq
    /\ \A text \in InTransit \union {peer_board1_data} :
        /\ text.seq <= board1_all_text_seq
        /\ text.seq = board1_all_text_seq => text = latched
    /\ IsComing
    /\ leg # "reading" /\ vision = "published" => latched.round = round
    /\ leg = "driving" /\ vision = "published" =>
        last_used_peer_board1_seq < board1_all_text_seq
    /\ leg = "peer" =>
        /\ peer_board1_data = latched
        /\ last_used_peer_board1_seq < peer_board1_data.seq
    /\ leg = "away" => peer_board1_data = latched

LatestWithoutFault == faults = 0 => Latest

IInv ==
    /\ TypeOK /\ TextsAreFew /\ UsedBefore /\ Received
    /\ LatestWithoutFault /\ TextComesThrough

-----------------------------------------------------------------------------
(* Texts.                                                                  *)

LEMMA TextType ==
  /\ \A t \in Text : t.round \in Rounds /\ t.seq \in 1 .. MaxTexts
  /\ \A r \in Rounds, n \in 1 .. MaxTexts : [round |-> r, seq |-> n] \in Text
  /\ NoText.seq = 0 /\ NoText.round = 0 /\ NoText \notin Text
  BY PeerBoardAssumption DEF Text, NoText, Rounds

LEMMA Bounds ==
  /\ MaxRounds \in Nat \ {0} /\ MaxRepeats \in Nat /\ MaxTexts \in Nat
  /\ MaxTexts = MaxRounds + MaxRepeats /\ MaxTexts >= 1
  /\ MaxRespawns \in Nat /\ MaxFaults \in Nat
  BY PeerBoardAssumption DEF MaxTexts

\* A board has slots, and the second of them is what Remaining begins with.
LEMMA BoardType ==
  ASSUME NEW q \in Boards
  PROVE  /\ Len(q) \in Nat /\ Len(q) >= 1
         /\ Head(q) \in 0 .. 3
         /\ Len(q) > 1 => Head(Remaining(q)) = q[2] /\ q[2] \in 0 .. 3
  <1>1. q \in Seq(0 .. 3) /\ q # <<>>
    BY PeerBoardAssumption
  <1>2. Len(q) \in Nat /\ Len(q) >= 1 /\ Head(q) \in 0 .. 3
    BY <1>1
  <1>3. ASSUME Len(q) > 1
        PROVE  Head(Remaining(q)) = q[2] /\ q[2] \in 0 .. 3
    <2>1. q[2] \in 0 .. 3
      BY <1>1, <1>2, <1>3, ElementOfSeq
    <2>2. /\ Tail(q) \in Seq(0 .. 3) /\ Len(Tail(q)) = Len(q) - 1
          /\ \A i \in 1 .. Len(Tail(q)) : Tail(q)[i] = q[i + 1]
      BY <1>1, HeadTailProperties
    <2>3. Head(Tail(q)) = Tail(q)[1]
      BY <1>2, <1>3, <2>2
    <2>4. Tail(q)[1] = q[2]
      BY <1>2, <1>3, <2>2
    <2> QED  BY <2>1, <2>3, <2>4 DEF Remaining
  <1> QED  BY <1>2, <1>3

USE DEF course, visionNode, link, received, taken, AtWork

-----------------------------------------------------------------------------
(* The invariant at the start, and the vision node.                        *)

LEMMA InitInvariant == Init => IInv
  <1> SUFFICES ASSUME Init PROVE IInv
    OBVIOUS
  <1> USE Bounds, TextType DEF Init, Rounds
  <1>1. TypeOK
    BY DEF TypeOK
  <1>2. TextsAreFew /\ Received
    BY DEF TextsAreFew, Received
  <1>3. UsedBefore
    BY DEF UsedBefore, TextUsedOnce
  <1>4. LatestWithoutFault
    BY DEF LatestWithoutFault, Latest, InTransit, Useful, IsComing
  <1>5. TextComesThrough
    BY DEF TextComesThrough
  <1> QED  BY <1>1, <1>2, <1>3, <1>4, <1>5 DEF IInv

\* What car 2 has taken is not touched by most steps.
LEMMA TakenStays ==
  ASSUME IInv, UNCHANGED <<taken, board>>, faults' \in {faults, faults + 1}
  PROVE  UsedBefore' /\ TextComesThrough'
  <1>1. UsedBefore'
    BY DEF IInv, UsedBefore, TextUsedOnce
  <1>2. faults' = 0 => faults = 0
    BY Bounds DEF IInv, TypeOK
  <1>3. TextComesThrough'
    BY <1>2 DEF IInv, TextComesThrough
  <1> QED  BY <1>1, <1>3

LEMMA PublishTasksKeeps == IInv /\ PublishTasks => IInv'
  <1> SUFFICES ASSUME IInv, PublishTasks PROVE IInv'
    OBVIOUS
  <1> USE Bounds, TextType DEF PublishTasks
  <1>1. UsedBefore' /\ TextComesThrough'
    BY TakenStays
  <1>2. TypeOK'
    BY DEF IInv, TypeOK
  <1>3. TextsAreFew'
    BY DEF IInv, TypeOK, TextsAreFew, Rounds
  <1>4. Received'
    BY DEF IInv, Received
  <1>5. LatestWithoutFault'
    BY DEF IInv, LatestWithoutFault, Latest, InTransit, Useful, IsComing
  <1> QED  BY <1>1, <1>2, <1>3, <1>4, <1>5 DEF IInv

\* A new text has the next number, and is queued at once.
LEMMA PublishTextKeeps == IInv /\ PublishText => IInv'
  <1> SUFFICES ASSUME IInv, PublishText PROVE IInv'
    OBVIOUS
  <1> DEFINE new == [round |-> round, seq |-> board1_all_text_seq + 1]
  <1>1. /\ vision = "publishing" /\ leg \in {"reading", "driving"}
        /\ board1_all_text_seq + 1 \in 1 .. MaxTexts /\ round \in Rounds
        /\ board1_all_text_seq \in Nat
        /\ new \in Text /\ new.seq = board1_all_text_seq + 1
        /\ new.round = round
    BY Bounds, TextType DEF IInv, TypeOK, TextsAreFew, Rounds, PublishText
  <1>2. /\ board1_all_text_seq' = board1_all_text_seq + 1 /\ latched' = new
        /\ new \in pending_board1_msgs'
        /\ pending_board1_msgs' \subseteq pending_board1_msgs \union {new}
        /\ \A old \in pending_board1_msgs :
                old.seq # new.seq => old \in pending_board1_msgs'
        /\ vision' = IF leg = "reading" THEN "looking" ELSE "published"
        /\ UNCHANGED <<course, repeats, conns, passed, marked,
                       last_peer_board1_seq, respawns, received, taken, faults>>
    BY <1>1 DEF PublishText, Enqueue
  <1> HIDE DEF new
  <1>3. UsedBefore' /\ TextComesThrough'
    BY <1>2, TakenStays
  <1>4. TypeOK'
    BY <1>1, <1>2 DEF IInv, TypeOK
  <1>5. TextsAreFew'
    BY <1>1, <1>2, Bounds DEF IInv, TypeOK, TextsAreFew, Rounds
  <1>6. Received'
    BY <1>2 DEF IInv, Received
  <1>7. LatestWithoutFault'
    <2> SUFFICES ASSUME faults = 0 PROVE Latest'
      BY <1>2 DEF LatestWithoutFault
    <2>1. Latest
      BY DEF IInv, LatestWithoutFault
    <2>2. \A text \in InTransit \union {peer_board1_data} :
              text.seq \in Nat /\ text.seq <= board1_all_text_seq
      BY <2>1, Bounds, TextType DEF Latest, IInv, TypeOK, InTransit
    <2>3. InTransit' \subseteq InTransit \union {new} /\ new \in InTransit'
      BY <1>2 DEF InTransit
    <2>4. \A text \in InTransit' \union {peer_board1_data'} :
              /\ text.seq <= board1_all_text_seq'
              /\ text.seq = board1_all_text_seq' => text = latched'
      BY <1>1, <1>2, <2>2, <2>3
    <2>5. last_used_peer_board1_seq < board1_all_text_seq'
      BY <1>1, <1>2, <2>2, Bounds DEF IInv, TypeOK, Received
    <2>6. latched'.seq <= latched'.seq
      BY <1>1, <1>2
    <2> QED  BY <1>1, <1>2, <2>3, <2>4, <2>5, <2>6 DEF Latest, IsComing
  <1> QED  BY <1>3, <1>4, <1>5, <1>6, <1>7 DEF IInv

LEMMA VisionDiesKeeps == IInv /\ VisionDies => IInv'
  <1> SUFFICES ASSUME IInv, VisionDies PROVE IInv'
    OBVIOUS
  <1> USE Bounds, TextType DEF VisionDies, Fault
  <1>1. UsedBefore' /\ TextComesThrough'
    BY TakenStays
  <1>2. TypeOK'
    BY DEF IInv, TypeOK
  <1>3. TextsAreFew'
    BY DEF IInv, TypeOK, TextsAreFew, Rounds
  <1>4. Received'
    BY DEF IInv, Received
  <1>5. LatestWithoutFault'
    BY DEF IInv, TypeOK, LatestWithoutFault
  <1> QED  BY <1>1, <1>2, <1>3, <1>4, <1>5 DEF IInv

-----------------------------------------------------------------------------
(* The link nodes.                                                         *)

\* What a step of the link does: it brings no text that was not under way or
\* latched, and while car 2 needs the latched text, that one or a later one
\* stays under way, except by a fault.  In particular a text that a thread
\* discards is covered by one that another thread is about to publish.
LEMMA LinkStep ==
  ASSUME IInv, NEW text \in Text,
         \/ SendPayload(text) \/ Expire(text) \/ HandlerChecks(text)
         \/ HandlerMarks(text) \/ RespawnSender \/ RespawnReceiver
  PROVE  /\ UNCHANGED <<course, visionNode, received, taken>>
         /\ InTransit' \subseteq InTransit \union {latched}
         /\ NoText \notin InTransit'
         /\ faults' \in {faults, faults + 1}
         /\ faults' = faults /\ IsComing => IsComing'
  <1> USE TextType DEF InTransit
  <1>1. /\ pending_board1_msgs \subseteq Text /\ conns \subseteq Text
        /\ AtWork \subseteq Text /\ latched \in Text \union {NoText}
        /\ last_received_peer_board1_seq \in Nat
        /\ latched.seq \in Nat /\ last_peer_board1_seq \in Nat
        /\ \A t \in Text : t.seq \in Nat
        /\ faults \in Nat
    BY Bounds DEF IInv, TypeOK
  <1>2. ASSUME IsComing, Useful(latched)
        PROVE  \E t \in InTransit : latched.seq <= t.seq /\ Useful(t)
    <2>1. PICK t \in InTransit : latched.seq <= t.seq
      BY <1>2 DEF IsComing
    <2>2. t.seq \in Nat
      BY <1>1
    <2> QED  BY <1>1, <1>2, <2>1, <2>2 DEF Useful
  <1>3. CASE SendPayload(text)
    <2>1. InTransit' = InTransit /\ InTransit \subseteq Text
      BY <1>1, <1>3 DEF SendPayload
    <2> QED  BY <1>3, <2>1 DEF SendPayload, IsComing, Useful
  <1>4. CASE Expire(text)
    <2>1. /\ InTransit' \subseteq InTransit
          /\ \A t \in InTransit : t # text => t \in InTransit'
          /\ text \in conns \union AtWork => text \in InTransit'
      BY <1>4 DEF Expire
    <2>2. \/ faults' = faults + 1
          \/ faults' = faults /\ (Useful(text) => text \in conns \union AtWork)
      BY <1>4 DEF Expire, Fault
    <2>3. UNCHANGED <<course, visionNode, received, taken>>
      BY <1>4 DEF Expire
    <2>4. ASSUME faults' = faults, IsComing, Useful(latched)
          PROVE  \E t \in InTransit' : latched.seq <= t.seq
      <3>1. PICK t \in InTransit : latched.seq <= t.seq /\ Useful(t)
        BY <1>2, <2>4
      <3>2. t \in InTransit'
        BY <1>1, <2>1, <2>2, <2>4, <3>1
      <3> QED  BY <3>1, <3>2
    <2>5. NoText \notin InTransit'
      BY <1>1, <2>1
    <2>6. faults' = faults /\ IsComing => IsComing'
      BY <2>3, <2>4 DEF IsComing, Useful
    <2> QED  BY <2>1, <2>2, <2>3, <2>5, <2>6
  <1>5. CASE HandlerChecks(text)
    <2>1. /\ InTransit' \subseteq InTransit
          /\ \A t \in InTransit : t # text => t \in InTransit'
          /\ marked \subseteq InTransit' /\ marked \subseteq Text
          /\ ~IsOld(text) => text \in InTransit'
          /\ UNCHANGED <<course, visionNode, received, taken, faults>>
      BY <1>1, <1>5 DEF HandlerChecks
    <2>2. IsComing => IsComing'
      <3> SUFFICES ASSUME Useful(latched), IsOld(text), latched.seq <= text.seq
                   PROVE  \E t \in InTransit' : latched.seq <= t.seq
        BY <2>1 DEF IsComing, Useful
      <3>1. latched.seq <= last_peer_board1_seq
            /\ last_received_peer_board1_seq < last_peer_board1_seq
        BY <1>1 DEF IsOld, Useful
      <3>2. PICK t \in marked : last_peer_board1_seq <= t.seq
        BY <1>1, <3>1 DEF IInv, Received
      <3> QED  BY <1>1, <2>1, <3>1, <3>2
    <2> QED  BY <1>1, <2>1, <2>2
  <1>6. CASE HandlerMarks(text)
    <2>1. InTransit' = InTransit /\ InTransit \subseteq Text
      BY <1>1, <1>6 DEF HandlerMarks
    <2> QED  BY <1>6, <2>1 DEF HandlerMarks, IsComing, Useful
  <1>7. CASE RespawnSender
    <2>1. /\ InTransit' \subseteq InTransit \union {latched}
          /\ UNCHANGED <<course, visionNode, received, taken, faults>>
          /\ latched # NoText => latched \in InTransit'
          /\ NoText \notin InTransit'
      BY <1>1, <1>7 DEF RespawnSender
    <2>2. Useful(latched) => latched # NoText
      BY <1>1 DEF Useful
    <2> QED  BY <1>1, <2>1, <2>2 DEF IsComing, Useful
  <1>8. CASE RespawnReceiver
    <2>1. /\ InTransit' \subseteq InTransit /\ InTransit \subseteq Text
          /\ UNCHANGED <<course, visionNode, received, taken>>
      BY <1>1, <1>8 DEF RespawnReceiver
    <2>2. \/ faults' = faults + 1
          \/ /\ faults' = faults
             /\ \A t \in InTransit : Useful(t) => t \in InTransit'
      BY <1>8 DEF RespawnReceiver, Fault
    <2>3. ASSUME faults' = faults, IsComing, Useful(latched)
          PROVE  \E t \in InTransit' : latched.seq <= t.seq
      <3>1. PICK t \in InTransit : latched.seq <= t.seq /\ Useful(t)
        BY <1>2, <2>3
      <3>2. t \in InTransit'
        BY <1>1, <2>2, <2>3, <3>1
      <3> QED  BY <3>1, <3>2
    <2>4. NoText \notin InTransit'
      BY <1>1, <2>1
    <2>5. faults' = faults /\ IsComing => IsComing'
      BY <2>1, <2>3 DEF IsComing, Useful
    <2> QED  BY <2>1, <2>2, <2>4, <2>5
  <1> QED  BY <1>3, <1>4, <1>5, <1>6, <1>7, <1>8

\* Without a fault such a step keeps the last text under way.
LEMMA LinkKeepsLatest ==
  ASSUME IInv, UNCHANGED <<course, visionNode, received, taken>>,
         InTransit' \subseteq InTransit \union {latched},
         NoText \notin InTransit',
         faults' \in {faults, faults + 1},
         faults' = faults /\ IsComing => IsComing'
  PROVE  LatestWithoutFault'
  <1> SUFFICES ASSUME faults' = 0 PROVE Latest'
    BY DEF LatestWithoutFault
  <1>1. faults' = faults /\ faults = 0
    BY Bounds DEF IInv, TypeOK
  <1>2. Latest
    BY <1>1 DEF IInv, LatestWithoutFault
  <1>3. \A text \in InTransit' : text \in InTransit \/ text = latched
    OBVIOUS
  <1>4. \A text \in InTransit' \union {peer_board1_data'} :
            /\ text.seq <= board1_all_text_seq'
            /\ text.seq = board1_all_text_seq' => text = latched'
    BY <1>2, <1>3 DEF Latest, IInv, TypeOK
  <1>5. IsComing'
    BY <1>1, <1>2 DEF Latest
  <1> QED  BY <1>2, <1>4, <1>5 DEF Latest

\* Numbers go on to the link node of car 2 with the texts.
LEMMA LinkKeepsReceived ==
  ASSUME IInv, NEW text \in Text,
         \/ SendPayload(text) \/ Expire(text) \/ HandlerChecks(text)
         \/ HandlerMarks(text) \/ RespawnSender \/ RespawnReceiver
  PROVE  Received'
  <1>1. CASE UNCHANGED <<marked, last_peer_board1_seq, received, taken>>
    BY <1>1 DEF IInv, Received
  <1>2. CASE HandlerMarks(text)
    <2>1. /\ last_peer_board1_seq' = text.seq /\ text \in marked'
          /\ UNCHANGED <<received, taken>>
      BY <1>2 DEF HandlerMarks
    <2>2. text.seq <= text.seq
      BY TextType, Bounds
    <2> QED  BY <2>1, <2>2 DEF IInv, Received
  <1>3. CASE RespawnReceiver
    BY <1>3, Bounds DEF RespawnReceiver, IInv, TypeOK, Received
  <1> QED  BY <1>1, <1>2, <1>3
           DEF SendPayload, Expire, HandlerChecks, RespawnSender

LEMMA LinkKeeps ==
  ASSUME IInv, NEW text \in Text,
         \/ SendPayload(text) \/ Expire(text) \/ HandlerChecks(text)
         \/ HandlerMarks(text) \/ RespawnSender \/ RespawnReceiver
  PROVE  IInv'
  <1>1. UsedBefore' /\ TextComesThrough'
    BY LinkStep, TakenStays
  <1>2. TextsAreFew'
    BY LinkStep DEF IInv, TextsAreFew, RespawnSender, RespawnReceiver
  <1>3. LatestWithoutFault'
    BY LinkStep, LinkKeepsLatest
  <1>4. TypeOK'
    <2> USE Bounds, TextType DEF IInv, TypeOK, Fault
    <2>1. CASE SendPayload(text)
      BY <2>1 DEF SendPayload
    <2>2. CASE Expire(text)
      BY <2>2 DEF Expire
    <2>3. CASE HandlerChecks(text)
      BY <2>3 DEF HandlerChecks
    <2>4. CASE HandlerMarks(text)
      BY <2>4 DEF HandlerMarks
    <2>5. CASE RespawnSender
      BY <2>5 DEF RespawnSender
    <2>6. CASE RespawnReceiver
      BY <2>6 DEF RespawnReceiver
    <2> QED  BY <2>1, <2>2, <2>3, <2>4, <2>5, <2>6
  <1> QED  BY <1>1, <1>2, <1>3, <1>4, LinkKeepsReceived DEF IInv

\* When a text is published car 2 has it, or a later one.
LEMMA PublishedIsReceived ==
  ASSUME IInv, NEW text \in Text, HandlerPublishes(text)
  PROVE  /\ last_received_peer_board1_seq' \in Nat
         /\ last_received_peer_board1_seq <= last_received_peer_board1_seq'
         /\ text.seq <= last_received_peer_board1_seq'
         /\ IsComing => IsComing'
  <1>1. /\ text.seq \in Nat /\ last_received_peer_board1_seq \in Nat
        /\ latched' = latched /\ latched.seq \in Nat
        /\ \A t \in InTransit : t.seq \in Nat
    BY Bounds, TextType DEF IInv, TypeOK, InTransit, HandlerPublishes
  <1>2. /\ last_received_peer_board1_seq' \in Nat
        /\ last_received_peer_board1_seq <= last_received_peer_board1_seq'
        /\ text.seq <= last_received_peer_board1_seq'
    BY <1>1 DEF HandlerPublishes, Receive
  <1>3. \A t \in InTransit : t # text => t \in InTransit'
    BY DEF HandlerPublishes, InTransit
  <1>4. ASSUME IsComing, Useful(latched)'
        PROVE  \E t \in InTransit' : latched.seq <= t.seq
    <2>1. Useful(latched) /\ text.seq < latched.seq
      BY <1>1, <1>2, <1>4 DEF Useful
    <2> QED  BY <1>1, <1>3, <1>4, <2>1 DEF IsComing
  <1> QED  BY <1>1, <1>2, <1>4 DEF IsComing

\* Only a text with a higher number replaces what car 2 has; the latched one
\* is the highest.
LEMMA HandlerPublishesKeeps ==
  ASSUME IInv, NEW text \in Text, HandlerPublishes(text)
  PROVE  IInv'
  <1>1. /\ text \in marked /\ marked' = marked \ {text}
        /\ text.seq \in 1 .. MaxTexts
        /\ UNCHANGED <<course, visionNode, pending_board1_msgs, conns,
                       passed, last_peer_board1_seq, respawns, taken, faults>>
    BY TextType DEF HandlerPublishes
  <1>2. \/ /\ text.seq <= last_received_peer_board1_seq
           /\ UNCHANGED received
        \/ /\ text.seq > last_received_peer_board1_seq
           /\ peer_board1_data' = text
           /\ last_received_peer_board1_seq' = text.seq
    BY <1>1 DEF HandlerPublishes, Receive, IInv, TypeOK
  <1>3. UsedBefore' /\ TextComesThrough'
    BY <1>1, TakenStays
  <1>4. TypeOK'
    BY <1>1, <1>2, Bounds DEF IInv, TypeOK
  <1>5. TextsAreFew'
    BY <1>1 DEF IInv, TextsAreFew
  <1>6. Received'
    <2>1. /\ last_peer_board1_seq \in Nat
          /\ last_received_peer_board1_seq \in Nat
          /\ last_received_peer_board1_seq' \in Nat
          /\ \A t \in marked : t.seq \in Nat
          /\ last_used_peer_board1_seq \in Nat
      BY PublishedIsReceived, Bounds, TextType DEF IInv, TypeOK
    <2>2. \/ last_peer_board1_seq <= last_received_peer_board1_seq'
          \/ \E t \in marked' : last_peer_board1_seq <= t.seq
      BY <1>1, <2>1, PublishedIsReceived DEF IInv, Received
    <2>3. peer_board1_data'.seq = last_received_peer_board1_seq'
      BY <1>2 DEF IInv, Received
    <2>4. last_used_peer_board1_seq <= last_received_peer_board1_seq'
      BY <2>1, PublishedIsReceived DEF IInv, Received
    <2> QED  BY <1>1, <2>2, <2>3, <2>4 DEF Received
  <1>7. IsComing => IsComing'
    BY PublishedIsReceived
  <1>8. LatestWithoutFault'
    <2> SUFFICES ASSUME faults = 0 PROVE Latest'
      BY <1>1 DEF LatestWithoutFault
    <2>1. Latest
      BY DEF IInv, LatestWithoutFault
    <2>2. /\ InTransit' \subseteq InTransit /\ text \in InTransit
          /\ \A t \in InTransit : t # text => t \in InTransit'
      BY <1>1 DEF InTransit
    <2>3. peer_board1_data' \in InTransit \union {peer_board1_data}
      BY <1>2, <2>2
    <2>4. \A t \in InTransit' \union {peer_board1_data'} :
              /\ t.seq <= board1_all_text_seq'
              /\ t.seq = board1_all_text_seq' => t = latched'
      BY <1>1, <2>1, <2>2, <2>3 DEF Latest
    <2>5. last_received_peer_board1_seq <= last_received_peer_board1_seq'
          /\ text.seq <= last_received_peer_board1_seq'
      BY <1>1, <1>2, Bounds DEF IInv, TypeOK
    <2>6. IsComing'
      BY <1>7, <2>1 DEF Latest
    <2>7. leg \in {"peer", "away"} => peer_board1_data' = latched
      BY <1>1, <1>2, <2>1, <2>2, Bounds, TextType
      DEF Latest, IInv, TypeOK, Received
    <2> QED  BY <1>1, <2>1, <2>4, <2>6, <2>7 DEF Latest
  <1> QED  BY <1>3, <1>4, <1>5, <1>6, <1>8 DEF IInv

-----------------------------------------------------------------------------
(* The turn, and car 2.                                                    *)

\* When nothing is under way, car 2 has the latched text.
LEMMA HandTurnKeeps == IInv /\ HandTurn => IInv'
  <1> SUFFICES ASSUME IInv, HandTurn PROVE IInv'
    OBVIOUS
  <1> USE DEF HandTurn, Fault
  <1>1. UsedBefore' /\ TextComesThrough'
    BY TakenStays
  <1>2. TypeOK'
    BY Bounds DEF IInv, TypeOK
  <1>3. TextsAreFew' /\ Received'
    BY DEF IInv, TextsAreFew, Received
  <1>4. LatestWithoutFault'
    <2> SUFFICES ASSUME faults' = 0 PROVE Latest'
      BY DEF LatestWithoutFault
    <2>1. Quiet /\ faults = 0
      BY DEF IInv, TypeOK
    <2>2. Latest /\ InTransit = {}
      BY <2>1 DEF IInv, LatestWithoutFault, Quiet, InTransit
    <2>4. latched.seq <= last_received_peer_board1_seq
      BY <2>2, Bounds, TextType DEF Latest, IsComing, Useful, IInv, TypeOK
    <2>5. peer_board1_data = latched
      BY <2>2, <2>4, Bounds, TextType DEF Latest, IInv, TypeOK, Received
    <2>6. last_used_peer_board1_seq < peer_board1_data.seq
      BY <2>2, <2>5 DEF Latest
    <2> QED  BY <2>2, <2>5, <2>6 DEF Latest, InTransit, Useful, IsComing
  <1> QED  BY <1>1, <1>2, <1>3, <1>4 DEF IInv

\* Without a fault the text is of this round, so its second slot is that of
\* the board of this round.
LEMMA UsePeerBoardKeeps == IInv /\ UsePeerBoard => IInv'
  <1> SUFFICES ASSUME IInv, UsePeerBoard PROVE IInv'
    OBVIOUS
  <1> DEFINE window == Head(Remaining(board[peer_board1_data.round]))
  <1>1. /\ leg = "peer" /\ leg' = "away" /\ round \in Rounds
        /\ peer_board1_data \in Text
        /\ peer_board1_data.seq > last_used_peer_board1_seq
        /\ last_used_peer_board1_seq' = peer_board1_data.seq
        /\ used' = [used EXCEPT ![round] = peer_board1_data]
        /\ windows' = [windows EXCEPT ![round] = window]
        /\ UNCHANGED <<board, round, visionNode, link, received, faults>>
    BY DEF UsePeerBoard, IsUsable, IInv, TypeOK
  <1>2. window = board[peer_board1_data.round][2] /\ window \in 0 .. 3
    BY <1>1, BoardType, TextType DEF UsePeerBoard, IsUsable, IInv, TypeOK
  <1>3. /\ peer_board1_data.seq \in 1 .. MaxTexts
        /\ \A r \in Rounds : used[r].seq \in 0 .. MaxTexts
    BY <1>1, Bounds, TextType DEF IInv, TypeOK
  <1> HIDE DEF window
  <1>4. TypeOK'
    BY <1>1, <1>2, <1>3, Bounds DEF IInv, TypeOK
  <1>5. TextsAreFew'
    BY <1>1 DEF IInv, TextsAreFew
  <1>6. UsedBefore'
    <2>1. \A r \in Rounds : used'[r] =
              IF r = round THEN peer_board1_data ELSE used[r]
      BY <1>1 DEF IInv, TypeOK
    <2>2. \A r \in Rounds : used[r].seq < peer_board1_data.seq
      BY <1>1, <1>3, Bounds DEF IInv, TypeOK, UsedBefore
    <2>3. \A r \in Rounds : used[r] # peer_board1_data
      BY <1>3, <2>2, Bounds
    <2>4. \A r \in Rounds : used'[r].seq <= last_used_peer_board1_seq'
      BY <1>1, <1>3, <2>1, <2>2, Bounds
    <2>5. TextUsedOnce'
      BY <2>1, <2>3 DEF IInv, UsedBefore, TextUsedOnce
    <2> QED  BY <2>4, <2>5 DEF UsedBefore
  <1>7. Received'
    BY <1>1, <1>3, Bounds DEF IInv, TypeOK, Received
  <1>8. LatestWithoutFault'
    <2>1. faults = 0 => Latest'
      BY <1>1 DEF IInv, LatestWithoutFault, Latest, InTransit, Useful, IsComing
    <2> QED  BY <1>1, <2>1 DEF LatestWithoutFault
  <1>9. TextComesThrough'
    <2> SUFFICES ASSUME faults = 0, NEW r \in Rounds, windows'[r] # 4,
                        Len(board[r]) > 1
                 PROVE  windows'[r] = board[r][2]
      BY <1>1 DEF TextComesThrough
    <2>1. CASE r = round
      <3>1. peer_board1_data.round = round
        BY <1>1 DEF IInv, LatestWithoutFault, Latest, TextsAreFew
      <3> QED  BY <1>1, <1>2, <2>1, <3>1 DEF IInv, TypeOK
    <2>2. CASE r # round
      BY <1>1, <2>2 DEF IInv, TypeOK, TextComesThrough
    <2> QED  BY <2>1, <2>2
  <1> QED  BY <1>4, <1>5, <1>6, <1>7, <1>8, <1>9 DEF IInv

\* Without a fault car 2 only goes there itself if car 1 left it nothing.
LEMMA ReadBoardKeeps == IInv /\ ReadBoard => IInv'
  <1> SUFFICES ASSUME IInv, ReadBoard PROVE IInv'
    OBVIOUS
  <1> DEFINE window == Head(board[round])
  <1>1. /\ leg = "peer" /\ leg' = "away" /\ round \in Rounds
        /\ windows' = [windows EXCEPT ![round] = window]
        /\ UNCHANGED <<board, round, visionNode, link, received,
                       last_used_peer_board1_seq, used, faults>>
    BY DEF ReadBoard, IInv, TypeOK
  <1>2. window \in 0 .. 3
    BY <1>1, BoardType DEF IInv, TypeOK
  <1> HIDE DEF window
  <1>3. TypeOK'
    BY <1>1, <1>2 DEF IInv, TypeOK
  <1>4. TextsAreFew'
    BY <1>1 DEF IInv, TextsAreFew
  <1>5. UsedBefore'
    BY <1>1 DEF IInv, UsedBefore, TextUsedOnce
  <1>6. Received'
    BY <1>1 DEF IInv, Received
  <1>7. LatestWithoutFault'
    <2>1. faults = 0 => Latest'
      BY <1>1 DEF IInv, LatestWithoutFault, Latest, InTransit, Useful, IsComing
    <2> QED  BY <1>1, <2>1 DEF LatestWithoutFault
  <1>8. TextComesThrough'
    <2> SUFFICES ASSUME faults = 0, NEW r \in Rounds, windows'[r] # 4,
                        Len(board[r]) > 1
                 PROVE  windows'[r] = board[r][2]
      BY <1>1 DEF TextComesThrough
    <2>1. r # round
      <3>1. /\ peer_board1_data = latched /\ latched.round = round
            /\ last_used_peer_board1_seq < peer_board1_data.seq
        BY <1>1 DEF IInv, LatestWithoutFault, Latest, TextsAreFew
      <3>2. peer_board1_data # NoText
        BY <1>1, <3>1, TextType DEF Rounds
      <3>3. ~(Len(board[round]) > 1)
        BY <3>1, <3>2, Bounds, TextType
        DEF ReadBoard, IsUsable, IInv, TypeOK
      <3> QED  BY <3>3
    <2> QED  BY <1>1, <2>1 DEF IInv, TypeOK, TextComesThrough
  <1> QED  BY <1>3, <1>4, <1>5, <1>6, <1>7, <1>8 DEF IInv

LEMMA NextRoundKeeps == IInv /\ NextRound => IInv'
  <1> SUFFICES ASSUME IInv, NextRound PROVE IInv'
    OBVIOUS
  <1> USE DEF NextRound
  <1>1. UsedBefore' /\ TextComesThrough'
    BY TakenStays
  <1>2. TypeOK'
    BY Bounds DEF IInv, TypeOK, Rounds
  <1>3. TextsAreFew'
    BY Bounds DEF IInv, TypeOK, TextsAreFew, Rounds
  <1>4. Received'
    BY DEF IInv, Received
  <1>5. LatestWithoutFault'
    BY DEF IInv, LatestWithoutFault, Latest, InTransit, Useful, IsComing
  <1> QED  BY <1>1, <1>2, <1>3, <1>4, <1>5 DEF IInv

LEMMA NextKeeps == IInv /\ [Next]_vars => IInv'
  <1> SUFFICES ASSUME IInv, [Next]_vars PROVE IInv'
    OBVIOUS
  <1>1. CASE UNCHANGED vars
    <2> USE <1>1 DEF vars
    <2>1. TypeOK' /\ TextsAreFew' /\ Received'
      BY DEF IInv, TypeOK, TextsAreFew, Received
    <2>2. UsedBefore' /\ TextComesThrough'
      BY TakenStays
    <2>3. LatestWithoutFault'
      BY DEF IInv, LatestWithoutFault, Latest, InTransit, Useful, IsComing
    <2> QED  BY <2>1, <2>2, <2>3 DEF IInv
  <1>2. CASE Next
    <2>1. CASE RespawnSender \/ RespawnReceiver
      <3>1. [round |-> 1, seq |-> 1] \in Text
        BY TextType, Bounds DEF Rounds
      <3> QED  BY <2>1, <3>1, LinkKeeps
    <2> QED  BY <1>2, <2>1, PublishTasksKeeps, PublishTextKeeps,
             VisionDiesKeeps, LinkKeeps, HandlerPublishesKeeps,
             HandTurnKeeps, UsePeerBoardKeeps, ReadBoardKeeps, NextRoundKeeps
         DEF Next
  <1> QED  BY <1>1, <1>2

-----------------------------------------------------------------------------
(* One fault.  As long as there was none, or only the death of the vision  *)
(* node, texts are on time.  A text that was lost or late leaves car 2     *)
(* behind, at most until the next round, and the numbers stay in order.    *)

\* What car 2 may still receive.
Awaited == {text \in InTransit \union {latched} : Useful(text)}

\* What car 2 may still receive, or use, is of this round.
UpToDate ==
    /\ \A text \in Awaited : text.round = round
    /\ IsUsable(peer_board1_data) => peer_board1_data.round = round

\* When car 2 sets out nothing is under way any more, and when its round is
\* over there is nothing left to use.
OnTime ==
    /\ UpToDate /\ IsComing
    /\ leg \in {"peer", "away"} => Awaited = {}
    /\ leg = "away" => ~IsUsable(peer_board1_data)

\* The vision node has not begun to count anew.
Numbered ==
    /\ latched.seq = board1_all_text_seq
    /\ \A text \in InTransit \union {peer_board1_data} :
        /\ text.seq <= board1_all_text_seq
        /\ text.seq = board1_all_text_seq => text = latched
    /\ latched.round <= round
    /\ leg # "reading" /\ vision = "published" => latched.round = round

\* Since the next round began, its text comes through.
CaughtUp ==
    /\ latched.round = round => IsComing
    /\ leg \in {"peer", "away"} => peer_board1_data = latched

OneFault ==
    /\ faults = 0 => OnTime /\ Numbered
    /\ faults = 1 => OnTime \/ (Numbered /\ (UpToDate \/ CaughtUp))

RoundInv == OneFault /\ TextOfThisRound

LEMMA Numbers ==
  ASSUME IInv
  PROVE  /\ \A text \in InTransit :
              text \in Text /\ text.seq \in Nat /\ text.seq >= 1
         /\ latched.seq \in Nat /\ latched.round \in Nat
         /\ latched \in Text <=> latched.seq # 0
         /\ latched \notin Text => latched = NoText
         /\ board1_all_text_seq \in Nat /\ round \in Nat /\ round \in Rounds
         /\ last_received_peer_board1_seq \in Nat
         /\ last_used_peer_board1_seq \in Nat
         /\ peer_board1_data.seq = last_received_peer_board1_seq
         /\ faults \in Nat
  BY Bounds, TextType DEF IInv, TypeOK, InTransit, Received, Rounds

\* The link brings no text that was not under way or latched.
LEMMA LinkKeepsRound ==
  ASSUME IInv, OneFault, UNCHANGED <<course, visionNode, received, taken>>,
         InTransit' \subseteq InTransit \union {latched},
         NoText \notin InTransit',
         faults' \in {faults, faults + 1},
         faults' = faults /\ IsComing => IsComing'
  PROVE  OneFault'
  <1>1. Awaited' \subseteq Awaited
    BY DEF Awaited, Useful
  <1>2. UpToDate => UpToDate'
    BY <1>1 DEF UpToDate, IsUsable
  <1>3. Numbered => Numbered'
    <2> SUFFICES ASSUME Numbered PROVE Numbered'
      OBVIOUS
    <2>1. latched.seq <= board1_all_text_seq
      BY Numbers DEF Numbered
    <2>2. \A text \in InTransit' \union {peer_board1_data} :
            /\ text.seq <= board1_all_text_seq
            /\ text.seq = board1_all_text_seq => text = latched
      BY <2>1 DEF Numbered
    <2> QED  BY <2>2 DEF Numbered, course, visionNode, received
  <1>4. CASE faults' = faults + 1
    BY <1>2, <1>3, <1>4, Numbers DEF OneFault, OnTime
  <1>5. CASE faults' = faults
    <2>1. IsComing => IsComing'
      BY <1>5
    <2>2. OnTime => OnTime'
      BY <1>1, <1>2, <2>1 DEF OnTime, IsUsable
    <2>3. CaughtUp => CaughtUp'
      BY <2>1 DEF CaughtUp
    <2> QED  BY <1>2, <1>3, <1>5, <2>2, <2>3 DEF OneFault
  <1> QED  BY <1>4, <1>5

\* Car 2 receives what it awaits, or nothing new.
LEMMA ReceiveKeepsRound ==
  ASSUME IInv, OneFault, NEW text \in Text, HandlerPublishes(text)
  PROVE  OneFault'
  <1>1. /\ text \in InTransit /\ InTransit' \subseteq InTransit
        /\ \A t \in InTransit : t # text => t \in InTransit'
        /\ UNCHANGED <<course, visionNode, taken, faults>>
    BY DEF HandlerPublishes, InTransit
  <1>2. \/ ~Useful(text) /\ UNCHANGED received
        \/ /\ Useful(text) /\ peer_board1_data' = text
           /\ last_received_peer_board1_seq' = text.seq
    BY Numbers, <1>1 DEF HandlerPublishes, Receive, Useful
  <1>3. /\ last_received_peer_board1_seq' \in Nat
        /\ last_received_peer_board1_seq <= last_received_peer_board1_seq'
        /\ text.seq <= last_received_peer_board1_seq'
    BY PublishedIsReceived
  <1>4. Awaited' \subseteq Awaited
    BY <1>1, <1>3, Numbers DEF Awaited, Useful
  <1>5. IsComing => IsComing'
    BY PublishedIsReceived
  <1>6. Useful(text) => text \in Awaited
    BY <1>1 DEF Awaited
  <1>7. UpToDate => UpToDate'
    BY <1>1, <1>2, <1>4, <1>6 DEF UpToDate, IsUsable
  <1>8. OnTime => OnTime'
    BY <1>1, <1>2, <1>4, <1>5, <1>6, <1>7 DEF OnTime, IsUsable
  <1>9. Numbered => Numbered'
    BY <1>1, <1>2 DEF Numbered
  <1>10. Numbered /\ CaughtUp => CaughtUp'
    <2> SUFFICES ASSUME Numbered, CaughtUp, leg \in {"peer", "away"}
                 PROVE  peer_board1_data' = latched
      BY <1>1, <1>5 DEF CaughtUp
    <2>1. ~Useful(text)
      BY <1>1, Numbers DEF Numbered, CaughtUp, Useful
    <2> QED  BY <1>2, <2>1 DEF CaughtUp
  <1> QED  BY <1>1, <1>7, <1>8, <1>9, <1>10 DEF OneFault

\* A new text is of this round, has the highest number and is queued.
LEMMA PublishKeepsRound ==
  ASSUME IInv, OneFault, PublishText
  PROVE  OneFault'
  <1>1. /\ vision = "publishing" /\ leg \in {"reading", "driving"}
        /\ vision' = IF leg = "reading" THEN "looking" ELSE "published"
        /\ board1_all_text_seq' = board1_all_text_seq + 1
        /\ latched'.round = round /\ latched'.seq = board1_all_text_seq + 1
        /\ InTransit' \subseteq InTransit \union {latched'}
        /\ latched' \in InTransit'
        /\ UNCHANGED <<course, received, taken, faults>>
    BY Numbers DEF PublishText, Enqueue, InTransit, IInv, TextsAreFew, TypeOK
  <1>2. Awaited' \subseteq Awaited \union {latched'}
    BY <1>1 DEF Awaited, Useful
  <1>3. UpToDate => UpToDate'
    BY <1>1, <1>2 DEF UpToDate, IsUsable
  <1>4. OnTime => OnTime'
    BY <1>1, <1>3 DEF OnTime, IsComing
  <1>5. Numbered => Numbered'
    <2> SUFFICES ASSUME Numbered PROVE Numbered'
      OBVIOUS
    <2>1. \A text \in InTransit \union {peer_board1_data} :
              text.seq \in Nat /\ text.seq < board1_all_text_seq'
      BY <1>1, Numbers DEF Numbered
    <2> QED  BY <1>1, <2>1, Numbers DEF Numbered
  <1>6. CaughtUp'
    BY <1>1 DEF CaughtUp, IsComing
  <1> QED  BY <1>1, <1>3, <1>4, <1>5, <1>6 DEF OneFault

\* A vision node that begins anew has nothing latched, and what is under way
\* is of this round.
LEMMA DeathKeepsRound ==
  ASSUME IInv, OneFault, VisionDies
  PROVE  OneFault'
  <1>1. /\ latched' = NoText /\ faults' = faults + 1
        /\ UNCHANGED <<course, link, received, taken>>
    BY DEF VisionDies, Fault
  <1>2. InTransit' = InTransit /\ ~Useful(NoText)' 
    BY <1>1, TextType, Numbers DEF InTransit, Useful, IsComing
  <1>3. Awaited' \subseteq Awaited
    BY <1>1, <1>2 DEF Awaited, Useful
  <1>4. OnTime => OnTime'
    BY <1>1, <1>2, <1>3 DEF OnTime, UpToDate, IsComing, IsUsable, Useful
  <1> QED  BY <1>1, <1>4, Numbers DEF OneFault

\* If the turn is handed on in time, car 2 has the latched text.
LEMMA HandTurnKeepsRound ==
  ASSUME IInv, OneFault, HandTurn
  PROVE  OneFault'
  <1>1. /\ leg = "driving" /\ vision = "published" /\ leg' = "peer"
        /\ UNCHANGED <<board, round, visionNode, link, received, taken>>
        /\ InTransit' = InTransit
    BY DEF HandTurn, InTransit
  <1>2. UpToDate => UpToDate'
    BY <1>1 DEF UpToDate, Awaited, Useful, IsUsable
  <1>3. Numbered => Numbered'
    BY <1>1 DEF Numbered
  <1>4. CASE faults' = faults + 1
    BY <1>2, <1>3, <1>4, Numbers DEF OneFault, OnTime
  <1>5. CASE Quiet /\ faults' = faults
    <2>1. InTransit = {}
      BY <1>5 DEF Quiet, InTransit
    <2>2. IsComing => Awaited = {} /\ ~Useful(latched)
      BY <2>1 DEF IsComing, Awaited
    <2>3. OnTime => OnTime'
      BY <1>1, <1>2, <2>2 DEF OnTime, IsComing, Awaited, Useful
    <2>4. Numbered /\ CaughtUp => CaughtUp'
      <3> SUFFICES ASSUME Numbered, CaughtUp
                   PROVE  ~Useful(latched) /\ peer_board1_data = latched
        BY <1>1 DEF CaughtUp, IsComing, Useful
      <3>1. latched.round = round
        BY <1>1 DEF Numbered
      <3>2. ~Useful(latched)
        BY <2>2, <3>1 DEF CaughtUp
      <3>3. peer_board1_data.seq = board1_all_text_seq
        BY <3>2, Numbers DEF Numbered, Useful
      <3> QED  BY <3>2, <3>3 DEF Numbered
    <2> QED  BY <1>2, <1>3, <1>5, <2>3, <2>4 DEF OneFault
  <1> QED  BY <1>4, <1>5 DEF HandTurn, Fault

\* Afterwards the text car 2 has is of no use any more.
LEMMA TakingKeepsRound ==
  ASSUME IInv, RoundInv, UsePeerBoard \/ ReadBoard
  PROVE  RoundInv'
  <1>1. /\ leg = "peer" /\ leg' = "away"
        /\ UNCHANGED <<board, round, visionNode, link, received, faults>>
        /\ InTransit' = InTransit
        /\ vision = "published"
    BY DEF UsePeerBoard, ReadBoard, InTransit, IInv, TextsAreFew
  <1>2. ~IsUsable(peer_board1_data)'
    BY <1>1, Numbers DEF UsePeerBoard, ReadBoard, IsUsable
  <1>3. Awaited' = Awaited
    BY <1>1 DEF Awaited, Useful
  <1>4. UpToDate => UpToDate'
    BY <1>1, <1>2, <1>3 DEF UpToDate
  <1>5. OnTime => OnTime'
    BY <1>1, <1>2, <1>3, <1>4 DEF OnTime, IsComing, Useful
  <1>6. Numbered => Numbered'
    BY <1>1 DEF Numbered
  <1>7. CaughtUp => CaughtUp'
    BY <1>1 DEF CaughtUp, IsComing, Useful
  <1>8. OneFault'
    BY <1>1, <1>4, <1>5, <1>6, <1>7 DEF RoundInv, OneFault
  <1>9. TextOfThisRound'
    <2> SUFFICES ASSUME faults < 2, NEW r \in Rounds, used'[r] # NoText
                 PROVE  used'[r].round = r
      BY <1>1 DEF TextOfThisRound
    <2>1. CASE used'[r] = used[r]
      BY <2>1 DEF RoundInv, TextOfThisRound
    <2>2. CASE used'[r] # used[r]
      <3>1. /\ UsePeerBoard /\ r = round /\ used'[r] = peer_board1_data
            /\ IsUsable(peer_board1_data)
        BY <2>2 DEF UsePeerBoard, ReadBoard, IInv, TypeOK
      <3>2. faults \in {0, 1}
        BY Numbers
      <3>3. UpToDate \/ (Numbered /\ CaughtUp)
        BY <3>2 DEF RoundInv, OneFault, OnTime
      <3> QED  BY <1>1, <3>1, <3>3 DEF UpToDate, Numbered, CaughtUp
    <2> QED  BY <2>1, <2>2
  <1> QED  BY <1>8, <1>9 DEF RoundInv

\* In the next round, car 2 has nothing of the last one to use, or what it
\* has will be replaced.
LEMMA NextRoundKeepsRound ==
  ASSUME IInv, OneFault, NextRound
  PROVE  OneFault'
  <1>1. /\ leg = "away" /\ leg' = "reading" /\ round' = round + 1
        /\ UNCHANGED <<board, board1_all_text_seq, latched, link, received,
                       taken, faults>>
        /\ InTransit' = InTransit
    BY DEF NextRound, InTransit
  <1>2. OnTime => OnTime'
    BY <1>1 DEF OnTime, UpToDate, Awaited, IsComing, IsUsable, Useful
  <1>3. Numbered => Numbered' /\ CaughtUp'
    BY <1>1, Numbers DEF Numbered, CaughtUp
  <1> QED  BY <1>1, <1>2, <1>3 DEF OneFault

LEMMA NextKeepsRound == IInv /\ RoundInv /\ [Next]_vars => RoundInv'
  <1> SUFFICES ASSUME IInv, RoundInv, [Next]_vars PROVE RoundInv'
    OBVIOUS
  <1>1. CASE UsePeerBoard \/ ReadBoard
    BY <1>1, TakingKeepsRound
  <1>2. CASE /\ UNCHANGED used /\ OneFault'
             /\ faults' \in {faults, faults + 1}
    BY <1>2, Numbers DEF RoundInv, TextOfThisRound
  <1>3. CASE UNCHANGED vars
    <2>1. OneFault'
      BY <1>3 DEF vars, RoundInv, OneFault, OnTime, UpToDate, Awaited,
         IsComing, Numbered, CaughtUp, InTransit, Useful, IsUsable
    <2> QED  BY <1>2, <1>3, <2>1 DEF vars
  <1>4. ASSUME NEW text \in Text,
               \/ SendPayload(text) \/ Expire(text) \/ HandlerChecks(text)
               \/ HandlerMarks(text) \/ RespawnSender \/ RespawnReceiver
        PROVE  RoundInv'
    BY <1>2, <1>4, LinkStep, LinkKeepsRound DEF RoundInv
  <1>5. ASSUME NEW text \in Text, HandlerPublishes(text)
        PROVE  RoundInv'
    BY <1>2, <1>5, ReceiveKeepsRound DEF RoundInv, HandlerPublishes
  <1>6. CASE PublishTasks
    <2>1. /\ leg \in {"reading", "driving"} /\ leg' \in {"reading", "driving"}
          /\ vision' = "publishing"
          /\ UNCHANGED <<board, round, board1_all_text_seq, latched, link,
                         received, taken, faults>>
          /\ InTransit' = InTransit
      BY <1>6 DEF PublishTasks, InTransit
    <2>2. OneFault'
      BY <2>1 DEF RoundInv, OneFault, OnTime, UpToDate, Awaited,
         IsComing, Numbered, CaughtUp, Useful, IsUsable
    <2> QED  BY <1>2, <2>1, <2>2
  <1>7. CASE PublishText
    BY <1>2, <1>7, PublishKeepsRound DEF RoundInv, PublishText
  <1>8. CASE VisionDies
    BY <1>2, <1>8, DeathKeepsRound DEF RoundInv, VisionDies, Fault
  <1>9. CASE HandTurn
    BY <1>2, <1>9, HandTurnKeepsRound DEF RoundInv, HandTurn, Fault
  <1>10. CASE NextRound
    BY <1>2, <1>10, NextRoundKeepsRound DEF RoundInv, NextRound
  <1>11. [round |-> 1, seq |-> 1] \in Text
    BY TextType, Bounds DEF Rounds
  <1> QED  BY <1>1, <1>3, <1>4, <1>5, <1>6, <1>7, <1>8, <1>9, <1>10, <1>11
       DEF Next

-----------------------------------------------------------------------------
(* The theorems.                                                           *)

\* The inductive invariant: how the numbers of the four nodes are related,
\* and where the latched text is as long as there is no fault.
THEOREM BoardInvariant == Spec => []IInv
  BY InitInvariant, NextKeeps, PTL DEF Spec

\* Types; in particular a seq is never above the number of readings.
THEOREM TypeCorrect == Spec => []TypeOK
  <1>1. IInv => TypeOK
    BY DEF IInv
  <1> QED  BY <1>1, BoardInvariant, PTL

\* try_use_peer_board1_result never takes two tasks from one text, whatever
\* is lost, late, repeated or respawned, any number of times.
THEOREM UsedOnce == Spec => []TextUsedOnce
  <1>1. IInv => TextUsedOnce
    BY DEF IInv, UsedBefore
  <1> QED  BY <1>1, BoardInvariant, PTL

\* Without a fault car 2 has the second task of the board car 1 has just
\* read in every round, through any number of respawns of the link nodes.
THEOREM ComesThrough == Spec => []TextComesThrough
  <1>1. IInv => TextComesThrough
    BY DEF IInv
  <1> QED  BY <1>1, BoardInvariant, PTL

\* One fault, whatever it is and whenever it comes, and any number of
\* respawns of the link nodes never make car 2 take a task from the text of
\* an earlier round ("old or used, falls back", F1_yaofang_v5.py:832).
THEOREM OfThisRound == Spec => []TextOfThisRound
  <1>1. Init => RoundInv
    BY TextType, PeerBoardAssumption
    DEF Init, RoundInv, OneFault, OnTime, UpToDate, Awaited, IsComing,
        Numbered, InTransit, Useful, IsUsable, TextOfThisRound, Rounds
  <1>2. RoundInv => TextOfThisRound
    BY DEF RoundInv
  <1> QED  BY <1>1, <1>2, NextKeepsRound, BoardInvariant, PTL DEF Spec
=============================================================================

------------------------ MODULE Board1Select_proofs ------------------------
(***************************************************************************)
(* Proofs about Board1Select.  They replace the check of the 9^4 boards by *)
(* an argument: the loop selects the first of what is left, and emptying a *)
(* slot neither changes the order of the others nor the error window.      *)
(***************************************************************************)
EXTENDS Board1Select, FiniteSetTheorems, TLAPS

\* The slots whose tasks are in the queue.
Taken == {tasks[k][5] : k \in DOMAIN tasks}

\* The queue is in order, and what is left comes after it.
InOrder ==
    /\ \A k, l \in DOMAIN tasks :
            k < l => Precedes(tasks[k][5], tasks[l][5])
    /\ \A k \in DOMAIN tasks, j \in Selectable(remaining) :
            Precedes(tasks[k][5], j)

IInv ==
    /\ all_text \in [Slots -> Texts]
    /\ complete \in BOOLEAN
    /\ tasks \in Seq({TaskOf(i) : i \in Selectable(all_text)})
    /\ remaining = [i \in Slots |-> IF i \in Taken THEN {} ELSE all_text[i]]
    /\ InOrder
    /\ complete => Selectable(remaining) = {}

-----------------------------------------------------------------------------
(* Texts and boards.                                                       *)

\* A text counts as many samples as it has flags, 0 to 3.
LEMMA TextScore ==
  ASSUME NEW text \in Texts
  PROVE  /\ Score(text) \in 0 .. 3
         /\ text = {} \/ text = Unknown => Score(text) = 0
         /\ Score(text) > 0 =>
                /\ text # Unknown
                /\ Score(text) = Cardinality(text)
                /\ Cardinality(text) =
                        (IF "C" \in text THEN 1 ELSE 0)
                        + (IF "A" \in text THEN 1 ELSE 0)
                        + (IF "B" \in text THEN 1 ELSE 0)
  <1>1. CASE text = Unknown
    <2>1. ~(text \subseteq Windows)
      BY <1>1 DEF Unknown, Windows
    <2> QED  BY <1>1, <2>1 DEF Score
  <1>2. CASE text \subseteq Windows
    <2>1. text # Unknown
      BY <1>2 DEF Unknown, Windows
    <2> DEFINE C == text \intersect {"C"}
               CA == C \union (text \intersect {"A"})
               n(w) == IF w \in text THEN 1 ELSE 0
    <2>2. IsFiniteSet(C) /\ Cardinality(C) = n("C")
      <3>1. C = {} \/ C = {"C"}
        OBVIOUS
      <3>2. "C" \in text => C = {"C"}
        OBVIOUS
      <3>3. "C" \notin text => C = {}
        OBVIOUS
      <3> QED  BY <3>2, <3>3, FS_EmptySet, FS_Singleton
    <2>3. IsFiniteSet(CA) /\ Cardinality(CA) = n("C") + n("A")
      <3>1. CASE "A" \in text
        <4>1. CA = C \union {"A"} /\ "A" \notin C
          BY <3>1
        <4> HIDE DEF C, CA
        <4> QED  BY <2>2, <3>1, <4>1, FS_AddElement
      <3>2. CASE "A" \notin text
        <4>1. CA = C
          BY <3>2
        <4> QED  BY <2>2, <3>2, <4>1
      <3> QED  BY <3>1, <3>2
    <2>4. IsFiniteSet(text) /\ Cardinality(text) = n("C") + n("A") + n("B")
      <3>1. CASE "B" \in text
        <4>1. text = CA \union {"B"} /\ "B" \notin CA
          BY <1>2, <3>1 DEF Windows
        <4> HIDE DEF CA
        <4> QED  BY <2>3, <3>1, <4>1, FS_AddElement
      <3>2. CASE "B" \notin text
        <4>1. text = CA
          BY <1>2, <3>2 DEF Windows
        <4> HIDE DEF CA
        <4> QED  BY <2>3, <3>2, <4>1
      <3> QED  BY <3>1, <3>2
    <2>5. Score(text) = n("C") + n("A") + n("B")
      BY <1>2, <2>4 DEF Score
    <2> QED  BY <1>2, <2>1, <2>4, <2>5
  <1> QED  BY <1>1, <1>2 DEF Texts

\* Slot i has the most samples of the slots in S, the first such slot.
IsFirst(board, i, S) ==
    /\ i \in S
    /\ \A j \in S :
        \/ Score(board[j]) < Score(board[i])
        \/ Score(board[j]) = Score(board[i]) /\ i <= j

\* One slot more: it is the first, or the one before is.
LEMMA OneSlotMore ==
  ASSUME NEW board \in [Slots -> Texts], NEW S \in SUBSET Slots,
         NEW i, IsFirst(board, i, S), NEW n \in Slots, \A j \in S : j < n
  PROVE  \E k : IsFirst(board, k, S \union {n})
  <1>1. \A j \in Slots : j \in Int /\ Score(board[j]) \in Int
    BY TextScore DEF Slots
  <1>2. CASE Score(board[n]) > Score(board[i])
    <2>1. IsFirst(board, n, S \union {n})
      BY <1>1, <1>2 DEF IsFirst
    <2> QED  BY <2>1
  <1>3. CASE ~(Score(board[n]) > Score(board[i]))
    <2>1. IsFirst(board, i, S \union {n})
      BY <1>1, <1>3 DEF IsFirst
    <2> QED  BY <2>1
  <1> QED  BY <1>2, <1>3

\* Of the slots with a valid text one is the first with the most samples.
LEMMA FirstOfBoard ==
  ASSUME NEW board \in [Slots -> Texts], Selectable(board) # {}
  PROVE  \E i : IsFirst(board, i, Selectable(board))
  <1>1. \E i : IsFirst(board, i, {0})
    <2>1. IsFirst(board, 0, {0})
      BY TextScore DEF IsFirst, Slots
    <2> QED  BY <2>1
  <1>2. \E i : IsFirst(board, i, {0, 1})
    <2>1. PICK i : IsFirst(board, i, {0})
      BY <1>1
    <2>2. {0} \union {1} = {0, 1} /\ {0} \in SUBSET Slots /\ 1 \in Slots
          /\ \A j \in {0} : j < 1
      BY DEF Slots
    <2> QED  BY <2>1, <2>2, OneSlotMore
  <1>3. \E i : IsFirst(board, i, {0, 1, 2})
    <2>1. PICK i : IsFirst(board, i, {0, 1})
      BY <1>2
    <2>2. {0, 1} \union {2} = {0, 1, 2} /\ {0, 1} \in SUBSET Slots
          /\ 2 \in Slots /\ \A j \in {0, 1} : j < 2
      BY DEF Slots
    <2> QED  BY <2>1, <2>2, OneSlotMore
  <1>4. \E i : IsFirst(board, i, Slots)
    <2>1. PICK i : IsFirst(board, i, {0, 1, 2})
      BY <1>3
    <2>2. {0, 1, 2} \union {3} = Slots /\ {0, 1, 2} \in SUBSET Slots
          /\ 3 \in Slots /\ \A j \in {0, 1, 2} : j < 3
      BY DEF Slots
    <2> QED  BY <2>1, <2>2, OneSlotMore
  <1>5. PICK i : IsFirst(board, i, Slots)
    BY <1>4
  <1>6. \A j \in Slots : Score(board[j]) \in Int
    BY TextScore
  <1>7. IsFirst(board, i, Selectable(board))
    BY <1>5, <1>6 DEF IsFirst, Selectable
  <1> QED  BY <1>7

\* select_board1_from_all_text selects it, and there is one such slot.
LEMMA Selected ==
  ASSUME NEW board \in [Slots -> Texts], Selectable(board) # {}
  PROVE  /\ IsFirst(board, SelectedIndex(board), Selectable(board))
         /\ \A i : IsFirst(board, i, Selectable(board))
                    => i = SelectedIndex(board)
  <1>1. \E i \in Selectable(board) : \A j \in Selectable(board) :
            \/ Score(board[j]) < Score(board[i])
            \/ Score(board[j]) = Score(board[i]) /\ i <= j
    BY FirstOfBoard DEF IsFirst
  <1>2. IsFirst(board, SelectedIndex(board), Selectable(board))
    BY <1>1, Zenon DEF SelectedIndex, IsFirst
  <1>3. \A j \in Selectable(board) : j \in Int /\ Score(board[j]) \in Int
    BY TextScore DEF Selectable, Slots
  <1> QED  BY <1>2, <1>3 DEF IsFirst

\* Emptying slots with a valid text leaves the error window as it is.
LEMMA SameError ==
  ASSUME NEW board \in [Slots -> Texts], NEW S \in SUBSET Selectable(board)
  PROVE  ErrorWindow([i \in Slots |-> IF i \in S THEN {} ELSE board[i]])
            = ErrorWindow(board)
  <1> DEFINE left == [i \in Slots |-> IF i \in S THEN {} ELSE board[i]]
  <1>1. {i \in Slots : left[i] = Unknown} = {i \in Slots : board[i] = Unknown}
    <2>1. {} # Unknown
      BY DEF Unknown
    <2>2. \A i \in S : board[i] # Unknown
      BY TextScore DEF Selectable
    <2> QED  BY <2>1, <2>2
  <1> DEFINE wrong(b) == {i \in Slots : b[i] = Unknown}
             Window(W) == IF W = {} THEN 0
                          ELSE 1 + (CHOOSE i \in W : \A j \in W : i <= j)
  <1> HIDE DEF left
  <1>2. ErrorWindow(left) = Window(wrong(left))
    BY DEF ErrorWindow
  <1>3. ErrorWindow(board) = Window(wrong(board))
    BY DEF ErrorWindow
  <1>4. wrong(left) = wrong(board)
    BY <1>1
  <1> HIDE DEF wrong, Window
  <1>5. ErrorWindow(left) = ErrorWindow(board)
    BY <1>2, <1>3, <1>4
  <1> QED  BY <1>5 DEF left

-----------------------------------------------------------------------------
(* The loop.                                                               *)

\* A task says which slot it is from.
LEMMA SlotOfTask ==
  ASSUME NEW i
  PROVE  TaskOf(i)[5] = i
  BY DEF TaskOf, Message

\* What every task of the queue is, and what is left to select.
LEMMA QueueAndRest ==
  ASSUME IInv
  PROVE  /\ Len(tasks) \in Nat /\ DOMAIN tasks = 1 .. Len(tasks)
         /\ \A k \in DOMAIN tasks :
                /\ tasks[k][5] \in Selectable(all_text)
                /\ tasks[k] = TaskOf(tasks[k][5])
         /\ Taken \in SUBSET Selectable(all_text)
         /\ remaining \in [Slots -> Texts]
         /\ Selectable(remaining) = Selectable(all_text) \ Taken
         /\ ErrorWindow(remaining) = ErrorWindow(all_text)
  <1>1. Len(tasks) \in Nat /\ DOMAIN tasks = 1 .. Len(tasks)
    BY DEF IInv
  <1>2. ASSUME NEW k \in DOMAIN tasks
        PROVE  /\ tasks[k][5] \in Selectable(all_text)
               /\ tasks[k] = TaskOf(tasks[k][5])
    <2>1. tasks[k] \in {TaskOf(i) : i \in Selectable(all_text)}
      BY <1>1 DEF IInv
    <2> QED  BY <2>1, SlotOfTask
  <1>3. Taken \in SUBSET Selectable(all_text)
    BY <1>2 DEF Taken
  <1>4. {} \in Texts
    BY DEF Texts
  <1>5. remaining \in [Slots -> Texts]
    BY <1>4 DEF IInv
  <1>6. Selectable(remaining) = Selectable(all_text) \ Taken
    BY <1>4, TextScore DEF IInv, Selectable
  <1>7. ErrorWindow(remaining) = ErrorWindow(all_text)
    BY <1>3, SameError DEF IInv
  <1> QED  BY <1>1, <1>2, <1>3, <1>5, <1>6, <1>7

\* Slots and scores are numbers, whatever is selectable.
LEMMA Numbers ==
  ASSUME NEW board \in [Slots -> Texts], NEW j \in Selectable(board)
  PROVE  /\ j \in Slots /\ j \in Int /\ board[j] \in Texts
         /\ Score(board[j]) \in Int /\ Score(board[j]) > 0
  BY TextScore DEF Selectable, Slots

LEMMA InitKeeps == Init => IInv
  <1> SUFFICES ASSUME Init PROVE IInv
    OBVIOUS
  <1>1. tasks \in Seq({TaskOf(i) : i \in Selectable(all_text)})
        /\ DOMAIN tasks = {}
    BY DEF Init
  <1>2. Taken = {}
    BY <1>1 DEF Taken
  <1>3. remaining = [i \in Slots |-> IF i \in Taken THEN {} ELSE all_text[i]]
    BY <1>2 DEF Init
  <1>4. InOrder
    BY <1>1 DEF InOrder
  <1> QED  BY <1>1, <1>3, <1>4 DEF Init, IInv

\* The task appended is the first of what is left, so it comes after what
\* is in the queue and before the rest.
LEMMA SelectNextKeeps ==
  ASSUME IInv, SelectNext
  PROVE  IInv'
  <1> DEFINE i == SelectedIndex(remaining)
             new == TaskOf(i)
             n == Len(tasks)
  <1>1. /\ i \in Selectable(remaining)
        /\ \A j \in Selectable(remaining) \ {i} : Precedes(i, j)
    <2>1. IsFirst(remaining, i, Selectable(remaining))
      BY Selected, QueueAndRest DEF SelectNext
    <2>2. \A j \in Selectable(remaining) :
             j \in Int /\ Score(all_text[j]) \in Int
                /\ remaining[j] = all_text[j]
      <3> SUFFICES ASSUME NEW j \in Selectable(remaining)
                   PROVE  j \in Int /\ Score(all_text[j]) \in Int
                          /\ remaining[j] = all_text[j]
        OBVIOUS
      <3>1. j \in Selectable(all_text) /\ j \notin Taken
        BY QueueAndRest
      <3>2. j \in Slots /\ j \in Int /\ Score(all_text[j]) \in Int
        BY <3>1, Numbers DEF IInv
      <3> QED  BY <3>1, <3>2 DEF IInv
    <2> HIDE DEF i
    <2> QED  BY <2>1, <2>2 DEF IsFirst, Precedes
  <1>2. i \in Selectable(all_text) /\ i \notin Taken
    BY <1>1, QueueAndRest
  <1>3. Selection(remaining) = new
    BY <1>2, QueueAndRest DEF Selection, TaskOf, IInv, Selectable
  <1>4. /\ tasks' = Append(tasks, new)
        /\ remaining' = [remaining EXCEPT ![i] = {}]
        /\ all_text' = all_text /\ complete' = complete
    BY <1>3 DEF SelectNext, Clear
  <1>5. new[5] = i
    BY SlotOfTask
  <1> HIDE DEF i, new
  <1>6. /\ n \in Nat /\ DOMAIN tasks = 1 .. n
        /\ Len(tasks') = n + 1 /\ DOMAIN tasks' = 1 .. n + 1
        /\ \A k \in 1 .. n : tasks'[k] = tasks[k]
        /\ tasks'[n + 1] = new
    BY <1>4, QueueAndRest DEF IInv
  <1>7. Taken' = Taken \union {i}
    BY <1>5, <1>6 DEF Taken
  <1>8. (tasks \in Seq({TaskOf(j) : j \in Selectable(all_text)}))'
    <2>1. tasks' \in Seq({TaskOf(j) : j \in Selectable(all_text)})
      BY <1>2, <1>4 DEF IInv, new
    <2> QED  BY <1>4, <2>1 DEF TaskOf
  <1>9. remaining' = [j \in Slots |-> IF j \in Taken' THEN {} ELSE all_text'[j]]
    BY <1>4, <1>7, <1>2 DEF IInv, Selectable
  <1>10. Selectable(remaining)' = Selectable(remaining) \ {i}
    BY <1>4, <1>7, <1>2, QueueAndRest, TextScore DEF Selectable, Texts
  <1>12. \A k, l \in DOMAIN tasks' :
            k < l => Precedes(tasks'[k][5], tasks'[l][5])
    <2> SUFFICES ASSUME NEW k \in 1 .. n + 1, NEW l \in 1 .. n + 1, k < l
                 PROVE  Precedes(tasks'[k][5], tasks'[l][5])
      BY <1>6
    <2>1. CASE l \in 1 .. n
      BY <1>6, <2>1 DEF IInv, InOrder
    <2>2. CASE l = n + 1
      BY <1>1, <1>5, <1>6, <2>2 DEF IInv, InOrder
    <2> QED  BY <1>6, <2>1, <2>2
  <1>13. \A k \in DOMAIN tasks', j \in Selectable(remaining)' :
            Precedes(tasks'[k][5], j)
    <2> SUFFICES ASSUME NEW k \in 1 .. n + 1,
                        NEW j \in Selectable(remaining) \ {i}
                 PROVE  Precedes(tasks'[k][5], j)
      BY <1>6, <1>10
    <2>1. CASE k \in 1 .. n
      BY <1>6, <2>1 DEF IInv, InOrder
    <2>2. CASE k = n + 1
      BY <1>1, <1>5, <1>6, <2>2
    <2> QED  BY <1>6, <2>1, <2>2
  <1>14. complete' => Selectable(remaining)' = {}
    BY <1>4, <1>10 DEF IInv
  <1>15. InOrder'
    <2>1. all_text' = all_text
      BY <1>4
    <2> QED  BY <2>1, <1>12, <1>13 DEF InOrder, Precedes
  <1>16. all_text' \in [Slots -> Texts] /\ complete' \in BOOLEAN
    BY <1>4 DEF IInv
  <1> QED  BY <1>8, <1>9, <1>14, <1>15, <1>16 DEF IInv

LEMMA NextKeeps == IInv /\ [Next]_vars => IInv'
  <1> SUFFICES ASSUME IInv, [Next]_vars PROVE IInv'
    OBVIOUS
  <1>1. CASE SelectNext
    BY <1>1, SelectNextKeeps
  <1>2. CASE Finish \/ UNCHANGED vars
    <2>1. UNCHANGED <<all_text, remaining, tasks>>
      BY <1>2 DEF Finish, vars
    <2>2. /\ complete' \in BOOLEAN
          /\ complete' => Selectable(remaining) = {}
      <3>1. CASE Finish
        BY <3>1 DEF Finish
      <3>2. CASE UNCHANGED vars
        BY <3>2 DEF vars, IInv
      <3> QED  BY <1>2, <3>1, <3>2
    <2>3. Taken' = Taken
      BY <2>1 DEF Taken
    <2> QED  BY <2>1, <2>2, <2>3 DEF IInv, InOrder, TaskOf, Precedes
  <1> QED  BY <1>1, <1>2 DEF Next

-----------------------------------------------------------------------------
(* The theorems.                                                           *)

\* The inductive invariant: the queue is the first tasks of the board in
\* order, and what is left is the board without their slots.
THEOREM SelectInvariant == Spec => []IInv
  BY InitKeeps, NextKeeps, PTL DEF Spec

\* build_board1_task_queue gives every valid slot once, most samples first.
THEOREM WholeBoard == Spec => []QueueIsTheBoard
  <1>1. IInv => QueueIsTheBoard
    <2> SUFFICES ASSUME IInv, complete PROVE QueueIsTheBoard
      BY DEF QueueIsTheBoard
    <2>1. Taken = Selectable(all_text)
      BY QueueAndRest DEF IInv
    <2>2. {tasks[k] : k \in DOMAIN tasks} = {TaskOf(i) : i \in Taken}
      BY QueueAndRest DEF Taken
    <2> QED  BY <2>1, <2>2 DEF IInv, InOrder, QueueIsTheBoard
  <1> QED  BY <1>1, SelectInvariant, PTL

\* detect_board1_result accepts what build_board1_task_queue makes.
THEOREM Accepted == Spec => []QueueIsAccepted
  <1>1. IInv => QueueIsAccepted
    <2> SUFFICES ASSUME IInv, tasks # <<>> PROVE AcceptedBy(tasks)
      BY DEF QueueIsAccepted
    <2>1. \A k \in DOMAIN tasks : tasks[k][5] \in 0 .. 3
      BY QueueAndRest DEF Selectable, Slots
    <2>2. \A k, l \in DOMAIN tasks : k < l => tasks[k][5] # tasks[l][5]
      <3>1. \A k, l \in DOMAIN tasks : k < l =>
                Precedes(tasks[k][5], tasks[l][5])
        BY DEF IInv, InOrder
      <3>2. \A k \in DOMAIN tasks : Score(all_text[tasks[k][5]]) \in Int
        BY QueueAndRest, Numbers DEF IInv
      <3> QED  BY <2>1, <3>1, <3>2 DEF Precedes
    <2>3. Len(tasks) \in 1 .. 4
      <3>1. Len(tasks) # 0
        BY DEF IInv
      <3>2. ~(Len(tasks) >= 5)
        <4> SUFFICES ASSUME Len(tasks) >= 5 PROVE FALSE
          OBVIOUS
        <4>1. {1, 2, 3, 4, 5} \subseteq DOMAIN tasks
          BY QueueAndRest
        <4> DEFINE s(k) == tasks[k][5]
        <4>2. /\ s(1) \in 0 .. 3 /\ s(2) \in 0 .. 3 /\ s(3) \in 0 .. 3
              /\ s(4) \in 0 .. 3 /\ s(5) \in 0 .. 3
          BY <2>1, <4>1
        <4>3. /\ s(1) # s(2) /\ s(1) # s(3) /\ s(1) # s(4) /\ s(1) # s(5)
              /\ s(2) # s(3) /\ s(2) # s(4) /\ s(2) # s(5)
              /\ s(3) # s(4) /\ s(3) # s(5) /\ s(4) # s(5)
          BY <2>2, <4>1
        <4> HIDE DEF s
        <4> QED  BY <4>2, <4>3
      <3> QED  BY <3>1, <3>2, QueueAndRest
    <2>4. ASSUME NEW k \in DOMAIN tasks
          PROVE  /\ {tasks[k][1], tasks[k][2], tasks[k][3]} \subseteq {0, 1}
                 /\ tasks[k][4] \in 1 .. 3
                 /\ tasks[k][1] + tasks[k][2] + tasks[k][3] = tasks[k][4]
      <3> DEFINE i == tasks[k][5]
      <3>1. i \in Slots /\ all_text[i] \in Texts /\ Score(all_text[i]) > 0
            /\ tasks[k] = TaskOf(i)
        BY QueueAndRest DEF Selectable, IInv
      <3> HIDE DEF i
      <3> QED  BY <3>1, TextScore DEF TaskOf, Message
    <2> QED  BY <2>1, <2>2, <2>3, <2>4, QueueAndRest DEF AcceptedBy
  <1> QED  BY <1>1, SelectInvariant, PTL

\* Car 2 takes the second task of the queue car 1 took the first of, and
\* none if there is no second one.
THEOREM NextTaskForPeer == Spec => []PeerTakesNextTask
  <1>1. IInv => PeerTakesNextTask
    <2> SUFFICES ASSUME IInv, complete, tasks # <<>> PROVE PeerTakesNextTask
      BY DEF PeerTakesNextTask
    <2> DEFINE i == tasks[1][5]
               text == PeerText(all_text, i)
    <2>1. /\ Taken = Selectable(all_text)
          /\ Len(tasks) \in Nat /\ Len(tasks) # 0
          /\ DOMAIN tasks = 1 .. Len(tasks) /\ 1 \in DOMAIN tasks
      <3>1. Len(tasks) \in Nat /\ Len(tasks) # 0
        BY DEF IInv
      <3>2. Taken = Selectable(all_text)
        BY QueueAndRest DEF IInv
      <3> QED  BY <3>1, <3>2, QueueAndRest
    <2>2. i \in Selectable(all_text) /\ i \in Slots
      BY <2>1, QueueAndRest DEF Selectable
    <2>3. text = [j \in Slots |-> IF j \in {i} THEN {} ELSE all_text[j]]
      BY <2>2 DEF PeerText, IInv
    <2>4. text \in [Slots -> Texts]
      BY <2>3 DEF IInv, Texts
    <2>5. ErrorWindow(text) = ErrorWindow(all_text)
      <3>1. all_text \in [Slots -> Texts]
            /\ {i} \in SUBSET Selectable(all_text)
        BY <2>2 DEF IInv
      <3> HIDE DEF i, text
      <3> QED  BY <2>3, <3>1, SameError
    <2> HIDE DEF i, text
    <2>6. Selectable(text) = Selectable(all_text) \ {i}
      BY <2>3, TextScore DEF Selectable, Texts
    <2>7. CASE Len(tasks) = 1
      <3>1. Selectable(text) = {}
        BY <2>1, <2>6, <2>7 DEF Taken, i
      <3> QED  BY <2>7, <3>1 DEF PeerTakesNextTask, i, text
    <2>8. CASE Len(tasks) # 1
      <3> DEFINE j == tasks[2][5]
      <3>1. 2 \in DOMAIN tasks /\ Precedes(i, j)
            /\ j \in Selectable(all_text) /\ tasks[2] = TaskOf(j)
        BY <2>1, <2>8, QueueAndRest DEF IInv, InOrder, i
      <3>2. \A l \in Selectable(all_text) :
               l \in Int /\ Score(all_text[l]) \in Int
        BY Numbers DEF IInv
      <3>3. j \in Selectable(text)
        <4>1. i # j
          BY <2>2, <3>1, <3>2 DEF Precedes
        <4> QED  BY <2>6, <3>1, <4>1
      <3>4. \A l \in Selectable(text) : l = j \/ Precedes(j, l)
        <4> SUFFICES ASSUME NEW l \in Selectable(text) PROVE l = j \/ Precedes(j, l)
          OBVIOUS
        <4>1. PICK k \in DOMAIN tasks : l = tasks[k][5]
          BY <2>1, <2>6 DEF Taken
        <4>2. k # 1
          BY <2>6, <4>1 DEF i
        <4>3. k = 2 \/ 2 < k
          BY <2>1, <4>2
        <4> QED  BY <3>1, <4>1, <4>3 DEF IInv, InOrder
      <3>5. IsFirst(text, j, Selectable(text))
        <4>1. \A l \in Selectable(text) : text[l] = all_text[l]
          BY <2>3, <2>6 DEF Selectable
        <4> HIDE DEF j
        <4> QED  BY <2>6, <3>2, <3>3, <3>4, <4>1 DEF IsFirst, Precedes
      <3>6. SelectedIndex(text) = j
        BY <2>4, <3>3, <3>5, Selected
      <3>7. text[j] = all_text[j]
        BY <2>3, <2>6, <3>3 DEF Selectable
      <3>8. Selection(text) = tasks[2]
        BY <2>5, <3>1, <3>6, <3>7 DEF Selection, TaskOf
      <3> QED  BY <2>8, <3>3, <3>8 DEF PeerTakesNextTask, i, text
    <2> QED  BY <2>7, <2>8
  <1> QED  BY <1>1, SelectInvariant, PTL
=============================================================================

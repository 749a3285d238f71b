---------------------------- MODULE Board1Select ----------------------------
(***************************************************************************)
(* Which tasks the first board gives, and in which order: the loop of      *)
(* build_board1_task_queue over select_board1_from_all_text, the check     *)
(* that detect_board1_result makes of the message, and the task the other  *)
(* car takes from the same board (try_use_peer_board1_result...).          *)
(*                                                                         *)
(* The board has four slots, 0 to 3, each the laboratory window its task   *)
(* goes to.  The text of a slot is the set of its letters: A, B, C, AB,    *)
(* AC, BC and ABC are the valid texts, {} is an empty slot, and Unknown    *)
(* stands for every other text ("BA", "D", an unreadable code).            *)
(***************************************************************************)
EXTENDS Integers, FiniteSets, Sequences

Slots == 0 .. 3
Windows == {"A", "B", "C"}
Unknown == {"unknown"}
Texts == (SUBSET Windows) \union {Unknown}

VARIABLES
    all_text,      \* what the board shows, slot -> text
    remaining,     \* the slots not selected yet
    tasks,         \* the queue so far
    complete       \* nothing is left to select

vars == <<all_text, remaining, tasks, complete>>

-----------------------------------------------------------------------------
(* select_board1_from_all_text.                                            *)

\* Mutant: a text that is not in the table counts.
ScoreUnknownOne(text) == IF text \subseteq Windows THEN Cardinality(text) ELSE 1

\* VALID_COMBO_COUNT.get(text, 0)
Score(text) == IF text \subseteq Windows THEN Cardinality(text) ELSE 0

Selectable(board) == {i \in Slots : Score(board[i]) > 0}

\* Mutant: of two slots with as many samples the last one is selected.
SelectedIndexLast(board) ==
    CHOOSE i \in Selectable(board) : \A j \in Selectable(board) :
        \/ Score(board[j]) < Score(board[i])
        \/ Score(board[j]) = Score(board[i]) /\ j <= i

\* scores.index(max(scores)): most samples, the first such slot.
SelectedIndex(board) ==
    CHOOSE i \in Selectable(board) : \A j \in Selectable(board) :
        \/ Score(board[j]) < Score(board[i])
        \/ Score(board[j]) = Score(board[i]) /\ i <= j

\* detect_error_window: the first slot with an unknown text, counted from 1.
ErrorWindow(board) ==
    LET wrong == {i \in Slots : board[i] = Unknown}
    IN  IF wrong = {} THEN 0
        ELSE 1 + (CHOOSE i \in wrong : \A j \in wrong : i <= j)

\* build_msg_from_selected_text: flags in the order C, A, B, number of
\* samples, slot, error.
Message(text, i, error) ==
    LET Flag(w) == IF w \in text THEN 1 ELSE 0
    IN  <<Flag("C"), Flag("A"), Flag("B"), Cardinality(text), i, error>>

Selection(board) ==
    LET i == SelectedIndex(board)
    IN  Message(board[i], i, ErrorWindow(board))

-----------------------------------------------------------------------------
(* build_board1_task_queue.                                                *)

\* The selected slot is emptied and stays, so that no slot is renumbered.
Clear(board, i) == [board EXCEPT ![i] = {}]

Init ==
    /\ all_text \in [Slots -> Texts]
    /\ remaining = all_text
    /\ tasks = <<>>
    /\ complete = FALSE

SelectNext ==
    /\ Selectable(remaining) # {}
    /\ tasks' = Append(tasks, Selection(remaining))
    /\ remaining' = Clear(remaining, SelectedIndex(remaining))
    /\ UNCHANGED <<all_text, complete>>

Finish ==
    /\ ~complete
    /\ Selectable(remaining) = {}
    /\ complete' = TRUE
    /\ UNCHANGED <<all_text, remaining, tasks>>

Next == SelectNext \/ Finish

Spec == Init /\ [][Next]_vars

-----------------------------------------------------------------------------
(* What the two navigation nodes do with the board.                        *)

\* The checks of detect_board1_result on the tasks of a message.
AcceptedBy(queue) ==
    /\ Len(queue) \in 1 .. 4
    /\ \A k \in DOMAIN queue :
        LET task == queue[k]
        IN  /\ {task[1], task[2], task[3]} \subseteq {0, 1}
            /\ task[4] \in 1 .. 3
            /\ task[1] + task[2] + task[3] = task[4]
            /\ task[5] \in 0 .. 3
            /\ \A l \in 1 .. k - 1 : queue[l][5] # task[5]

\* Mutant: the slot the other car has taken is not emptied.
PeerTextUntouched(board, selected_index) == board

\* remaining_all_text of try_use_peer_board1_result_before_board1_navigation;
\* car 2 then selects from it as from a board of its own.
PeerText(board, selected_index) == [board EXCEPT ![selected_index] = {}]

-----------------------------------------------------------------------------
(* Properties.                                                             *)

\* Whatever the board shows, the navigation node does not reject the queue
\* it is sent: a queue that is not accepted leaves the car at the board.
QueueIsAccepted == complete /\ tasks # <<>> => AcceptedBy(tasks)

\* Slot i comes before slot j: more samples, or as many and an earlier slot.
Precedes(i, j) ==
    \/ Score(all_text[i]) > Score(all_text[j])
    \/ Score(all_text[i]) = Score(all_text[j]) /\ i < j

TaskOf(i) == Message(all_text[i], i, ErrorWindow(all_text))

\* The queue has every valid slot once, in that order, with the samples of
\* the slot, and tells of a wrong text on the board with every task alike.
QueueIsTheBoard ==
    complete =>
        /\ {tasks[k] : k \in DOMAIN tasks}
               = {TaskOf(i) : i \in Selectable(all_text)}
        /\ \A k, l \in DOMAIN tasks :
               k < l => Precedes(tasks[k][5], tasks[l][5])

\* Two cars share a board: car 2 takes the second task of the queue car 1
\* took the first of, and reads the board itself if there is none.
PeerTakesNextTask ==
    complete /\ tasks # <<>> =>
        LET text == PeerText(all_text, tasks[1][5])
        IN  IF Len(tasks) = 1 THEN Selectable(text) = {}
            ELSE Selectable(text) # {} /\ Selection(text) = tasks[2]
=============================================================================

------------------------------- MODULE Courier -------------------------------
(***************************************************************************)
(* What a single car promises, without its nodes, topics and drives: it    *)
(* delivers the tasks of the first board in order, two of a reading at the *)
(* most, each with all its samples and after it has been decided whether   *)
(* the laboratory is free.  The board is read again only when nothing is   *)
(* left of the last reading.                                               *)
(***************************************************************************)
EXTENDS Naturals, Sequences

CONSTANT Queues      \* what a reading can give, sequences of tasks

VARIABLES
    tasks,       \* of the last reading, those not delivered yet
    delivered,   \* how many were
    load,        \* windows visited for the first of them
    verdict      \* is the laboratory free for it?

vars == <<tasks, delivered, load, verdict>>

Init ==
    /\ tasks = <<>> /\ delivered = 0
    /\ load = {} /\ verdict = "none"

Read ==
    /\ tasks = <<>>
    /\ tasks' \in Queues
    /\ delivered' = 0
    /\ UNCHANGED <<load, verdict>>

Fetch ==
    /\ tasks # <<>>
    /\ \E window \in Head(tasks).windows \ load :
            load' = load \union {window}
    /\ UNCHANGED <<tasks, delivered, verdict>>

Loaded == tasks # <<>> /\ load = Head(tasks).windows

Decide ==
    /\ Loaded
    /\ verdict = "none"
    /\ verdict' \in {"free", "busy"}
    /\ UNCHANGED <<tasks, delivered, load>>

Deliver ==
    /\ Loaded
    /\ verdict # "none"
    /\ delivered' = delivered + 1
    /\ tasks' = IF delivered' = 2 THEN <<>> ELSE Tail(tasks)
    /\ load' = {} /\ verdict' = "none"

Next == Read \/ Fetch \/ Decide \/ Deliver

Spec == Init /\ [][Next]_vars
=============================================================================

------------------------------ MODULE Turnstile ------------------------------
(***************************************************************************)
(* What the dual-car turn protocol promises, with no cars, threads or      *)
(* messages in it: the stretch of the course from board one to the lab     *)
(* window (states 9 to 14 of the navigation node) is passed by one car at  *)
(* a time, strictly in turns, car 1 first.  DualTurn is shown to implement *)
(* this specification.                                                     *)
(***************************************************************************)
EXTENDS Integers

VARIABLES
    who,        \* the car whose turn it is: inside, or the next to enter
    inside      \* whether that car is on the shared stretch

vars == <<who, inside>>

Init ==
    /\ who = 1
    /\ inside = TRUE       \* car 1 starts with the turn, in state 9

Enter ==
    /\ ~inside
    /\ inside' = TRUE
    /\ who' = who

Leave ==
    /\ inside
    /\ inside' = FALSE
    /\ who' = 3 - who

Next == Enter \/ Leave

Spec == Init /\ [][Next]_vars
=============================================================================

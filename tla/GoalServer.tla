------------------------------ MODULE GoalServer ------------------------------
(***************************************************************************)
(* What the navigation server promises its client, without planner,        *)
(* controller and recoveries: goals are taken up in the order they are     *)
(* sent, one at a time, and each ends once, with one result.  The client   *)
(* sends the next goal when the last one succeeded, or on the way if that  *)
(* was only to be passed; after a cancel it sends no more.                 *)
(***************************************************************************)
EXTENDS Naturals

CONSTANTS MaxGoals, Via

VARIABLES
    sent,         \* number of the last goal sent
    cancelled,    \* that goal was cancelled
    status        \* goal -> how far it is

vars == <<sent, cancelled, status>>

Goals == 1 .. MaxGoals

Init ==
    /\ sent = 0 /\ cancelled = FALSE
    /\ status = [g \in Goals |-> "unsent"]

\* The one that was not taken up yet is dropped.
Send ==
    /\ sent < MaxGoals /\ ~cancelled
    /\ sent = 0 \/ sent \in Via \/ status[sent] = "SUCCEEDED"
    /\ sent' = sent + 1
    /\ status' = [g \in Goals |->
                    IF g = sent + 1 THEN "sent"
                    ELSE IF status[g] = "sent" THEN "RECALLED" ELSE status[g]]
    /\ UNCHANGED cancelled

\* The one that was taken up before is given up.
TakeUp ==
    /\ sent \in Goals /\ status[sent] = "sent"
    /\ status' = [g \in Goals |->
                    IF g = sent THEN "active"
                    ELSE IF status[g] = "active" THEN "PREEMPTED"
                    ELSE status[g]]
    /\ UNCHANGED <<sent, cancelled>>

Cancel ==
    /\ sent \in Goals /\ status[sent] \in {"sent", "active"}
    /\ cancelled' = TRUE
    /\ UNCHANGED <<sent, status>>

End(g, result) ==
    /\ status[g] = "active"
    /\ result = "PREEMPTED" => cancelled
    /\ status' = [status EXCEPT ![g] = result]
    /\ UNCHANGED <<sent, cancelled>>

Next ==
    \/ Send \/ TakeUp \/ Cancel
    \/ \E g \in Goals, result \in {"SUCCEEDED", "PREEMPTED", "ABORTED"} :
            End(g, result)

Spec == Init /\ [][Next]_vars
===============================================================================

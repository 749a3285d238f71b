----------------------------- MODULE VisitAnswers -----------------------------
(***************************************************************************)
(* What the recognition of board two promises, without worker, pipes and   *)
(* frames: in a visit labels come one after the other, each seen in that   *)
(* visit; those in succession that say the same are counted, and a frame   *)
(* without a label ends the count.  The first time StableFrames of them    *)
(* agree they are the answer of the visit, and it hears nothing more.      *)
(***************************************************************************)
EXTENDS Naturals

CONSTANTS Visits, StableFrames

VARIABLES
    visit,      \* the current one, or the last; 0 before the first
    label,      \* what the last label said
    streak,     \* labels in succession that say so
    answer      \* visit -> what was answered and the visits it was seen in

vars == <<visit, label, streak, answer>>

NoAnswer == [says |-> "none", seen |-> {}]

Init ==
    /\ visit = 0
    /\ label = "none" /\ streak = 0
    /\ answer = [v \in Visits |-> NoAnswer]

Arrive ==
    /\ visit' = visit + 1 /\ visit' \in Visits
    /\ label' = "none" /\ streak' = 0
    /\ UNCHANGED answer

Awaited == visit \in Visits /\ answer[visit] = NoAnswer

Miss ==
    /\ Awaited
    /\ label' = "none" /\ streak' = 0
    /\ UNCHANGED <<visit, answer>>

Hear(says) ==
    /\ Awaited
    /\ label' = says
    /\ streak' = IF says = label THEN streak + 1 ELSE 1
    /\ UNCHANGED visit

See(says) ==
    /\ Hear(says)
    /\ streak' < StableFrames
    /\ UNCHANGED answer

Answer(says) ==
    /\ Hear(says)
    /\ streak' = StableFrames
    /\ answer' = [answer EXCEPT ![visit] = [says |-> says, seen |-> {visit}]]

Next ==
    \/ Arrive \/ Miss
    \/ \E says \in {"right", "wrong"} : See(says) \/ Answer(says)

Spec == Init /\ [][Next]_vars
===============================================================================

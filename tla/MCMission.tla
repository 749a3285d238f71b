------------------------------ MODULE MCMission ------------------------------
(***************************************************************************)
(* TLC instances of Mission: boards with two and three tasks.              *)
(***************************************************************************)
EXTENDS Mission

Task(windows, lab) == [windows |-> windows, lab |-> lab]

\* Two readings that differ in every place, one longer than a batch.
MCQueues == {
    <<Task({"A", "B"}, 2), Task({"B"}, 0), Task({"C"}, 1)>>,
    <<Task({"C", "B"}, 1), Task({"A"}, 3)>>}
=============================================================================

------------------------------- MODULE MoveBase -------------------------------
(***************************************************************************)
(* The navigation server and its client: move_base (move_base.cpp) with    *)
(* the TEB local planner (teb_local_planner_ros.cpp) as this robot         *)
(* configures it (move_base_params.yaml), driven by move() of the          *)
(* navigation node (F1_yaofang_v5.py).                                     *)
(*                                                                         *)
(* Two threads share the state: planThread, which waits on a condition     *)
(* variable and plans once a second, and the action server's thread in     *)
(* executeCb, which runs ten control cycles a second.  planner_mutex_      *)
(* guards runPlanner_, planner_goal_ and the plan pointers; state_,        *)
(* new_global_plan_ and recovery_* are also accessed without it.  A step   *)
(* is a stretch of code between two accesses the other thread can see.     *)
(*                                                                         *)
(* Goals are numbered in the order the client sends them, and stand for    *)
(* different places.  A plan is the goal it leads to.  A velocity command  *)
(* is Zero or the goal whose plan it follows.  Where a time-out decides,   *)
(* either outcome is possible.  The action server (actionlib) is a library *)
(* outside the repository: one pending goal, replaced by a newer one.      *)
(* Not modelled: goals that are not valid, a change of the global frame    *)
(* or of the planner plugins, shutdown of the node, visualisation.         *)
(***************************************************************************)
EXTENDS Naturals, FiniteSets

CONSTANTS
    MaxGoals,     \* goals the client sends (bound)
    Via,          \* those that are only passed: handed over on the way
    Behaviors,    \* size of recovery_behaviors_
    MaxFaults     \* failures of planner, controller, sensors (bound)

ASSUME MoveBaseAssumption ==
    /\ MaxGoals \in Nat \ {0} /\ Via \subseteq 1..MaxGoals
    /\ Behaviors \in Nat /\ MaxFaults \in Nat

Goals == 1..MaxGoals
None == 0          \* no goal, no plan
Zero == 0          \* the velocity command zero
OnTheWay == 0      \* the robot is at no goal
Ended == {"SUCCEEDED", "PREEMPTED", "ABORTED", "RECALLED"}

VARIABLES
    \* the navigation node and the robot
    client,             \* ready, waiting for a result, stopping or gone
    sent,               \* number of the last goal sent
    cancelled,          \* that goal was cancelled
    pose, vel,          \* where the robot is, the last velocity command
    \* the action server
    pending, current, status,
    \* shared by the two threads
    state_, runPlanner_, planner_goal_, latest_plan_, new_global_plan_,
    recovery_index_, recovery_trigger_,
    \* planThread, its waiting on planner_cond_, the timer that wakes it
    planner, temp_goal, timer,
    \* executeCb and the local planner
    exec, outcome, controller_plan_, global_plan_, goal_reached_,
    \* recording
    disturbed,          \* a plan came for another goal or in mid-cycle
    faults

clientVars == <<client, sent, cancelled>>
robot == <<pose, vel>>
server == <<pending, current, status>>
machine == <<state_, recovery_index_, recovery_trigger_>>
planning == <<runPlanner_, planner_goal_>>
plans == <<latest_plan_, new_global_plan_, controller_plan_, disturbed>>
planThread == <<planner, temp_goal, timer>>
executeThread == <<exec, outcome>>
tc_ == <<global_plan_, goal_reached_>>

vars == <<clientVars, robot, server, machine, planning, plans, planThread,
          executeThread, tc_, faults>>

Init ==
    /\ client = "ready" /\ sent = 0 /\ cancelled = FALSE
    /\ pose = OnTheWay /\ vel = Zero
    /\ pending = None /\ current = None
    /\ status = [g \in Goals |-> "unsent"]
    /\ state_ = "PLANNING" /\ recovery_index_ = 0
    /\ recovery_trigger_ = "PLANNING_R"
    /\ runPlanner_ = FALSE /\ planner_goal_ = None
    /\ latest_plan_ = None /\ new_global_plan_ = FALSE
    /\ controller_plan_ = None /\ disturbed = FALSE
    /\ planner = "waiting" /\ temp_goal = None /\ timer = FALSE
    /\ exec = "idle" /\ outcome = "SUCCEEDED"
    /\ global_plan_ = None /\ goal_reached_ = FALSE
    /\ faults = 0

Fault == faults < MaxFaults /\ faults' = faults + 1

\* planner_mutex_ is free: planThread holds it while it gives a plan up and
\* from createTimer to wait().
MutexFree == planner \notin {"clearing", "stopped", "resting"}

\* planner_cond_.notify_one(): lost unless the planner thread is waiting.
Notified == IF planner = "waiting" THEN "woken" ELSE planner

-----------------------------------------------------------------------------
(* The navigation node: one goal after the other.                          *)

\* send_goal, and goalCallback of the action server: the new goal takes the
\* place of one that was not accepted yet.
SendGoal ==
    /\ client = "ready" /\ sent < MaxGoals
    /\ sent' = sent + 1 /\ client' = "waiting"
    /\ pending' = sent + 1
    /\ status' = [g \in Goals |->
                    CASE g = sent + 1 -> "sent"
                      [] g = pending  -> "RECALLED"
                      [] OTHER        -> status[g]]
    /\ UNCHANGED <<cancelled, robot, current, machine, planning, plans,
                   planThread, executeThread, tc_, faults>>

\* The goal is only passed and the robot is near it: move() returns with the
\* goal still active, the next send_goal takes its place.
HandOver ==
    /\ client = "waiting" /\ sent \in Via
    /\ vel = sent \/ pose = sent
    /\ status[sent] \notin Ended
    /\ client' = "ready"
    /\ UNCHANGED <<sent, cancelled, robot, server, machine, planning, plans,
                   planThread, executeThread, tc_, faults>>

\* The result arrives: the next step of the task, or the run is given up.
TakeResult ==
    /\ client = "waiting" /\ status[sent] \in Ended
    /\ client' = IF status[sent] = "SUCCEEDED" THEN "ready" ELSE "stopping"
    /\ UNCHANGED <<sent, cancelled, robot, server, machine, planning, plans,
                   planThread, executeThread, tc_, faults>>

\* move_timeout_sec is over, or rospy shuts down: cancel_goal.
CancelGoal ==
    /\ client = "waiting" /\ status[sent] \notin Ended
    /\ client' = "stopping" /\ cancelled' = TRUE
    /\ UNCHANGED <<sent, robot, server, machine, planning, plans, planThread,
                   executeThread, tc_, faults>>

\* shutdown(): after the result, or after 3 s, one zero command of its own.
Shutdown ==
    /\ client = "stopping"
    /\ client' = "gone" /\ vel' = Zero
    /\ UNCHANGED <<sent, cancelled, pose, server, machine, planning, plans,
                   planThread, executeThread, tc_, faults>>

\* The robot follows the last command: it is under way, or arrives.
Drive ==
    /\ vel # Zero /\ pose # vel
    /\ pose' \in {OnTheWay, vel}
    /\ UNCHANGED <<clientVars, vel, server, machine, planning, plans,
                   planThread, executeThread, tc_, faults>>

-----------------------------------------------------------------------------
(* planThread.                                                             *)

\* wakePlanner: the notification is lost unless the thread waits already.
WakePlanner ==
    /\ timer
    /\ timer' = FALSE /\ planner' = Notified
    /\ UNCHANGED <<clientVars, robot, server, machine, planning, plans,
                   temp_goal, executeThread, tc_, faults>>

\* The test of the while loop: copy the goal and plan, or wait.
PlansOrWaits ==
    /\ planner' = IF runPlanner_ THEN "planning" ELSE "waiting"
    /\ temp_goal' = IF runPlanner_ THEN planner_goal_ ELSE temp_goal

PlannerWakes ==
    /\ planner = "woken"
    /\ PlansOrWaits
    /\ UNCHANGED <<clientVars, robot, server, machine, planning, plans, timer,
                   executeThread, tc_, faults>>

\* executeCycle has looked at new_global_plan_ and not yet at state_: a plan
\* that comes in these microseconds counts as a fault.
InMidCycle == exec \in {"swap", "switch"}

\* Mutant: the controller is started without the test of runPlanner_.
PlanFoundAlways ==
    /\ planner = "planning"
    /\ latest_plan_' = temp_goal /\ new_global_plan_' = TRUE
    /\ state_' = "CONTROLLING"
    /\ disturbed' = (disturbed \/ temp_goal # current \/ InMidCycle)
    /\ IF InMidCycle THEN Fault ELSE UNCHANGED faults
    /\ planner' = "planned"
    /\ UNCHANGED <<clientVars, robot, server, recovery_index_,
                   recovery_trigger_, planning, controller_plan_, temp_goal,
                   timer, executeThread, tc_>>

\* makePlan succeeds: the plan is handed over and the controller started.
PlanFound ==
    /\ planner = "planning"
    /\ latest_plan_' = temp_goal /\ new_global_plan_' = TRUE
    /\ state_' = IF runPlanner_ THEN "CONTROLLING" ELSE state_
    /\ disturbed' = (disturbed \/ temp_goal # current \/ InMidCycle)
    /\ IF InMidCycle THEN Fault ELSE UNCHANGED faults
    /\ planner' = "planned"
    /\ UNCHANGED <<clientVars, robot, server, recovery_index_,
                   recovery_trigger_, planning, controller_plan_, temp_goal,
                   timer, executeThread, tc_>>

\* makePlan fails; state_ is read without the mutex.
PlanFails ==
    /\ planner = "planning"
    /\ Fault
    /\ planner' = IF state_ = "PLANNING" THEN "failed" ELSE "planned"
    /\ UNCHANGED <<clientVars, robot, server, machine, planning, plans,
                   temp_goal, timer, executeThread, tc_>>

\* planner_patience may be over: planning stops and recovery begins.  The
\* other thread may see state_ from here on, before the robot is stopped.
PlannerGivesUp ==
    /\ planner = "failed"
    /\ \/ /\ runPlanner_
          /\ state_' = "CLEARING" /\ runPlanner_' = FALSE
          /\ planner' = "clearing"
       \/ /\ planner' = "planned"
          /\ UNCHANGED <<state_, runPlanner_>>
    /\ UNCHANGED <<clientVars, robot, server, recovery_index_,
                   recovery_trigger_, planner_goal_, plans, temp_goal, timer,
                   executeThread, tc_, faults>>

\* Mutant: the robot is not stopped.
GoOnMoving ==
    /\ planner = "clearing"
    /\ planner' = "stopped"
    /\ UNCHANGED <<clientVars, robot, server, machine, planning, plans,
                   temp_goal, timer, executeThread, tc_, faults>>

\* publishZeroVelocity
StopForRecovery ==
    /\ planner = "clearing"
    /\ planner' = "stopped" /\ vel' = Zero
    /\ UNCHANGED <<clientVars, pose, server, machine, planning, plans,
                   temp_goal, timer, executeThread, tc_, faults>>

NamePlanningTheTrigger ==
    /\ planner = "stopped"
    /\ planner' = "planned" /\ recovery_trigger_' = "PLANNING_R"
    /\ UNCHANGED <<clientVars, robot, server, state_, recovery_index_,
                   planning, plans, temp_goal, timer, executeThread, tc_,
                   faults>>

\* There is time left of the second: start the timer, holding the mutex.
PlannerRests ==
    /\ planner = "planned"
    /\ planner' = "resting" /\ timer' = TRUE
    /\ UNCHANGED <<clientVars, robot, server, machine, planning, plans,
                   temp_goal, executeThread, tc_, faults>>

PlannerWaits ==
    /\ planner = "resting"
    /\ planner' = "waiting"
    /\ UNCHANGED <<clientVars, robot, server, machine, planning, plans,
                   temp_goal, timer, executeThread, tc_, faults>>

\* Planning took longer than the second: no rest.
PlannerHurries ==
    /\ planner = "planned"
    /\ PlansOrWaits
    /\ UNCHANGED <<clientVars, robot, server, machine, planning, plans, timer,
                   executeThread, tc_, faults>>

-----------------------------------------------------------------------------
(* executeCb: a goal is accepted, replaced or cancelled.                   *)

\* acceptNewGoal: the goal that was active before is preempted.
Accept ==
    /\ current' = pending /\ pending' = None
    /\ status' = [g \in Goals |->
                    CASE g = pending -> "active"
                      [] g = current /\ status[g] = "active" -> "PREEMPTED"
                      [] OTHER -> status[g]]
    /\ disturbed' = FALSE

\* executeCb is entered.
Execute ==
    /\ exec = "idle" /\ pending # None
    /\ MutexFree
    /\ Accept
    /\ vel' = Zero
    /\ planner_goal_' = pending /\ runPlanner_' = TRUE /\ planner' = Notified
    /\ exec' = "loop"
    /\ UNCHANGED <<clientVars, pose, machine, latest_plan_, new_global_plan_,
                   controller_plan_, temp_goal, timer, outcome, tc_, faults>>

\* A new goal while one is active: nothing is shut down.
AcceptNewGoal ==
    /\ exec = "loop" /\ pending # None
    /\ Accept
    /\ recovery_index_' = 0 /\ state_' = "PLANNING"
    /\ exec' = "accepted"
    /\ UNCHANGED <<clientVars, robot, recovery_trigger_, planning,
                   latest_plan_, new_global_plan_, controller_plan_,
                   planThread, outcome, tc_, faults>>

\* The planner gets the new goal.
NewGoalToPlanner ==
    /\ exec = "accepted" /\ MutexFree
    /\ planner_goal_' = current /\ runPlanner_' = TRUE /\ planner' = Notified
    /\ exec' = "cycle"
    /\ UNCHANGED <<clientVars, robot, server, machine, plans, temp_goal,
                   timer, outcome, tc_, faults>>

\* Cancelled, and there is no newer goal.
Preempt ==
    /\ exec = "loop" /\ pending = None /\ cancelled
    /\ exec' = "ending" /\ outcome' = "PREEMPTED"
    /\ UNCHANGED <<clientVars, robot, server, machine, planning, plans,
                   planThread, tc_, faults>>

\* resetState, first half: disable the planner thread.
DisablePlanner ==
    /\ exec = "ending" /\ MutexFree
    /\ runPlanner_' = FALSE
    /\ exec' = "reset"
    /\ UNCHANGED <<clientVars, robot, server, machine, planner_goal_, plans,
                   planThread, outcome, tc_, faults>>

\* resetState, second half, and the result of the goal.
ResetState ==
    /\ exec = "reset"
    /\ state_' = "PLANNING" /\ recovery_index_' = 0
    /\ recovery_trigger_' = "PLANNING_R"
    /\ vel' = Zero
    /\ status' = [status EXCEPT ![current] = outcome]
    /\ exec' = "idle"
    /\ UNCHANGED <<clientVars, pose, pending, current, planning, plans,
                   planThread, outcome, tc_, faults>>

-----------------------------------------------------------------------------
(* executeCycle.                                                           *)

\* A cycle begins: no request to give the goal up, or its planner was called.
InCycle ==
    \/ exec = "cycle"
    \/ exec = "loop" /\ pending = None /\ ~cancelled

\* Far enough for oscillation_distance_: the recoveries count anew.
Moved ==
    /\ InCycle /\ vel # Zero /\ recovery_trigger_ = "OSCILLATION_R"
    /\ recovery_index_' = 0
    /\ UNCHANGED <<clientVars, robot, server, state_, recovery_trigger_,
                   planning, plans, planThread, executeThread, tc_, faults>>

\* The controller's costmap is out of date: stop and do nothing else.
NotCurrent ==
    /\ InCycle
    /\ Fault
    /\ vel' = Zero /\ exec' = "loop"
    /\ UNCHANGED <<clientVars, pose, server, machine, planning, plans,
                   planThread, outcome, tc_>>

\* The flag is read and cleared without the mutex.
LookForPlan ==
    /\ InCycle
    /\ exec' = IF new_global_plan_ THEN "swap" ELSE "switch"
    /\ new_global_plan_' = FALSE
    /\ UNCHANGED <<clientVars, robot, server, machine, planning, latest_plan_,
                   controller_plan_, disturbed, planThread, outcome, tc_,
                   faults>>

\* Mutant: the plan reaches the local planner, its flag is not reset.
SwapPlansOnly ==
    /\ exec = "swap" /\ MutexFree
    /\ controller_plan_' = latest_plan_ /\ latest_plan_' = controller_plan_
    /\ global_plan_' = latest_plan_
    /\ recovery_index_' = IF recovery_trigger_ = "PLANNING_R" THEN 0
                          ELSE recovery_index_
    /\ exec' = "switch"
    /\ UNCHANGED <<clientVars, robot, server, state_, recovery_trigger_,
                   planning, new_global_plan_, disturbed, planThread, outcome,
                   goal_reached_, faults>>

\* The pointers are swapped, and setPlan of the local planner.
SwapPlans ==
    /\ exec = "swap" /\ MutexFree
    /\ controller_plan_' = latest_plan_ /\ latest_plan_' = controller_plan_
    /\ global_plan_' = latest_plan_ /\ goal_reached_' = FALSE
    /\ recovery_index_' = IF recovery_trigger_ = "PLANNING_R" THEN 0
                          ELSE recovery_index_
    /\ exec' = "switch"
    /\ UNCHANGED <<clientVars, robot, server, state_, recovery_trigger_,
                   planning, new_global_plan_, disturbed, planThread, outcome,
                   faults>>

\* switch(state_): the state is read once.
Switch ==
    /\ exec = "switch"
    /\ exec' = state_
    /\ UNCHANGED <<clientVars, robot, server, machine, planning, plans,
                   planThread, outcome, tc_, faults>>

\* Mutant: the planner thread is not notified.
KeepPlanningSilently ==
    /\ exec \in {"PLANNING", "replan"} /\ MutexFree
    /\ runPlanner_' = TRUE
    /\ exec' = "loop"
    /\ UNCHANGED <<clientVars, robot, server, machine, planner_goal_, plans,
                   planThread, outcome, tc_, faults>>

\* Waiting for a plan, or back to planning since no command was found.
KeepPlanning ==
    /\ exec \in {"PLANNING", "replan"} /\ MutexFree
    /\ runPlanner_' = TRUE /\ planner' = Notified
    /\ exec' = "loop"
    /\ UNCHANGED <<clientVars, robot, server, machine, planner_goal_, plans,
                   temp_goal, timer, outcome, tc_, faults>>

GoalReached ==
    /\ exec = "CONTROLLING" /\ goal_reached_
    /\ exec' = "ending" /\ outcome' = "SUCCEEDED"
    /\ UNCHANGED <<clientVars, robot, server, machine, planning, plans,
                   planThread, tc_, faults>>

\* oscillation_timeout is over.  The cycle goes on with a command.
Oscillation ==
    /\ exec = "CONTROLLING" /\ ~goal_reached_
    /\ Fault
    /\ vel' = Zero
    /\ state_' = "CLEARING" /\ recovery_trigger_' = "OSCILLATION_R"
    /\ exec' = "control"
    /\ UNCHANGED <<clientVars, pose, server, recovery_index_, planning, plans,
                   planThread, outcome, tc_>>

Controlling ==
    \/ exec = "CONTROLLING" /\ ~goal_reached_
    \/ exec = "control"

\* computeVelocityCommands succeeds: at the end of its plan it returns zero
\* and remembers that the goal is reached.
Control ==
    /\ Controlling /\ global_plan_ # None
    /\ goal_reached_' = (pose = global_plan_)
    /\ vel' = IF pose = global_plan_ THEN Zero ELSE global_plan_
    /\ recovery_index_' = IF recovery_trigger_ = "CONTROLLING_R" THEN 0
                          ELSE recovery_index_
    /\ exec' = "loop"
    /\ UNCHANGED <<clientVars, pose, server, state_, recovery_trigger_,
                   planning, plans, planThread, outcome, global_plan_, faults>>

\* It fails (always, if there is no plan yet): back to planning ...
ControlFails ==
    /\ Controlling
    /\ IF global_plan_ = None THEN UNCHANGED faults ELSE Fault
    /\ goal_reached_' = FALSE
    /\ vel' = Zero
    /\ \/ /\ state_' = "PLANNING" /\ exec' = "replan"
          /\ UNCHANGED recovery_trigger_
       \* ... or controller_patience is over.
       \/ /\ state_' = "CLEARING" /\ exec' = "loop"
          /\ recovery_trigger_' = "CONTROLLING_R"
    /\ UNCHANGED <<clientVars, pose, server, recovery_index_, planning, plans,
                   planThread, outcome, global_plan_>>

\* The next recovery behaviour ran.
Recover ==
    /\ exec = "CLEARING" /\ recovery_index_ < Behaviors
    /\ state_' = "PLANNING" /\ recovery_index_' = recovery_index_ + 1
    /\ exec' = "loop"
    /\ UNCHANGED <<clientVars, robot, server, recovery_trigger_, planning,
                   plans, planThread, outcome, tc_, faults>>

\* Mutant: the cycles go on after the result was set.
GiveUpAndGoOn ==
    /\ exec = "CLEARING" /\ recovery_index_ >= Behaviors /\ MutexFree
    /\ runPlanner_' = FALSE
    /\ status' = [status EXCEPT ![current] = "ABORTED"]
    /\ exec' = "loop" /\ outcome' = "ABORTED"
    /\ UNCHANGED <<clientVars, robot, pending, current, machine,
                   planner_goal_, plans, planThread, tc_, faults>>

\* All of them failed: the result is set before the state is reset.
GiveUp ==
    /\ exec = "CLEARING" /\ recovery_index_ >= Behaviors /\ MutexFree
    /\ runPlanner_' = FALSE
    /\ status' = [status EXCEPT ![current] = "ABORTED"]
    /\ exec' = "ending" /\ outcome' = "ABORTED"
    /\ UNCHANGED <<clientVars, robot, pending, current, machine,
                   planner_goal_, plans, planThread, tc_, faults>>

-----------------------------------------------------------------------------
Client == SendGoal \/ HandOver \/ TakeResult \/ CancelGoal \/ Shutdown

Planner ==
    \/ PlannerWakes \/ PlanFound \/ PlanFails
    \/ PlannerGivesUp \/ StopForRecovery \/ NamePlanningTheTrigger
    \/ PlannerRests \/ PlannerWaits \/ PlannerHurries

Goal ==
    \/ Execute \/ AcceptNewGoal \/ NewGoalToPlanner \/ Preempt
    \/ DisablePlanner \/ ResetState

Cycle ==
    \/ Moved \/ NotCurrent \/ LookForPlan \/ SwapPlans \/ Switch
    \/ KeepPlanning \/ GoalReached \/ Oscillation \/ Control \/ ControlFails
    \/ Recover \/ GiveUp

Next == Client \/ Drive \/ WakePlanner \/ Planner \/ Goal \/ Cycle

Spec == Init /\ [][Next]_vars

\* The two threads and the timer run on, and the robot gets where it is told.
\* planThread gives the mutex up in every round, for up to a second: the other
\* thread gets it in the end (strong fairness).  The client need not give up:
\* no fairness for CancelGoal.
Fairness ==
    /\ SF_vars(Planner) /\ WF_vars(WakePlanner)
    /\ SF_vars(Goal \/ Cycle)
    /\ WF_vars(Drive /\ pose' = vel)
    /\ WF_vars(SendGoal) /\ WF_vars(TakeResult)

FairSpec == Spec /\ Fairness

-----------------------------------------------------------------------------
(* Properties.                                                             *)

Statuses == {"unsent", "sent", "active"} \cup Ended
PlannerPoints ==
    {"waiting", "woken", "planning", "failed", "clearing", "stopped",
     "planned", "resting"}
ExecPoints ==
    {"idle", "loop", "accepted", "cycle", "swap", "switch", "PLANNING",
     "CONTROLLING", "CLEARING", "control", "replan", "ending", "reset"}

TypeOK ==
    /\ client \in {"ready", "waiting", "stopping", "gone"}
    /\ sent \in 0..MaxGoals /\ cancelled \in BOOLEAN
    /\ pose \in 0..MaxGoals /\ vel \in 0..MaxGoals
    /\ pending \in 0..MaxGoals /\ current \in 0..MaxGoals
    /\ status \in [Goals -> Statuses]
    /\ state_ \in {"PLANNING", "CONTROLLING", "CLEARING"}
    /\ recovery_index_ \in 0..Behaviors
    /\ recovery_trigger_ \in {"PLANNING_R", "CONTROLLING_R", "OSCILLATION_R"}
    /\ runPlanner_ \in BOOLEAN /\ planner_goal_ \in 0..MaxGoals
    /\ latest_plan_ \in 0..MaxGoals /\ controller_plan_ \in 0..MaxGoals
    /\ new_global_plan_ \in BOOLEAN /\ disturbed \in BOOLEAN
    /\ planner \in PlannerPoints
    /\ temp_goal \in 0..MaxGoals /\ timer \in BOOLEAN
    /\ exec \in ExecPoints
    /\ outcome \in {"SUCCEEDED", "PREEMPTED", "ABORTED"}
    /\ global_plan_ \in 0..MaxGoals /\ goal_reached_ \in BOOLEAN
    /\ faults \in 0..MaxFaults

\* Between two goals the machine is reset and the robot told to stand still,
\* whatever planThread is doing: a plan that is found, or not found, after
\* its goal ended starts neither the controller nor a recovery.
IdleIsReset ==
    exec = "idle" =>
        /\ ~runPlanner_ /\ state_ = "PLANNING"
        /\ recovery_index_ = 0 /\ recovery_trigger_ = "PLANNING_R"
        /\ vel = Zero

\* After a failure of planner or controller no behaviour runs under a command
\* to move that lasts: the last command was zero, or planThread holds the
\* mutex and is about to publish it; and a goal is given up only when the
\* robot was told to stand.  (Not so after an oscillation, where executeCycle
\* goes on to publish a command once more.)
RecoversStandingStill ==
    recovery_trigger_ # "OSCILLATION_R" =>
        /\ exec = "CLEARING" => vel = Zero \/ planner = "clearing"
        /\ exec \in {"ending", "reset"} /\ outcome = "ABORTED" => vel = Zero

GS == INSTANCE GoalServer

\* However the two threads interleave, and wherever a goal is replaced, given
\* up or cancelled, one goal is worked on at a time and gets one result, which
\* stays; a goal that is not only passed is followed by another only after it
\* succeeded.
ResultsAreFinal == GS!Spec

\* The goal whose result the client is given.
Result(s) == sent > 0 /\ status[sent] = s

\* "Goal reached." is true if no plan for another goal came while the goal
\* was active, and none between the look at new_global_plan_ and the switch.
SucceedsThere == Result("SUCCEEDED") /\ ~disturbed => pose = sent

\* The documented effect of a goal: a step of the task that needs the final
\* stop begins when the robot is there.
SucceedsOnlyThere == Result("SUCCEEDED") => pose = sent

\* controller_frequency is 10, planner_frequency 1: the thread looks for a new
\* plan and finds none, again and again.
PlansAreRare == []<><<LookForPlan /\ ~new_global_plan_>>_vars

\* Every goal ends, and ends when it is cancelled: no wake-up of the planner
\* thread is lost for good, and no interleaving of the two threads leaves the
\* machine running on.  (setPlan forgets that the goal is reached: with a new
\* plan in every cycle a goal would not end by itself.)
GoalsEnd ==
    PlansAreRare \/ []<>cancelled => []<>(exec = "idle" /\ pending = None)
=============================================================================

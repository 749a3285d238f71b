---------------------------- MODULE MoveBase_proofs ----------------------------
(***************************************************************************)
(* Proofs about MoveBase, for any number of goals, recovery behaviours and *)
(* faults, any hand-over and any interleaving of the two threads.          *)
(***************************************************************************)
EXTENDS MoveBase, TLAPS

\* What the thread in executeCb knows at its program counter, although
\* planThread writes state_ too.
ThreadsAgree ==
    /\ exec = "reset" => ~runPlanner_
    /\ exec = "CONTROLLING" => state_ = "CONTROLLING"
    /\ exec = "control" =>
        state_ # "PLANNING" /\ recovery_trigger_ = "OSCILLATION_R"
    /\ planner = "failed" => state_ = "PLANNING"
    /\ planner \in {"failed", "clearing", "stopped"} =>
        exec \notin {"CONTROLLING", "control"}
    /\ planner \in {"clearing", "stopped"} =>
        state_ # "CONTROLLING" /\ exec \notin {"idle", "reset"}

\* The command that is in force during a recovery.
ClearingStands ==
    /\ state_ = "CLEARING" /\ recovery_trigger_ # "OSCILLATION_R" =>
        vel = Zero \/ planner = "clearing"
    /\ planner = "stopped" => vel = Zero
    /\ RecoversStandingStill

\* The goals of the client and of the server.
GoalsInOrder ==
    /\ pending \in {None, sent} /\ current <= sent
    /\ pending = None => current = sent
    /\ pending # None => status[sent] = "sent"
    /\ exec # "idle" => current # None
    /\ exec \notin {"idle", "ending", "reset"} => status[current] = "active"
    /\ exec \in {"ending", "reset"} => status[current] \in {"active", "ABORTED"}

\* The local planner remembers a goal as reached only while the robot stands
\* at the end of the plan it has.
ReachedIsHere ==
    goal_reached_ => pose = global_plan_ /\ vel = Zero /\ global_plan_ # None

\* Where the plan for the current goal is when the controller may run.
PlanIsCurrent ==
    ~disturbed =>
        /\ exec = "swap" => ~new_global_plan_
        /\ exec # "idle" /\ state_ = "CONTROLLING" =>
            IF exec = "swap" \/ new_global_plan_ THEN latest_plan_ = current
            ELSE global_plan_ = current
        /\ exec \in {"switch", "CONTROLLING"} /\ state_ = "CONTROLLING" =>
            global_plan_ = current
        /\ exec \in {"ending", "reset"} /\ outcome = "SUCCEEDED" =>
            pose = current /\ vel = Zero
        /\ current # None /\ status[current] = "SUCCEEDED" =>
            pose = current /\ exec = "idle"

IInv ==
    /\ TypeOK /\ IdleIsReset /\ ThreadsAgree /\ ClearingStands
    /\ GoalsInOrder /\ ReachedIsHere /\ PlanIsCurrent

USE MoveBaseAssumption DEF Goals, None, Zero, OnTheWay, Ended,
    IInv, TypeOK, IdleIsReset, ThreadsAgree, ClearingStands,
    RecoversStandingStill, GoalsInOrder, ReachedIsHere, PlanIsCurrent,
    clientVars, robot, server, machine, planning, plans, planThread,
    executeThread, tc_

LEMMA SentIsTold ==
  ASSUME NEW n \in Goals, NEW p, p # n, NEW before, NEW after,
         after = [g \in Goals |-> CASE g = n -> "sent"
                                    [] g = p -> "RECALLED"
                                    [] OTHER -> before[g]]
  PROVE  after[n] = "sent"
  OBVIOUS

\* The invariant holds at the start.
LEMMA InitInvariant == Init => IInv
  <1> SUFFICES ASSUME Init PROVE IInv
    OBVIOUS
  <1> USE DEF Init
  <1>1. TypeOK
    <2>1. status \in [Goals -> Statuses]
      BY DEF Statuses
    <2>2. exec \in ExecPoints /\ planner \in PlannerPoints
      BY DEF ExecPoints, PlannerPoints
    <2>3. /\ 0 \in 0..MaxGoals /\ 0 \in 0..Behaviors /\ 0 \in 0..MaxFaults
          /\ FALSE \in BOOLEAN
      OBVIOUS
    <2> QED  BY <2>1, <2>2, <2>3, Zenon
  <1>2. IdleIsReset
    OBVIOUS
  <1>3. ThreadsAgree
    OBVIOUS
  <1>4. ClearingStands
    OBVIOUS
  <1>5. GoalsInOrder
    OBVIOUS
  <1>6. ReachedIsHere
    OBVIOUS
  <1>7. PlanIsCurrent
    OBVIOUS
  <1> QED  BY <1>1, <1>2, <1>3, <1>4, <1>5, <1>6, <1>7

\* ... and is kept by every step of the navigation node.
LEMMA ClientKeeps == IInv /\ Client => IInv'
  <1> SUFFICES ASSUME IInv, Client PROVE IInv'
    OBVIOUS
  <1>1. CASE SendGoal
    <2> USE <1>1 DEF SendGoal
    <2>1. TypeOK'
      <3>1. exec' \in ExecPoints
        BY DEF ExecPoints
      <3>2. planner' \in PlannerPoints
        BY DEF PlannerPoints
      <3>3. status' \in [Goals -> Statuses]
        BY DEF Statuses
      <3>4. /\ client' \in {"ready", "waiting", "stopping", "gone"}
            /\ sent' \in 0..MaxGoals /\ cancelled' \in BOOLEAN
            /\ pose' \in 0..MaxGoals /\ vel' \in 0..MaxGoals
            /\ pending' \in 0..MaxGoals /\ current' \in 0..MaxGoals
        BY SMTT(30)
      <3>5. /\ state_' \in {"PLANNING", "CONTROLLING", "CLEARING"}
            /\ recovery_index_' \in 0..Behaviors
            /\ recovery_trigger_' \in
                {"PLANNING_R", "CONTROLLING_R", "OSCILLATION_R"}
            /\ outcome' \in {"SUCCEEDED", "PREEMPTED", "ABORTED"}
        OBVIOUS
      <3> QED  BY <3>1, <3>2, <3>3, <3>4, <3>5
    <2>2. IdleIsReset'
      OBVIOUS
    <2>3. ThreadsAgree'
      OBVIOUS
    <2>4. ClearingStands'
      OBVIOUS
    <2>5. GoalsInOrder'
      <3>1. sent + 1 \in Goals /\ status'[sent + 1] = "sent"
        <4>1. sent \in 0 .. MaxGoals /\ sent < MaxGoals /\ MaxGoals \in Nat
          OBVIOUS
        <4>2. sent + 1 \in Goals
          BY <4>1, SMTT(30) DEF Goals
        <4>3. pending # sent + 1
          <5>1. pending \in {0, sent} /\ sent \in Nat
            BY <4>1
          <5> QED  BY ONLY <5>1
        <4>4. status' = [g \in Goals |->
                            CASE g = sent + 1 -> "sent"
                              [] g = pending  -> "RECALLED"
                              [] OTHER        -> status[g]]
          OBVIOUS
        <4>5. status'[sent + 1] = "sent"
          BY ONLY <4>2, <4>3, <4>4, SentIsTold
        <4> QED  BY ONLY <4>2, <4>5
      <3>2. exec # "idle" =>
                current \in Goals /\ status'[current] = status[current]
        BY SMTT(30)
      <3>3. /\ pending' = sent' /\ current' <= sent' /\ pending' # None
            /\ status'[sent'] = "sent"
        BY <3>1, SMTT(30)
      <3> QED  BY <3>2, <3>3
    <2>6. ReachedIsHere'
      OBVIOUS
    <2>7. PlanIsCurrent'
      BY SMTT(30)
    <2> QED  BY <2>1, <2>2, <2>3, <2>4, <2>5, <2>6, <2>7
  <1>2. CASE HandOver
    BY <1>2 DEF HandOver,
      ExecPoints, PlannerPoints, Statuses
  <1>3. CASE TakeResult
    BY <1>3 DEF TakeResult,
      ExecPoints, PlannerPoints, Statuses
  <1>4. CASE CancelGoal
    BY <1>4 DEF CancelGoal,
      ExecPoints, PlannerPoints, Statuses
  <1>5. CASE Shutdown
    BY <1>5 DEF Shutdown,
      ExecPoints, PlannerPoints, Statuses
  <1> QED  BY <1>1, <1>2, <1>3, <1>4, <1>5 DEF Client

\* ... and is kept by every step of planThread.
LEMMA PlannerKeeps == IInv /\ Planner => IInv'
  <1> SUFFICES ASSUME IInv, Planner PROVE IInv'
    OBVIOUS
  <1>1. CASE PlannerWakes
    BY <1>1 DEF PlannerWakes, PlansOrWaits,
      ExecPoints, PlannerPoints, Statuses
  <1>2. CASE PlanFound
    <2> USE <1>2 DEF PlanFound, Fault, InMidCycle
    <2>1. TypeOK'
      <3>1. exec' \in ExecPoints
        BY DEF ExecPoints
      <3>2. planner' \in PlannerPoints
        BY DEF PlannerPoints
      <3>3. status' \in [Goals -> Statuses]
        BY DEF Statuses
      <3>4. /\ client' \in {"ready", "waiting", "stopping", "gone"}
            /\ sent' \in 0..MaxGoals /\ cancelled' \in BOOLEAN
            /\ pose' \in 0..MaxGoals /\ vel' \in 0..MaxGoals
            /\ pending' \in 0..MaxGoals /\ current' \in 0..MaxGoals
        OBVIOUS
      <3>5. /\ state_' \in {"PLANNING", "CONTROLLING", "CLEARING"}
            /\ recovery_index_' \in 0..Behaviors
            /\ recovery_trigger_' \in
                {"PLANNING_R", "CONTROLLING_R", "OSCILLATION_R"}
            /\ outcome' \in {"SUCCEEDED", "PREEMPTED", "ABORTED"}
        OBVIOUS
      <3> QED  BY <3>1, <3>2, <3>3, <3>4, <3>5
    <2>2. IdleIsReset'
      OBVIOUS
    <2>3. ThreadsAgree'
      OBVIOUS
    <2>4. ClearingStands'
      OBVIOUS
    <2>5. GoalsInOrder'
      OBVIOUS
    <2>6. ReachedIsHere'
      OBVIOUS
    <2>7. PlanIsCurrent'
      OBVIOUS
    <2> QED  BY <2>1, <2>2, <2>3, <2>4, <2>5, <2>6, <2>7
  <1>3. CASE PlanFails
    BY <1>3 DEF PlanFails, Fault,
      ExecPoints, PlannerPoints, Statuses
  <1>4. CASE PlannerGivesUp
    <2> USE <1>4 DEF PlannerGivesUp
    <2>1. TypeOK'
      <3>1. exec' \in ExecPoints
        BY DEF ExecPoints
      <3>2. planner' \in PlannerPoints
        BY DEF PlannerPoints
      <3>3. status' \in [Goals -> Statuses]
        BY DEF Statuses
      <3>4. /\ client' \in {"ready", "waiting", "stopping", "gone"}
            /\ sent' \in 0..MaxGoals /\ cancelled' \in BOOLEAN
            /\ pose' \in 0..MaxGoals /\ vel' \in 0..MaxGoals
            /\ pending' \in 0..MaxGoals /\ current' \in 0..MaxGoals
        OBVIOUS
      <3>5. /\ state_' \in {"PLANNING", "CONTROLLING", "CLEARING"}
            /\ recovery_index_' \in 0..Behaviors
            /\ recovery_trigger_' \in
                {"PLANNING_R", "CONTROLLING_R", "OSCILLATION_R"}
            /\ outcome' \in {"SUCCEEDED", "PREEMPTED", "ABORTED"}
        OBVIOUS
      <3> QED  BY <3>1, <3>2, <3>3, <3>4, <3>5
    <2>2. IdleIsReset'
      OBVIOUS
    <2>3. ThreadsAgree'
      OBVIOUS
    <2>4. ClearingStands'
      OBVIOUS
    <2>5. GoalsInOrder'
      OBVIOUS
    <2>6. ReachedIsHere'
      OBVIOUS
    <2>7. PlanIsCurrent'
      OBVIOUS
    <2> QED  BY <2>1, <2>2, <2>3, <2>4, <2>5, <2>6, <2>7
  <1>5. CASE StopForRecovery
    <2> USE <1>5 DEF StopForRecovery
    <2>1. TypeOK'
      <3>1. exec' \in ExecPoints
        BY DEF ExecPoints
      <3>2. planner' \in PlannerPoints
        BY DEF PlannerPoints
      <3>3. status' \in [Goals -> Statuses]
        BY DEF Statuses
      <3>4. /\ client' \in {"ready", "waiting", "stopping", "gone"}
            /\ sent' \in 0..MaxGoals /\ cancelled' \in BOOLEAN
            /\ pose' \in 0..MaxGoals /\ vel' \in 0..MaxGoals
            /\ pending' \in 0..MaxGoals /\ current' \in 0..MaxGoals
        OBVIOUS
      <3>5. /\ state_' \in {"PLANNING", "CONTROLLING", "CLEARING"}
            /\ recovery_index_' \in 0..Behaviors
            /\ recovery_trigger_' \in
                {"PLANNING_R", "CONTROLLING_R", "OSCILLATION_R"}
            /\ outcome' \in {"SUCCEEDED", "PREEMPTED", "ABORTED"}
        OBVIOUS
      <3> QED  BY <3>1, <3>2, <3>3, <3>4, <3>5
    <2>2. IdleIsReset'
      OBVIOUS
    <2>3. ThreadsAgree'
      OBVIOUS
    <2>4. ClearingStands'
      OBVIOUS
    <2>5. GoalsInOrder'
      OBVIOUS
    <2>6. ReachedIsHere'
      OBVIOUS
    <2>7. PlanIsCurrent'
      OBVIOUS
    <2> QED  BY <2>1, <2>2, <2>3, <2>4, <2>5, <2>6, <2>7
  <1>6. CASE NamePlanningTheTrigger
    <2> USE <1>6 DEF NamePlanningTheTrigger
    <2>1. TypeOK'
      <3>1. exec' \in ExecPoints
        BY DEF ExecPoints
      <3>2. planner' \in PlannerPoints
        BY DEF PlannerPoints
      <3>3. status' \in [Goals -> Statuses]
        BY DEF Statuses
      <3>4. /\ client' \in {"ready", "waiting", "stopping", "gone"}
            /\ sent' \in 0..MaxGoals /\ cancelled' \in BOOLEAN
            /\ pose' \in 0..MaxGoals /\ vel' \in 0..MaxGoals
            /\ pending' \in 0..MaxGoals /\ current' \in 0..MaxGoals
        OBVIOUS
      <3>5. /\ state_' \in {"PLANNING", "CONTROLLING", "CLEARING"}
            /\ recovery_index_' \in 0..Behaviors
            /\ recovery_trigger_' \in
                {"PLANNING_R", "CONTROLLING_R", "OSCILLATION_R"}
            /\ outcome' \in {"SUCCEEDED", "PREEMPTED", "ABORTED"}
        OBVIOUS
      <3> QED  BY <3>1, <3>2, <3>3, <3>4, <3>5
    <2>2. IdleIsReset'
      OBVIOUS
    <2>3. ThreadsAgree'
      OBVIOUS
    <2>4. ClearingStands'
      OBVIOUS
    <2>5. GoalsInOrder'
      OBVIOUS
    <2>6. ReachedIsHere'
      OBVIOUS
    <2>7. PlanIsCurrent'
      OBVIOUS
    <2> QED  BY <2>1, <2>2, <2>3, <2>4, <2>5, <2>6, <2>7
  <1>7. CASE PlannerRests
    BY <1>7 DEF PlannerRests,
      ExecPoints, PlannerPoints, Statuses
  <1>8. CASE PlannerWaits
    BY <1>8 DEF PlannerWaits,
      ExecPoints, PlannerPoints, Statuses
  <1>9. CASE PlannerHurries
    BY <1>9 DEF PlannerHurries, PlansOrWaits,
      ExecPoints, PlannerPoints, Statuses
  <1> QED
    BY <1>1, <1>2, <1>3, <1>4, <1>5, <1>6, <1>7, <1>8, <1>9 DEF Planner

\* ... and is kept by every step of executeCb.
LEMMA GoalKeeps == IInv /\ Goal => IInv'
  <1> SUFFICES ASSUME IInv, Goal PROVE IInv'
    OBVIOUS
  <1>1. CASE Execute
    <2> USE <1>1 DEF Execute, Accept, Notified
    <2>1. TypeOK'
      <3>1. exec' \in ExecPoints
        BY DEF ExecPoints
      <3>2. planner' \in PlannerPoints
        BY DEF PlannerPoints
      <3>3. status' \in [Goals -> Statuses]
        BY DEF Statuses
      <3>4. /\ client' \in {"ready", "waiting", "stopping", "gone"}
            /\ sent' \in 0..MaxGoals /\ cancelled' \in BOOLEAN
            /\ pose' \in 0..MaxGoals /\ vel' \in 0..MaxGoals
            /\ pending' \in 0..MaxGoals /\ current' \in 0..MaxGoals
        OBVIOUS
      <3>5. /\ state_' \in {"PLANNING", "CONTROLLING", "CLEARING"}
            /\ recovery_index_' \in 0..Behaviors
            /\ recovery_trigger_' \in
                {"PLANNING_R", "CONTROLLING_R", "OSCILLATION_R"}
            /\ outcome' \in {"SUCCEEDED", "PREEMPTED", "ABORTED"}
        OBVIOUS
      <3> QED  BY <3>1, <3>2, <3>3, <3>4, <3>5
    <2>2. IdleIsReset'
      OBVIOUS
    <2>3. ThreadsAgree'
      OBVIOUS
    <2>4. ClearingStands'
      OBVIOUS
    <2>5. GoalsInOrder'
      OBVIOUS
    <2>6. ReachedIsHere'
      OBVIOUS
    <2>7. PlanIsCurrent'
      OBVIOUS
    <2> QED  BY <2>1, <2>2, <2>3, <2>4, <2>5, <2>6, <2>7
  <1>2. CASE AcceptNewGoal
    <2> USE <1>2 DEF AcceptNewGoal, Accept
    <2>1. TypeOK'
      <3>1. exec' \in ExecPoints
        BY DEF ExecPoints
      <3>2. planner' \in PlannerPoints
        BY DEF PlannerPoints
      <3>3. status' \in [Goals -> Statuses]
        BY DEF Statuses
      <3>4. /\ client' \in {"ready", "waiting", "stopping", "gone"}
            /\ sent' \in 0..MaxGoals /\ cancelled' \in BOOLEAN
            /\ pose' \in 0..MaxGoals /\ vel' \in 0..MaxGoals
            /\ pending' \in 0..MaxGoals /\ current' \in 0..MaxGoals
        OBVIOUS
      <3>5. /\ state_' \in {"PLANNING", "CONTROLLING", "CLEARING"}
            /\ recovery_index_' \in 0..Behaviors
            /\ recovery_trigger_' \in
                {"PLANNING_R", "CONTROLLING_R", "OSCILLATION_R"}
            /\ outcome' \in {"SUCCEEDED", "PREEMPTED", "ABORTED"}
        OBVIOUS
      <3> QED  BY <3>1, <3>2, <3>3, <3>4, <3>5
    <2>2. IdleIsReset'
      OBVIOUS
    <2>3. ThreadsAgree'
      OBVIOUS
    <2>4. ClearingStands'
      OBVIOUS
    <2>5. GoalsInOrder'
      OBVIOUS
    <2>6. ReachedIsHere'
      OBVIOUS
    <2>7. PlanIsCurrent'
      OBVIOUS
    <2> QED  BY <2>1, <2>2, <2>3, <2>4, <2>5, <2>6, <2>7
  <1>3. CASE NewGoalToPlanner
    BY <1>3 DEF NewGoalToPlanner, Notified,
      ExecPoints, PlannerPoints, Statuses
  <1>4. CASE Preempt
    BY <1>4 DEF Preempt,
      ExecPoints, PlannerPoints, Statuses
  <1>5. CASE DisablePlanner
    <2> USE <1>5 DEF DisablePlanner, MutexFree
    <2>1. TypeOK'
      <3>1. exec' \in ExecPoints
        BY DEF ExecPoints
      <3>2. planner' \in PlannerPoints
        BY DEF PlannerPoints
      <3>3. status' \in [Goals -> Statuses]
        BY DEF Statuses
      <3>4. /\ client' \in {"ready", "waiting", "stopping", "gone"}
            /\ sent' \in 0..MaxGoals /\ cancelled' \in BOOLEAN
            /\ pose' \in 0..MaxGoals /\ vel' \in 0..MaxGoals
            /\ pending' \in 0..MaxGoals /\ current' \in 0..MaxGoals
        OBVIOUS
      <3>5. /\ state_' \in {"PLANNING", "CONTROLLING", "CLEARING"}
            /\ recovery_index_' \in 0..Behaviors
            /\ recovery_trigger_' \in
                {"PLANNING_R", "CONTROLLING_R", "OSCILLATION_R"}
            /\ outcome' \in {"SUCCEEDED", "PREEMPTED", "ABORTED"}
        OBVIOUS
      <3> QED  BY <3>1, <3>2, <3>3, <3>4, <3>5
    <2>2. IdleIsReset'
      OBVIOUS
    <2>3. ThreadsAgree'
      OBVIOUS
    <2>4. ClearingStands'
      OBVIOUS
    <2>5. GoalsInOrder'
      OBVIOUS
    <2>6. ReachedIsHere'
      OBVIOUS
    <2>7. PlanIsCurrent'
      OBVIOUS
    <2> QED  BY <2>1, <2>2, <2>3, <2>4, <2>5, <2>6, <2>7
  <1>6. CASE ResetState
    BY <1>6 DEF ResetState,
      ExecPoints, PlannerPoints, Statuses
  <1> QED  BY <1>1, <1>2, <1>3, <1>4, <1>5, <1>6 DEF Goal

\* ... and is kept by every step of executeCycle.
LEMMA CycleKeeps == IInv /\ Cycle => IInv'
  <1> SUFFICES ASSUME IInv, Cycle PROVE IInv'
    OBVIOUS
  <1>1. CASE Moved
    BY <1>1 DEF Moved, InCycle,
      ExecPoints, PlannerPoints, Statuses
  <1>2. CASE NotCurrent
    BY <1>2 DEF NotCurrent, InCycle, Fault,
      ExecPoints, PlannerPoints, Statuses
  <1>3. CASE LookForPlan
    <2> USE <1>3 DEF LookForPlan, InCycle
    <2>1. TypeOK'
      <3>1. exec' \in ExecPoints
        BY DEF ExecPoints
      <3>2. planner' \in PlannerPoints
        BY DEF PlannerPoints
      <3>3. status' \in [Goals -> Statuses]
        BY DEF Statuses
      <3>4. /\ client' \in {"ready", "waiting", "stopping", "gone"}
            /\ sent' \in 0..MaxGoals /\ cancelled' \in BOOLEAN
            /\ pose' \in 0..MaxGoals /\ vel' \in 0..MaxGoals
            /\ pending' \in 0..MaxGoals /\ current' \in 0..MaxGoals
        OBVIOUS
      <3>5. /\ state_' \in {"PLANNING", "CONTROLLING", "CLEARING"}
            /\ recovery_index_' \in 0..Behaviors
            /\ recovery_trigger_' \in
                {"PLANNING_R", "CONTROLLING_R", "OSCILLATION_R"}
            /\ outcome' \in {"SUCCEEDED", "PREEMPTED", "ABORTED"}
        OBVIOUS
      <3> QED  BY <3>1, <3>2, <3>3, <3>4, <3>5
    <2>2. IdleIsReset'
      OBVIOUS
    <2>3. ThreadsAgree'
      OBVIOUS
    <2>4. ClearingStands'
      OBVIOUS
    <2>5. GoalsInOrder'
      OBVIOUS
    <2>6. ReachedIsHere'
      OBVIOUS
    <2>7. PlanIsCurrent'
      OBVIOUS
    <2> QED  BY <2>1, <2>2, <2>3, <2>4, <2>5, <2>6, <2>7
  <1>4. CASE SwapPlans
    <2> USE <1>4 DEF SwapPlans
    <2>1. TypeOK'
      <3>1. exec' \in ExecPoints
        BY DEF ExecPoints
      <3>2. planner' \in PlannerPoints
        BY DEF PlannerPoints
      <3>3. status' \in [Goals -> Statuses]
        BY DEF Statuses
      <3>4. /\ client' \in {"ready", "waiting", "stopping", "gone"}
            /\ sent' \in 0..MaxGoals /\ cancelled' \in BOOLEAN
            /\ pose' \in 0..MaxGoals /\ vel' \in 0..MaxGoals
            /\ pending' \in 0..MaxGoals /\ current' \in 0..MaxGoals
        OBVIOUS
      <3>5. /\ state_' \in {"PLANNING", "CONTROLLING", "CLEARING"}
            /\ recovery_index_' \in 0..Behaviors
            /\ recovery_trigger_' \in
                {"PLANNING_R", "CONTROLLING_R", "OSCILLATION_R"}
            /\ outcome' \in {"SUCCEEDED", "PREEMPTED", "ABORTED"}
        OBVIOUS
      <3> QED  BY <3>1, <3>2, <3>3, <3>4, <3>5
    <2>2. IdleIsReset'
      OBVIOUS
    <2>3. ThreadsAgree'
      OBVIOUS
    <2>4. ClearingStands'
      OBVIOUS
    <2>5. GoalsInOrder'
      OBVIOUS
    <2>6. ReachedIsHere'
      OBVIOUS
    <2>7. PlanIsCurrent'
      <3>1. ~disturbed /\ state_ = "CONTROLLING" => global_plan_' = current
        OBVIOUS
      <3>2. exec' = "switch" /\ status' = status /\ current' = current
        OBVIOUS
      <3>3. current # None /\ status[current] = "SUCCEEDED" => disturbed
        OBVIOUS
      <3>4. ~new_global_plan_ \/ disturbed
        OBVIOUS
      <3> QED  BY <3>1, <3>2, <3>3, <3>4
    <2> QED  BY <2>1, <2>2, <2>3, <2>4, <2>5, <2>6, <2>7
  <1>5. CASE Switch
    BY <1>5 DEF Switch,
      ExecPoints, PlannerPoints, Statuses
  <1>6. CASE KeepPlanning
    BY <1>6 DEF KeepPlanning, Notified,
      ExecPoints, PlannerPoints, Statuses
  <1>7. CASE GoalReached
    BY <1>7 DEF GoalReached,
      ExecPoints, PlannerPoints, Statuses
  <1>8. CASE Oscillation
    BY <1>8 DEF Oscillation, Fault,
      ExecPoints, PlannerPoints, Statuses
  <1>9. CASE Control
    BY <1>9 DEF Control, Controlling,
      ExecPoints, PlannerPoints, Statuses
  <1>10. CASE ControlFails
    <2> USE <1>10 DEF ControlFails, Controlling, Fault
    <2>1. TypeOK'
      <3>1. exec' \in ExecPoints
        BY DEF ExecPoints
      <3>2. planner' \in PlannerPoints
        BY DEF PlannerPoints
      <3>3. status' \in [Goals -> Statuses]
        BY DEF Statuses
      <3>4. /\ client' \in {"ready", "waiting", "stopping", "gone"}
            /\ sent' \in 0..MaxGoals /\ cancelled' \in BOOLEAN
            /\ pose' \in 0..MaxGoals /\ vel' \in 0..MaxGoals
            /\ pending' \in 0..MaxGoals /\ current' \in 0..MaxGoals
        OBVIOUS
      <3>5. /\ state_' \in {"PLANNING", "CONTROLLING", "CLEARING"}
            /\ recovery_index_' \in 0..Behaviors
            /\ recovery_trigger_' \in
                {"PLANNING_R", "CONTROLLING_R", "OSCILLATION_R"}
            /\ outcome' \in {"SUCCEEDED", "PREEMPTED", "ABORTED"}
        OBVIOUS
      <3>6. \/ faults' = faults
            \/ faults < MaxFaults /\ faults' = faults + 1
        OBVIOUS
      <3>7. faults' \in 0..MaxFaults
        BY <3>6
      <3>8. goal_reached_' \in BOOLEAN
        OBVIOUS
      <3>9. UNCHANGED <<planning, plans, temp_goal, timer, global_plan_>>
        OBVIOUS
      <3> QED  BY <3>1, <3>2, <3>3, <3>4, <3>5, <3>7,
        <3>8, <3>9
    <2>2. IdleIsReset'
      OBVIOUS
    <2>3. ThreadsAgree'
      OBVIOUS
    <2>4. ClearingStands'
      OBVIOUS
    <2>5. GoalsInOrder'
      OBVIOUS
    <2>6. ReachedIsHere'
      OBVIOUS
    <2>7. PlanIsCurrent'
      OBVIOUS
    <2> QED  BY <2>1, <2>2, <2>3, <2>4, <2>5, <2>6, <2>7
  <1>11. CASE Recover
    BY <1>11 DEF Recover,
      ExecPoints, PlannerPoints, Statuses
  <1>12. CASE GiveUp
    <2> USE <1>12 DEF GiveUp, MutexFree
    <2>1. TypeOK'
      <3>1. exec' \in ExecPoints
        BY DEF ExecPoints
      <3>2. planner' \in PlannerPoints
        BY DEF PlannerPoints
      <3>3. status' \in [Goals -> Statuses]
        BY DEF Statuses
      <3>4. /\ client' \in {"ready", "waiting", "stopping", "gone"}
            /\ sent' \in 0..MaxGoals /\ cancelled' \in BOOLEAN
            /\ pose' \in 0..MaxGoals /\ vel' \in 0..MaxGoals
            /\ pending' \in 0..MaxGoals /\ current' \in 0..MaxGoals
        OBVIOUS
      <3>5. /\ state_' \in {"PLANNING", "CONTROLLING", "CLEARING"}
            /\ recovery_index_' \in 0..Behaviors
            /\ recovery_trigger_' \in
                {"PLANNING_R", "CONTROLLING_R", "OSCILLATION_R"}
            /\ outcome' \in {"SUCCEEDED", "PREEMPTED", "ABORTED"}
        OBVIOUS
      <3> QED  BY <3>1, <3>2, <3>3, <3>4, <3>5
    <2>2. IdleIsReset'
      OBVIOUS
    <2>3. ThreadsAgree'
      OBVIOUS
    <2>4. ClearingStands'
      OBVIOUS
    <2>5. GoalsInOrder'
      OBVIOUS
    <2>6. ReachedIsHere'
      OBVIOUS
    <2>7. PlanIsCurrent'
      OBVIOUS
    <2> QED  BY <2>1, <2>2, <2>3, <2>4, <2>5, <2>6, <2>7
  <1> QED  BY <1>1, <1>2, <1>3, <1>4, <1>5, <1>6, <1>7, <1>8, <1>9, <1>10, <1>11, <1>12 DEF Cycle

LEMMA NextKeeps == IInv /\ [Next]_vars => IInv'
  <1> SUFFICES ASSUME IInv, [Next]_vars PROVE IInv'
    OBVIOUS
  <1>1. CASE Drive
    BY <1>1 DEF Drive, ExecPoints, PlannerPoints, Statuses
  <1>2. CASE WakePlanner
    <2> USE <1>2 DEF WakePlanner, Notified
    <2>1. /\ planner' \in PlannerPoints
          /\ (planner' = "failed" <=> planner = "failed")
          /\ (planner' = "clearing" <=> planner = "clearing")
          /\ (planner' = "stopped" <=> planner = "stopped")
      BY DEF PlannerPoints
    <2>2. /\ timer' \in BOOLEAN
          /\ UNCHANGED <<clientVars, robot, server, machine, planning, plans,
                         temp_goal, executeThread, tc_, faults>>
      OBVIOUS
    <2> QED  BY <2>1, <2>2
  <1>3. CASE UNCHANGED vars
    BY <1>3 DEF vars, ExecPoints, PlannerPoints, Statuses
  <1> QED
    BY <1>1, <1>2, <1>3, ClientKeeps, PlannerKeeps, GoalKeeps, CycleKeeps
    DEF Next

\* What the steps above have established of the properties.
LEMMA InvariantImplies == IInv => SucceedsThere
  BY DEF SucceedsThere, Result

HIDE DEF IInv, TypeOK, IdleIsReset, RecoversStandingStill

-----------------------------------------------------------------------------
(* The theorems.                                                           *)

\* The inductive invariant: the agreement of the two threads on state_, the
\* order of the goals, and where the plan for the current goal is.
THEOREM MoveBaseInvariant == Spec => []IInv
  BY InitInvariant, NextKeeps, PTL DEF Spec

\* Types, and that no more than the configured recoveries are counted.
THEOREM TypeCorrect == Spec => []TypeOK
  <1>1. IInv => TypeOK
    BY DEF IInv
  <1> QED  BY <1>1, MoveBaseInvariant, PTL

\* Between two goals the machine is reset and the robot stands still, whatever
\* planThread was doing when the last goal ended (executeCb, resetState).
THEOREM IdleStands == Spec => []IdleIsReset
  <1>1. IInv => IdleIsReset
    BY DEF IInv
  <1> QED  BY <1>1, MoveBaseInvariant, PTL

\* In a recovery for a missing plan or command the robot stands or is being
\* told to, by planThread with the mutex in its hands; a goal is given up only
\* when it stands.
THEOREM RecoveriesStand == Spec => []RecoversStandingStill
  <1>1. IInv => RecoversStandingStill
    BY DEF IInv, ClearingStands
  <1> QED  BY <1>1, MoveBaseInvariant, PTL

\* A goal that succeeds has been reached, unless a plan for another goal came
\* while it was active or one came in the middle of a control cycle.
THEOREM SuccessIsThere == Spec => []SucceedsThere
  BY InvariantImplies, MoveBaseInvariant, PTL

-----------------------------------------------------------------------------
(* MoveBase implements GoalServer.                                         *)

\* Only the last goal waits to be taken up, only the current one is worked
\* on, a result that was set is set again to the same, and the client waits
\* for a success where it has to.
OneAtATime ==
    /\ \A g \in Goals : status[g] = "sent" => g = pending
    /\ \A g \in Goals : status[g] = "active" => g = current /\ exec # "idle"
    /\ exec \in {"ending", "reset"} =>
        /\ status[current] = "ABORTED" => outcome = "ABORTED"
        /\ outcome = "PREEMPTED" => cancelled
    /\ sent # 0 => status[sent] # "unsent"
    /\ client = "waiting" => sent # 0
    /\ client \in {"ready", "waiting"} => ~cancelled
    /\ client = "ready" /\ sent # 0 =>
        sent \in Via \/ status[sent] = "SUCCEEDED"

\* What the invariant says of goals.
LEMMA GoalFacts ==
  ASSUME IInv
  PROVE  /\ sent \in 0..MaxGoals /\ current \in 0..MaxGoals
         /\ MaxGoals \in Nat /\ MaxGoals >= 1
         /\ status \in [Goals -> Statuses]
         /\ outcome \in {"SUCCEEDED", "PREEMPTED", "ABORTED"}
         /\ GoalsInOrder
  BY DEF IInv, TypeOK

HIDE DEF GoalsInOrder, ThreadsAgree, ClearingStands, ReachedIsHere,
         PlanIsCurrent

\* Steps that send, take up and end no goal.
Goalless == UNCHANGED <<client, sent, cancelled, pending, current, status>>

LEMMA GoallessKeeps ==
  ASSUME IInv, OneAtATime, Goalless,
         exec # "idle" => exec' # "idle",
         exec' \in {"ending", "reset"} =>
            \/ exec \in {"ending", "reset"} /\ outcome' = outcome
            \/ /\ exec \notin {"idle", "ending", "reset"}
               /\ outcome' = "PREEMPTED" => cancelled
  PROVE  OneAtATime' /\ UNCHANGED GS!vars
  BY GoalFacts DEF OneAtATime, Goalless, GoalsInOrder, GS!vars

\* Planner thread, timer and robot leave the goals alone, and so do most steps
\* of executeCb.
LEMMA MostStepsKeep ==
  ASSUME IInv, OneAtATime,
         \/ Drive \/ WakePlanner \/ Planner \/ UNCHANGED vars
         \/ NewGoalToPlanner \/ Preempt \/ DisablePlanner
         \/ Moved \/ NotCurrent \/ LookForPlan \/ SwapPlans \/ Switch
         \/ KeepPlanning \/ GoalReached \/ Oscillation \/ Control
         \/ ControlFails \/ Recover
  PROVE  OneAtATime' /\ UNCHANGED GS!vars
  <1>1. CASE Drive \/ WakePlanner \/ UNCHANGED vars
    BY <1>1, GoallessKeeps DEF Drive, WakePlanner, vars, Goalless
  <1>2. CASE Planner
    <2>1. Goalless /\ UNCHANGED <<exec, outcome>>
      BY <1>2 DEF Planner, PlannerWakes, PlanFound, PlanFails, PlannerGivesUp,
           StopForRecovery, NamePlanningTheTrigger, PlannerRests, PlannerWaits, PlannerHurries, Goalless
    <2> QED  BY <2>1, GoallessKeeps
  <1>3. CASE NewGoalToPlanner \/ Preempt \/ DisablePlanner \/ GoalReached
    BY <1>3, GoallessKeeps
       DEF NewGoalToPlanner, Preempt, DisablePlanner, GoalReached, Goalless
  <1>4. CASE Moved \/ NotCurrent \/ LookForPlan \/ SwapPlans
    BY <1>4, GoallessKeeps
       DEF Moved, NotCurrent, LookForPlan, SwapPlans, InCycle, Goalless
  <1>5. CASE Switch
    <2>1. exec' \notin {"idle", "ending", "reset"} /\ Goalless
      BY <1>5 DEF Switch, IInv, TypeOK, Goalless
    <2> QED  BY <2>1, GoallessKeeps
  <1>6. CASE KeepPlanning \/ Oscillation \/ Control \/ ControlFails \/ Recover
    BY <1>6, GoallessKeeps DEF KeepPlanning, Oscillation, Control,
         ControlFails, Controlling, Recover, Goalless
  <1> QED  BY <1>1, <1>2, <1>3, <1>4, <1>5, <1>6

LEMMA ClientSteps ==
  ASSUME IInv, OneAtATime, Client
  PROVE  OneAtATime' /\ (GS!Next \/ UNCHANGED GS!vars)
  <1>1. CASE SendGoal
    <2>1. /\ sent < MaxGoals /\ ~cancelled /\ UNCHANGED <<cancelled, exec,
                                                        outcome, current>>
          /\ sent' = sent + 1 /\ pending' = sent + 1 /\ client' = "waiting"
          /\ sent = 0 \/ sent \in Via \/ status[sent] = "SUCCEEDED"
          /\ sent \in Nat /\ sent + 1 \in Goals /\ sent + 1 # current
      BY <1>1, GoalFacts DEF SendGoal, OneAtATime, GoalsInOrder, Goals
    <2>2. status' = [g \in Goals |->
                      IF g = sent + 1 THEN "sent"
                      ELSE IF status[g] = "sent" THEN "RECALLED" ELSE status[g]]
      <3>1. \A g \in Goals : g # sent + 1 => (g = pending <=> status[g] = "sent")
        BY GoalFacts DEF OneAtATime, GoalsInOrder, Goals, None
      <3>2. status' = [g \in Goals |->
                        CASE g = sent + 1 -> "sent"
                          [] g = pending  -> "RECALLED"
                          [] OTHER        -> status[g]]
        BY <1>1 DEF SendGoal
      <3>3. \A g \in Goals :
              (CASE g = sent + 1 -> "sent"
                 [] g = pending  -> "RECALLED"
                 [] OTHER        -> status[g])
              = IF g = sent + 1 THEN "sent"
                ELSE IF status[g] = "sent" THEN "RECALLED" ELSE status[g]
        <4> SUFFICES ASSUME NEW g \in Goals
                     PROVE  (CASE g = sent + 1 -> "sent"
                               [] g = pending  -> "RECALLED"
                               [] OTHER        -> status[g])
                            = IF g = sent + 1 THEN "sent"
                              ELSE IF status[g] = "sent" THEN "RECALLED"
                              ELSE status[g]
          OBVIOUS
        <4>1. g = sent + 1 => g # pending
          BY GoalFacts DEF GoalsInOrder, Goals, None
        <4> QED  BY <3>1, <4>1
      <3> QED  BY <3>2, <3>3
    <2>3. exec # "idle" => current \in Goals /\ status'[current] =
              IF status[current] = "sent" THEN "RECALLED" ELSE status[current]
      BY <2>1, <2>2, GoalFacts DEF GoalsInOrder, Goals, None
    <2>4. GS!Send
      BY <2>1, <2>2 DEF GS!Send, GS!Goals, Goals
    <2>5. OneAtATime'
      <3>1. \A g \in Goals : status'[g] = "sent" => g = pending'
        BY <2>1, <2>2
      <3>2. \A g \in Goals : status'[g] = "active" => status[g] = "active"
        BY <2>2
      <3>3. exec \in {"ending", "reset"} /\ status'[current] = "ABORTED" =>
                status[current] = "ABORTED"
        BY <2>3
      <3>4. status'[sent'] = "sent"
        BY <2>1, <2>2
      <3> QED  BY <2>1, <3>1, <3>2, <3>3, <3>4 DEF OneAtATime
    <2> QED  BY <2>4, <2>5 DEF GS!Next
  <1>2. CASE HandOver \/ TakeResult \/ Shutdown
    <2>1. OneAtATime'
      BY <1>2, GoalFacts DEF HandOver, TakeResult, Shutdown, OneAtATime
    <2>2. UNCHANGED GS!vars
      BY <1>2 DEF HandOver, TakeResult, Shutdown, GS!vars
    <2> QED  BY <2>1, <2>2
  <1>3. CASE CancelGoal
    <2>1. OneAtATime'
      <3>1. /\ client' = "stopping" /\ cancelled' = TRUE
            /\ UNCHANGED <<sent, pending, current, status, exec, outcome>>
        BY <1>3 DEF CancelGoal
      <3> QED  BY <3>1 DEF OneAtATime
    <2>2. sent \in Goals /\ status[sent] \in {"sent", "active"}
      <3>1. status[sent] \notin Ended /\ client = "waiting"
        BY <1>3 DEF CancelGoal
      <3>2. sent \in Goals /\ status[sent] # "unsent"
        BY <3>1, GoalFacts DEF OneAtATime, Goals
      <3> QED  BY <3>1, <3>2, GoalFacts DEF Statuses, Ended
    <2>3. GS!Cancel
      BY <1>3, <2>2 DEF CancelGoal, GS!Cancel, GS!Goals, Goals
    <2> QED  BY <2>1, <2>3 DEF GS!Next
  <1> QED  BY <1>1, <1>2, <1>3 DEF Client

\* A goal is taken up in Execute and in AcceptNewGoal.
LEMMA AcceptStep ==
  ASSUME IInv, OneAtATime, Execute \/ AcceptNewGoal
  PROVE  OneAtATime' /\ GS!TakeUp
  <1>1. /\ pending = sent /\ sent \in Goals /\ status[sent] = "sent"
        /\ current' = sent /\ pending' = None
        /\ exec' \notin {"idle", "ending", "reset"}
        /\ UNCHANGED <<sent, cancelled, client>>
    BY GoalFacts DEF Execute, AcceptNewGoal, Accept, GoalsInOrder, Goals, None
  <1>2. status' = [g \in Goals |->
                    IF g = sent THEN "active"
                    ELSE IF status[g] = "active" THEN "PREEMPTED"
                    ELSE status[g]]
    <2>1. status' = [g \in Goals |->
                      CASE g = pending -> "active"
                        [] g = current /\ status[g] = "active" -> "PREEMPTED"
                        [] OTHER -> status[g]]
      BY DEF Execute, AcceptNewGoal, Accept
    <2>2. \A g \in Goals :
            (CASE g = pending -> "active"
               [] g = current /\ status[g] = "active" -> "PREEMPTED"
               [] OTHER -> status[g])
            = IF g = sent THEN "active"
              ELSE IF status[g] = "active" THEN "PREEMPTED" ELSE status[g]
      BY <1>1 DEF OneAtATime
    <2> QED  BY <2>1, <2>2
  <1>3. OneAtATime'
    <2>1. \A g \in Goals : status'[g] # "sent"
      BY <1>1, <1>2 DEF OneAtATime
    <2>2. \A g \in Goals : status'[g] = "active" => g = current'
      BY <1>1, <1>2
    <2>3. client = "ready" /\ sent # 0 => sent \in Via
      BY <1>1 DEF OneAtATime
    <2>4. status'[sent] = "active"
      BY <1>1, <1>2
    <2> QED  BY <1>1, <2>1, <2>2, <2>3, <2>4 DEF OneAtATime
  <1>4. GS!TakeUp
    BY <1>1, <1>2 DEF GS!TakeUp, GS!Goals, Goals
  <1> QED  BY <1>3, <1>4

\* The result is set by resetState, or before it when everything failed.
LEMMA EndStep ==
  ASSUME IInv, OneAtATime, ResetState \/ GiveUp
  PROVE  OneAtATime' /\ (GS!Next \/ UNCHANGED GS!vars)
  <1>0. /\ current \in Goals
        /\ UNCHANGED <<client, sent, cancelled, pending, current>>
    BY GoalFacts DEF ResetState, GiveUp, GoalsInOrder, Goals, None
  <1> DEFINE result == status'[current]
  <1>1. /\ status' = [status EXCEPT ![current] = result]
        /\ result \in {"SUCCEEDED", "PREEMPTED", "ABORTED"}
        /\ status[current] = "active" \/ status[current] = result
        /\ result = "PREEMPTED" => cancelled
    <2>1. CASE ResetState
      <3>1. exec = "reset" /\ status' = [status EXCEPT ![current] = outcome]
        BY <2>1 DEF ResetState
      <3>2. result = outcome
        BY <1>0, <3>1, GoalFacts
      <3> QED  BY <3>1, <3>2, GoalFacts DEF OneAtATime, GoalsInOrder
    <2>2. CASE GiveUp
      <3>1. exec = "CLEARING" /\ status' = [status EXCEPT ![current] = "ABORTED"]
        BY <2>2 DEF GiveUp
      <3>2. result = "ABORTED"
        BY <1>0, <3>1, GoalFacts
      <3> QED  BY <3>1, <3>2, GoalFacts DEF GoalsInOrder
    <2> QED  BY <2>1, <2>2
  <1>2. /\ exec' \in {"idle", "ending"}
        /\ exec' = "ending" => outcome' = "ABORTED"
    BY DEF ResetState, GiveUp
  <1> HIDE DEF result
  <1>3. OneAtATime'
    <2>1. \A g \in Goals : status'[g] \in {"sent", "active"} =>
                g # current /\ status'[g] = status[g]
      BY <1>0, <1>1, GoalFacts
    <2>2. client = "ready" /\ sent # 0 =>
                sent \in Via \/ status'[sent] = "SUCCEEDED"
      BY <1>0, <1>1, GoalFacts DEF OneAtATime
    <2>3. sent # 0 => status'[sent] # "unsent"
      BY <1>0, <1>1, GoalFacts DEF OneAtATime
    <2> QED  BY <1>0, <1>2, <2>1, <2>2, <2>3 DEF OneAtATime
  <1>4. CASE status[current] = "active"
    <2>1. GS!End(current, result)
      BY <1>0, <1>1, <1>4 DEF GS!End
    <2> QED  BY <1>0, <1>1, <1>3, <2>1 DEF GS!Next, GS!Goals, Goals
  <1>5. CASE status[current] = result
    <2>1. status' = status
      BY <1>0, <1>1, <1>5, GoalFacts
    <2> QED  BY <1>0, <1>3, <2>1 DEF GS!vars
  <1> QED  BY <1>1, <1>4, <1>5

\* The navigation server implements GoalServer: for any goals, hand-overs,
\* recoveries and failures, and any interleaving of planThread, executeCb and
\* the client, goals are taken up in order and one at a time, and the result
\* the client gets is the only one there will be.
THEOREM ImplementsGoalServer == Spec => ResultsAreFinal
  <1>1. Init => OneAtATime /\ GS!Init
    BY DEF Init, OneAtATime, GS!Init, GS!Goals, Goals
  <1>2. IInv /\ OneAtATime /\ [Next]_vars =>
            OneAtATime' /\ [GS!Next]_(GS!vars)
    BY MostStepsKeep, ClientSteps, AcceptStep, EndStep
       DEF Next, Goal, Cycle, GS!Next
  <1> QED  BY <1>1, <1>2, MoveBaseInvariant, PTL
           DEF Spec, ResultsAreFinal, GS!Spec
=============================================================================

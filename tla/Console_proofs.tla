---------------------------- MODULE Console_proofs ----------------------------
(***************************************************************************)
(* Proofs about Console, for any number of environments: whatever hangs,   *)
(* fails or is started in a terminal.                                      *)
(***************************************************************************)
EXTENDS Console, FiniteSetTheorems, TLAPS

\* The environments that are up are those of the last prepare_race.sh; while
\* an action prepares the next one, there is none.
OnlyTheLast ==
    /\ \A e \in Environments : Alive(e) => e = PREP
    /\ PREP # None => env[PREP] # "unborn" /\ OBSERVER
    /\ BUSY = "prepare" => ~Running
    /\ \A e \in service : env[e] \in {"ready", "stopping", "closing", "ending"}

\* Who released a car: one call of the service for each environment, and the
\* script of the console only while its action waits for it.
OneRelease ==
    /\ \A e \in Environments : grants[e] = IF released[e] THEN 1 ELSE 0
    /\ BUSY = "start" => basis = PREP
    /\ script["console"] = "waiting" => BUSY = "start"
    /\ StartsThisEnvironment

\* Reports of earlier environments do not say ready, and none says it any
\* more when the next environment is prepared.
OldReports ==
    /\ \A r \in pipe : r.age = 0 /\ (r.of # PREP => ~r.ready)
    /\ DATA.of # PREP => ~DATA.ready
    /\ BUSY = "prepare" =>
        /\ \A r \in pipe : ~r.ready
        /\ step = "begin" => ~Ready
        /\ step # "begin" => ~DATA.ready

Down == {"closing", "ending", "dead"}

\* What the console knows of an environment that is going down.  Two ticks
\* pass before it has gone, with a report in each: the console still takes
\* the environment for ready as long as one of its reports that say so is
\* under way, and does not prepare the next one.
ShutdownIsSeen ==
    PREP # None =>
        /\ env[PREP] \in Down => \A r, s \in pipe : r = s
        /\ env[PREP] \in {"closing", "ending"} =>
            /\ \A r \in pipe : r.of = PREP /\ (~r.ready => PREP \notin service)
            /\ pipe # {} => emitted
            /\ emitted /\ pipe = {} =>
                /\ DATA.of = PREP /\ DATA.age = 0
                /\ ~DATA.ready => PREP \notin service
        /\ env[PREP] = "ending" =>
            /\ DATA.of = PREP /\ DATA.age <= 1
            /\ ~DATA.ready =>
                PREP \notin service /\ \A r \in pipe : ~r.ready
        /\ env[PREP] = "dead" /\ (\E r \in pipe : r.ready) =>
            DATA.ready /\ DATA.age <= 1

IInv == TypeOK /\ OnlyTheLast /\ OneRelease /\ OldReports /\ ShutdownIsSeen

LEMMA SetTrue ==
  ASSUME NEW S, NEW f \in [S -> BOOLEAN], NEW e
  PROVE  [f EXCEPT ![e] = TRUE] \in [S -> BOOLEAN]
  BY Zenon

USE ConsoleAssumption DEF None, Stale, Environments, Users, Report, NoReport,
    Alive, Master, Running, Ready, Down, StartsThisEnvironment,
    IInv, TypeOK, OnlyTheLast, OneRelease, OldReports, ShutdownIsSeen,
    consoleVars, observerVars, raceVars

\* The invariant holds at the start.
LEMMA InitInvariant == Init => IInv
  <1> SUFFICES ASSUME Init PROVE IInv
    OBVIOUS
  <1> USE DEF Init
  <1>1. TypeOK
    <2>1. /\ BUSY \in {"None", "prepare", "start", "stop"}
          /\ step \in {"begin", "terminating", "waiting", "done"}
          /\ STARTED \in BOOLEAN /\ OBSERVER \in BOOLEAN /\ emitted \in BOOLEAN
          /\ DATA \in Report \union {NoReport}
          /\ PREP = 0 /\ basis = 0 /\ pipe = {} /\ service = {}
      OBVIOUS
    <2>2. /\ env \in [Environments -> {"unborn", "sourcing", "starting",
                          "ready", "stopping", "closing", "ending", "dead"}]
          /\ script \in [Users -> {"none", "waiting", "granted", "refused"}]
      OBVIOUS
    <2>3. released \in [Environments -> BOOLEAN]
      BY Zenon
    <2>4. /\ origin \in [Environments -> Environments \union {None}]
          /\ grants \in [Environments -> 0 .. 2]
      OBVIOUS
    <2> QED  BY <2>1, <2>2, <2>3, <2>4
  <1>2. OnlyTheLast
    OBVIOUS
  <1>3. OneRelease
    OBVIOUS
  <1>4. OldReports /\ ShutdownIsSeen
    OBVIOUS
  <1> QED  BY <1>1, <1>2, <1>3, <1>4

-----------------------------------------------------------------------------
(* It is kept by the environments, the observer and the passing of time.   *)

LEMMA EnvironmentKeeps ==
  ASSUME IInv, NEW e \in Environments,
         Advance(e) \/ Fail(e) \/ Unregister(e) \/ End(e)
  PROVE  IInv'
  <1>1. CASE Advance(e)
    <2> USE <1>1 DEF Advance
    <2>0. /\ e = PREP
          /\ \/ env' = [env EXCEPT ![e] = "starting"] /\ service' = service
             \/ env' = [env EXCEPT ![e] = "ready"]
                /\ service' = service \union {e}
      OBVIOUS
    <2>1. TypeOK'
      <3>1. /\ env' \in [Environments -> {"unborn", "sourcing", "starting",
                          "ready", "stopping", "closing", "ending", "dead"}]
            /\ service' \subseteq Environments
        BY <2>0
      <3> QED  BY <3>1
    <2>2. OnlyTheLast'
      <3>1. \A d \in Environments \ {e} : env'[d] = env[d]
        BY <2>0
      <3>2. env'[e] \in {"starting", "ready"}
        BY <2>0
      <3>3. \A d \in service' : d # e => d \in service
        BY <2>0
      <3>4. e \in service' => env'[e] = "ready"
        OBVIOUS
      <3>5. PREP' = PREP /\ BUSY' = BUSY
        OBVIOUS
      <3> QED  BY <2>0, <3>1, <3>2, <3>3, <3>4, <3>5
    <2>3. OneRelease'
      OBVIOUS
    <2>4. OldReports'
      OBVIOUS
    <2>5. ShutdownIsSeen'
      OBVIOUS
    <2> QED  BY <2>1, <2>2, <2>3, <2>4, <2>5
  <1>2. CASE Fail(e)
    BY <1>2 DEF Fail
  <1>3. CASE Unregister(e)
    BY <1>3 DEF Unregister
  <1>4. CASE End(e)
    BY <1>4 DEF End
  <1> QED  BY <1>1, <1>2, <1>3, <1>4

LEMMA EmitKeeps ==
  ASSUME IInv, NEW e \in Environments, Emit(e)
  PROVE  IInv'
  <1> USE DEF Emit
  <1>0. PICK r \in Report :
            /\ r.of = e /\ r.age = 0 /\ (r.ready <=> e \in service)
            /\ pipe' = pipe \union {r}
    <2> DEFINE r == [of |-> e, ready |-> e \in service, age |-> 0]
    <2>1. pipe' = pipe \union {r}
      OBVIOUS
    <2>2. r \in Report /\ r.of = e /\ r.age = 0 /\ r.ready = (e \in service)
      OBVIOUS
    <2> HIDE DEF r
    <2> QED  BY <2>1, <2>2
  <1>1. TypeOK'
    BY <1>0
  <1>2. OnlyTheLast'
    OBVIOUS
  <1>3. OneRelease'
    OBVIOUS
  <1>4. OldReports'
    <2>1. e = PREP /\ BUSY # "prepare"
      <3>1. Alive(e)
        OBVIOUS
      <3>2. e = PREP /\ PREP # None
        BY <3>1
      <3> QED  BY <3>1, <3>2
    <2>2. UNCHANGED <<BUSY, step, PREP, DATA>>
      OBVIOUS
    <2>3. \A x \in pipe' : x.age = 0 /\ (x.of # PREP => ~x.ready)
      BY <1>0, <2>1
    <2> QED  BY <2>1, <2>2, <2>3
  <1>5. ShutdownIsSeen'
    <2>1. /\ e = PREP /\ env[PREP] # "dead" /\ ~emitted /\ emitted'
          /\ UNCHANGED <<env, PREP, service, DATA>>
      OBVIOUS
    <2>2. env[PREP] \in {"closing", "ending"} => pipe' = {r}
      BY <1>0, <2>1
    <2> QED  BY <1>0, <2>1, <2>2
  <1> QED  BY <1>1, <1>2, <1>3, <1>4, <1>5

LEMMA ReadKeeps ==
  ASSUME IInv, NEW report \in pipe, ReadOutput(report)
  PROVE  IInv'
  BY DEF ReadOutput

LEMMA TickKeeps == IInv /\ Tick => IInv'
  <1> SUFFICES ASSUME IInv, Tick PROVE IInv'
    OBVIOUS
  <1> DEFINE age == IF DATA.age < 3 THEN DATA.age + 1 ELSE 3
  <1>1. DATA' = [of |-> DATA.of, ready |-> DATA.ready, age |-> age]
    BY DEF Tick, Older
  <1>2. /\ pipe = {} /\ emitted' = FALSE
        /\ OBSERVER /\ (\E e \in Environments : Master(e)) => emitted
        /\ env' = [e \in Environments |->
                    CASE env[e] = "stopping" -> "closing"
                      [] env[e] = "closing"  -> "ending"
                      [] OTHER               -> env[e]]
        /\ UNCHANGED <<BUSY, step, STARTED, PREP, basis, OBSERVER, pipe,
                       service, released, origin, grants, script>>
    BY DEF Tick
  <1>3. TypeOK'
    <2>1. DATA' \in Report \union {NoReport}
      <3>1. CASE DATA = NoReport
        BY <1>1, <3>1
      <3>2. CASE DATA \in Report
        <4>1. age \in 0 .. 3
          BY <3>2
        <4> QED  BY <1>1, <3>2, <4>1
      <3> QED  BY <3>1, <3>2
    <2>2. env' \in [Environments -> {"unborn", "sourcing", "starting",
                          "ready", "stopping", "closing", "ending", "dead"}]
      BY <1>2
    <2> QED  BY <1>2, <2>1, <2>2
  <1>4. OnlyTheLast'
    BY <1>1, <1>2
  <1>5. OneRelease'
    BY <1>1, <1>2
  <1>6. OldReports'
    BY <1>1, <1>2
  <1>7. ShutdownIsSeen'
    <2> SUFFICES ASSUME PREP # None PROVE ShutdownIsSeen'
      BY <1>2
    <2>1. /\ PREP \in Environments /\ pipe' = {} /\ PREP' = PREP /\ ~emitted'
          /\ service' = service
      BY <1>2
    <2>2. env'[PREP] = "ending" => env[PREP] \in {"closing", "ending"}
      BY <1>2, <2>1
    <2>3. env[PREP] \in {"closing", "ending"} => emitted
      BY <1>2, <2>1
    <2>4. env[PREP] \in {"closing", "ending"} =>
            /\ DATA'.of = PREP /\ DATA'.age = 1 
            /\ ~DATA'.ready => PREP \notin service
      BY <1>1, <1>2, <2>3
    <2> QED  BY <2>1, <2>2, <2>4
  <1> QED  BY <1>3, <1>4, <1>5, <1>6, <1>7

-----------------------------------------------------------------------------
(* It is kept by requests and by the thread of an action.                  *)

LEMMA PostKeeps ==
  ASSUME IInv, PostPrepare \/ PostStart \/ PostStop
  PROVE  IInv'
  <1> USE DEF Idle, MayPrepare, Accept
  <1>1. CASE PostPrepare
    BY <1>1 DEF PostPrepare
  <1>2. CASE PostStart
    BY <1>2 DEF PostStart
  <1>3. CASE PostStop
    BY <1>3 DEF PostStop
  <1> QED  BY <1>1, <1>2, <1>3

LEMMA PrepareKeeps ==
  ASSUME IInv, PrepareForgets \/ ObserverHangs \/ PrepareSpawns
  PROVE  IInv'
  <1> USE DEF Finish, Forget
  <1>1. CASE PrepareForgets
    BY <1>1 DEF PrepareForgets
  <1>2. CASE ObserverHangs
    BY <1>2 DEF ObserverHangs
  <1>3. CASE PrepareSpawns
    <2> USE <1>3 DEF PrepareSpawns
    <2>1. TypeOK'
      OBVIOUS
    <2>2. OnlyTheLast'
      OBVIOUS
    <2>3. OneRelease'
      OBVIOUS
    <2>4. OldReports'
      OBVIOUS
    <2>5. ShutdownIsSeen'
      OBVIOUS
    <2> QED  BY <2>1, <2>2, <2>3, <2>4, <2>5
  <1> QED  BY <1>1, <1>2, <1>3

LEMMA StartKeeps ==
  ASSUME IInv, StartSpawns \/ StartReturns \/ StartFails
  PROVE  IInv'
  <1> USE DEF Finish
  <1>1. CASE StartSpawns
    BY <1>1 DEF StartSpawns
  <1>2. CASE StartReturns
    BY <1>2 DEF StartReturns, Confirms, Printed
  <1>3. CASE StartFails
    BY <1>3 DEF StartFails
  <1> QED  BY <1>1, <1>2, <1>3

LEMMA StopKeeps ==
  ASSUME IInv, StopSends \/ StopConfirmed \/ StopTimesOut
  PROVE  IInv'
  <1> USE DEF Finish
  <1>1. CASE StopSends
    BY <1>1 DEF StopSends
  <1>2. CASE StopConfirmed
    BY <1>2 DEF StopConfirmed
  <1>3. CASE StopTimesOut
    BY <1>3 DEF StopTimesOut
  <1> QED  BY <1>1, <1>2, <1>3

-----------------------------------------------------------------------------
(* It is kept by start_race.sh.                                            *)

LEMMA ScriptKeeps ==
  ASSUME IInv,
         RunInTerminal \/ \E u \in Users, e \in Environments : CallStart(u, e)
  PROVE  IInv'
  <1>1. CASE RunInTerminal
    BY <1>1 DEF RunInTerminal
  <1>2. ASSUME NEW u \in Users, NEW e \in Environments, CallStart(u, e)
        PROVE  IInv'
    <2> USE <1>2 DEF CallStart, Grants
    <2>0. /\ \/ ~released[e] /\ grants' = [grants EXCEPT ![e] = @ + 1]
             \/ released[e] /\ grants' = grants
          /\ released' = [released EXCEPT ![e] = TRUE]
          /\ origin' = origin \/ origin' = [origin EXCEPT ![e] = basis]
          /\ \E s \in {"granted", "refused"} : script' = [script EXCEPT ![u] = s]
      OBVIOUS
    <2>1. TypeOK'
      <3>1. released' \in [Environments -> BOOLEAN]
        <4>1. released \in [Environments -> BOOLEAN]
          OBVIOUS
        <4> QED  BY <2>0, <4>1, SetTrue
      <3>2. grants[e] \in 0 .. 1 /\ (~released[e] => grants[e] = 0)
        OBVIOUS
      <3>3. grants' \in [Environments -> 0 .. 2]
        BY <2>0, <3>2
      <3>4. origin' \in [Environments -> Environments \union {None}]
        BY <2>0
      <3>5. script' \in [Users -> {"none", "waiting", "granted", "refused"}]
        BY <2>0
      <3> QED  BY <3>1, <3>3, <3>4, <3>5
    <2>2. OnlyTheLast'
      OBVIOUS
    <2>3. OneRelease'
      <3>1. \A d \in Environments : grants'[d] = IF released'[d] THEN 1 ELSE 0
        BY <2>0
      <3>2. e = PREP
        OBVIOUS
      <3>3. u = "console" => BUSY = "start" /\ basis = e
        BY <3>2
      <3>4. \A d \in Environments : origin'[d] \in {None, d}
        BY <3>3
      <3>5. script'["console"] = "waiting" => script["console"] = "waiting"
        BY <2>0
      <3> QED  BY <3>1, <3>4, <3>5
    <2>4. OldReports'
      OBVIOUS
    <2>5. ShutdownIsSeen'
      OBVIOUS
    <2> QED  BY <2>1, <2>2, <2>3, <2>4, <2>5
  <1> QED  BY <1>1, <1>2

LEMMA NextKeeps == IInv /\ [Next]_vars => IInv'
  <1> SUFFICES ASSUME IInv, [Next]_vars PROVE IInv'
    OBVIOUS
  <1>1. CASE UNCHANGED vars
    BY <1>1 DEF vars
  <1>2. CASE Next
    BY <1>2, EnvironmentKeeps, EmitKeeps, ReadKeeps, TickKeeps, PostKeeps,
       PrepareKeeps, StartKeeps, StopKeeps, ScriptKeeps
    DEF Next, ActionThread
  <1> QED  BY <1>1, <1>2

HIDE DEF IInv, TypeOK, StartsThisEnvironment

-----------------------------------------------------------------------------
(* The theorems.                                                           *)

\* The inductive invariant: what is up, what the reports under way can say
\* of it, and who may still release a car.
THEOREM ConsoleInvariant == Spec => []IInv
  BY InitInvariant, NextKeeps, PTL DEF Spec

\* Types of the console, its processes and the environments.
THEOREM TypeCorrect == Spec => []TypeOK
  <1>1. IInv => TypeOK
    BY DEF IInv
  <1> QED  BY <1>1, ConsoleInvariant, PTL

\* do_POST refuses prepare until the environment before has gone, although
\* it sees no more of it than a process and reports.
THEOREM EnvironmentsApart == Spec => []OneEnvironment
  <1>1. ASSUME IInv PROVE OneEnvironment
    <2> DEFINE up == {e \in Environments : Alive(e)}
    <2>1. up \subseteq {PREP}
      BY <1>1 DEF IInv, OnlyTheLast
    <2>2. IsFiniteSet({PREP}) /\ Cardinality({PREP}) = 1
      BY FS_Singleton
    <2>3. Cardinality(up) <= 1
      BY <2>1, <2>2, FS_Subset
    <2> QED  BY <2>3 DEF OneEnvironment
  <1>2. IInv => OneEnvironment
    BY <1>1
  <1> QED  BY <1>2, ConsoleInvariant, PTL

\* A report that lets a start through is on the environment that is up.
THEOREM ReadinessIsCurrent == Spec => []ReadyIsCurrent
  <1>1. IInv => ReadyIsCurrent
    BY DEF IInv, OldReports, ReadyIsCurrent, Ready
  <1> QED  BY <1>1, ConsoleInvariant, PTL

\* run_action releases the car of the environment the request was made for.
THEOREM StartsItsEnvironment == Spec => []StartsThisEnvironment
  <1>1. IInv => StartsThisEnvironment
    BY DEF IInv, OneRelease
  <1> QED  BY <1>1, ConsoleInvariant, PTL

\* start_motion_callback lets a car go once, whoever asks and how often.
THEOREM StartsOnce == Spec => []StartedOnce
  <1>1. IInv => StartedOnce
    BY DEF IInv, OneRelease, StartedOnce
  <1> QED  BY <1>1, ConsoleInvariant, PTL
=============================================================================

------------------------------- MODULE Console -------------------------------
(***************************************************************************)
(* The race web console (tools/web_console/server.py) with the processes   *)
(* it runs: prepare_race.sh, which is there as long as the roslaunch of an *)
(* environment, ros_observer.py, start_race.sh and stop_race.sh, and the   *)
(* start service of the navigation node.                                   *)
(*                                                                         *)
(* Requests are served by threads of their own; BUSY lets one of them      *)
(* start an action, whose thread then works without the lock.  Meanwhile   *)
(* environments start up, stop or fail, the observer reports, reports get  *)
(* old, and start_race.sh may be run in a terminal as well.                *)
(*                                                                         *)
(* Environments are numbered in the order they are launched.  A report is  *)
(* what the observer saw of the environment of its time.  Time passes in   *)
(* ticks of 2 s, the observer's period: a report is read within the tick,  *)
(* and roslaunch, which gives its nodes 15 s and ends the master last,     *)
(* takes two ticks at least to shut down.  A time-out (20 s, 25 s, 5 s)    *)
(* may come at any moment of the waiting.  Not modelled: a second console, *)
(* and environments launched in a terminal, which the console's README     *)
(* excludes; logs and the board readings that are only displayed.          *)
(***************************************************************************)
EXTENDS Naturals, FiniteSets

CONSTANT MaxEnvironments     \* environments launched (bound)

ASSUME ConsoleAssumption == MaxEnvironments \in Nat \ {0}

Environments == 1 .. MaxEnvironments
None == 0
Stale == 3                   \* 6 s
Report == [of : Environments, ready : BOOLEAN, age : 0 .. Stale]
NoReport == [of |-> None, ready |-> FALSE, age |-> Stale]
Users == {"console", "terminal"}

VARIABLES
    \* the console
    BUSY, step,      \* the action in progress and how far its thread is
    STARTED,         \* whether a start of this environment was confirmed
    DATA,            \* the last report
    PREP,            \* the environment of the last prepare_race.sh
    basis,           \* the environment whose report let the start through
    \* the observer: running or not, what it reported and nobody has read
    OBSERVER, pipe, emitted,
    \* environments, and whether the start service was called with success
    env, service,    \* those whose start service is registered
    released,
    origin,          \* basis of that call, if it was the console's
    grants,          \* calls the start service answered with success (recording)
    script           \* the start_race.sh of console and terminal

consoleVars == <<BUSY, step, STARTED, DATA, PREP, basis>>
observerVars == <<OBSERVER, pipe, emitted>>
raceVars == <<env, service, released, origin, grants, script>>

vars == <<consoleVars, observerVars, raceVars>>

Init ==
    /\ BUSY = "None" /\ step = "done" /\ STARTED = FALSE /\ DATA = NoReport
    /\ PREP = None /\ basis = None
    /\ OBSERVER = FALSE /\ pipe = {} /\ emitted = FALSE
    /\ env = [e \in Environments |-> "unborn"]
    /\ service = {}
    /\ released = [e \in Environments |-> FALSE]
    /\ origin = [e \in Environments |-> None]
    /\ grants = [e \in Environments |-> 0]
    /\ script = [u \in Users |-> "none"]

-----------------------------------------------------------------------------
(* Environments: roslaunch, its master and the navigation node.            *)

Alive(e) == env[e] \notin {"unborn", "dead"}
Master(e) == env[e] \in {"starting", "ready", "stopping", "closing", "ending"}

\* roslaunch is there (before that, the script is still sourcing); later the
\* navigation node has found everything ready and offers its service.
Advance(e) ==
    /\ \/ /\ env[e] = "sourcing" /\ env' = [env EXCEPT ![e] = "starting"]
          /\ service' = service
       \/ /\ env[e] = "starting" /\ env' = [env EXCEPT ![e] = "ready"]
          /\ service' = service \union {e}
    /\ UNCHANGED <<consoleVars, observerVars, released, origin, grants,
                   script>>

\* It stops for a reason of its own, or by a stop_race.sh in a terminal.
Fail(e) ==
    /\ env[e] \in {"starting", "ready"}
    /\ env' = [env EXCEPT ![e] = "stopping"]
    /\ UNCHANGED <<consoleVars, observerVars, service, released, origin,
                   grants, script>>

\* The navigation node has gone, the others are still shutting down.
Unregister(e) ==
    /\ e \in service /\ env[e] \in {"stopping", "closing", "ending"}
    /\ service' = service \ {e}
    /\ UNCHANGED <<consoleVars, observerVars, env, released, origin,
                   grants, script>>

\* The last process has ended; prepare_race.sh returns.
End(e) ==
    /\ env[e] = "ending"
    /\ env' = [env EXCEPT ![e] = "dead"]
    /\ service' = service \ {e}
    /\ UNCHANGED <<consoleVars, observerVars, released, origin, grants,
                   script>>

-----------------------------------------------------------------------------
(* ros_observer.py, and time.                                              *)

\* getSystemState.
Emit(e) ==
    /\ OBSERVER /\ ~emitted /\ Master(e)
    /\ emitted' = TRUE
    /\ pipe' = pipe \union {[of |-> e, ready |-> e \in service, age |-> 0]}
    /\ UNCHANGED <<consoleVars, OBSERVER, raceVars>>

\* read_output, one thread per observer process.
ReadOutput(report) ==
    /\ report \in pipe
    /\ DATA' = report /\ pipe' = pipe \ {report}
    /\ UNCHANGED <<BUSY, step, STARTED, PREP, basis, OBSERVER, emitted,
                   raceVars>>

Older(age) == IF age < Stale THEN age + 1 ELSE Stale

Tick ==
    /\ pipe = {}
    /\ OBSERVER /\ (\E e \in Environments : Master(e)) => emitted
    /\ emitted' = FALSE
    /\ DATA' = [DATA EXCEPT !.age = Older(@)]
    /\ env' = [e \in Environments |->
                CASE env[e] = "stopping" -> "closing"
                  [] env[e] = "closing"  -> "ending"
                  [] OTHER               -> env[e]]
    /\ UNCHANGED <<BUSY, step, STARTED, PREP, basis, OBSERVER, pipe,
                   service, released, origin, grants, script>>

-----------------------------------------------------------------------------
(* do_POST, in a thread of its own, under LOCK.                            *)

\* snapshot()
Running == PREP # None /\ Alive(PREP)
Ready == DATA.age < Stale /\ DATA.ready

Idle == BUSY = "None"

\* Mutant: an environment that is up and not ready is not seen.
MayPrepareUnlessReady == Idle /\ ~Ready

\* Mutant: the report of an environment that has ended is not looked at.
MayPrepareUnlessRunning == Idle /\ ~Running

MayPrepare == Idle /\ ~Running /\ ~Ready

Accept(action) ==
    /\ BUSY' = action /\ step' = "begin"
    /\ UNCHANGED <<STARTED, DATA, PREP, observerVars, raceVars>>

PostPrepare == MayPrepare /\ Accept("prepare") /\ UNCHANGED basis

PostStart ==
    /\ Idle /\ Ready /\ ~STARTED
    /\ Accept("start") /\ basis' = DATA.of

PostStop == Idle /\ Accept("stop") /\ UNCHANGED basis

-----------------------------------------------------------------------------
(* run_action, the thread of the action.                                   *)

\* The finally clause.
Finish == BUSY' = "None" /\ step' = "done"

Forget == STARTED' = FALSE /\ DATA' = NoReport

PrepareForgets ==
    /\ BUSY = "prepare" /\ step = "begin"
    /\ step' = "terminating" /\ Forget
    /\ UNCHANGED <<BUSY, PREP, basis, observerVars, raceVars>>

\* The observer of the last environment outlives SIGTERM by 5 s.
ObserverHangs ==
    /\ BUSY = "prepare" /\ step = "terminating" /\ OBSERVER
    /\ Finish
    /\ UNCHANGED <<STARTED, DATA, PREP, basis, observerVars, raceVars>>

\* It is gone (what it wrote is not), and the next environment begins.
PrepareSpawns ==
    /\ BUSY = "prepare" /\ step = "terminating"
    /\ \E e \in Environments :
        /\ env[e] = "unborn" /\ \A d \in 1 .. e - 1 : env[d] # "unborn"
        /\ env' = [env EXCEPT ![e] = "sourcing"]
        /\ PREP' = e
    /\ OBSERVER' = TRUE /\ emitted' = FALSE
    /\ Finish
    /\ UNCHANGED <<STARTED, DATA, basis, pipe, service, released, origin, grants,
                   script>>

StartSpawns ==
    /\ BUSY = "start" /\ step = "begin"
    /\ step' = "waiting"
    /\ script' = [script EXCEPT !["console"] = "waiting"]
    /\ UNCHANGED <<BUSY, STARTED, DATA, PREP, basis, observerVars, env,
                   service, released, origin, grants>>

\* What start_race.sh prints of an answer, and what run_action looks for
\* when the exit code is 0: no line of the script has it.
Printed(answer) == IF answer = "granted" THEN {"released"} ELSE {"not again"}
Confirms(output) == "success: True" \in output

\* communicate() returns.  STARTED is set if the output confirms the start;
\* if not, the start is an error to the console, whatever the car does.
StartReturns ==
    /\ BUSY = "start" /\ step = "waiting"
    /\ script["console"] \in {"granted", "refused"}
    /\ STARTED' = (STARTED \/ Confirms(Printed(script["console"])))
    /\ script' = [script EXCEPT !["console"] = "none"]
    /\ Finish
    /\ UNCHANGED <<DATA, PREP, basis, observerVars, env, service, released,
                   origin, grants>>

\* Mutant: a script that is late is left to itself.
StartFailsLeft ==
    /\ BUSY = "start" /\ step = "waiting"
    /\ Finish
    /\ UNCHANGED <<STARTED, DATA, PREP, basis, observerVars, env, service,
                   released, origin, grants, script>>

\* The answer is lost, or 20 s are over and the script is killed, whatever it
\* has done by then ("outcome unknown").
StartFails ==
    /\ BUSY = "start" /\ step = "waiting"
    /\ script' = [script EXCEPT !["console"] = "none"]
    /\ Finish
    /\ UNCHANGED <<STARTED, DATA, PREP, basis, observerVars, env, service,
                   released, origin, grants>>

\* stop_race.sh: TERM to every roslaunch; one that is not there yet goes on.
StopSends ==
    /\ BUSY = "stop" /\ step = "begin"
    /\ env' = [e \in Environments |->
                IF env[e] \in {"starting", "ready"} THEN "stopping"
                                                    ELSE env[e]]
    /\ IF PREP = None THEN Finish
                      ELSE step' = "waiting" /\ BUSY' = BUSY
    /\ UNCHANGED <<STARTED, DATA, PREP, basis, observerVars, service,
                   released, origin, grants, script>>

\* prepare_race.sh has ended.
StopConfirmed ==
    /\ BUSY = "stop" /\ step = "waiting" /\ ~Alive(PREP)
    /\ STARTED' = FALSE
    /\ Finish
    /\ UNCHANGED <<DATA, PREP, basis, observerVars, raceVars>>

\* Mutant: wait() has no timeout.
StopTimesOutNever == FALSE

\* It has not after 25 s.
StopTimesOut ==
    /\ BUSY = "stop" /\ step = "waiting" /\ Alive(PREP)
    /\ Finish
    /\ UNCHANGED <<STARTED, DATA, PREP, basis, observerVars, raceVars>>

ActionThread ==
    \/ PrepareForgets \/ ObserverHangs \/ PrepareSpawns
    \/ StartSpawns \/ StartReturns \/ StartFails
    \/ StopSends \/ StopConfirmed \/ StopTimesOut

-----------------------------------------------------------------------------
(* start_race.sh and start_motion_callback of the navigation node.         *)

\* Run in a terminal, at any time ("may be run in advance").
RunInTerminal ==
    /\ script["terminal"] = "none"
    /\ script' = [script EXCEPT !["terminal"] = "waiting"]
    /\ UNCHANGED <<consoleVars, observerVars, env, service, released,
                   origin, grants>>

\* Mutant: the event is not looked at before it is set.
GrantsAlways(e) == TRUE

\* One success per navigation node: the event is tested and set under a lock.
Grants(e) == ~released[e]

\* wait_for_service is over, the callback answers.
CallStart(u, e) ==
    /\ script[u] = "waiting" /\ e \in service
    /\ released' = [released EXCEPT ![e] = TRUE]
    /\ IF Grants(e)
       THEN /\ grants' = [grants EXCEPT ![e] = @ + 1]
            /\ script' = [script EXCEPT ![u] = "granted"]
            /\ origin' = IF u = "console" THEN [origin EXCEPT ![e] = basis]
                         ELSE origin
       ELSE /\ script' = [script EXCEPT ![u] = "refused"]
            /\ UNCHANGED <<grants, origin>>
    /\ UNCHANGED <<consoleVars, observerVars, env, service>>

Next ==
    \/ \E e \in Environments :
        Advance(e) \/ Fail(e) \/ Unregister(e) \/ End(e) \/ Emit(e)
    \/ \E report \in pipe : ReadOutput(report)
    \/ Tick
    \/ PostPrepare \/ PostStart \/ PostStop
    \/ ActionThread
    \/ RunInTerminal
    \/ \E u \in Users, e \in Environments : CallStart(u, e)

Spec == Init /\ [][Next]_vars
FairSpec == Spec /\ WF_vars(ActionThread)

-----------------------------------------------------------------------------
(* Properties.                                                             *)

TypeOK ==
    /\ BUSY \in {"None", "prepare", "start", "stop"}
    /\ step \in {"begin", "terminating", "waiting", "done"}
    /\ STARTED \in BOOLEAN
    /\ DATA \in Report \union {NoReport}
    /\ PREP \in Environments \union {None}
    /\ basis \in Environments \union {None}
    /\ OBSERVER \in BOOLEAN /\ pipe \subseteq Report /\ emitted \in BOOLEAN
    /\ env \in [Environments -> {"unborn", "sourcing", "starting", "ready",
                                 "stopping", "closing", "ending", "dead"}]
    /\ service \subseteq Environments
    /\ released \in [Environments -> BOOLEAN]
    /\ origin \in [Environments -> Environments \union {None}]
    /\ grants \in [Environments -> 0 .. 2]
    /\ script \in [Users -> {"none", "waiting", "granted", "refused"}]

\* Two environments never run at once: prepare_race.sh is not started while
\* one is up, shutting down, or its script has not begun.
OneEnvironment == Cardinality({e \in Environments : Alive(e)}) <= 1

\* What lets a start through is a report on this environment, not one of an
\* environment before it that arrives late ("starts are not let through while
\* the service is not ready", web_console/README.md:33).
ReadyIsCurrent == Ready => DATA.of = PREP

\* A race that the console started was started by a request made for it: no
\* start_race.sh lives on and releases the car of the next environment.
StartsThisEnvironment == \A e \in Environments : origin[e] \in {None, e}

\* However often a start is asked for (the console forgets one that timed
\* out, and takes one that went through for an error), in the console or in a
\* terminal, the car of an environment is let go once.
StartedOnce == \A e \in Environments : grants[e] <= 1

\* No action keeps the console busy for ever, whatever hangs.
ActionEnds == BUSY # "None" ~> BUSY = "None"
=============================================================================

# Verification of the smart-pharmacy race software

TLA+ models, TLC checks and TLAPS proofs for the ROS package `pharmacy_ISCC`
(`src/src/pharmacy_ISCC`): one or two cars that read a task board, fetch samples
from the windows A, B and C, look at a second board that says whether the
laboratory is busy, and deliver to one of four laboratory windows. All paths
below are relative to `src/src/pharmacy_ISCC/` unless they begin with `src/`.

- [Inventory](#inventory) -- the system and what makes it correct
- [Modules](#modules) -- what models what
- [Runs](#runs) -- what TLC checks, with which bounds
- [Findings](#findings) -- where comments and code disagree
- [Proofs](#proofs) -- what TLAPS proves, and how
- [Assumptions](#assumptions) -- fairness, timing, abstractions
- [Not modelled](#not-modelled)
- [Plan](#plan)

## Inventory

### The parts and how they talk

```
             /pharmacy_vision/nav_state (latched)
  navigation ----------------------------------> vision
  F1_yaofang_v5.py <----------------------------- F1_detect_code_v5.py
     |  ^         cam_return, board2_return          | all_text
     |  | peer_done                                  v
     v  |                                         (same link node)
  round_done --> tcp_link_v2.py  == TCP, one connection per message ==  other car
```

Every box is a process; every subscription is a thread of its process; no lock
is shared between a callback and the main loop except `board2_result_lock` and
`pending_lock`.

| Part | State | Operations | Hard because |
|---|---|---|---|
| Navigation, two cars (`scripts/F1_yaofang_v5.py`) | `count`, `have_turn`, `peer_done_pending`, `turn_released_this_round`, `dual_round_seq`, `last_peer_done_seq`, `completed_rounds` | handlers of states 8-15, `release_next_car_if_needed`, `peer_done_callback` | the callback and the main loop both activate a round; the done comes late, twice, out of order or never; one car may stop |
| Link (`scripts/tcp_link_v2.py`) | `pending_msgs` with expiry, `last_peer_seq` | `round_done_cb`, `sender_loop`, one `handle_client` thread per connection | unlocked check-then-set in many threads, retries for a limited time, respawn forgets everything |
| Navigation, one car (same file) | task attributes, pickup flags, `pending_board1_tasks`, delivery counter, recovery stage, board-two result, planner tolerances | handlers of states 9-15, recovery at board one, two recognition callbacks, deadline | results arrive while the node drives, waits or times out; a cache that outlives many drives |
| Vision (`scripts/F1_detect_code_v5.py`) | `current_nav_state`, histories, `board1_published`, `board2_published`, `board2_visit` | `nav_state_cb`, main loop | globals reset by a callback while the loop is inside a detection or an 8 s alert |
| Task selection (`scripts/board1_detector.py:33-146`) | none (pure) | select, queue | ties, unknown texts, slot numbers that must survive |
| Shared board text (vision of car 1, two links, navigation of car 2) | sequence numbers in four processes of two cars, the latest text and whether it was used | publish, queue, dedup, use or fall back | a text of an earlier round, restarted counters |
| Recognition records (`scripts/recognition_records.py`) | SQLite database of the run, workbook, `export_lock`, `exported_path` | record (two processes), export (from the main thread and from the shutdown callback), restart | late record after export, failing export, shutdown on top of an export |
| Start gate, console (`F1_yaofang_v5.py:91-146`, `tools/web_console`) | gate released once; BUSY, STARTED, PREP, DATA and its age | prepare, start, stop, observer | unknown outcome of a timed-out request, stale readiness, environments that end on their own |
| YOLO worker (`scripts/board2_detector.py`, `board2_yolo_worker.py`) | two pipes, the worker's history, the request in progress | request, reply, cancel, restart | a late reply answering the next request, a history that spans two visits |
| Navigation server (`src/src/navigation-melodic/move_base`, `teb_local_planner`) | state, goal, three plan buffers, `runPlanner_`, recovery index | planThread, executeCb, timer, the mission's hand-over | two threads, half of the state without a lock, a new goal while the last is planned for |
| Stationary test (`tools/board2_visual_test.py`) | OncePerVisit gate | rearm, enable, take, finish | four threads, a callback that raises |

### What has to be true

*Two cars.* Never both between the start and the laboratory window; the turn is
neither lost nor doubled in any interleaving; strictly in turns, car 1 first;
each completed round released the turn once; if nobody stops, both complete
their rounds; the vision node is always told the state the car is in.

*Link.* Nothing is delivered that was not published; deduplication never eats a
done; a done stays queued until the other link node has it, as long as that is
reachable within the done's window.

*One car.* The tasks executed are those of the last recognition, in order,
none twice, none skipped; the board is read again exactly when two are delivered
or none is left; a task once accepted during a stop is not replaced; a load is
complete; the decision at the second board is made once, and a label of an
earlier round is dropped; the car stands still when it reads; and it goes on for
ever.

*Selection.* Whatever the board shows, the queue the vision node sends is one
the navigation node accepts, it has every valid slot once and in order, and car
2 takes exactly what car 1 would have taken next.

*Records.* The workbook of a run has each of its results once and none of
another run; a confirmed result is missing only if its insertion failed or came
after the run was closed; what the end of the run failed to export, the shutdown
makes good; and the shutdown ends.

*Shared text.* A text is used once, in the round it was read in, and car 2 takes
its task from it whenever nothing went wrong on the way.

*Console.* One environment at a time; readiness that is shown is that of the
environment that runs; a start reaches the environment it was asked for, and
each environment is started once; no action keeps the console busy for ever.

*Worker.* A reply is taken only for the request it answers; what a visit
publishes rests on frames of that visit, and on labels that agree; a visit that
goes on is answered, whatever dies or hangs in between.

*Navigation server.* Idle means reset; no recovery behaviour runs under a command
to move that lasts; a goal is reported as reached where the robot is
at it; every goal ends.

Everything that could go wrong and is hard to test is listed with its line in
`PROJECT.json`, `"hazards"`; one without a property says why.

## Modules

| Module | Models | Lines of the code |
|---|---|---|
| `Turnstile` | the promise: a stretch passed in turns | -- (abstract) |
| `DualTurn` | both navigation nodes, two threads each | `F1_yaofang_v5.py` 125-146, 173-227, 274-333, 346-402, 458-530, 627-778, 813-864, 1020-1044 |
| `TcpLink` | both link nodes | `tcp_link_v2.py` 55-112, 159-310, 312-410, 458-473 |
| `DualSystem` | `DualTurn` and `TcpLink` composed | also `tcp_link_v2.py` 460-473 |
| `Topics` | the ROS topics between navigation and vision | `F1_yaofang_v5.py` 229-260 |
| `Navigation` | the navigation node of a single car | `F1_yaofang_v5.py` 173-645, 866-1065, 1102-1167 |
| `Vision` | the vision node | `F1_detect_code_v5.py` 90-150, 306-335, 375-493, 526-645; `audio.py` 50-82 |
| `Courier` | the promise: tasks of a board fetched, decided on and delivered in order | -- (abstract) |
| `Mission` | `Navigation` and `Vision` composed | |
| `MCMission` | boards for TLC | |
| `Board1Select` | selection and queue | `board1_detector.py` 33-146; `F1_yaofang_v5.py` 840-852, 1104-1118 |
| `PeerBoard` | the board text from car 1 to car 2 | `F1_detect_code_v5.py` 343-372, 433-442; `tcp_link_v2.py` 59-150, 197-227, 413-458; `F1_yaofang_v5.py` 206-227, 323-356, 692-852; `launch/pharmacy_main.launch` 28-48 |
| `MCPeerBoard` | boards for TLC | |
| `Records` | records, their two writers and two exporters | `recognition_records.py` 24-103; `F1_yaofang_v5.py` 643-650, 885-892, 1169-1191 |
| `Console` | the web console, its scripts, the start gate | `tools/web_console/server.py` 22-174, `ros_observer.py` 28-39; `prepare_race.sh` 97-105, `start_race.sh` 15-36, `stop_race.sh`; `F1_yaofang_v5.py` 91-145 |
| `VisitAnswers` | the promise: a visit of board two is answered once, from labels in succession | -- (abstract) |
| `WorkerPipe` | recognition of board two by the worker process | `board2_detector.py` 152-281, `board2_yolo_worker.py` 187-311, `F1_detect_code_v5.py` 319-335, 449-493, 544-637 |
| `GoalServer` | the promise: goals taken up in order, one at a time, each with one result | -- (abstract) |
| `MoveBase` | the navigation server with its local planner, and its client | `src/src/navigation-melodic/move_base/src/move_base.cpp` 79-1137, `teb_local_planner_ros.cpp` 218-433; `F1_yaofang_v5.py` 990-1044, 1178-1191 |
| `X_proofs` | theorems about `X`, for eight modules `X`; those about `DualTurn` are in `DualSystem_proofs` | |

`PROJECT.json`, `"map"`, gives the lines of every definition. Of the program's
C++ only the navigation server is modelled: the rest of it is vendored drivers,
planners, filters and SDKs, and what the pharmacy package itself consists of is
Python.

### DualTurn

Each car has two program counters: `pc` for the main loop and `cb` for the rospy
thread in `peer_done_callback`. An action is the longest stretch of statements
that touches shared attributes once, so a step of the other thread fits between
every check and the assignment that relies on it: `HomeCheck` then `HomeYield`
or `HomeActivate`; `WaitCheck` then `WaitActivate` then `WaitGo`;
`CallbackCheck`, `CallbackActivate`, `CallbackGo`. Blocking calls (drives,
sleeps) are the points where `BlockingCallReturns` is a conjunct. The channel
between the cars is the weakest one: `ReceiveDone(c, seq)` may take any done the
peer ever published, any number of times, at any time. What a leg does (reading
boards, fetching) is left to `Mission`; here it ends or stops the node.

### TcpLink and DualSystem

The sender thread alternates between a snapshot (`Scan`), one attempt per
message of the snapshot (`SendOk`, `SendFails`) and a sleep; time passes in
failed attempts and sleeps only and expires queue entries. The handler threads of
a received done are counters: those that have yet to compare it with
`last_peer_seq` (`conns`, line 400), those that passed (`passed`), and those that
have set `last_peer_seq` (`marked`, 410) and have yet to publish (466). Between
the last two, another thread discards the same done though nothing was published
yet; `DiscardsOnlyHandled` counts the thread that is about to. `RestartLink`
forgets everything. In `DualSystem` the step that
increments `dual_round_seq` puts the done into the car's own link, the repeated
publications during `release_next_car_if_needed` renew it, and the callback of
the other car only gets what its link node published.

### Navigation, Vision, Mission

`Navigation` is the main thread as a program counter over the handlers, with a
drive as the span between the step that sends the goal and the step that ends
it, and the two recognition callbacks as actions that may run at any moment.
`Vision` is the main loop, split where it reads or writes a global that
`nav_state_cb` writes, and the callback, which has no lock either and is split
where the loop can tell: the state is set (`NavStateCb`, 320), then the readings
of the first board are cleared (`ClearReadings`, 323-325) and another
publication is allowed (`AllowBoard1`, 326), or the visit of the second is
counted (`CountVisit`, 330) and its publication allowed (`AllowBoard2`, 332).
Readings of the first board are whole task queues; a frame may be misread a
bounded number of times. Two history variables (`accepted`, `fetched`) and the
`age` of a frame, of a reading and of a result exist only for the properties: 1
when the frames behind it were taken before the car came to the board it is at.
`Mission` composes the two and states the timing. Its refinement mapping to
`Courier` keeps what the car has to deliver: `tasks` is the task in hand with
the cached ones (`TasksLeft`, which counts a task from the moment it is accepted
at the board), `verdict` the adopted result of board two. Drives, back-offs,
recoveries, topics and the whole vision node are stutters.

### Board1Select

The four slots' texts are sets of letters; all 9^4 boards (nine kinds of
slot, `SUBSET {A,B,C}` and "any other text") are initial states, and the loop of
`build_board1_task_queue` runs on each. `AcceptedBy` is the receiving check;
`Precedes` is the order the code's sort key and scan come to.

### PeerBoard

A text goes through the vision node of car 1, whose topic is latched, the link
node of car 1, which offers it for 3 s, the link node of car 2, one handler
thread per connection, and the navigation node of car 2, which keeps the latest
one and takes the second slot from it (the only one, if there is one) in place
of a stop at the board. Each of the four has a sequence number of its own:
`board1_all_text_seq`, `last_peer_board1_seq`, `last_received_peer_board1_seq`,
`last_used_peer_board1_seq`. A link node that dies is respawned at once and
receives the latched text again; the vision node that dies counts from 0.
The rounds of the two cars are those `DualTurn` promises: `StrictTurns` is what
lets this module put them one after the other.

### Records

`RecognitionRecords` is used by two processes that share the database (`run`,
`active_run`, `records`) and by two exporters in the navigation process: the
main thread after the last round and the shutdown callback. `at[e]` is where
each is in `export`: at the lock, in the transaction that closes the run and
reads its rows, before and after the workbook file is opened; between the last
two the file on disk is `Torn`. rospy runs the callback in the thread that asks
for the shutdown, so `EnterHook(TRUE)` suspends the main thread (`SignalShutdown`,
`Signal`) and `EnterHook(FALSE)` does not (`RemoteShutdown`). Transactions and
saves may fail a bounded number of times, and the process may be killed anywhere
and launched again. `late` and `dropped` exist only for `NothingMissing`.

### Console

A request is accepted under the lock (`PostPrepare`, `PostStart`, `PostStop`)
and worked on by a thread without it (`BUSY`, `step`). Environments are numbered
as they are launched and go through `env`: the script is sourcing, the nodes
start, the start service is there, roslaunch shuts down, all is gone; they fail
on their own, too. The observer writes what it sees into `pipe`; the console
reads it later, so a report may speak of an environment that is no longer the
one in `PREP`. `start_race.sh` runs for the console and in a terminal
(`script`); the gate of the navigation node is `released`, tested and set under
one lock (`Grants`).

### WorkerPipe

The vision loop writes a request and waits for a line of the reply, up to a
time-out and as long as the visit lasts; after either the worker is killed and
the pipes with it. Neither carries a number: `n`, the number of the detection
modulo 2, is in the model only so that a property can tell them apart.

A frame shows nothing, or a board that is not clear, that is read as what it is
or as something else (`Frames`); a label is what it says and the visits its
frames were taken in. `recognizer` is the worker's history, which it resets when
the visit it is told changes; frames that differ make any label, or none.
`board2_history` is the loop's: it is published when it is full and all its
labels say the same (464-493), and goes on when they differ. `nav_state_cb` is
three steps, the state (`Enter`, 320), the visit (`CountVisit`, 330) and the
rest (`ClearLabels`), so that a frame may be taken, and a request sent, with the
number of the last visit; `Stop` is the visit the car is really at.

To `VisitAnswers` everything about processes, pipes, time-outs and frames is a
stutter; its `streak` is the number of labels at the end of `board2_history` that
say the same (`Agreeing`), and 0 until the callback has cleared it.

### MoveBase

`planner` and `exec` are the program counters of planThread and of the action
server's thread. What `planner_mutex_` guards is changed in one step, what is
read or written without it (`state_`, `new_global_plan_`, the recovery
variables, the swap of the plan pointers) in a step of its own: planThread sets
`state_` to CLEARING (`PlannerGivesUp`, 615), publishes the zero command
(`StopForRecovery`, 617) and names the trigger (`NamePlanningTheTrigger`, 618),
and executeCycle, which reads `state_` without the mutex (859), may be anywhere
in between. The timer that ends planThread's pause is an action. `move()` is the
client: it sends a goal, waits, and for the via point sends the next goal
without a cancel as soon as the robot is close. `disturbed` records that a plan
for another goal came between, for `SucceedsThere`. To `GoalServer` only the
client, the acceptance of a goal and the setting of a result are steps.

## Runs

| Run | Question | Bounds, and why they suffice |
|---|---|---|
| `DualTurn_rounds` | exclusion, one turn, both finish, strict turns over the weakest channel | 3 rounds: first, a middle and a last round of each car differ in `pass_through` and shutdown; sequence numbers are only compared |
| `DualSystem_safe` | can deduplication eat a done? | 1 round, 2 handler threads of one seq (one marks, the other discards), 1 respawn per link, immediate expiry, nodes may stop; 2.5 million states. That an old done meets a new one takes two rounds: every number of rounds is covered by the theorem `DiscardsAreHarmless` |
| `DualSystem_retry` | is a done on its way until it is there, and do both finish, when failures are few? | 1 failed attempt per sender, window of 4 units, timeout 2, retry 1: one timed-out attempt with its sleep, and one more sleep before the next scan, fit, two do not; so it is with 3.0, 2.0 and 0.2 s (3.0 >= 1 * 2.2 + 0.2, 3.0 < 2 * 2.2). A successful attempt takes no time |
| `Mission` | what is executed, loaded and decided, does the car do what `Courier` promises, and does it go on? | queues of 2 and 3 tasks (shorter than, and longer than, a batch), stable readings of 2 frames, 2 misreads (as many as make a stable wrong reading), 1 respawn of the vision node, an alert that outlasts a short drive and detections that outlast a round; 1.7 million states |
| `Board1Select` | is the queue right and accepted, does car 2 take the next one? | none: every board |
| `PeerBoard` | is the right text used, and does it come through? | 2 rounds (an earlier one to mix up), boards with one slot and with two, 1 reading repeated in its round, 1 respawned link node, 1 fault (it must be harmless; `TextUsedOnce` for any number is the theorem `UsedOnce`) |
| `Records` | is the workbook the record of the run, and does the shutdown end? | 2 runs (an earlier one to mix up), 3 results, 2 failures (each exporter once, or one result and one exporter); no signal to the main thread while it exports, which is `Records_reentry` |
| `Console` | is the right environment started, once, and does the console stay usable? | 3 environments: one that ended, one that runs, one that is prepared meanwhile |
| `WorkerPipe` | does a reply belong to its request, is a visit answered once and from its own frames, and does the answer come? | 3 visits, 2 equal labels in succession, a worker history of 2 frames (the deployed 1 and 1 are the easier case), 2 frames that show nothing, are not clear or are read as something else (enough for labels that differ, and for a wrong answer), 2 faults; 0.8 million states |
| `MoveBase` | do two threads agree on goal, plan and state, and does every goal end, and once? | 2 goals (one handed over, and the next), 1 recovery behaviour, 2 faults (one starts a recovery, one fails in it) |
| `Records_reentry`, `MoveBase_handover` | the findings below | the smallest that show them |

`StableFrames` is 2 in the runs; `config/vision.yaml` has 3 for the first board and
1 for the second. Two is the smallest number for which a history can be mixed. Every property is one that a
plausible bug breaks; the mutants are listed in `PROJECT.json` and live next to
the operator they change.

## Findings

| Run | What the repository says | What the code does |
|---|---|---|
| `Records_reentry` | "正常结束与 shutdown 重入时不重复导出" (`recognition_records.py:76`) | a signal that finds the main thread exporting runs the shutdown callback on top of it; the callback waits for `export_lock`, which its own thread holds, and the process stays |
| `MoveBase_handover` | "到达最终停车点后才进入状态13识别" (`README.md:129`), the next goal taking over from the active one (136) | planThread plans without the lock for the goal that was active; a plan it publishes after the next goal was accepted is followed, and at its end the next goal is reported as reached: the robot is within the via point's tolerance, and board two is read from there |

`MoveBase_handover` needs planThread to be planning for the via point at the
moment of the hand-over, and the old plan to end (within 0.20 m and 30 degrees)
before planThread, once a second, replaces it; the hand-over is at 0.35 m.

Seen while modelling, without a run of their own:

- `server.py:106` looks for `success: True` in what `start_race.sh` prints, and
  the script (`start_race.sh:27`) prints other words: every accepted start is
  reported as an error and `STARTED` is never set, though the console's README
  lets "服务的 success" decide. That no car is started twice rests on the gate of
  the navigation node alone (`Printed` and `Confirms` in `Console`).
- Callback and waiting handler can both activate on one done ("消耗 peer_done",
  `F1_yaofang_v5.py:771`); the second activation finds none. It is harmless as
  long as a callback that began is over before a blocking call of the main
  thread returns (`PromptCallbacks`, below).
- Two timed-out attempts of 2 s use up the 3 s a done is offered for; then it is
  lost and both cars wait ("失败没关系，sender_loop 会继续重试",
  `tcp_link_v2.py:230`). `RoundsComplete` is for one failure per sender.
- Two handler threads of one seq can both pass the check of `last_peer_seq`
  (`tcp_link_v2.py:66`) and publish the done twice; `DualTurn` absorbs it. A
  thread may also discard a done that another one has marked (410) and not yet
  published; only if the node dies in this instant, and the sender's window ends
  before the respawn, is the done lost.
- `nav_state_cb` sets the state (`F1_detect_code_v5.py:320`) before it counts the
  visit (330). A detection of the last visit that ends between the two passes the
  test of line 636, and an old label is published. It would have to outlast the
  round that takes the car back to the second board; `OldLabelsAreDropped` says
  that no other moment lets it through.
- `move_base` sets CLEARING before the zero command (`move_base.cpp:615`, 617). The
  comment at 602 says "the robot isn't moving" in PLANNING, which is not so after
  a hand-over (694-695 set PLANNING and stop nothing): a behaviour may begin, an
  instant before the zero, under the last command.
- A frame held by the 8 s alert for an invalid code is appended to the history
  that was cleared meanwhile ("清空历史缓存", `F1_detect_code_v5.py:327`).
- With two faults (a vision node that died and a text that came late, say) car
  2 uses the text of an earlier round; `TextOfThisRound` is for one.
- A visit of board two that is left while the worker infers kills a healthy
  worker, which loads its models again at the next one.
- In `move_base`, a replan may overwrite CLEARING with CONTROLLING, an
  oscillation goes on to publish a command before its recovery, a timer that
  fires before planThread waits is lost (the next wake-up replaces it), and
  `new_global_plan_` and the plan pointers are swapped without one lock for both.

## Proofs

All theorems are about every value of the constants. `PROJECT.json`,
`"theorems"`, lists them; here is the argument of each module.

**`DualSystem_proofs`**, first part, is about `DualTurn`. It assumes
`PromptCallbacks` and proves, for any `MaxRounds` (0, continuous, included):
`TypeOK`, `StretchExclusive`, `OneTurn`, `NavStateOfLeg`, `OneReleasePerRound`
and the refinement `StrictTurns` of `Turnstile`. None of these is inductive.
`IInv` adds

- `SeqOrder`: the four sequence numbers, published and accepted by each car, form
  a chain `f <= e <= b <= a <= f + 1`; exactly one of its four links is strict
  (or, for the last, equal), and that one is where the turn is;
- `TurnIff`: a car has the turn (cached, being activated, in use, or in state 15
  before its release) iff its own link of the chain says so;
- `Local`: for each car what the two threads can be doing in each state, in
  particular that while the callback activates, the main thread is waiting, so
  the second of two activations of one done finds the car still in state 9.

The second part adds the invariant of the link: whatever is queued, in a
snapshot, in a connection, past the check or on `peer_done` was published by the
other car (`Sound`), and `last_peer_seq` is 0 or was published, or is about to
be by a handler thread that is past the assignment (`Handled`). From it follow
`SystemImplementsTurns` (the composed system implements `DualTurn`, so that
everything proved of the weakest channel holds of the real one),
`SystemExclusion`, `SystemImplementsTurnstile` (the two refinements in a row:
two cars on the real link implement `Turnstile`), and `DiscardsAreHarmless`, for
any windows, failures, connections, respawns and stopping nodes. `Implements`
says that the link makes up no done, no more: `DualTurn` takes any published
done at any time. What the link must not lose is `DoneIsOnItsWay`, proved as
`NoDoneIsLost` for link nodes that stay up and any window with `SendDuration >=
MaxFailures * (ConnectTimeout + RetryInterval) + RetryInterval`: as long as the
other link node does not have a done, what is left of its window is what the
failures to come can cost (`Budget`).

**`Mission_proofs`** proves `TypeOK`, every safety and step property of
`Mission` and its refinement of `Courier` for any set of queues, any number of
stable frames, misreads and respawns. Its `IInv` has these parts:

- `Navigates`, the navigation node alone: program counter and `count` agree, the
  car stands still where it reads, the batch is what is left of the accepted
  queue (`Batch`), the load is what has been fetched so far (`Load`);
- the types of vision node and topics;
- `Told`: the last state on `nav_state`, or the one the vision node has taken
  from it, is the state of the car;
- `OldIsDropped`: a frame taken before the car came to board two fails the test of
  line 636, unless the callback is between its two assignments;
- `SeenAtBoard1`: while the car is at board one, a reading that may still be
  published, is on the topic or was adopted was taken at this stop, or the history
  has yet to be cleared (`NotYetBegun`); each wrong reading at the end of a
  history has cost a misread, so that fewer misreads than a stable reading needs
  cannot make one.

The timing premises of `Mission` (below) are guards of `LongDrive` and
`ShortDrive`; the proofs of those two steps are where they are used.

`OldLabelsDropped` holds for detections of any length. That the label that is
adopted was seen at this stop, `FreshBoard2Result`, does not, because of that
instant: `Board2ResultIsFresh` proves it under `~SlowDetection`, with `SeenAtBoard2`.

`ImplementsCourier` needs one more invariant, `Decided`: a board is read only with
nothing left over, and a verdict is there only from the second board to the
delivery. Each step of the code is then a
`Read`, `Fetch`, `Decide` or `Deliver`, or a stutter (`StepDelivers`); that the
accepted queue is not read a second time, and no window fetched twice, comes
from `Batch` and `Load`.

`WaitsForAQueue` proves `NeverWaitsInVain`, the safety half of `KeepsDelivering`:
whenever the car waits at board one without a result, a queue is on its way, or
the vision node will read one -- it has the state and has not published, or has
yet to be told. It fails only if a publication or a notification is lost for
good, so the proof follows the three steps that could lose one: the drive that
arrives (`DriveArrives`), the notification sent again after a recovery
(`ArrivalIsTold`) and the vision node's own steps (`VisionWillRead`).

**`Board1Select_proofs`** proves `QueueIsTheBoard`, `QueueIsAccepted` and
`PeerTakesNextTask` without enumerating boards. The invariant of the
loop: what remains is the board with the slots taken emptied, everything taken
precedes everything left, and the queue is in that order (`InOrder`). What it
rests on is that emptying a slot changes neither the order of the others nor the
window of errors (`SameError`); the two properties about the receivers follow
from the last state.

**`PeerBoard_proofs`** proves `TextUsedOnce`, `TextComesThrough` and
`TextOfThisRound` for any rounds, boards, repeats, respawns and faults. `IInv` bounds the number of texts
published (`TextsAreFew`), keeps every used text at or below the number last used
(`UsedBefore`) and orders the three numbers of car 2 (`Received`); and as long as
there was no fault, every text anywhere is the latched one or an earlier one, and
the latched one is on its way or there (`LatestWithoutFault`).

`TextOfThisRound` is for at most one fault, and its invariant, `OneFault`, says
what a single one leaves standing. Before it, whatever car 2 may still receive or
use is of this round, and nothing is left over when it sets out (`OnTime`); and
the numbers tell the texts apart (`Numbered`). The death of the vision node
leaves `OnTime`. A late or lost text leaves `Numbered`: car 2 is then behind, but
until the next round what it can get is of this one (`UpToDate`), and in the next
the text comes through and takes the place of the old one (`CaughtUp`).

**`Records_proofs`** proves `WorkbookIsTheRun`, `NothingMissing` and
`ShutdownMakesGood` for any number of runs, results and failures, with signals
during an export allowed: the re-entry costs the end of the process, never a
wrong workbook. `RecordsInv` adds that nothing is confirmed or exported before
the run is open (`NotOpenYet`); that an exporter past the lock owns it, and once
it has closed the run holds exactly the rows of the database (`Holder`,
`Exported`); that the rows are of this run (`OpenRun`); and that a result in a
writer's hand is of this run and in no row yet (`InHand`), which is why no row
is there twice (`RowsDiffer`). `NothingMissing` needs the account of all results
before the export, too (`Accounted`).

`NoExporterIsStuck` assumes that no signal interrupts an export and proves
`LockComesFree`, the safety half of `ShutdownEnds`: who waits for `export_lock`
waits for the other exporter, which is inside the critical section and not
suspended (`HeldByARunner`). `Records_reentry` is the run without the assumption.

**`Console_proofs`** proves `OneEnvironment`, `ReadyIsCurrent`,
`StartsThisEnvironment` and `StartedOnce` for any number of environments. The
invariant: only the environment in `PREP` is alive, and none after it was born
(`OnlyTheLast`); a gate has granted one start if it is released, and none
otherwise (`OneRelease`); no report of an earlier environment says ready
(`OldReports`), because the next one is prepared only after the console has read
that this one is gone (`ShutdownIsSeen`, which is where the two ticks are used).

**`WorkerPipe_proofs`** proves `ReplyIsToTheRequest`, `AnswerOfThisVisit` and
the refinement `AnswersOnce` of `VisitAnswers` for any visits, histories and
faults: what is in the pipes is the one request in progress or its reply
(`PipesMatch`), nothing is checked while the callback is on its way
(`CallbackMatches`), and worker, loop and callback agree on the visit as far as
their histories do (`VisitsMatch`): a label whose request has the number of the
visit has frames of this visit only (`Trusted`), one with an old number fails
the test of line 636. The refinement adds `Counted`: a visit is answered when
`board2_published` says so, and before that the labels at the end of the history
that agree are fewer than `StableFrames`. That `Agreeing` has a value is part of
the invariant, that it has only one is arithmetic. Each label is then an
`Answer` if with it `StableFrames` agree, and a `See` otherwise
(`LabelIsCounted`). `LoopAndWorkerNeverBothWait` proves `LineIsComing`, the
safety half of `VisitIsAnswered`: a worker that is well has sent the line the
loop waits for, or has the request in its pipe.

**`MoveBase_proofs`** proves `IdleIsReset`, `RecoversStandingStill` and
`SucceedsThere` for any goals, via points, recovery behaviours and faults. The
invariant: the program counters of the two threads, `runPlanner_` and `state_`
fit (`ThreadsAgree`); between 615 and 617 planThread holds the mutex, which is
what keeps executeCb from starting the controller, resetting the machine or
giving up (`ClearingStands`); goals are accepted in the order they are sent
(`GoalsInOrder`); a plan in use is for the goal in use unless `disturbed`
(`PlanIsCurrent`), and a plan that ended leaves the robot at its goal
(`ReachedIsHere`). On top of it `OneAtATime` gives the refinement
`ResultsAreFinal` of `GoalServer`: only the last goal is waiting, only the
current one is active, and a result set before the state is reset (`GiveUp`) is
the one that is set again after it; what the client does next depends on the
result, so the invariant includes the client (ready only after a success, or on
the way).

Model-checked only: liveness (`BothFinish`, `RoundsComplete`, `KeepsDelivering`,
`TextArrives`, `ShutdownEnds`, `ActionEnds`, `VisitIsAnswered`, `GoalsEnd`),
which the prover does not do under fairness. What five of them rest on is proved
as an invariant: `OneTurn` for `BothFinish`, `DoneIsOnItsWay` for
`RoundsComplete`, `NeverWaitsInVain` for `KeepsDelivering`, `LockComesFree` for
`ShutdownEnds`, `LineIsComing` for `VisitIsAnswered`. Every safety property of
every passing run is proved.

## Assumptions

- *Fairness.* Weak fairness of each thread: rospy threads are scheduled, drives
  end (move_base succeeds or the node stops), a latched or queued ROS message is
  delivered. In `DualTurn` a published done is delivered in the end; in
  `DualSystem` this is not assumed but follows from the fairness of the sender
  and handler threads and the bound on failures. `Console` has weak fairness of
  the action's thread, whose waiting is bounded by time-outs; nothing obliges an
  environment to come up or to end. `WorkerPipe` has it of loop and worker; a
  hung worker is ended by the loop's time-out. `MoveBase` has strong fairness of
  both threads, since they compete for `planner_mutex_`, and weak fairness of
  the timer, the client and the base. Nothing obliges a node to stop, a frame
  to be misread, a connection or a transaction to fail, or anybody to signal or
  kill a process.
- *PromptCallbacks* (`DualTurn`): `peer_done_callback`, a few assignments and one
  publish, is over before a sleep (the loop rate's, at least tens of
  milliseconds) or a drive of the main thread returns. The code relies on it.
- *Millisecond steps end during drives* (`Mission`): messages and the loop's
  short steps are over when a drive between two places ends. The alert and the
  board-two detection are exempt, since they last 8 and 10 s. The run lets a
  detection outlast any drive and the whole round (`SlowDetection`), though the
  code hardly does: the worker is asked every 0.1 s whether the visit goes on
  (`board2_detector.py:182`), and closed within a second, and the template matcher
  works on one frame. `Board2ResultIsFresh` is the theorem that relies on it.
- *Callbacks.* `nav_state_cb` is split in `Mission` and `WorkerPipe` where another
  thread can tell. To read and decode a frame of the first board, and to recognise
  one of the second by the worker, takes longer than what the callback has left
  to do (a frame of the first board is taken, and a label of the worker checked,
  after it); a detection taken before it began is under no such premise in
  `Mission`. `detect_board1_result` writes its attributes before `board1_received`, which
  is all the main thread looks at.
- *End of the node.* A navigation node that shuts down is not respawned: `Mission`
  ends with it.
- *Shared text.* A done follows its text by the drive from board one to the
  laboratory, much longer than the 3 s a text is offered for; a text that is
  later counts as a fault, as do one that is offered in vain and the death of
  the vision node. Car 2 alone uses texts (`config/vehicles.yaml`).
- *Records.* A SQLite transaction is one step, and fails if the database stays
  locked for its timeout. rospy runs shutdown callbacks in the thread that calls
  `signal_shutdown`; Python runs signal handlers in the main thread. A second
  signal during the callback is not modelled. A vision process may outlive the
  navigation process, but not the launch.
- *Console.* A report is read within the 2 s after it was written, and roslaunch
  takes at least two such ticks to shut down (it gives its nodes 15 s, and the
  master goes last). With one tick `ReadyIsCurrent` would not hold. There is one
  console, and environments are launched by it only, as its README says.
- *WorkerPipe.* The drive between two visits takes longer than the loop's detection
  of the last one, whose end is at most the poll of 0.1 s away (`Enter` finds the
  loop idle; `Mission` does without this premise). `VisitIsAnswered` needs frames
  that are misread to come to an end (`MaxPoor`); with labels that go on to differ
  a visit is not answered, and the navigation node takes its default. The interval
  of 475-477 cannot withhold an answer, since 333 resets the time. A time-out of a
  healthy worker counts as a fault.
- *MoveBase.* A plan that arrives within a control cycle is a bounded fault;
  `GoalsEnd` is under the premise `PlansAreRare` (controller at 10 Hz, planner at
  1 Hz) or a client that cancels. The patience time-outs are free choices.
- *Configuration.* `pass_through`, recovery and the board-two approach are on, as
  in `config/competition.yaml`; both cars run with the same `max_rounds`.

## Not modelled

- Image processing, QR decoding, template and YOLO matching: numeric code; a
  reading is a free choice.
- Geometry and odometry of the back-off, audio playback, logging, message framing
  and token checks of the link, HTTP and tokens of the console.
- Loading and validation of the configuration; waypoint tools, which keep no
  state between calls; the board-two TCP referee client, one stateless request.
- The stationary test of board two (`tools/board2_visual_test.py`). Its result
  callback (104) calls `detect_board2_result` on a receiver without
  `accept_board2_result`; on every valid result it raises after the gate was
  taken, `speaking` stays set and every later visit is refused. Beyond this
  first step there is no behaviour to check.
- A navigation node that is started again while its peer runs: it counts
  `dual_round_seq` from 0 (`F1_yaofang_v5.py:188`) and the peer discards its
  dones; the race has no such restart. The same for the start-up order of link
  and navigation node (`peer_done` is not latched, `tcp_link_v2.py:71`).
- The rest of the vendored C++: planners, costmaps, localisation, filters,
  drivers and SDKs, which are numeric or device code; and the earlier packages
  `pharmacy_pkg`, `pharmacy_CRAIC` and `smart_pharmacy`, older versions of what
  is modelled here.

## Plan

All steps of the original plan are done, in this order: `DualTurn` and
`Turnstile`; `TcpLink` and `DualSystem`; `Navigation`, `Vision`, `Topics`,
`Mission`; `Board1Select`; `Records`; `PeerBoard`; `Console`; `WorkerPipe`;
`MoveBase`; and for each its theorems. What could follow:

1. `PeerBoard` composed with `DualTurn` in place of the strict turns it assumes,
   once both cars use texts.
2. Restart of a navigation node, if the code learns to resume a round.
3. `MoveBase` with the other planners' and costmaps' threads.

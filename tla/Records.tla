-------------------------------- MODULE Records --------------------------------
(***************************************************************************)
(* The recognition records: results that the navigation and the vision     *)
(* process confirm go to one SQLite database, and at the end of the run    *)
(* the navigation process closes the run and writes the workbook           *)
(* (recognition_records.py, and its callers in F1_yaofang_v5.py and        *)
(* F1_detect_code_v5.py).                                                  *)
(*                                                                         *)
(* The navigation process exports from two places: the main thread when    *)
(* the last round is over, and the shutdown callback.  rospy runs that     *)
(* callback in the thread that asks for the shutdown: the main thread if   *)
(* the node gives up, or if a signal arrives (Python runs signal handlers  *)
(* on top of whatever the main thread is doing), another thread if the     *)
(* master asks.  export_lock is a threading.Lock, not reentrant.           *)
(*                                                                         *)
(* A result is <<run, n>>, the n-th confirmed in that run.  A transaction  *)
(* of SQLite is one step; it fails if the database stays locked for 5 s.   *)
(* The vision process may outlive the navigation process of its run, but   *)
(* not the launch: it is gone when the launch starts again.                *)
(***************************************************************************)
EXTENDS Integers, Sequences

CONSTANTS
    MaxRuns,             \* starts of the launch (bound)
    MaxResults,          \* results confirmed in one run (bound)
    MaxFaults,           \* transactions and savings that fail in a run (bound)
    SignalDuringExport   \* TRUE: a signal may find the main thread exporting

ASSUME RecordsAssumption ==
    /\ MaxRuns \in Nat \ {0} /\ MaxResults \in Nat /\ MaxFaults \in Nat
    /\ SignalDuringExport \in BOOLEAN

Writers == {"nav", "vision"}
Exporters == {"main", "hook"}
NoResult == <<0, 0>>
Unlocked == "unlocked"
Torn == << <<0, 0>> >>     \* a workbook cut short: no row of it counts

VARIABLES
    run,              \* starts so far
    phase,            \* of the navigation process
    active_run,       \* the database: the run is open
    records,          \* the database: rows in the order of id
    confirmed,        \* results handed to record_result in this run
    writing,          \* writer -> result in its hand
    late,             \* results refused because the run was closed
    dropped,          \* results lost to a failing transaction
    at,               \* exporter -> where it is in export()
    rows,             \* exporter -> its local rows
    suspended,        \* the main thread is below the shutdown callback
    export_lock, exported_path,
    workbook,
    faults            \* in this run

vars == <<run, phase, active_run, records, confirmed, writing, late, dropped,
          at, rows, suspended, export_lock, exported_path, workbook, faults>>

database == <<active_run, records>>
writers == <<confirmed, writing, late, dropped>>
export == <<at, rows, suspended, export_lock, exported_path>>

Init ==
    /\ run = 0 /\ phase = "off"
    /\ active_run = FALSE /\ records = <<>>
    /\ confirmed = 0
    /\ writing = [w \in Writers |-> NoResult]
    /\ late = {} /\ dropped = {}
    /\ at = [e \in Exporters |-> "idle"]
    /\ rows = [e \in Exporters |-> <<>>]
    /\ suspended = FALSE
    /\ export_lock = Unlocked /\ exported_path = FALSE
    /\ workbook = <<>>
    /\ faults = 0

Alive == phase \in {"starting", "running"}

\* An exporter returned a path, logged an error, or does not come back.
Ended == {"done", "failed", "left"}

Fault == faults < MaxFaults /\ faults' = faults + 1

-----------------------------------------------------------------------------
(* A run begins and ends.                                                  *)

\* The launch starts again: new processes, the files of the last run.
Launch ==
    /\ phase = "off" /\ run < MaxRuns
    /\ run' = run + 1
    /\ phase' = "starting"
    /\ confirmed' = 0 /\ late' = {} /\ dropped' = {}
    /\ writing' = [w \in Writers |-> NoResult]
    /\ at' = [e \in Exporters |-> "idle"]
    /\ rows' = [e \in Exporters |-> <<>>]
    /\ suspended' = FALSE
    /\ export_lock' = Unlocked /\ exported_path' = FALSE
    /\ faults' = 0
    /\ UNCHANGED <<database, workbook>>

\* Mutant: the rows of the last run stay.
ConstructKeepsRecords ==
    /\ phase = "starting" /\ ~suspended
    /\ phase' = "running"
    /\ active_run' = TRUE
    /\ UNCHANGED <<run, records, writers, export, workbook, faults>>

\* RecognitionRecords(car_id): one transaction opens an empty run.
Construct ==
    /\ phase = "starting" /\ ~suspended
    /\ phase' = "running"
    /\ active_run' = TRUE /\ records' = <<>>
    /\ UNCHANGED <<run, writers, export, workbook, faults>>

\* The exception leaves __init__ and ends the process.
ConstructFails ==
    /\ phase = "starting" /\ ~suspended
    /\ Fault
    /\ phase' = "off"
    /\ UNCHANGED <<run, database, writers, export, workbook>>

\* SIGKILL, or the power goes.
Kill ==
    /\ Alive
    /\ phase' = "off"
    /\ UNCHANGED <<run, database, writers, export, workbook, faults>>

-----------------------------------------------------------------------------
(* record_result, in either process.                                       *)

\* A call site hands over a result.
Confirm(w) ==
    /\ phase = "running"
    /\ writing[w] = NoResult
    /\ confirmed < MaxResults
    /\ confirmed' = confirmed + 1
    /\ writing' = [writing EXCEPT ![w] = <<run, confirmed'>>]
    /\ UNCHANGED <<run, phase, database, late, dropped, export, workbook,
                   faults>>

Written(w) ==
    /\ w = "vision" \/ Alive
    /\ writing[w] # NoResult
    /\ writing' = [writing EXCEPT ![w] = NoResult]

\* INSERT ... SELECT ... FROM active_run WHERE slot=1
Insert(w) ==
    /\ Written(w)
    /\ IF active_run
       THEN records' = Append(records, writing[w]) /\ UNCHANGED late
       ELSE late' = late \union {writing[w]} /\ UNCHANGED records
    /\ UNCHANGED <<run, phase, active_run, confirmed, dropped, export,
                   workbook, faults>>

\* The exception is logged, and recognition goes on; or the vision process
\* dies and is respawned.
InsertFails(w) ==
    /\ Written(w)
    /\ Fault
    /\ dropped' = dropped \union {writing[w]}
    /\ UNCHANGED <<run, phase, database, confirmed, late, export, workbook>>

-----------------------------------------------------------------------------
(* The main thread and the shutdown callback.                              *)

\* "FULL RUN COMPLETE" (handle_go_back_home): export before the shutdown.
\* rospy.is_shutdown() turns true when the callbacks are over.
FullRunComplete ==
    /\ phase = "running" /\ ~suspended
    /\ at["main"] = "idle" /\ at["hook"] \notin Ended
    /\ at' = [at EXCEPT !["main"] = "lock"]
    /\ UNCHANGED <<run, phase, database, writers, rows, suspended,
                   export_lock, exported_path, workbook, faults>>

\* Mutant: the end of the run has exported, the shutdown need not.
EnterHookOnce(below) ==
    /\ Alive /\ at["hook"] = "idle"
    /\ at' = [at EXCEPT !["hook"] =
            IF phase = "starting" THEN "left"
            ELSE IF at["main"] \in Ended THEN "done" ELSE "lock"]
    /\ suspended' = below
    /\ UNCHANGED <<run, phase, database, writers, rows, export_lock,
                   exported_path, workbook, faults>>

\* MoveBaseSquare.shutdown: there may be no recognition_records yet.
EnterHook(below) ==
    /\ Alive /\ at["hook"] = "idle"
    /\ at' = [at EXCEPT !["hook"] = IF phase = "starting" THEN "left"
                                                          ELSE "lock"]
    /\ suspended' = below
    /\ UNCHANGED <<run, phase, database, writers, rows, export_lock,
                   exported_path, workbook, faults>>

\* rospy.signal_shutdown by the main thread: it gives up, or is done.
SignalShutdown == at["main"] \in Ended \union {"idle"} /\ EnterHook(TRUE)

\* SIGINT or SIGTERM: the handler runs on top of the main thread.
Signal ==
    /\ SignalDuringExport \/ export_lock # "main"
    /\ EnterHook(TRUE)

\* A shutdown request through the node's XML-RPC server, in its thread.
RemoteShutdown == EnterHook(FALSE)

\* SIGINT while another thread shuts the node down: signal_shutdown returns
\* at once, and KeyboardInterrupt unwinds the main thread and its lock.
Interrupt ==
    /\ Alive /\ at["hook"] # "idle" /\ ~suspended
    /\ at["main"] \notin Ended
    /\ at' = [at EXCEPT !["main"] = "left"]
    /\ export_lock' = IF export_lock = "main" THEN Unlocked ELSE export_lock
    /\ UNCHANGED <<run, phase, database, writers, rows, suspended,
                   exported_path, workbook, faults>>

\* The callback is over.  An interrupted main thread goes on, or leaves with
\* KeyboardInterrupt.
LeaveHook ==
    /\ Alive /\ at["hook"] \in Ended /\ suspended
    /\ suspended' = FALSE
    /\ \E resumed \in BOOLEAN :
        at' = IF resumed THEN at ELSE [at EXCEPT !["main"] = "left"]
    /\ UNCHANGED <<run, phase, database, writers, rows, export_lock,
                   exported_path, workbook, faults>>

\* The main loop sees is_shutdown, and the process ends.
Exit ==
    /\ Alive /\ at["hook"] \in Ended /\ ~suspended
    /\ at["main"] \in Ended \union {"idle"}
    /\ phase' = "off"
    /\ UNCHANGED <<run, database, writers, export, workbook, faults>>

-----------------------------------------------------------------------------
(* RecognitionRecords.export.                                              *)

\* A step of exporter e from one point of export() to another.
Exporting(e, from, to) ==
    /\ Alive
    /\ e = "main" => ~suspended
    /\ at[e] = from
    /\ at' = [at EXCEPT ![e] = to]

\* with self.export_lock; an export that has been made is not made again.
Lock(e) ==
    /\ export_lock = Unlocked
    /\ IF exported_path
       THEN Exporting(e, "lock", "done") /\ UNCHANGED export_lock
       ELSE Exporting(e, "lock", "close") /\ export_lock' = e
    /\ UNCHANGED <<run, phase, database, writers, rows, suspended,
                   exported_path, workbook, faults>>

\* Mutant: the run stays open while its rows are written.
CloseLater(e) ==
    /\ Exporting(e, "close", "save")
    /\ rows' = [rows EXCEPT ![e] = records]
    /\ UNCHANGED <<run, phase, database, writers, suspended, export_lock,
                   exported_path, workbook, faults>>

\* One transaction closes the run and reads its rows.
Close(e) ==
    /\ Exporting(e, "close", "save")
    /\ active_run' = FALSE
    /\ rows' = [rows EXCEPT ![e] = records]
    /\ UNCHANGED <<run, phase, records, writers, suspended, export_lock,
                   exported_path, workbook, faults>>

\* workbook.save opens the file: the last workbook is gone.
OpenWorkbook(e) ==
    /\ Exporting(e, "save", "write")
    /\ workbook' = Torn
    /\ UNCHANGED <<run, phase, database, writers, rows, suspended,
                   export_lock, exported_path, faults>>

WriteWorkbook(e) ==
    /\ Exporting(e, "write", "done")
    /\ workbook' = rows[e]
    /\ exported_path' = TRUE
    /\ export_lock' = Unlocked
    /\ UNCHANGED <<run, phase, database, writers, rows, suspended, faults>>

\* Mutant: acquire and release without a try.
ExportFailsLocked(e) ==
    /\ \E point \in {"close", "save", "write"} : Exporting(e, point, "failed")
    /\ Fault
    /\ UNCHANGED <<run, phase, database, writers, rows, suspended,
                   export_lock, exported_path, workbook>>

\* The transaction or the saving raises: the lock is released, the error is
\* logged, and exported_path stays None.
ExportFails(e) ==
    /\ \E point \in {"close", "save", "write"} : Exporting(e, point, "failed")
    /\ Fault
    /\ export_lock' = Unlocked
    /\ UNCHANGED <<run, phase, database, writers, rows, suspended,
                   exported_path, workbook>>

Export(e) ==
    Lock(e) \/ Close(e) \/ OpenWorkbook(e) \/ WriteWorkbook(e) \/ ExportFails(e)

-----------------------------------------------------------------------------

\* The main thread outside export().
Process == Construct \/ ConstructFails \/ LeaveHook \/ Exit

Writer(w) == Insert(w) \/ InsertFails(w)

Next ==
    \/ Launch \/ Kill \/ FullRunComplete
    \/ SignalShutdown \/ Signal \/ RemoteShutdown \/ Interrupt
    \/ Process
    \/ \E w \in Writers : Confirm(w) \/ Writer(w)
    \/ \E e \in Exporters : Export(e)

\* Threads that can run do; nothing obliges a car to finish, anybody to stop
\* it, or a transaction to fail.
Spec ==
    /\ Init /\ [][Next]_vars
    /\ WF_vars(Process)
    /\ \A w \in Writers : WF_vars(Writer(w))
    /\ \A e \in Exporters : WF_vars(Export(e))

-----------------------------------------------------------------------------
(* Properties.                                                             *)

Results == {<<r, n>> : r \in 1 .. MaxRuns, n \in 1 .. MaxResults}

TypeOK ==
    /\ run \in 0 .. MaxRuns
    /\ phase \in {"off", "starting", "running"}
    /\ active_run \in BOOLEAN
    /\ records \in Seq(Results)
    /\ confirmed \in 0 .. MaxResults
    /\ writing \in [Writers -> Results \union {NoResult}]
    /\ late \subseteq Results /\ dropped \subseteq Results
    /\ at \in [Exporters -> {"idle", "lock", "close", "save", "write"} \union Ended]
    /\ rows \in [Exporters -> Seq(Results)]
    /\ suspended \in BOOLEAN
    /\ export_lock \in Exporters \union {Unlocked}
    /\ exported_path \in BOOLEAN
    /\ workbook = Torn \/ workbook \in Seq(Results)
    /\ faults \in 0 .. MaxFaults

\* The workbook of a run lists the results of that run and of no other, each
\* once, and agrees with the database from then on: no result comes in late.
WorkbookIsTheRun ==
    exported_path =>
        /\ workbook = records
        /\ \A j, k \in DOMAIN workbook : workbook[j] = workbook[k] => j = k
        /\ \A k \in DOMAIN workbook : workbook[k][1] = run

\* No confirmed result disappears: it is in the workbook unless its insertion
\* failed, came after the run was closed, or is still to come.
NothingMissing ==
    exported_path =>
        {<<run, n>> : n \in 1 .. confirmed} =
            {workbook[k] : k \in DOMAIN workbook} \union late \union dropped
                \union ({writing[w] : w \in Writers} \ {NoResult})

\* What the end of the run failed to export or left half written, the
\* shutdown callback makes good, unless it fails itself.
ShutdownMakesGood == at["hook"] = "done" => exported_path /\ workbook = records

\* "shutdown re-entry" of export (recognition_records.py:76): whoever enters
\* the shutdown callback leaves it, and the process ends.
ShutdownEnds == at["hook"] = "lock" ~> phase = "off"
================================================================================

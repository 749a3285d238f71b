---------------------------- MODULE Records_proofs ----------------------------
(***************************************************************************)
(* The workbook of a run is that run, and a shutdown that does not fail    *)
(* leaves one: for any number of runs, results and faults, and signals at  *)
(* any time.                                                               *)
(***************************************************************************)
EXTENDS Records, TLAPS

\* Exporters between taking and releasing export_lock.
Inside == {"close", "save", "write"}

\* Once a run is open its rows are results of this run confirmed so far.
RowsOfThisRun ==
    \A k \in DOMAIN records :
        records[k][1] = run /\ records[k][2] \in 1 .. confirmed

\* Nothing is confirmed, exported or begun before the run is open.
NotOpenYet ==
    phase = "starting" =>
        /\ confirmed = 0 /\ ~exported_path
        /\ export_lock = Unlocked
        /\ \A e \in Exporters : at[e] \in {"idle", "left"}
        /\ \A w \in Writers : writing[w] = NoResult

OpenRun ==
    \/ RowsOfThisRun
    \/ /\ phase # "running" /\ ~exported_path
       /\ \A w \in Writers : writing[w] = NoResult

RunCounted == phase # "off" => run >= 1

\* A result in a hand is one of this run, and nowhere else.
InHand ==
    \A w \in Writers : writing[w] # NoResult =>
        /\ \E n \in 1 .. confirmed : writing[w] = <<run, n>>
        /\ \A k \in DOMAIN records : records[k] # writing[w]
        /\ \A v \in Writers \ {w} : writing[v] # writing[w]

RowsDiffer == \A j, k \in DOMAIN records : records[j] = records[k] => j = k

\* The lock has one holder, who exports for the first time.
Holder ==
    \A e \in Exporters :
        /\ at[e] \in Inside => export_lock = e /\ ~exported_path
        /\ at[e] \in {"save", "write"} => ~active_run /\ rows[e] = records
        /\ at[e] = "done" => exported_path

\* An exported run is closed, and its rows are those of the workbook.
Exported == exported_path => ~active_run /\ workbook = records

RecordsInv ==
    /\ TypeOK /\ NotOpenYet /\ OpenRun /\ RunCounted /\ InHand /\ RowsDiffer
    /\ Holder /\ Exported

\* Constants, abbreviations and groups of variables, expanded everywhere.
USE RecordsAssumption DEF Exporters, Writers, Unlocked, NoResult, Inside, Alive,
        Ended, Fault, export, database, writers

\* Before the first launch nothing is written.
LEMMA RecordsInitInv ==
  ASSUME Init
  PROVE  RecordsInv
  <1>1. TypeOK
    <2>1. rows \in [Exporters -> Seq(Results)]
      BY DEF Init
    <2>2. writing \in [Writers -> Results \union {NoResult}]
      BY DEF Init
    <2>3. /\ run \in 0 .. MaxRuns /\ phase \in {"off", "starting", "running"}
          /\ confirmed \in 0 .. MaxResults /\ faults \in 0 .. MaxFaults
          /\ late \subseteq Results /\ dropped \subseteq Results
      BY DEF Init
    <2>4. /\ active_run \in BOOLEAN /\ records \in Seq(Results)
          /\ workbook = Torn \/ workbook \in Seq(Results)
      <3>1. active_run \in BOOLEAN
        BY DEF Init
      <3>2. records \in Seq(Results)
        BY DEF Init
      <3>3. workbook \in Seq(Results)
        BY DEF Init
      <3>4. QED
        BY <3>1, <3>2, <3>3
    <2>5. at \in [Exporters -> {"idle", "lock", "close", "save", "write"}
                              \union Ended]
      BY DEF Init
    <2>6. /\ suspended \in BOOLEAN /\ exported_path \in BOOLEAN
          /\ export_lock \in Exporters \union {Unlocked}
      BY DEF Init
    <2>7. QED
      BY <2>1, <2>2, <2>3, <2>4, <2>5, <2>6 DEF TypeOK
  <1>2. NotOpenYet
    BY DEF Init, NotOpenYet
  <1>3. OpenRun
    BY DEF Init, OpenRun, RowsOfThisRun
  <1>4. RunCounted
    BY DEF Init, RunCounted
  <1>5. InHand
    BY DEF Init, InHand
  <1>6. RowsDiffer
    BY DEF Init, RowsDiffer
  <1>7. Holder
    BY DEF Init, Holder
  <1>8. Exported
    BY DEF Init, Exported
  <1>9. QED
    BY <1>1, <1>2, <1>3, <1>4, <1>5, <1>6, <1>7, <1>8 DEF RecordsInv

\* New processes: nothing is exported, confirmed or in a hand.
LEMMA LaunchInv ==
  ASSUME RecordsInv, Launch
  PROVE  RecordsInv'
  <1>1. TypeOK'
    <2>1. rows' \in [Exporters -> Seq(Results)]
      BY DEF Launch
    <2>2. writing' \in [Writers -> Results \union {NoResult}]
      BY DEF Launch
    <2>3. /\ run' \in 0 .. MaxRuns /\ phase' \in {"off", "starting", "running"}
          /\ confirmed' \in 0 .. MaxResults /\ faults' \in 0 .. MaxFaults
          /\ late' \subseteq Results /\ dropped' \subseteq Results
      BY DEF Launch, RecordsInv, TypeOK
    <2>4. /\ active_run' \in BOOLEAN /\ records' \in Seq(Results)
          /\ workbook' = Torn \/ workbook' \in Seq(Results)
      BY DEF Launch, RecordsInv, TypeOK
    <2>5. at' \in [Exporters -> {"idle", "lock", "close", "save", "write"}
                              \union Ended]
      BY DEF Launch, RecordsInv, TypeOK
    <2>6. /\ suspended' \in BOOLEAN /\ exported_path' \in BOOLEAN
          /\ export_lock' \in Exporters \union {Unlocked}
      BY DEF Launch, RecordsInv, TypeOK
    <2>7. QED
      BY <2>1, <2>2, <2>3, <2>4, <2>5, <2>6 DEF TypeOK
  <1>2. NotOpenYet'
    BY DEF Launch, RecordsInv, NotOpenYet, TypeOK
  <1>3. OpenRun'
    BY DEF Launch, RecordsInv, OpenRun, RowsOfThisRun, NotOpenYet, Holder, Exported, TypeOK
  <1>4. RunCounted'
    BY DEF Launch, RecordsInv, RunCounted, TypeOK
  <1>5. InHand'
    BY DEF Launch, RecordsInv, InHand, OpenRun, RowsOfThisRun, NotOpenYet, TypeOK
  <1>6. RowsDiffer'
    BY DEF Launch, RecordsInv, RowsDiffer, InHand, TypeOK
  <1>7. Holder'
    BY DEF Launch, RecordsInv, Holder, Exported, NotOpenYet, TypeOK
  <1>8. Exported'
    BY DEF Launch, RecordsInv, Exported, Holder, NotOpenYet, TypeOK
  <1>9. QED
    BY <1>1, <1>2, <1>3, <1>4, <1>5, <1>6, <1>7, <1>8 DEF RecordsInv

\* A confirmed result gets the next number, so it is in no other hand
\* and in no row.
LEMMA ConfirmInv ==
  ASSUME RecordsInv, NEW w \in Writers, Confirm(w)
  PROVE  RecordsInv'
  <1> DEFINE result == <<run, confirmed + 1>>
  <1>1. /\ writing' = [writing EXCEPT ![w] = result]
        /\ confirmed' = confirmed + 1
        /\ UNCHANGED <<run, phase, records, at, exported_path, export_lock,
                       active_run, rows>>
    BY DEF Confirm
  <1>2. result \in Results /\ result # NoResult
    BY DEF Confirm, RecordsInv, TypeOK, RunCounted, Results
  <1>3. RowsOfThisRun /\ \A k \in DOMAIN records : records[k] # result
    BY DEF Confirm, RecordsInv, OpenRun, RowsOfThisRun, TypeOK
  <1>4. \A v \in Writers : writing[v] # result
    BY <1>2 DEF RecordsInv, InHand, TypeOK
  <1>5. TypeOK'
    BY <1>1, <1>2 DEF Confirm, RecordsInv, TypeOK
  <1>6. NotOpenYet'
    BY DEF Confirm, RecordsInv, NotOpenYet, TypeOK
  <1>7. OpenRun'
    BY DEF Confirm, RecordsInv, OpenRun, RowsOfThisRun, NotOpenYet, Holder, Exported, TypeOK
  <1>8. RunCounted'
    BY DEF Confirm, RecordsInv, RunCounted, TypeOK
  <1>9. InHand'
    <2> SUFFICES ASSUME NEW u \in Writers, writing'[u] # NoResult
                 PROVE  /\ \E n \in 1 .. confirmed' : writing'[u] = <<run, n>>
                        /\ \A k \in DOMAIN records : records[k] # writing'[u]
                        /\ \A v \in Writers \ {u} : writing'[v] # writing'[u]
      BY <1>1 DEF InHand
    <2>1. CASE u = w
      BY <2>1, <1>1, <1>3, <1>4 DEF RecordsInv, TypeOK
    <2>2. CASE u # w
      <3>1. writing'[u] = writing[u]
        BY <2>2, <1>1 DEF RecordsInv, TypeOK
      <3>2. PICK n \in 1 .. confirmed : writing[u] = <<run, n>>
        BY <3>1 DEF RecordsInv, InHand
      <3>3. n \in 1 .. confirmed'
        BY <1>1 DEF RecordsInv, TypeOK
      <3>4. \A v \in Writers \ {u} : writing'[v] # writing[u]
        BY <3>1, <1>1, <1>4 DEF RecordsInv, TypeOK, InHand
      <3>5. \A k \in DOMAIN records : records[k] # writing[u]
        BY <3>1 DEF RecordsInv, InHand
      <3>6. QED
        BY <3>1, <3>2, <3>3, <3>4, <3>5
    <2>3. QED
      BY <2>1, <2>2
  <1>10. RowsDiffer'
    BY DEF Confirm, RecordsInv, RowsDiffer, InHand, TypeOK
  <1>11. Holder'
    BY DEF Confirm, RecordsInv, Holder, Exported, NotOpenYet, TypeOK
  <1>12. Exported'
    BY DEF Confirm, RecordsInv, Exported, Holder, NotOpenYet, TypeOK
  <1>13. QED
    BY <1>5, <1>6, <1>7, <1>8, <1>9, <1>10, <1>11, <1>12 DEF RecordsInv

\* A result is inserted only while the run is open, so that no exporter
\* has read the rows yet; it is a new row, and leaves the hand.
LEMMA InsertInv ==
  ASSUME RecordsInv, NEW w \in Writers, Insert(w)
  PROVE  RecordsInv'
  <1> DEFINE result == writing[w]
  <1>1. /\ writing' = [writing EXCEPT ![w] = NoResult]
        /\ result # NoResult /\ result \in Results
        /\ UNCHANGED <<run, phase, confirmed, active_run, at, rows, suspended,
                       export_lock, exported_path, workbook, faults, dropped>>
    BY DEF Insert, Written, RecordsInv, TypeOK
  <1>2. RowsOfThisRun
    BY <1>1 DEF RecordsInv, OpenRun
  <1>3. result[1] = run /\ result[2] \in 1 .. confirmed
    BY <1>1 DEF RecordsInv, InHand
  <1>4. CASE active_run
    <2>1. records' = Append(records, result) /\ late' = late
      BY <1>4 DEF Insert
    <2>2. records \in Seq(Results) /\ writing \in [Writers -> Results \union {NoResult}]
      BY DEF RecordsInv, TypeOK
    <2>3. /\ records' \in Seq(Results)
          /\ DOMAIN records' = 1 .. Len(records) + 1
          /\ DOMAIN records = 1 .. Len(records)
          /\ Len(records) \in Nat
          /\ \A k \in 1 .. Len(records) : records'[k] = records[k]
          /\ records'[Len(records) + 1] = result
      BY <1>1, <2>1, <2>2
    <2>4. TypeOK'
      BY <1>1, <2>1, <2>3 DEF RecordsInv, TypeOK
    <2>5. RowsOfThisRun'
      BY <1>1, <1>2, <1>3, <2>3 DEF RowsOfThisRun
    <2>6. InHand'
      <3> SUFFICES ASSUME NEW u \in Writers, writing'[u] # NoResult
                   PROVE  /\ \E n \in 1 .. confirmed' : writing'[u] = <<run', n>>
                          /\ \A k \in DOMAIN records' : records'[k] # writing'[u]
                          /\ \A v \in Writers \ {u} : writing'[v] # writing'[u]
        BY DEF InHand
      <3>1. u # w /\ writing'[u] = writing[u]
        BY <1>1, <2>2
      <3>2. /\ \E n \in 1 .. confirmed : writing[u] = <<run, n>>
            /\ \A k \in DOMAIN records : records[k] # writing[u]
            /\ \A v \in Writers \ {u} : writing[v] # writing[u]
        BY <3>1 DEF RecordsInv, InHand
      <3>3. \A k \in DOMAIN records' : records'[k] # writing[u]
        BY <2>3, <3>1, <3>2
      <3>4. \A v \in Writers \ {u} : writing'[v] # writing[u]
        BY <1>1, <2>2, <3>1, <3>2
      <3>5. QED
        BY <1>1, <3>1, <3>2, <3>3, <3>4
    <2>7. RowsDiffer'
      BY <1>1, <2>3 DEF RecordsInv, RowsDiffer, InHand
    <2>8. NotOpenYet' /\ RunCounted'
      BY <1>1, <2>2 DEF RecordsInv, NotOpenYet, RunCounted
    <2>9. Holder' /\ Exported'
      BY <1>1, <1>4 DEF RecordsInv, Holder, Exported
    <2>10. QED
      BY <2>4, <2>5, <2>6, <2>7, <2>8, <2>9 DEF RecordsInv, OpenRun
  <1>5. CASE ~active_run
    <2>1. records' = records /\ late' = late \union {result}
      BY <1>5 DEF Insert
    <2>2. TypeOK'
      BY <1>1, <2>1 DEF RecordsInv, TypeOK
    <2>3. InHand' /\ RowsDiffer' /\ RowsOfThisRun'
      BY <1>1, <1>2, <2>1 DEF RecordsInv, TypeOK, InHand, RowsDiffer, RowsOfThisRun
    <2>4. NotOpenYet' /\ RunCounted' /\ Holder' /\ Exported'
      BY <1>1, <2>1 DEF RecordsInv, TypeOK, NotOpenYet, RunCounted, Holder, Exported
    <2>5. QED
      BY <2>2, <2>3, <2>4 DEF RecordsInv, OpenRun
  <1>6. QED
    BY <1>4, <1>5

\* The steps of the process and its threads touch neither rows nor hands,
\* but for Construct, which empties the table of a run without results.
LEMMA ConstructInv ==
  ASSUME RecordsInv, Construct
  PROVE  RecordsInv'
  BY DEF Construct, RecordsInv, TypeOK, NotOpenYet, OpenRun,
         RowsOfThisRun, RunCounted, InHand, RowsDiffer, Holder, Exported

LEMMA ConstructFailsInv ==
  ASSUME RecordsInv, ConstructFails
  PROVE  RecordsInv'
  BY DEF ConstructFails, RecordsInv, TypeOK, NotOpenYet, OpenRun,
         RowsOfThisRun, RunCounted, InHand, RowsDiffer, Holder, Exported

LEMMA KillInv ==
  ASSUME RecordsInv, Kill
  PROVE  RecordsInv'
  BY DEF Kill, RecordsInv, TypeOK, NotOpenYet, OpenRun,
         RowsOfThisRun, RunCounted, InHand, RowsDiffer, Holder, Exported

LEMMA FullRunCompleteInv ==
  ASSUME RecordsInv, FullRunComplete
  PROVE  RecordsInv'
  BY DEF FullRunComplete, RecordsInv, TypeOK, NotOpenYet, OpenRun,
         RowsOfThisRun, RunCounted, InHand, RowsDiffer, Holder, Exported

LEMMA SignalShutdownInv ==
  ASSUME RecordsInv, SignalShutdown
  PROVE  RecordsInv'
  BY DEF SignalShutdown, EnterHook, RecordsInv, TypeOK, NotOpenYet, OpenRun,
         RowsOfThisRun, RunCounted, InHand, RowsDiffer, Holder, Exported

LEMMA SignalInv ==
  ASSUME RecordsInv, Signal
  PROVE  RecordsInv'
  BY DEF Signal, EnterHook, RecordsInv, TypeOK, NotOpenYet, OpenRun,
         RowsOfThisRun, RunCounted, InHand, RowsDiffer, Holder, Exported

LEMMA RemoteShutdownInv ==
  ASSUME RecordsInv, RemoteShutdown
  PROVE  RecordsInv'
  BY DEF RemoteShutdown, EnterHook, RecordsInv, TypeOK, NotOpenYet, OpenRun,
         RowsOfThisRun, RunCounted, InHand, RowsDiffer, Holder, Exported

LEMMA InterruptInv ==
  ASSUME RecordsInv, Interrupt
  PROVE  RecordsInv'
  BY DEF Interrupt, RecordsInv, TypeOK, NotOpenYet, OpenRun,
         RowsOfThisRun, RunCounted, InHand, RowsDiffer, Holder, Exported

LEMMA LeaveHookInv ==
  ASSUME RecordsInv, LeaveHook
  PROVE  RecordsInv'
  <1>1. TypeOK'
    BY DEF LeaveHook, RecordsInv, TypeOK
  <1>2. NotOpenYet'
    BY DEF LeaveHook, RecordsInv, NotOpenYet, TypeOK
  <1>3. OpenRun'
    BY DEF LeaveHook, RecordsInv, OpenRun, RowsOfThisRun, NotOpenYet, Holder, Exported, TypeOK
  <1>4. RunCounted'
    BY DEF LeaveHook, RecordsInv, RunCounted, TypeOK
  <1>5. InHand'
    BY DEF LeaveHook, RecordsInv, InHand, OpenRun, RowsOfThisRun, NotOpenYet, TypeOK
  <1>6. RowsDiffer'
    BY DEF LeaveHook, RecordsInv, RowsDiffer, InHand, TypeOK
  <1>7. Holder'
    BY DEF LeaveHook, RecordsInv, Holder, Exported, NotOpenYet, TypeOK
  <1>8. Exported'
    BY DEF LeaveHook, RecordsInv, Exported, Holder, NotOpenYet, TypeOK
  <1>9. QED
    BY <1>1, <1>2, <1>3, <1>4, <1>5, <1>6, <1>7, <1>8 DEF RecordsInv

LEMMA ExitInv ==
  ASSUME RecordsInv, Exit
  PROVE  RecordsInv'
  BY DEF Exit, RecordsInv, TypeOK, NotOpenYet, OpenRun,
         RowsOfThisRun, RunCounted, InHand, RowsDiffer, Holder, Exported

\* A result that is lost leaves the hand.
LEMMA InsertFailsInv ==
  ASSUME NEW w \in Writers, RecordsInv, InsertFails(w)
  PROVE  RecordsInv'
  <1>1. TypeOK'
    BY DEF InsertFails, Written, RecordsInv, TypeOK
  <1>2. NotOpenYet'
    BY DEF InsertFails, Written, RecordsInv, NotOpenYet, TypeOK
  <1>3. OpenRun'
    BY DEF InsertFails, Written, RecordsInv, OpenRun, RowsOfThisRun, NotOpenYet, Holder, Exported, TypeOK
  <1>4. RunCounted'
    BY DEF InsertFails, Written, RecordsInv, RunCounted, TypeOK
  <1>5. InHand'
    BY DEF InsertFails, Written, RecordsInv, InHand, OpenRun, RowsOfThisRun, NotOpenYet, TypeOK
  <1>6. RowsDiffer'
    BY DEF InsertFails, Written, RecordsInv, RowsDiffer, InHand, TypeOK
  <1>7. Holder'
    BY DEF InsertFails, Written, RecordsInv, Holder, Exported, NotOpenYet, TypeOK
  <1>8. Exported'
    BY DEF InsertFails, Written, RecordsInv, Exported, Holder, NotOpenYet, TypeOK
  <1>9. QED
    BY <1>1, <1>2, <1>3, <1>4, <1>5, <1>6, <1>7, <1>8 DEF RecordsInv

\* The exporter that finds the lock free is the only one inside; closing
\* the run keeps its rows as they are when they are read.
LEMMA LockInv ==
  ASSUME RecordsInv, NEW e \in Exporters, Lock(e)
  PROVE  RecordsInv'
  BY DEF Lock, Exporting, RecordsInv, TypeOK, NotOpenYet, OpenRun,
         RowsOfThisRun, RunCounted, InHand, RowsDiffer, Holder, Exported

LEMMA CloseInv ==
  ASSUME RecordsInv, NEW e \in Exporters, Close(e)
  PROVE  RecordsInv'
  BY ZenonT(40)
     DEF Close, Exporting, RecordsInv, TypeOK, NotOpenYet, OpenRun,
         RowsOfThisRun, RunCounted, InHand, RowsDiffer, Holder, Exported

LEMMA OpenWorkbookInv ==
  ASSUME RecordsInv, NEW e \in Exporters, OpenWorkbook(e)
  PROVE  RecordsInv'
  BY DEF OpenWorkbook, Exporting, RecordsInv, TypeOK, NotOpenYet, OpenRun,
         RowsOfThisRun, RunCounted, InHand, RowsDiffer, Holder, Exported

LEMMA WriteWorkbookInv ==
  ASSUME RecordsInv, NEW e \in Exporters, WriteWorkbook(e)
  PROVE  RecordsInv'
  BY DEF WriteWorkbook, Exporting, RecordsInv, TypeOK, NotOpenYet, OpenRun,
         RowsOfThisRun, RunCounted, InHand, RowsDiffer, Holder, Exported

LEMMA ExportFailsInv ==
  ASSUME RecordsInv, NEW e \in Exporters, ExportFails(e)
  PROVE  RecordsInv'
  BY DEF ExportFails, Exporting, RecordsInv, TypeOK, NotOpenYet, OpenRun,
         RowsOfThisRun, RunCounted, InHand, RowsDiffer, Holder, Exported

\* One case for each action.
LEMMA RecordsStep == RecordsInv /\ [Next]_vars => RecordsInv'
  <1> SUFFICES ASSUME RecordsInv, [Next]_vars PROVE RecordsInv'
    OBVIOUS
  <1>1. CASE UNCHANGED vars
    BY <1>1 DEF vars, RecordsInv, TypeOK, NotOpenYet, OpenRun, RowsOfThisRun,
                RunCounted, InHand, RowsDiffer, Holder, Exported
  <1>2. CASE Launch \/ Kill \/ FullRunComplete
    BY <1>2, LaunchInv, KillInv, FullRunCompleteInv
  <1>3. CASE SignalShutdown \/ Signal \/ RemoteShutdown \/ Interrupt
    BY <1>3, SignalShutdownInv, SignalInv, RemoteShutdownInv, InterruptInv
  <1>4. CASE Process
    BY <1>4, ConstructInv, ConstructFailsInv, LeaveHookInv, ExitInv DEF Process
  <1>5. ASSUME NEW w \in Writers, Confirm(w) \/ Writer(w) PROVE RecordsInv'
    BY <1>5, ConfirmInv, InsertInv, InsertFailsInv DEF Writer
  <1>6. ASSUME NEW e \in Exporters, Export(e) PROVE RecordsInv'
    BY <1>6, LockInv, CloseInv, OpenWorkbookInv, WriteWorkbookInv, ExportFailsInv
       DEF Export
  <1>7. QED
    BY <1>1, <1>2, <1>3, <1>4, <1>5, <1>6 DEF Next

\* What the proofs below rest on: one exporter at a time, a run closed
\* before its rows are read, and results that are in one place only.
THEOREM RecordsInvariant == Spec => []RecordsInv
  <1>1. Init => RecordsInv
    BY RecordsInitInv
  <1>2. RecordsInv /\ [Next]_vars => RecordsInv'
    BY RecordsStep
  <1>3. QED
    BY <1>1, <1>2, PTL DEF Spec

-----------------------------------------------------------------------------
(* No result disappears.                                                   *)

\* Every result of the run is written, refused, lost or still in a hand.
Covered ==
    \A n \in 1 .. confirmed :
        \/ \E k \in DOMAIN records : records[k] = <<run, n>>
        \/ <<run, n>> \in late \union dropped
        \/ \E w \in Writers : writing[w] = <<run, n>>

\* Only results of the run are refused or lost.
LostOfThisRun ==
    \A x \in late \union dropped : \E n \in 1 .. confirmed : x = <<run, n>>

Accounted == Covered /\ LostOfThisRun

\* Who neither confirms nor writes does not change the account.
LEMMA SameAccount ==
  ASSUME Accounted, UNCHANGED <<run, records, writers>>
  PROVE  Accounted'
  BY DEF Accounted, Covered, LostOfThisRun

\* A confirmed result is in the hand of its writer, whose hand was empty.
LEMMA ConfirmAccount ==
  ASSUME RecordsInv, Accounted, NEW w \in Writers, Confirm(w)
  PROVE  Accounted'
  <1>1. /\ writing' = [writing EXCEPT ![w] = <<run, confirmed + 1>>]
        /\ confirmed' = confirmed + 1 /\ writing[w] = NoResult
        /\ UNCHANGED <<run, records, late, dropped>>
    BY DEF Confirm
  <1>2. writing \in [Writers -> Results \union {NoResult}] /\ confirmed \in Nat
        /\ run >= 1
    BY DEF RecordsInv, TypeOK, RunCounted, Confirm
  <1>3. LostOfThisRun'
    BY <1>1, <1>2 DEF Accounted, LostOfThisRun
  <1>4. ASSUME NEW n \in 1 .. confirmed'
        PROVE  \/ \E k \in DOMAIN records : records[k] = <<run, n>>
               \/ <<run, n>> \in late \union dropped
               \/ \E v \in Writers : writing'[v] = <<run, n>>
    <2>1. CASE n = confirmed + 1
      BY <2>1, <1>1, <1>2
    <2>2. CASE n \in 1 .. confirmed
      <3>1. CASE \E v \in Writers : writing[v] = <<run, n>>
        <4>1. PICK v \in Writers : writing[v] = <<run, n>>
          BY <3>1
        <4>2. v # w
          BY <4>1, <1>1, <1>2
        <4>3. writing'[v] = <<run, n>>
          BY <4>1, <4>2, <1>1, <1>2
        <4>4. QED
          BY <4>3
      <3>2. CASE ~\E v \in Writers : writing[v] = <<run, n>>
        BY <2>2, <3>2 DEF Accounted, Covered
      <3>3. QED
        BY <3>1, <3>2
    <2>3. QED
      BY <2>1, <2>2, <1>1, <1>2
  <1>5. QED
    BY <1>1, <1>3, <1>4 DEF Accounted, Covered

\* A result that leaves a hand is a row, refused or lost.
LEMMA WriterAccount ==
  ASSUME RecordsInv, Accounted, NEW w \in Writers, Writer(w)
  PROVE  Accounted'
  <1> DEFINE result == writing[w]
  <1>1. /\ writing' = [writing EXCEPT ![w] = NoResult]
        /\ result # NoResult
        /\ UNCHANGED <<run, confirmed>>
    BY DEF Writer, Insert, InsertFails, Written
  <1>2. /\ writing \in [Writers -> Results \union {NoResult}]
        /\ records \in Seq(Results) /\ result \in Results
    BY <1>1 DEF RecordsInv, TypeOK
  <1>3. \E n \in 1 .. confirmed : result = <<run, n>>
    BY <1>1 DEF RecordsInv, InHand
  <1>4. \/ records' = Append(records, result) /\ UNCHANGED <<late, dropped>>
        \/ /\ late' \union dropped' = (late \union dropped) \union {result}
           /\ UNCHANGED records
    BY DEF Writer, Insert, InsertFails, Written
  <1>5. LostOfThisRun'
    BY <1>1, <1>3, <1>4 DEF Accounted, LostOfThisRun
  <1>6. /\ \A k \in DOMAIN records : k \in DOMAIN records' /\ records'[k] = records[k]
        /\ late \union dropped \subseteq late' \union dropped'
        /\ \/ \E k \in DOMAIN records' : records'[k] = result
           \/ result \in late' \union dropped'
    <2>1. CASE records' = Append(records, result) /\ UNCHANGED <<late, dropped>>
      <3>1. /\ DOMAIN records' = 1 .. Len(records) + 1
            /\ DOMAIN records = 1 .. Len(records)
            /\ Len(records) \in Nat
            /\ \A k \in 1 .. Len(records) : records'[k] = records[k]
            /\ records'[Len(records) + 1] = result
        BY <1>2, <2>1
      <3>2. QED
        BY <3>1, <2>1
    <2>2. CASE /\ late' \union dropped' = (late \union dropped) \union {result}
               /\ UNCHANGED records
      BY <2>2
    <2>3. QED
      BY <1>4, <2>1, <2>2
  <1>7. ASSUME NEW v \in Writers, v # w PROVE writing'[v] = writing[v]
    BY <1>1, <1>2, <1>7
  <1>8. ASSUME NEW n \in 1 .. confirmed
        PROVE  \/ \E k \in DOMAIN records' : records'[k] = <<run, n>>
               \/ <<run, n>> \in late' \union dropped'
               \/ \E v \in Writers : writing'[v] = <<run, n>>
    <2>1. CASE \E k \in DOMAIN records : records[k] = <<run, n>>
      BY <2>1, <1>6
    <2>2. CASE <<run, n>> \in late \union dropped
      BY <2>2, <1>6
    <2>3. CASE \E v \in Writers : writing[v] = <<run, n>>
      <3>1. PICK v \in Writers : writing[v] = <<run, n>>
        BY <2>3
      <3>2. CASE v = w
        BY <3>1, <3>2, <1>6
      <3>3. CASE v # w
        BY <3>1, <3>3, <1>7
      <3>4. QED
        BY <3>2, <3>3
    <2>4. QED
      BY <2>1, <2>2, <2>3 DEF Accounted, Covered
  <1>9. QED
    BY <1>1, <1>5, <1>8 DEF Accounted, Covered

\* The account is kept by every step; a run begins with nothing to account.
LEMMA AccountStep == RecordsInv /\ Accounted /\ [Next]_vars => Accounted'
  <1> SUFFICES ASSUME RecordsInv, Accounted, [Next]_vars PROVE Accounted'
    OBVIOUS
  <1>1. CASE UNCHANGED vars
    BY <1>1, SameAccount DEF vars
  <1>2. CASE Launch
    BY <1>2 DEF Launch, Accounted, Covered, LostOfThisRun
  <1>3. CASE Construct
    BY <1>3 DEF Construct, Accounted, Covered, LostOfThisRun, RecordsInv, NotOpenYet
  <1>4. CASE \/ Kill \/ FullRunComplete \/ SignalShutdown \/ Signal
             \/ RemoteShutdown \/ Interrupt \/ ConstructFails \/ LeaveHook \/ Exit
    BY <1>4, SameAccount DEF Kill, FullRunComplete, SignalShutdown, Signal, Exit,
       RemoteShutdown, EnterHook, Interrupt, ConstructFails, LeaveHook
  <1>5. ASSUME NEW w \in Writers, Confirm(w) \/ Writer(w) PROVE Accounted'
    BY <1>5, ConfirmAccount, WriterAccount
  <1>6. ASSUME NEW e \in Exporters, Export(e) PROVE Accounted'
    BY <1>6, SameAccount
       DEF Export, Lock, Close, OpenWorkbook, WriteWorkbook, ExportFails
  <1>7. QED
    BY <1>1, <1>2, <1>3, <1>4, <1>5, <1>6 DEF Next, Process

\* Every confirmed result is in the workbook of its run, or was refused after
\* the run was closed, lost to a transaction that failed, or is still written.
THEOREM AllResultsAccounted == Spec => []NothingMissing
  <1>1. Init => Accounted
    BY DEF Init, Accounted, Covered, LostOfThisRun
  <1>2. RecordsInv /\ Accounted /\ [Next]_vars => Accounted'
    BY AccountStep
  <1>3. RecordsInv /\ Accounted => NothingMissing
    <2> SUFFICES ASSUME RecordsInv, Accounted, exported_path
                 PROVE  {<<run, n>> : n \in 1 .. confirmed} =
                          {workbook[k] : k \in DOMAIN workbook}
                            \union late \union dropped
                            \union ({writing[w] : w \in Writers} \ {NoResult})
      BY DEF NothingMissing
    <2>1. workbook = records /\ RowsOfThisRun /\ records \in Seq(Results)
      BY DEF RecordsInv, Exported, OpenRun, TypeOK
    <2>2. ASSUME NEW n \in 1 .. confirmed
          PROVE  \/ \E k \in DOMAIN workbook : workbook[k] = <<run, n>>
                 \/ <<run, n>> \in late \union dropped
                 \/ <<run, n>> \in {writing[w] : w \in Writers} \ {NoResult}
      <3>1. <<run, n>> # NoResult
        BY <2>2 DEF RecordsInv, TypeOK
      <3>2. QED
        BY <2>1, <3>1 DEF Accounted, Covered
    <2>3. ASSUME NEW k \in DOMAIN workbook
          PROVE  \E n \in 1 .. confirmed : workbook[k] = <<run, n>>
      <3>1. records[k] \in Results /\ records[k][1] = run
            /\ records[k][2] \in 1 .. confirmed
        BY <2>1 DEF RowsOfThisRun
      <3>2. records[k] = <<run, records[k][2]>>
        BY <3>1 DEF Results
      <3>3. QED
        BY <2>1, <3>1, <3>2
    <2>4. ASSUME NEW x \in late \union dropped
          PROVE  \E n \in 1 .. confirmed : x = <<run, n>>
      BY DEF Accounted, LostOfThisRun
    <2>5. ASSUME NEW w \in Writers, writing[w] # NoResult
          PROVE  \E n \in 1 .. confirmed : writing[w] = <<run, n>>
      BY <2>5 DEF RecordsInv, InHand
    <2>6. QED
      BY <2>2, <2>3, <2>4, <2>5
  <1>4. QED
    BY <1>1, <1>2, <1>3, RecordsInvariant, PTL DEF Spec

-----------------------------------------------------------------------------

\* An exported workbook has the results of its run, each once, and nothing
\* enters the run any more, whatever fails, is killed or interrupted.
THEOREM WorkbookOfTheRun == Spec => []WorkbookIsTheRun
  <1>1. RecordsInv => WorkbookIsTheRun
    BY DEF RecordsInv, WorkbookIsTheRun, OpenRun, RowsOfThisRun, RowsDiffer,
           Exported
  <1>2. QED
    BY <1>1, RecordsInvariant, PTL

\* A shutdown callback that did not fail leaves the complete workbook, also
\* after an export that failed, was interrupted or runs beside it.
THEOREM ShutdownExports == Spec => []ShutdownMakesGood
  <1>1. RecordsInv => ShutdownMakesGood
    BY DEF RecordsInv, ShutdownMakesGood, Holder, Exported
  <1>2. QED
    BY <1>1, RecordsInvariant, PTL

-----------------------------------------------------------------------------
(* Nobody waits for export_lock for ever.                                  *)

\* The holder of the lock is between taking and releasing it, and is not
\* suspended.
HeldByARunner ==
    /\ export_lock # Unlocked => at[export_lock] \in Inside
    /\ suspended => export_lock # "main"

LEMMA HolderRunsOn ==
  ASSUME ~SignalDuringExport, RecordsInv, HeldByARunner, [Next]_vars
  PROVE  HeldByARunner'
  <1>0. /\ at \in [Exporters -> {"idle", "lock", "close", "save", "write"}
                                  \union Ended]
        /\ export_lock \in Exporters \union {Unlocked}
        /\ suspended \in BOOLEAN
        /\ \A e \in Exporters : at[e] \in Inside => export_lock = e
    BY DEF RecordsInv, TypeOK, Holder
  <1> USE <1>0 DEF HeldByARunner
  <1>1. CASE UNCHANGED <<at, export_lock, suspended>>
    BY <1>1
  <1>2. CASE Launch
    BY <1>2 DEF Launch
  <1>3. CASE FullRunComplete
    BY <1>3 DEF FullRunComplete
  <1>4. CASE SignalShutdown
    BY <1>4 DEF SignalShutdown, EnterHook
  <1>5. CASE Signal
    BY <1>5 DEF Signal, EnterHook
  <1>6. CASE RemoteShutdown
    BY <1>6 DEF RemoteShutdown, EnterHook
  <1>7. CASE Interrupt
    BY <1>7 DEF Interrupt
  <1>8. CASE LeaveHook
    BY <1>8 DEF LeaveHook
  <1>9. ASSUME NEW e \in Exporters, Lock(e) PROVE HeldByARunner'
    BY <1>9 DEF Lock, Exporting
  <1>10. ASSUME NEW e \in Exporters, Close(e) \/ OpenWorkbook(e)
         PROVE  HeldByARunner'
    BY <1>10 DEF Close, OpenWorkbook, Exporting
  <1>11. ASSUME NEW e \in Exporters, WriteWorkbook(e) \/ ExportFails(e)
         PROVE  HeldByARunner'
    BY <1>11 DEF WriteWorkbook, ExportFails, Exporting
  <1>12. CASE UNCHANGED vars
    BY <1>12 DEF vars
  <1>13. CASE Kill \/ Construct \/ ConstructFails \/ Exit
    BY <1>13 DEF Kill, Construct, ConstructFails, Exit
  <1>14. ASSUME NEW w \in Writers, Confirm(w) \/ Insert(w) \/ InsertFails(w)
         PROVE  HeldByARunner'
    BY <1>14 DEF Confirm, Insert, InsertFails, Written
  <1> QED  BY <1>2, <1>3, <1>4, <1>5, <1>6, <1>7, <1>8, <1>9, <1>10, <1>11,
              <1>12, <1>13, <1>14 DEF Next, Process, Writer, Export

\* Whoever waits for export_lock waits for another exporter that can go on.
LockComesFree ==
    \A e \in Exporters :
        at[e] = "lock" /\ export_lock # Unlocked =>
            /\ export_lock # e /\ at[export_lock] \in Inside
            /\ ~(export_lock = "main" /\ suspended)

\* Without a signal to a main thread that is exporting, the shutdown callback
\* never waits for the thread it interrupted: a deadlock at the lock
\* (recognition_records.py:77) takes such a signal.
THEOREM NoExporterIsStuck ==
  ASSUME ~SignalDuringExport
  PROVE  Spec => []LockComesFree
  <1>1. Init => HeldByARunner
    BY DEF Init, HeldByARunner
  <1>2. RecordsInv /\ HeldByARunner /\ [Next]_vars => HeldByARunner'
    BY HolderRunsOn
  <1>3. HeldByARunner => LockComesFree
    BY DEF HeldByARunner, LockComesFree
  <1>4. QED
    BY <1>1, <1>2, <1>3, RecordsInvariant, PTL DEF Spec
===============================================================================

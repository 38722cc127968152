------------------------- MODULE FabricEngineProofs -------------------------
(***************************************************************************)
(* Types and safety of FabricEngine, for every number of jobs, every set   *)
(* of keys and specifications, both process containments and any number of *)
(* outages and faults.  Beside the types: IInv is inductive, and with it   *)
(* at most one job is active, a workload is launched at most once,         *)
(* manifest.json is never behind the database and the row of a terminal    *)
(* job never changes again.  An answered submission keeps its job, and the *)
(* worker serves only with its files reconciled.                           *)
(***************************************************************************)
EXTENDS FabricEngine, TLAPS

-----------------------------------------------------------------------------
(* Type correctness.                                                       *)

\* The constant records are of their types.
LEMMA RowTypes ==
  /\ NoRow \in Rows
  /\ NoTx \in Writes
  /\ FreshOutcome \in Outcomes
  /\ \A k \in Keys, s \in Specs : NewRow(k, s) \in Rows
<1>1. NoRow \in Rows
  BY DEF NoRow, Rows, States, Codes
<1>2. 1 \in Jobs
  BY EngineAssumption DEF Jobs
<1>3. NoTx \in Writes
  BY <1>1, <1>2 DEF NoTx, Writes
<1>4. FreshOutcome \in Outcomes
  BY DEF FreshOutcome, Outcomes, Terminal, Codes
<1>5. \A k \in Keys, s \in Specs : NewRow(k, s) \in Rows
  BY DEF NewRow, NoRow, Rows, States, Codes
<1>6. QED
  BY <1>1, <1>3, <1>4, <1>5

\* What the engine writes into a row leaves it a row.
LEMMA RowUpdates ==
  ASSUME NEW r \in Rows
  PROVE  /\ \A s \in States : [r EXCEPT !.state = s] \in Rows
         /\ \A s \in States : [r EXCEPT !.state = s, !.proc = TRUE] \in Rows
         /\ [r EXCEPT !.cancel = TRUE] \in Rows
         /\ [r EXCEPT !.state = "CANCELLED", !.cancel = TRUE,
                      !.code = "CANCELLED"] \in Rows
         /\ \A o \in Outcomes : [r EXCEPT !.state = o.final, !.code = o.code,
                                         !.experr = o.experr] \in Rows
BY DEF Rows, Outcomes, States, Terminal, Codes

\* What _execute notes about a job leaves a final state and a code.
LEMMA OutcomeUpdates ==
  ASSUME NEW o \in Outcomes
  PROVE  /\ \A f \in Terminal, c \in Codes :
              [o EXCEPT !.final = f, !.code = c] \in Outcomes
         /\ \A c \in Codes : [o EXCEPT !.code = c] \in Outcomes
         /\ [o EXCEPT !.experr = TRUE] \in Outcomes
BY DEF Outcomes, Terminal, Codes

\* Note with a final state and a code of the right types.
LEMMA NoteTypes ==
  ASSUME TypeOK, NEW f \in Terminal, NEW c \in Codes, Note(f, c)
  PROVE  outcome' \in Outcomes
BY OutcomeUpdates DEF Note, TypeOK

\* Degrade yields an outcome, with or without the export error.
LEMMA DegradeTypes ==
  ASSUME TypeOK, NEW c \in Codes
  PROVE  /\ Degrade(c) \in Outcomes
         /\ [Degrade(c) EXCEPT !.experr = TRUE] \in Outcomes
<1>1. Degrade(c) \in Outcomes
  BY OutcomeUpdates DEF Degrade, TypeOK, Terminal
<1>2. QED
  BY <1>1, OutcomeUpdates

\* A step that only moves the scheduler thread leaves every variable typed.
LEMMA ThreadTypes ==
  ASSUME TypeOK, NEW here, NEW there \in PCs, ThreadStep(here, there),
         outcome' \in Outcomes
  PROVE  TypeOK'
BY DEF ThreadStep, TypeOK, disk, proc, os, book

\* The death of the worker process leaves every variable typed.
LEMMA GoneTypes ==
  ASSUME TypeOK, ProcessGone, outages' \in Nat, faults' \in Nat
  PROVE  TypeOK'
BY RowTypes DEF ProcessGone, TypeOK, Writes, PCs, disk

\* Every action of the engine leaves every variable typed.
LEMMA TypeStep == TypeOK /\ [Next]_vars => TypeOK'
<1> SUFFICES ASSUME TypeOK, [Next]_vars PROVE TypeOK'
  OBVIOUS
<1>1. ASSUME NEW k \in Keys, NEW s \in Specs, NEW j \in Jobs, Submit(k, s, j) PROVE TypeOK'
  BY <1>1, RowTypes DEF Submit, WriteManifest, TypeOK, PCs, Executing, Timed,
     BeforeLaunch, Writes, book, os, proc, thread
<1>2. ASSUME NEW k \in Keys, NEW s \in Specs, SubmitAgain(k, s) PROVE TypeOK'
  <2>1. acked' \subseteq [key : Keys \cup {None},
                          spec : Specs \cup {None}, job : Jobs]
    BY <1>2 DEF SubmitAgain, Answer, TypeOK, ByKey
  <2>2. QED BY <1>2, <2>1 DEF SubmitAgain, TypeOK, disk, os, proc, thread
<1>3. ASSUME NEW j \in Jobs, Cancel(j) PROVE TypeOK'
  <2>1. CancelRow(j) \in Rows
    BY RowUpdates DEF CancelRow, TypeOK, States, Active
  <2>2. QED BY <1>3, <2>1 DEF Cancel, Update, WriteManifest, TypeOK, PCs,
     Executing, Timed, BeforeLaunch, Writes, book, os, proc, thread
<1>4. ASSUME SubmitCommitted PROVE TypeOK'
  <2>1. acked' \subseteq [key : Keys \cup {None},
                          spec : Specs \cup {None}, job : Jobs]
    BY <1>4 DEF SubmitCommitted, Answer, TypeOK, Writes, Rows
  <2>2. QED BY <1>4, <2>1, RowTypes DEF SubmitCommitted, CommitRow, TypeOK,
     Writes, os, proc, thread
<1>5. ASSUME CancelCommitted PROVE TypeOK'
  BY <1>5, RowTypes DEF CancelCommitted, CommitRow, TypeOK, PCs, Executing,
     Timed, BeforeLaunch, Writes, book, os, proc, thread
<1>6. ASSUME CancelExported PROVE TypeOK'
  BY <1>6, RowTypes DEF CancelExported, TypeOK, PCs, Executing, Timed,
     BeforeLaunch, Writes, Terminal, book, os, proc, thread
<1>7. ASSUME NEW j \in Jobs, RecoverManifest(j) PROVE TypeOK'
  BY <1>7 DEF RecoverManifest, TypeOK, PCs, Executing, Timed, BeforeLaunch,
     book, os, thread
<1>8. ASSUME NEW j \in Jobs, RecoverActive(j) PROVE TypeOK'
  <2>1. outcome' \in Outcomes
    BY <1>8, RowTypes, OutcomeUpdates DEF RecoverActive, TypeOK, Terminal,
       Codes
  <2>2. QED BY <1>8, <2>1 DEF RecoverActive, TypeOK, PCs, Executing, Timed,
     BeforeLaunch, book, disk, proc
<1>9. ASSUME RecoverDone PROVE TypeOK'
  BY <1>9 DEF RecoverDone, TypeOK, PCs, Executing, Timed, BeforeLaunch, book,
     disk, os
<1>10. ASSUME NEW j \in Jobs, Dispatch(j) PROVE TypeOK'
  <2>1. [db[j] EXCEPT !.state = "STARTING"] \in Rows
    BY RowUpdates DEF TypeOK, States, Active
  <2>2. QED BY <1>10, <2>1, RowTypes DEF Dispatch, Update, WriteManifest,
     TypeOK, PCs, Executing, Timed, BeforeLaunch, Writes, book, os, proc
<1>11. ASSUME DispatchCommitted PROVE TypeOK'
  BY <1>11, RowTypes DEF DispatchCommitted, WriteDone, CommitRow, TypeOK, PCs,
     Executing, Timed, BeforeLaunch, Writes, book, os, proc
<1>12. ASSUME SchedulerStops PROVE TypeOK'
  BY <1>12, ThreadTypes DEF SchedulerStops, TypeOK, PCs, Executing, Timed,
     BeforeLaunch
<1>13. ASSUME IdleWait PROVE TypeOK'
  BY <1>13 DEF IdleWait, TypeOK, PCs, Executing, Timed, BeforeLaunch, book,
     disk, os, proc, thread, vars
<1>14. ASSUME CheckRaises PROVE TypeOK'
  <2>1. outcome' \in Outcomes
    BY <1>14, NoteTypes DEF CheckRaises, ControlFailure, TypeOK, Terminal,
       Codes
  <2>2. QED BY <1>14, <2>1, ThreadTypes DEF CheckRaises, PCs, Executing,
     Timed, BeforeLaunch
<1>15. ASSUME Enter PROVE TypeOK'
  BY <1>15, ThreadTypes DEF Enter, TypeOK, PCs, Executing, Timed, BeforeLaunch
<1>16. ASSUME AcquireLease PROVE TypeOK'
  BY <1>16 DEF AcquireLease, TypeOK, PCs, Executing, Timed, BeforeLaunch,
     book, disk, proc
<1>17. ASSUME LeaseBusy PROVE TypeOK'
  <2>1. outcome' \in Outcomes
    BY <1>17, NoteTypes DEF LeaseBusy, TypeOK, Terminal, Codes
  <2>2. QED BY <1>17, <2>1, ThreadTypes DEF LeaseBusy, PCs, Executing, Timed,
     BeforeLaunch
<1>18. ASSUME Prepare PROVE TypeOK'
  <2>1. outcome' \in Outcomes
    BY <1>18, NoteTypes DEF Prepare, ControlFailure, TypeOK, Terminal, Codes
  <2>2. QED BY <1>18, <2>1, ThreadTypes DEF Prepare, PCs, Executing, Timed,
     BeforeLaunch
<1>19. ASSUME LastCheck PROVE TypeOK'
  BY <1>19, ThreadTypes DEF LastCheck, TypeOK, PCs, Executing, Timed,
     BeforeLaunch
<1>20. ASSUME Launch PROVE TypeOK'
  BY <1>20 DEF Launch, TypeOK, PCs, Executing, Timed, BeforeLaunch, book,
     disk, proc
<1>21. ASSUME LaunchFails PROVE TypeOK'
  <2>1. outcome' \in Outcomes
    BY <1>21, NoteTypes DEF LaunchFails, TypeOK, Terminal, Codes
  <2>2. QED BY <1>21, <2>1, ThreadTypes DEF LaunchFails, PCs, Executing,
     Timed, BeforeLaunch
<1>22. ASSUME Record PROVE TypeOK'
  <2>1. [db[job] EXCEPT !.state = "RUNNING", !.proc = TRUE] \in Rows
    BY RowUpdates DEF TypeOK, States, Active
  <2>2. QED BY <1>22, <2>1 DEF Record, Update, WriteManifest, TypeOK, PCs,
     Executing, Timed, BeforeLaunch, Writes, book, os, proc
<1>23. ASSUME RecordCommitted PROVE TypeOK'
  BY <1>23, RowTypes DEF RecordCommitted, WriteDone, CommitRow, TypeOK, PCs,
     Executing, Timed, BeforeLaunch, Writes, book, os, proc
<1>24. ASSUME SeesExit PROVE TypeOK'
  BY <1>24, ThreadTypes DEF SeesExit, TypeOK, PCs, Executing, Timed,
     BeforeLaunch
<1>25. ASSUME JudgeExit PROVE TypeOK'
  <2>1. outcome' \in Outcomes
    BY <1>25, NoteTypes DEF JudgeExit, ControlFailure, TypeOK, Terminal, Codes
  <2>2. QED BY <1>25, <2>1, ThreadTypes DEF JudgeExit, PCs, Executing, Timed,
     BeforeLaunch
<1>26. ASSUME Cleanup PROVE TypeOK'
  <2>1. root' \in [Jobs -> {"none", "live", "zero", "nonzero", "killed"}]
    BY <1>26 DEF Cleanup, TypeOK
  <2>2. QED BY <1>26, <2>1 DEF Cleanup, WithoutTree, TypeOK, PCs, Executing,
     Timed, BeforeLaunch, book, disk, proc
<1>27. ASSUME ReleaseLease PROVE TypeOK'
  BY <1>27 DEF ReleaseLease, TypeOK, PCs, Executing, Timed, BeforeLaunch,
     book, disk, proc
<1>28. ASSUME CollectArtifacts PROVE TypeOK'
  <2>1. outcome' \in Outcomes
    BY <1>28, DegradeTypes DEF CollectArtifacts, TypeOK, Terminal, Codes
  <2>2. QED BY <1>28, <2>1, ThreadTypes DEF CollectArtifacts, PCs, Executing,
     Timed, BeforeLaunch
<1>29. ASSUME Export PROVE TypeOK'
  BY <1>29 DEF Export, TypeOK, PCs, Executing, Timed, BeforeLaunch, Outcomes,
     book, os, proc
<1>30. ASSUME Finish PROVE TypeOK'
  <2>1. FinalRow \in Rows
    BY RowUpdates DEF FinalRow, TypeOK, States, Active
  <2>2. QED BY <1>30, <2>1 DEF Finish, Update, WriteManifest, TypeOK, PCs,
     Executing, Timed, BeforeLaunch, Writes, book, os, proc
<1>31. ASSUME FinishCommitted PROVE TypeOK'
  BY <1>31, RowTypes DEF FinishCommitted, WriteDone, CommitRow, TypeOK, PCs,
     Executing, Timed, BeforeLaunch, Writes, book, os, proc
<1>32. ASSUME ClientFails PROVE TypeOK'
  BY <1>32, RowTypes DEF ClientFails, Fault, TypeOK, PCs, Executing, Timed,
     BeforeLaunch, Writes, disk, os, proc, thread
<1>33. ASSUME RecoverFails PROVE TypeOK'
  BY <1>33, GoneTypes DEF RecoverFails, TypeOK, Fault
<1>34. ASSUME DispatchFails PROVE TypeOK'
  BY <1>34, RowTypes DEF DispatchFails, WriteFails, Fault, Fatal, TypeOK, PCs,
     Executing, Timed, BeforeLaunch, Writes, disk, os, proc
<1>35. ASSUME HelperCleanupFails PROVE TypeOK'
  <2>1. outcome' \in Outcomes
    BY <1>35, NoteTypes DEF HelperCleanupFails, Unclean, TypeOK, Terminal,
       Codes
  <2>2. QED BY <1>35, <2>1 DEF HelperCleanupFails, Fault, Unclean, TypeOK,
     PCs, Executing, Timed, BeforeLaunch, disk, os
<1>36. ASSUME RecordFails PROVE TypeOK'
  <2>1. outcome' \in Outcomes
    BY <1>36, NoteTypes DEF RecordFails, TypeOK, Terminal, Codes
  <2>2. QED BY <1>36, <2>1, RowTypes DEF RecordFails, WriteFails, Fault,
     TypeOK, PCs, Executing, Timed, BeforeLaunch, Writes, disk, os, proc
<1>37. ASSUME CleanupFails PROVE TypeOK'
  <2>1. outcome' \in Outcomes
    BY <1>37, NoteTypes DEF CleanupFails, Unclean, TypeOK, Terminal, Codes
  <2>2. QED BY <1>37, <2>1 DEF CleanupFails, Fault, Unclean, TypeOK, PCs,
     Executing, Timed, BeforeLaunch, disk, os
<1>38. ASSUME ReleaseFails PROVE TypeOK'
  BY <1>38 DEF ReleaseFails, Fault, Fatal, TypeOK, PCs, Executing, Timed,
     BeforeLaunch, disk
<1>39. ASSUME ExportFails PROVE TypeOK'
  <2>1. outcome' \in Outcomes
    BY <1>39, DegradeTypes DEF ExportFails, TypeOK, Terminal, Codes
  <2>2. QED BY <1>39, <2>1 DEF ExportFails, Fault, TypeOK, PCs, Executing,
     Timed, BeforeLaunch, disk, os, proc
<1>40. ASSUME FinishFails PROVE TypeOK'
  BY <1>40, RowTypes DEF FinishFails, WriteFails, Fault, Fatal, TypeOK, PCs,
     Executing, Timed, BeforeLaunch, Writes, disk, os, proc
<1>41. ASSUME RecoverFinishFails PROVE TypeOK'
  BY <1>41, GoneTypes DEF RecoverFinishFails, TypeOK, Fault
<1>42. ASSUME Start PROVE TypeOK'
  BY <1>42 DEF Start, TypeOK, PCs, Executing, Timed, BeforeLaunch,
     RecoverySet, book, disk, os
<1>43. ASSUME Stop PROVE TypeOK'
  BY <1>43 DEF Stop, Outage, TypeOK, PCs, Executing, Timed, BeforeLaunch,
     disk, os, thread
<1>44. ASSUME Exit PROVE TypeOK'
  BY <1>44, GoneTypes DEF Exit, TypeOK
<1>45. ASSUME Crash PROVE TypeOK'
  BY <1>45, GoneTypes DEF Crash, TypeOK, Outage
<1>46. ASSUME Expire PROVE TypeOK'
  BY <1>46 DEF Expire, TypeOK, PCs, Executing, Timed, BeforeLaunch, book,
     disk, os, proc
<1>47. ASSUME NEW j \in Jobs, NEW code \in {"zero", "nonzero"}, RootExits(j, code) PROVE TypeOK'
  BY <1>47 DEF RootExits, TypeOK, PCs, Executing, Timed, BeforeLaunch, book,
     disk, proc, thread
<1>48. ASSUME NEW j \in Jobs, DescendantsExit(j) PROVE TypeOK'
  BY <1>48 DEF DescendantsExit, TypeOK, PCs, Executing, Timed, BeforeLaunch,
     book, disk, proc, thread
<1>49. ASSUME LeaseElsewhere PROVE TypeOK'
  BY <1>49 DEF LeaseElsewhere, TypeOK, PCs, Executing, Timed, BeforeLaunch,
     book, disk, proc, thread
<1>50. CASE UNCHANGED vars
  BY <1>50 DEF vars, disk, proc, thread, os, book, TypeOK
<1>51. ASSUME AcquireFails PROVE TypeOK'
  <2>1. outcome' \in Outcomes
    BY <1>51, NoteTypes DEF AcquireFails, TypeOK, Terminal, Codes
  <2>2. QED BY <1>51, <2>1 DEF AcquireFails, Fault, TypeOK, PCs, Executing,
     Timed, BeforeLaunch, disk, proc
<1>52. QED
  BY <1>1, <1>2, <1>3, <1>4, <1>5, <1>6, <1>7, <1>8, <1>9, <1>10, <1>11,
     <1>12, <1>13, <1>14, <1>15, <1>16, <1>17, <1>18, <1>19, <1>20, <1>21,
     <1>22, <1>23, <1>24, <1>25, <1>26, <1>27, <1>28, <1>29, <1>30, <1>31,
     <1>32, <1>33, <1>34, <1>35, <1>36, <1>37, <1>38, <1>39, <1>40, <1>41,
     <1>42, <1>43, <1>44, <1>45, <1>46, <1>47, <1>48, <1>49, <1>50,
     <1>51
  DEF Next, Client, ClientEnds, Recovery, Scheduler, Failures, Environment

\* The initial state is typed.
LEMMA TypeInit == Init => TypeOK
<1> SUFFICES ASSUME Init PROVE TypeOK
  OBVIOUS
<1>1. 1 \in Jobs
  BY EngineAssumption DEF Jobs
<1>2. db \in [Jobs -> Rows] /\ manifest \in [Jobs -> Rows]
  BY RowTypes DEF Init
<1>3. /\ metrics \in [Jobs -> {"NONE", "PENDING"} \cup Terminal]
      /\ root \in [Jobs -> {"none", "live", "zero", "nonzero", "killed"}]
      /\ launches \in [Jobs -> Nat]
  BY DEF Init
<1>4. QED
  BY <1>1, <1>2, <1>3, RowTypes DEF Init, TypeOK, PCs

\* Type correctness of the engine: whatever is submitted, cancelled, interrupted
\* or fails, every variable keeps its type.
THEOREM TypeCorrect == Spec => []TypeOK
BY TypeInit, TypeStep, PTL DEF Spec

-----------------------------------------------------------------------------
(* The variables IInv speaks of, apart from the program counter.           *)

core == <<db, manifest, tx, mode, todo, job, launches>>

\* Steps of the clients' processes, of time and of the GPU do not touch it.
LEMMA QuietKeeps ==
  ASSUME IInv, UNCHANGED core, pc' = pc
  PROVE  IInv'
BY DEF core, IInv, PlaceInv, TxInv, ActiveInv, LaunchInv, OneActiveJob,
       LaunchedAtMostOnce, ManifestNotBehind, Present

\* The steps of _execute between its durable writes: the phase may only move
\* forward, and a job that has left the phases before the launch stays out.
LEMMA MoveKeeps ==
  ASSUME IInv, UNCHANGED core,
         pc \in Executing \ {"recording", "finish", "finishing"},
         pc' \in Executing \ {"record", "recording", "finishing"},
         pc = "export" => pc' = "finish",
         pc' \in BeforeLaunch => pc \in BeforeLaunch
  PROVE  IInv'
<1> USE DEF core, Executing, Timed, BeforeLaunch, Writing
<1>1. PlaceInv'
  BY DEF IInv, PlaceInv
<1>2. TxInv'
  BY DEF IInv, TxInv
<1>3. ActiveInv'
  BY DEF IInv, ActiveInv, OneActiveJob
<1>4. LaunchInv'
  BY DEF IInv, LaunchInv, LaunchedAtMostOnce
<1>5. ManifestNotBehind'
  BY DEF IInv, ManifestNotBehind, Present
<1>6. QED
  BY <1>1, <1>2, <1>3, <1>4, <1>5 DEF IInv

\* The worker process may die between any two steps.
LEMMA GoneKeeps ==
  ASSUME TypeOK, IInv, ProcessGone
  PROVE  IInv'
<1> USE DEF ProcessGone, disk, NoTx, Executing, Timed, BeforeLaunch, Writing
<1>1. PlaceInv'
  BY DEF PlaceInv
<1>2. TxInv'
  BY DEF TxInv
<1>3. ActiveInv'
  BY DEF IInv, ActiveInv, OneActiveJob
<1>4. LaunchInv'
  BY DEF IInv, LaunchInv, LaunchedAtMostOnce
<1>5. ManifestNotBehind'
  BY DEF IInv, ManifestNotBehind, Present
<1>6. QED
  BY <1>1, <1>2, <1>3, <1>4, <1>5 DEF IInv

-----------------------------------------------------------------------------
(* The two halves of the durable write.                                    *)

\* The state field of the rows the engine writes.
LEMMA RowStates ==
  ASSUME NEW r \in Rows, NEW s \in States
  PROVE  /\ [r EXCEPT !.state = s].state = s
         /\ [r EXCEPT !.state = s, !.proc = TRUE].state = s
         /\ [r EXCEPT !.cancel = TRUE].state = r.state
         /\ [r EXCEPT !.state = s, !.cancel = TRUE,
                      !.code = "CANCELLED"].state = s
         /\ \A o : [r EXCEPT !.state = s, !.code = o.code,
                             !.experr = o.experr].state = s
BY DEF Rows

\* The state and cancel fields of the rows the engine writes.
LEMMA RowFlags ==
  ASSUME NEW r \in Rows
  PROVE  /\ \A s : [r EXCEPT !.state = s].cancel = r.cancel
         /\ \A s : [r EXCEPT !.state = s, !.proc = TRUE].cancel = r.cancel
         /\ [r EXCEPT !.cancel = TRUE].cancel
         /\ \A s : [r EXCEPT !.state = s, !.cancel = TRUE,
                             !.code = "CANCELLED"].cancel
         /\ \A o : [r EXCEPT !.state = o.final, !.code = o.code,
                             !.experr = o.experr].cancel = r.cancel
BY DEF Rows

\* Replacing the file of a job that is not terminal leaves no file behind.
LEMMA WriteKeepsFiles ==
  ASSUME TypeOK, ManifestNotBehind, NEW who, NEW j \in Jobs, NEW row,
         WriteManifest(who, j, row), db' = db,
         db[j].state \notin Terminal, row.state # "ABSENT"
  PROVE  ManifestNotBehind'
BY DEF WriteManifest, ManifestNotBehind, Present, TypeOK

\* A commit writes the row its file already holds, over a row that is not
\* terminal, and never over one of a job that is not its own.
LEMMA CommitKeepsFiles ==
  ASSUME TypeOK, IInv, CommitRow, manifest' = manifest,
         tx.by \in {"submit", "cancel", "worker"}
  PROVE  ManifestNotBehind'
<1>1. manifest[tx.job] = tx.row
  BY DEF IInv, TxInv
<1>2. tx.job \in Jobs /\ db \in [Jobs -> Rows]
  BY DEF TypeOK, Writes
<1>3. tx.row.state # "ABSENT"
  BY DEF IInv, TxInv, Writing, Active, Terminal
<1>4. QED
  BY <1>1, <1>2, <1>3 DEF IInv, CommitRow, ManifestNotBehind, Present

\* The row a commit replaces is not terminal.
LEMMA CommitOverLive ==
  ASSUME IInv, tx.by \in {"submit", "cancel", "worker"}
  PROVE  db[tx.job].state \notin Terminal
BY DEF IInv, TxInv, ActiveInv, Writing, Executing, Timed, Active, Terminal

\* Every action preserves the inductive invariant.
LEMMA IInvStep == TypeOK /\ IInv /\ [Next]_vars => IInv'
<1> SUFFICES ASSUME TypeOK, IInv, [Next]_vars PROVE IInv'
  OBVIOUS
<1>1. ASSUME NEW k \in Keys, NEW s \in Specs, NEW j \in Jobs, Submit(k, s, j) PROVE IInv'
  <2>1. db[j].state = "ABSENT"
    BY <1>1 DEF Submit, FreshJob, IInv, ManifestNotBehind, Present, NoRow
  <2>2. NewRow(k, s).state = "QUEUED"
    BY DEF NewRow, NoRow
  <2>3. /\ tx.by = "none" /\ tx'.by = "submit" /\ tx'.job = j /\ tx'.row = NewRow(k, s)
        /\ manifest'[j] = NewRow(k, s)
    BY <1>1 DEF Submit, WriteManifest, LockFree, TypeOK
  <2>4. mode = "serve" /\ UNCHANGED <<db, pc, mode, job>>
    BY <1>1 DEF Submit, proc, thread
  <2>5. PlaceInv'
    BY <1>1, <2>1, <2>2, <2>3, <2>4 DEF Submit, WriteManifest, book, os, proc,
       thread, IInv, PlaceInv, TxInv, ActiveInv, LaunchInv, ManifestNotBehind,
       Executing, Timed, BeforeLaunch, Writing, TypeOK
  <2>6. TxInv'
    BY <2>1, <2>2, <2>3, <2>4 DEF IInv, TxInv, Writing
  <2>7. ActiveInv'
    BY <1>1, <2>1, <2>2, <2>3, <2>4 DEF Submit, WriteManifest, book, os, proc,
       thread, IInv, PlaceInv, TxInv, ActiveInv, LaunchInv, ManifestNotBehind,
       OneActiveJob, Executing, Timed, BeforeLaunch, Writing, TypeOK
  <2>8. LaunchInv'
    BY <1>1, <2>1, <2>2, <2>3, <2>4 DEF Submit, WriteManifest, book, os, proc,
       thread, IInv, PlaceInv, TxInv, ActiveInv, LaunchInv, ManifestNotBehind,
       LaunchedAtMostOnce, Executing, Timed, BeforeLaunch, Writing, TypeOK
  <2>9. ManifestNotBehind'
    BY <1>1, <2>1, <2>2, <2>3, <2>4, WriteKeepsFiles DEF Submit, IInv,
       Terminal
  <2>10. QED BY <2>5, <2>6, <2>7, <2>8, <2>9 DEF IInv
<1>2. ASSUME NEW k \in Keys, NEW s \in Specs, SubmitAgain(k, s) PROVE IInv'
  BY <1>2, QuietKeeps DEF SubmitAgain, core, disk, os, proc, thread
<1>3. ASSUME NEW j \in Jobs, Cancel(j) PROVE IInv'
  <2>1. \/ db[j].state = "QUEUED" /\ CancelRow(j).state = "CANCELLED"
        \/ db[j].state \in Active /\ CancelRow(j).state = db[j].state
    BY <1>3, RowStates DEF Cancel, Update, UpdateAllowed, CancelRow, Present,
       TypeOK, Active, Terminal, States, Rows
  <2>2. /\ tx.by = "none" /\ tx'.by = "cancel" /\ tx'.job = j /\ tx'.row = CancelRow(j)
        /\ manifest'[j] = CancelRow(j)
    BY <1>3 DEF Cancel, Update, WriteManifest, LockFree, TypeOK
  <2>3. mode = "serve" /\ UNCHANGED <<db, pc, mode, job>>
    BY <1>3 DEF Cancel, proc, thread
  <2>4. PlaceInv'
    BY <1>3, <2>1, <2>2, <2>3 DEF Cancel, Update, WriteManifest, book, os,
       proc, thread, IInv, PlaceInv, TxInv, ActiveInv, LaunchInv,
       ManifestNotBehind, Executing, Timed, BeforeLaunch, Writing, TypeOK
  <2>5. TxInv'
    BY <2>1, <2>2, <2>3 DEF IInv, TxInv, Writing
  <2>6. ActiveInv'
    BY <1>3, <2>1, <2>2, <2>3 DEF Cancel, Update, WriteManifest, book, os,
       proc, thread, IInv, PlaceInv, TxInv, ActiveInv, LaunchInv,
       ManifestNotBehind, OneActiveJob, Executing, Timed, BeforeLaunch,
       Writing, TypeOK
  <2>7. LaunchInv'
    BY <1>3, <2>1, <2>2, <2>3 DEF Cancel, Update, WriteManifest, book, os,
       proc, thread, IInv, PlaceInv, TxInv, ActiveInv, LaunchInv,
       ManifestNotBehind, LaunchedAtMostOnce, Executing, Timed, BeforeLaunch,
       Writing, TypeOK
  <2>8. ManifestNotBehind'
    BY <1>3, <2>1, <2>2, <2>3, WriteKeepsFiles DEF Cancel, Update, IInv,
       Terminal, Active
  <2>9. QED BY <2>4, <2>5, <2>6, <2>7, <2>8 DEF IInv
<1>4. ASSUME SubmitCommitted PROVE IInv'
  <2>1. tx.job \in Jobs /\ db \in [Jobs -> Rows]
    BY DEF TypeOK, Writes
  <2>2. \A i \in Jobs : db'[i] = IF i = tx.job THEN tx.row ELSE db[i]
    BY <1>4, <2>1 DEF SubmitCommitted, CommitRow
  <2>3. PlaceInv'
    BY <1>4, <2>1, <2>2 DEF SubmitCommitted, CommitRow, os, proc, thread,
       IInv, PlaceInv, TxInv, ActiveInv, LaunchInv, ManifestNotBehind,
       Executing, Timed, BeforeLaunch, Writing, NoTx, Active
  <2>4. TxInv'
    BY <1>4, <2>1, <2>2 DEF SubmitCommitted, CommitRow, os, proc, thread,
       IInv, PlaceInv, TxInv, ActiveInv, LaunchInv, ManifestNotBehind,
       Executing, Timed, BeforeLaunch, Writing, NoTx, Active
  <2>5. ActiveInv'
    BY <1>4, <2>1, <2>2 DEF SubmitCommitted, CommitRow, os, proc, thread,
       IInv, PlaceInv, TxInv, ActiveInv, LaunchInv, ManifestNotBehind,
       OneActiveJob, Executing, Timed, BeforeLaunch, Writing, NoTx, Active
  <2>6. LaunchInv'
    BY <1>4, <2>1, <2>2 DEF SubmitCommitted, CommitRow, os, proc, thread,
       IInv, PlaceInv, TxInv, ActiveInv, LaunchInv, ManifestNotBehind,
       LaunchedAtMostOnce, Executing, Timed, BeforeLaunch, Writing, NoTx,
       Active
  <2>7. ManifestNotBehind'
    BY <1>4, <2>1, <2>2, CommitKeepsFiles DEF SubmitCommitted
  <2>8. QED BY <2>3, <2>4, <2>5, <2>6, <2>7 DEF IInv
<1>5. ASSUME CancelCommitted PROVE IInv'
  <2>1. tx.job \in Jobs /\ db \in [Jobs -> Rows]
    BY DEF TypeOK, Writes
  <2>2. \A i \in Jobs : db'[i] = IF i = tx.job THEN tx.row ELSE db[i]
    BY <1>5, <2>1 DEF CancelCommitted, CommitRow
  <2>3. PlaceInv'
    BY <1>5, <2>1, <2>2 DEF CancelCommitted, CommitRow, book, os, proc,
       thread, IInv, PlaceInv, TxInv, ActiveInv, LaunchInv, ManifestNotBehind,
       Executing, Timed, BeforeLaunch, Writing, NoTx, Active
  <2>4. TxInv'
    BY <1>5, <2>1, <2>2 DEF CancelCommitted, CommitRow, book, os, proc,
       thread, IInv, PlaceInv, TxInv, ActiveInv, LaunchInv, ManifestNotBehind,
       Executing, Timed, BeforeLaunch, Writing, NoTx, Active
  <2>5. ActiveInv'
    BY <1>5, <2>1, <2>2 DEF CancelCommitted, CommitRow, book, os, proc,
       thread, IInv, PlaceInv, TxInv, ActiveInv, LaunchInv, ManifestNotBehind,
       OneActiveJob, Executing, Timed, BeforeLaunch, Writing, NoTx, Active
  <2>6. LaunchInv'
    BY <1>5, <2>1, <2>2 DEF CancelCommitted, CommitRow, book, os, proc,
       thread, IInv, PlaceInv, TxInv, ActiveInv, LaunchInv, ManifestNotBehind,
       LaunchedAtMostOnce, Executing, Timed, BeforeLaunch, Writing, NoTx,
       Active
  <2>7. ManifestNotBehind'
    BY <1>5, <2>1, <2>2, CommitKeepsFiles DEF CancelCommitted
  <2>8. QED BY <2>3, <2>4, <2>5, <2>6, <2>7 DEF IInv
<1>6. ASSUME CancelExported PROVE IInv'
  <2>1. PlaceInv'
    BY <1>6 DEF CancelExported, book, os, proc, thread, IInv, PlaceInv, TxInv,
       ActiveInv, LaunchInv, ManifestNotBehind, Executing, Timed,
       BeforeLaunch, Writing, NoTx
  <2>2. TxInv'
    BY <1>6 DEF CancelExported, book, os, proc, thread, IInv, PlaceInv, TxInv,
       ActiveInv, LaunchInv, ManifestNotBehind, Executing, Timed,
       BeforeLaunch, Writing, NoTx
  <2>3. ActiveInv'
    BY <1>6 DEF CancelExported, book, os, proc, thread, IInv, PlaceInv, TxInv,
       ActiveInv, LaunchInv, ManifestNotBehind, OneActiveJob, Executing,
       Timed, BeforeLaunch, Writing, NoTx
  <2>4. LaunchInv'
    BY <1>6 DEF CancelExported, book, os, proc, thread, IInv, PlaceInv, TxInv,
       ActiveInv, LaunchInv, ManifestNotBehind, LaunchedAtMostOnce, Executing,
       Timed, BeforeLaunch, Writing, NoTx
  <2>5. ManifestNotBehind'
    BY <1>6 DEF CancelExported, book, os, proc, thread, IInv, PlaceInv, TxInv,
       ActiveInv, LaunchInv, ManifestNotBehind, Present, Executing, Timed,
       BeforeLaunch, Writing, NoTx
  <2>6. QED BY <2>1, <2>2, <2>3, <2>4, <2>5 DEF IInv
<1>7. ASSUME NEW j \in Jobs, RecoverManifest(j) PROVE IInv'
  <2>1. mode = "recover" /\ tx.by = "none"
    BY <1>7 DEF RecoverManifest, RecoverNext, TypeOK, IInv, PlaceInv, TxInv,
       Writing
  <2>2. PlaceInv'
    BY <1>7, <2>1 DEF RecoverManifest, book, os, thread, IInv, PlaceInv,
       TxInv, ActiveInv, LaunchInv, ManifestNotBehind, Executing, Timed,
       BeforeLaunch, Writing, Active
  <2>3. TxInv'
    BY <1>7, <2>1 DEF RecoverManifest, book, os, thread, IInv, PlaceInv,
       TxInv, ActiveInv, LaunchInv, ManifestNotBehind, Executing, Timed,
       BeforeLaunch, Writing, Active
  <2>4. ActiveInv'
    BY <1>7, <2>1 DEF RecoverManifest, book, os, thread, IInv, PlaceInv,
       TxInv, ActiveInv, LaunchInv, ManifestNotBehind, OneActiveJob,
       Executing, Timed, BeforeLaunch, Writing, Active
  <2>5. LaunchInv'
    BY <1>7, <2>1 DEF RecoverManifest, book, os, thread, IInv, PlaceInv,
       TxInv, ActiveInv, LaunchInv, ManifestNotBehind, LaunchedAtMostOnce,
       Executing, Timed, BeforeLaunch, Writing, Active
  <2>6. ManifestNotBehind'
    BY <1>7, <2>1 DEF RecoverManifest, book, os, thread, IInv, PlaceInv,
       TxInv, ActiveInv, LaunchInv, ManifestNotBehind, Present, Executing,
       Timed, BeforeLaunch, Writing, Active
  <2>7. QED BY <2>2, <2>3, <2>4, <2>5, <2>6 DEF IInv
<1>8. ASSUME NEW j \in Jobs, RecoverActive(j) PROVE IInv'
  <2>1. mode = "recover" /\ tx.by = "none"
    BY <1>8 DEF RecoverActive, RecoverNext, TypeOK, IInv, PlaceInv, TxInv,
       Writing
  <2>2. PlaceInv'
    BY <1>8, <2>1 DEF RecoverActive, book, disk, proc, IInv, PlaceInv, TxInv,
       ActiveInv, LaunchInv, ManifestNotBehind, Executing, Timed,
       BeforeLaunch, Writing, RecoverNext
  <2>3. TxInv'
    BY <1>8, <2>1 DEF RecoverActive, book, disk, proc, IInv, PlaceInv, TxInv,
       ActiveInv, LaunchInv, ManifestNotBehind, Executing, Timed,
       BeforeLaunch, Writing, RecoverNext
  <2>4. ActiveInv'
    BY <1>8, <2>1 DEF RecoverActive, book, disk, proc, IInv, PlaceInv, TxInv,
       ActiveInv, LaunchInv, ManifestNotBehind, OneActiveJob, Executing,
       Timed, BeforeLaunch, Writing, RecoverNext
  <2>5. LaunchInv'
    BY <1>8, <2>1 DEF RecoverActive, book, disk, proc, IInv, PlaceInv, TxInv,
       ActiveInv, LaunchInv, ManifestNotBehind, LaunchedAtMostOnce, Executing,
       Timed, BeforeLaunch, Writing, RecoverNext
  <2>6. ManifestNotBehind'
    BY <1>8, <2>1 DEF RecoverActive, book, disk, proc, IInv, PlaceInv, TxInv,
       ActiveInv, LaunchInv, ManifestNotBehind, Present, Executing, Timed,
       BeforeLaunch, Writing, RecoverNext
  <2>7. QED BY <2>2, <2>3, <2>4, <2>5, <2>6 DEF IInv
<1>9. ASSUME RecoverDone PROVE IInv'
  <2>1. mode = "recover" /\ tx.by = "none"
    BY <1>9 DEF RecoverDone, RecoverNext, TypeOK, IInv, PlaceInv, TxInv,
       Writing
  <2>2. PlaceInv'
    BY <1>9, <2>1 DEF RecoverDone, book, disk, os, IInv, PlaceInv, TxInv,
       ActiveInv, LaunchInv, ManifestNotBehind, Executing, Timed,
       BeforeLaunch, Writing, Active
  <2>3. TxInv'
    BY <1>9, <2>1 DEF RecoverDone, book, disk, os, IInv, PlaceInv, TxInv,
       ActiveInv, LaunchInv, ManifestNotBehind, Executing, Timed,
       BeforeLaunch, Writing, Active
  <2>4. ActiveInv'
    BY <1>9, <2>1 DEF RecoverDone, book, disk, os, IInv, PlaceInv, TxInv,
       ActiveInv, LaunchInv, ManifestNotBehind, OneActiveJob, Executing,
       Timed, BeforeLaunch, Writing, Active
  <2>5. LaunchInv'
    BY <1>9, <2>1 DEF RecoverDone, book, disk, os, IInv, PlaceInv, TxInv,
       ActiveInv, LaunchInv, ManifestNotBehind, LaunchedAtMostOnce, Executing,
       Timed, BeforeLaunch, Writing, Active
  <2>6. ManifestNotBehind'
    BY <1>9, <2>1 DEF RecoverDone, book, disk, os, IInv, PlaceInv, TxInv,
       ActiveInv, LaunchInv, ManifestNotBehind, Present, Executing, Timed,
       BeforeLaunch, Writing, Active
  <2>7. QED BY <2>2, <2>3, <2>4, <2>5, <2>6 DEF IInv
<1>10. ASSUME NEW j \in Jobs, Dispatch(j) PROVE IInv'
  <2>1. db[j].state = "QUEUED"
    BY <1>10 DEF Dispatch, Oldest, Queued
  <2>2. [db[j] EXCEPT !.state = "STARTING"].state = "STARTING"
    BY RowStates DEF TypeOK, States, Active
  <2>3. PlaceInv'
    BY <1>10, <2>1, <2>2 DEF Dispatch, Update, WriteManifest, book, os, proc,
       IInv, PlaceInv, TxInv, ActiveInv, LaunchInv, ManifestNotBehind,
       Executing, Timed, BeforeLaunch, Writing, TypeOK
  <2>4. TxInv'
    BY <1>10, <2>1, <2>2 DEF Dispatch, Update, WriteManifest, book, os, proc,
       IInv, PlaceInv, TxInv, ActiveInv, LaunchInv, ManifestNotBehind,
       Executing, Timed, BeforeLaunch, Writing, TypeOK
  <2>5. ActiveInv'
    BY <1>10, <2>1, <2>2 DEF Dispatch, Update, WriteManifest, book, os, proc,
       IInv, PlaceInv, TxInv, ActiveInv, LaunchInv, ManifestNotBehind,
       OneActiveJob, Executing, Timed, BeforeLaunch, Writing, TypeOK
  <2>6. LaunchInv'
    BY <1>10, <2>1, <2>2 DEF Dispatch, Update, WriteManifest, book, os, proc,
       IInv, PlaceInv, TxInv, ActiveInv, LaunchInv, ManifestNotBehind,
       LaunchedAtMostOnce, Executing, Timed, BeforeLaunch, Writing, TypeOK
  <2>7. ManifestNotBehind'
    BY <1>10, <2>1, <2>2, WriteKeepsFiles DEF Dispatch, Update, IInv,
       Terminal, Active
  <2>8. QED BY <2>3, <2>4, <2>5, <2>6, <2>7 DEF IInv
<1>11. ASSUME DispatchCommitted PROVE IInv'
  <2>1. tx.job \in Jobs /\ db \in [Jobs -> Rows]
    BY DEF TypeOK, Writes
  <2>2. \A i \in Jobs : db'[i] = IF i = tx.job THEN tx.row ELSE db[i]
    BY <1>11, <2>1 DEF DispatchCommitted, CommitRow, WriteDone
  <2>3. PlaceInv'
    BY <1>11, <2>1, <2>2 DEF DispatchCommitted, WriteDone, CommitRow, book,
       os, proc, IInv, PlaceInv, TxInv, ActiveInv, LaunchInv,
       ManifestNotBehind, Executing, Timed, BeforeLaunch, Writing, NoTx,
       Active
  <2>4. TxInv'
    BY <1>11, <2>1, <2>2 DEF DispatchCommitted, WriteDone, CommitRow, book,
       os, proc, IInv, PlaceInv, TxInv, ActiveInv, LaunchInv,
       ManifestNotBehind, Executing, Timed, BeforeLaunch, Writing, NoTx,
       Active
  <2>5. ActiveInv'
    BY <1>11, <2>1, <2>2 DEF DispatchCommitted, WriteDone, CommitRow, book,
       os, proc, IInv, PlaceInv, TxInv, ActiveInv, LaunchInv,
       ManifestNotBehind, OneActiveJob, Executing, Timed, BeforeLaunch,
       Writing, NoTx, Active
  <2>6. LaunchInv'
    BY <1>11, <2>1, <2>2 DEF DispatchCommitted, WriteDone, CommitRow, book,
       os, proc, IInv, PlaceInv, TxInv, ActiveInv, LaunchInv,
       ManifestNotBehind, LaunchedAtMostOnce, Executing, Timed, BeforeLaunch,
       Writing, NoTx, Active
  <2>7. ManifestNotBehind'
    BY <1>11, <2>1, <2>2, CommitKeepsFiles DEF DispatchCommitted, WriteDone,
       IInv, TxInv, Writing
  <2>8. QED BY <2>3, <2>4, <2>5, <2>6, <2>7 DEF IInv
<1>12. ASSUME SchedulerStops PROVE IInv'
  <2>1. PlaceInv'
    BY <1>12 DEF SchedulerStops, ThreadStep, book, disk, os, proc, IInv,
       PlaceInv, TxInv, ActiveInv, LaunchInv, ManifestNotBehind, Executing,
       Timed, BeforeLaunch, Writing
  <2>2. TxInv'
    BY <1>12 DEF SchedulerStops, ThreadStep, book, disk, os, proc, IInv,
       PlaceInv, TxInv, ActiveInv, LaunchInv, ManifestNotBehind, Executing,
       Timed, BeforeLaunch, Writing
  <2>3. ActiveInv'
    BY <1>12 DEF SchedulerStops, ThreadStep, book, disk, os, proc, IInv,
       PlaceInv, TxInv, ActiveInv, LaunchInv, ManifestNotBehind, OneActiveJob,
       Executing, Timed, BeforeLaunch, Writing
  <2>4. LaunchInv'
    BY <1>12 DEF SchedulerStops, ThreadStep, book, disk, os, proc, IInv,
       PlaceInv, TxInv, ActiveInv, LaunchInv, ManifestNotBehind,
       LaunchedAtMostOnce, Executing, Timed, BeforeLaunch, Writing
  <2>5. ManifestNotBehind'
    BY <1>12 DEF SchedulerStops, ThreadStep, book, disk, os, proc, IInv,
       PlaceInv, TxInv, ActiveInv, LaunchInv, ManifestNotBehind, Present,
       Executing, Timed, BeforeLaunch, Writing
  <2>6. QED BY <2>1, <2>2, <2>3, <2>4, <2>5 DEF IInv
<1>13. ASSUME IdleWait PROVE IInv'
  BY <1>13, QuietKeeps DEF IdleWait, core, book, disk, os, proc, thread, vars
<1>14. ASSUME CheckRaises PROVE IInv'
  BY <1>14, MoveKeeps DEF CheckRaises, core, ThreadStep, Executing, Timed,
     BeforeLaunch, book, disk, os, proc
<1>15. ASSUME Enter PROVE IInv'
  BY <1>15, MoveKeeps DEF Enter, core, ThreadStep, Executing, Timed,
     BeforeLaunch, book, disk, os, proc
<1>16. ASSUME AcquireLease PROVE IInv'
  BY <1>16, MoveKeeps DEF AcquireLease, core, Executing, Timed, BeforeLaunch,
     book, disk, proc
<1>17. ASSUME LeaseBusy PROVE IInv'
  BY <1>17, MoveKeeps DEF LeaseBusy, core, ThreadStep, Executing, Timed,
     BeforeLaunch, book, disk, os, proc
<1>18. ASSUME Prepare PROVE IInv'
  BY <1>18, MoveKeeps DEF Prepare, core, ThreadStep, Executing, Timed,
     BeforeLaunch, book, disk, os, proc
<1>19. ASSUME LastCheck PROVE IInv'
  BY <1>19, MoveKeeps DEF LastCheck, core, ThreadStep, Executing, Timed,
     BeforeLaunch, book, disk, os, proc
<1>20. ASSUME Launch PROVE IInv'
  <2>1. PlaceInv'
    BY <1>20 DEF Launch, book, disk, proc, IInv, PlaceInv, TxInv, ActiveInv,
       LaunchInv, ManifestNotBehind, Executing, Timed, BeforeLaunch, Writing
  <2>2. TxInv'
    BY <1>20 DEF Launch, book, disk, proc, IInv, PlaceInv, TxInv, ActiveInv,
       LaunchInv, ManifestNotBehind, Executing, Timed, BeforeLaunch, Writing
  <2>3. ActiveInv'
    BY <1>20 DEF Launch, book, disk, proc, IInv, PlaceInv, TxInv, ActiveInv,
       LaunchInv, ManifestNotBehind, OneActiveJob, Executing, Timed,
       BeforeLaunch, Writing
  <2>4. LaunchInv'
    BY <1>20 DEF Launch, book, disk, proc, IInv, PlaceInv, TxInv, ActiveInv,
       LaunchInv, ManifestNotBehind, LaunchedAtMostOnce, Executing, Timed,
       BeforeLaunch, Writing
  <2>5. ManifestNotBehind'
    BY <1>20 DEF Launch, book, disk, proc, IInv, PlaceInv, TxInv, ActiveInv,
       LaunchInv, ManifestNotBehind, Present, Executing, Timed, BeforeLaunch,
       Writing
  <2>6. QED BY <2>1, <2>2, <2>3, <2>4, <2>5 DEF IInv
<1>21. ASSUME LaunchFails PROVE IInv'
  BY <1>21, MoveKeeps DEF LaunchFails, core, ThreadStep, Executing, Timed,
     BeforeLaunch, book, disk, os, proc
<1>22. ASSUME Record PROVE IInv'
  <2>1. db[job].state = "STARTING"
    BY <1>22 DEF Record, IInv, ActiveInv
  <2>2. [db[job] EXCEPT !.state = "RUNNING", !.proc = TRUE].state = "RUNNING"
    BY RowStates DEF TypeOK, States, Active
  <2>3. PlaceInv'
    BY <1>22, <2>1, <2>2 DEF Record, Update, WriteManifest, book, os, proc,
       IInv, PlaceInv, TxInv, ActiveInv, LaunchInv, ManifestNotBehind,
       Executing, Timed, BeforeLaunch, Writing, TypeOK
  <2>4. TxInv'
    BY <1>22, <2>1, <2>2 DEF Record, Update, WriteManifest, book, os, proc,
       IInv, PlaceInv, TxInv, ActiveInv, LaunchInv, ManifestNotBehind,
       Executing, Timed, BeforeLaunch, Writing, TypeOK
  <2>5. ActiveInv'
    BY <1>22, <2>1, <2>2 DEF Record, Update, WriteManifest, book, os, proc,
       IInv, PlaceInv, TxInv, ActiveInv, LaunchInv, ManifestNotBehind,
       OneActiveJob, Executing, Timed, BeforeLaunch, Writing, TypeOK
  <2>6. LaunchInv'
    BY <1>22, <2>1, <2>2 DEF Record, Update, WriteManifest, book, os, proc,
       IInv, PlaceInv, TxInv, ActiveInv, LaunchInv, ManifestNotBehind,
       LaunchedAtMostOnce, Executing, Timed, BeforeLaunch, Writing, TypeOK
  <2>7. ManifestNotBehind'
    BY <1>22, <2>1, <2>2, WriteKeepsFiles DEF Record, Update, IInv, Terminal,
       Active, TypeOK
  <2>8. QED BY <2>3, <2>4, <2>5, <2>6, <2>7 DEF IInv
<1>23. ASSUME RecordCommitted PROVE IInv'
  <2>1. tx.job \in Jobs /\ db \in [Jobs -> Rows]
    BY DEF TypeOK, Writes
  <2>2. \A i \in Jobs : db'[i] = IF i = tx.job THEN tx.row ELSE db[i]
    BY <1>23, <2>1 DEF RecordCommitted, CommitRow, WriteDone
  <2>3. PlaceInv'
    BY <1>23, <2>1, <2>2 DEF RecordCommitted, WriteDone, CommitRow, book, os,
       proc, IInv, PlaceInv, TxInv, ActiveInv, LaunchInv, ManifestNotBehind,
       Executing, Timed, BeforeLaunch, Writing, NoTx, Active
  <2>4. TxInv'
    BY <1>23, <2>1, <2>2 DEF RecordCommitted, WriteDone, CommitRow, book, os,
       proc, IInv, PlaceInv, TxInv, ActiveInv, LaunchInv, ManifestNotBehind,
       Executing, Timed, BeforeLaunch, Writing, NoTx, Active
  <2>5. ActiveInv'
    BY <1>23, <2>1, <2>2 DEF RecordCommitted, WriteDone, CommitRow, book, os,
       proc, IInv, PlaceInv, TxInv, ActiveInv, LaunchInv, ManifestNotBehind,
       OneActiveJob, Executing, Timed, BeforeLaunch, Writing, NoTx, Active
  <2>6. LaunchInv'
    BY <1>23, <2>1, <2>2 DEF RecordCommitted, WriteDone, CommitRow, book, os,
       proc, IInv, PlaceInv, TxInv, ActiveInv, LaunchInv, ManifestNotBehind,
       LaunchedAtMostOnce, Executing, Timed, BeforeLaunch, Writing, NoTx,
       Active
  <2>7. ManifestNotBehind'
    BY <1>23, <2>1, <2>2, CommitKeepsFiles DEF RecordCommitted, WriteDone,
       IInv, TxInv, Writing
  <2>8. QED BY <2>3, <2>4, <2>5, <2>6, <2>7 DEF IInv
<1>24. ASSUME SeesExit PROVE IInv'
  BY <1>24, MoveKeeps DEF SeesExit, core, ThreadStep, Executing, Timed,
     BeforeLaunch, book, disk, os, proc
<1>25. ASSUME JudgeExit PROVE IInv'
  BY <1>25, MoveKeeps DEF JudgeExit, core, ThreadStep, Executing, Timed,
     BeforeLaunch, book, disk, os, proc
<1>26. ASSUME Cleanup PROVE IInv'
  BY <1>26, MoveKeeps DEF Cleanup, core, Executing, Timed, BeforeLaunch, book,
     disk, proc
<1>27. ASSUME ReleaseLease PROVE IInv'
  BY <1>27, MoveKeeps DEF ReleaseLease, core, Executing, Timed, BeforeLaunch,
     book, disk, proc
<1>28. ASSUME CollectArtifacts PROVE IInv'
  BY <1>28, MoveKeeps DEF CollectArtifacts, core, ThreadStep, Executing,
     Timed, BeforeLaunch, book, disk, os, proc
<1>29. ASSUME Export PROVE IInv'
  BY <1>29, MoveKeeps DEF Export, core, Executing, Timed, BeforeLaunch, book,
     os, proc
<1>30. ASSUME Finish PROVE IInv'
  <2>1. db[job].state \in Active
    BY <1>30 DEF Finish, IInv, ActiveInv, Executing
  <2>2. FinalRow.state = outcome.final /\ outcome.final \in Terminal
    BY RowStates DEF FinalRow, TypeOK, States, Outcomes
  <2>3. PlaceInv'
    BY <1>30, <2>1, <2>2 DEF Finish, Update, WriteManifest, book, os, proc,
       IInv, PlaceInv, TxInv, ActiveInv, LaunchInv, ManifestNotBehind,
       Executing, Timed, BeforeLaunch, Writing, TypeOK
  <2>4. TxInv'
    BY <1>30, <2>1, <2>2 DEF Finish, Update, WriteManifest, book, os, proc,
       IInv, PlaceInv, TxInv, ActiveInv, LaunchInv, ManifestNotBehind,
       Executing, Timed, BeforeLaunch, Writing, TypeOK
  <2>5. ActiveInv'
    BY <1>30, <2>1, <2>2 DEF Finish, Update, WriteManifest, book, os, proc,
       IInv, PlaceInv, TxInv, ActiveInv, LaunchInv, ManifestNotBehind,
       OneActiveJob, Executing, Timed, BeforeLaunch, Writing, TypeOK
  <2>6. LaunchInv'
    BY <1>30, <2>1, <2>2 DEF Finish, Update, WriteManifest, book, os, proc,
       IInv, PlaceInv, TxInv, ActiveInv, LaunchInv, ManifestNotBehind,
       LaunchedAtMostOnce, Executing, Timed, BeforeLaunch, Writing, TypeOK
  <2>7. ManifestNotBehind'
    BY <1>30, <2>1, <2>2, WriteKeepsFiles DEF Finish, Update, TypeOK, IInv,
       Terminal, Active
  <2>8. QED BY <2>3, <2>4, <2>5, <2>6, <2>7 DEF IInv
<1>31. ASSUME FinishCommitted PROVE IInv'
  <2>1. tx.job \in Jobs /\ db \in [Jobs -> Rows]
    BY DEF TypeOK, Writes
  <2>2. \A i \in Jobs : db'[i] = IF i = tx.job THEN tx.row ELSE db[i]
    BY <1>31, <2>1 DEF FinishCommitted, CommitRow, WriteDone
  <2>3. tx.job = job /\ tx.row.state \in Terminal
    BY <1>31 DEF FinishCommitted, WriteDone, IInv, TxInv, Writing
  <2>4. \A i \in Jobs : db'[i].state \in Active => FALSE
    BY <2>1, <2>2, <2>3, <1>31 DEF IInv, ActiveInv, OneActiveJob,
       FinishCommitted, WriteDone, Executing, Active, Terminal
  <2>5. PlaceInv'
    BY <1>31, <2>1, <2>2, <2>3, <2>4 DEF FinishCommitted, WriteDone,
       CommitRow, book, os, proc, IInv, PlaceInv, TxInv, ActiveInv, LaunchInv,
       ManifestNotBehind, Executing, Timed, BeforeLaunch, Writing, NoTx,
       Active, Terminal
  <2>6. TxInv'
    BY <1>31, <2>1, <2>2, <2>3, <2>4 DEF FinishCommitted, WriteDone,
       CommitRow, book, os, proc, IInv, PlaceInv, TxInv, ActiveInv, LaunchInv,
       ManifestNotBehind, Executing, Timed, BeforeLaunch, Writing, NoTx,
       Active, Terminal
  <2>7. ActiveInv'
    BY <1>31, <2>1, <2>2, <2>3, <2>4 DEF FinishCommitted, WriteDone,
       CommitRow, book, os, proc, IInv, PlaceInv, TxInv, ActiveInv, LaunchInv,
       ManifestNotBehind, OneActiveJob, Executing, Timed, BeforeLaunch,
       Writing, NoTx, Active, Terminal
  <2>8. LaunchInv'
    BY <1>31, <2>1, <2>2, <2>3, <2>4 DEF FinishCommitted, WriteDone,
       CommitRow, book, os, proc, IInv, PlaceInv, TxInv, ActiveInv, LaunchInv,
       ManifestNotBehind, LaunchedAtMostOnce, Executing, Timed, BeforeLaunch,
       Writing, NoTx, Active, Terminal
  <2>9. ManifestNotBehind'
    BY <1>31, <2>1, <2>2, <2>3, <2>4, CommitKeepsFiles DEF FinishCommitted,
       WriteDone, IInv, TxInv, Writing
  <2>10. QED BY <2>5, <2>6, <2>7, <2>8, <2>9 DEF IInv
<1>32. ASSUME ClientFails PROVE IInv'
  <2>1. PlaceInv'
    BY <1>32 DEF ClientFails, disk, os, proc, thread, IInv, PlaceInv, TxInv,
       ActiveInv, LaunchInv, ManifestNotBehind, Executing, Timed,
       BeforeLaunch, Writing, NoTx
  <2>2. TxInv'
    BY <1>32 DEF ClientFails, disk, os, proc, thread, IInv, PlaceInv, TxInv,
       ActiveInv, LaunchInv, ManifestNotBehind, Executing, Timed,
       BeforeLaunch, Writing, NoTx
  <2>3. ActiveInv'
    BY <1>32 DEF ClientFails, disk, os, proc, thread, IInv, PlaceInv, TxInv,
       ActiveInv, LaunchInv, ManifestNotBehind, OneActiveJob, Executing,
       Timed, BeforeLaunch, Writing, NoTx
  <2>4. LaunchInv'
    BY <1>32 DEF ClientFails, disk, os, proc, thread, IInv, PlaceInv, TxInv,
       ActiveInv, LaunchInv, ManifestNotBehind, LaunchedAtMostOnce, Executing,
       Timed, BeforeLaunch, Writing, NoTx
  <2>5. ManifestNotBehind'
    BY <1>32 DEF ClientFails, disk, os, proc, thread, IInv, PlaceInv, TxInv,
       ActiveInv, LaunchInv, ManifestNotBehind, Present, Executing, Timed,
       BeforeLaunch, Writing, NoTx
  <2>6. QED BY <2>1, <2>2, <2>3, <2>4, <2>5 DEF IInv
<1>33. ASSUME RecoverFails PROVE IInv'
  BY <1>33, GoneKeeps DEF RecoverFails
<1>34. ASSUME DispatchFails PROVE IInv'
  <2>1. PlaceInv'
    BY <1>34 DEF DispatchFails, WriteFails, Fatal, disk, os, proc, IInv,
       PlaceInv, TxInv, ActiveInv, LaunchInv, ManifestNotBehind, Executing,
       Timed, BeforeLaunch, Writing, NoTx
  <2>2. TxInv'
    BY <1>34 DEF DispatchFails, WriteFails, Fatal, disk, os, proc, IInv,
       PlaceInv, TxInv, ActiveInv, LaunchInv, ManifestNotBehind, Executing,
       Timed, BeforeLaunch, Writing, NoTx
  <2>3. ActiveInv'
    BY <1>34 DEF DispatchFails, WriteFails, Fatal, disk, os, proc, IInv,
       PlaceInv, TxInv, ActiveInv, LaunchInv, ManifestNotBehind, OneActiveJob,
       Executing, Timed, BeforeLaunch, Writing, NoTx
  <2>4. LaunchInv'
    BY <1>34 DEF DispatchFails, WriteFails, Fatal, disk, os, proc, IInv,
       PlaceInv, TxInv, ActiveInv, LaunchInv, ManifestNotBehind,
       LaunchedAtMostOnce, Executing, Timed, BeforeLaunch, Writing, NoTx
  <2>5. ManifestNotBehind'
    BY <1>34 DEF DispatchFails, WriteFails, Fatal, disk, os, proc, IInv,
       PlaceInv, TxInv, ActiveInv, LaunchInv, ManifestNotBehind, Present,
       Executing, Timed, BeforeLaunch, Writing, NoTx
  <2>6. QED BY <2>1, <2>2, <2>3, <2>4, <2>5 DEF IInv
<1>35. ASSUME HelperCleanupFails PROVE IInv'
  BY <1>35, MoveKeeps DEF HelperCleanupFails, core, Executing, Timed,
     BeforeLaunch, disk, os
<1>36. ASSUME RecordFails PROVE IInv'
  <2>1. PlaceInv'
    BY <1>36 DEF RecordFails, WriteFails, disk, os, proc, IInv, PlaceInv,
       TxInv, ActiveInv, LaunchInv, ManifestNotBehind, Executing, Timed,
       BeforeLaunch, Writing, NoTx
  <2>2. TxInv'
    BY <1>36 DEF RecordFails, WriteFails, disk, os, proc, IInv, PlaceInv,
       TxInv, ActiveInv, LaunchInv, ManifestNotBehind, Executing, Timed,
       BeforeLaunch, Writing, NoTx
  <2>3. ActiveInv'
    BY <1>36 DEF RecordFails, WriteFails, disk, os, proc, IInv, PlaceInv,
       TxInv, ActiveInv, LaunchInv, ManifestNotBehind, OneActiveJob,
       Executing, Timed, BeforeLaunch, Writing, NoTx
  <2>4. LaunchInv'
    BY <1>36 DEF RecordFails, WriteFails, disk, os, proc, IInv, PlaceInv,
       TxInv, ActiveInv, LaunchInv, ManifestNotBehind, LaunchedAtMostOnce,
       Executing, Timed, BeforeLaunch, Writing, NoTx
  <2>5. ManifestNotBehind'
    BY <1>36 DEF RecordFails, WriteFails, disk, os, proc, IInv, PlaceInv,
       TxInv, ActiveInv, LaunchInv, ManifestNotBehind, Present, Executing,
       Timed, BeforeLaunch, Writing, NoTx
  <2>6. QED BY <2>1, <2>2, <2>3, <2>4, <2>5 DEF IInv
<1>37. ASSUME CleanupFails PROVE IInv'
  BY <1>37, MoveKeeps DEF CleanupFails, core, Executing, Timed, BeforeLaunch,
     disk, os
<1>38. ASSUME ReleaseFails PROVE IInv'
  <2>1. PlaceInv'
    BY <1>38 DEF ReleaseFails, Fatal, disk, IInv, PlaceInv, TxInv, ActiveInv,
       LaunchInv, ManifestNotBehind, Executing, Timed, BeforeLaunch, Writing
  <2>2. TxInv'
    BY <1>38 DEF ReleaseFails, Fatal, disk, IInv, PlaceInv, TxInv, ActiveInv,
       LaunchInv, ManifestNotBehind, Executing, Timed, BeforeLaunch, Writing
  <2>3. ActiveInv'
    BY <1>38 DEF ReleaseFails, Fatal, disk, IInv, PlaceInv, TxInv, ActiveInv,
       LaunchInv, ManifestNotBehind, OneActiveJob, Executing, Timed,
       BeforeLaunch, Writing
  <2>4. LaunchInv'
    BY <1>38 DEF ReleaseFails, Fatal, disk, IInv, PlaceInv, TxInv, ActiveInv,
       LaunchInv, ManifestNotBehind, LaunchedAtMostOnce, Executing, Timed,
       BeforeLaunch, Writing
  <2>5. ManifestNotBehind'
    BY <1>38 DEF ReleaseFails, Fatal, disk, IInv, PlaceInv, TxInv, ActiveInv,
       LaunchInv, ManifestNotBehind, Present, Executing, Timed, BeforeLaunch,
       Writing
  <2>6. QED BY <2>1, <2>2, <2>3, <2>4, <2>5 DEF IInv
<1>39. ASSUME ExportFails PROVE IInv'
  BY <1>39, MoveKeeps DEF ExportFails, core, Executing, Timed, BeforeLaunch,
     disk, os, proc
<1>40. ASSUME FinishFails PROVE IInv'
  <2>1. PlaceInv'
    BY <1>40 DEF FinishFails, WriteFails, Fatal, disk, os, proc, IInv,
       PlaceInv, TxInv, ActiveInv, LaunchInv, ManifestNotBehind, Executing,
       Timed, BeforeLaunch, Writing, NoTx
  <2>2. TxInv'
    BY <1>40 DEF FinishFails, WriteFails, Fatal, disk, os, proc, IInv,
       PlaceInv, TxInv, ActiveInv, LaunchInv, ManifestNotBehind, Executing,
       Timed, BeforeLaunch, Writing, NoTx
  <2>3. ActiveInv'
    BY <1>40 DEF FinishFails, WriteFails, Fatal, disk, os, proc, IInv,
       PlaceInv, TxInv, ActiveInv, LaunchInv, ManifestNotBehind, OneActiveJob,
       Executing, Timed, BeforeLaunch, Writing, NoTx
  <2>4. LaunchInv'
    BY <1>40 DEF FinishFails, WriteFails, Fatal, disk, os, proc, IInv,
       PlaceInv, TxInv, ActiveInv, LaunchInv, ManifestNotBehind,
       LaunchedAtMostOnce, Executing, Timed, BeforeLaunch, Writing, NoTx
  <2>5. ManifestNotBehind'
    BY <1>40 DEF FinishFails, WriteFails, Fatal, disk, os, proc, IInv,
       PlaceInv, TxInv, ActiveInv, LaunchInv, ManifestNotBehind, Present,
       Executing, Timed, BeforeLaunch, Writing, NoTx
  <2>6. QED BY <2>1, <2>2, <2>3, <2>4, <2>5 DEF IInv
<1>41. ASSUME RecoverFinishFails PROVE IInv'
  BY <1>41, GoneKeeps DEF RecoverFinishFails
<1>42. ASSUME Start PROVE IInv'
  <2>1. PlaceInv'
    BY <1>42 DEF Start, book, disk, os, IInv, PlaceInv, TxInv, ActiveInv,
       LaunchInv, ManifestNotBehind, Executing, Timed, BeforeLaunch, Writing,
       RecoverySet, Present, Active
  <2>2. TxInv'
    BY <1>42 DEF Start, book, disk, os, IInv, PlaceInv, TxInv, ActiveInv,
       LaunchInv, ManifestNotBehind, Executing, Timed, BeforeLaunch, Writing,
       RecoverySet, Present, Active
  <2>3. ActiveInv'
    BY <1>42 DEF Start, book, disk, os, IInv, PlaceInv, TxInv, ActiveInv,
       LaunchInv, ManifestNotBehind, OneActiveJob, Executing, Timed,
       BeforeLaunch, Writing, RecoverySet, Present, Active
  <2>4. LaunchInv'
    BY <1>42 DEF Start, book, disk, os, IInv, PlaceInv, TxInv, ActiveInv,
       LaunchInv, ManifestNotBehind, LaunchedAtMostOnce, Executing, Timed,
       BeforeLaunch, Writing, RecoverySet, Present, Active
  <2>5. ManifestNotBehind'
    BY <1>42 DEF Start, book, disk, os, IInv, PlaceInv, TxInv, ActiveInv,
       LaunchInv, ManifestNotBehind, Present, Executing, Timed, BeforeLaunch,
       Writing, RecoverySet, Present, Active
  <2>6. QED BY <2>1, <2>2, <2>3, <2>4, <2>5 DEF IInv
<1>43. ASSUME Stop PROVE IInv'
  BY <1>43, QuietKeeps DEF Stop, core, disk, os, thread
<1>44. ASSUME Exit PROVE IInv'
  BY <1>44, GoneKeeps DEF Exit
<1>45. ASSUME Crash PROVE IInv'
  BY <1>45, GoneKeeps DEF Crash
<1>46. ASSUME Expire PROVE IInv'
  BY <1>46, QuietKeeps DEF Expire, core, book, disk, os, proc
<1>47. ASSUME NEW j \in Jobs, NEW code \in {"zero", "nonzero"}, RootExits(j, code) PROVE IInv'
  BY <1>47, QuietKeeps DEF RootExits, core, book, disk, proc, thread
<1>48. ASSUME NEW j \in Jobs, DescendantsExit(j) PROVE IInv'
  BY <1>48, QuietKeeps DEF DescendantsExit, core, book, disk, proc, thread
<1>49. ASSUME LeaseElsewhere PROVE IInv'
  BY <1>49, QuietKeeps DEF LeaseElsewhere, core, book, disk, proc, thread
<1>50. CASE UNCHANGED vars
  BY <1>50, QuietKeeps DEF vars, disk, proc, thread, os, book, core
<1>51. ASSUME AcquireFails PROVE IInv'
  BY <1>51, MoveKeeps DEF AcquireFails, core, Executing, Timed, BeforeLaunch,
     disk, proc
<1>52. QED
  BY <1>1, <1>2, <1>3, <1>4, <1>5, <1>6, <1>7, <1>8, <1>9, <1>10, <1>11,
     <1>12, <1>13, <1>14, <1>15, <1>16, <1>17, <1>18, <1>19, <1>20, <1>21,
     <1>22, <1>23, <1>24, <1>25, <1>26, <1>27, <1>28, <1>29, <1>30, <1>31,
     <1>32, <1>33, <1>34, <1>35, <1>36, <1>37, <1>38, <1>39, <1>40, <1>41,
     <1>42, <1>43, <1>44, <1>45, <1>46, <1>47, <1>48, <1>49, <1>50,
     <1>51
  DEF Next, Client, ClientEnds, Recovery, Scheduler, Failures, Environment

\* The initial state satisfies the inductive invariant.
LEMMA IInvInit == Init => IInv
BY EngineAssumption
   DEF Init, IInv, PlaceInv, TxInv, ActiveInv, LaunchInv, OneActiveJob,
       LaunchedAtMostOnce, ManifestNotBehind, Present, NoRow, NoTx, Writing,
       Executing, Timed, BeforeLaunch, Active, Terminal

\* The inductive invariant holds in every reachable state.
LEMMA IInvHolds == Spec => [](TypeOK /\ IInv)
<1>1. Init => TypeOK /\ IInv
  BY TypeInit, IInvInit
<1>2. (TypeOK /\ IInv) /\ [Next]_vars => (TypeOK /\ IInv)'
  BY TypeStep, IInvStep
<1>3. QED
  BY <1>1, <1>2, PTL DEF Spec

-----------------------------------------------------------------------------
(* The theorems.                                                           *)

\* The queue is serial: through every failed write, cleanup, crash, shutdown
\* and restart at most one row is STARTING or RUNNING.
THEOREM Serial == Spec => []OneActiveJob
<1>1. TypeOK /\ IInv => OneActiveJob
  BY DEF IInv, ActiveInv
<1>2. QED
  BY <1>1, IInvHolds, PTL

\* No workload is spawned twice, and none is spawned for a job that still
\* waits: an interrupted job is never repeated.
THEOREM LaunchOnce == Spec => []LaunchedAtMostOnce
<1>1. TypeOK /\ IInv => LaunchedAtMostOnce
  BY DEF IInv, LaunchInv
<1>2. QED
  BY <1>1, IInvHolds, PTL

\* Between the replacement of manifest.json and the commit the file is ahead
\* of the row; it is never behind, and for a terminal job they are equal.
THEOREM FilesNotBehind == Spec => []ManifestNotBehind
<1>1. TypeOK /\ IInv => ManifestNotBehind
  BY DEF IInv
<1>2. QED
  BY <1>1, IInvHolds, PTL

\* Only the commit of a durable write changes a row.
LEMMA OnlyCommits ==
  ASSUME IInv, [Next]_vars
  PROVE  \/ UNCHANGED db
         \/ CommitRow /\ tx.by \in {"submit", "cancel", "worker"}
<1> USE DEF vars, disk
<1>1. CASE UNCHANGED vars
  BY <1>1
<1>2. CASE Client \/ Start \/ Stop \/ Exit \/ Crash \/ Environment \/ Recovery
  BY <1>2
  DEF Client, Submit, SubmitAgain, Cancel, Start, Stop, Exit, Crash,
      ProcessGone, Environment, Expire, RootExits, DescendantsExit,
      LeaseElsewhere, Recovery, RecoverManifest, RecoverActive, RecoverDone
<1>3. CASE ClientEnds
  BY <1>3 DEF ClientEnds, SubmitCommitted, CancelCommitted, CancelExported
<1>4. CASE Failures
  BY <1>4
  DEF Failures, ClientFails, RecoverFails, DispatchFails, AcquireFails, HelperCleanupFails,
      RecordFails, CleanupFails, ReleaseFails, ExportFails, FinishFails,
      RecoverFinishFails, WriteFails, ProcessGone
<1>5. CASE Scheduler
  <2>1. CASE DispatchCommitted \/ RecordCommitted \/ FinishCommitted
    BY <2>1 DEF DispatchCommitted, RecordCommitted, FinishCommitted, WriteDone,
       IInv, TxInv, Writing
  <2>2. CASE ~(DispatchCommitted \/ RecordCommitted \/ FinishCommitted)
    BY <1>5, <2>2
    DEF Scheduler, Dispatch, SchedulerStops, IdleWait, CheckRaises, Enter,
        AcquireLease, LeaseBusy, Prepare, LastCheck, Launch, LaunchFails,
        Record, SeesExit, JudgeExit, Cleanup, ReleaseLease, CollectArtifacts,
        Export, Finish, ThreadStep
  <2>3. QED
    BY <2>1, <2>2
<1>6. QED
  BY <1>1, <1>2, <1>3, <1>4, <1>5 DEF Next

\* The row of a terminal job is never written again: not by a late handler,
\* not by a commit in flight, not by recovery.
THEOREM TerminalFinal == Spec => TerminalRowsFinal
<1>1. TypeOK /\ IInv /\ [Next]_vars
        => [\A j \in Jobs : db[j].state \in Terminal => db'[j] = db[j]]_vars
  <2> SUFFICES ASSUME TypeOK, IInv, [Next]_vars,
                      NEW j \in Jobs, db[j].state \in Terminal
               PROVE  db'[j] = db[j]
    OBVIOUS
  <2>1. CASE UNCHANGED db
    BY <2>1
  <2>2. CASE CommitRow /\ tx.by \in {"submit", "cancel", "worker"}
    <3>1. db[tx.job].state \notin Terminal
      BY <2>2, CommitOverLive
    <3>2. QED
      BY <2>2, <3>1 DEF CommitRow, TypeOK
  <2>3. QED
    BY <2>1, <2>2, OnlyCommits
<1>2. QED
  BY <1>1, IInvHolds, PTL DEF Spec, TerminalRowsFinal

-----------------------------------------------------------------------------
(* Idempotency.                                                            *)

\* The inductive invariant behind AcceptedOnce: only a submission in flight
\* introduces a key, one no row has; every other write in flight keeps the
\* key and the specification of a row that exists, and answered jobs exist.
KeyInv ==
  /\ tx.by \in {"cancel", "worker"} =>
       /\ Present(tx.job) /\ tx.row.state # "ABSENT"
       /\ tx.row.key = db[tx.job].key /\ tx.row.spec = db[tx.job].spec
  /\ tx.by = "submit" => ByKey(tx.row.key) = {}
  /\ \A a \in acked : Present(a.job)
  /\ AcceptedOnce

\* The key and the specification of the rows the engine writes over others.
LEMMA RowKeys ==
  ASSUME NEW r \in Rows
  PROVE  /\ \A s : LET new == [r EXCEPT !.state = s]
                   IN  new.key = r.key /\ new.spec = r.spec
         /\ \A s : LET new == [r EXCEPT !.state = s, !.proc = TRUE]
                   IN  new.key = r.key /\ new.spec = r.spec
         /\ LET new == [r EXCEPT !.cancel = TRUE]
            IN  new.key = r.key /\ new.spec = r.spec
         /\ \A s : LET new == [r EXCEPT !.state = s, !.cancel = TRUE,
                                        !.code = "CANCELLED"]
                   IN  new.key = r.key /\ new.spec = r.spec
         /\ \A o : LET new == [r EXCEPT !.state = o.final, !.code = o.code,
                                        !.experr = o.experr]
                   IN  new.key = r.key /\ new.spec = r.spec
BY DEF Rows

\* A step that writes no row and has no write in flight that could.
LEMMA KeysRest ==
  ASSUME KeyInv, UNCHANGED <<db, acked>>,
         UNCHANGED tx \/ tx'.by \in {"none", "exporting"}
  PROVE  KeyInv'
BY DEF KeyInv, AcceptedOnce, Present, ByKey

\* The first half of a write over a row that exists.
LEMMA KeysWritten ==
  ASSUME TypeOK, KeyInv, UNCHANGED <<db, acked>>,
         NEW who \in {"cancel", "worker"}, NEW j \in Jobs, NEW row,
         Update(who, j, row), Present(j), row.state # "ABSENT",
         row.key = db[j].key, row.spec = db[j].spec
  PROVE  KeyInv'
<1>1. tx' = [by |-> who, job |-> j, row |-> row]
  BY DEF Update, WriteManifest
<1>2. tx'.by = who /\ tx'.job = j /\ tx'.row = row
  BY <1>1
<1>3. QED
  BY <1>2 DEF KeyInv, AcceptedOnce, Present

\* The second half of such a write.
LEMMA KeysCommitted ==
  ASSUME TypeOK, KeyInv, CommitRow, tx.by \in {"cancel", "worker"},
         UNCHANGED acked, tx'.by \in {"none", "exporting"}
  PROVE  KeyInv'
<1>1. tx.job \in Jobs /\ db \in [Jobs -> Rows]
  BY DEF TypeOK, Writes
<1>2. \A i \in Jobs : db'[i] = IF i = tx.job THEN tx.row ELSE db[i]
  BY <1>1 DEF CommitRow
<1>3. \A i \in Jobs : db'[i].key = db[i].key /\ db'[i].spec = db[i].spec
                      /\ (db'[i].state # "ABSENT" <=> db[i].state # "ABSENT")
  BY <1>2 DEF KeyInv, Present
<1>4. \A a \in acked : a.job \in Jobs
  BY DEF TypeOK
<1>5. QED
  BY <1>3, <1>4 DEF KeyInv, AcceptedOnce, Present

\* Every action preserves the invariant.
LEMMA KeyStep == TypeOK /\ IInv /\ KeyInv /\ [Next]_vars => KeyInv'
<1> SUFFICES ASSUME TypeOK, IInv, KeyInv, [Next]_vars PROVE KeyInv'
  OBVIOUS
<1> USE DEF vars, disk, proc, thread, os, book
<1>1. CASE UNCHANGED vars
  BY <1>1, KeysRest
<1>2. ASSUME NEW k \in Keys, NEW s \in Specs, NEW j \in Jobs, Submit(k, s, j)
      PROVE  KeyInv'
  <2>1. tx' = [by |-> "submit", job |-> j, row |-> NewRow(k, s)]
    BY <1>2 DEF Submit, WriteManifest
  <2>2. tx'.by = "submit" /\ tx'.row.key = k
    BY <2>1 DEF NewRow, NoRow
  <2>3. ByKey(k) = {} /\ UNCHANGED <<db, acked>>
    BY <1>2 DEF Submit
  <2>4. QED
    BY <2>2, <2>3 DEF KeyInv, AcceptedOnce, ByKey, Present
<1>3. ASSUME NEW k \in Keys, NEW s \in Specs, SubmitAgain(k, s) PROVE KeyInv'
  <2>1. PICK j \in ByKey(k) : SameSpec(j, s) /\ Answer(k, s, j)
    BY <1>3 DEF SubmitAgain
  <2>2. UNCHANGED <<db, tx>>
    BY <1>3 DEF SubmitAgain
  <2>3. \A a \in acked' : a \in acked \/ a = [key |-> k, spec |-> s, job |-> j]
    BY <2>1 DEF Answer
  <2>4. \A a \in acked' : /\ Present(a.job)
                          /\ db[a.job].key = a.key /\ db[a.job].spec = a.spec
    BY <2>1, <2>3 DEF ByKey, SameSpec, KeyInv, AcceptedOnce
  <2>5. QED
    BY <2>2, <2>4 DEF KeyInv, AcceptedOnce, ByKey, Present
<1>4. ASSUME NEW j \in Jobs, Cancel(j) PROVE KeyInv'
  <2>1. /\ CancelRow(j).key = db[j].key /\ CancelRow(j).spec = db[j].spec
        /\ CancelRow(j).state # "ABSENT" /\ Present(j)
    BY <1>4, RowKeys, RowStates DEF Cancel, CancelRow, Present, TypeOK, States,
       Terminal
  <2>2. QED
    BY <1>4, <2>1, KeysWritten DEF Cancel
<1>5. CASE SubmitCommitted
  <2>1. tx.job \in Jobs /\ db \in [Jobs -> Rows]
    BY DEF TypeOK, Writes
  <2>2. \A i \in Jobs : db'[i] = IF i = tx.job THEN tx.row ELSE db[i]
    BY <1>5, <2>1 DEF SubmitCommitted, CommitRow
  <2>3. /\ db[tx.job].state = "ABSENT" /\ tx.row.state = "QUEUED"
        /\ tx.by = "submit" /\ tx'.by = "none"
    BY <1>5 DEF SubmitCommitted, IInv, TxInv, NoTx
  <2>4. \A a \in acked' :
          a \in acked \/ a = [key |-> tx.row.key, spec |-> tx.row.spec,
                              job |-> tx.job]
    BY <1>5 DEF SubmitCommitted, Answer
  <2>5. \A a \in acked : a.job \in Jobs /\ a.job # tx.job
    BY <2>3 DEF TypeOK, KeyInv, Present
  <2>6. \A a \in acked' : /\ db'[a.job].state # "ABSENT"
                          /\ db'[a.job].key = a.key /\ db'[a.job].spec = a.spec
    BY <2>1, <2>2, <2>3, <2>4, <2>5 DEF KeyInv, AcceptedOnce, Present
  <2>7. \A i \in Jobs : db[i].state # "ABSENT" => db[i].key # tx.row.key
    BY <2>3 DEF KeyInv, ByKey, Present
  <2>8. \A i, j \in Jobs :
          /\ db'[i].state # "ABSENT" /\ db'[j].state # "ABSENT"
          /\ db'[i].key = db'[j].key
          => i = j
    BY <2>1, <2>2, <2>7 DEF KeyInv, AcceptedOnce, Present
  <2>9. QED
    BY <2>3, <2>6, <2>8 DEF KeyInv, AcceptedOnce, Present
<1>6. CASE CancelCommitted
  <2>1. tx'.by \in {"none", "exporting"}
    BY <1>6 DEF CancelCommitted, NoTx, TypeOK, Writes
  <2>2. QED
    BY <1>6, <2>1, KeysCommitted DEF CancelCommitted
<1>7. CASE CancelExported \/ Recovery \/ Start \/ Stop \/ Exit \/ Crash
           \/ Environment
  BY <1>7, KeysRest
  DEF CancelExported, Recovery, RecoverManifest, RecoverActive, RecoverDone,
      Start, Stop, Exit, Crash, ProcessGone, Environment, Expire, RootExits,
      DescendantsExit, LeaseElsewhere, NoTx
<1>8. CASE Failures
  BY <1>8, KeysRest
  DEF Failures, ClientFails, RecoverFails, DispatchFails, AcquireFails, HelperCleanupFails,
      RecordFails, CleanupFails, ReleaseFails, ExportFails, FinishFails,
      RecoverFinishFails, WriteFails, ProcessGone, NoTx
<1>9. CASE Scheduler
  <2>1. ASSUME NEW j \in Jobs, Dispatch(j) PROVE KeyInv'
    <3> DEFINE row == [db[j] EXCEPT !.state = "STARTING"]
    <3>1. /\ row.key = db[j].key /\ row.spec = db[j].spec
          /\ row.state # "ABSENT" /\ Present(j)
      BY <2>1, RowKeys, RowStates
      DEF Dispatch, Oldest, Queued, Present, TypeOK, States, Active
    <3>2. Update("worker", j, row) /\ UNCHANGED <<db, acked>>
      BY <2>1 DEF Dispatch
    <3>3. QED
      BY <3>1, <3>2, KeysWritten
  <2>2. CASE Record
    <3> DEFINE row == [db[job] EXCEPT !.state = "RUNNING", !.proc = TRUE]
    <3>1. job \in Jobs /\ db[job].state = "STARTING"
      BY <2>2 DEF Record, IInv, ActiveInv, TypeOK
    <3>2. /\ row.key = db[job].key /\ row.spec = db[job].spec
          /\ row.state # "ABSENT" /\ Present(job)
      BY <3>1, RowKeys, RowStates DEF Present, TypeOK, States, Active
    <3>3. Update("worker", job, row) /\ UNCHANGED <<db, acked>>
      BY <2>2 DEF Record
    <3>4. QED
      BY <3>1, <3>2, <3>3, KeysWritten
  <2>3. CASE Finish
    <3>1. job \in Jobs /\ db[job].state \in Active /\ outcome.final \in Terminal
      BY <2>3 DEF Finish, IInv, ActiveInv, TypeOK, Outcomes, Executing
    <3>2. /\ FinalRow.key = db[job].key /\ FinalRow.spec = db[job].spec
          /\ FinalRow.state # "ABSENT" /\ Present(job)
      BY <3>1, RowKeys, RowStates
      DEF FinalRow, Present, TypeOK, States, Active, Terminal
    <3>3. Update("worker", job, FinalRow) /\ UNCHANGED <<db, acked>>
      BY <2>3 DEF Finish
    <3>4. QED
      BY <3>1, <3>2, <3>3, KeysWritten
  <2>4. CASE DispatchCommitted \/ RecordCommitted \/ FinishCommitted
    BY <2>4, KeysCommitted
    DEF DispatchCommitted, RecordCommitted, FinishCommitted, WriteDone, IInv,
        TxInv, Writing, NoTx
  <2>5. CASE \/ SchedulerStops \/ IdleWait \/ CheckRaises \/ Enter
             \/ AcquireLease \/ LeaseBusy \/ Prepare \/ LastCheck \/ Launch
             \/ LaunchFails \/ SeesExit \/ JudgeExit \/ Cleanup
             \/ ReleaseLease \/ CollectArtifacts \/ Export
    BY <2>5, KeysRest
    DEF SchedulerStops, IdleWait, CheckRaises, Enter, AcquireLease, LeaseBusy,
        Prepare, LastCheck, Launch, LaunchFails, SeesExit, JudgeExit, Cleanup,
        ReleaseLease, CollectArtifacts, Export, ThreadStep
  <2>6. QED
    BY <1>9, <2>1, <2>2, <2>3, <2>4, <2>5 DEF Scheduler
<1>10. QED
  BY <1>1, <1>2, <1>3, <1>4, <1>5, <1>6, <1>7, <1>8, <1>9
  DEF Next, Client, ClientEnds

\* An answered submission is never lost or given to another job, and no two
\* jobs have one idempotency key, through every failed write and restart.
THEOREM Idempotent == Spec => []AcceptedOnce
<1>1. Init => KeyInv
  BY DEF Init, KeyInv, AcceptedOnce, Present, NoRow, NoTx
<1>2. KeyInv => AcceptedOnce
  BY DEF KeyInv
<1>3. QED
  BY <1>1, <1>2, KeyStep, IInvHolds, PTL DEF Spec

-----------------------------------------------------------------------------
(* Recovery.                                                               *)

\* The inductive invariant behind ReconciledOnServe: what recovery has
\* visited has the file its row says.
RecInv == mode = "recover" =>
            \A j \in Jobs : Present(j) /\ j \notin todo => manifest[j] = db[j]

\* Recovery alone changes what RecInv speaks of while recovery runs.
LEMMA RecStep == TypeOK /\ IInv /\ RecInv /\ [Next]_vars => RecInv'
<1> SUFFICES ASSUME TypeOK, IInv, RecInv, [Next]_vars, mode' = "recover"
             PROVE  \A j \in Jobs : Present(j)' /\ j \notin todo' =>
                                      manifest'[j] = db'[j]
  BY DEF RecInv
<1> USE DEF vars, disk, proc, thread, os, book
<1>1. CASE UNCHANGED <<db, manifest, mode, todo>>
  BY <1>1 DEF RecInv, Present
<1>2. CASE Start
  BY <1>2 DEF Start, RecoverySet, Present
<1>3. CASE Client \/ Stop \/ Exit \/ Crash
  BY <1>3 DEF Client, Submit, SubmitAgain, Cancel, Stop, Exit, Crash,
     ProcessGone
<1>4. CASE ClientEnds
  BY <1>4, <1>1 DEF ClientEnds, SubmitCommitted, CancelCommitted,
     CancelExported, IInv, TxInv
<1>5. ASSUME NEW j \in Jobs, RecoverManifest(j)
      PROVE  \A i \in Jobs : Present(i)' /\ i \notin todo' =>
                               manifest'[i] = db'[i]
  BY <1>5 DEF RecoverManifest, RecInv, Present, TypeOK
<1>6. CASE RecoverDone \/ \E j \in Jobs : RecoverActive(j)
  BY <1>6, <1>1 DEF RecoverDone, RecoverActive
<1>7. CASE Finish
  <2>1. mode = "recover" /\ job \in todo
    BY <1>7 DEF Finish, IInv, ActiveInv, TypeOK, Executing
  <2>2. /\ UNCHANGED <<db, todo>>
        /\ \A i \in Jobs \ {job} : manifest'[i] = manifest[i]
    BY <1>7 DEF Finish, Update, WriteManifest, TypeOK
  <2>3. QED
    BY <2>1, <2>2 DEF RecInv, Present
<1>8. CASE FinishCommitted
  <2>1. mode = "recover" /\ todo' = todo \ {job}
    BY <1>8 DEF FinishCommitted, WriteDone
  <2>2. tx.job = job /\ manifest[job] = tx.row
    BY <1>8, <2>1 DEF FinishCommitted, WriteDone, IInv, TxInv, Writing
  <2>3. /\ manifest' = manifest
        /\ \A i \in Jobs : db'[i] = IF i = job THEN tx.row ELSE db[i]
    BY <1>8, <2>1, <2>2 DEF FinishCommitted, WriteDone, CommitRow, TypeOK
  <2>4. QED
    BY <2>1, <2>2, <2>3 DEF RecInv, Present
<1>9. CASE Scheduler /\ ~Finish /\ ~FinishCommitted
  <2>1. CASE DispatchCommitted \/ RecordCommitted \/ Record
              \/ \E j \in Jobs : Dispatch(j)
    BY <2>1 DEF DispatchCommitted, RecordCommitted, Record, Dispatch, WriteDone,
       IInv, PlaceInv
  <2>2. CASE ~(DispatchCommitted \/ RecordCommitted \/ Record
               \/ \E j \in Jobs : Dispatch(j))
    <3>1. UNCHANGED <<db, manifest, mode, todo>>
      BY <1>9, <2>2
      DEF Scheduler, SchedulerStops, IdleWait, CheckRaises, Enter,
          AcquireLease, LeaseBusy, Prepare, LastCheck, Launch, LaunchFails,
          SeesExit, JudgeExit, Cleanup, ReleaseLease, CollectArtifacts,
          Export, ThreadStep
    <3>2. QED
      BY <3>1, <1>1
  <2>3. QED
    BY <2>1, <2>2
<1>10. CASE Failures
  BY <1>10, <1>1
  DEF Failures, ClientFails, RecoverFails, DispatchFails, AcquireFails, HelperCleanupFails,
      RecordFails, CleanupFails, ReleaseFails, ExportFails, FinishFails,
      RecoverFinishFails, WriteFails, ProcessGone
<1>11. CASE Environment
  BY <1>11, <1>1 DEF Environment, Expire, RootExits, DescendantsExit,
     LeaseElsewhere
<1>12. CASE UNCHANGED vars
  BY <1>12, <1>1
<1>13. QED
  BY <1>2, <1>3, <1>4, <1>5, <1>6, <1>7, <1>8, <1>9, <1>10, <1>11, <1>12
  DEF Next, Recovery

\* When the worker begins to serve, recovery has brought every manifest.json
\* back to its row, although earlier writes stopped between file and commit.
THEOREM ServesReconciled == Spec => ReconciledOnServe
<1>1. Init => RecInv
  BY DEF Init, RecInv
<1>2. TypeOK /\ IInv /\ RecInv /\ [Next]_vars => [Reconciled]_vars
  <2> SUFFICES ASSUME TypeOK, IInv, RecInv, [Next]_vars,
                      mode # "serve", mode' = "serve"
               PROVE  \A j \in Jobs : Present(j)' => manifest'[j] = db'[j]
    BY DEF Reconciled
  <2> USE DEF vars, disk, proc, thread, os, book
  <2>1. CASE RecoverDone
    <3>1. mode = "recover"
      BY <2>1 DEF RecoverDone, TypeOK, IInv, PlaceInv
    <3>2. QED
      BY <2>1, <3>1 DEF RecoverDone, RecInv, Present
  <2>2. CASE \/ Client \/ ClientEnds \/ Start \/ Stop \/ Exit \/ Crash
             \/ Environment \/ UNCHANGED vars
             \/ \E j \in Jobs : RecoverManifest(j) \/ RecoverActive(j)
    BY <2>2
    DEF Client, Submit, SubmitAgain, Cancel, ClientEnds, SubmitCommitted,
        CancelCommitted, CancelExported, Start, Stop, Exit, Crash,
        ProcessGone, Environment, Expire, RootExits, DescendantsExit,
        LeaseElsewhere, RecoverManifest, RecoverActive
  <2>3. CASE Failures
    BY <2>3
    DEF Failures, ClientFails, RecoverFails, DispatchFails,
        AcquireFails, HelperCleanupFails, RecordFails, CleanupFails, ReleaseFails,
        ExportFails, FinishFails, RecoverFinishFails, WriteFails, ProcessGone
  <2>4. CASE Scheduler
    BY <2>4
    DEF Scheduler, Dispatch, DispatchCommitted, SchedulerStops, IdleWait,
        CheckRaises, Enter, AcquireLease, LeaseBusy, Prepare, LastCheck,
        Launch, LaunchFails, Record, RecordCommitted, SeesExit, JudgeExit,
        Cleanup, ReleaseLease, CollectArtifacts, Export, Finish,
        FinishCommitted, ThreadStep, WriteDone
  <2>5. QED
    BY <2>1, <2>2, <2>3, <2>4 DEF Next, Recovery
<1>3. QED
  BY <1>1, <1>2, RecStep, IInvHolds, PTL DEF Spec, ReconciledOnServe
=============================================================================

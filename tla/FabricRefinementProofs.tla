----------------------- MODULE FabricRefinementProofs -----------------------
(***************************************************************************)
(* FabricEngine implements JobLifecycle, for every value of the constants: *)
(* with its files, locks, failures and restarts the engine still accepts   *)
(* jobs once, starts them one at a time and in order, launches each at     *)
(* most once, completes only what ran and cancels only on request.         *)
(***************************************************************************)
EXTENDS FabricEngineProofs

-----------------------------------------------------------------------------
(* What has to be known of the concrete state.                             *)

\* Job identities are used up in order, and the job that is being dispatched
\* is the oldest one that waits.
OrderInv ==
  /\ \A i, k \in Jobs : i < k /\ manifest[k] # NoRow => manifest[i] # NoRow
  /\ tx.by = "submit" => \A k \in Jobs : tx.job < k => manifest[k] = NoRow
  /\ pc = "dispatching" => \A k \in Jobs : k < job => db[k].state # "QUEUED"
  /\ \A j \in todo : Present(j)

\* Only a cancel raises the cancellation flag of a row.
AskInv ==
  /\ \A j \in Jobs : db[j].state = "ABSENT" => ~db[j].cancel
  /\ tx.by = "submit" => ~tx.row.cancel
  /\ tx.by = "worker" => tx.row.cancel = db[tx.job].cancel
  /\ tx.by = "cancel" => tx.row.cancel

\* The outcome that will be written: success only of a job that runs,
\* cancellation only of a job whose flag is raised.
Justified(final) == /\ final = "COMPLETED" => db[job].state = "RUNNING"
                    /\ final = "CANCELLED" => db[job].cancel

EndInv ==
  /\ pc \in {"running", "post"} => db[job].state = "RUNNING"
  /\ pc \in {"record", "recording"} => launches[job] = 1
  /\ pc \in {"cleanup", "release", "collect", "export", "finish"} =>
       Justified(outcome.final)
  /\ pc = "finishing" => Justified(tx.row.state)

\* Degrade never turns an outcome into a success or a cancellation.
LEMMA DegradeFinal ==
  ASSUME TypeOK, NEW c \in Codes
  PROVE  /\ Degrade(c).final \in {outcome.final, "FAILED"}
         /\ [Degrade(c) EXCEPT !.experr = TRUE].final
              \in {outcome.final, "FAILED"}
BY DEF Degrade, TypeOK, Outcomes

\* Replacing the file of a present job leaves the identities in order.
LEMMA FilesInOrder ==
  ASSUME TypeOK, IInv, OrderInv, NEW j \in Jobs, NEW row, Present(j),
         row # NoRow, manifest' = [manifest EXCEPT ![j] = row]
  PROVE  \A i, k \in Jobs :
           i < k /\ manifest'[k] # NoRow => manifest'[i] # NoRow
<1>1. manifest[j] # NoRow
  BY DEF IInv, ManifestNotBehind, NoRow
<1>2. QED
  BY <1>1 DEF OrderInv, TypeOK

\* Every action preserves the invariant.
LEMMA RefInvStep ==
  TypeOK /\ IInv /\ (OrderInv /\ AskInv /\ EndInv) /\ [Next]_vars
    => (OrderInv /\ AskInv /\ EndInv)'
<1> SUFFICES ASSUME TypeOK, IInv, OrderInv, AskInv, EndInv, [Next]_vars
             PROVE  (OrderInv /\ AskInv /\ EndInv)'
  OBVIOUS
<1>1. ASSUME NEW k \in Keys, NEW s \in Specs, NEW j \in Jobs, Submit(k, s, j) PROVE (OrderInv /\ AskInv /\ EndInv)'
  <2>1. manifest[j] = NoRow /\ \A i \in Jobs : i < j => manifest[i] # NoRow
    BY <1>1 DEF Submit, FreshJob
  <2>2. NewRow(k, s) # NoRow /\ ~NewRow(k, s).cancel
    BY DEF NewRow, NoRow
  <2>3. j \in Jobs /\ manifest \in [Jobs -> Rows] /\ Jobs \subseteq Nat
    BY DEF TypeOK, Jobs
  <2>4. /\ tx.by = "none" /\ tx'.by = "submit" /\ tx'.job = j /\ tx'.row = NewRow(k, s)
        /\ manifest' = [manifest EXCEPT ![j] = NewRow(k, s)]
    BY <1>1 DEF Submit, WriteManifest, LockFree
  <2>5. pc \notin Writing
    BY <2>4 DEF IInv, TxInv
  <2>6. OrderInv'
    BY <1>1, <2>1, <2>2, <2>3, <2>4, <2>5 DEF Submit, WriteManifest, book, os,
       proc, thread, Writing, OrderInv, Present
  <2>7. AskInv'
    BY <1>1, <2>1, <2>2, <2>3, <2>4, <2>5 DEF Submit, WriteManifest, book, os,
       proc, thread, Writing, AskInv
  <2>8. EndInv'
    BY <1>1, <2>1, <2>2, <2>3, <2>4, <2>5 DEF Submit, WriteManifest, book, os,
       proc, thread, Writing, EndInv, Justified
  <2>9. QED BY <2>6, <2>7, <2>8
<1>2. ASSUME NEW k \in Keys, NEW s \in Specs, SubmitAgain(k, s) PROVE (OrderInv /\ AskInv /\ EndInv)'
  BY <1>2 DEF SubmitAgain, disk, os, proc, thread, OrderInv, AskInv, EndInv,
     Present, Justified
<1>3. ASSUME NEW j \in Jobs, Cancel(j) PROVE (OrderInv /\ AskInv /\ EndInv)'
  <2>1. db[j] \in Rows /\ manifest \in [Jobs -> Rows]
    BY DEF TypeOK
  <2>2. CancelRow(j).cancel
    BY <2>1, RowFlags DEF CancelRow
  <2>3. /\ tx.by = "none" /\ tx'.by = "cancel" /\ tx'.job = j /\ tx'.row = CancelRow(j)
        /\ manifest' = [manifest EXCEPT ![j] = CancelRow(j)]
    BY <1>3 DEF Cancel, Update, WriteManifest, LockFree
  <2>4. pc \notin Writing
    BY <2>3 DEF IInv, TxInv
  <2>5. CancelRow(j) # NoRow
    BY <2>2 DEF NoRow
  <2>6. Present(j)
    BY <1>3 DEF Cancel
  <2>7. \A i, k \in Jobs : i < k /\ manifest'[k] # NoRow => manifest'[i] # NoRow
    BY <2>1, <2>3, <2>5, <2>6, FilesInOrder
  <2>8. UNCHANGED <<db, todo>>
    BY <1>3 DEF Cancel, proc
  <2>9. OrderInv'
    BY <1>3, <2>8, <2>7, <2>3, <2>4 DEF Cancel, thread, OrderInv, Present,
       Writing
  <2>10. AskInv'
    BY <1>3, <2>1, <2>2, <2>3, <2>4, <2>5, <2>6, <2>7, <2>8 DEF Cancel,
       Update, WriteManifest, book, os, proc, thread, Writing, AskInv
  <2>11. EndInv'
    BY <1>3, <2>1, <2>2, <2>3, <2>4, <2>5, <2>6, <2>7, <2>8 DEF Cancel,
       Update, WriteManifest, book, os, proc, thread, Writing, EndInv,
       Justified
  <2>12. QED BY <2>9, <2>10, <2>11
<1>4. ASSUME SubmitCommitted PROVE (OrderInv /\ AskInv /\ EndInv)'
  <2>1. tx.job \in Jobs /\ db \in [Jobs -> Rows] /\ job \in Jobs
    BY DEF TypeOK, Writes
  <2>2. \A i \in Jobs : db'[i] = IF i = tx.job THEN tx.row ELSE db[i]
    BY <1>4, <2>1 DEF SubmitCommitted, CommitRow
  <2>3. db[tx.job].state = "ABSENT" /\ tx.row.state = "QUEUED"
    BY <1>4 DEF SubmitCommitted, IInv, TxInv
  <2>4. pc \in Executing => job # tx.job
    BY <2>3 DEF IInv, ActiveInv, Active
  <2>5. pc \notin Writing
    BY <1>4 DEF SubmitCommitted, IInv, TxInv
  <2>6. OrderInv'
    BY <1>4, <2>1, <2>2, <2>3, <2>4, <2>5 DEF SubmitCommitted, CommitRow, os,
       proc, thread, NoTx, Executing, Timed, BeforeLaunch, Writing, OrderInv,
       Present
  <2>7. AskInv'
    BY <1>4, <2>1, <2>2, <2>3, <2>4, <2>5 DEF SubmitCommitted, CommitRow, os,
       proc, thread, NoTx, Executing, Timed, BeforeLaunch, Writing, AskInv
  <2>8. EndInv'
    BY <1>4, <2>1, <2>2, <2>3, <2>4, <2>5 DEF SubmitCommitted, CommitRow, os,
       proc, thread, NoTx, Executing, Timed, BeforeLaunch, Writing, EndInv,
       Justified
  <2>9. QED BY <2>6, <2>7, <2>8
<1>5. ASSUME CancelCommitted PROVE (OrderInv /\ AskInv /\ EndInv)'
  <2>1. tx.job \in Jobs /\ db \in [Jobs -> Rows] /\ job \in Jobs
    BY DEF TypeOK, Writes
  <2>2. \A i \in Jobs : db'[i] = IF i = tx.job THEN tx.row ELSE db[i]
    BY <1>5, <2>1 DEF CancelCommitted, CommitRow
  <2>3. \/ db[tx.job].state = "QUEUED" /\ tx.row.state = "CANCELLED"
        \/ db[tx.job].state \in Active /\ tx.row.state = db[tx.job].state
    BY <1>5 DEF CancelCommitted, IInv, TxInv
  <2>4. pc \in Executing => db[job].state \in Active
    BY DEF IInv, ActiveInv
  <2>5. pc \notin Writing /\ tx.row.cancel
    BY <1>5 DEF CancelCommitted, IInv, TxInv, AskInv
  <2>6. OrderInv'
    BY <1>5, <2>1, <2>2, <2>3, <2>4, <2>5 DEF CancelCommitted, CommitRow,
       book, os, proc, thread, NoTx, Executing, Timed, BeforeLaunch, Writing,
       Active, OrderInv, Present
  <2>7. AskInv'
    BY <1>5, <2>1, <2>2, <2>3, <2>4, <2>5 DEF CancelCommitted, CommitRow,
       book, os, proc, thread, NoTx, Executing, Timed, BeforeLaunch, Writing,
       Active, AskInv
  <2>8. EndInv'
    BY <1>5, <2>1, <2>2, <2>3, <2>4, <2>5 DEF CancelCommitted, CommitRow,
       book, os, proc, thread, NoTx, Executing, Timed, BeforeLaunch, Writing,
       Active, EndInv, Justified
  <2>9. QED BY <2>6, <2>7, <2>8
<1>6. ASSUME CancelExported PROVE (OrderInv /\ AskInv /\ EndInv)'
  <2>1. pc \notin Writing
    BY <1>6 DEF CancelExported, IInv, TxInv
  <2>2. OrderInv'
    BY <1>6, <2>1 DEF CancelExported, book, os, proc, thread, NoTx, Writing,
       OrderInv, Present
  <2>3. AskInv'
    BY <1>6, <2>1 DEF CancelExported, book, os, proc, thread, NoTx, Writing,
       AskInv
  <2>4. EndInv'
    BY <1>6, <2>1 DEF CancelExported, book, os, proc, thread, NoTx, Writing,
       EndInv, Justified
  <2>5. QED BY <2>2, <2>3, <2>4
<1>7. ASSUME NEW j \in Jobs, RecoverManifest(j) PROVE (OrderInv /\ AskInv /\ EndInv)'
  <2>1. j \in Jobs /\ db[j] # NoRow /\ manifest[j] # NoRow
    BY <1>7 DEF RecoverManifest, RecoverNext, OrderInv, Present, NoRow, IInv,
       ManifestNotBehind
  <2>2. mode = "recover" /\ tx.by = "none"
    BY <1>7 DEF RecoverManifest, RecoverNext, TypeOK, IInv, PlaceInv, TxInv,
       Writing
  <2>3. manifest \in [Jobs -> Rows]
    BY DEF TypeOK
  <2>4. OrderInv'
    BY <1>7, <2>1, <2>2, <2>3 DEF RecoverManifest, book, os, thread, OrderInv,
       Present
  <2>5. AskInv'
    BY <1>7, <2>1, <2>2, <2>3 DEF RecoverManifest, book, os, thread, AskInv
  <2>6. EndInv'
    BY <1>7, <2>1, <2>2, <2>3 DEF RecoverManifest, book, os, thread, EndInv,
       Justified
  <2>7. QED BY <2>4, <2>5, <2>6
<1>8. ASSUME NEW j \in Jobs, RecoverActive(j) PROVE (OrderInv /\ AskInv /\ EndInv)'
  <2>1. outcome'.final = "FAILED"
    BY <1>8 DEF RecoverActive, FreshOutcome
  <2>2. tx.by = "none"
    BY <1>8 DEF RecoverActive, RecoverNext, TypeOK, IInv, PlaceInv, TxInv,
       Writing
  <2>3. OrderInv'
    BY <1>8, <2>1, <2>2 DEF RecoverActive, book, disk, proc, OrderInv, Present
  <2>4. AskInv'
    BY <1>8, <2>1, <2>2 DEF RecoverActive, book, disk, proc, AskInv
  <2>5. EndInv'
    BY <1>8, <2>1, <2>2 DEF RecoverActive, book, disk, proc, EndInv, Justified
  <2>6. QED BY <2>3, <2>4, <2>5
<1>9. ASSUME RecoverDone PROVE (OrderInv /\ AskInv /\ EndInv)'
  BY <1>9 DEF RecoverDone, book, disk, os, OrderInv, AskInv, EndInv, Present,
     Justified
<1>10. ASSUME NEW j \in Jobs, Dispatch(j) PROVE (OrderInv /\ AskInv /\ EndInv)'
  <2>1. j \in Jobs /\ db[j] \in Rows /\ manifest \in [Jobs -> Rows]
    BY DEF TypeOK
  <2>2. [db[j] EXCEPT !.state = "STARTING"].cancel = db[j].cancel
    BY <2>1, RowFlags
  <2>3. /\ tx.by = "none" /\ tx'.by = "worker" /\ tx'.job = j
        /\ tx'.row = [db[j] EXCEPT !.state = "STARTING"]
        /\ manifest' = [manifest EXCEPT ![j] = [db[j] EXCEPT !.state = "STARTING"]]
    BY <1>10 DEF Dispatch, Update, WriteManifest, LockFree
  <2>4. db[j].state # "ABSENT"
    BY <1>10 DEF Dispatch, Oldest, Queued
  <2>5. manifest[j] # NoRow
    BY <2>1, <2>4 DEF IInv, ManifestNotBehind, Present, NoRow
  <2>6. \A k \in Jobs : k < j => db[k].state # "QUEUED"
    BY <1>10 DEF Dispatch, Oldest, Queued, Jobs
  <2>7. Present(j)
    BY <2>4 DEF Present
  <2>8. [db[j] EXCEPT !.state = "STARTING"] # NoRow
    BY <2>1, RowStates DEF NoRow, States, Active
  <2>9. \A i, k \in Jobs : i < k /\ manifest'[k] # NoRow => manifest'[i] # NoRow
    BY <2>1, <2>3, <2>8, <2>7, FilesInOrder
  <2>10. UNCHANGED <<db, todo>>
    BY <1>10 DEF Dispatch, proc
  <2>11. OrderInv'
    BY <1>10, <2>10, <2>9, <2>3, <2>6 DEF Dispatch, thread, OrderInv, Present,
       Writing
  <2>12. AskInv'
    BY <1>10, <2>1, <2>2, <2>3, <2>4, <2>5, <2>6, <2>7, <2>8, <2>9, <2>10 DEF
       Dispatch, Update, WriteManifest, book, os, proc, AskInv
  <2>13. EndInv'
    BY <1>10, <2>1, <2>2, <2>3, <2>4, <2>5, <2>6, <2>7, <2>8, <2>9, <2>10 DEF
       Dispatch, Update, WriteManifest, book, os, proc, EndInv, Justified
  <2>14. QED BY <2>11, <2>12, <2>13
<1>11. ASSUME DispatchCommitted PROVE (OrderInv /\ AskInv /\ EndInv)'
  <2>1. tx.job \in Jobs /\ db \in [Jobs -> Rows] /\ job \in Jobs
    BY DEF TypeOK, Writes
  <2>2. \A i \in Jobs : db'[i] = IF i = tx.job THEN tx.row ELSE db[i]
    BY <1>11, <2>1 DEF DispatchCommitted, CommitRow, WriteDone
  <2>3. tx.row.state = "STARTING" /\ tx.job = job /\ tx.by = "worker"
    BY <1>11 DEF DispatchCommitted, WriteDone, IInv, TxInv, Writing
  <2>4. OrderInv'
    BY <1>11, <2>1, <2>2, <2>3 DEF DispatchCommitted, WriteDone, CommitRow,
       book, os, proc, NoTx, Terminal, OrderInv, Present
  <2>5. AskInv'
    BY <1>11, <2>1, <2>2, <2>3 DEF DispatchCommitted, WriteDone, CommitRow,
       book, os, proc, NoTx, Terminal, AskInv
  <2>6. EndInv'
    BY <1>11, <2>1, <2>2, <2>3 DEF DispatchCommitted, WriteDone, CommitRow,
       book, os, proc, NoTx, Terminal, EndInv, Justified
  <2>7. QED BY <2>4, <2>5, <2>6
<1>12. ASSUME SchedulerStops PROVE (OrderInv /\ AskInv /\ EndInv)'
  BY <1>12 DEF SchedulerStops, ThreadStep, book, disk, os, proc, OrderInv,
     AskInv, EndInv, Present, Justified
<1>13. ASSUME IdleWait PROVE (OrderInv /\ AskInv /\ EndInv)'
  BY <1>13 DEF IdleWait, book, disk, os, proc, thread, vars, OrderInv, AskInv,
     EndInv, Present, Justified
<1>14. ASSUME CheckRaises PROVE (OrderInv /\ AskInv /\ EndInv)'
  <2>1. Justified(outcome'.final)
    BY <1>14 DEF CheckRaises, Note, ControlFailure, Justified, TypeOK,
       Outcomes
  <2>2. OrderInv'
    BY <1>14, <2>1 DEF CheckRaises, ThreadStep, book, disk, os, proc,
       OrderInv, Present
  <2>3. AskInv'
    BY <1>14, <2>1 DEF CheckRaises, ThreadStep, book, disk, os, proc, AskInv
  <2>4. EndInv'
    BY <1>14, <2>1 DEF CheckRaises, ThreadStep, book, disk, os, proc, EndInv,
       Justified
  <2>5. QED BY <2>2, <2>3, <2>4
<1>15. ASSUME Enter PROVE (OrderInv /\ AskInv /\ EndInv)'
  BY <1>15 DEF Enter, ThreadStep, book, disk, os, proc, OrderInv, AskInv,
     EndInv, Present, Justified
<1>16. ASSUME AcquireLease PROVE (OrderInv /\ AskInv /\ EndInv)'
  BY <1>16 DEF AcquireLease, book, disk, proc, OrderInv, AskInv, EndInv,
     Present, Justified
<1>17. ASSUME LeaseBusy PROVE (OrderInv /\ AskInv /\ EndInv)'
  <2>1. outcome'.final = "FAILED"
    BY <1>17 DEF LeaseBusy, Note, TypeOK, Outcomes
  <2>2. OrderInv'
    BY <1>17, <2>1 DEF LeaseBusy, ThreadStep, book, disk, os, proc, OrderInv,
       Present
  <2>3. AskInv'
    BY <1>17, <2>1 DEF LeaseBusy, ThreadStep, book, disk, os, proc, AskInv
  <2>4. EndInv'
    BY <1>17, <2>1 DEF LeaseBusy, ThreadStep, book, disk, os, proc, EndInv,
       Justified
  <2>5. QED BY <2>2, <2>3, <2>4
<1>18. ASSUME Prepare PROVE (OrderInv /\ AskInv /\ EndInv)'
  <2>1. pc' = "spawn" \/ (pc' = "cleanup" /\ outcome'.final = "FAILED")
    BY <1>18 DEF Prepare, ThreadStep, Note, TypeOK, Outcomes
  <2>2. OrderInv'
    BY <1>18, <2>1 DEF Prepare, ThreadStep, book, disk, os, proc, OrderInv,
       Present
  <2>3. AskInv'
    BY <1>18, <2>1 DEF Prepare, ThreadStep, book, disk, os, proc, AskInv
  <2>4. EndInv'
    BY <1>18, <2>1 DEF Prepare, ThreadStep, book, disk, os, proc, EndInv,
       Justified
  <2>5. QED BY <2>2, <2>3, <2>4
<1>19. ASSUME LastCheck PROVE (OrderInv /\ AskInv /\ EndInv)'
  BY <1>19 DEF LastCheck, ThreadStep, book, disk, os, proc, OrderInv, AskInv,
     EndInv, Present, Justified
<1>20. ASSUME Launch PROVE (OrderInv /\ AskInv /\ EndInv)'
  <2>1. launches'[job] = 1
    BY <1>20 DEF Launch, IInv, LaunchInv, BeforeLaunch, TypeOK
  <2>2. OrderInv'
    BY <1>20, <2>1 DEF Launch, book, disk, proc, OrderInv, Present
  <2>3. AskInv'
    BY <1>20, <2>1 DEF Launch, book, disk, proc, AskInv
  <2>4. EndInv'
    BY <1>20, <2>1 DEF Launch, book, disk, proc, EndInv, Justified
  <2>5. QED BY <2>2, <2>3, <2>4
<1>21. ASSUME LaunchFails PROVE (OrderInv /\ AskInv /\ EndInv)'
  <2>1. outcome'.final = "FAILED"
    BY <1>21 DEF LaunchFails, Note, TypeOK, Outcomes
  <2>2. OrderInv'
    BY <1>21, <2>1 DEF LaunchFails, ThreadStep, book, disk, os, proc,
       OrderInv, Present
  <2>3. AskInv'
    BY <1>21, <2>1 DEF LaunchFails, ThreadStep, book, disk, os, proc, AskInv
  <2>4. EndInv'
    BY <1>21, <2>1 DEF LaunchFails, ThreadStep, book, disk, os, proc, EndInv,
       Justified
  <2>5. QED BY <2>2, <2>3, <2>4
<1>22. ASSUME Record PROVE (OrderInv /\ AskInv /\ EndInv)'
  <2>1. job \in Jobs /\ db[job] \in Rows /\ manifest \in [Jobs -> Rows]
    BY DEF TypeOK
  <2>2. [db[job] EXCEPT !.state = "RUNNING", !.proc = TRUE].cancel = db[job].cancel
    BY <2>1, RowFlags
  <2>3. /\ tx.by = "none" /\ tx'.by = "worker" /\ tx'.job = job
        /\ tx'.row = [db[job] EXCEPT !.state = "RUNNING", !.proc = TRUE]
        /\ manifest' = [manifest EXCEPT ![job] = [db[job] EXCEPT !.state = "RUNNING", !.proc = TRUE]]
    BY <1>22 DEF Record, Update, WriteManifest, LockFree
  <2>4. db[job].state # "ABSENT"
    BY <1>22 DEF Record, IInv, ActiveInv
  <2>5. manifest[job] # NoRow
    BY <2>1, <2>4 DEF IInv, ManifestNotBehind, Present, NoRow
  <2>6. Present(job)
    BY <2>4 DEF Present
  <2>7. [db[job] EXCEPT !.state = "RUNNING", !.proc = TRUE] # NoRow
    BY <2>1, RowStates DEF NoRow, States, Active
  <2>8. \A i, k \in Jobs : i < k /\ manifest'[k] # NoRow => manifest'[i] # NoRow
    BY <2>1, <2>3, <2>7, <2>6, FilesInOrder DEF TypeOK
  <2>9. UNCHANGED <<db, todo>>
    BY <1>22 DEF Record, proc
  <2>10. OrderInv'
    BY <1>22, <2>9, <2>8, <2>3 DEF Record, thread, OrderInv, Present, Writing
  <2>11. AskInv'
    BY <1>22, <2>1, <2>2, <2>3, <2>4, <2>5, <2>6, <2>7, <2>8, <2>9 DEF Record,
       Update, WriteManifest, book, os, proc, AskInv
  <2>12. EndInv'
    BY <1>22, <2>1, <2>2, <2>3, <2>4, <2>5, <2>6, <2>7, <2>8, <2>9 DEF Record,
       Update, WriteManifest, book, os, proc, EndInv, Justified
  <2>13. QED BY <2>10, <2>11, <2>12
<1>23. ASSUME RecordCommitted PROVE (OrderInv /\ AskInv /\ EndInv)'
  <2>1. tx.job \in Jobs /\ db \in [Jobs -> Rows] /\ job \in Jobs
    BY DEF TypeOK, Writes
  <2>2. \A i \in Jobs : db'[i] = IF i = tx.job THEN tx.row ELSE db[i]
    BY <1>23, <2>1 DEF RecordCommitted, CommitRow, WriteDone
  <2>3. tx.row.state = "RUNNING" /\ tx.job = job /\ tx.by = "worker"
    BY <1>23 DEF RecordCommitted, WriteDone, IInv, TxInv, Writing
  <2>4. OrderInv'
    BY <1>23, <2>1, <2>2, <2>3 DEF RecordCommitted, WriteDone, CommitRow,
       book, os, proc, NoTx, Terminal, OrderInv, Present
  <2>5. AskInv'
    BY <1>23, <2>1, <2>2, <2>3 DEF RecordCommitted, WriteDone, CommitRow,
       book, os, proc, NoTx, Terminal, AskInv
  <2>6. EndInv'
    BY <1>23, <2>1, <2>2, <2>3 DEF RecordCommitted, WriteDone, CommitRow,
       book, os, proc, NoTx, Terminal, EndInv, Justified
  <2>7. QED BY <2>4, <2>5, <2>6
<1>24. ASSUME SeesExit PROVE (OrderInv /\ AskInv /\ EndInv)'
  BY <1>24 DEF SeesExit, ThreadStep, book, disk, os, proc, OrderInv, AskInv,
     EndInv, Present, Justified
<1>25. ASSUME JudgeExit PROVE (OrderInv /\ AskInv /\ EndInv)'
  <2>1. outcome'.final \in {"COMPLETED", "FAILED"}
    BY <1>25 DEF JudgeExit, Note, TypeOK, Outcomes
  <2>2. OrderInv'
    BY <1>25, <2>1 DEF JudgeExit, ThreadStep, book, disk, os, proc, OrderInv,
       Present
  <2>3. AskInv'
    BY <1>25, <2>1 DEF JudgeExit, ThreadStep, book, disk, os, proc, AskInv
  <2>4. EndInv'
    BY <1>25, <2>1 DEF JudgeExit, ThreadStep, book, disk, os, proc, EndInv,
       Justified
  <2>5. QED BY <2>2, <2>3, <2>4
<1>26. ASSUME Cleanup PROVE (OrderInv /\ AskInv /\ EndInv)'
  BY <1>26 DEF Cleanup, book, disk, proc, OrderInv, AskInv, EndInv, Present,
     Justified
<1>27. ASSUME ReleaseLease PROVE (OrderInv /\ AskInv /\ EndInv)'
  BY <1>27 DEF ReleaseLease, book, disk, proc, OrderInv, AskInv, EndInv,
     Present, Justified
<1>28. ASSUME CollectArtifacts PROVE (OrderInv /\ AskInv /\ EndInv)'
  <2>1. outcome'.final \in {outcome.final, "FAILED"}
    BY <1>28, DegradeFinal DEF CollectArtifacts, Codes
  <2>2. OrderInv'
    BY <1>28, <2>1 DEF CollectArtifacts, ThreadStep, book, disk, os, proc,
       OrderInv, Present
  <2>3. AskInv'
    BY <1>28, <2>1 DEF CollectArtifacts, ThreadStep, book, disk, os, proc,
       AskInv
  <2>4. EndInv'
    BY <1>28, <2>1 DEF CollectArtifacts, ThreadStep, book, disk, os, proc,
       EndInv, Justified
  <2>5. QED BY <2>2, <2>3, <2>4
<1>29. ASSUME Export PROVE (OrderInv /\ AskInv /\ EndInv)'
  BY <1>29 DEF Export, book, os, proc, OrderInv, AskInv, EndInv, Present,
     Justified
<1>30. ASSUME Finish PROVE (OrderInv /\ AskInv /\ EndInv)'
  <2>1. job \in Jobs /\ db[job] \in Rows /\ manifest \in [Jobs -> Rows]
    BY DEF TypeOK
  <2>2. FinalRow.cancel = db[job].cancel
    BY <2>1, RowFlags DEF FinalRow
  <2>3. /\ tx.by = "none" /\ tx'.by = "worker" /\ tx'.job = job
        /\ tx'.row = FinalRow
        /\ manifest' = [manifest EXCEPT ![job] = FinalRow]
    BY <1>30 DEF Finish, Update, WriteManifest, LockFree
  <2>4. db[job].state # "ABSENT"
    BY <1>30 DEF Finish, IInv, ActiveInv, Executing, Active
  <2>5. manifest[job] # NoRow
    BY <2>1, <2>4 DEF IInv, ManifestNotBehind, Present, NoRow
  <2>6. FinalRow.state = outcome.final
    BY <2>1, RowStates DEF FinalRow, TypeOK, Outcomes, States
  <2>7. Present(job)
    BY <2>4 DEF Present
  <2>8. FinalRow # NoRow
    BY <2>1, <2>6, <1>30 DEF NoRow, TypeOK, Outcomes, Terminal
  <2>9. \A i, k \in Jobs : i < k /\ manifest'[k] # NoRow => manifest'[i] # NoRow
    BY <2>1, <2>3, <2>8, <2>7, FilesInOrder DEF TypeOK
  <2>10. UNCHANGED <<db, todo>>
    BY <1>30 DEF Finish, proc
  <2>11. OrderInv'
    BY <1>30, <2>10, <2>9, <2>3 DEF Finish, thread, OrderInv, Present, Writing
  <2>12. AskInv'
    BY <1>30, <2>1, <2>2, <2>3, <2>4, <2>5, <2>6, <2>7, <2>8, <2>9, <2>10 DEF
       Finish, Update, WriteManifest, book, os, proc, AskInv
  <2>13. EndInv'
    BY <1>30, <2>1, <2>2, <2>3, <2>4, <2>5, <2>6, <2>7, <2>8, <2>9, <2>10 DEF
       Finish, Update, WriteManifest, book, os, proc, EndInv, Justified
  <2>14. QED BY <2>11, <2>12, <2>13
<1>31. ASSUME FinishCommitted PROVE (OrderInv /\ AskInv /\ EndInv)'
  <2>1. tx.job \in Jobs /\ db \in [Jobs -> Rows] /\ job \in Jobs
    BY DEF TypeOK, Writes
  <2>2. \A i \in Jobs : db'[i] = IF i = tx.job THEN tx.row ELSE db[i]
    BY <1>31, <2>1 DEF FinishCommitted, CommitRow, WriteDone
  <2>3. tx.row.state \in Terminal /\ tx.job = job /\ tx.by = "worker"
    BY <1>31 DEF FinishCommitted, WriteDone, IInv, TxInv, Writing
  <2>4. pc' # "dispatching" /\ todo' \subseteq todo /\ tx' = NoTx
        /\ manifest' = manifest
    BY <1>31 DEF FinishCommitted, WriteDone
  <2>5. OrderInv'
    BY <2>1, <2>2, <2>3, <2>4 DEF OrderInv, Present, NoTx, Terminal, TypeOK
  <2>6. AskInv'
    BY <1>31, <2>1, <2>2, <2>3, <2>4 DEF FinishCommitted, WriteDone,
       CommitRow, book, os, proc, NoTx, Terminal, AskInv
  <2>7. EndInv'
    BY <1>31, <2>1, <2>2, <2>3, <2>4 DEF FinishCommitted, WriteDone,
       CommitRow, book, os, proc, NoTx, Terminal, EndInv, Justified
  <2>8. QED BY <2>5, <2>6, <2>7
<1>32. ASSUME ClientFails PROVE (OrderInv /\ AskInv /\ EndInv)'
  <2>1. pc \notin Writing
    BY <1>32 DEF ClientFails, IInv, TxInv
  <2>2. OrderInv'
    BY <1>32, <2>1 DEF ClientFails, disk, os, proc, thread, NoTx, Writing,
       OrderInv, Present
  <2>3. AskInv'
    BY <1>32, <2>1 DEF ClientFails, disk, os, proc, thread, NoTx, Writing,
       AskInv
  <2>4. EndInv'
    BY <1>32, <2>1 DEF ClientFails, disk, os, proc, thread, NoTx, Writing,
       EndInv, Justified
  <2>5. QED BY <2>2, <2>3, <2>4
<1>33. ASSUME RecoverFails PROVE (OrderInv /\ AskInv /\ EndInv)'
  BY <1>33 DEF RecoverFails, ProcessGone, disk, proc, NoTx, OrderInv, AskInv,
     EndInv, Present, Justified
<1>34. ASSUME DispatchFails PROVE (OrderInv /\ AskInv /\ EndInv)'
  BY <1>34 DEF DispatchFails, WriteFails, Fatal, disk, os, proc, NoTx,
     OrderInv, AskInv, EndInv, Present, Justified
<1>35. ASSUME HelperCleanupFails PROVE (OrderInv /\ AskInv /\ EndInv)'
  <2>1. outcome'.final = "FAILED"
    BY <1>35 DEF HelperCleanupFails, Unclean, Note, TypeOK, Outcomes
  <2>2. OrderInv'
    BY <1>35, <2>1 DEF HelperCleanupFails, Unclean, disk, os, OrderInv,
       Present
  <2>3. AskInv'
    BY <1>35, <2>1 DEF HelperCleanupFails, Unclean, disk, os, AskInv
  <2>4. EndInv'
    BY <1>35, <2>1 DEF HelperCleanupFails, Unclean, disk, os, EndInv,
       Justified
  <2>5. QED BY <2>2, <2>3, <2>4
<1>36. ASSUME RecordFails PROVE (OrderInv /\ AskInv /\ EndInv)'
  <2>1. outcome'.final = "FAILED"
    BY <1>36 DEF RecordFails, Note, TypeOK, Outcomes
  <2>2. OrderInv'
    BY <1>36, <2>1 DEF RecordFails, WriteFails, disk, os, proc, NoTx,
       OrderInv, Present
  <2>3. AskInv'
    BY <1>36, <2>1 DEF RecordFails, WriteFails, disk, os, proc, NoTx, AskInv
  <2>4. EndInv'
    BY <1>36, <2>1 DEF RecordFails, WriteFails, disk, os, proc, NoTx, EndInv,
       Justified
  <2>5. QED BY <2>2, <2>3, <2>4
<1>37. ASSUME CleanupFails PROVE (OrderInv /\ AskInv /\ EndInv)'
  <2>1. outcome'.final = "FAILED"
    BY <1>37 DEF CleanupFails, Unclean, Note, TypeOK, Outcomes
  <2>2. OrderInv'
    BY <1>37, <2>1 DEF CleanupFails, Unclean, disk, os, OrderInv, Present
  <2>3. AskInv'
    BY <1>37, <2>1 DEF CleanupFails, Unclean, disk, os, AskInv
  <2>4. EndInv'
    BY <1>37, <2>1 DEF CleanupFails, Unclean, disk, os, EndInv, Justified
  <2>5. QED BY <2>2, <2>3, <2>4
<1>38. ASSUME ReleaseFails PROVE (OrderInv /\ AskInv /\ EndInv)'
  BY <1>38 DEF ReleaseFails, Fatal, disk, OrderInv, AskInv, EndInv, Present,
     Justified
<1>39. ASSUME ExportFails PROVE (OrderInv /\ AskInv /\ EndInv)'
  <2>1. outcome'.final \in {outcome.final, "FAILED"}
    BY <1>39, DegradeFinal DEF ExportFails, Codes
  <2>2. OrderInv'
    BY <1>39, <2>1 DEF ExportFails, disk, os, proc, OrderInv, Present
  <2>3. AskInv'
    BY <1>39, <2>1 DEF ExportFails, disk, os, proc, AskInv
  <2>4. EndInv'
    BY <1>39, <2>1 DEF ExportFails, disk, os, proc, EndInv, Justified
  <2>5. QED BY <2>2, <2>3, <2>4
<1>40. ASSUME FinishFails PROVE (OrderInv /\ AskInv /\ EndInv)'
  BY <1>40 DEF FinishFails, WriteFails, Fatal, disk, os, proc, NoTx, OrderInv,
     AskInv, EndInv, Present, Justified
<1>41. ASSUME RecoverFinishFails PROVE (OrderInv /\ AskInv /\ EndInv)'
  BY <1>41 DEF RecoverFinishFails, ProcessGone, disk, proc, NoTx, OrderInv,
     AskInv, EndInv, Present, Justified
<1>42. ASSUME Start PROVE (OrderInv /\ AskInv /\ EndInv)'
  <2>1. OrderInv'
    BY <1>42 DEF Start, book, disk, os, RecoverySet, OrderInv, Present
  <2>2. AskInv'
    BY <1>42 DEF Start, book, disk, os, RecoverySet, AskInv
  <2>3. EndInv'
    BY <1>42 DEF Start, book, disk, os, RecoverySet, EndInv, Justified
  <2>4. QED BY <2>1, <2>2, <2>3
<1>43. ASSUME Stop PROVE (OrderInv /\ AskInv /\ EndInv)'
  BY <1>43 DEF Stop, disk, os, thread, OrderInv, AskInv, EndInv, Present,
     Justified
<1>44. ASSUME Exit PROVE (OrderInv /\ AskInv /\ EndInv)'
  BY <1>44 DEF Exit, ProcessGone, disk, proc, NoTx, OrderInv, AskInv, EndInv,
     Present, Justified
<1>45. ASSUME Crash PROVE (OrderInv /\ AskInv /\ EndInv)'
  BY <1>45 DEF Crash, ProcessGone, disk, proc, NoTx, OrderInv, AskInv, EndInv,
     Present, Justified
<1>46. ASSUME Expire PROVE (OrderInv /\ AskInv /\ EndInv)'
  BY <1>46 DEF Expire, book, disk, os, proc, OrderInv, AskInv, EndInv,
     Present, Justified
<1>47. ASSUME NEW j \in Jobs, NEW code \in {"zero", "nonzero"}, RootExits(j, code) PROVE (OrderInv /\ AskInv /\ EndInv)'
  BY <1>47 DEF RootExits, book, disk, proc, thread, OrderInv, AskInv, EndInv,
     Present, Justified
<1>48. ASSUME NEW j \in Jobs, DescendantsExit(j) PROVE (OrderInv /\ AskInv /\ EndInv)'
  BY <1>48 DEF DescendantsExit, book, disk, proc, thread, OrderInv, AskInv,
     EndInv, Present, Justified
<1>49. ASSUME LeaseElsewhere PROVE (OrderInv /\ AskInv /\ EndInv)'
  BY <1>49 DEF LeaseElsewhere, book, disk, proc, thread, OrderInv, AskInv,
     EndInv, Present, Justified
<1>50. CASE UNCHANGED vars
  BY <1>50 DEF vars, disk, proc, thread, os, book, OrderInv, AskInv, EndInv,
     Present, Justified
<1>51. ASSUME AcquireFails PROVE (OrderInv /\ AskInv /\ EndInv)'
  <2>1. outcome'.final = "FAILED"
    BY <1>51 DEF AcquireFails, Note, TypeOK, Outcomes
  <2>2. OrderInv'
    BY <1>51, <2>1 DEF AcquireFails, disk, proc, OrderInv, Present
  <2>3. AskInv'
    BY <1>51, <2>1 DEF AcquireFails, disk, proc, AskInv
  <2>4. EndInv'
    BY <1>51, <2>1 DEF AcquireFails, disk, proc, EndInv, Justified
  <2>5. QED BY <2>2, <2>3, <2>4
<1>52. QED
  BY <1>1, <1>2, <1>3, <1>4, <1>5, <1>6, <1>7, <1>8, <1>9, <1>10, <1>11,
     <1>12, <1>13, <1>14, <1>15, <1>16, <1>17, <1>18, <1>19, <1>20, <1>21,
     <1>22, <1>23, <1>24, <1>25, <1>26, <1>27, <1>28, <1>29, <1>30, <1>31,
     <1>32, <1>33, <1>34, <1>35, <1>36, <1>37, <1>38, <1>39, <1>40, <1>41,
     <1>42, <1>43, <1>44, <1>45, <1>46, <1>47, <1>48, <1>49, <1>50,
     <1>51
  DEF Next, Client, ClientEnds, Recovery, Scheduler, Failures, Environment

\* The invariant holds in every reachable state.
LEMMA RefInvHolds == Spec => [](TypeOK /\ IInv /\ OrderInv /\ AskInv /\ EndInv)
<1>1. Init => OrderInv /\ AskInv /\ EndInv
  BY DEF Init, OrderInv, AskInv, EndInv, NoTx, NoRow
<1>2. QED
  BY <1>1, RefInvStep, IInvHolds, PTL DEF Spec

-----------------------------------------------------------------------------
(* The refinement.                                                         *)

\* A commit changes the abstract state of the job it is for, and no other.
LEMMA CommitMaps ==
  ASSUME TypeOK, CommitRow
  PROVE  /\ [j \in Jobs |-> db'[j].state]
              = [[j \in Jobs |-> db[j].state] EXCEPT ![tx.job] = tx.row.state]
         /\ [j \in Jobs |-> db'[j].cancel]
              = [[j \in Jobs |-> db[j].cancel] EXCEPT ![tx.job] = tx.row.cancel]
<1>1. tx.job \in Jobs /\ db \in [Jobs -> Rows]
  BY DEF TypeOK, Writes
<1>2. \A j \in Jobs : db'[j] = IF j = tx.job THEN tx.row ELSE db[j]
  BY <1>1 DEF CommitRow
<1>3. QED
  BY <1>1, <1>2

\* A cancel flag that does not change leaves `wanted' alone.
LEMMA SameFlag ==
  ASSUME TypeOK, tx.row.cancel = db[tx.job].cancel
  PROVE  [[j \in Jobs |-> db[j].cancel] EXCEPT ![tx.job] = tx.row.cancel]
           = [j \in Jobs |-> db[j].cancel]
BY DEF TypeOK, Writes

\* A state that does not change leaves `state' alone.
LEMMA SameState ==
  ASSUME TypeOK, tx.row.state = db[tx.job].state
  PROVE  [[j \in Jobs |-> db[j].state] EXCEPT ![tx.job] = tx.row.state]
           = [j \in Jobs |-> db[j].state]
BY DEF TypeOK, Writes

\* Steps that neither commit nor launch are invisible in JobLifecycle.
LEMMA OtherSteps ==
  ASSUME [Next]_vars
  PROVE  \/ UNCHANGED <<db, launches>>
         \/ SubmitCommitted \/ CancelCommitted \/ DispatchCommitted
         \/ RecordCommitted \/ FinishCommitted \/ Launch
<1> USE DEF vars, disk, os
<1>1. CASE UNCHANGED vars
  BY <1>1
<1>2. CASE Client \/ Start \/ Stop \/ Exit \/ Crash \/ Environment \/ Recovery
  BY <1>2
  DEF Client, Submit, SubmitAgain, Cancel, Start, Stop, Exit, Crash,
      ProcessGone, Environment, Expire, RootExits, DescendantsExit,
      LeaseElsewhere, Recovery, RecoverManifest, RecoverActive, RecoverDone
<1>3. CASE ClientEnds
  BY <1>3 DEF ClientEnds, CancelExported
<1>4. CASE Failures
  BY <1>4
  DEF Failures, ClientFails, RecoverFails, DispatchFails, AcquireFails, HelperCleanupFails,
      RecordFails, CleanupFails, ReleaseFails, ExportFails, FinishFails,
      RecoverFinishFails, WriteFails, ProcessGone
<1>5. CASE Scheduler
  BY <1>5
  DEF Scheduler, Dispatch, SchedulerStops, IdleWait, CheckRaises, Enter,
      AcquireLease, LeaseBusy, Prepare, LastCheck, LaunchFails, Record,
      SeesExit, JudgeExit, Cleanup, ReleaseLease, CollectArtifacts, Export,
      Finish, ThreadStep
<1>6. QED
  BY <1>1, <1>2, <1>3, <1>4, <1>5 DEF Next

\* A step of any one job is a step of JobLifecycle.
LEMMA AnyJob ==
  ASSUME NEW j \in Jobs,
         \/ Lifecycle!Accept(j) \/ Lifecycle!Start(j) \/ Lifecycle!Launch(j)
         \/ Lifecycle!Run(j) \/ \E s \in Lifecycle!Terminal : Lifecycle!End(j, s)
         \/ Lifecycle!RequestCancel(j) \/ Lifecycle!CancelQueued(j)
  PROVE  Lifecycle!Next
BY DEF Lifecycle!Next

\* Every step of the engine is a step of JobLifecycle or invisible in it.
LEMMA RefStep ==
  TypeOK /\ IInv /\ OrderInv /\ AskInv /\ EndInv /\ [Next]_vars
    => [Lifecycle!Next]_Lifecycle!vars
<1> SUFFICES ASSUME TypeOK, IInv, OrderInv, AskInv, EndInv, [Next]_vars
             PROVE  [Lifecycle!Next]_Lifecycle!vars
  OBVIOUS
<1>0. tx.job \in Jobs /\ job \in Jobs
  BY DEF TypeOK, Writes
<1>1. CASE UNCHANGED <<db, launches>>
  BY <1>1 DEF Lifecycle!vars
<1>2. CASE SubmitCommitted
  <2>0. PICK j \in Jobs : j = tx.job
    BY <1>0
  <2>1. /\ db[tx.job].state = "ABSENT" /\ tx.row.state = "QUEUED"
        /\ tx.row.cancel = db[tx.job].cancel
    BY <1>0, <1>2 DEF SubmitCommitted, IInv, TxInv, AskInv, Rows, TypeOK, Writes
  <2>2. \A k \in Jobs : k > tx.job => db[k].state = "ABSENT"
    BY <1>0, <1>2 DEF SubmitCommitted, OrderInv, IInv, ManifestNotBehind,
       Present, NoRow, Jobs
  <2>3. Lifecycle!Accept(j)
    BY <1>0, <2>0, <1>2, <2>1, <2>2, CommitMaps, SameFlag
    DEF SubmitCommitted, os, Lifecycle!Accept, Lifecycle!Become
  <2>4. QED
    BY <2>3, AnyJob
<1>3. CASE CancelCommitted
  <2>0. PICK j \in Jobs : j = tx.job
    BY <1>0
  <2>1. tx.row.cancel = TRUE
    BY <1>3 DEF CancelCommitted, AskInv, TypeOK, Writes, Rows
  <2>2. CASE db[tx.job].state = "QUEUED" /\ tx.row.state = "CANCELLED"
    <3>1. Lifecycle!CancelQueued(j)
      BY <1>0, <2>0, <1>3, <2>1, <2>2, CommitMaps
      DEF CancelCommitted, os, Lifecycle!CancelQueued, Lifecycle!Become
    <3>2. QED
      BY <3>1, AnyJob
  <2>3. CASE db[tx.job].state \in Active /\ tx.row.state = db[tx.job].state
    <3>1. Lifecycle!RequestCancel(j)
      BY <1>0, <2>0, <1>3, <2>1, <2>3, CommitMaps, SameState
      DEF CancelCommitted, os, Lifecycle!RequestCancel, Lifecycle!Active, Active
    <3>2. QED
      BY <3>1, AnyJob
  <2>4. QED
    BY <1>3, <2>2, <2>3 DEF CancelCommitted, IInv, TxInv
<1>4. CASE DispatchCommitted
  <2>0. PICK j \in Jobs : j = job
    BY <1>0
  <2>1. /\ tx.by = "worker" /\ tx.job = job
        /\ db[job].state = "QUEUED" /\ tx.row.state = "STARTING"
        /\ CommitRow /\ UNCHANGED launches /\ pc = "dispatching"
    BY <1>4 DEF DispatchCommitted, WriteDone, os, IInv, TxInv, Writing
  <2>2. /\ \A k \in Jobs : db[k].state \notin Active
        /\ \A k \in Jobs : k < job => db[k].state # "QUEUED"
    BY <2>1 DEF IInv, ActiveInv, OrderInv
  <2>3. tx.row.cancel = db[tx.job].cancel
    BY <2>1 DEF AskInv
  <2>4. Lifecycle!Start(j)
    BY <1>0, <2>0, <2>1, <2>2, <2>3, CommitMaps, SameFlag
    DEF Lifecycle!Start, Lifecycle!Become, Lifecycle!Active, Active
  <2>5. QED
    BY <2>4, AnyJob
<1>5. CASE RecordCommitted
  <2>0. PICK j \in Jobs : j = job
    BY <1>0
  <2>1. /\ tx.by = "worker" /\ tx.job = job
        /\ tx.row.state = "RUNNING"
        /\ CommitRow /\ UNCHANGED launches /\ pc = "recording"
    BY <1>5 DEF RecordCommitted, WriteDone, os, IInv, TxInv, Writing
  <2>2. db[job].state = "STARTING" /\ launches[job] = 1
    BY <2>1 DEF IInv, ActiveInv, EndInv
  <2>3. tx.row.cancel = db[tx.job].cancel
    BY <2>1 DEF AskInv
  <2>4. Lifecycle!Run(j)
    BY <1>0, <2>0, <2>1, <2>2, <2>3, CommitMaps, SameFlag
    DEF Lifecycle!Run, Lifecycle!Become
  <2>5. QED
    BY <2>4, AnyJob
<1>6. CASE FinishCommitted
  <2>0. PICK j \in Jobs : j = job
    BY <1>0
  <2>1. /\ tx.by = "worker" /\ tx.job = job
        /\ tx.row.state \in Terminal
        /\ CommitRow /\ UNCHANGED launches /\ pc = "finishing"
    BY <1>6 DEF FinishCommitted, WriteDone, os, IInv, TxInv, Writing
  <2>2. /\ db[job].state \in Active
        /\ tx.row.state = "COMPLETED" => db[job].state = "RUNNING"
        /\ tx.row.state = "CANCELLED" => db[job].cancel
    BY <2>1 DEF IInv, ActiveInv, EndInv, Justified, Executing
  <2>3. tx.row.cancel = db[tx.job].cancel
    BY <2>1 DEF AskInv
  <2>4. PICK s : s = tx.row.state
    OBVIOUS
  <2>5. Lifecycle!End(j, s)
    BY <1>0, <2>0, <2>1, <2>2, <2>3, <2>4, CommitMaps, SameFlag
    DEF Lifecycle!End, Lifecycle!Become, Lifecycle!Active, Lifecycle!Terminal,
        Active, Terminal
  <2>6. s \in Lifecycle!Terminal
    BY <2>1, <2>4 DEF Lifecycle!Terminal, Terminal
  <2>7. QED
    BY <2>5, <2>6, AnyJob
<1>7. CASE Launch
  <2>0. PICK j \in Jobs : j = job
    BY <1>0
  <2>1. /\ db[job].state = "STARTING" /\ launches[job] = 0
        /\ UNCHANGED db /\ launches' = [launches EXCEPT ![job] = @ + 1]
    BY <1>7 DEF Launch, disk, IInv, ActiveInv, LaunchInv, BeforeLaunch
  <2>2. Lifecycle!Launch(j)
    BY <1>0, <2>0, <2>1 DEF Lifecycle!Launch, TypeOK
  <2>3. QED
    BY <2>2, AnyJob
<1>8. QED
  BY <1>1, <1>2, <1>3, <1>4, <1>5, <1>6, <1>7, OtherSteps

\* The engine implements the promise of JobLifecycle.
THEOREM Implements == Spec => ImplementsLifecycle
<1>1. Init => Lifecycle!Init
  BY DEF Init, Lifecycle!Init, NoRow
<1>2. QED
  BY <1>1, RefStep, RefInvHolds, PTL DEF Spec, ImplementsLifecycle, Lifecycle!Spec

-----------------------------------------------------------------------------
(* What the promise is good for: the order in which jobs are served.       *)

\* No job is launched while an older one waits or is active: the older ones
\* have ended, or were never accepted (engine.py _run, ORDER BY created_at).
FirstComeFirstServed ==
  \A i, j \in Jobs : i < j /\ launches[j] # 0 =>
    db[i].state \in Terminal \cup {"ABSENT"}

\* What JobLifecycle promises of the order, in its own steps.
PromiseInv ==
  /\ launches \in [Jobs -> Nat]
  /\ \A j \in Jobs : db[j].state \in States
  /\ \A i, j \in Jobs :
       db[i].state \in Active /\ db[j].state \in Active => i = j
  /\ \A j \in Jobs : db[j].state \in {"ABSENT", "QUEUED"} => launches[j] = 0
  /\ \A i, j \in Jobs : i < j /\ db[j].state \in Active =>
       db[i].state \in Terminal \cup {"ABSENT"}
  /\ FirstComeFirstServed

\* Job j alone takes a new state.
Moves(j, s) ==
  \A i \in Jobs : db'[i].state = IF i = j THEN s ELSE db[i].state

\* What an action of JobLifecycle says of the state of each job.
LEMMA BecomeState ==
  ASSUME NEW j \in Jobs, NEW s, Lifecycle!Become(j, s)
  PROVE  Moves(j, s)
<1> DEFINE now == [i \in Jobs |-> db'[i].state]
<1>1. now = [[i \in Jobs |-> db[i].state] EXCEPT ![j] = s]
  BY DEF Lifecycle!Become
<1>2. \A i \in Jobs : now[i] = IF i = j THEN s ELSE db[i].state
  BY <1>1
<1> QED
  BY <1>2 DEF Moves

\* The order follows from the promise alone.
LEMMA PromiseServes == Lifecycle!Spec => []PromiseInv
<1>1. Lifecycle!Init => PromiseInv
  <2> SUFFICES ASSUME Lifecycle!Init PROVE PromiseInv
    OBVIOUS
  <2>1. \A j \in Jobs : [i \in Jobs |-> db[i].state][j] = "ABSENT"
    BY DEF Lifecycle!Init
  <2>2. \A j \in Jobs : db[j].state = "ABSENT"
    BY <2>1
  <2>3. launches \in [Jobs -> Nat] /\ \A j \in Jobs : launches[j] = 0
    BY DEF Lifecycle!Init
  <2> QED
    BY <2>2, <2>3 DEF PromiseInv, FirstComeFirstServed, Active, States
<1>2. PromiseInv /\ [Lifecycle!Next]_(Lifecycle!vars) => PromiseInv'
  <2> SUFFICES ASSUME PromiseInv, [Lifecycle!Next]_(Lifecycle!vars)
               PROVE  PromiseInv'
    OBVIOUS
  <2> USE DEF PromiseInv, FirstComeFirstServed, Active, Terminal, States, Moves
  <2>0. Jobs \subseteq Nat
    BY DEF Jobs
  <2>1. ASSUME NEW j \in Jobs, Lifecycle!Accept(j) PROVE PromiseInv'
    <3>1. /\ Moves(j, "QUEUED")
          /\ UNCHANGED launches /\ db[j].state = "ABSENT"
          /\ \A i \in Jobs : i > j => db[i].state = "ABSENT"
      BY <2>1, BecomeState DEF Lifecycle!Accept
    <3> QED
      BY <2>0, <3>1
  <2>2. ASSUME NEW j \in Jobs, Lifecycle!Start(j) PROVE PromiseInv'
    <3>1. /\ Moves(j, "STARTING")
          /\ UNCHANGED launches /\ db[j].state = "QUEUED"
          /\ \A i \in Jobs : /\ db[i].state \notin Active
                             /\ i < j => db[i].state # "QUEUED"
      BY <2>2, BecomeState DEF Lifecycle!Start, Lifecycle!Active
    <3> QED
      BY <2>0, <3>1
  <2>3. ASSUME NEW j \in Jobs, Lifecycle!Launch(j) PROVE PromiseInv'
    <3>1. /\ [i \in Jobs |-> db[i].state]' = [i \in Jobs |-> db[i].state]
          /\ launches' = [launches EXCEPT ![j] = 1] /\ db[j].state = "STARTING"
      BY <2>3 DEF Lifecycle!Launch
    <3>2. \A i \in Jobs : db'[i].state = db[i].state
      BY <3>1
    <3> QED
      BY <2>0, <3>1, <3>2
  <2>4. ASSUME NEW j \in Jobs, Lifecycle!Run(j) PROVE PromiseInv'
    <3>1. /\ Moves(j, "RUNNING")
          /\ UNCHANGED launches /\ db[j].state = "STARTING"
      BY <2>4, BecomeState DEF Lifecycle!Run
    <3> QED
      BY <2>0, <3>1
  <2>5. ASSUME NEW j \in Jobs, NEW s \in Lifecycle!Terminal, Lifecycle!End(j, s)
        PROVE  PromiseInv'
    <3>1. /\ Moves(j, s)
          /\ UNCHANGED launches /\ s \in Terminal
      BY <2>5, BecomeState DEF Lifecycle!End, Lifecycle!Terminal
    <3> QED
      BY <2>0, <3>1
  <2>6. ASSUME NEW j \in Jobs, Lifecycle!RequestCancel(j) PROVE PromiseInv'
    <3>1. /\ [i \in Jobs |-> db[i].state]' = [i \in Jobs |-> db[i].state]
          /\ UNCHANGED launches
      BY <2>6 DEF Lifecycle!RequestCancel
    <3>2. \A i \in Jobs : db'[i].state = db[i].state
      BY <3>1
    <3> QED
      BY <3>1, <3>2
  <2>7. ASSUME NEW j \in Jobs, Lifecycle!CancelQueued(j) PROVE PromiseInv'
    <3>1. /\ Moves(j, "CANCELLED")
          /\ UNCHANGED launches
      BY <2>7, BecomeState DEF Lifecycle!CancelQueued
    <3> QED
      BY <2>0, <3>1
  <2>8. CASE UNCHANGED Lifecycle!vars
    <3>1. /\ [i \in Jobs |-> db[i].state]' = [i \in Jobs |-> db[i].state]
          /\ UNCHANGED launches
      BY <2>8 DEF Lifecycle!vars
    <3>2. \A i \in Jobs : db'[i].state = db[i].state
      BY <3>1
    <3> QED
      BY <3>1, <3>2
  <2> QED
    BY <2>1, <2>2, <2>3, <2>4, <2>5, <2>6, <2>7, <2>8 DEF Lifecycle!Next
<1> QED
  BY <1>1, <1>2, PTL DEF Lifecycle!Spec

\* Jobs are served in the order of their acceptance, through every failure,
\* crash and restart, because the engine keeps the promise.
THEOREM InOrder == Spec => []FirstComeFirstServed
<1>1. PromiseInv => FirstComeFirstServed
  BY DEF PromiseInv
<1> QED
  BY <1>1, Implements, PromiseServes, PTL DEF ImplementsLifecycle
=============================================================================

------------------------ MODULE FabricWorkloadProofs ------------------------
(***************************************************************************)
(* Workloads and the GPU under Windows Job Objects, for every value of the *)
(* constants: processes of two jobs are never alive together, and a GPU    *)
(* workload outlives its hold on the lease only in a worker that stops.    *)
(* Under either containment: what the recorded outcome of a job says of    *)
(* its workload and of its export is true, and the root process a terminal *)
(* row records is dead unless the row says otherwise.                      *)
(***************************************************************************)
EXTENDS FabricEngineProofs

-----------------------------------------------------------------------------
(* The invariant behind both.                                              *)

\* The phases in which a worker that is well may have a workload alive, and
\* those it passes after a cleanup that could not be verified.
Hosting == {"record", "recording", "running", "post", "cleanup"}
Winding == {"release", "collect", "export", "finish", "finishing", "idle",
            "dead"}

\* The phases in which a GPU job has taken the lease.
Reserved == {"prepare", "spawn", "launch", "record", "recording", "running",
             "post"}

\* Live processes belong to the job the scheduler executes, and past its
\* cleanup only while the worker stops.
TreeInv == /\ tree \subseteq {job}
           /\ tree # {} => /\ mode = "serve"
                           /\ pc \in Hosting \/ (stop /\ pc \in Winding)

\* A write never changes what a job asks for.
SpecInv == tx.by \in {"cancel", "worker"} => tx.row.spec = db[tx.job].spec

\* From the lease to the end of its cleanup a GPU job holds the lease.
HoldInv == /\ pc \in Reserved /\ NeedsGpu(job) => lease = "job"
           /\ pc = "cleanup" /\ tree # {} /\ NeedsGpu(job) => lease = "job"

WorkInv == KillOnClose => TreeInv /\ SpecInv /\ HoldInv

\* The specification field of the rows the engine writes.
LEMMA RowSpecs ==
  ASSUME NEW r \in Rows
  PROVE  /\ \A s : [r EXCEPT !.state = s].spec = r.spec
         /\ \A s : [r EXCEPT !.state = s, !.proc = TRUE].spec = r.spec
         /\ [r EXCEPT !.cancel = TRUE].spec = r.spec
         /\ \A s : [r EXCEPT !.state = s, !.cancel = TRUE,
                             !.code = "CANCELLED"].spec = r.spec
         /\ \A o : [r EXCEPT !.state = o.final, !.code = o.code,
                             !.experr = o.experr].spec = r.spec
BY DEF Rows

\* Every action preserves the invariant.
LEMMA WorkStep ==
  TypeOK /\ IInv /\ WorkInv /\ [Next]_vars => WorkInv'
<1> SUFFICES ASSUME TypeOK, IInv, KillOnClose, TreeInv, SpecInv, HoldInv,
                    [Next]_vars
             PROVE  (TreeInv /\ SpecInv /\ HoldInv)'
  BY DEF WorkInv
<1>1. ASSUME NEW k \in Keys, NEW s \in Specs, NEW j \in Jobs, Submit(k, s, j) PROVE (TreeInv /\ SpecInv /\ HoldInv)'
  BY <1>1 DEF Submit, WriteManifest, book, os, proc, thread, TreeInv, SpecInv,
     HoldInv, NeedsGpu, Hosting, Winding, Reserved
<1>2. ASSUME NEW k \in Keys, NEW s \in Specs, SubmitAgain(k, s) PROVE (TreeInv /\ SpecInv /\ HoldInv)'
  BY <1>2 DEF SubmitAgain, disk, os, proc, thread, TreeInv, SpecInv, HoldInv,
     NeedsGpu, Hosting, Winding, Reserved
<1>3. ASSUME NEW j \in Jobs, Cancel(j) PROVE (TreeInv /\ SpecInv /\ HoldInv)'
  <2>1. CancelRow(j).spec = db[j].spec
    BY RowSpecs DEF TypeOK, CancelRow
  <2>2. TreeInv'
    BY <1>3, <2>1 DEF Cancel, Update, WriteManifest, book, os, proc, thread,
       TreeInv, SpecInv, HoldInv, NeedsGpu, Hosting, Winding, Reserved
  <2>3. SpecInv'
    BY <1>3, <2>1 DEF Cancel, Update, WriteManifest, book, os, proc, thread,
       TreeInv, SpecInv, HoldInv, NeedsGpu, Hosting, Winding, Reserved
  <2>4. HoldInv'
    BY <1>3, <2>1 DEF Cancel, Update, WriteManifest, book, os, proc, thread,
       TreeInv, SpecInv, HoldInv, NeedsGpu, Hosting, Winding, Reserved
  <2>5. QED BY <2>2, <2>3, <2>4
<1>4. ASSUME SubmitCommitted PROVE (TreeInv /\ SpecInv /\ HoldInv)'
  <2>1. tx.job \in Jobs /\ db \in [Jobs -> Rows]
    BY DEF TypeOK, Writes
  <2>2. \A i \in Jobs : db'[i] = IF i = tx.job THEN tx.row ELSE db[i]
    BY <1>4, <2>1 DEF SubmitCommitted, CommitRow
  <2>3. job \in Jobs
    BY DEF TypeOK
  <2>4. pc \in Executing => job # tx.job
    BY <1>4 DEF SubmitCommitted, IInv, TxInv, ActiveInv, Active
  <2>5. TreeInv'
    BY <1>4, <2>1, <2>2, <2>3, <2>4 DEF SubmitCommitted, CommitRow, os, proc,
       thread, NoTx, Executing, Timed, BeforeLaunch, TreeInv, SpecInv,
       HoldInv, NeedsGpu, Hosting, Winding, Reserved
  <2>6. SpecInv'
    BY <1>4, <2>1, <2>2, <2>3, <2>4 DEF SubmitCommitted, CommitRow, os, proc,
       thread, NoTx, Executing, Timed, BeforeLaunch, TreeInv, SpecInv,
       HoldInv, NeedsGpu, Hosting, Winding, Reserved
  <2>7. HoldInv'
    BY <1>4, <2>1, <2>2, <2>3, <2>4 DEF SubmitCommitted, CommitRow, os, proc,
       thread, NoTx, Executing, Timed, BeforeLaunch, TreeInv, SpecInv,
       HoldInv, NeedsGpu, Hosting, Winding, Reserved
  <2>8. QED BY <2>5, <2>6, <2>7
<1>5. ASSUME CancelCommitted PROVE (TreeInv /\ SpecInv /\ HoldInv)'
  <2>1. TreeInv'
    BY <1>5 DEF CancelCommitted, CommitRow, book, os, proc, thread, NoTx,
       TreeInv, SpecInv, HoldInv, NeedsGpu, Hosting, Winding, Reserved
  <2>2. SpecInv'
    BY <1>5 DEF CancelCommitted, CommitRow, book, os, proc, thread, NoTx,
       TreeInv, SpecInv, HoldInv, NeedsGpu, Hosting, Winding, Reserved
  <2>3. HoldInv'
    BY <1>5 DEF CancelCommitted, CommitRow, book, os, proc, thread, NoTx,
       TreeInv, SpecInv, HoldInv, NeedsGpu, Hosting, Winding, Reserved
  <2>4. QED BY <2>1, <2>2, <2>3
<1>6. ASSUME CancelExported PROVE (TreeInv /\ SpecInv /\ HoldInv)'
  BY <1>6 DEF CancelExported, book, os, proc, thread, NoTx, TreeInv, SpecInv,
     HoldInv, NeedsGpu, Hosting, Winding, Reserved
<1>7. ASSUME NEW j \in Jobs, RecoverManifest(j) PROVE (TreeInv /\ SpecInv /\ HoldInv)'
  BY <1>7 DEF RecoverManifest, book, os, thread, TreeInv, SpecInv, HoldInv,
     NeedsGpu, Hosting, Winding, Reserved
<1>8. ASSUME NEW j \in Jobs, RecoverActive(j) PROVE (TreeInv /\ SpecInv /\ HoldInv)'
  <2>1. tree = {}
    BY <1>8 DEF RecoverActive, RecoverNext, TreeInv, Hosting, Winding
  <2>2. TreeInv'
    BY <1>8, <2>1 DEF RecoverActive, book, disk, proc, TreeInv, SpecInv,
       HoldInv, NeedsGpu, Hosting, Winding, Reserved
  <2>3. SpecInv'
    BY <1>8, <2>1 DEF RecoverActive, book, disk, proc, TreeInv, SpecInv,
       HoldInv, NeedsGpu, Hosting, Winding, Reserved
  <2>4. HoldInv'
    BY <1>8, <2>1 DEF RecoverActive, book, disk, proc, TreeInv, SpecInv,
       HoldInv, NeedsGpu, Hosting, Winding, Reserved
  <2>5. QED BY <2>2, <2>3, <2>4
<1>9. ASSUME RecoverDone PROVE (TreeInv /\ SpecInv /\ HoldInv)'
  BY <1>9 DEF RecoverDone, book, disk, os, TreeInv, SpecInv, HoldInv,
     NeedsGpu, Hosting, Winding, Reserved
<1>10. ASSUME NEW j \in Jobs, Dispatch(j) PROVE (TreeInv /\ SpecInv /\ HoldInv)'
  <2>1. [db[j] EXCEPT !.state = "STARTING"].spec = db[j].spec
    BY RowSpecs DEF TypeOK
  <2>2. tree = {}
    BY <1>10 DEF Dispatch, TreeInv, Hosting, Winding
  <2>3. TreeInv'
    BY <1>10, <2>1, <2>2 DEF Dispatch, Update, WriteManifest, book, os, proc,
       TreeInv, SpecInv, HoldInv, NeedsGpu, Hosting, Winding, Reserved
  <2>4. SpecInv'
    BY <1>10, <2>1, <2>2 DEF Dispatch, Update, WriteManifest, book, os, proc,
       TreeInv, SpecInv, HoldInv, NeedsGpu, Hosting, Winding, Reserved
  <2>5. HoldInv'
    BY <1>10, <2>1, <2>2 DEF Dispatch, Update, WriteManifest, book, os, proc,
       TreeInv, SpecInv, HoldInv, NeedsGpu, Hosting, Winding, Reserved
  <2>6. QED BY <2>3, <2>4, <2>5
<1>11. ASSUME DispatchCommitted PROVE (TreeInv /\ SpecInv /\ HoldInv)'
  <2>1. TreeInv'
    BY <1>11 DEF DispatchCommitted, WriteDone, CommitRow, book, os, proc,
       NoTx, TreeInv, SpecInv, HoldInv, NeedsGpu, Hosting, Winding, Reserved
  <2>2. SpecInv'
    BY <1>11 DEF DispatchCommitted, WriteDone, CommitRow, book, os, proc,
       NoTx, TreeInv, SpecInv, HoldInv, NeedsGpu, Hosting, Winding, Reserved
  <2>3. HoldInv'
    BY <1>11 DEF DispatchCommitted, WriteDone, CommitRow, book, os, proc,
       NoTx, TreeInv, SpecInv, HoldInv, NeedsGpu, Hosting, Winding, Reserved
  <2>4. QED BY <2>1, <2>2, <2>3
<1>12. ASSUME SchedulerStops PROVE (TreeInv /\ SpecInv /\ HoldInv)'
  BY <1>12 DEF SchedulerStops, ThreadStep, book, disk, os, proc, TreeInv,
     SpecInv, HoldInv, NeedsGpu, Hosting, Winding, Reserved
<1>13. ASSUME IdleWait PROVE (TreeInv /\ SpecInv /\ HoldInv)'
  BY <1>13 DEF IdleWait, book, disk, os, proc, thread, vars, TreeInv, SpecInv,
     HoldInv, NeedsGpu, Hosting, Winding, Reserved
<1>14. ASSUME CheckRaises PROVE (TreeInv /\ SpecInv /\ HoldInv)'
  BY <1>14 DEF CheckRaises, ThreadStep, book, disk, os, proc, TreeInv,
     SpecInv, HoldInv, NeedsGpu, Hosting, Winding, Reserved
<1>15. ASSUME Enter PROVE (TreeInv /\ SpecInv /\ HoldInv)'
  BY <1>15 DEF Enter, ThreadStep, book, disk, os, proc, TreeInv, SpecInv,
     HoldInv, NeedsGpu, Hosting, Winding, Reserved
<1>16. ASSUME AcquireLease PROVE (TreeInv /\ SpecInv /\ HoldInv)'
  BY <1>16 DEF AcquireLease, book, disk, proc, TreeInv, SpecInv, HoldInv,
     NeedsGpu, Hosting, Winding, Reserved
<1>17. ASSUME LeaseBusy PROVE (TreeInv /\ SpecInv /\ HoldInv)'
  BY <1>17 DEF LeaseBusy, ThreadStep, book, disk, os, proc, TreeInv, SpecInv,
     HoldInv, NeedsGpu, Hosting, Winding, Reserved
<1>18. ASSUME Prepare PROVE (TreeInv /\ SpecInv /\ HoldInv)'
  BY <1>18 DEF Prepare, ThreadStep, book, disk, os, proc, TreeInv, SpecInv,
     HoldInv, NeedsGpu, Hosting, Winding, Reserved
<1>19. ASSUME LastCheck PROVE (TreeInv /\ SpecInv /\ HoldInv)'
  BY <1>19 DEF LastCheck, ThreadStep, book, disk, os, proc, TreeInv, SpecInv,
     HoldInv, NeedsGpu, Hosting, Winding, Reserved
<1>20. ASSUME Launch PROVE (TreeInv /\ SpecInv /\ HoldInv)'
  <2>1. tree = {}
    BY <1>20 DEF Launch, TreeInv, Hosting, Winding
  <2>2. mode = "serve"
    BY <1>20 DEF Launch, TypeOK, IInv, PlaceInv
  <2>3. TreeInv'
    BY <1>20, <2>1, <2>2 DEF Launch, book, disk, proc, TreeInv, SpecInv,
       HoldInv, NeedsGpu, Hosting, Winding, Reserved
  <2>4. SpecInv'
    BY <1>20, <2>1, <2>2 DEF Launch, book, disk, proc, TreeInv, SpecInv,
       HoldInv, NeedsGpu, Hosting, Winding, Reserved
  <2>5. HoldInv'
    BY <1>20, <2>1, <2>2 DEF Launch, book, disk, proc, TreeInv, SpecInv,
       HoldInv, NeedsGpu, Hosting, Winding, Reserved
  <2>6. QED BY <2>3, <2>4, <2>5
<1>21. ASSUME LaunchFails PROVE (TreeInv /\ SpecInv /\ HoldInv)'
  BY <1>21 DEF LaunchFails, ThreadStep, book, disk, os, proc, TreeInv,
     SpecInv, HoldInv, NeedsGpu, Hosting, Winding, Reserved
<1>22. ASSUME Record PROVE (TreeInv /\ SpecInv /\ HoldInv)'
  <2>1. [db[job] EXCEPT !.state = "RUNNING", !.proc = TRUE].spec = db[job].spec
    BY RowSpecs DEF TypeOK
  <2>2. TreeInv'
    BY <1>22, <2>1 DEF Record, Update, WriteManifest, book, os, proc, TreeInv,
       SpecInv, HoldInv, NeedsGpu, Hosting, Winding, Reserved
  <2>3. SpecInv'
    BY <1>22, <2>1 DEF Record, Update, WriteManifest, book, os, proc, TreeInv,
       SpecInv, HoldInv, NeedsGpu, Hosting, Winding, Reserved
  <2>4. HoldInv'
    BY <1>22, <2>1 DEF Record, Update, WriteManifest, book, os, proc, TreeInv,
       SpecInv, HoldInv, NeedsGpu, Hosting, Winding, Reserved
  <2>5. QED BY <2>2, <2>3, <2>4
<1>23. ASSUME RecordCommitted PROVE (TreeInv /\ SpecInv /\ HoldInv)'
  <2>1. tx.job \in Jobs /\ db \in [Jobs -> Rows]
    BY DEF TypeOK, Writes
  <2>2. \A i \in Jobs : db'[i] = IF i = tx.job THEN tx.row ELSE db[i]
    BY <1>23, <2>1 DEF RecordCommitted, CommitRow, WriteDone
  <2>3. job \in Jobs
    BY DEF TypeOK
  <2>4. tx.row.spec = db[tx.job].spec
    BY <1>23 DEF RecordCommitted, WriteDone, SpecInv, IInv, TxInv, Writing
  <2>5. TreeInv'
    BY <1>23, <2>1, <2>2, <2>3, <2>4 DEF RecordCommitted, WriteDone,
       CommitRow, book, os, proc, NoTx, TreeInv, SpecInv, HoldInv, NeedsGpu,
       Hosting, Winding, Reserved
  <2>6. SpecInv'
    BY <1>23, <2>1, <2>2, <2>3, <2>4 DEF RecordCommitted, WriteDone,
       CommitRow, book, os, proc, NoTx, TreeInv, SpecInv, HoldInv, NeedsGpu,
       Hosting, Winding, Reserved
  <2>7. HoldInv'
    BY <1>23, <2>1, <2>2, <2>3, <2>4 DEF RecordCommitted, WriteDone,
       CommitRow, book, os, proc, NoTx, TreeInv, SpecInv, HoldInv, NeedsGpu,
       Hosting, Winding, Reserved
  <2>8. QED BY <2>5, <2>6, <2>7
<1>24. ASSUME SeesExit PROVE (TreeInv /\ SpecInv /\ HoldInv)'
  BY <1>24 DEF SeesExit, ThreadStep, book, disk, os, proc, TreeInv, SpecInv,
     HoldInv, NeedsGpu, Hosting, Winding, Reserved
<1>25. ASSUME JudgeExit PROVE (TreeInv /\ SpecInv /\ HoldInv)'
  BY <1>25 DEF JudgeExit, ThreadStep, book, disk, os, proc, TreeInv, SpecInv,
     HoldInv, NeedsGpu, Hosting, Winding, Reserved
<1>26. ASSUME Cleanup PROVE (TreeInv /\ SpecInv /\ HoldInv)'
  BY <1>26 DEF Cleanup, WithoutTree, book, disk, proc, TreeInv, SpecInv,
     HoldInv, NeedsGpu, Hosting, Winding, Reserved
<1>27. ASSUME ReleaseLease PROVE (TreeInv /\ SpecInv /\ HoldInv)'
  BY <1>27 DEF ReleaseLease, book, disk, proc, TreeInv, SpecInv, HoldInv,
     NeedsGpu, Hosting, Winding, Reserved
<1>28. ASSUME CollectArtifacts PROVE (TreeInv /\ SpecInv /\ HoldInv)'
  BY <1>28 DEF CollectArtifacts, ThreadStep, book, disk, os, proc, TreeInv,
     SpecInv, HoldInv, NeedsGpu, Hosting, Winding, Reserved
<1>29. ASSUME Export PROVE (TreeInv /\ SpecInv /\ HoldInv)'
  BY <1>29 DEF Export, book, os, proc, TreeInv, SpecInv, HoldInv, NeedsGpu,
     Hosting, Winding, Reserved
<1>30. ASSUME Finish PROVE (TreeInv /\ SpecInv /\ HoldInv)'
  <2>1. FinalRow.spec = db[job].spec
    BY RowSpecs DEF TypeOK, FinalRow
  <2>2. TreeInv'
    BY <1>30, <2>1 DEF Finish, Update, WriteManifest, book, os, proc, TreeInv,
       SpecInv, HoldInv, NeedsGpu, Hosting, Winding, Reserved
  <2>3. SpecInv'
    BY <1>30, <2>1 DEF Finish, Update, WriteManifest, book, os, proc, TreeInv,
       SpecInv, HoldInv, NeedsGpu, Hosting, Winding, Reserved
  <2>4. HoldInv'
    BY <1>30, <2>1 DEF Finish, Update, WriteManifest, book, os, proc, TreeInv,
       SpecInv, HoldInv, NeedsGpu, Hosting, Winding, Reserved
  <2>5. QED BY <2>2, <2>3, <2>4
<1>31. ASSUME FinishCommitted PROVE (TreeInv /\ SpecInv /\ HoldInv)'
  <2>1. pc = "finishing"
    BY <1>31 DEF FinishCommitted, WriteDone, CommitRow
  <2>2. tree # {} => mode = "serve" /\ stop
    BY <2>1 DEF TreeInv, Hosting
  <2>3. TreeInv'
    BY <1>31, <2>1, <2>2 DEF FinishCommitted, WriteDone, CommitRow, book, os,
       proc, NoTx, TreeInv, SpecInv, HoldInv, NeedsGpu, Hosting, Winding,
       Reserved
  <2>4. SpecInv'
    BY <1>31, <2>1, <2>2 DEF FinishCommitted, WriteDone, CommitRow, book, os,
       proc, NoTx, TreeInv, SpecInv, HoldInv, NeedsGpu, Hosting, Winding,
       Reserved
  <2>5. HoldInv'
    BY <1>31, <2>1, <2>2 DEF FinishCommitted, WriteDone, CommitRow, book, os,
       proc, NoTx, TreeInv, SpecInv, HoldInv, NeedsGpu, Hosting, Winding,
       Reserved
  <2>6. QED BY <2>3, <2>4, <2>5
<1>32. ASSUME ClientFails PROVE (TreeInv /\ SpecInv /\ HoldInv)'
  BY <1>32 DEF ClientFails, disk, os, proc, thread, NoTx, TreeInv, SpecInv,
     HoldInv, NeedsGpu, Hosting, Winding, Reserved
<1>33. ASSUME RecoverFails PROVE (TreeInv /\ SpecInv /\ HoldInv)'
  BY <1>33 DEF RecoverFails, ProcessGone, disk, proc, NoTx, TreeInv, SpecInv,
     HoldInv, NeedsGpu, Hosting, Winding, Reserved
<1>34. ASSUME DispatchFails PROVE (TreeInv /\ SpecInv /\ HoldInv)'
  BY <1>34 DEF DispatchFails, WriteFails, Fatal, disk, os, proc, NoTx,
     TreeInv, SpecInv, HoldInv, NeedsGpu, Hosting, Winding, Reserved
<1>35. ASSUME HelperCleanupFails PROVE (TreeInv /\ SpecInv /\ HoldInv)'
  BY <1>35 DEF HelperCleanupFails, Unclean, disk, os, TreeInv, SpecInv,
     HoldInv, NeedsGpu, Hosting, Winding, Reserved
<1>36. ASSUME RecordFails PROVE (TreeInv /\ SpecInv /\ HoldInv)'
  BY <1>36 DEF RecordFails, WriteFails, disk, os, proc, NoTx, TreeInv,
     SpecInv, HoldInv, NeedsGpu, Hosting, Winding, Reserved
<1>37. ASSUME CleanupFails PROVE (TreeInv /\ SpecInv /\ HoldInv)'
  BY <1>37 DEF CleanupFails, Unclean, disk, os, TreeInv, SpecInv, HoldInv,
     NeedsGpu, Hosting, Winding, Reserved
<1>38. ASSUME ReleaseFails PROVE (TreeInv /\ SpecInv /\ HoldInv)'
  BY <1>38 DEF ReleaseFails, Fatal, disk, TreeInv, SpecInv, HoldInv, NeedsGpu,
     Hosting, Winding, Reserved
<1>39. ASSUME ExportFails PROVE (TreeInv /\ SpecInv /\ HoldInv)'
  BY <1>39 DEF ExportFails, disk, os, proc, TreeInv, SpecInv, HoldInv,
     NeedsGpu, Hosting, Winding, Reserved
<1>40. ASSUME FinishFails PROVE (TreeInv /\ SpecInv /\ HoldInv)'
  BY <1>40 DEF FinishFails, WriteFails, Fatal, disk, os, proc, NoTx, TreeInv,
     SpecInv, HoldInv, NeedsGpu, Hosting, Winding, Reserved
<1>41. ASSUME RecoverFinishFails PROVE (TreeInv /\ SpecInv /\ HoldInv)'
  BY <1>41 DEF RecoverFinishFails, ProcessGone, disk, proc, NoTx, TreeInv,
     SpecInv, HoldInv, NeedsGpu, Hosting, Winding, Reserved
<1>42. ASSUME Start PROVE (TreeInv /\ SpecInv /\ HoldInv)'
  <2>1. mode = "down"
    BY <1>42 DEF Start
  <2>2. tree = {}
    BY <2>1 DEF TreeInv
  <2>3. TreeInv'
    BY <1>42, <2>1, <2>2 DEF Start, book, disk, os, TreeInv, SpecInv, HoldInv,
       NeedsGpu, Hosting, Winding, Reserved
  <2>4. SpecInv'
    BY <1>42, <2>1, <2>2 DEF Start, book, disk, os, TreeInv, SpecInv, HoldInv,
       NeedsGpu, Hosting, Winding, Reserved
  <2>5. HoldInv'
    BY <1>42, <2>1, <2>2 DEF Start, book, disk, os, TreeInv, SpecInv, HoldInv,
       NeedsGpu, Hosting, Winding, Reserved
  <2>6. QED BY <2>3, <2>4, <2>5
<1>43. ASSUME Stop PROVE (TreeInv /\ SpecInv /\ HoldInv)'
  BY <1>43 DEF Stop, disk, os, thread, TreeInv, SpecInv, HoldInv, NeedsGpu,
     Hosting, Winding, Reserved
<1>44. ASSUME Exit PROVE (TreeInv /\ SpecInv /\ HoldInv)'
  BY <1>44 DEF Exit, ProcessGone, disk, proc, NoTx, TreeInv, SpecInv, HoldInv,
     NeedsGpu, Hosting, Winding, Reserved
<1>45. ASSUME Crash PROVE (TreeInv /\ SpecInv /\ HoldInv)'
  BY <1>45 DEF Crash, ProcessGone, disk, proc, NoTx, TreeInv, SpecInv,
     HoldInv, NeedsGpu, Hosting, Winding, Reserved
<1>46. ASSUME Expire PROVE (TreeInv /\ SpecInv /\ HoldInv)'
  BY <1>46 DEF Expire, book, disk, os, proc, TreeInv, SpecInv, HoldInv,
     NeedsGpu, Hosting, Winding, Reserved
<1>47. ASSUME NEW j \in Jobs, NEW code \in {"zero", "nonzero"}, RootExits(j, code) PROVE (TreeInv /\ SpecInv /\ HoldInv)'
  BY <1>47 DEF RootExits, book, disk, proc, thread, TreeInv, SpecInv, HoldInv,
     NeedsGpu, Hosting, Winding, Reserved
<1>48. ASSUME NEW j \in Jobs, DescendantsExit(j) PROVE (TreeInv /\ SpecInv /\ HoldInv)'
  BY <1>48 DEF DescendantsExit, book, disk, proc, thread, TreeInv, SpecInv,
     HoldInv, NeedsGpu, Hosting, Winding, Reserved
<1>49. ASSUME LeaseElsewhere PROVE (TreeInv /\ SpecInv /\ HoldInv)'
  BY <1>49 DEF LeaseElsewhere, book, disk, proc, thread, TreeInv, SpecInv,
     HoldInv, NeedsGpu, Hosting, Winding, Reserved
<1>50. CASE UNCHANGED vars
  BY <1>50 DEF vars, disk, proc, thread, os, book, TreeInv, SpecInv, HoldInv,
     NeedsGpu
<1>51. ASSUME AcquireFails PROVE (TreeInv /\ SpecInv /\ HoldInv)'
  BY <1>51 DEF AcquireFails, disk, proc, TreeInv, SpecInv, HoldInv, NeedsGpu,
     Hosting, Winding, Reserved
<1>52. QED
  BY <1>1, <1>2, <1>3, <1>4, <1>5, <1>6, <1>7, <1>8, <1>9, <1>10, <1>11,
     <1>12, <1>13, <1>14, <1>15, <1>16, <1>17, <1>18, <1>19, <1>20, <1>21,
     <1>22, <1>23, <1>24, <1>25, <1>26, <1>27, <1>28, <1>29, <1>30, <1>31,
     <1>32, <1>33, <1>34, <1>35, <1>36, <1>37, <1>38, <1>39, <1>40, <1>41,
     <1>42, <1>43, <1>44, <1>45, <1>46, <1>47, <1>48, <1>49, <1>50,
     <1>51
  DEF Next, Client, ClientEnds, Recovery, Scheduler, Failures, Environment

\* The invariant holds in every reachable state.
LEMMA WorkHolds == Spec => []WorkInv
<1>1. Init => WorkInv
  BY DEF Init, WorkInv, TreeInv, SpecInv, HoldInv, NoTx, Reserved
<1>2. QED
  BY <1>1, WorkStep, IInvHolds, PTL DEF Spec

-----------------------------------------------------------------------------
(* The theorems.                                                           *)

\* With Job Objects no process of an earlier job is alive while a later job
\* has one.
THEOREM OneAtATime == Spec => []OneWorkload
<1>1. WorkInv => OneWorkload
  BY DEF WorkInv, TreeInv, OneWorkload
<1>2. QED
  BY <1>1, WorkHolds, PTL

\* With Job Objects a process of a GPU job that is alive without the lease
\* means that the worker has set _stop.
THEOREM LeaseCovers == Spec => []LeaseOutlivedOnlyWhenStopping
<1>1. WorkInv => LeaseOutlivedOnlyWhenStopping
  BY DEF WorkInv, TreeInv, HoldInv, LeaseOutlivedOnlyWhenStopping, Hosting,
     Reserved
<1>2. QED
  BY <1>1, WorkHolds, PTL

-----------------------------------------------------------------------------
(* Outcomes: the invariant behind HonestOutcome and ExportsExplained.       *)

\* A final state is deserved: success by an exit code of zero and no failure,
\* cancellation by a request; a failure says why.
Deserved(j, final, code) ==
  /\ final = "COMPLETED" => root[j] = "zero" /\ code = "none"
  /\ final = "CANCELLED" => db[j].cancel /\ code = "CANCELLED"
  /\ final = "FAILED" => code \notin {"none", "CANCELLED"}

\* The phases in which the outcome of the job is settled but not yet written.
Settled == {"cleanup", "release", "collect", "export", "finish"}

\* What the thread carries to the row, from the outcome to the commit.
CarryInv ==
  /\ pc \in Settled => Deserved(job, outcome.final, outcome.code)
  /\ pc \in {"dispatching"} \cup (Executing \ {"finish", "finishing"}) =>
       ~outcome.experr
  /\ pc = "finish" =>
       \/ metrics[job] = outcome.final
       \/ outcome.experr /\ outcome.final # "COMPLETED"
  /\ pc = "finishing" =>
       /\ Deserved(job, tx.row.state, tx.row.code)
       /\ tx.row.cancel = db[job].cancel
       /\ \/ metrics[job] = tx.row.state
          \/ tx.row.experr /\ tx.row.state # "COMPLETED"

\* What a handler's cancellation of a waiting job carries.
RequestInv ==
  /\ tx.by = "cancel" /\ tx.row.state = "CANCELLED" =>
       tx.row.cancel /\ tx.row.code = "CANCELLED"
  /\ tx.by = "cancel" => tx.row.cancel
  /\ tx.by = "exporting" => db[tx.job].state = "CANCELLED"

OutcomeInv == CarryInv /\ RequestInv /\ HonestOutcome /\ ExportsExplained

\* The failure code of the rows the engine writes over others.
LEMMA RowReasons ==
  ASSUME NEW r \in Rows
  PROVE  /\ \A s : LET new == [r EXCEPT !.state = s, !.cancel = TRUE,
                                        !.code = "CANCELLED"]
                   IN  new.code = "CANCELLED"
         /\ \A o : LET new == [r EXCEPT !.state = o.final, !.code = o.code,
                                        !.experr = o.experr]
                   IN  /\ new.state = o.final /\ new.code = o.code
                       /\ new.experr = o.experr
BY DEF Rows

\* What the two corrections of an outcome leave.
LEMMA Degraded ==
  ASSUME TypeOK, NEW c \in Codes \ {"none", "CANCELLED"},
         NEW j, Deserved(j, outcome.final, outcome.code)
  PROVE  /\ Deserved(j, Degrade(c).final, Degrade(c).code)
         /\ Degrade(c).experr = outcome.experr
         /\ LET new == [Degrade(c) EXCEPT !.experr = TRUE]
            IN  /\ Deserved(j, new.final, new.code)
                /\ new.experr /\ new.final # "COMPLETED"
<1>1. CASE outcome.code = "none"
  <2>1. Degrade(c) = [outcome EXCEPT !.final = "FAILED", !.code = c]
    BY <1>1 DEF Degrade
  <2>2. Degrade(c) \in Outcomes /\ Degrade(c).final = "FAILED"
        /\ Degrade(c).code = c /\ Degrade(c).experr = outcome.experr
    BY <2>1 DEF TypeOK, Outcomes, Terminal
  <2>3. LET new == [Degrade(c) EXCEPT !.experr = TRUE]
        IN  new.experr /\ new.final = "FAILED" /\ new.code = c
    BY <2>2 DEF Outcomes
  <2>4. QED
    BY <2>2, <2>3 DEF Deserved
<1>2. CASE outcome.code # "none"
  <2>1. Degrade(c) = outcome /\ outcome.final # "COMPLETED"
    BY <1>2 DEF Degrade, Deserved
  <2>2. LET new == [outcome EXCEPT !.experr = TRUE]
        IN  new.experr /\ new.final = outcome.final /\ new.code = outcome.code
    BY DEF TypeOK, Outcomes
  <2>3. QED
    BY <2>1, <2>2 DEF Deserved
<1>3. QED
  BY <1>1, <1>2

\* A root process that has exited with zero stays so.
ZeroKept == \A j \in Jobs : root[j] = "zero" => root'[j] = "zero"

\* Steps that leave rows, exports and launches alone.
LEMMA RowsRest ==
  ASSUME HonestOutcome, ExportsExplained, UNCHANGED <<db, metrics, launches>>,
         ZeroKept
  PROVE  (HonestOutcome /\ ExportsExplained)'
BY DEF HonestOutcome, ExportsExplained, ZeroKept

\* Steps of others leave what the thread carries alone.
LEMMA CarryRest ==
  ASSUME TypeOK, CarryInv, UNCHANGED <<db, metrics, pc, job, outcome>>,
         pc = "finishing" => UNCHANGED tx, ZeroKept
  PROVE  CarryInv'
BY DEF CarryInv, ZeroKept, Deserved, TypeOK

\* Steps that start no cancellation leave what one carries alone.
LEMMA RequestRest ==
  ASSUME RequestInv, db' = db,
         UNCHANGED tx \/ tx'.by \in {"none", "submit", "worker"}
  PROVE  RequestInv'
BY DEF RequestInv

\* The death of the worker process.
LEMMA GoneOutcome ==
  ASSUME TypeOK, OutcomeInv, ProcessGone
  PROVE  OutcomeInv'
<1> USE DEF ProcessGone, disk
<1>1. ZeroKept
  BY DEF ZeroKept
<1>2. CarryInv'
  BY DEF CarryInv, Executing, Timed, BeforeLaunch, Settled
<1>3. tx'.by = "none"
  BY DEF NoTx
<1>4. QED
  BY <1>1, <1>2, <1>3, RowsRest, RequestRest DEF OutcomeInv

\* A step of the thread between writes that leaves exports alone keeps the
\* invariant if what it carries onward is right.
LEMMA ThreadOutcome ==
  ASSUME OutcomeInv, UNCHANGED <<db, metrics, launches>>, ZeroKept,
         UNCHANGED tx \/ tx'.by \in {"none", "worker"}, CarryInv'
  PROVE  OutcomeInv'
BY RowsRest, RequestRest DEF OutcomeInv

\* Noting an outcome.
LEMMA Noted ==
  ASSUME NEW final, NEW code, Note(final, code), TypeOK
  PROVE  /\ outcome'.final = final /\ outcome'.code = code
         /\ outcome'.experr = outcome.experr
BY DEF Note, TypeOK, Outcomes

\* A failure that the thread notes on its way to the cleanup, or during it.
LEMMA NotedFailure ==
  ASSUME TypeOK, OutcomeInv, NEW code \in Codes \ {"none", "CANCELLED"},
         Note("FAILED", code), UNCHANGED <<db, metrics, launches, job>>,
         pc \in Executing \ {"finish", "finishing"},
         pc' \in Settled \ {"finish"}, UNCHANGED tx \/ tx'.by = "none",
         ZeroKept
  PROVE  OutcomeInv'
<1>1. /\ outcome'.final = "FAILED" /\ outcome'.code = code
      /\ outcome'.experr = outcome.experr
  BY Noted
<1>2. CarryInv'
  BY <1>1 DEF OutcomeInv, CarryInv, Deserved, Settled
<1>3. QED
  BY <1>2, ThreadOutcome

\* The steps of the scheduler thread.
LEMMA OutcomeScheduled ==
  ASSUME TypeOK, IInv, OutcomeInv, Scheduler PROVE OutcomeInv'
<1> USE DEF disk, proc, thread, os, book
<1>1. ASSUME UNCHANGED root PROVE ZeroKept
  BY <1>1 DEF ZeroKept
<1>2. ASSUME NEW j \in Jobs, Dispatch(j) PROVE OutcomeInv'
  <2>1. pc' = "dispatching" /\ outcome'.experr = FALSE
    BY <1>2 DEF Dispatch, FreshOutcome
  <2>2. tx'.by = "worker" /\ UNCHANGED <<db, metrics, launches, root>>
    BY <1>2 DEF Dispatch, Update, WriteManifest
  <2>3. CarryInv'
    BY <2>1 DEF CarryInv, Settled
  <2>4. QED
    BY <2>2, <2>3, <1>1, ThreadOutcome
<1>3. CASE DispatchCommitted \/ RecordCommitted
  <2>1. /\ tx.job = job /\ job \in Jobs /\ db \in [Jobs -> Rows]
        /\ tx.row.state \in Active
    BY <1>3 DEF DispatchCommitted, RecordCommitted, WriteDone, IInv, TxInv,
       Writing, TypeOK, Active
  <2>2. /\ \A i \in Jobs : db'[i] = IF i = job THEN tx.row ELSE db[i]
        /\ UNCHANGED <<metrics, launches, root, outcome, job>>
        /\ tx'.by = "none"
        /\ pc \in {"dispatching", "recording"} /\ pc' \in {"enter", "running"}
    BY <1>3, <2>1 DEF DispatchCommitted, RecordCommitted, WriteDone, CommitRow,
       NoTx
  <2>3. CarryInv'
    BY <2>2 DEF OutcomeInv, CarryInv, Settled, Executing, Timed, BeforeLaunch
  <2>4. (HonestOutcome /\ ExportsExplained)'
    BY <2>1, <2>2
    DEF OutcomeInv, HonestOutcome, ExportsExplained, Active, Terminal
  <2>5. RequestInv'
    BY <2>2 DEF RequestInv
  <2>6. QED
    BY <2>3, <2>4, <2>5 DEF OutcomeInv
<1>4. CASE SchedulerStops \/ IdleWait
  <2>1. /\ UNCHANGED <<db, metrics, launches, root, tx>>
        /\ pc' \in {"idle", "dead"}
    BY <1>4 DEF SchedulerStops, IdleWait, ThreadStep, vars
  <2>2. CarryInv'
    BY <2>1 DEF CarryInv, Settled, Executing, Timed, BeforeLaunch
  <2>3. QED
    BY <2>1, <2>2, <1>1, ThreadOutcome
<1>5. CASE CheckRaises
  <2>1. /\ UNCHANGED <<db, metrics, launches, root, tx, job>>
        /\ pc' = "cleanup"
        /\ pc \in {"enter", "prepare", "spawn", "post", "running"}
    BY <1>5 DEF CheckRaises, ThreadStep
  <2>2. job \in Jobs /\ ZeroKept
    BY <2>1, <1>1 DEF TypeOK
  <2>3. CASE ControlFailure = "CANCELLED"
    <3>1. /\ outcome'.final = "CANCELLED" /\ outcome'.code = "CANCELLED"
          /\ outcome'.experr = outcome.experr
      BY <1>5, <2>3, Noted DEF CheckRaises
    <3>2. db[job].cancel
      BY <2>3 DEF ControlFailure
    <3>3. CarryInv'
      BY <2>1, <3>1, <3>2 DEF OutcomeInv, CarryInv, Deserved, Settled,
         Executing, Timed, BeforeLaunch
    <3>4. QED
      BY <2>1, <2>2, <3>3, ThreadOutcome
  <2>4. CASE ControlFailure # "CANCELLED"
    <3>1. Note("FAILED", ControlFailure)
      BY <1>5, <2>4 DEF CheckRaises
    <3>2. ControlFailure \in Codes \ {"none", "CANCELLED"}
      BY <1>5, <2>4 DEF CheckRaises, ControlFailure, Codes
    <3>3. /\ pc \in Executing \ {"finish", "finishing"}
          /\ pc' \in Settled \ {"finish"}
      BY <2>1 DEF Executing, Timed, BeforeLaunch, Settled
    <3>4. QED
      BY <2>1, <2>2, <3>1, <3>2, <3>3, NotedFailure
  <2>5. QED
    BY <2>3, <2>4
<1>6. CASE \/ LeaseBusy \/ LaunchFails
           \/ /\ ThreadStep("prepare", "cleanup")
              /\ Note("FAILED", "PREPARATION_FAILED")
           \/ ThreadStep("post", "cleanup") /\ Note("FAILED", "PROCESS_EXIT")
  <2>1. PICK code \in {"GPU_BUSY", "COMMAND_NOT_FOUND", "PREPARATION_FAILED",
                       "PROCESS_EXIT"} : Note("FAILED", code)
    BY <1>6 DEF LeaseBusy, LaunchFails
  <2>2. /\ UNCHANGED <<db, metrics, launches, root, tx, job>>
        /\ pc \in Executing \ {"finish", "finishing"}
        /\ pc' \in Settled \ {"finish"}
    BY <1>6 DEF LeaseBusy, LaunchFails, ThreadStep, Executing, Timed,
       BeforeLaunch, Settled
  <2>3. code \in Codes \ {"none", "CANCELLED"}
    BY DEF Codes
  <2>4. QED
    BY <2>1, <2>2, <2>3, <1>1, NotedFailure
<1>7. CASE \/ Enter \/ AcquireLease \/ LastCheck \/ SeesExit
           \/ ThreadStep("prepare", "spawn") /\ UNCHANGED outcome
  <2>1. /\ UNCHANGED <<db, metrics, launches, root, tx, outcome>>
        /\ pc \in Timed /\ pc' \in Timed
    BY <1>7 DEF Enter, AcquireLease, LastCheck, SeesExit, ThreadStep, Timed,
       BeforeLaunch
  <2>2. CarryInv'
    BY <2>1 DEF OutcomeInv, CarryInv, Settled, Executing, Timed, BeforeLaunch
  <2>3. QED
    BY <2>1, <2>2, <1>1, ThreadOutcome
<1>8. CASE Launch
  <2>1. job \in Jobs /\ db[job].state \in Active /\ ~outcome.experr
    BY <1>8 DEF Launch, IInv, ActiveInv, TypeOK, OutcomeInv, CarryInv,
       Executing, Timed, BeforeLaunch
  <2>2. /\ UNCHANGED <<db, metrics, tx, outcome, job>> /\ pc' = "record"
        /\ \A i \in Jobs \ {job} : /\ root'[i] = root[i]
                                   /\ launches'[i] = launches[i]
    BY <1>8 DEF Launch, TypeOK
  <2>3. CarryInv'
    BY <2>1, <2>2 DEF CarryInv, Settled
  <2>4. (HonestOutcome /\ ExportsExplained)'
    BY <2>1, <2>2
    DEF OutcomeInv, HonestOutcome, ExportsExplained, Active, Terminal
  <2>5. QED
    BY <2>2, <2>3, <2>4, RequestRest DEF OutcomeInv
<1>9. CASE Record
  <2>1. /\ tx'.by = "worker" /\ pc = "record" /\ pc' = "recording"
        /\ UNCHANGED <<db, metrics, launches, root, outcome>>
    BY <1>9 DEF Record, Update, WriteManifest
  <2>2. CarryInv'
    BY <2>1 DEF OutcomeInv, CarryInv, Settled, Executing, Timed, BeforeLaunch
  <2>3. QED
    BY <2>1, <2>2, <1>1, ThreadOutcome
<1>10. CASE ThreadStep("post", "cleanup") /\ root[job] = "zero"
              /\ Note("COMPLETED", "none")
  <2>1. /\ outcome'.final = "COMPLETED" /\ outcome'.code = "none"
        /\ outcome'.experr = outcome.experr
    BY <1>10, Noted
  <2>2. /\ UNCHANGED <<db, metrics, launches, root, tx, job>>
        /\ pc = "post" /\ pc' = "cleanup"
    BY <1>10 DEF ThreadStep
  <2>3. CarryInv'
    BY <1>10, <2>1, <2>2 DEF OutcomeInv, CarryInv, Deserved, Settled,
       Executing, Timed, BeforeLaunch
  <2>4. QED
    BY <2>2, <2>3, <1>1, ThreadOutcome
<1>11. CASE Cleanup \/ ReleaseLease
  <2>1. ZeroKept
    BY <1>11 DEF Cleanup, ReleaseLease, ZeroKept, TypeOK
  <2>2. /\ UNCHANGED <<db, metrics, launches, tx, job, outcome>>
        /\ pc \in {"cleanup", "release"} /\ pc' \in {"release", "collect"}
    BY <1>11 DEF Cleanup, ReleaseLease
  <2>3. CarryInv'
    BY <2>1, <2>2 DEF OutcomeInv, CarryInv, Deserved, Settled, Executing,
       ZeroKept, TypeOK
  <2>4. QED
    BY <2>1, <2>2, <2>3, ThreadOutcome
<1>12. CASE CollectArtifacts
  <2>1. /\ UNCHANGED <<db, metrics, launches, root, tx, job>>
        /\ pc = "collect" /\ pc' = "export"
        /\ outcome' \in {outcome, Degrade("ARTIFACT_COLLECTION_FAILED")}
    BY <1>12 DEF CollectArtifacts, ThreadStep
  <2>2. Deserved(job, outcome.final, outcome.code) /\ ~outcome.experr
    BY <2>1 DEF OutcomeInv, CarryInv, Settled, Executing
  <2>3. /\ Deserved(job, outcome'.final, outcome'.code)
        /\ ~outcome'.experr
    BY <2>1, <2>2, Degraded DEF Codes
  <2>4. CarryInv'
    BY <2>1, <2>3 DEF CarryInv, Deserved
  <2>5. QED
    BY <2>1, <2>4, <1>1, ThreadOutcome
<1>13. CASE Export
  <2>1. /\ UNCHANGED <<db, launches, root, tx, job, outcome>>
        /\ pc = "export" /\ pc' = "finish"
        /\ metrics'[job] = outcome.final
        /\ \A i \in Jobs \ {job} : metrics'[i] = metrics[i]
    BY <1>13 DEF Export, TypeOK
  <2>2. job \in Jobs /\ db[job].state \in Active
    BY <2>1 DEF IInv, ActiveInv, TypeOK, Executing
  <2>3. CarryInv'
    BY <2>1 DEF OutcomeInv, CarryInv, Deserved, Settled
  <2>4. (HonestOutcome /\ ExportsExplained)'
    BY <2>1, <2>2
    DEF OutcomeInv, HonestOutcome, ExportsExplained, Active, Terminal
  <2>5. QED
    BY <2>1, <2>3, <2>4, RequestRest DEF OutcomeInv
<1>14. CASE Finish
  <2>1. /\ tx'.by = "worker" /\ tx'.row = FinalRow /\ pc = "finish"
        /\ pc' = "finishing"
        /\ UNCHANGED <<db, metrics, launches, root, outcome, job>>
    BY <1>14 DEF Finish, Update, WriteManifest
  <2>2. /\ FinalRow.state = outcome.final /\ FinalRow.code = outcome.code
        /\ FinalRow.experr = outcome.experr /\ FinalRow.cancel = db[job].cancel
    BY RowReasons, RowFlags DEF FinalRow, TypeOK
  <2>3. CarryInv'
    BY <2>1, <2>2 DEF OutcomeInv, CarryInv, Deserved, Settled
  <2>4. QED
    BY <2>1, <2>3, <1>1, ThreadOutcome
<1>15. CASE FinishCommitted
  <2>1. tx.job = job /\ job \in Jobs /\ db \in [Jobs -> Rows]
        /\ pc = "finishing" /\ tx.row.state \in Terminal
    BY <1>15 DEF FinishCommitted, WriteDone, IInv, TxInv, Writing, TypeOK
  <2>2. /\ \A i \in Jobs : db'[i] = IF i = job THEN tx.row ELSE db[i]
        /\ UNCHANGED <<metrics, launches, root>>
        /\ tx'.by = "none" /\ pc' \in {"idle", "recover"}
    BY <1>15, <2>1 DEF FinishCommitted, WriteDone, CommitRow, NoTx
  <2>3. /\ Deserved(job, tx.row.state, tx.row.code)
        /\ tx.row.cancel = db[job].cancel
        /\ \/ metrics[job] = tx.row.state
           \/ tx.row.experr /\ tx.row.state # "COMPLETED"
    BY <2>1 DEF OutcomeInv, CarryInv
  <2>4. CarryInv'
    BY <2>2 DEF CarryInv, Settled, Executing, Timed, BeforeLaunch
  <2>5. HonestOutcome'
    BY <2>1, <2>2, <2>3 DEF OutcomeInv, HonestOutcome, Deserved
  <2>6. ExportsExplained'
    BY <2>1, <2>2, <2>3 DEF OutcomeInv, ExportsExplained
  <2>7. RequestInv'
    BY <2>2 DEF RequestInv
  <2>8. QED
    BY <2>4, <2>5, <2>6, <2>7 DEF OutcomeInv
<1>16. QED
  BY <1>2, <1>3, <1>4, <1>5, <1>6, <1>7, <1>8, <1>9, <1>10, <1>11, <1>12,
     <1>13, <1>14, <1>15
  DEF Scheduler, Prepare, JudgeExit

\* The failures of the scheduler thread.
LEMMA OutcomeFailed ==
  ASSUME TypeOK, IInv, OutcomeInv,
         \/ DispatchFails \/ AcquireFails \/ HelperCleanupFails \/ RecordFails
         \/ CleanupFails \/ ReleaseFails \/ ExportFails \/ FinishFails
  PROVE  OutcomeInv'
<1> USE DEF disk, proc, thread, os, book
<1>1. ASSUME UNCHANGED root PROVE ZeroKept
  BY <1>1 DEF ZeroKept
<1>2. CASE DispatchFails \/ ReleaseFails \/ FinishFails
  <2>1. /\ UNCHANGED <<db, metrics, launches, root>> /\ pc' = "dead"
        /\ UNCHANGED tx \/ tx'.by = "none"
    BY <1>2 DEF DispatchFails, ReleaseFails, FinishFails, WriteFails, Fatal,
       NoTx
  <2>2. CarryInv'
    BY <2>1 DEF CarryInv, Settled, Executing, Timed, BeforeLaunch
  <2>3. QED
    BY <2>1, <2>2, <1>1, ThreadOutcome
<1>3. CASE AcquireFails \/ HelperCleanupFails \/ RecordFails \/ CleanupFails
  <2>1. PICK code \in {"PROCESS_START_FAILED", "PROCESS_CLEANUP_FAILED",
                       "WORKER_ERROR"} :
               Note("FAILED", code)
    BY <1>3 DEF AcquireFails, HelperCleanupFails, RecordFails, CleanupFails,
       Unclean
  <2>2. /\ UNCHANGED <<db, metrics, launches, root, job>>
        /\ UNCHANGED tx \/ tx'.by = "none"
        /\ pc \in Executing \ {"finish", "finishing"}
        /\ pc' \in Settled \ {"finish"}
    BY <1>3 DEF AcquireFails, HelperCleanupFails, RecordFails, CleanupFails,
       WriteFails, NoTx, Executing, Timed, BeforeLaunch, Settled
  <2>3. code \in Codes \ {"none", "CANCELLED"}
    BY DEF Codes
  <2>4. QED
    BY <2>1, <2>2, <2>3, <1>1, NotedFailure
<1>4. CASE ExportFails
  <2>1. /\ UNCHANGED <<db, metrics, launches, root, tx, job>>
        /\ pc = "export" /\ pc' = "finish"
        /\ outcome' = [Degrade("CONTRACT_EXPORT_FAILED") EXCEPT !.experr = TRUE]
    BY <1>4 DEF ExportFails
  <2>2. Deserved(job, outcome.final, outcome.code)
    BY <2>1 DEF OutcomeInv, CarryInv, Settled
  <2>3. /\ Deserved(job, outcome'.final, outcome'.code)
        /\ outcome'.experr /\ outcome'.final # "COMPLETED"
    BY <2>1, <2>2, Degraded DEF Codes
  <2>4. CarryInv'
    BY <2>1, <2>3 DEF CarryInv, Deserved
  <2>5. QED
    BY <2>1, <2>4, <1>1, ThreadOutcome
<1>5. QED
  BY <1>2, <1>3, <1>4

\* Every action preserves the invariant.
LEMMA OutcomeStep == TypeOK /\ IInv /\ OutcomeInv /\ [Next]_vars => OutcomeInv'
<1> SUFFICES ASSUME TypeOK, IInv, OutcomeInv, [Next]_vars PROVE OutcomeInv'
  OBVIOUS
<1> USE DEF vars, disk, proc, thread, os, book
<1>1. ASSUME UNCHANGED <<db, metrics, launches, job>>, ZeroKept, CarryInv',
             UNCHANGED tx \/ tx'.by \in {"none", "submit", "worker"}
      PROVE  OutcomeInv'
  BY <1>1, RowsRest, RequestRest DEF OutcomeInv
<1>2. ASSUME UNCHANGED <<db, metrics, launches, pc, job, outcome>>, ZeroKept,
             UNCHANGED tx \/ tx'.by \in {"none", "submit", "worker"},
             pc = "finishing" => UNCHANGED tx
      PROVE  OutcomeInv'
  BY <1>2, RowsRest, RequestRest, CarryRest DEF OutcomeInv
<1>3. ASSUME UNCHANGED root PROVE ZeroKept
  BY <1>3 DEF ZeroKept
<1>4. ASSUME tx.by # "worker" PROVE pc # "finishing"
  BY <1>4 DEF IInv, TxInv, Writing
<1>5. CASE UNCHANGED vars
  BY <1>5, <1>2, <1>3
<1>6. ASSUME NEW k \in Keys, NEW s \in Specs, NEW j \in Jobs, Submit(k, s, j)
      PROVE  OutcomeInv'
  <2>1. db[j].state = "ABSENT"
    BY <1>6 DEF Submit, FreshJob, IInv, ManifestNotBehind, Present, NoRow
  <2>2. /\ UNCHANGED <<db, pc, job, outcome, root, launches>>
        /\ tx.by = "none" /\ tx'.by = "submit"
        /\ \A i \in Jobs \ {j} : metrics'[i] = metrics[i]
    BY <1>6 DEF Submit, WriteManifest, LockFree, TypeOK
  <2>3. CarryInv'
    <3>1. pc \in Executing => job # j
      BY <2>1 DEF IInv, ActiveInv, Active
    <3>2. pc # "finishing" /\ job \in Jobs
      BY <2>2, <1>4 DEF TypeOK
    <3>3. QED
      BY <2>2, <3>1, <3>2
      DEF OutcomeInv, CarryInv, Deserved, Executing
  <2>4. (HonestOutcome /\ ExportsExplained)'
    BY <2>1, <2>2 DEF OutcomeInv, HonestOutcome, ExportsExplained, Terminal
  <2>5. RequestInv'
    BY <2>2, RequestRest DEF OutcomeInv
  <2>6. QED
    BY <2>3, <2>4, <2>5 DEF OutcomeInv
<1>7. ASSUME NEW k \in Keys, NEW s \in Specs, SubmitAgain(k, s)
      PROVE  OutcomeInv'
  BY <1>7, <1>2, <1>3 DEF SubmitAgain
<1>8. ASSUME NEW j \in Jobs, Cancel(j) PROVE OutcomeInv'
  <2>1. /\ CancelRow(j).cancel
        /\ CancelRow(j).state = "CANCELLED" => CancelRow(j).code = "CANCELLED"
    <3>1. CASE db[j].state = "QUEUED"
      BY <3>1, RowFlags, RowReasons DEF CancelRow, TypeOK
    <3>2. CASE db[j].state # "QUEUED"
      <4>1. db[j].state \notin Terminal
        BY <1>8 DEF Cancel, Update, UpdateAllowed, Active, Terminal
      <4>2. CancelRow(j) = [db[j] EXCEPT !.cancel = TRUE]
        BY <3>2 DEF CancelRow
      <4>3. CancelRow(j).cancel /\ CancelRow(j).state = db[j].state
        BY <4>2, RowFlags, RowStates DEF TypeOK, States, Terminal
      <4>4. QED
        BY <4>1, <4>3 DEF Terminal
    <3>3. QED
      BY <3>1, <3>2
  <2>2. /\ UNCHANGED <<db, metrics, pc, job, outcome, root, launches>>
        /\ tx.by = "none" /\ tx'.by = "cancel" /\ tx'.row = CancelRow(j)
    BY <1>8 DEF Cancel, Update, WriteManifest, LockFree
  <2>3. RequestInv'
    BY <2>1, <2>2 DEF RequestInv
  <2>4. QED
    BY <2>2, <2>3, <1>3, <1>4, RowsRest, CarryRest DEF OutcomeInv
<1>9. CASE SubmitCommitted
  <2>1. tx.job \in Jobs /\ db \in [Jobs -> Rows]
    BY DEF TypeOK, Writes
  <2>2. \A i \in Jobs : db'[i] = IF i = tx.job THEN tx.row ELSE db[i]
    BY <1>9, <2>1 DEF SubmitCommitted, CommitRow
  <2>3. /\ db[tx.job].state = "ABSENT" /\ tx.row.state = "QUEUED"
        /\ tx.by = "submit" /\ tx'.by = "none"
        /\ UNCHANGED <<metrics, pc, job, outcome, root, launches>>
    BY <1>9 DEF SubmitCommitted, IInv, TxInv, NoTx
  <2>4. pc \in Executing => job # tx.job
    BY <2>3 DEF IInv, ActiveInv, Active
  <2>5. CarryInv'
    BY <2>1, <2>2, <2>3, <2>4, <1>4
    DEF OutcomeInv, CarryInv, Deserved, Executing, Settled, TypeOK
  <2>6. (HonestOutcome /\ ExportsExplained)'
    BY <2>2, <2>3 DEF OutcomeInv, HonestOutcome, ExportsExplained, Terminal
  <2>7. RequestInv'
    BY <2>3 DEF RequestInv
  <2>8. QED
    BY <2>5, <2>6, <2>7 DEF OutcomeInv
<1>10. CASE CancelCommitted
  <2>1. tx.job \in Jobs /\ db \in [Jobs -> Rows] /\ job \in Jobs
    BY DEF TypeOK, Writes
  <2>2. \A i \in Jobs : db'[i] = IF i = tx.job THEN tx.row ELSE db[i]
    BY <1>10, <2>1 DEF CancelCommitted, CommitRow
  <2>3. /\ tx.by = "cancel" /\ tx.row.cancel
        /\ UNCHANGED <<metrics, pc, job, outcome, root, launches>>
    BY <1>10 DEF CancelCommitted, OutcomeInv, RequestInv
  <2>4. CarryInv'
    BY <2>1, <2>2, <2>3, <1>4
    DEF OutcomeInv, CarryInv, Deserved, Executing, Settled
  <2>5. \/ /\ db[tx.job].state = "QUEUED" /\ tx.row.state = "CANCELLED"
           /\ tx.row.code = "CANCELLED" /\ launches[tx.job] = 0
        \/ tx.row.state \in Active
    BY <2>1, <2>3 DEF IInv, TxInv, LaunchInv, LaunchedAtMostOnce, OutcomeInv,
       RequestInv
  <2>6. HonestOutcome'
    BY <2>2, <2>3, <2>5 DEF OutcomeInv, HonestOutcome, Active
  <2>7. ExportsExplained'
    BY <2>2, <2>3, <2>5 DEF OutcomeInv, ExportsExplained, Active, Terminal
  <2>8. RequestInv'
    <3>1. CASE tx.row.state = "CANCELLED"
      <4>1. tx' = [tx EXCEPT !.by = "exporting"]
        BY <1>10, <3>1 DEF CancelCommitted
      <4>2. tx'.by = "exporting" /\ tx'.job = tx.job
        BY <4>1 DEF TypeOK, Writes
      <4>3. QED
        BY <4>2, <3>1, <2>1, <2>2 DEF RequestInv
    <3>2. CASE tx.row.state # "CANCELLED"
      BY <1>10, <3>2 DEF CancelCommitted, NoTx, RequestInv
    <3>3. QED
      BY <3>1, <3>2
  <2>9. QED
    BY <2>4, <2>6, <2>7, <2>8 DEF OutcomeInv
<1>11. CASE CancelExported
  <2>1. tx.job \in Jobs /\ db[tx.job].state = "CANCELLED"
    BY <1>11 DEF CancelExported, OutcomeInv, RequestInv, TypeOK, Writes
  <2>2. /\ UNCHANGED <<db, pc, job, outcome, root, launches>>
        /\ tx.by = "exporting" /\ tx'.by = "none"
        /\ \A i \in Jobs : metrics'[i] = IF i = tx.job THEN "CANCELLED"
                                                       ELSE metrics[i]
    BY <1>11 DEF CancelExported, NoTx, TypeOK
  <2>3. pc \in Executing => job # tx.job
    BY <2>1 DEF IInv, ActiveInv, Active
  <2>4. job \in Jobs
    BY DEF TypeOK
  <2>5. CarryInv'
    BY <2>2, <2>3, <2>4, <1>4
    DEF OutcomeInv, CarryInv, Deserved, Executing
  <2>6. (HonestOutcome /\ ExportsExplained)'
    BY <2>1, <2>2 DEF OutcomeInv, HonestOutcome, ExportsExplained
  <2>7. RequestInv'
    BY <2>2 DEF RequestInv
  <2>8. QED
    BY <2>5, <2>6, <2>7 DEF OutcomeInv
<1>12. CASE Crash \/ Exit \/ RecoverFails \/ RecoverFinishFails
  BY <1>12, GoneOutcome DEF Crash, Exit, RecoverFails, RecoverFinishFails
<1>13. CASE Start \/ RecoverDone
  <2>1. CarryInv'
    BY <1>13 DEF Start, RecoverDone, CarryInv, Executing, Timed, BeforeLaunch,
       Settled
  <2>2. QED
    BY <1>13, <2>1, <1>1, <1>3 DEF Start, RecoverDone
<1>14. CASE Stop \/ \E j \in Jobs : RecoverManifest(j)
  BY <1>14, <1>2, <1>3 DEF Stop, RecoverManifest
<1>15. ASSUME NEW j \in Jobs, RecoverActive(j) PROVE OutcomeInv'
  <2>1. outcome'.final = "FAILED" /\ outcome'.code = "WORKER_INTERRUPTED"
        /\ outcome'.experr = FALSE
    BY <1>15 DEF RecoverActive, FreshOutcome
  <2>2. CarryInv'
    BY <1>15, <2>1 DEF RecoverActive, CarryInv, Deserved
  <2>3. ZeroKept /\ UNCHANGED <<db, metrics, launches, tx>>
    BY <1>15 DEF RecoverActive, SurvivorKnown, ZeroKept, TypeOK
  <2>4. QED
    BY <2>2, <2>3, RowsRest, RequestRest DEF OutcomeInv
<1>16. CASE Environment
  <2>1. ZeroKept
    BY <1>16 DEF Environment, Expire, RootExits, DescendantsExit,
       LeaseElsewhere, ZeroKept, TypeOK
  <2>2. QED
    BY <1>16, <2>1, <1>2 DEF Environment, Expire, RootExits, DescendantsExit,
       LeaseElsewhere
<1>17. CASE ClientFails
  BY <1>17, <1>2, <1>3, <1>4 DEF ClientFails, NoTx
<1>18. CASE Scheduler
  BY <1>18, OutcomeScheduled
<1>19. CASE \/ DispatchFails \/ AcquireFails \/ HelperCleanupFails
            \/ RecordFails \/ CleanupFails \/ ReleaseFails \/ ExportFails \/ FinishFails
  BY <1>19, OutcomeFailed
<1>20. QED
  BY <1>5, <1>6, <1>7, <1>8, <1>9, <1>10, <1>11, <1>12, <1>13, <1>14, <1>15,
     <1>16, <1>17, <1>18, <1>19
  DEF Next, Client, ClientEnds, Recovery, Failures

\* The invariant holds in every reachable state.
LEMMA OutcomeHolds == Spec => []OutcomeInv
<1>1. Init => OutcomeInv
  BY DEF Init, OutcomeInv, CarryInv, RequestInv, HonestOutcome,
     ExportsExplained, Settled, Executing, Timed, BeforeLaunch, NoTx, NoRow,
     Terminal
<1>2. QED
  BY <1>1, OutcomeStep, IInvHolds, PTL DEF Spec

\* What the outcome recorded at the end of a run means: COMPLETED that the
\* root process exited with zero, nothing failed after it and the export says
\* so; CANCELLED that it was asked for; FAILED always has a reason.
THEOREM OutcomesHonest == Spec => []HonestOutcome
<1>1. OutcomeInv => HonestOutcome
  BY DEF OutcomeInv
<1>2. QED
  BY <1>1, OutcomeHolds, PTL

\* metrics.json of a terminal job disagrees with the row only for a reason
\* the row shows.
THEOREM ExportsJustified == Spec => []ExportsExplained
<1>1. OutcomeInv => ExportsExplained
  BY DEF OutcomeInv
<1>2. QED
  BY <1>1, OutcomeHolds, PTL

-----------------------------------------------------------------------------
(* Processes: the invariant behind SurvivorsExplained.                     *)

\* The phases after the cleanup of the executing job.
Cleaned == {"release", "collect", "export", "finish"}

\* A code that accounts for a process of job j that is alive past the cleanup.
Explains(code, j, recorded) ==
  \/ code = "PROCESS_CLEANUP_FAILED"
  \/ code = "WORKER_INTERRUPTED" /\ ~(recorded /\ root[j] = "live")

\* A process that survives the cleanup of its job is accounted for by the
\* outcome, up to the commit of the row.
FateInv ==
  /\ pc \in Cleaned /\ job \in tree =>
       Explains(outcome.code, job, db[job].proc)
  /\ pc = "finishing" /\ job \in tree =>
       Explains(tx.row.code, job, tx.row.proc)
  /\ tx.by = "cancel" => tx.row.proc = db[tx.job].proc

SurvivorInv == /\ FateInv
               /\ \A j \in tree : launches[j] # 0
               /\ SurvivorsExplained

\* The record of the process in the rows the engine writes over others.
LEMMA RowProcs ==
  ASSUME NEW r \in Rows
  PROVE  /\ [r EXCEPT !.cancel = TRUE].proc = r.proc
         /\ \A s : [r EXCEPT !.state = s, !.cancel = TRUE,
                             !.code = "CANCELLED"].proc = r.proc
         /\ \A o : LET new == [r EXCEPT !.state = o.final, !.code = o.code,
                                        !.experr = o.experr]
                   IN  new.proc = r.proc /\ new.code = o.code
BY DEF Rows

\* Processes end, and none is created.
ProcessesOnlyEnd == /\ tree' \subseteq tree
                    /\ \A j \in Jobs : root'[j] = "live" => root[j] = "live"

\* Steps that write no row and launch nothing.
LEMMA SurvivorRest ==
  ASSUME TypeOK, SurvivorInv, UNCHANGED <<db, launches>>, ProcessesOnlyEnd,
         FateInv'
  PROVE  SurvivorInv'
BY DEF TypeOK, SurvivorInv, ProcessesOnlyEnd, SurvivorsExplained

\* Steps of others, which leave what the thread carries alone.
LEMMA FateRest ==
  ASSUME TypeOK, SurvivorInv, UNCHANGED <<db, launches, pc, job, outcome>>,
         ProcessesOnlyEnd, pc = "finishing" => UNCHANGED tx,
         UNCHANGED tx \/ tx'.by \in {"none", "submit", "exporting"}
  PROVE  SurvivorInv'
<1>1. FateInv'
  BY DEF SurvivorInv, FateInv, Explains, ProcessesOnlyEnd, TypeOK
<1>2. QED
  BY <1>1, SurvivorRest

\* Steps of the thread that end in a phase where nothing is carried.
LEMMA FateNone ==
  ASSUME TypeOK, SurvivorInv, UNCHANGED <<db, launches>>, ProcessesOnlyEnd,
         pc' \notin Cleaned \cup {"finishing"},
         UNCHANGED tx \/ tx'.by \in {"none", "worker"}
  PROVE  SurvivorInv'
<1>1. FateInv'
  BY DEF SurvivorInv, FateInv, Explains
<1>2. QED
  BY <1>1, SurvivorRest

\* Every action preserves the invariant.
LEMMA SurvivorStep ==
  TypeOK /\ IInv /\ SurvivorInv /\ [Next]_vars => SurvivorInv'
<1> SUFFICES ASSUME TypeOK, IInv, SurvivorInv, [Next]_vars PROVE SurvivorInv'
  OBVIOUS
<1> USE DEF vars, disk, proc, thread, os, book
<1>0. tree \subseteq Jobs
  BY DEF TypeOK
<1>1. ASSUME UNCHANGED <<root, tree>> PROVE ProcessesOnlyEnd
  BY <1>1 DEF ProcessesOnlyEnd
<1>2. ASSUME tx.by # "worker" PROVE pc # "finishing"
  BY <1>2 DEF IInv, TxInv, Writing
<1>3. CASE \/ UNCHANGED vars \/ CancelExported \/ ClientFails \/ Stop
           \/ \E k \in Keys, s \in Specs :
                \/ \E j \in Jobs : Submit(k, s, j)
                \/ SubmitAgain(k, s)
           \/ \E j \in Jobs : RecoverManifest(j)
  BY <1>3, <1>1, <1>2, FateRest
  DEF CancelExported, ClientFails, Stop, Submit, SubmitAgain, WriteManifest,
      LockFree, RecoverManifest, NoTx
<1>4. CASE Environment
  <2>1. ProcessesOnlyEnd
    BY <1>4 DEF Environment, Expire, RootExits, DescendantsExit,
       LeaseElsewhere, ProcessesOnlyEnd, TypeOK
  <2>2. QED
    BY <1>4, <2>1, FateRest DEF Environment, Expire, RootExits,
       DescendantsExit, LeaseElsewhere
<1>5. CASE Crash \/ Exit \/ RecoverFails \/ RecoverFinishFails
  <2>1. ProcessGone
    BY <1>5 DEF Crash, Exit, RecoverFails, RecoverFinishFails
  <2>2. ProcessesOnlyEnd
    BY <2>1 DEF ProcessGone, ProcessesOnlyEnd
  <2>3. QED
    BY <2>1, <2>2, FateNone DEF ProcessGone, NoTx, Cleaned
<1>6. CASE Start \/ RecoverDone
  BY <1>6, <1>1, FateNone DEF Start, RecoverDone, Cleaned
<1>7. ASSUME NEW j \in Jobs, Cancel(j) PROVE SurvivorInv'
  <2>1. CancelRow(j).proc = db[j].proc
    BY RowProcs DEF CancelRow, TypeOK
  <2>2. /\ UNCHANGED <<db, launches, root, tree, pc, job, outcome>> /\ tx.by = "none"
        /\ tx'.job = j /\ tx'.row = CancelRow(j)
    BY <1>7 DEF Cancel, Update, WriteManifest, LockFree
  <2>3. FateInv'
    BY <2>1, <2>2, <1>2 DEF SurvivorInv, FateInv, Explains
  <2>4. QED
    BY <2>2, <2>3, <1>1, SurvivorRest
<1>8. CASE SubmitCommitted \/ CancelCommitted
  <2>1. tx.job \in Jobs /\ db \in [Jobs -> Rows] /\ job \in Jobs
    BY DEF TypeOK, Writes
  <2>2. /\ \A i \in Jobs : db'[i] = IF i = tx.job THEN tx.row ELSE db[i]
        /\ UNCHANGED <<launches, root, tree, pc, job, outcome>>
    BY <1>8, <2>1 DEF SubmitCommitted, CancelCommitted, CommitRow
  <2>3. tx.by \in {"submit", "cancel"} /\ tx'.by \in {"none", "exporting"}
    BY <1>8 DEF SubmitCommitted, CancelCommitted, NoTx, TypeOK, Writes
  <2>4. CASE tx.by = "submit"
    <3>1. db[tx.job].state = "ABSENT" /\ tx.row.state = "QUEUED"
      BY <2>4 DEF IInv, TxInv
    <3>2. pc \in Cleaned => job # tx.job
      BY <3>1 DEF IInv, ActiveInv, Active, Executing, Cleaned
    <3>3. QED
      BY <1>0, <2>1, <2>2, <2>3, <3>1, <3>2, <1>2
      DEF SurvivorInv, FateInv, Explains, SurvivorsExplained, Terminal
  <2>5. CASE tx.by = "cancel"
    <3>1. tx.row.proc = db[tx.job].proc
      BY <2>5 DEF SurvivorInv, FateInv, Explains
    <3>2. FateInv'
      BY <2>1, <2>2, <2>3, <3>1, <1>2 DEF SurvivorInv, FateInv, Explains
    <3>3. tx.row.state \notin Terminal \/ tx.job \notin tree
      BY <2>1, <2>5 DEF IInv, TxInv, LaunchInv, LaunchedAtMostOnce, SurvivorInv,
         Active, Terminal
    <3>4. QED
      BY <1>0, <2>2, <3>2, <3>3 DEF SurvivorInv, SurvivorsExplained
  <2>6. QED
    BY <2>3, <2>4, <2>5
<1>9. ASSUME NEW j \in Jobs, RecoverActive(j) PROVE SurvivorInv'
  <2>1. /\ ProcessesOnlyEnd /\ UNCHANGED <<db, launches, tx>>
        /\ job' = j /\ pc' = "export"
        /\ j \in tree' => ~(db'[j].proc /\ root'[j] = "live")
        /\ outcome'.code = "WORKER_INTERRUPTED"
    BY <1>9 DEF RecoverActive, SurvivorKnown, ProcessesOnlyEnd, FreshOutcome, TypeOK
  <2>2. FateInv'
    BY <2>1 DEF SurvivorInv, FateInv, Explains
  <2>3. QED
    BY <2>1, <2>2, SurvivorRest
<1>10. CASE \/ DispatchCommitted \/ RecordCommitted
  <2>1. /\ tx.job = job /\ job \in Jobs /\ db \in [Jobs -> Rows]
        /\ tx.row.state \notin Terminal
    BY <1>10 DEF DispatchCommitted, RecordCommitted, WriteDone, IInv, TxInv,
       Writing, TypeOK, Terminal
  <2>2. /\ \A i \in Jobs : db'[i] = IF i = job THEN tx.row ELSE db[i]
        /\ UNCHANGED <<launches, root, tree>> /\ tx'.by = "none"
        /\ pc' \notin Cleaned \cup {"finishing"}
    BY <1>10, <2>1 DEF DispatchCommitted, RecordCommitted, WriteDone,
       CommitRow, NoTx, Cleaned
  <2>3. QED
    BY <1>0, <2>1, <2>2 DEF SurvivorInv, FateInv, Explains, SurvivorsExplained
<1>11. CASE Launch
  <2>1. job \in Jobs /\ db[job].state \in Active
    BY <1>11 DEF Launch, IInv, ActiveInv, TypeOK, Executing, Timed,
       BeforeLaunch
  <2>2. launches'[job] # 0
    BY <1>11, <2>1 DEF Launch, TypeOK
  <2>3. /\ UNCHANGED <<db, tx>> /\ pc' = "record"
        /\ tree' = tree \cup {job}
        /\ \A i \in Jobs \ {job} : /\ root'[i] = root[i]
                                   /\ launches'[i] = launches[i]
    BY <1>11 DEF Launch, TypeOK
  <2>4. QED
    BY <1>0, <2>1, <2>2, <2>3
    DEF SurvivorInv, FateInv, Explains, SurvivorsExplained, Cleaned, Active,
        Terminal
<1>12. CASE Cleanup
  <2>1. /\ ProcessesOnlyEnd /\ UNCHANGED <<db, launches, tx, job>>
        /\ pc' = "release" /\ job \notin tree'
    BY <1>12 DEF Cleanup, WithoutTree, ProcessesOnlyEnd, TypeOK
  <2>2. FateInv'
    BY <2>1 DEF SurvivorInv, FateInv, Explains
  <2>3. QED
    BY <2>1, <2>2, SurvivorRest
<1>13. CASE CleanupFails
  <2>1. outcome'.code = "PROCESS_CLEANUP_FAILED"
    BY <1>13, Noted DEF CleanupFails, Unclean
  <2>2. UNCHANGED <<db, launches, tx, root, tree>> /\ pc' = "release"
    BY <1>13 DEF CleanupFails
  <2>3. FateInv'
    BY <2>1, <2>2 DEF SurvivorInv, FateInv, Explains
  <2>4. QED
    BY <2>2, <2>3, <1>1, SurvivorRest
<1>14. CASE ReleaseLease \/ CollectArtifacts \/ Export \/ ExportFails
  <2>1. /\ UNCHANGED <<db, launches, tx, root, tree, job>>
        /\ pc \in Cleaned /\ pc' \in Cleaned
    BY <1>14 DEF ReleaseLease, CollectArtifacts, Export, ExportFails,
       ThreadStep, Cleaned
  <2>2. outcome.code # "none" => outcome'.code = outcome.code
    BY <1>14 DEF ReleaseLease, CollectArtifacts, Export, ExportFails, Degrade,
       TypeOK, Outcomes
  <2>3. FateInv'
    BY <2>1, <2>2 DEF SurvivorInv, FateInv, Explains, Cleaned
  <2>4. QED
    BY <2>1, <2>3, <1>1, SurvivorRest
<1>15. CASE Finish
  <2>1. /\ tx'.by = "worker" /\ tx'.row = FinalRow /\ pc = "finish"
        /\ pc' = "finishing" /\ UNCHANGED <<db, launches, root, tree, job>>
    BY <1>15 DEF Finish, Update, WriteManifest
  <2>2. FinalRow.proc = db[job].proc /\ FinalRow.code = outcome.code
    BY RowProcs DEF FinalRow, TypeOK
  <2>3. FateInv'
    BY <2>1, <2>2 DEF SurvivorInv, FateInv, Explains, Cleaned
  <2>4. QED
    BY <2>1, <2>3, <1>1, SurvivorRest
<1>16. CASE FinishCommitted
  <2>1. /\ tx.job = job /\ job \in Jobs /\ db \in [Jobs -> Rows]
        /\ pc = "finishing"
    BY <1>16 DEF FinishCommitted, WriteDone, IInv, TxInv, Writing, TypeOK
  <2>2. /\ \A i \in Jobs : db'[i] = IF i = job THEN tx.row ELSE db[i]
        /\ UNCHANGED <<launches, root, tree>>
        /\ tx'.by = "none" /\ pc' \in {"idle", "recover"}
    BY <1>16, <2>1 DEF FinishCommitted, WriteDone, CommitRow, NoTx
  <2>3. QED
    BY <1>0, <2>1, <2>2
    DEF SurvivorInv, FateInv, Explains, SurvivorsExplained, Cleaned
<1>17. CASE \/ SchedulerStops \/ IdleWait \/ CheckRaises \/ Enter
            \/ AcquireLease \/ LeaseBusy \/ Prepare \/ LastCheck \/ LaunchFails
            \/ Record \/ SeesExit \/ JudgeExit
            \/ \E j \in Jobs : Dispatch(j)
  <2>1. /\ UNCHANGED <<db, launches, root, tree>>
        /\ UNCHANGED tx \/ tx'.by = "worker"
    BY <1>17 DEF SchedulerStops, IdleWait, CheckRaises, Enter, AcquireLease,
       LeaseBusy, Prepare, LastCheck, LaunchFails, Record, SeesExit,
       JudgeExit, Dispatch, ThreadStep, Update, WriteManifest
  <2>2. pc' \notin Cleaned \cup {"finishing"}
    BY <1>17 DEF SchedulerStops, IdleWait, CheckRaises, Enter, AcquireLease,
       LeaseBusy, Prepare, LastCheck, LaunchFails, Record, SeesExit,
       JudgeExit, Dispatch, ThreadStep, Cleaned
  <2>3. QED
    BY <2>1, <2>2, <1>1, FateNone
<1>18. CASE \/ DispatchFails \/ AcquireFails \/ HelperCleanupFails
            \/ RecordFails \/ ReleaseFails \/ FinishFails
  <2>1. /\ UNCHANGED <<db, launches, root, tree>>
        /\ UNCHANGED tx \/ tx'.by = "none"
    BY <1>18 DEF DispatchFails, AcquireFails, HelperCleanupFails, RecordFails,
       ReleaseFails, FinishFails, WriteFails, NoTx
  <2>2. pc' \in {"cleanup", "dead"}
    BY <1>18 DEF DispatchFails, AcquireFails, HelperCleanupFails, RecordFails, ReleaseFails,
       FinishFails, Fatal
  <2>3. QED
    BY <2>1, <2>2, <1>1, FateNone DEF Cleaned
<1>19. QED
  BY <1>3, <1>4, <1>5, <1>6, <1>7, <1>8, <1>9, <1>10, <1>11, <1>12, <1>13,
     <1>14, <1>15, <1>16, <1>17, <1>18
  DEF Next, Client, ClientEnds, Recovery, Scheduler, Failures

\* No process of a terminal job is alive, unless its row says so: under Job
\* Objects and under process groups (engine.py _execute, _recover).
THEOREM SurvivorsAre == Spec => []SurvivorsExplained
<1>1. Init => SurvivorInv
  BY DEF Init, SurvivorInv, FateInv, SurvivorsExplained, NoRow, NoTx, Terminal,
     Cleaned
<1>2. SurvivorInv => SurvivorsExplained
  BY DEF SurvivorInv
<1>3. QED
  BY <1>1, <1>2, SurvivorStep, IInvHolds, PTL DEF Spec
=============================================================================

---------------------------- MODULE FabricEngine ----------------------------
(***************************************************************************)
(* The durable serial job engine of the compute fabric (engine.py): the    *)
(* SQLite queue, the manifest and metrics files beside it, the scheduler   *)
(* thread that executes one job at a time, the HTTP handler threads that   *)
(* submit and cancel, the operating system's process trees, and worker     *)
(* crashes, shutdowns and restarts between any two steps.                  *)
(*                                                                         *)
(* Engine._persist replaces manifest.json first and commits to SQLite      *)
(* second, both under Engine._lock.  The pair is two steps here: `tx' is   *)
(* the write in flight, and it is also the lock (held iff tx.by # "none"). *)
(***************************************************************************)
EXTENDS Naturals, FiniteSets

CONSTANTS
  MaxJobs,      \* how many job identities may be used up (bound)
  Keys,         \* idempotency keys
  Specs,        \* job specifications (what spec_hash distinguishes)
  GpuSpecs,     \* those whose resources ask for the GPU
  None,         \* no key, no specification
  KillOnClose,  \* TRUE: Windows Job Objects; FALSE: POSIX process groups
  MaxOutages,   \* how many shutdowns and crashes may happen (bound)
  MaxFaults     \* how many durable writes or cleanups may fail (bound)

ASSUME EngineAssumption == /\ MaxJobs \in Nat \ {0}
                           /\ GpuSpecs \subseteq Specs
                           /\ None \notin Keys \cup Specs
                           /\ KillOnClose \in BOOLEAN
                           /\ MaxOutages \in Nat
                           /\ MaxFaults \in Nat

VARIABLES
  \* durable
  db,        \* db[j]: the row of job j in queue.sqlite3
  manifest,  \* manifest[j]: runs/<j>/manifest.json
  metrics,   \* metrics[j]: the status field of runs/<j>/metrics.json
  \* the worker process
  mode,      \* "down", "recover" (inside start) or "serve"
  tx,        \* the _persist in flight and its owner: Engine._lock
  stop,      \* the _stop event
  todo,      \* the jobs _recover has not visited yet
  pc,        \* where the scheduler (or recovering) thread stands
  job,       \* the job it is executing or recovering
  outcome,   \* _execute's locals final_state, failure code, export error
  late,      \* the deadline of the executing job has passed
  \* operating system and GPU
  root,      \* root[j]: the root process of j's workload
  tree,      \* the jobs with a live process in their process tree
  lease,     \* the GPU lease as the fabric sees it
  \* history and bounds
  launches,  \* launches[j]: how often j's workload was spawned
  acked,     \* the submissions answered with a job
  outages,   \* shutdowns and crashes so far
  faults     \* failed writes and cleanups so far

disk   == <<db, manifest, metrics>>
proc   == <<mode, stop, todo>>
thread == <<pc, job, outcome, late>>
os     == <<root, tree, lease, launches>>
book   == <<acked, outages, faults>>
vars   == <<disk, proc, tx, thread, os, book>>

-----------------------------------------------------------------------------

Jobs     == 1..MaxJobs
Terminal == {"COMPLETED", "FAILED", "CANCELLED"}
Active   == {"STARTING", "RUNNING"}
States   == {"ABSENT", "QUEUED"} \cup Active \cup Terminal
Codes    == {"none", "CANCELLED", "WORKER_STOPPED", "TIMEOUT", "GPU_BUSY",
             "PROCESS_START_FAILED", "PREPARATION_FAILED",
             "PROCESS_CLEANUP_FAILED",
             "COMMAND_NOT_FOUND", "WORKER_ERROR", "PROCESS_EXIT",
             "ARTIFACT_COLLECTION_FAILED", "CONTRACT_EXPORT_FAILED",
             "WORKER_INTERRUPTED"}
Rows == [key : Keys \cup {None}, spec : Specs \cup {None}, state : States,
         cancel : BOOLEAN, proc : BOOLEAN, code : Codes, experr : BOOLEAN]
Outcomes == [final : Terminal, code : Codes, experr : BOOLEAN]
Writes == [by : {"none", "submit", "cancel", "exporting", "worker"},
           job : Jobs, row : Rows]

\* The scheduler thread's program counter, by phase.
Writing      == {"dispatching", "recording", "finishing"}
BeforeLaunch == {"enter", "lease", "prepare", "spawn", "launch"}
Timed        == BeforeLaunch \cup {"record", "recording", "running", "post"}
Executing    == Timed \cup {"cleanup", "release", "collect", "export",
                            "finish", "finishing"}
PCs == Executing \cup {"off", "recover", "idle", "dispatching", "dead"}

NoRow == [key |-> None, spec |-> None, state |-> "ABSENT", cancel |-> FALSE,
          proc |-> FALSE, code |-> "none", experr |-> FALSE]
NewRow(k, s) == [NoRow EXCEPT !.key = k, !.spec = s, !.state = "QUEUED"]
NoTx == [by |-> "none", job |-> 1, row |-> NoRow]
\* final_state and failure as _execute initialises them.
FreshOutcome == [final |-> "FAILED", code |-> "none", experr |-> FALSE]

TypeOK ==
  /\ db \in [Jobs -> Rows]
  /\ manifest \in [Jobs -> Rows]
  /\ metrics \in [Jobs -> {"NONE", "PENDING"} \cup Terminal]
  /\ mode \in {"down", "recover", "serve"}
  /\ tx \in Writes
  /\ stop \in BOOLEAN
  /\ todo \subseteq Jobs
  /\ pc \in PCs
  /\ job \in Jobs
  /\ outcome \in Outcomes
  /\ late \in BOOLEAN
  /\ root \in [Jobs -> {"none", "live", "zero", "nonzero", "killed"}]
  /\ tree \subseteq Jobs
  /\ lease \in {"free", "job", "runtime", "stale"}
  /\ launches \in [Jobs -> Nat]
  /\ acked \subseteq [key : Keys \cup {None}, spec : Specs \cup {None},
                      job : Jobs]
  /\ outages \in Nat
  /\ faults \in Nat

Init ==
  /\ db = [j \in Jobs |-> NoRow]
  /\ manifest = [j \in Jobs |-> NoRow]
  /\ metrics = [j \in Jobs |-> "NONE"]
  /\ mode = "down" /\ stop = FALSE /\ todo = {}
  /\ tx = NoTx
  /\ pc = "off" /\ job = 1 /\ outcome = FreshOutcome /\ late = FALSE
  /\ root = [j \in Jobs |-> "none"]
  /\ tree = {}
  /\ lease = "free"
  /\ launches = [j \in Jobs |-> 0]
  /\ acked = {} /\ outages = 0 /\ faults = 0

-----------------------------------------------------------------------------
(* Rows, the lock and the two-step durable write.                          *)

Present(j)  == db[j].state # "ABSENT"
Queued      == {j \in Jobs : db[j].state = "QUEUED"}
\* A lease file is configured, otherwise no job asks for the lease.
NeedsGpu(j) == db[j].spec \in GpuSpecs

\* One of the MaxFaults failures happens in this step.
Fault == faults < MaxFaults /\ faults' = faults + 1

LockFree == tx.by = "none"

\* Seeded fault: the row is written and the file is forgotten.
WriteManifestSkipped(who, j, row) ==
  LockFree /\ manifest' = manifest /\ tx' = [by |-> who, job |-> j, row |-> row]

\* First half of _persist: manifest.json is replaced, the lock is held.
WriteManifest(who, j, row) ==
  /\ LockFree
  /\ manifest' = [manifest EXCEPT ![j] = row]
  /\ tx' = [by |-> who, job |-> j, row |-> row]

\* Second half: the SQLite transaction commits.
CommitRow == db' = [db EXCEPT ![tx.job] = tx.row]

\* Seeded fault: a terminal row may be written again.
UpdateAllowedTwice(from, to) == TRUE

\* The transitions _update accepts; a terminal row is never written again.
UpdateAllowed(from, to) ==
  \/ from \notin Terminal /\ to = from
  \/ from = "QUEUED" /\ to \in {"STARTING", "CANCELLED"}
  \/ from = "STARTING" /\ to \in {"RUNNING", "FAILED", "CANCELLED"}
  \/ from = "RUNNING" /\ to \in Terminal

\* _update: read the row under the lock, check, start the durable write.
Update(who, j, row) ==
  UpdateAllowed(db[j].state, row.state) /\ WriteManifest(who, j, row)

-----------------------------------------------------------------------------
(* HTTP handler threads: submit and cancel.                                *)

\* Seeded fault: a key is free again when its job has ended.
ByKeyLive(k) == {j \in Jobs : Present(j) /\ db[j].key = k
                             /\ db[j].state \notin Terminal}

ByKey(k) == {j \in Jobs : Present(j) /\ db[j].key = k}

\* A job identity no earlier submission, failed ones included, has used.
FreshJob(j) == /\ manifest[j] = NoRow
               /\ \A i \in Jobs : i < j => manifest[i] # NoRow

Answer(k, s, j) == acked' = acked \cup {[key |-> k, spec |-> s, job |-> j]}

\* An unknown key: files first, then the row is inserted.
Submit(k, s, j) ==
  /\ mode = "serve"
  /\ ByKey(k) = {}
  /\ FreshJob(j)
  /\ WriteManifest("submit", j, NewRow(k, s))
  /\ metrics' = [metrics EXCEPT ![j] = "PENDING"]
  /\ UNCHANGED <<db, proc, thread, os, book>>

SubmitCommitted ==
  /\ tx.by = "submit"
  /\ CommitRow
  /\ Answer(tx.row.key, tx.row.spec, tx.job)
  /\ tx' = NoTx
  /\ UNCHANGED <<manifest, metrics, proc, thread, os, outages, faults>>

\* Seeded fault: the specifications are not compared.
AnySpec(j, s) == TRUE
SameSpec(j, s) == db[j].spec = s

\* A known key with the same specification is answered with the original
\* job; with another specification it is refused and nothing changes.
SubmitAgain(k, s) ==
  /\ mode = "serve"
  /\ LockFree
  /\ \E j \in ByKey(k) : SameSpec(j, s) /\ Answer(k, s, j)
  /\ UNCHANGED <<disk, proc, tx, thread, os, outages, faults>>

CancelRow(j) ==
  IF db[j].state = "QUEUED"
  THEN [db[j] EXCEPT !.state = "CANCELLED", !.cancel = TRUE,
                     !.code = "CANCELLED"]
  ELSE [db[j] EXCEPT !.cancel = TRUE]

\* cancel on a queued job makes it CANCELLED at once; on an active one it
\* only raises the flag _check_control reads.  A terminal job is returned as
\* it is (_update refuses it too); a repeated request on an active job writes
\* the same row again and is not shown.
Cancel(j) ==
  /\ mode = "serve"
  /\ Present(j) /\ ~db[j].cancel
  /\ Update("cancel", j, CancelRow(j))
  /\ UNCHANGED <<db, metrics, proc, thread, os, book>>

\* The exports of a job cancelled in the queue are written after its row is
\* terminal, the lock still held.
CancelCommitted ==
  /\ tx.by = "cancel"
  /\ CommitRow
  /\ tx' = IF tx.row.state = "CANCELLED" THEN [tx EXCEPT !.by = "exporting"]
                                         ELSE NoTx
  /\ UNCHANGED <<manifest, metrics, proc, thread, os, book>>

CancelExported ==
  /\ tx.by = "exporting"
  /\ metrics' = [metrics EXCEPT ![tx.job] = "CANCELLED"]
  /\ tx' = NoTx
  /\ UNCHANGED <<db, manifest, proc, thread, os, book>>

\* The commit or the export of a handler raises: the request fails with the
\* file already replaced, and the lock is released.
ClientFails ==
  /\ tx.by \in {"submit", "cancel", "exporting"}
  /\ Fault
  /\ tx' = NoTx
  /\ UNCHANGED <<disk, proc, thread, os, acked, outages>>

-----------------------------------------------------------------------------
(* The worker process: start, recovery, shutdown, crash.                   *)

\* What the death of the worker process leaves.  A Job Object whose last
\* handle closes kills its tree; a POSIX process group lives on.  The OS
\* drops the lease's file lock but the HELD marker stays in the file.
ProcessGone ==
  /\ mode' = "down" /\ stop' = FALSE /\ todo' = {}
  /\ tx' = NoTx
  /\ pc' = "off" /\ outcome' = FreshOutcome /\ late' = FALSE
  /\ lease' = IF lease = "job" THEN "stale" ELSE lease
  /\ tree' = IF KillOnClose THEN {} ELSE tree
  /\ root' = [j \in Jobs |-> IF KillOnClose /\ root[j] = "live" THEN "killed"
                                                              ELSE root[j]]
  /\ UNCHANGED <<disk, job, launches, acked>>

Outage == outages < MaxOutages /\ outages' = outages + 1

Crash == mode # "down" /\ Outage /\ ProcessGone /\ UNCHANGED faults

\* SIGINT, SIGTERM or the watchdog: _stop is set, the thread goes on until
\* it looks.
Stop ==
  /\ mode = "serve"
  /\ ~stop
  /\ Outage
  /\ stop' = TRUE
  /\ UNCHANGED <<disk, mode, todo, tx, thread, os, acked, faults>>

\* The scheduler thread has ended: main joins it, closes worker.lock, exits.
Exit ==
  /\ mode = "serve"
  /\ pc = "dead"
  /\ LockFree
  /\ ProcessGone
  /\ UNCHANGED <<outages, faults>>

\* Seeded fault: recovery visits interrupted jobs only.
RecoverySetActive == {j \in Jobs : db[j].state \in Active}

\* The rows _recover goes through: all of them.
RecoverySet == {j \in Jobs : Present(j)}

\* start takes worker.lock and reads the rows _recover will visit.
Start ==
  /\ mode = "down"
  /\ mode' = "recover"
  /\ todo' = RecoverySet
  /\ pc' = "recover"
  /\ UNCHANGED <<disk, stop, tx, job, outcome, late, os, book>>

\* list_jobs is ordered newest first.
RecoverNext(j) == /\ pc = "recover"
                  /\ j \in todo
                  /\ \A k \in todo : k <= j

\* A job that was not active gets its manifest file back from the database.
RecoverManifest(j) ==
  /\ RecoverNext(j)
  /\ db[j].state \notin Active
  /\ manifest' = [manifest EXCEPT ![j] = db[j]]
  /\ todo' = todo \ {j}
  /\ UNCHANGED <<db, metrics, mode, stop, tx, thread, os, book>>

\* Seeded fault: recovery trusts that nothing survived.
SurvivorIgnored(j) == FALSE

\* The recorded root process is still the recorded one.  Without a record,
\* or once the root is gone, _cleanup_interrupted_process touches nothing.
SurvivorKnown(j) == db[j].proc /\ root[j] = "live"

\* An interrupted job is cleaned up and ends as FAILED, never requeued.
RecoverActive(j) ==
  /\ RecoverNext(j)
  /\ db[j].state \in Active
  /\ tree' = IF SurvivorKnown(j) THEN tree \ {j} ELSE tree
  /\ root' = IF SurvivorKnown(j) THEN [root EXCEPT ![j] = "killed"] ELSE root
  /\ job' = j
  /\ outcome' = [FreshOutcome EXCEPT !.code = "WORKER_INTERRUPTED"]
  /\ pc' = "export"
  /\ UNCHANGED <<disk, proc, tx, late, launches, lease, book>>

\* Cleanup cannot be verified, or the manifest cannot be rewritten: start
\* raises, worker.lock is closed and nothing is dispatched.
RecoverFails ==
  /\ \E j \in todo : /\ RecoverNext(j)
                     /\ SurvivorKnown(j) \/ db[j].state \notin Active
  /\ Fault
  /\ ProcessGone
  /\ UNCHANGED outages

RecoverDone ==
  /\ pc = "recover"
  /\ todo = {}
  /\ mode' = "serve"
  /\ pc' = "idle"
  /\ UNCHANGED <<disk, stop, todo, tx, job, outcome, late, os, book>>

-----------------------------------------------------------------------------
(* The scheduler thread: the loop.                                         *)

\* Most steps of the thread only move it on and note an outcome.
ThreadStep(here, there) ==
  /\ pc = here
  /\ pc' = there
  /\ UNCHANGED <<disk, proc, tx, job, late, os, book>>

\* The thread's _persist commits, or raises with the file already replaced.
WriteDone(here, there) ==
  /\ pc = here
  /\ CommitRow
  /\ tx' = NoTx
  /\ pc' = there
  /\ UNCHANGED <<manifest, metrics, mode, stop, job, outcome, late, os, book>>
WriteFails(here) ==
  /\ pc = here
  /\ Fault
  /\ tx' = NoTx
  /\ UNCHANGED <<disk, mode, todo, job, late, os, acked, outages>>

\* Seeded fault: the loop logs the exception and goes on.
FatalIgnored == stop' = stop /\ pc' = "idle"

\* An exception that leaves the loop body: _stop is set and the thread ends.
Fatal == stop' = TRUE /\ pc' = "dead"

\* Seeded fault: the newest job is picked.
Newest(j) == j \in Queued /\ \A k \in Queued : k <= j

Oldest(j) == j \in Queued /\ \A k \in Queued : j <= k

Dispatch(j) ==
  /\ pc = "idle"
  /\ ~stop
  /\ Oldest(j)
  /\ Update("worker", j, [db[j] EXCEPT !.state = "STARTING"])
  /\ job' = j /\ outcome' = FreshOutcome /\ late' = FALSE
  /\ pc' = "dispatching"
  /\ UNCHANGED <<db, metrics, proc, os, book>>

DispatchCommitted == WriteDone("dispatching", "enter") /\ UNCHANGED todo

DispatchFails == WriteFails("dispatching") /\ Fatal /\ UNCHANGED outcome

\* Nothing is queued: the loop waits on _wake and looks again.
IdleWait == pc = "idle" /\ ~stop /\ Queued = {} /\ UNCHANGED vars

SchedulerStops == ThreadStep("idle", "dead") /\ stop /\ UNCHANGED outcome

-----------------------------------------------------------------------------
(* The scheduler thread: _execute.                                         *)

\* Seeded fault: the two fields are swapped.
NoteSwapped(final, code) ==
  outcome' = [outcome EXCEPT !.final = code, !.code = final]

Note(final, code) == outcome' = [outcome EXCEPT !.final = final, !.code = code]

\* Seeded faults: the deadline is not checked; only cancellation interrupts.
ControlWithoutDeadline ==
  IF db[job].cancel THEN "CANCELLED"
  ELSE IF stop THEN "WORKER_STOPPED" ELSE "none"
ControlCancelOnly == IF db[job].cancel THEN "CANCELLED" ELSE "none"

\* _check_control: cancellation first, then shutdown, then the deadline.
ControlFailure ==
  IF db[job].cancel THEN "CANCELLED"
  ELSE IF stop THEN "WORKER_STOPPED"
  ELSE IF late THEN "TIMEOUT" ELSE "none"

ControlPasses == LockFree /\ ControlFailure = "none"

\* Where _execute consults _check_control; a failure is the job's outcome.
CheckRaises ==
  /\ \/ \E here \in {"enter", "prepare", "spawn", "post"} :
          ThreadStep(here, "cleanup")
     \/ ThreadStep("running", "cleanup") /\ root[job] = "live"
  /\ LockFree
  /\ ControlFailure # "none"
  /\ Note(IF ControlFailure = "CANCELLED" THEN "CANCELLED" ELSE "FAILED",
          ControlFailure)

Enter ==
  /\ ThreadStep("enter", IF NeedsGpu(job) THEN "lease" ELSE "prepare")
  /\ ControlPasses
  /\ UNCHANGED outcome

AcquireLease ==
  /\ pc = "lease"
  /\ lease = "free"
  /\ lease' = "job"
  /\ pc' = "prepare"
  /\ UNCHANGED <<disk, proc, tx, job, outcome, late, root, tree, launches, book>>

\* Seeded fault: a live holder is waited for without limit.
LeaseStale == lease = "stale"

\* Held by the persistent runtime until the wait is over, or a stale marker.
LeaseDenied == lease # "free"

LeaseBusy ==
  ThreadStep("lease", "cleanup") /\ LeaseDenied /\ Note("FAILED", "GPU_BUSY")

\* acquire raises something else: before it has the lock, or with the lock and
\* a marker that is not complete, which release deals with.
AcquireFails ==
  /\ pc = "lease"
  /\ Fault
  /\ lease' \in {lease} \cup (IF lease = "free" THEN {"job"} ELSE {})
  /\ Note("FAILED", "PROCESS_START_FAILED")
  /\ pc' = "cleanup"
  /\ UNCHANGED <<disk, proc, tx, job, late, root, tree, launches, acked, outages>>

\* Resource check, source export and runtime probe, by helper processes.
Prepare == /\ ControlPasses
           /\ \/ ThreadStep("prepare", "spawn") /\ UNCHANGED outcome
              \/ /\ ThreadStep("prepare", "cleanup")
                 /\ Note("FAILED", "PREPARATION_FAILED")

\* Seeded fault: the job fails but the worker goes on.
UncleanIgnored == stop' = stop /\ Note("FAILED", "PROCESS_CLEANUP_FAILED")

\* Processes that cannot be proved dead fail the job and stop the worker.
Unclean == stop' = TRUE /\ Note("FAILED", "PROCESS_CLEANUP_FAILED")

\* finally of _run_capture: the helper cannot be closed.
HelperCleanupFails ==
  /\ pc = "prepare"
  /\ Fault
  /\ Unclean
  /\ pc' = "cleanup"
  /\ UNCHANGED <<disk, mode, todo, tx, job, late, os, acked, outages>>

LastCheck == ThreadStep("spawn", "launch") /\ ControlPasses /\ UNCHANGED outcome

Launch ==
  /\ pc = "launch"
  /\ root' = [root EXCEPT ![job] = "live"]
  /\ tree' = tree \cup {job}
  /\ launches' = [launches EXCEPT ![job] = @ + 1]
  /\ pc' = "record"
  /\ UNCHANGED <<disk, proc, tx, job, outcome, late, lease, book>>

LaunchFails ==
  ThreadStep("launch", "cleanup") /\ Note("FAILED", "COMMAND_NOT_FOUND")

\* RUNNING and the process identity are recorded after the process exists.
Record ==
  /\ pc = "record"
  /\ Update("worker", job, [db[job] EXCEPT !.state = "RUNNING", !.proc = TRUE])
  /\ pc' = "recording"
  /\ UNCHANGED <<db, metrics, proc, job, outcome, late, os, book>>

RecordCommitted == WriteDone("recording", "running") /\ UNCHANGED todo

\* Seeded fault: the launch is tried again.
RecordRetries ==
  WriteFails("recording") /\ pc' = "launch" /\ UNCHANGED <<stop, outcome>>

RecordFails == /\ WriteFails("recording")
               /\ Note("FAILED", "WORKER_ERROR")
               /\ pc' = "cleanup"
               /\ UNCHANGED stop

\* poll() returns an exit code; _check_control is consulted once more.
SeesExit ==
  ThreadStep("running", "post") /\ root[job] # "live" /\ UNCHANGED outcome

JudgeExit == /\ ThreadStep("post", "cleanup")
             /\ ControlPasses
             /\ IF root[job] = "zero" THEN Note("COMPLETED", "none")
                                      ELSE Note("FAILED", "PROCESS_EXIT")

\* Seeded fault: only the root process is killed.
RootOnly == tree

\* terminate and close end the whole process tree.
WithoutTree == tree \ {job}

\* finally: terminate, wait and close the process tree if one was spawned.
Cleanup ==
  /\ pc = "cleanup"
  /\ tree' = WithoutTree
  /\ root' = IF root[job] = "live" THEN [root EXCEPT ![job] = "killed"] ELSE root
  /\ pc' = "release"
  /\ UNCHANGED <<disk, proc, tx, job, outcome, late, launches, lease, book>>

CleanupFails ==
  /\ pc = "cleanup"
  /\ root[job] # "none"
  /\ Fault
  /\ Unclean
  /\ pc' = "release"
  /\ UNCHANGED <<disk, mode, todo, tx, job, late, os, acked, outages>>

ReleaseLease ==
  /\ pc = "release"
  /\ lease' = IF lease = "job" THEN "free" ELSE lease
  /\ pc' = "collect"
  /\ UNCHANGED <<disk, proc, tx, job, outcome, late, root, tree, launches, book>>

\* release raises inside finally: _finish is skipped and the thread ends.
ReleaseFails ==
  /\ pc = "release"
  /\ lease = "job"
  /\ Fault
  /\ lease' \in {"free", "stale"}
  /\ Fatal
  /\ UNCHANGED <<disk, mode, todo, tx, job, outcome, late, root, tree, launches,
                 acked, outages>>

\* Seeded fault: the final state is not corrected.
DegradeCodeOnly(code) ==
  IF outcome.code = "none" THEN [outcome EXCEPT !.code = code] ELSE outcome

\* An earlier failure code is kept; a success that cannot be delivered is
\* turned into a failure.
Degrade(code) ==
  IF outcome.code = "none" THEN [outcome EXCEPT !.final = "FAILED", !.code = code]
                           ELSE outcome

CollectArtifacts ==
  /\ ThreadStep("collect", "export")
  /\ outcome' \in {outcome, Degrade("ARTIFACT_COLLECTION_FAILED")}

\* _finish: metrics.json takes the final state before the row does.
Export ==
  /\ pc = "export"
  /\ metrics' = [metrics EXCEPT ![job] = outcome.final]
  /\ pc' = "finish"
  /\ UNCHANGED <<db, manifest, proc, tx, job, outcome, late, os, book>>

ExportFails ==
  /\ pc = "export"
  /\ Fault
  /\ outcome' = [Degrade("CONTRACT_EXPORT_FAILED") EXCEPT !.experr = TRUE]
  /\ pc' = "finish"
  /\ UNCHANGED <<disk, proc, tx, job, late, os, acked, outages>>

\* Seeded fault: the export error is dropped.
FinalRowNoExportError ==
  [db[job] EXCEPT !.state = outcome.final, !.code = outcome.code]

FinalRow == [db[job] EXCEPT !.state = outcome.final, !.code = outcome.code,
                            !.experr = outcome.experr]

Finish ==
  /\ pc = "finish"
  /\ Update("worker", job, FinalRow)
  /\ pc' = "finishing"
  /\ UNCHANGED <<db, metrics, proc, job, outcome, late, os, book>>

FinishCommitted ==
  IF mode = "recover" THEN /\ WriteDone("finishing", "recover")
                           /\ todo' = todo \ {job}
                      ELSE WriteDone("finishing", "idle") /\ UNCHANGED todo

\* A failed durable write does not silently allow the next job.
FinishFails ==
  mode = "serve" /\ WriteFails("finishing") /\ Fatal /\ UNCHANGED outcome

RecoverFinishFails ==
  mode = "recover" /\ pc = "finishing" /\ Fault /\ ProcessGone /\ UNCHANGED outages

-----------------------------------------------------------------------------
(* The environment: time, processes and the other users of the GPU.        *)

\* The deadline of the executing job passes.
Expire ==
  /\ pc \in Timed
  /\ ~late
  /\ late' = TRUE
  /\ UNCHANGED <<disk, proc, tx, pc, job, outcome, os, book>>

\* The root process ends by itself; its descendants may live on.
RootExits(j, code) ==
  /\ root[j] = "live"
  /\ root' = [root EXCEPT ![j] = code]
  /\ tree' \in {tree, tree \ {j}}
  /\ UNCHANGED <<disk, proc, tx, thread, launches, lease, book>>

DescendantsExit(j) ==
  /\ j \in tree
  /\ root[j] # "live"
  /\ tree' = tree \ {j}
  /\ UNCHANGED <<disk, proc, tx, thread, root, launches, lease, book>>

\* The persistent runtime loads and releases a model, or dies holding the
\* lease; the supervisor releases a marker whose owner is dead.  Only shown
\* where some job can ask for the GPU.
LeaseElsewhere ==
  /\ GpuSpecs # {}
  /\ \/ lease = "free" /\ lease' = "runtime"
     \/ lease = "runtime" /\ lease' \in {"free", "stale"}
     \/ lease = "stale" /\ lease' = "free"
  /\ UNCHANGED <<disk, proc, tx, thread, root, tree, launches, book>>

-----------------------------------------------------------------------------

Client ==
  \/ \E k \in Keys, s \in Specs : \/ \E j \in Jobs : Submit(k, s, j)
                                \/ SubmitAgain(k, s)
  \/ \E j \in Jobs : Cancel(j)

ClientEnds == SubmitCommitted \/ CancelCommitted \/ CancelExported

Recovery == \/ \E j \in Jobs : RecoverManifest(j) \/ RecoverActive(j)
            \/ RecoverDone

Scheduler ==
  \/ \E j \in Jobs : Dispatch(j)
  \/ DispatchCommitted \/ SchedulerStops \/ IdleWait
  \/ CheckRaises \/ Enter \/ AcquireLease \/ LeaseBusy \/ Prepare \/ LastCheck
  \/ Launch \/ LaunchFails \/ Record \/ RecordCommitted \/ SeesExit \/ JudgeExit
  \/ Cleanup \/ ReleaseLease \/ CollectArtifacts \/ Export \/ Finish
  \/ FinishCommitted

Failures ==
  \/ ClientFails \/ RecoverFails \/ DispatchFails \/ AcquireFails
  \/ HelperCleanupFails \/ RecordFails \/ CleanupFails \/ ReleaseFails
  \/ ExportFails \/ FinishFails \/ RecoverFinishFails

Environment ==
  \/ Expire
  \/ \E j \in Jobs : \/ \E code \in {"zero", "nonzero"} : RootExits(j, code)
                     \/ DescendantsExit(j)
  \/ LeaseElsewhere

Next == \/ Client \/ ClientEnds \/ Recovery \/ Scheduler \/ Failures
        \/ Start \/ Stop \/ Exit \/ Crash \/ Environment

Spec == Init /\ [][Next]_vars

\* The threads of the worker run, deadlines pass, and the scheduled task
\* that owns the worker starts it again; nothing is assumed of the clients,
\* the workloads, the other users of the GPU or the faults.
Fairness == /\ WF_vars(ClientEnds)
            /\ WF_vars(Recovery)
            /\ WF_vars(Scheduler)
            /\ WF_vars(Expire)
            /\ WF_vars(Start)
            /\ WF_vars(Exit)

FairSpec == Spec /\ Fairness

-----------------------------------------------------------------------------
(* Properties.                                                             *)

\* At most one job is STARTING or RUNNING in the queue, through every
\* failure, crash and restart: "durable, serial" (engine.py:1).  The worker
\* stops dispatching when it cannot record the end of a job, and recovery
\* ends every interrupted job before it serves again.
OneActiveJob ==
  \A i, j \in Jobs : db[i].state \in Active /\ db[j].state \in Active => i = j

\* A workload is spawned at most once, whatever is interrupted, and never
\* for a job still waiting: an interrupted job is not repeated.
LaunchedAtMostOnce ==
  \A j \in Jobs : /\ launches[j] <= 1
                  /\ db[j].state \in {"ABSENT", "QUEUED"} => launches[j] = 0

\* With Job Objects no process of an earlier job is alive while a later job
\* has one: a cleanup that cannot be verified stops the worker, and its exit
\* closes the Job Object.
OneWorkload == KillOnClose => \A i, j \in tree : i = j

\* With Job Objects a GPU workload outlives its hold on the lease only in a
\* worker that has set _stop because it could not clean the process up.
LeaseOutlivedOnlyWhenStopping ==
  KillOnClose => \A j \in tree : NeedsGpu(j) => lease = "job" \/ stop

\* The README's claim that batch jobs and the resident model share one lease
\* so that they never crowd the card together.
LeaseGuardsGpu == \A j \in tree : NeedsGpu(j) => lease = "job"

\* Once a job is terminal no process of its tree is alive, unless the row says
\* PROCESS_CLEANUP_FAILED, or WORKER_INTERRUPTED of a job whose recorded root
\* recovery could not find: a recorded survivor is killed before that row is
\* written (engine.py _cleanup_interrupted_process, _execute).
SurvivorsExplained ==
  \A j \in tree : db[j].state \in Terminal =>
    \/ db[j].code = "PROCESS_CLEANUP_FAILED"
    \/ /\ db[j].code = "WORKER_INTERRUPTED"
       /\ ~(db[j].proc /\ root[j] = "live")

\* manifest.json may be ahead of the database, never behind: every row has
\* its file, and the file of a terminal job is the row.
ManifestNotBehind ==
  \A j \in Jobs : /\ Present(j) => manifest[j].state # "ABSENT"
                  /\ db[j].state \in Terminal => manifest[j] = db[j]

\* When the worker begins to serve, every manifest.json equals its row:
\* recovery has reconciled the files that were left ahead of their commit.
Reconciled ==
  mode # "serve" /\ mode' = "serve" =>
    \A j \in Jobs : Present(j)' => manifest'[j] = db'[j]
ReconciledOnServe == [][Reconciled]_vars

\* The whole row of a terminal job is final, whatever requests, recoveries
\* or late writers follow.
TerminalRowsFinal ==
  [][\A j \in Jobs : db[j].state \in Terminal => db'[j] = db[j]]_vars

\* COMPLETED means the workload exited with zero, nothing failed after it
\* and metrics.json says COMPLETED; CANCELLED means someone asked for it;
\* FAILED always says why.
HonestOutcome ==
  \A j \in Jobs :
    /\ db[j].state = "COMPLETED" =>
         root[j] = "zero" /\ metrics[j] = "COMPLETED" /\ db[j].code = "none"
    /\ db[j].state = "CANCELLED" => db[j].cancel /\ db[j].code = "CANCELLED"
    /\ db[j].state = "FAILED" => db[j].code \notin {"none", "CANCELLED"}

\* metrics.json of a terminal job shows another state only if the row records
\* an export error, or the job was cancelled in the queue and its export was
\* lost.
ExportsExplained ==
  \A j \in Jobs :
    db[j].state \in Terminal /\ metrics[j] # db[j].state =>
      db[j].experr \/ (db[j].state = "CANCELLED" /\ launches[j] = 0)

\* A submission that was answered is never lost or given to another job, and
\* one idempotency key never names two jobs.
AcceptedOnce ==
  /\ \A a \in acked : db[a.job].key = a.key /\ db[a.job].spec = a.spec
  /\ \A i, j \in Jobs : Present(i) /\ Present(j) /\ db[i].key = db[j].key => i = j

\* The inductive invariant behind OneActiveJob, LaunchedAtMostOnce,
\* ManifestNotBehind and TerminalRowsFinal: where each thread may stand in
\* each mode, what the write in flight may be, and which rows may be active.
PlaceInv ==
  /\ mode = "down" <=> pc = "off"
  /\ mode = "recover" => pc \in {"recover", "export", "finish", "finishing"}
  /\ mode = "serve" => pc # "recover"

TxInv ==
  /\ tx.by = "worker" <=> pc \in Writing
  /\ tx.by = "worker" => tx.job = job
  /\ mode # "serve" => tx.by \in {"none", "worker"}
  /\ pc = "dispatching" => db[job].state = "QUEUED" /\ tx.row.state = "STARTING"
  /\ pc = "recording" => tx.row.state = "RUNNING"
  /\ pc = "finishing" => tx.row.state \in Terminal
  /\ tx.by = "submit" => db[tx.job].state = "ABSENT" /\ tx.row.state = "QUEUED"
  /\ tx.by = "cancel" =>
       \/ db[tx.job].state = "QUEUED" /\ tx.row.state = "CANCELLED"
       \/ db[tx.job].state \in Active /\ tx.row.state = db[tx.job].state
  /\ tx.by \in {"submit", "cancel", "worker"} => manifest[tx.job] = tx.row

ActiveInv ==
  /\ OneActiveJob
  /\ pc \in Executing => db[job].state \in Active
  /\ pc \in BeforeLaunch \cup {"record", "recording"} => db[job].state = "STARTING"
  /\ pc \in {"idle", "dispatching"} => \A j \in Jobs : db[j].state \notin Active
  /\ mode = "recover" => \A j \in Jobs : db[j].state \in Active => j \in todo

LaunchInv == /\ LaunchedAtMostOnce
             /\ pc \in BeforeLaunch => launches[job] = 0

IInv == PlaceInv /\ TxInv /\ ActiveInv /\ LaunchInv /\ ManifestNotBehind

\* Every accepted job reaches a terminal state, although workloads may hang,
\* the runtime may keep the lease and the worker may be restarted.
EveryJobEnds ==
  \A j \in Jobs : Present(j) ~> db[j].state \in Terminal

\* A shutdown is not held up by a workload that hangs: the worker goes down.
ShutdownEnds == mode = "serve" /\ stop ~> mode = "down"

\* The durable lifecycle implements the promise in JobLifecycle.
Lifecycle == INSTANCE JobLifecycle
  WITH state <- [j \in Jobs |-> db[j].state],
       wanted <- [j \in Jobs |-> db[j].cancel]
ImplementsLifecycle == Lifecycle!Spec

=============================================================================

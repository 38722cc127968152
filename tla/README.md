# A TLA+ verification of the ZeYu Windows GPU stack

The repository lets a Mac use a GPU host in two ways: durable batch jobs (the
*compute fabric*) and a *persistent BentoML runtime* with one resident model.
Both share one GPU lease. This directory holds TLA+ models of that code, TLC
configurations that check them and proofs that TLAPS checks.

## 1. Inventory

| Component | Source | State it keeps | Operations | Modelled by |
|---|---|---|---|---|
| Engine | `compute-fabric/zeyu_fabric/engine.py` | SQLite rows, `runs/<id>/manifest.json`, `metrics.json`, `_stop`, `_thread`, `_lock` | submit, cancel, get/list, start/_recover, scheduler loop, _execute, _finish, stop | `FabricEngine`, `JobLifecycle` |
| Containment | `runner.py`, `windows_job.py` | a process tree, a Job Object handle | spawn, poll, terminate, wait, close | `RuntimeSupervisor` (the Job Object call by call), `FabricEngine` (`root`, `tree`, `KillOnClose`) |
| Worker process | `server.py` `main` | `shutting_down`, worker.lock | start, signal, watchdog, exit | `FabricEngine` (`mode`, `stop`) |
| GPU lease | `gpu_lease.py` | OS file lock and HELD/RELEASED marker | acquire with a bounded wait, release | `GpuLease`, `LeasePromise`; seen from outside as `lease` in the other modules |
| Supervisor | `runtime/windows/supervisor.py` | stop/blocked files, restart times | recover_dead_lease, supervise | `RuntimeSupervisor`; the recovery step by step in `GpuLease` |
| Persistent runtime | `runtime/bento/service.py` | resident model, lease, request gate | load, infer, release, 504 middleware, shutdown hook | `BentoService` |
| HTTP API | `server.py` handlers | bundle slot | submit, logs, bundle | `RemoteSubmit`, `JobOutputs` |
| Fabric client, CLI | `cli.py` | log offset, partial download | retry a submission, follow logs, fetch and verify a bundle | `RemoteSubmit`, `JobOutputs` |
| Plugin | `plugin/scripts/zeyu_plugin_client` | tunnel, configuration, local outputs | infer, submit, logs, artifacts, unknown outcomes | `AudioController`, `RemoteSubmit`, `JobOutputs` |
| MCP server, telemetry, PowerShell, acceptance, examples | | none that matters here | | not modelled |

How they meet: HTTP handler threads, the scheduler thread and the metrics thread
share the engine's SQLite connection under `Engine._lock`; the fabric, the
runtime and the supervisor meet only in the lease file; the scheduled task
restarts the worker process; the plugin talks to both services over HTTP and may
lose an answer.

What is hard: a durable write is two steps (file, then SQLite), a launch and its
record are two steps, a crash may fall between any two; cancellation, deadline
and shutdown race the end of the workload; a cleanup may fail; on POSIX the
workload survives the worker, on Windows it does not. `PROJECT.json` lists the
hazards at their lines with the properties that cover them.

What makes each component correct: the engine is serial, launches once, ends
what it started, keeps files and rows together and tells the truth about the
end; the lease has one holder at a time and is recoverable after a crash; the
runtime gives the lease back only after a proven cleanup; the supervisor neither
restarts for ever nor steals a live lease; clients never report an unknown
outcome as a failure, never lose log bytes and never publish an unverified
bundle.

## 2. The modules

**`JobLifecycle`** is the promise, with no worker, file or lock in it: jobs are
accepted once, start one at a time in the order of acceptance, are launched at
most once, complete only from RUNNING, are cancelled only on request, and a
terminal state is final.

**`FabricEngine`** is the engine. Its variables are the rows (`db`), the manifest
and metrics files, the worker process (`mode`, `stop`, `todo`), the scheduler
thread (`pc`, `job`, `outcome`, `late`), the processes (`root`, `tree`), the
`lease`, and history (`launches`, `acked`, `outages`, `faults`).

* `tx` is the `_persist` in flight. `WriteManifest` is its first half,
  `CommitRow` its second; the lock is held in between, so every read under the
  lock has the guard `LockFree`. A crash drops `tx`, which leaves the file
  ahead. A fault in `_persist` is the commit that fails; a write that fails
  before the file is replaced leaves strictly less behind.
* `pc` follows `_scheduler` and `_execute`: idle, dispatching, enter, lease,
  prepare, spawn, launch, record, recording, running, post, cleanup, release,
  collect, export, finish, finishing. Recovery is run by the same variable
  (recover, export, finish, finishing) while `mode = "recover"`.
* `CheckRaises` is every place `_execute` consults `_check_control`.
* `ProcessGone` is what the end of the worker process leaves: a Job Object kills
  its tree (`KillOnClose`), a POSIX process group lives on; the OS drops the
  file lock of the lease, the HELD marker stays (`lease = "stale"`).
* Every operator commented "Seeded fault" is a deliberately wrong variant. No
  action uses it; `PROJECT.json` names the property it would break.

**`LeasePromise`** is what the lease promises: one owner at a time, a dead owner
leaves an orphan, nobody acquires an orphan, and only the lease of a dead owner
is reclaimed.

**`GpuLease`** is the file behind it, step by step. `file` and `mark` are the
content (missing, of size zero, naming nobody, or a HELD marker), `lock` the OS
lock, `pc` the place of each process in `acquire`, `release` or
`recover_dead_lease`, `pid` and `foreign` the process table. The truncation and the
rewriting are two steps with crashes between them; the byte that `acquire` writes
into an empty file without the lock is `Seed`; on Windows (`mandatory`, a variable
that keeps its first value) the lock of another handle makes that write raise. A write that fails leaves the
caller as the code does: the fabric calls `release` (`Tidy`), the runtime drops
the object. A marker's `dead` field is history; recovery sees only pids and the
boot time. One attempt per process at a time; the bound of the wait in `acquire`
is the choice not to try again; a RELEASED marker and an unreadable one are the
same (`free`), since both let everybody in; the clock is monotone over boots; the
two calls of pid_exists in one recovery are one look.

Abstractions of the fabric. Job numbers stand for uuids in the order of submission
(the code orders by `submitted_at`; the wall clock is taken to be monotone). The
`_update`s that only add information (host, source, resolved command) are part
of `Prepare`. Helper processes (git, probe) are not in `tree`; their cleanup
failure is `HelperCleanupFails`. A repeated cancel of an active job writes the
same row again and is not shown. A reused PID counts as a root that is gone,
which is how the code treats it. Failure codes that the properties do not tell
apart share one code (all preparation failures are PREPARATION_FAILED). `NeedsGpu`
takes for granted that `gpu_lease_path` is configured; without it no job asks for the
lease. `AcquireFails` is an `acquire` that raises something else than LeaseBusyError,
before it has the lock or with the lock and half a marker. The handler's health check before submit may be stale by the time of the insert, so
`Submit` does not ask for it. There is one worker process: `worker.lock`
excludes a second. A stop whose 15 s join of the scheduler times out ends the
process like a crash. `metrics_error`, written by the metrics thread, is left out.

**`BentoService`** is the runtime: one process, one model, one gate. A call is an
HTTP request, or the shutdown hook. `at` is its place in `_infer_audio_impl` or
`release_model`; the places in `Gated` have the gate. `model` is `_adapter`,
`_model_alias` and `_model_state`; `own` is `_lease is not None`, which is not the same
as `lease = "bento"`, the lease as the rest of the host sees it: after a release
that failed the object is still there and the lock is gone.

* `Timeout` is `HonestTimeoutMiddleware`: the client gets 504, or half an answer when
  the response has begun, and the call stays where it is, with the gate. `late`
  are the calls that go on like that.
* The factory and `infer_wav` need not return. `FactoryFails` leaves no adapter or a
  rejected one, which is kept; a failed load without an adapter is `Unproven`.
* What a client makes of a connection that ends is `Broken`: LOST, or FAILED once the
  answer may have begun, since `read(amt)` may just return less; the controller then
  finds the answer invalid and says ERROR. Every code that the clients do not tell apart
  (a wrong token or argument, GPU_BUSY, a load, inference or unload that failed) is
  FAILED too, and RELEASED stands for a release with and without a model to unload.
* `Save` puts the artifact in place in one step; a failure may come before or after.
* `Close`, `Synchronize` and `GiveBack` are the three steps of
  `_release_model_locked`, each with its failure; `cuda` remembers that the memory of
  a model was never proved free.
* `FabricUses` and `Recover` are the neighbours on the lease, `ProcessEnds` a crash
  or an orderly end.

**`AudioController`** EXTENDS it by the plugin's `infer_audio`: at most an inference, a
release and a second inference (`First`, `Second`, `Third`), each a call of
`BentoService`; then three files that are linked into place one by one. Only
MODEL_BUSY leads to a second request; a broken connection ends in UNKNOWN. The two
operations of the run want different models, so a model that is used again (`Reuse`) is
met there only below the seeded fault `ResidentAny`; the theorem `RunsOnItsModel` has
operations that want the same model, too.

**`SubmitPromise`** says what a submission owes its caller: one job for a key, whoever
is told of a job has what it asked for, a refusal is true and stays true.

**`RemoteSubmit`** is the submission with its messages. A request `<<s, n>>` is the n-th
of call `s`; `wire` is where it is: on its way, past the health check in its handler,
or its answer. A caller that gives up does not take its request back, so an old
request may be handled at any later time (`Hang`, `Respond`). zrun repeats a request,
the plugin does not (`AttemptsOf`). The plugin releases the runtime's model first
(`Release`), over the one shared tunnel (`UseTunnel`, `TunnelOpens`). `job` has the rows
with what the lease does to them (`NO_LEASE`).

`lease` is the lease file from outside, as in `BentoService` and `FabricEngine`. A release
that is confirmed need not have freed it: the runtime may have nothing, or only the
marker of a lease that it has lost to a failed release or with an earlier process
(service.py:648-655, 689-691). `Free` is the runtime unloading for somebody else,
failing to, or dying with the lease; `GiveBackFails` a release of the fabric that
raises, which leaves the row active and the scheduler stopped; `Probe` and `ProbeEnds` a
load or a recovery, which have the lock for a moment while the fabric's `acquire` does not
wait (engine.py:512, default 0). `clean` remembers the calls for which none of this
has happened since their release, until their job starts; `LeaseFailureExplained` says that their jobs do not
fail for the lease. A body cut short is read as invalid
JSON and not as a broken connection, because `http.client`'s `read(amt)` does not raise;
its report is called `CUT_SHORT` here, and `Status` says that it is an ERROR.

**`JobOutputs`** has the two ways outputs travel. A log is a sequence of bytes, whole
characters or the parts of one with three bytes; `Decode` is the incremental UTF-8
decoder. `LookUp` and `ReadPage` are the two reads of the handler (state, then file),
with the completion of a character at the limit of a page. `Break` repeats a page;
the plugin starts again at 0 because it returns nothing of what it had. A bundle goes
through the one `slot`: `TakeSlot`, `SendBundle`, `GiveSlotBack` on the worker; `Receive`,
`GiveUp`, `Verify`, `Move` on the Mac. The slot is taken by requests whose client
has left, too. What a bundle holds is the length of the log in it and whether the
copy is undamaged (`whole`).

**`RuntimeSupervisor`** is `supervise` with the calls of `windows_job.py`: `at` is the
line it stands at, `root` the runtime, `kids` its descendants, `job` the Job Object, `old`
processes of an earlier runtime in a job that is closed (Windows ends them, later).
Every call may fail; `WatchFails` and `RecordFails` are the exceptions of the loop,
`DrainFails` the two ways out of a `close` that does not get the tree down, `Killed`
the end of the supervisor. Its memory of restarts (`recent`) is lost with it, the
quarantine file is not. The window of ten minutes passes at once (`WindowPasses`)
instead of restart by restart, which forgets earlier and so allows more.

## 3. Runs

| Run | Instance | What it shows |
|---|---|---|
| `fabric_windows` | 2 GPU jobs, Job Objects, 1 outage, 1 fault, 896k states | all safety properties and the refinement of `JobLifecycle` |
| `fabric_posix` | 1 job, CPU or GPU, process groups, 2 outages, 1 fault, 150k states | survivors, termination, shutdown |
| `fabric_queue` | 2 jobs, 2 keys, 2 CPU specifications, 1 outage, 468k states | one job for a key and an answered submission is kept; the queue moves on past a job that hangs |
| `lease` | fabric, runtime, supervisor, 3 pids, flock or a mandatory byte lock, 3.4k states up to symmetry | a holder stays named, mutual exclusion, names are erased by right, the lease keeps `LeasePromise` |
| `audio_runtime` | 2 operations for 2 models (6 calls and the hook), 1 end of the process, 644k states | the gate, the lease around the model, the right model, no second execution, whole results; every inference is answered |
| `submit` | 2 calls of the plugin, 1 of zrun with the key of one of them and another specification, 2 attempts, 1 outage, 1.8M states | types, the refinement of `SubmitPromise`, why a plugin's job may find no lease |
| `outputs` | a byte and a three-byte character, pages of 2 bytes, zrun with 2 attempts and the plugin with 1, 800k states | the printed text is the log, a published bundle is whole and its own, the slot comes back |
| `supervise` | 3 restarts for the code's 10, 2 supervisors in a window, 9.7k states | containment, one runtime at a time, the bound of a crash loop; the stop file ends everything |
| `fabric_lease_claim` | 1 GPU job, 1 fault | the README's lease claim fails after a failed cleanup |
| `audio_error_claim` | 2 operations, no end of the process | "ERROR" is said of an inference that still works |
| `submit_error_claim` | the instance of `submit` | "ERROR" is said of a submission whose job is accepted |
| `unload_claim` | 2 calls | a second release gives an unproved lease back |

Bounds. Two jobs are the least with an order and with a "next" job; a second
idempotency key is needed for the second job and for a conflicting submission.
One outage and one fault can hit any step, and together they produce "a fault,
then a crash" and the reverse; two outages interrupt recovery itself, which is
what POSIX survivors need. `MaxOutages` and `MaxFaults` appear only in the guards
of `Outage` and `Fault`, `MaxJobs` only in the set of identities. The keys are
symmetric in the safety run; the runs with liveness use no symmetry. The lease
run needs no bound on faults, crashes or reboots: the state is finite. Three pids
let a dead owner's pid be taken by the other process, by another program or by
nobody; they are symmetric, and no liveness is checked there.

Bounds of the runtime's runs. Two operations with different models are the least in
which one finds the other's model, releases it and may be overtaken; all three
calls of both, the hook and one end of the process meet in every order. One outage
and two attempts let an old request meet a new one and a restarted worker; the key
that zrun shares with the plugin but not its specification makes conflicts. Four
bytes with pages of two put the cut of a page at every place of a character. A
limit of 3 has a first, a middle and a last restart. These runs say `CHECK_DEADLOCK
FALSE` where operations are made once and the system may be done; `submit` never
is, since the runtime goes on.

Fairness. `FairSpec` of the engine has weak fairness of the threads (the finishing
half of a handler's write, recovery, the scheduler), of time (`Expire`), of `Start`
(Install-Worker.ps1:314 gives the scheduled task 999 restarts one minute apart)
and of `Exit` (the watchdog, server.py:312-319, and `main`'s finally). Nothing is
assumed of workloads, which may hang, of clients, of the runtime, which may
keep the lease, or of faults. Liveness needs finitely many outages and faults,
which the bounds give. In `AudioController` only the clock of the middleware is fair:
adapters may hang and nobody restarts the process, yet every inference is answered.
(The fairness is stated over `late`, to which every step of the clock adds a call.)
In `JobOutputs` only the handler that has the slot: it reads local files and its
socket has a timeout of 20 s. In `RuntimeSupervisor` the supervisor's own steps, its
timeouts included, and Windows ending what is in a closed job; it may watch for ever,
and neither failures nor the end of the runtime are forced.

The findings. `LeaseGuardsGpu` says a live process of a GPU job implies the fabric
holds the lease. `_execute` releases the lease after any cleanup (engine.py:592);
when the cleanup failed the processes may live. What the code does guarantee with
Job Objects is `LeaseOutlivedOnlyWhenStopping`: then the worker has set `_stop` and
its exit closes the Job Object.

`ErrorMeansOver` is the promise of errors.py:15-16. A 504 is an answer, so the
controller reports ERROR, while the runtime works on and may save an artifact. What
holds is that nothing is executed twice (`NoSilentRerun`): the work that goes on has
the gate, and 504 is not followed by another request.

`ErrorMeansNoJob` is the same promise for a submission. A 201 whose body is cut short is
invalid JSON to the client; `submit_job` turns it into an ERROR (client.py:265, 503-510),
and the job runs. `SubmitPromise` is kept because the mapping takes nothing from that
report (`Says`); every other ERROR of the plugin is true for good (`ReportsTrue`).

`GivenBackProved` is CONTRACT.md:66. A release whose synchronization fails has dropped
the adapter already; the next release finds none, skips the cleanup and gives the
lease back. `ModelProtected` and `UnprovenKept` say what does hold: a model, or a load
that failed without an adapter, keeps its lease.
Section 4 has the theorems that hold in place of the claims about reports and about the
lease of the runtime.

Seen while modelling, without a run of their own. An inference whose answer is cut short
is an ERROR of the plugin as well, though its artifact is kept. `job_logs` with `follow` drops the text it has collected when
the connection breaks, though the message names an offset to go on from. A page of the
log of an ended job replaces bytes that wait although the file goes on, when damaged
characters at its limit use up the three more bytes it may read (section 4). The comment
in supervisor.py that `close` drains all descendants before a lease is made recoverable
does not hold after a drain that failed; the lease is then still guarded by the pid
in its marker.

## 4. Proofs

`FabricEngineProofs` proves `Spec => []TypeOK` (typing lemmas for the rows and
outcomes, then one step per action) and, for any number of jobs, keys, outages and faults
and for both containments, `OneActiveJob`, `LaunchedAtMostOnce`, `ManifestNotBehind` and
`TerminalRowsFinal`. None is inductive by itself: that at most one row is active
depends on where the scheduler stands (`ActiveInv`), on what the write in flight
will commit (`TxInv`), and on the modes of the process (`PlaceInv`). `IInv` is their
conjunction with `LaunchInv` and `ManifestNotBehind`. Steps that touch none of its
variables keep it by `QuietKeeps`, moves of the thread between writes by
`MoveKeeps`, the death of the process by `GoneKeeps`; the halves of a write have a
lemma each. `TerminalRowsFinal` follows because only a commit changes a row
(`OnlyCommits`) and never over a terminal one (`CommitOverLive`). `AcceptedOnce` rests on
`KeyInv` (a submission in flight has a key no row has; every other write keeps the key
and the specification of the row below it), `ReconciledOnServe` on `RecInv` (recovery has
left behind it only files that equal their rows). Both are relative to `IInv`.

`FabricWorkloadProofs` proves, under Job Objects, `OneWorkload` and
`LeaseOutlivedOnlyWhenStopping`. Both need to know where processes can be alive:
`TreeInv` (only of the job in hand, and past its cleanup only when the worker
stops), `SpecInv` (a write never changes what a job asks for, so "needs the GPU"
is stable) and `HoldInv` (from the acquired lease to the end of its cleanup a
GPU job holds it). They are relative to `IInv`. For either containment it proves
`HonestOutcome` and `ExportsExplained` from `OutcomeInv`, which follows an outcome from
the step that notes it to the commit of its row (`CarryInv`: it stays deserved, whatever
the cleanup and the exports degrade it to) and a request to the commit of a job cancelled
in the queue (`RequestInv`), and `SurvivorsExplained` from `SurvivorInv`, which does the
same for a process that survives its cleanup (`FateInv`: the outcome accounts for it).

`FabricRefinementProofs` proves `Spec => ImplementsLifecycle`. The mapping takes
the state of a row and its cancel flag; commits are the visible steps
(`SubmitCommitted` is `Accept`, `DispatchCommitted` is `Start`, and so on), `Launch`
is `Launch`, and every other step is invisible (`OtherSteps`). The guards of
JobLifecycle need three facts more: identities are used in order and the job
being dispatched is the oldest that waits (`OrderInv`), only a cancel raises the
flag (`AskInv`), and what the thread is about to write is justified by the row
(`EndInv`). What the promise is good for is proved of the promise alone
(`PromiseServes`) and then holds of the engine: no job is launched while an older one
waits or is active (`InOrder`).

`GpuLeaseProofs` proves `Exclusive`, `HolderMarked`, `ErasedRightly` and
`Spec => KeepsPromise` for any sets of processes, supervisors and pids and both
kinds of lock. The invariant has three parts: `LockInv` (who is inside has the
lock), `AliveInv`, and `MarkInv` (the marker of an owner that runs carries its
present pid and boot, so that recovery, which sees only these, cannot take it for
dead). The mapping reads the status off the marker, its history and the place of
its owner.

`RuntimeSupervisorProofs` proves the types, `Contained`, `OneRuntime` and `LoopBounded` for
every limit and every number of supervisors. `PlaceInv` says what the supervisor has
where it stands. `CountInv` is the arithmetic: each earlier supervisor in the window
has created at most the limit, this one what it remembers and perhaps one more that
is not counted yet; `OneMore` and `WithinLimit` hold the only product.

`AudioControllerProofs` proves the types and six properties of the runtime and the
controller, for any calls, models, operations and ends of the process. `ServiceInv`
is inductive for the runtime alone under arbitrary clients: who has the gate
(`OneAtTheGate`, `HookInv`), what the lease covers at which place (`PlaceInv`, `ModelInv`),
and what an answer says of the execution (`AnswerInv`: MODEL_BUSY precedes it, OK
follows the artifact). `OperationsAreClients` shows that the controller is such a client,
so what is proved of the runtime holds below it; `OperationInv` then says that the
third call follows a first that was not executed, and which files are there. Two
theorems say what holds in place of the refuted claims. `ErrorIsExplained`: behind ERROR
an inference goes on only when it was answered with SERVICE_TIMEOUT or has nothing left
but the rest of an answer that was cut short, behind
COMPLETED none does (`OpenInv`: a definite answer ends its request, and where the calls of
an operation are in each of its steps). `GivenBackAfterUnload`: the lease is freed only
by an unload that has dropped the adapter. It and `AnyClients` are about `ServiceSpec`,
where the clients send what they like.

`RemoteSubmitProofs` proves the types, `LeaseFailureExplained` and
`SubmitSpec => KeepsPromise`.
For the lease it is enough that no call is in `clean` while there is a stale marker, a
lease of the runtime or a lock in other hands, and that the fabric has its lease only for
a RUNNING row of a worker that is not down (`LeaseInv`).
A job never changes its specification or maker (`JobKept`, `Moves`, `Recovers`, `Accepted`).
`PluginInv` is the heart: the plugin's one request is unsent until the call asks, and
when the call was refused that request is over without a job, so no late request can
make one. The mapping forgets messages, rows' states and the lease; a step of a call
that reports is a `Tell`, a new row is `Accept`, everything else is invisible. From the
invariant and the promise follow what a report is worth (`ReportsTrue`: a job that is
told is the one asked for; an ERROR of the plugin whose call has made a job all the same,
the one `ErrorMeansNoJob` finds, is always that of a 201 cut short, and then the key has
the job asked for, as if it had been told) and, from the promise alone, that the job of a key
never changes (`OneJobPerKey`).

`JobOutputsProofs` proves the types, `FollowedFaithfully` and `PublishedWhole`, for any
log, page size, number of clients and of attempts. `Decode` is a function defined by
recursion over the positions of a log; that it exists (`DecoderRec`), that a longer log
does not change how its beginning is decoded (`SamePrefix`), and the facts below go by
induction over the naturals, for which `NatSetInduction` is derived from the least
element of a set, a form without an operator parameter. The heart is the seam of two
pages. The bytes that wait are always the last ones, and without them the text is the
same and nothing waits (`Hanging`), so the offset of a page is a place where the decoder
is at rest; a character ends within two more bytes (`Crossing`), so the three that the
handler may add are enough; from a place of rest decoding can start anew (`Restart`).
`ReadInv` then says that what a follower has printed is what one decoder prints of the
same bytes. `LogInv` relates the log and the follower to the end of the job, `FetchInv`
says which copy a fetch has and what is in place.

`Followed` and `Published` have a hypothesis on the log, `Unbroken`: the first byte of a
character is followed by its others, as far as the log goes. Continuation bytes that belong
to no character and a log that ends in the middle of one are allowed. Without it
the statement is false, of the model and of the code: for the bytes `E2 E2 E2 E2 80 93` of an
ended job and pages of one byte, `server.py` adds three bytes to the first page, still
has the fourth `E2` waiting and, because the row is terminal, replaces it though the file
goes on. The next page starts within the character, and the follower prints six
replacement characters where one decoder prints three and an en dash. The bytes
of the log are not affected, and `CopiesOwn`, the part of `PublishedWhole` about the
bundle, needs no hypothesis. The log of the run is unbroken.

The only assumptions are on constants: `LeaseAssumption` (roles are distinct, `None` is
nobody), `EngineAssumption` (a positive number of jobs, GPU specifications among the
specifications, natural bounds), `ServiceAssumption` and `ControllerAssumption` (calls have
kinds and models, an operation's calls are of the kinds it makes, `None` is no code),
`SubmitAssumption` (the plugin's calls are calls, a positive number of attempts, `None`
is no job and no report), `OutputsAssumption` (content is a sequence of bytes, pages and
attempts are positive, `None` is no request and no bundle) and `SupervisorAssumption`
(positive limits).

Every invariant, action property and refinement that a passing run checks is proved. Only
model-checked is liveness (`EveryJobEnds`, `ShutdownEnds`, `InferenceAnswered`,
`SlotComesBack`, `StopEndsAll`), because the prover handles neither fairness nor ENABLED.
The one recursion in what is proved about is the function inside `Decode`.

## 5. Not modelled, and the plan

Not modelled of the parts above: the polling of `zrun --wait`, `connect` and `doctor`; the
read-only answers (list, status, workers, health, `gpu_health`); `gpu_status`, `job_status`
and `cancel_job` of the plugin, which forward one request; the adapters behind the
runtime; the supervisor on POSIX, which has no Job Object; two workers or two
supervisors at a time, which a lock file and the scheduled task exclude; the HTTP
handler threads that outlive a worker's stop, which end with its process.

Left out for good: the PowerShell installation scripts (host configuration),
telemetry (reads only), the MCP loop (stateless), acceptance and examples.

Next: a composition of
`BentoService`, `RuntimeSupervisor` and the engine on `GpuLease` in place of the view
from outside that each of them has of the lease now.

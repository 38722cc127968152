-------------------------- MODULE RuntimeSupervisor --------------------------
(***************************************************************************)
(* The supervisor of the persistent runtime (supervisor.py) and the Job    *)
(* Object it puts the runtime into (windows_job.py): start suspended,      *)
(* contain, resume, watch, end the whole tree, free a dead owner's lease,  *)
(* start again, and quarantine a runtime that keeps failing.  Any call of  *)
(* the operating system may fail and the supervisor itself may be killed.  *)
(***************************************************************************)
EXTENDS Naturals

CONSTANTS Limit,    \* restarts within the window that quarantine the runtime
          MaxLives  \* bound: how often a supervisor is started in a window

ASSUME SupervisorAssumption == Limit \in Nat \ {0} /\ MaxLives \in Nat \ {0}

VARIABLES
  at,       \* where the supervisor stands, "off" when there is none
  stop,     \* the stop file exists
  blocked,  \* the quarantine file exists
  recent,   \* the restarts it remembers, all within the window
  root,     \* the runtime: "none", "suspended", "running" or "ended"
  job,      \* the Job Object: "none", "empty" or "holds" the runtime
  kids,     \* descendants of the runtime live
  doomed,   \* the job has been told to terminate
  old,      \* processes of an earlier runtime live, in a closed job
  lease,    \* "free", of the "root", a "kid" or an "old" process, or "stale"
  hurried,  \* history: a drain has failed, or a supervisor was killed
  spawned,  \* history: runtimes created in the window
  lives     \* history: supervisors started in the window

files == <<stop, blocked>>
tree  == <<root, job, kids, doomed, old, lease>>
hist  == <<hurried, spawned, lives>>
vars  == <<at, files, recent, tree, hist>>

InSpawn == {"create", "assign", "resume"}

TypeOK ==
  /\ at \in InSpawn \cup {"off", "top", "watch", "wait", "close", "drain",
                          "lastclose", "lastdrain", "after", "pause"}
  /\ stop \in BOOLEAN /\ blocked \in BOOLEAN /\ kids \in BOOLEAN
  /\ doomed \in BOOLEAN /\ old \in BOOLEAN /\ hurried \in BOOLEAN
  /\ recent \in 0..(Limit - 1)
  /\ root \in {"none", "suspended", "running", "ended"}
  /\ job \in {"none", "empty", "holds"}
  /\ lease \in {"free", "root", "kid", "old", "stale"}
  /\ spawned \in Nat /\ lives \in 0..MaxLives

Init ==
  /\ at = "off" /\ stop = FALSE /\ blocked = FALSE /\ recent = 0
  /\ root = "none" /\ job = "none" /\ kids = FALSE /\ doomed = FALSE
  /\ old = FALSE /\ lease = "free"
  /\ hurried = FALSE /\ spawned = 0 /\ lives = 0

-----------------------------------------------------------------------------
(* The loop of the supervisor.                                             *)

\* A quarantine outlives the supervisor, its memory of restarts does not.
Start ==
  /\ at = "off" /\ ~blocked /\ lives < MaxLives
  /\ at' = "top" /\ recent' = 0 /\ lives' = lives + 1
  /\ UNCHANGED <<files, tree, hurried, spawned>>

\* The marker of a dead owner is freed, unless its pid is in use again.
RecoverLease == lease' \in IF lease = "stale" THEN {"free", "stale"} ELSE {lease}

Top ==
  /\ at = "top"
  /\ IF stop THEN at' = "off" /\ UNCHANGED lease
             ELSE at' = "create" /\ RecoverLease
  /\ UNCHANGED <<files, recent, root, job, kids, doomed, old, hist>>

\* The executable, the job, its limit and the handles; then the process, which
\* does not run yet.
Create ==
  /\ at = "create"
  /\ \/ at' = "assign" /\ root' = "suspended" /\ job' = "empty"
     \/ at' = "after" /\ UNCHANGED <<root, job>>
  /\ spawned' = spawned + 1
  /\ UNCHANGED <<files, recent, kids, doomed, old, lease, hurried, lives>>

\* Seeded fault: a process that could not be contained is run all the same.
AssignOrNot ==
  /\ at = "assign" /\ at' = "resume" /\ job' \in {"empty", "holds"}
  /\ UNCHANGED <<files, recent, root, kids, doomed, old, lease, hist>>

\* Not contained, not run: the process is ended while it is suspended.
Assign ==
  /\ at = "assign"
  /\ \/ at' = "resume" /\ job' = "holds" /\ UNCHANGED root
     \/ at' = "after" /\ root' = "none" /\ job' = "none"
  /\ UNCHANGED <<files, recent, kids, doomed, old, lease, hist>>

Resume ==
  /\ at = "resume"
  /\ \/ at' = "watch" /\ root' = "running" /\ UNCHANGED job
     \/ at' = "after" /\ root' = "none" /\ job' = "none"
  /\ UNCHANGED <<files, recent, kids, doomed, old, lease, hist>>

\* Seeded fault: nobody looks at the stop file while the runtime runs.
WatchRoot ==
  /\ at = "watch" /\ at' = "wait"
  /\ root = "ended" /\ UNCHANGED doomed
  /\ UNCHANGED <<files, recent, root, job, kids, old, lease, hist>>

\* The runtime has ended, or it has to.
Watch ==
  /\ at = "watch" /\ at' = "wait"
  /\ \/ root = "ended" /\ UNCHANGED doomed
     \/ stop /\ root = "running" /\ doomed' = TRUE
  /\ UNCHANGED <<files, recent, root, job, kids, old, lease, hist>>

\* Anything that raises, a state file that cannot be written included, goes to
\* the close in "finally".
WatchFails ==
  /\ at = "watch" /\ at' = "lastclose"
  /\ UNCHANGED <<files, recent, tree, hist>>

Wait ==
  /\ at = "wait"
  /\ at' = IF root = "ended" THEN "close" ELSE "lastclose"
  /\ UNCHANGED <<files, recent, tree, hist>>

\* Seeded fault: only the runtime itself has to be gone.
RootGone == root = "ended"

TreeGone == root = "ended" /\ ~kids

\* Closing the last handle of the job dooms whatever it still holds.
CloseHandle ==
  /\ old' = (old \/ kids \/ root = "running")
  /\ lease' = IF lease \in {"root", "kid"} THEN "old" ELSE lease
  /\ root' = "none" /\ kids' = FALSE /\ job' = "none" /\ doomed' = FALSE

\* close() terminates the job and waits until it is empty, 5 s at most.
TerminateTree ==
  /\ at \in {"close", "lastclose"}
  /\ at' = IF at = "close" THEN "drain" ELSE "lastdrain"
  /\ doomed' = TRUE
  /\ UNCHANGED <<files, recent, root, job, kids, old, lease, hist>>

Drained ==
  /\ at \in {"drain", "lastdrain"} /\ TreeGone
  /\ at' = "after"
  /\ CloseHandle /\ UNCHANGED <<files, recent, hist>>

\* A call fails or time is up.  A second close finds nothing to do; when it was
\* the one in "finally" the error ends the supervisor.
DrainFails ==
  /\ at \in {"close", "lastclose", "drain", "lastdrain"}
  /\ at' = IF at \in {"close", "drain"} THEN "after" ELSE "off"
  /\ hurried' = TRUE
  /\ CloseHandle /\ UNCHANGED <<files, recent, spawned, lives>>

\* Seeded fault: a restart is counted only while its runtime is there.
CountStarted == root # "none"

Counted == TRUE

After ==
  /\ at = "after"
  /\ RecoverLease
  /\ IF stop THEN at' = "off" /\ UNCHANGED <<recent, blocked>>
     ELSE IF Counted /\ recent + 1 >= Limit
     THEN at' = "off" /\ blocked' = TRUE /\ UNCHANGED recent
     ELSE /\ at' = "pause" /\ recent' = (IF Counted THEN recent + 1 ELSE recent)
          /\ UNCHANGED blocked
  /\ UNCHANGED <<stop, root, job, kids, doomed, old, hist>>

\* The file of the state, of a log or of the lease cannot be written; a state
\* that says that neither.
RecordFails ==
  /\ at \in {"top", "after"} /\ at' = "off"
  /\ UNCHANGED <<files, recent, tree, hist>>

\* Five seconds, or the stop file.
Pause ==
  /\ at = "pause" /\ at' = "top"
  /\ UNCHANGED <<files, recent, tree, hist>>

\* What the supervisor does next; it watches until there is something to do.
Supervise ==
  \/ Top \/ Create \/ Assign \/ Resume \/ Watch \/ Wait \/ TerminateTree
  \/ Drained \/ DrainFails \/ After \/ Pause

-----------------------------------------------------------------------------
(* The operator, the clock, and the processes.                             *)

\* A supervisor that is killed takes its handle of the job with it.
Killed ==
  /\ at # "off" /\ at' = "off" /\ hurried' = TRUE
  /\ CloseHandle /\ UNCHANGED <<files, recent, spawned, lives>>

AskToStop ==
  /\ ~stop /\ stop' = TRUE
  /\ UNCHANGED <<at, blocked, recent, tree, hist>>

\* Ten minutes pass: every restart so far is forgotten.
WindowPasses ==
  /\ recent' = 0 /\ spawned' = 0 /\ lives' = 1
  /\ lives # 0
  /\ UNCHANGED <<at, files, tree, hurried>>

RuntimeWorks ==
  /\ root = "running"
  /\ \/ kids' = TRUE /\ UNCHANGED lease
     \/ /\ lease = "free" /\ UNCHANGED kids
        /\ lease' \in {"root"} \cup (IF kids THEN {"kid"} ELSE {})
     \/ lease \in {"root", "kid"} /\ lease' = "free" /\ UNCHANGED kids
  /\ UNCHANGED <<at, files, recent, root, job, doomed, old, hist>>

Leaves(owner) == lease' = IF lease = owner THEN "stale" ELSE lease

RootEnds ==
  /\ root = "running" /\ root' = "ended" /\ Leaves("root")
  /\ UNCHANGED <<at, files, recent, job, kids, doomed, old, hist>>

KidsEnd ==
  /\ kids /\ kids' = FALSE /\ Leaves("kid")
  /\ UNCHANGED <<at, files, recent, root, job, doomed, old, hist>>

OldEnd ==
  /\ old /\ old' = FALSE /\ Leaves("old")
  /\ UNCHANGED <<at, files, recent, root, job, kids, doomed, hist>>

Next == \/ Start \/ Supervise \/ WatchFails \/ RecordFails \/ Killed
        \/ AskToStop \/ WindowPasses \/ RuntimeWorks
        \/ RootEnds \/ KidsEnd \/ OldEnd

Spec == Init /\ [][Next]_vars

\* The supervisor runs on, and Windows ends what was in a closed job.
FairSpec == Spec /\ WF_vars(Supervise) /\ WF_vars(OldEnd)

-----------------------------------------------------------------------------
(* Properties.                                                             *)

\* A runtime works beside what is left of an earlier one only after a drain
\* has failed or a supervisor was killed (windows_job.py close, supervisor.py
\* supervise).
OneRuntime == (root = "running" \/ kids) /\ old => hurried

\* The runtime works only inside its Job Object, which ends it whatever
\* happens to the supervisor (windows_job.py).
Contained == root = "running" \/ kids => job = "holds" /\ at # "off"

\* Within ten minutes a supervisor creates no more runtimes than the limit; the
\* limit holds for each supervisor anew, since it counts in memory
\* (supervisor.py supervise).
LoopBounded == spawned <= Limit * lives

\* The stop file ends the supervisor and every process of every runtime,
\* whatever fails on the way (supervisor.py supervise, windows_job.py close).
StopEndsAll ==
  stop ~> at = "off" /\ root \in {"none", "ended"} /\ ~kids /\ ~old
=============================================================================

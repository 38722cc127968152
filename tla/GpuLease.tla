------------------------------ MODULE GpuLease ------------------------------
(***************************************************************************)
(* The lease file that the compute fabric and the persistent runtime share *)
(* (gpu_lease.py) and its recovery by the supervisor (supervisor.py).      *)
(* The lease is an OS lock on the file and a marker in it.  The lock ends  *)
(* with its process; a HELD marker stays and blocks everybody until        *)
(* recovery has shown that its owner is dead.  The file is truncated       *)
(* before it is rewritten, and one byte is written without the lock.       *)
(***************************************************************************)
CONSTANTS Procs,        \* the processes that use a GpuLease
          Supervisors,  \* the processes that call recover_dead_lease
          Pids,         \* process ids; the OS uses them again
          Tidy,         \* holders that call release after acquire has failed
          None

\* What a HELD marker says, and whether its process is gone.
Marks == [by : Procs, pid : Pids, old : BOOLEAN, dead : BOOLEAN]

ASSUME LeaseAssumption ==
  /\ Procs \cap Supervisors = {}
  /\ Tidy \subseteq Procs
  /\ None \notin Procs \cup Supervisors \cup Pids \cup Marks

VARIABLES
  file,     \* "missing", "blank", "free" (names no holder) or "held"
  mark,     \* the owner a HELD marker names: its process, its pid, whether it
            \* was written before the current boot, and (history) whether the
            \* process that wrote it is gone
  lock,     \* the process that has the OS lock on the file
  pc,       \* where each process stands in acquire, release or recovery
  pid,      \* the pid of each process of Procs that runs
  foreign,  \* the pids that programs of no interest use
  mandatory \* the platform: on Windows nobody else can write a locked byte

vars == <<file, mark, lock, pc, pid, foreign, mandatory>>

\* The places at which a process has the lock.
Locked == {"read", "write", "held", "undo", "unmark", "close", "judge", "clear",
           "mark"}

ProcPlaces == {"down", "idle", "seed", "try", "read", "write", "held",
               "undo", "unmark", "close"}
SupPlaces  == {"idle", "judge", "clear", "mark", "close"}

TypeOK == /\ file \in {"missing", "blank", "free", "held"}
          /\ mark \in Marks \cup {None}
          /\ lock \in Procs \cup Supervisors \cup {None}
          /\ pc \in [Procs \cup Supervisors -> ProcPlaces \cup SupPlaces]
          /\ \A p \in Procs : pc[p] \in ProcPlaces
          /\ \A s \in Supervisors : pc[s] \in SupPlaces
          /\ pid \in [Procs -> Pids \cup {None}]
          /\ foreign \subseteq Pids
          /\ mandatory \in BOOLEAN

Init == /\ file = "missing" /\ mark = None /\ lock = None
        /\ pc = [a \in Procs \cup Supervisors |->
                   IF a \in Procs THEN "down" ELSE "idle"]
        /\ pid = [p \in Procs |-> None]
        /\ foreign = {}
        /\ mandatory \in BOOLEAN

-----------------------------------------------------------------------------
(* Helpers.                                                                *)

Go(a, place) == pc' = [pc EXCEPT ![a] = place]

\* Closing the file ends the lock.
CloseFile(a) == lock' = None /\ Go(a, "idle")

host == <<pid, foreign, mandatory>>
content == <<file, mark>>

\* Seeded fault: the file is opened for writing instead of appending.
AfterSeedOpenedW(c) == "free"

\* The byte goes to the end of the file and leaves a marker readable.
AfterSeed(c) == IF c = "blank" THEN "free" ELSE c

\* Seeded fault: the marker does not name the pid of its owner.
HeldByNobody(p) == [by |-> p, pid |-> None, old |-> FALSE, dead |-> FALSE]

\* The marker a holder writes.
HeldBy(p) == [by |-> p, pid |-> pid[p], old |-> FALSE, dead |-> FALSE]

PidExists(n) == n \in foreign \/ \E p \in Procs : pid[p] = n

\* Seeded fault: a lock that is free is taken for the death of the owner.
OwnerGoneUnchecked(m) == TRUE

\* The owner of a HELD marker cannot be alive.
OwnerGone(m) == ~PidExists(m.pid) \/ m.old

\* Seeded fault: acquire itself decides that the owner is gone.
BlockedByPid == file = "held" /\ PidExists(mark.pid)

\* Any HELD marker stops acquire, whoever wrote it.
Blocked == file = "held"

\* Seeded fault: the lock is shared instead of exclusive.
CanLockShared == TRUE

CanLock == lock = None

-----------------------------------------------------------------------------
(* GpuLease.acquire.                                                       *)

\* Open for appending; a file of size zero is to be seeded with one byte.
Open(p) ==
  /\ pc[p] = "idle" /\ pid[p] # None
  /\ \/ file \in {"missing", "blank"} /\ file' = "blank" /\ Go(p, "seed")
     \/ file \in {"free", "held"} /\ UNCHANGED file /\ Go(p, "try")
  /\ UNCHANGED <<mark, lock, host>>

\* On Windows nobody else can write the byte that a holder has locked.
ByteLocked(p) == mandatory /\ file = "blank" /\ lock \notin {None, p}

\* The byte is written without the lock, at the end of what is there by now.
Seed(p) == /\ pc[p] = "seed" /\ ~ByteLocked(p)
           /\ file' = AfterSeed(file)
           /\ mark' = IF file' = "held" THEN mark ELSE None
           /\ Go(p, "try") /\ UNCHANGED <<lock, host>>

\* The write raises OSError, and so does acquire.
SeedRefused(p) == /\ pc[p] = "seed" /\ ByteLocked(p)
                  /\ Go(p, "idle") /\ UNCHANGED <<content, lock, host>>

TakeLock(p) == /\ pc[p] = "try" /\ CanLock
               /\ lock' = p
               /\ Go(p, "read") /\ UNCHANGED <<content, host>>

\* Close, and try again from the beginning or raise LeaseBusyError.
LockDenied(p) == /\ pc[p] = "try" /\ ~CanLock
                 /\ Go(p, "idle") /\ UNCHANGED <<content, lock, host>>

\* A HELD marker nobody holds the lock of is stale: close, LeaseBusyError.
FindStale(p) == /\ pc[p] = "read" /\ Blocked
                /\ CloseFile(p) /\ UNCHANGED <<content, host>>

Truncate(p) == /\ pc[p] = "read" /\ ~Blocked
               /\ file' = "blank" /\ mark' = None
               /\ Go(p, "write") /\ UNCHANGED <<lock, host>>

WriteHeld(p) == /\ pc[p] = "write"
                /\ file' = "held" /\ mark' = HeldBy(p)
                /\ Go(p, "held") /\ UNCHANGED <<lock, host>>

\* The write or its fsync raises: the marker may be there or not.  The fabric
\* releases what it failed to acquire, the runtime drops the object.
WriteFails(p) == /\ pc[p] = "write"
                 /\ \/ UNCHANGED content
                    \/ file' = "held" /\ mark' = HeldBy(p)
                 /\ Go(p, IF p \in Tidy THEN "undo" ELSE "close")
                 /\ UNCHANGED <<lock, host>>

-----------------------------------------------------------------------------
(* GpuLease.release.                                                       *)

Release(p) == /\ pc[p] \in {"held", "undo"}
              /\ file' = "blank" /\ mark' = None
              /\ Go(p, "unmark") /\ UNCHANGED <<lock, host>>

WriteReleased(p) == /\ pc[p] = "unmark"
                    /\ file' = "free"
                    /\ Go(p, "close") /\ UNCHANGED <<mark, lock, host>>

\* The truncation, the write or its fsync raises; finally closes the file,
\* which may still write what is buffered.
ReleaseFails(p) == /\ pc[p] \in {"held", "undo", "unmark"}
                   /\ file' = file \/ (pc[p] = "unmark" /\ file' = "free")
                   /\ Go(p, "close") /\ UNCHANGED <<mark, lock, host>>

Close(a) == pc[a] = "close" /\ CloseFile(a) /\ UNCHANGED <<content, host>>

-----------------------------------------------------------------------------
(* recover_dead_lease.                                                     *)

Recover(s) == /\ pc[s] = "idle" /\ file # "missing" /\ CanLock
              /\ lock' = s
              /\ Go(s, "judge") /\ UNCHANGED <<content, host>>

\* NOT_HELD, INVALID_MARKER or OWNER_MAY_BE_ALIVE: leave the file alone.
RecoverRefused(s) == /\ pc[s] = "judge"
                     /\ file = "held" => ~OwnerGone(mark)
                     /\ Go(s, "close") /\ UNCHANGED <<content, lock, host>>

RecoverJudged(s) == /\ pc[s] = "judge"
                    /\ file = "held" /\ OwnerGone(mark)
                    /\ Go(s, "clear") /\ UNCHANGED <<content, lock, host>>

RecoverTruncates(s) == /\ pc[s] = "clear"
                       /\ file' = "blank" /\ mark' = None
                       /\ Go(s, "mark") /\ UNCHANGED <<lock, host>>

RecoverWrites(s) == /\ pc[s] = "mark"
                    /\ file' = "free"
                    /\ Go(s, "close") /\ UNCHANGED <<mark, lock, host>>

\* An error of the file system, or the end of the supervisor.
RecoverFails(s) == /\ pc[s] \in {"judge", "clear", "mark"}
                   /\ file' = file \/ (pc[s] = "mark" /\ file' = "free")
                   /\ CloseFile(s) /\ UNCHANGED <<mark, host>>

-----------------------------------------------------------------------------
(* Processes, pids and the machine.                                        *)

Start(p) == /\ pc[p] = "down"
            /\ \E n \in Pids : ~PidExists(n) /\ pid' = [pid EXCEPT ![p] = n]
            /\ Go(p, "idle") /\ UNCHANGED <<content, lock, foreign, mandatory>>

\* The marker of a process that ends becomes that of a dead owner.
Bury(p) == IF mark = None THEN None
           ELSE IF mark.by = p THEN [mark EXCEPT !.dead = TRUE] ELSE mark

Crash(p) == /\ pc[p] # "down"
            /\ pid' = [pid EXCEPT ![p] = None]
            /\ lock' = IF lock = p THEN None ELSE lock
            /\ mark' = Bury(p)
            /\ Go(p, "down") /\ UNCHANGED <<file, foreign, mandatory>>

ForeignStarts(n) == /\ ~PidExists(n)
                    /\ foreign' = foreign \cup {n}
                    /\ UNCHANGED <<content, lock, pc, pid, mandatory>>

ForeignEnds(n) == /\ n \in foreign
                  /\ foreign' = foreign \ {n}
                  /\ UNCHANGED <<content, lock, pc, pid, mandatory>>

\* All processes end; what was written to the file stays.
Reboot ==
  /\ pid' = [p \in Procs |-> None]
  /\ pc' = [a \in Procs \cup Supervisors |->
              IF a \in Procs THEN "down" ELSE "idle"]
  /\ lock' = None
  /\ mark' = IF mark # None THEN [mark EXCEPT !.dead = TRUE, !.old = TRUE]
             ELSE None
  /\ foreign' \in SUBSET Pids
  /\ UNCHANGED <<file, mandatory>>

Holder(p) == \/ Open(p) \/ Seed(p) \/ SeedRefused(p) \/ TakeLock(p)
             \/ LockDenied(p) \/ FindStale(p) \/ Truncate(p) \/ WriteHeld(p)
             \/ WriteFails(p) \/ Release(p) \/ WriteReleased(p)
             \/ ReleaseFails(p) \/ Close(p) \/ Start(p) \/ Crash(p)

Recoverer(s) == \/ Recover(s) \/ RecoverRefused(s) \/ RecoverJudged(s)
                \/ RecoverTruncates(s) \/ RecoverWrites(s) \/ RecoverFails(s)
                \/ Close(s)

Next == \/ \E p \in Procs : Holder(p)
        \/ \E s \in Supervisors : Recoverer(s)
        \/ \E n \in Pids : ForeignStarts(n) \/ ForeignEnds(n)
        \/ Reboot

Spec == Init /\ [][Next]_vars

-----------------------------------------------------------------------------
(* Properties.                                                             *)

\* Between taking the lock and closing the file, holders and recoveries
\* exclude each other.
Exclusive == \A a, b \in Procs \cup Supervisors :
               pc[a] \in Locked /\ pc[b] \in Locked => a = b

\* A holder is named in the file for as long as it holds the lease, so that its
\* death is noticed: neither the byte of an attempt nor a recovery erases it.
HolderMarked == \A p \in Procs : pc[p] = "held" => mark # None /\ mark.by = p

\* A marker is erased by its owner, who has the lock, or by a recovery after the
\* owner has died; never by another holder that finds the lock free.
ErasedRightly ==
  [][mark # None /\ mark' = None =>
       \/ lock = mark.by /\ ~mark.dead
       \/ lock \in Supervisors /\ mark.dead]_vars

\* The places of a holder that may have its name in the file.
Owning == {"held", "undo", "close"}

\* The inductive invariant: who has the lock is where the lock is needed; the
\* marker tells the truth about an owner that runs; recovery clears only the
\* marker of a dead owner.
LockInv == \A a \in Procs \cup Supervisors : pc[a] \in Locked <=> lock = a

AliveInv == \A p \in Procs : pc[p] = "down" <=> pid[p] = None

MarkInv ==
  /\ file = "held" <=> mark # None
  /\ mark # None /\ ~mark.dead => pid[mark.by] = mark.pid /\ ~mark.old
  /\ \A a \in Procs \cup Supervisors :
       pc[a] \in {"write", "unmark", "mark"} => file # "held"
  /\ \A p \in Procs :
       pc[p] \in Owning /\ mark # None => mark.by = p /\ ~mark.dead
  /\ HolderMarked
  /\ \A s \in Supervisors : pc[s] = "clear" => mark # None /\ mark.dead

IInv == LockInv /\ AliveInv /\ MarkInv

\* The lease keeps the promise of LeasePromise.
Promise == INSTANCE LeasePromise
  WITH status <- IF mark = None THEN "free"
                 ELSE IF mark.dead THEN "orphaned"
                 ELSE IF pc[mark.by] \in Owning THEN "held"
                 ELSE "dropped",
       owner <- IF mark = None THEN None ELSE mark.by,
       running <- {p \in Procs : pid[p] # None}
KeepsPromise == Promise!Spec
=============================================================================

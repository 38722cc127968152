--------------------------- MODULE GpuLeaseProofs ---------------------------
(***************************************************************************)
(* The GPU lease, for every set of processes, supervisors and pids and for *)
(* both kinds of file locks: holders and recoveries exclude each other, a  *)
(* holder stays named in the file, a name is erased only by its owner or   *)
(* after the owner has died, and the lease keeps its promise.              *)
(***************************************************************************)
EXTENDS GpuLease, TLAPS

\* The marker a running process writes.
LEMMA FreshMark ==
  ASSUME TypeOK, NEW p \in Procs, pid[p] # None
  PROVE  /\ HeldBy(p) \in Marks /\ HeldBy(p) # None
         /\ HeldBy(p).by = p /\ HeldBy(p).pid = pid[p]
         /\ ~HeldBy(p).old /\ ~HeldBy(p).dead
<1>1. HeldBy(p) \in Marks
  BY DEF TypeOK, HeldBy, Marks
<1>2. HeldBy(p) # None
  BY <1>1, LeaseAssumption
<1>3. QED
  BY <1>1, <1>2 DEF HeldBy

\* The marker of a process that has ended, before and after a reboot.
LEMMA DeadMark ==
  ASSUME NEW m \in Marks
  PROVE  /\ m # None
         /\ LET d == [m EXCEPT !.dead = TRUE]
            IN  d \in Marks /\ d # None /\ d.by = m.by /\ d.pid = m.pid
                  /\ d.old = m.old /\ d.dead
         /\ LET d == [m EXCEPT !.dead = TRUE, !.old = TRUE]
            IN  d \in Marks /\ d # None /\ d.by = m.by /\ d.dead
<1>1. /\ [m EXCEPT !.dead = TRUE] \in Marks
      /\ [m EXCEPT !.dead = TRUE, !.old = TRUE] \in Marks
  BY DEF Marks
<1>2. /\ m # None /\ [m EXCEPT !.dead = TRUE] # None
      /\ [m EXCEPT !.dead = TRUE, !.old = TRUE] # None
  BY <1>1, LeaseAssumption
<1>3. QED
  BY <1>1, <1>2 DEF Marks

\* Every action preserves the types.
LEMMA TypeStep == TypeOK /\ IInv /\ [Next]_vars => TypeOK'
<1> SUFFICES ASSUME TypeOK, AliveInv, [Next]_vars PROVE TypeOK'
  BY DEF IInv
<1> USE LeaseAssumption DEF TypeOK, ProcPlaces, SupPlaces, Go, content, host
<1>1. ASSUME NEW p \in Procs, Open(p) PROVE TypeOK'
  BY <1>1 DEF Open
<1>2. ASSUME NEW p \in Procs, Seed(p) PROVE TypeOK'
  BY <1>2 DEF Seed, ByteLocked, AfterSeed, Marks
<1>3. ASSUME NEW p \in Procs, SeedRefused(p) PROVE TypeOK'
  BY <1>3 DEF SeedRefused
<1>4. ASSUME NEW p \in Procs, TakeLock(p) PROVE TypeOK'
  BY <1>4 DEF TakeLock, CanLock
<1>5. ASSUME NEW p \in Procs, LockDenied(p) PROVE TypeOK'
  BY <1>5 DEF LockDenied
<1>6. ASSUME NEW p \in Procs, FindStale(p) PROVE TypeOK'
  BY <1>6 DEF FindStale, CloseFile
<1>7. ASSUME NEW p \in Procs, Truncate(p) PROVE TypeOK'
  BY <1>7 DEF Truncate, Blocked
<1>8. ASSUME NEW p \in Procs, WriteHeld(p) PROVE TypeOK'
  BY <1>8, FreshMark DEF WriteHeld, AliveInv
<1>9. ASSUME NEW p \in Procs, WriteFails(p) PROVE TypeOK'
  BY <1>9, FreshMark DEF WriteFails, AliveInv
<1>10. ASSUME NEW p \in Procs, Release(p) PROVE TypeOK'
  BY <1>10 DEF Release
<1>11. ASSUME NEW p \in Procs, WriteReleased(p) PROVE TypeOK'
  BY <1>11 DEF WriteReleased
<1>12. ASSUME NEW p \in Procs, ReleaseFails(p) PROVE TypeOK'
  BY <1>12 DEF ReleaseFails
<1>13. ASSUME NEW p \in Procs, Close(p) PROVE TypeOK'
  BY <1>13 DEF Close, CloseFile
<1>14. ASSUME NEW p \in Procs, Start(p) PROVE TypeOK'
  BY <1>14 DEF Start, PidExists
<1>15. ASSUME NEW p \in Procs, Crash(p) PROVE TypeOK'
  BY <1>15, DeadMark DEF Crash, Bury
<1>16. ASSUME NEW s \in Supervisors, Recover(s) PROVE TypeOK'
  BY <1>16 DEF Recover, CanLock
<1>17. ASSUME NEW s \in Supervisors, RecoverRefused(s) PROVE TypeOK'
  BY <1>17 DEF RecoverRefused
<1>18. ASSUME NEW s \in Supervisors, RecoverJudged(s) PROVE TypeOK'
  BY <1>18 DEF RecoverJudged, OwnerGone, PidExists
<1>19. ASSUME NEW s \in Supervisors, RecoverTruncates(s) PROVE TypeOK'
  BY <1>19 DEF RecoverTruncates
<1>20. ASSUME NEW s \in Supervisors, RecoverWrites(s) PROVE TypeOK'
  BY <1>20 DEF RecoverWrites
<1>21. ASSUME NEW s \in Supervisors, RecoverFails(s) PROVE TypeOK'
  BY <1>21 DEF RecoverFails, CloseFile
<1>22. ASSUME NEW s \in Supervisors, Close(s) PROVE TypeOK'
  BY <1>22 DEF Close, CloseFile
<1>23. ASSUME NEW n \in Pids, ForeignStarts(n) \/ ForeignEnds(n) PROVE TypeOK'
  BY <1>23 DEF ForeignStarts, ForeignEnds
<1>24. CASE Reboot
  BY <1>24, DeadMark DEF Reboot
<1>25. CASE UNCHANGED vars
  BY <1>25 DEF vars
<1>26. QED
  BY <1>1, <1>2, <1>3, <1>4, <1>5, <1>6, <1>7, <1>8, <1>9, <1>10, <1>11,
    <1>12, <1>13, <1>14, <1>15, <1>16, <1>17, <1>18, <1>19, <1>20, <1>21,
    <1>22, <1>23, <1>24, <1>25 DEF Next, Holder, Recoverer

\* Every action preserves the inductive invariant.
LEMMA IInvStep == TypeOK /\ IInv /\ [Next]_vars => IInv'
<1> SUFFICES ASSUME TypeOK, LockInv, AliveInv, MarkInv, [Next]_vars
             PROVE  LockInv' /\ AliveInv' /\ MarkInv'
  BY DEF IInv
<1> USE LeaseAssumption DEF TypeOK, ProcPlaces, SupPlaces, Go, content, host
<1>1. ASSUME NEW p \in Procs, Open(p) PROVE LockInv' /\ AliveInv' /\ MarkInv'
  <2>1. LockInv'
    BY <1>1 DEF Open, LockInv, Locked
  <2>2. AliveInv'
    BY <1>1 DEF Open, AliveInv
  <2>3. MarkInv'
    BY <1>1 DEF Open, MarkInv, HolderMarked, Owning, LockInv, AliveInv, Locked
  <2>4. QED BY <2>1, <2>2, <2>3
<1>2. ASSUME NEW p \in Procs, Seed(p) PROVE LockInv' /\ AliveInv' /\ MarkInv'
  <2>1. LockInv'
    BY <1>2 DEF Seed, ByteLocked, AfterSeed, LockInv, Locked
  <2>2. AliveInv'
    BY <1>2 DEF Seed, ByteLocked, AfterSeed, AliveInv
  <2>3. MarkInv'
    BY <1>2 DEF Seed, ByteLocked, AfterSeed, MarkInv, HolderMarked, Owning,
      LockInv, AliveInv, Locked, Marks
  <2>4. QED BY <2>1, <2>2, <2>3
<1>3. ASSUME NEW p \in Procs, SeedRefused(p) PROVE LockInv' /\ AliveInv' /\ MarkInv'
  <2>1. LockInv'
    BY <1>3 DEF SeedRefused, LockInv, Locked
  <2>2. AliveInv'
    BY <1>3 DEF SeedRefused, AliveInv
  <2>3. MarkInv'
    BY <1>3 DEF SeedRefused, MarkInv, HolderMarked, Owning, LockInv, AliveInv,
      Locked
  <2>4. QED BY <2>1, <2>2, <2>3
<1>4. ASSUME NEW p \in Procs, TakeLock(p) PROVE LockInv' /\ AliveInv' /\ MarkInv'
  <2>1. LockInv'
    BY <1>4 DEF TakeLock, CanLock, LockInv, Locked
  <2>2. AliveInv'
    BY <1>4 DEF TakeLock, CanLock, AliveInv
  <2>3. MarkInv'
    BY <1>4 DEF TakeLock, CanLock, MarkInv, HolderMarked, Owning, LockInv,
      AliveInv, Locked
  <2>4. QED BY <2>1, <2>2, <2>3
<1>5. ASSUME NEW p \in Procs, LockDenied(p) PROVE LockInv' /\ AliveInv' /\ MarkInv'
  <2>1. LockInv'
    BY <1>5 DEF LockDenied, LockInv, Locked
  <2>2. AliveInv'
    BY <1>5 DEF LockDenied, AliveInv
  <2>3. MarkInv'
    BY <1>5 DEF LockDenied, MarkInv, HolderMarked, Owning, LockInv, AliveInv,
      Locked
  <2>4. QED BY <2>1, <2>2, <2>3
<1>6. ASSUME NEW p \in Procs, FindStale(p) PROVE LockInv' /\ AliveInv' /\ MarkInv'
  <2>1. LockInv'
    BY <1>6 DEF FindStale, CloseFile, LockInv, Locked
  <2>2. AliveInv'
    BY <1>6 DEF FindStale, CloseFile, AliveInv
  <2>3. MarkInv'
    BY <1>6 DEF FindStale, CloseFile, MarkInv, HolderMarked, Owning, LockInv,
      AliveInv, Locked
  <2>4. QED BY <2>1, <2>2, <2>3
<1>7. ASSUME NEW p \in Procs, Truncate(p) PROVE LockInv' /\ AliveInv' /\ MarkInv'
  <2>1. LockInv'
    BY <1>7 DEF Truncate, Blocked, LockInv, Locked
  <2>2. AliveInv'
    BY <1>7 DEF Truncate, Blocked, AliveInv
  <2>3. MarkInv'
    BY <1>7 DEF Truncate, Blocked, MarkInv, HolderMarked, Owning, LockInv,
      AliveInv, Locked
  <2>4. QED BY <2>1, <2>2, <2>3
<1>8. ASSUME NEW p \in Procs, WriteHeld(p) PROVE LockInv' /\ AliveInv' /\ MarkInv'
  <2>1. LockInv'
    BY <1>8, FreshMark DEF WriteHeld, LockInv, Locked
  <2>2. AliveInv'
    BY <1>8, FreshMark DEF WriteHeld, AliveInv
  <2>0. /\ pid[p] # None /\ file # "held" /\ lock = p
        /\ mark' \in Marks /\ mark'.by = p /\ mark'.pid = pid[p]
        /\ mark'.old = FALSE /\ mark'.dead = FALSE /\ mark' # None
    BY <1>8, FreshMark DEF WriteHeld, MarkInv, AliveInv, LockInv, Locked
  <2>3. MarkInv'
    BY <1>8, <2>0, FreshMark DEF WriteHeld, MarkInv, HolderMarked, Owning,
      LockInv, AliveInv, Locked
  <2>4. QED BY <2>1, <2>2, <2>3
<1>9. ASSUME NEW p \in Procs, WriteFails(p) PROVE LockInv' /\ AliveInv' /\ MarkInv'
  <2>1. LockInv'
    BY <1>9, FreshMark DEF WriteFails, LockInv, Locked
  <2>2. AliveInv'
    BY <1>9, FreshMark DEF WriteFails, AliveInv
  <2>0. /\ pid[p] # None /\ file # "held" /\ lock = p
        /\ file' = "held" => mark' = HeldBy(p)
        /\ file' # "held" => mark' = None
        /\ HeldBy(p) \in Marks /\ HeldBy(p).by = p /\ HeldBy(p).pid = pid[p]
        /\ HeldBy(p).old = FALSE /\ HeldBy(p).dead = FALSE
        /\ HeldBy(p) # None
    BY <1>9, FreshMark DEF WriteFails, MarkInv, AliveInv, LockInv, Locked
  <2>3. MarkInv'
    BY <1>9, <2>0, FreshMark DEF WriteFails, MarkInv, HolderMarked, Owning,
      LockInv, AliveInv, Locked
  <2>4. QED BY <2>1, <2>2, <2>3
<1>10. ASSUME NEW p \in Procs, Release(p) PROVE LockInv' /\ AliveInv' /\ MarkInv'
  <2>1. LockInv'
    BY <1>10 DEF Release, LockInv, Locked
  <2>2. AliveInv'
    BY <1>10 DEF Release, AliveInv
  <2>3. MarkInv'
    BY <1>10 DEF Release, MarkInv, HolderMarked, Owning, LockInv, AliveInv,
      Locked
  <2>4. QED BY <2>1, <2>2, <2>3
<1>11. ASSUME NEW p \in Procs, WriteReleased(p) PROVE LockInv' /\ AliveInv' /\ MarkInv'
  <2>1. LockInv'
    BY <1>11 DEF WriteReleased, LockInv, Locked
  <2>2. AliveInv'
    BY <1>11 DEF WriteReleased, AliveInv
  <2>3. MarkInv'
    BY <1>11 DEF WriteReleased, MarkInv, HolderMarked, Owning, LockInv,
      AliveInv, Locked
  <2>4. QED BY <2>1, <2>2, <2>3
<1>12. ASSUME NEW p \in Procs, ReleaseFails(p) PROVE LockInv' /\ AliveInv' /\ MarkInv'
  <2>1. LockInv'
    BY <1>12 DEF ReleaseFails, LockInv, Locked
  <2>2. AliveInv'
    BY <1>12 DEF ReleaseFails, AliveInv
  <2>3. MarkInv'
    BY <1>12 DEF ReleaseFails, MarkInv, HolderMarked, Owning, LockInv,
      AliveInv, Locked
  <2>4. QED BY <2>1, <2>2, <2>3
<1>13. ASSUME NEW p \in Procs, Close(p) PROVE LockInv' /\ AliveInv' /\ MarkInv'
  <2>1. LockInv'
    BY <1>13 DEF Close, CloseFile, LockInv, Locked
  <2>2. AliveInv'
    BY <1>13 DEF Close, CloseFile, AliveInv
  <2>3. MarkInv'
    BY <1>13 DEF Close, CloseFile, MarkInv, HolderMarked, Owning, LockInv,
      AliveInv, Locked
  <2>4. QED BY <2>1, <2>2, <2>3
<1>14. ASSUME NEW p \in Procs, Start(p) PROVE LockInv' /\ AliveInv' /\ MarkInv'
  <2>1. LockInv'
    BY <1>14 DEF Start, PidExists, LockInv, Locked
  <2>2. AliveInv'
    BY <1>14 DEF Start, PidExists, AliveInv
  <2>0. mark # None /\ ~mark.dead => mark.by # p
    BY <1>14 DEF Start, MarkInv, AliveInv, LockInv, Locked, Marks
  <2>3. MarkInv'
    BY <1>14, <2>0 DEF Start, PidExists, MarkInv, HolderMarked, Owning,
      LockInv, AliveInv, Locked
  <2>4. QED BY <2>1, <2>2, <2>3
<1>15. ASSUME NEW p \in Procs, Crash(p) PROVE LockInv' /\ AliveInv' /\ MarkInv'
  <2>1. LockInv'
    BY <1>15, DeadMark DEF Crash, Bury, LockInv, Locked
  <2>2. AliveInv'
    BY <1>15, DeadMark DEF Crash, Bury, AliveInv
  <2>0. /\ mark = None <=> mark' = None
        /\ mark # None => /\ mark'.by = mark.by /\ mark'.pid = mark.pid
                        /\ mark'.old = mark.old
                        /\ (mark'.dead <=> mark.dead \/ mark.by = p)
    BY <1>15, DeadMark DEF Crash, Bury, MarkInv, AliveInv, LockInv, Locked
  <2>3. MarkInv'
    <3>1. file' = "held" <=> mark' # None
      BY <1>15, <2>0 DEF Crash, MarkInv
    <3>2. mark' # None /\ ~mark'.dead => pid'[mark'.by] = mark'.pid /\ ~mark'.old
      BY <1>15, <2>0 DEF Crash, MarkInv
    <3>3. \A a \in Procs \cup Supervisors :
            pc'[a] \in {"write", "unmark", "mark"} => file' # "held"
      BY <1>15 DEF Crash, MarkInv
    <3>4. \A q \in Procs :
            pc'[q] \in Owning /\ mark' # None => mark'.by = q /\ ~mark'.dead
      BY <1>15, <2>0 DEF Crash, MarkInv, Owning
    <3>5. HolderMarked'
      BY <1>15, <2>0 DEF Crash, MarkInv, HolderMarked
    <3>6. \A s \in Supervisors : pc'[s] = "clear" => mark' # None /\ mark'.dead
      BY <1>15, <2>0 DEF Crash, MarkInv
    <3>7. QED
      BY <3>1, <3>2, <3>3, <3>4, <3>5, <3>6 DEF MarkInv
  <2>4. QED BY <2>1, <2>2, <2>3
<1>16. ASSUME NEW s \in Supervisors, Recover(s) PROVE LockInv' /\ AliveInv' /\ MarkInv'
  <2>1. LockInv'
    BY <1>16 DEF Recover, CanLock, LockInv, Locked
  <2>2. AliveInv'
    BY <1>16 DEF Recover, CanLock, AliveInv
  <2>3. MarkInv'
    BY <1>16 DEF Recover, CanLock, MarkInv, HolderMarked, Owning, LockInv,
      AliveInv, Locked
  <2>4. QED BY <2>1, <2>2, <2>3
<1>17. ASSUME NEW s \in Supervisors, RecoverRefused(s) PROVE LockInv' /\ AliveInv' /\ MarkInv'
  <2>1. LockInv'
    BY <1>17 DEF RecoverRefused, LockInv, Locked
  <2>2. AliveInv'
    BY <1>17 DEF RecoverRefused, AliveInv
  <2>3. MarkInv'
    BY <1>17 DEF RecoverRefused, MarkInv, HolderMarked, Owning, LockInv,
      AliveInv, Locked
  <2>4. QED BY <2>1, <2>2, <2>3
<1>18. ASSUME NEW s \in Supervisors, RecoverJudged(s) PROVE LockInv' /\ AliveInv' /\ MarkInv'
  <2>1. LockInv'
    BY <1>18 DEF RecoverJudged, OwnerGone, PidExists, LockInv, Locked
  <2>2. AliveInv'
    BY <1>18 DEF RecoverJudged, OwnerGone, PidExists, AliveInv
  <2>0. mark # None /\ mark.dead
    BY <1>18 DEF RecoverJudged, OwnerGone, PidExists, MarkInv, AliveInv,
      LockInv, Locked, Marks
  <2>3. MarkInv'
    BY <1>18, <2>0 DEF RecoverJudged, OwnerGone, PidExists, MarkInv,
      HolderMarked, Owning, LockInv, AliveInv, Locked
  <2>4. QED BY <2>1, <2>2, <2>3
<1>19. ASSUME NEW s \in Supervisors, RecoverTruncates(s) PROVE LockInv' /\ AliveInv' /\ MarkInv'
  <2>1. LockInv'
    BY <1>19 DEF RecoverTruncates, LockInv, Locked
  <2>2. AliveInv'
    BY <1>19 DEF RecoverTruncates, AliveInv
  <2>3. MarkInv'
    BY <1>19 DEF RecoverTruncates, MarkInv, HolderMarked, Owning, LockInv,
      AliveInv, Locked
  <2>4. QED BY <2>1, <2>2, <2>3
<1>20. ASSUME NEW s \in Supervisors, RecoverWrites(s) PROVE LockInv' /\ AliveInv' /\ MarkInv'
  <2>1. LockInv'
    BY <1>20 DEF RecoverWrites, LockInv, Locked
  <2>2. AliveInv'
    BY <1>20 DEF RecoverWrites, AliveInv
  <2>3. MarkInv'
    BY <1>20 DEF RecoverWrites, MarkInv, HolderMarked, Owning, LockInv,
      AliveInv, Locked
  <2>4. QED BY <2>1, <2>2, <2>3
<1>21. ASSUME NEW s \in Supervisors, RecoverFails(s) PROVE LockInv' /\ AliveInv' /\ MarkInv'
  <2>1. LockInv'
    BY <1>21 DEF RecoverFails, CloseFile, LockInv, Locked
  <2>2. AliveInv'
    BY <1>21 DEF RecoverFails, CloseFile, AliveInv
  <2>3. MarkInv'
    BY <1>21 DEF RecoverFails, CloseFile, MarkInv, HolderMarked, Owning,
      LockInv, AliveInv, Locked
  <2>4. QED BY <2>1, <2>2, <2>3
<1>22. ASSUME NEW s \in Supervisors, Close(s) PROVE LockInv' /\ AliveInv' /\ MarkInv'
  <2>1. LockInv'
    BY <1>22 DEF Close, CloseFile, LockInv, Locked
  <2>2. AliveInv'
    BY <1>22 DEF Close, CloseFile, AliveInv
  <2>3. MarkInv'
    BY <1>22 DEF Close, CloseFile, MarkInv, HolderMarked, Owning, LockInv,
      AliveInv, Locked
  <2>4. QED BY <2>1, <2>2, <2>3
<1>23. ASSUME NEW n \in Pids, ForeignStarts(n) \/ ForeignEnds(n) PROVE LockInv' /\ AliveInv' /\ MarkInv'
  <2>1. LockInv'
    BY <1>23 DEF ForeignStarts, ForeignEnds, LockInv, Locked
  <2>2. AliveInv'
    BY <1>23 DEF ForeignStarts, ForeignEnds, AliveInv
  <2>3. MarkInv'
    BY <1>23 DEF ForeignStarts, ForeignEnds, MarkInv, HolderMarked, Owning,
      LockInv, AliveInv, Locked
  <2>4. QED BY <2>1, <2>2, <2>3
<1>24. CASE Reboot
  <2>1. LockInv'
    BY <1>24, DeadMark DEF Reboot, LockInv, Locked
  <2>2. AliveInv'
    BY <1>24, DeadMark DEF Reboot, AliveInv
  <2>0. /\ mark = None <=> mark' = None
        /\ mark # None => mark'.dead
    BY <1>24, DeadMark DEF Reboot, MarkInv, AliveInv, LockInv, Locked
  <2>3. MarkInv'
    BY <1>24, <2>0, DeadMark DEF Reboot, MarkInv, HolderMarked, Owning,
      LockInv, AliveInv, Locked
  <2>4. QED BY <2>1, <2>2, <2>3
<1>25. CASE UNCHANGED vars
  <2>1. LockInv'
    BY <1>25 DEF vars, LockInv, Locked
  <2>2. AliveInv'
    BY <1>25 DEF vars, AliveInv
  <2>3. MarkInv'
    BY <1>25 DEF vars, MarkInv, HolderMarked, Owning, LockInv, AliveInv,
      Locked
  <2>4. QED BY <2>1, <2>2, <2>3
<1>26. QED
  BY <1>1, <1>2, <1>3, <1>4, <1>5, <1>6, <1>7, <1>8, <1>9, <1>10, <1>11,
    <1>12, <1>13, <1>14, <1>15, <1>16, <1>17, <1>18, <1>19, <1>20, <1>21,
    <1>22, <1>23, <1>24, <1>25 DEF Next, Holder, Recoverer

LEMMA InvHolds == Spec => [](TypeOK /\ IInv)
<1>1. Init => TypeOK /\ IInv
  BY LeaseAssumption
  DEF Init, TypeOK, ProcPlaces, SupPlaces, IInv, LockInv, AliveInv, MarkInv,
      HolderMarked, Owning, Locked
<1>2. QED
  BY <1>1, TypeStep, IInvStep, PTL DEF Spec

\* Every variable keeps its type (gpu_lease.py, supervisor.py
\* recover_dead_lease).
THEOREM TypeCorrect == Spec => []TypeOK
<1>1. QED
  BY InvHolds, PTL

\* Holders and recoveries exclude each other between lock and close.
THEOREM MutualExclusion == Spec => []Exclusive
<1>1. TypeOK /\ IInv => Exclusive
  BY DEF IInv, LockInv, Exclusive
<1>2. QED
  BY <1>1, InvHolds, PTL

\* A holder stays named in the file for as long as it holds the lease.
THEOREM HolderNamed == Spec => []HolderMarked
<1>1. TypeOK /\ IInv => HolderMarked
  BY DEF IInv, MarkInv
<1>2. QED
  BY <1>1, InvHolds, PTL

\* The marker changes in one of seven ways.
LEMMA MarkChanges ==
  ASSUME TypeOK, IInv, [Next]_vars
  PROVE  \/ UNCHANGED mark
         \/ \E p \in Procs : Truncate(p) \/ WriteHeld(p) \/ WriteFails(p)
                              \/ Release(p) \/ Crash(p)
         \/ \E s \in Supervisors : RecoverTruncates(s)
         \/ Reboot
<1> USE DEF content, host
<1>1. ASSUME NEW p \in Procs, Seed(p) PROVE UNCHANGED mark
  BY <1>1 DEF Seed, AfterSeed, IInv, MarkInv
<1>2. ASSUME NEW p \in Procs, Holder(p)
      PROVE  \/ UNCHANGED mark
             \/ Truncate(p) \/ WriteHeld(p) \/ WriteFails(p) \/ Release(p)
             \/ Crash(p)
  BY <1>1, <1>2
  DEF Holder, Open, SeedRefused, TakeLock, LockDenied, FindStale,
      WriteReleased, ReleaseFails, Close, Start
<1>3. ASSUME NEW s \in Supervisors, Recoverer(s)
      PROVE  UNCHANGED mark \/ RecoverTruncates(s)
  BY <1>3
  DEF Recoverer, Recover, RecoverRefused, RecoverJudged, RecoverWrites,
      RecoverFails, Close
<1>4. ASSUME NEW n \in Pids, ForeignStarts(n) \/ ForeignEnds(n)
      PROVE  UNCHANGED mark
  BY <1>4 DEF ForeignStarts, ForeignEnds
<1>5. QED
  BY <1>2, <1>3, <1>4 DEF Next, vars

\* A name is erased only by its owner or by a recovery after the owner's death.
THEOREM ErasedByRight == Spec => ErasedRightly
<1>1. TypeOK /\ IInv /\ [Next]_vars
        => [mark # None /\ mark' = None =>
              \/ lock = mark.by /\ ~mark.dead
              \/ lock \in Supervisors /\ mark.dead]_vars
  <2> SUFFICES ASSUME TypeOK, IInv, [Next]_vars, mark # None, mark' = None
               PROVE  \/ lock = mark.by /\ ~mark.dead
                      \/ lock \in Supervisors /\ mark.dead
    OBVIOUS
  <2> USE DEF TypeOK, IInv, LockInv, MarkInv, Locked
  <2>1. ASSUME NEW p \in Procs, Truncate(p) PROVE FALSE
    BY <2>1 DEF Truncate, Blocked
  <2>2. ASSUME NEW p \in Procs, WriteHeld(p) \/ WriteFails(p) PROVE FALSE
    BY <2>2, FreshMark DEF WriteHeld, WriteFails, AliveInv, content
  <2>3. ASSUME NEW p \in Procs, Release(p) PROVE lock = mark.by /\ ~mark.dead
    BY <2>3 DEF Release, Owning
  <2>4. ASSUME NEW p \in Procs, Crash(p) PROVE FALSE
    BY <2>4, DeadMark DEF Crash, Bury
  <2>5. ASSUME NEW s \in Supervisors, RecoverTruncates(s)
        PROVE  lock \in Supervisors /\ mark.dead
    BY <2>5 DEF RecoverTruncates
  <2>6. ASSUME Reboot PROVE FALSE
    <3>1. mark \in Marks /\ mark' = [mark EXCEPT !.dead = TRUE, !.old = TRUE]
      BY <2>6 DEF Reboot
    <3>2. QED
      BY <3>1, DeadMark
  <2>7. QED
    BY <2>1, <2>2, <2>3, <2>4, <2>5, <2>6, MarkChanges
<1>2. QED
  BY <1>1, InvHolds, PTL DEF Spec, ErasedRightly

-----------------------------------------------------------------------------
(* The refinement.                                                         *)

\* A step that leaves markers and processes alone, and its owner in or out of
\* its hold, is invisible in LeasePromise.
LEMMA Invisible ==
  ASSUME UNCHANGED <<mark, pid>>,
         mark # None => (pc'[mark.by] \in Owning <=> pc[mark.by] \in Owning)
  PROVE  UNCHANGED Promise!vars
BY DEF Promise!vars

\* The same for a step of one process that stays out of its hold or in it.
LEMMA Stays ==
  ASSUME TypeOK, NEW a \in Procs \cup Supervisors, NEW place, Go(a, place),
         place \in Owning <=> pc[a] \in Owning, UNCHANGED <<mark, pid>>
  PROVE  UNCHANGED Promise!vars
<1>1. mark # None => (pc'[mark.by] \in Owning <=> pc[mark.by] \in Owning)
  BY DEF TypeOK, Go, Marks
<1>2. QED
  BY <1>1, Invisible

\* Every step of the lease is a step of LeasePromise or invisible in it.
LEMMA PromiseStep ==
  TypeOK /\ IInv /\ [Next]_vars => [Promise!Next]_Promise!vars
<1> SUFFICES ASSUME TypeOK, IInv, [Next]_vars
             PROVE  [Promise!Next]_Promise!vars
  OBVIOUS
<1> USE DEF IInv, host, content
<1>1. ASSUME NEW p \in Procs, WriteHeld(p) PROVE Promise!Acquire(p)
  BY <1>1, FreshMark, LeaseAssumption
  DEF WriteHeld, Go, Promise!Acquire, TypeOK, MarkInv, AliveInv, Owning
<1>2. ASSUME NEW p \in Procs, WriteFails(p)
      PROVE  Promise!Acquire(p) \/ UNCHANGED Promise!vars
  <2>1. mark = None /\ pid[p] # None
    BY <1>2 DEF WriteFails, MarkInv, AliveInv
  <2>2. CASE UNCHANGED content
    BY <1>2, <2>1, <2>2, Invisible DEF WriteFails
  <2>3. CASE mark' = HeldBy(p)
    BY <1>2, <2>1, <2>3, FreshMark
    DEF WriteFails, Go, Promise!Acquire, TypeOK, Owning
  <2>4. QED
    BY <1>2, <2>2, <2>3 DEF WriteFails
<1>3. ASSUME NEW p \in Procs, Release(p)
      PROVE  Promise!Release \/ UNCHANGED Promise!vars
  <2>1. CASE mark = None
    BY <1>3, <2>1, Invisible DEF Release
  <2>2. CASE mark # None
    <3>1. mark.by = p /\ ~mark.dead /\ pc[p] \in Owning
      BY <1>3, <2>2 DEF Release, MarkInv, Owning
    <3>2. QED
      BY <1>3, <2>2, <3>1 DEF Release, Promise!Release
  <2>3. QED
    BY <2>1, <2>2
<1>4. ASSUME NEW p \in Procs, Close(p)
      PROVE  Promise!Drop \/ UNCHANGED Promise!vars
  <2>1. CASE mark = None
    BY <1>4, <2>1, Invisible DEF Close
  <2>2. CASE mark # None
    <3>1. mark.by = p /\ ~mark.dead /\ pc[p] \in Owning
      BY <1>4, <2>2 DEF Close, MarkInv, Owning
    <3>2. pc'[p] \notin Owning /\ UNCHANGED <<mark, pid>>
      BY <1>4 DEF Close, CloseFile, Go, TypeOK, Owning
    <3>3. QED
      BY <2>2, <3>1, <3>2 DEF Promise!Drop
  <2>3. QED
    BY <2>1, <2>2
<1>5. ASSUME NEW s \in Supervisors, RecoverTruncates(s) PROVE Promise!Reclaim
  BY <1>5 DEF RecoverTruncates, Promise!Reclaim, MarkInv
<1>6. ASSUME NEW p \in Procs, Start(p) PROVE Promise!Start(p)
  <2>1. /\ pid[p] = None /\ pid'[p] # None
        /\ \A q \in Procs : q # p => pid'[q] = pid[q]
    BY <1>6, LeaseAssumption DEF Start, AliveInv, TypeOK
  <2>2. mark # None => (pc'[mark.by] \in Owning <=> pc[mark.by] \in Owning)
    BY <1>6 DEF Start, Go, TypeOK, Marks, Owning
  <2>3. QED
    BY <1>6, <2>1, <2>2 DEF Start, Promise!Start
<1>7. ASSUME NEW p \in Procs, Crash(p) PROVE Promise!Die({p})
  <2>1. /\ pid'[p] = None
        /\ \A q \in Procs : q # p => pid'[q] = pid[q] /\ pc'[q] = pc[q]
    BY <1>7 DEF Crash, Go, TypeOK
  <2>2. CASE mark = None
    BY <1>7, <2>1, <2>2 DEF Crash, Bury, Promise!Die
  <2>3. CASE mark # None /\ mark.by = p
    <3>1. mark \in Marks /\ mark' = [mark EXCEPT !.dead = TRUE]
      BY <1>7, <2>3 DEF Crash, Bury, TypeOK
    <3>2. mark' # None /\ mark'.dead /\ mark'.by = p
      BY <2>3, <3>1, DeadMark
    <3>3. QED
      BY <2>1, <2>3, <3>2 DEF Promise!Die
  <2>4. CASE mark # None /\ mark.by # p
    <3>1. mark' = mark /\ mark.by \in Procs /\ pc'[mark.by] = pc[mark.by]
      BY <1>7, <2>1, <2>4 DEF Crash, Bury, TypeOK, Marks
    <3>2. QED
      BY <2>1, <2>4, <3>1 DEF Promise!Die
  <2>5. QED
    BY <2>2, <2>3, <2>4
<1>8. ASSUME Reboot PROVE Promise!Die(Procs)
  <2>1. \A q \in Procs : pid'[q] = None
    BY <1>8 DEF Reboot
  <2>2. CASE mark = None
    BY <1>8, <2>1, <2>2 DEF Reboot, Promise!Die
  <2>3. CASE mark # None
    <3>1. /\ mark \in Marks /\ mark.by \in Procs
          /\ mark' = [mark EXCEPT !.dead = TRUE, !.old = TRUE]
      BY <1>8, <2>3 DEF Reboot, TypeOK, Marks
    <3>2. mark' # None /\ mark'.dead /\ mark'.by = mark.by
      BY <3>1, DeadMark
    <3>3. QED
      BY <2>1, <2>3, <3>1, <3>2 DEF Promise!Die
  <2>4. QED
    BY <2>2, <2>3
<1>9. ASSUME NEW p \in Procs, Truncate(p) PROVE UNCHANGED Promise!vars
  BY <1>9, Invisible DEF Truncate, Blocked, MarkInv
<1>10. ASSUME NEW p \in Procs,
              \/ Open(p) \/ Seed(p) \/ SeedRefused(p) \/ TakeLock(p)
              \/ LockDenied(p) \/ FindStale(p) \/ WriteReleased(p)
       PROVE  UNCHANGED Promise!vars
  <2>1. UNCHANGED <<mark, pid>>
    BY <1>10
    DEF Open, Seed, AfterSeed, SeedRefused, TakeLock, LockDenied, FindStale,
        WriteReleased, MarkInv
  <2>2. CASE mark = None
    BY <2>1, <2>2, Invisible
  <2>3. ASSUME mark # None PROVE pc'[mark.by] \in Owning <=> pc[mark.by] \in Owning
    BY <1>10, <2>3
    DEF Open, Seed, SeedRefused, TakeLock, LockDenied, FindStale, CloseFile,
        WriteReleased, Go, TypeOK, Marks, Owning, MarkInv
  <2>4. QED
    BY <2>1, <2>3, Invisible
<1>11. ASSUME NEW p \in Procs, ReleaseFails(p) PROVE UNCHANGED Promise!vars
  <2>1. CASE mark = None
    BY <1>11, <2>1, Invisible DEF ReleaseFails
  <2>2. CASE mark # None
    BY <1>11, <2>2, Stays DEF ReleaseFails, MarkInv, Owning
  <2>3. QED
    BY <2>1, <2>2
<1>12. ASSUME NEW s \in Supervisors,
              \/ Recover(s) \/ RecoverRefused(s) \/ RecoverJudged(s)
              \/ RecoverWrites(s) \/ RecoverFails(s) \/ Close(s)
       PROVE  UNCHANGED Promise!vars
  <2>1. UNCHANGED <<mark, pid>> /\ \A p \in Procs : pc'[p] = pc[p]
    BY <1>12, LeaseAssumption
    DEF Recover, RecoverRefused, RecoverJudged, RecoverWrites, RecoverFails,
        Close, CloseFile, Go, TypeOK
  <2>2. mark # None => mark.by \in Procs
    BY DEF TypeOK, Marks
  <2>3. QED
    BY <2>1, <2>2, Invisible
<1>13. ASSUME NEW n \in Pids, ForeignStarts(n) \/ ForeignEnds(n)
       PROVE  UNCHANGED Promise!vars
  BY <1>13, Invisible DEF ForeignStarts, ForeignEnds
<1>14. CASE UNCHANGED vars
  BY <1>14, Invisible DEF vars
<1>15. QED
  BY <1>1, <1>2, <1>3, <1>4, <1>5, <1>6, <1>7, <1>8, <1>9, <1>10, <1>11, <1>12,
     <1>13, <1>14
  DEF Next, Holder, Recoverer, Promise!Next

\* The lease file with its lock and its recovery keeps the promise.
THEOREM PromiseKept == Spec => KeepsPromise
<1>1. Init => Promise!Init
  BY DEF Init, Promise!Init
<1>2. QED
  BY <1>1, PromiseStep, InvHolds, PTL DEF Spec, KeepsPromise, Promise!Spec
=============================================================================

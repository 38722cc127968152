----------------------- MODULE RuntimeSupervisorProofs -----------------------
(***************************************************************************)
(* Proofs about the supervisor: its types, the containment of the runtime, *)
(* one runtime at a time, and the bound of a crash loop, for every limit   *)
(* and every number of supervisors.                                        *)
(***************************************************************************)
EXTENDS RuntimeSupervisor, TLAPS

\* The places at which a supervisor has a process, and those at which it has
\* one that works or has worked.
WithRuntime == {"watch", "wait", "close", "drain", "lastclose", "lastdrain"}
Without     == {"off", "top", "create", "after", "pause"}

\* What the supervisor has where it stands.
PlaceInv ==
  /\ at \in Without => root = "none" /\ ~kids /\ job = "none"
  /\ at = "assign" => root = "suspended" /\ ~kids /\ job = "empty"
  /\ at = "resume" => root = "suspended" /\ ~kids /\ job = "holds"
  /\ at \in WithRuntime => root \in {"running", "ended"} /\ job = "holds"

\* A runtime that was created and has not been counted yet.
Uncounted == IF at \in {"assign", "resume", "after"} \cup WithRuntime THEN 1 ELSE 0

\* The runtimes in the window: each supervisor before this one has had its
\* limit, this one those that it remembers.
CountInv ==
  /\ at = "off" => spawned <= Limit * lives
  /\ at # "off" => /\ lives >= 1
                   /\ spawned + Limit <= Limit * lives + recent + Uncounted

IInv == TypeOK /\ PlaceInv /\ CountInv /\ (old => hurried)

-----------------------------------------------------------------------------

\* The numbers keep their ranges, whatever fails (supervisor.py supervise).
LEMMA NumberStep ==
  TypeOK /\ [Next]_vars =>
    recent' \in 0..(Limit - 1) /\ spawned' \in Nat /\ lives' \in 0..MaxLives
<1> SUFFICES ASSUME TypeOK, [Next]_vars
             PROVE  /\ recent' \in 0..(Limit - 1)
                    /\ spawned' \in Nat /\ lives' \in 0..MaxLives
  OBVIOUS
<1>0. /\ Limit \in Nat \ {0} /\ MaxLives \in Nat \ {0}
      /\ recent \in 0..(Limit - 1) /\ spawned \in Nat /\ lives \in 0..MaxLives
  BY SupervisorAssumption DEF TypeOK
<1>1. CASE Start
  BY <1>0, <1>1 DEF Start
<1>2. CASE Create
  BY <1>0, <1>2 DEF Create
<1>3. CASE WindowPasses
  BY <1>0, <1>3 DEF WindowPasses
<1>4. CASE After
  <2>1. spawned' = spawned /\ lives' = lives
    BY <1>4 DEF After, hist
  <2>2. recent' = recent \/ (recent' = recent + 1 /\ ~(recent + 1 >= Limit))
    BY <1>4 DEF After, Counted
  <2> QED
    BY <1>0, <2>1, <2>2
<1>5. CASE ~Start /\ ~Create /\ ~WindowPasses /\ ~After
  <2>1. recent' = recent /\ spawned' = spawned /\ lives' = lives
    BY <1>5 DEF Next, Supervise, Top, Assign, Resume, Watch, WatchFails, Wait,
       TerminateTree, Drained, DrainFails, RecordFails, Pause, Killed, AskToStop,
       RuntimeWorks, RootEnds, KidsEnd, OldEnd, vars, hist
  <2> QED
    BY <1>0, <2>1
<1> QED
  BY <1>1, <1>2, <1>3, <1>4, <1>5

Places == InSpawn \cup {"off", "top", "watch", "wait", "close", "drain",
                        "lastclose", "lastdrain", "after", "pause"}

\* Every variable keeps its type, whatever fails (supervisor.py, windows_job.py).
LEMMA TypeStep == TypeOK /\ [Next]_vars => TypeOK'
<1> SUFFICES ASSUME TypeOK, [Next]_vars PROVE TypeOK'
  OBVIOUS
<1>1. at' \in Places
  BY DEF TypeOK, Places, InSpawn, Next, Supervise, Start, Top, Create, Assign,
     Resume, Watch, WatchFails, Wait, TerminateTree, Drained, DrainFails, After,
     RecordFails, Pause, Killed, AskToStop, WindowPasses, RuntimeWorks, RootEnds,
     KidsEnd, OldEnd, vars
<1>2. stop' \in BOOLEAN /\ blocked' \in BOOLEAN
  BY Zenon DEF TypeOK, Next, Supervise, Start, Top, Create, Assign, Resume, Watch,
     WatchFails, Wait, TerminateTree, Drained, DrainFails, After, RecordFails,
     Pause, Killed, AskToStop, WindowPasses, RuntimeWorks, RootEnds, KidsEnd,
     OldEnd, vars, files
<1>3. /\ root' \in {"none", "suspended", "running", "ended"}
      /\ job' \in {"none", "empty", "holds"}
      /\ lease' \in {"free", "root", "kid", "old", "stale"}
  BY DEF TypeOK, Next, Supervise, Start, Top, Create, Assign, Resume, Watch,
     WatchFails, Wait, TerminateTree, Drained, DrainFails, After, RecordFails,
     Pause, Killed, AskToStop, WindowPasses, RuntimeWorks, RootEnds, KidsEnd,
     OldEnd, vars, tree, CloseHandle, RecoverLease, Leaves
<1>4. kids' \in BOOLEAN /\ doomed' \in BOOLEAN /\ hurried' \in BOOLEAN
  BY Zenon DEF TypeOK, Next, Supervise, Start, Top, Create, Assign, Resume, Watch,
     WatchFails, Wait, TerminateTree, Drained, DrainFails, After, RecordFails,
     Pause, Killed, AskToStop, WindowPasses, RuntimeWorks, RootEnds, KidsEnd,
     OldEnd, vars, tree, hist, CloseHandle
<1>5. old' \in BOOLEAN
  BY Zenon DEF TypeOK, Next, Supervise, Start, Top, Create, Assign, Resume, Watch,
     WatchFails, Wait, TerminateTree, Drained, DrainFails, After, RecordFails,
     Pause, Killed, AskToStop, WindowPasses, RuntimeWorks, RootEnds, KidsEnd,
     OldEnd, vars, tree, hist, CloseHandle
<1> QED
  BY <1>1, <1>2, <1>3, <1>4, <1>5, NumberStep DEF TypeOK, Places

\* The place of the supervisor tells what it has (windows_job.py __init__,
\* close).
LEMMA PlaceStep == TypeOK /\ PlaceInv /\ [Next]_vars => PlaceInv'
<1> SUFFICES ASSUME TypeOK, PlaceInv, [Next]_vars PROVE PlaceInv'
  OBVIOUS
<1> USE DEF PlaceInv, WithRuntime, Without
<1>1. CASE Start
  BY <1>1 DEF Start, tree
<1>2. CASE Top
  BY <1>2 DEF Top
<1>3. CASE Create \/ Assign \/ Resume
  BY <1>3 DEF Create, Assign, Resume
<1>4. CASE Watch \/ WatchFails \/ Wait \/ TerminateTree
  BY <1>4 DEF Watch, WatchFails, Wait, TerminateTree, tree
<1>5. CASE Drained \/ DrainFails \/ Killed
  BY <1>5 DEF Drained, DrainFails, Killed, CloseHandle
<1>6. CASE After
  BY <1>6 DEF After
<1>7. CASE RecordFails \/ Pause
  BY <1>7 DEF RecordFails, Pause, tree
<1>8. CASE AskToStop \/ WindowPasses
  BY <1>8 DEF AskToStop, WindowPasses, tree
<1>9. CASE RuntimeWorks \/ RootEnds \/ KidsEnd \/ OldEnd
  BY <1>9 DEF RuntimeWorks, RootEnds, KidsEnd, OldEnd, TypeOK
<1>10. CASE UNCHANGED vars
  BY <1>10 DEF vars, tree
<1> QED
  BY <1>1, <1>2, <1>3, <1>4, <1>5, <1>6, <1>7, <1>8, <1>9, <1>10
  DEF Next, Supervise

\* Arithmetic of one supervisor more.
LEMMA OneMore ==
  ASSUME NEW n \in Nat
  PROVE  /\ Limit * n \in Nat /\ Limit * (n + 1) = Limit * n + Limit
         /\ Limit * 1 = Limit
BY SupervisorAssumption, SMT

\* A supervisor that ends has used no more than its limit.
LEMMA WithinLimit ==
  TypeOK /\ CountInv => spawned <= Limit * lives
<1> SUFFICES ASSUME TypeOK, CountInv, at # "off" PROVE spawned <= Limit * lives
  BY DEF CountInv
<1> DEFINE b == Limit * lives
<1>1. lives \in Nat /\ recent \in 0..(Limit - 1) /\ spawned \in Nat /\ Limit \in Nat
  BY SupervisorAssumption DEF TypeOK
<1>2. b \in Nat
  BY <1>1, OneMore
<1>3. Uncounted \in 0..1 /\ spawned + Limit <= b + recent + Uncounted
  BY DEF CountInv, Uncounted
<1> HIDE DEF b
<1>4. spawned <= b
  BY <1>1, <1>2, <1>3
<1> QED
  BY <1>4 DEF b

\* The count moves with the supervisor (supervisor.py supervise).
LEMMA CountStep == TypeOK /\ CountInv /\ [Next]_vars => CountInv'
<1> SUFFICES ASSUME TypeOK, CountInv, [Next]_vars PROVE CountInv'
  OBVIOUS
<1> DEFINE b == Limit * lives
<1>a. b \in Nat /\ Limit * (lives + 1) = b + Limit /\ Limit * 1 = Limit
  BY OneMore DEF TypeOK
<1>b. spawned <= b
  BY WithinLimit
<1>c. /\ lives \in Nat /\ recent \in 0..(Limit - 1) /\ spawned \in Nat
      /\ Limit \in Nat \ {0}
  BY SupervisorAssumption DEF TypeOK
<1>d. at # "off" => lives >= 1 /\ spawned + Limit <= b + recent + Uncounted
  BY DEF CountInv
<1>1. CASE Start
  <2>1. at' = "top" /\ recent' = 0 /\ lives' = lives + 1 /\ spawned' = spawned
    BY <1>1 DEF Start
  <2>2. Limit * lives' = b + Limit /\ Uncounted' = 0
    BY <1>a, <2>1 DEF Uncounted, WithRuntime
  <2> QED
    BY <2>1, <2>2, <1>a, <1>b, <1>c DEF CountInv
<1>2. CASE WindowPasses
  <2>1. at' = at /\ recent' = 0 /\ lives' = 1 /\ spawned' = 0
    BY <1>2 DEF WindowPasses
  <2>2. Limit * lives' = Limit /\ Uncounted' \in 0..1
    BY <1>a, <2>1 DEF Uncounted
  <2>3. spawned' <= Limit * lives' /\ lives' >= 1
        /\ spawned' + Limit <= Limit * lives' + recent' + Uncounted'
    <3> DEFINE c == Limit * lives'
    <3> DEFINE u == Uncounted'
    <3>1. c = Limit /\ Limit \in Nat /\ u \in 0..1
      BY <2>2, <1>c
    <3> HIDE DEF c, u
    <3>3. 0 <= c /\ 0 + Limit <= c + 0 + u
      BY <3>1
    <3>4. lives' >= 1 /\ spawned' <= c
      BY <3>3, <2>1
    <3>5. spawned' + Limit <= c + recent' + u
      BY <3>3, <2>1
    <3>2. spawned' <= c /\ lives' >= 1 /\ spawned' + Limit <= c + recent' + Uncounted'
      BY <3>4, <3>5 DEF u
    <3> QED
      BY <3>2 DEF c
  <2> QED
    BY <2>3 DEF CountInv
<1>3. CASE lives' = lives /\ ~Start /\ ~WindowPasses
  <2>0. Limit * lives' = b
    BY <1>3
  <2> HIDE DEF b
  <2>1. CASE at' = "off"
    <3>1. spawned' = spawned
      BY <1>3, <2>1 DEF Next, Supervise, Top, Create, Assign, Resume, Watch,
         WatchFails, Wait, TerminateTree, Drained, DrainFails, After, RecordFails,
         Pause, Killed, AskToStop, RuntimeWorks, RootEnds, KidsEnd, OldEnd, vars, hist
    <3> QED
      BY <2>0, <2>1, <3>1, <1>b DEF CountInv
  <2>2. CASE at' # "off"
    <3>1. at # "off" /\ spawned' + Limit <= b + recent' + Uncounted'
      <4>1. CASE Create
        BY <4>1, <2>2, <1>a, <1>c, <1>d DEF Create, Uncounted, WithRuntime
      <4>2. CASE After
        BY <4>2, <2>2, <1>a, <1>c, <1>d DEF After, Counted, Uncounted, WithRuntime, hist
      <4>3. CASE ~Create /\ ~After
        <5>1. spawned' = spawned /\ recent' = recent /\ at # "off" /\ Uncounted' = Uncounted
          BY <1>3, <2>2, <4>3 DEF Next, Supervise, Top, Assign, Resume, Watch,
             WatchFails, Wait, TerminateTree, Drained, DrainFails, RecordFails,
             Pause, Killed, AskToStop, RuntimeWorks, RootEnds, KidsEnd, OldEnd, vars,
             hist, Uncounted, WithRuntime
        <5> QED
          BY <5>1, <1>d
      <4> QED
        BY <4>1, <4>2, <4>3
    <3> QED
      BY <2>0, <2>2, <3>1, <1>3, <1>d DEF CountInv
  <2> QED
    BY <2>1, <2>2
<1>4. lives' = lives \/ Start \/ WindowPasses
  BY DEF Next, Supervise, Top, Create, Assign, Resume, Watch, WatchFails, Wait,
     TerminateTree, Drained, DrainFails, After, RecordFails, Pause, Killed, AskToStop,
     RuntimeWorks, RootEnds, KidsEnd, OldEnd, vars, hist
<1> QED
  BY <1>1, <1>2, <1>3, <1>4

\* Processes outlive their supervisor only after a drain that failed or a kill
\* (windows_job.py close).
LEMMA OldStep == (old => hurried) /\ [Next]_vars => (old' => hurried')
<1> SUFFICES ASSUME old => hurried, [Next]_vars PROVE old' => hurried'
  OBVIOUS
<1>1. CASE Drained
  BY <1>1 DEF Drained, TreeGone, CloseHandle, hist
<1>2. CASE DrainFails \/ Killed
  BY <1>2 DEF DrainFails, Killed
<1>3. CASE ~Drained /\ ~DrainFails /\ ~Killed
  <2>1. (old' => old) /\ hurried' = hurried
    BY <1>3 DEF Next, Supervise, Start, Top, Create, Assign, Resume, Watch, WatchFails,
       Wait, TerminateTree, After, RecordFails, Pause, AskToStop, WindowPasses,
       RuntimeWorks, RootEnds, KidsEnd, OldEnd, vars, hist, tree
  <2> QED
    BY <2>1
<1> QED
  BY <1>1, <1>2, <1>3

\* IInv is an inductive invariant of the supervisor.
THEOREM Inductive == Spec => []IInv
<1>1. Init => IInv
  <2> SUFFICES ASSUME Init PROVE IInv
    OBVIOUS
  <2>1. PlaceInv /\ (old => hurried)
    BY DEF Init, PlaceInv, Without, WithRuntime
  <2>a. 0 \in 0..(Limit - 1) /\ 0 \in 0..MaxLives /\ 0 \in Nat
    BY SupervisorAssumption
  <2>b. TypeOK
    BY <2>a, Zenon DEF Init, TypeOK, InSpawn
  <2>2. Limit * 0 = 0
    BY SupervisorAssumption
  <2> QED
    BY <2>1, <2>b, <2>2 DEF Init, IInv, CountInv
<1>2. IInv /\ [Next]_vars => IInv'
  BY TypeStep, PlaceStep, CountStep, OldStep DEF IInv
<1> QED
  BY <1>1, <1>2, PTL DEF Spec

\* Every variable keeps its type (supervisor.py, windows_job.py).
THEOREM TypeCorrect == Spec => []TypeOK
<1>1. IInv => TypeOK
  BY DEF IInv
<1> QED
  BY <1>1, Inductive, PTL

\* The runtime and its descendants work only inside the Job Object of a
\* supervisor (windows_job.py __init__, close).
THEOREM AlwaysContained == Spec => []Contained
<1>1. IInv => Contained
  BY DEF IInv, TypeOK, InSpawn, PlaceInv, Without, WithRuntime, Contained
<1> QED
  BY <1>1, Inductive, PTL

\* A runtime works beside what is left of an earlier one only after a drain has
\* failed or a supervisor was killed (windows_job.py close).
THEOREM Alone == Spec => []OneRuntime
<1>1. IInv => OneRuntime
  BY DEF IInv, OneRuntime
<1> QED
  BY <1>1, Inductive, PTL

\* A crash loop creates no more runtimes in the window than the limit for each
\* supervisor (supervisor.py supervise).
THEOREM LoopEnds == Spec => []LoopBounded
<1>1. IInv => LoopBounded
  BY WithinLimit DEF IInv, LoopBounded
<1> QED
  BY <1>1, Inductive, PTL
=============================================================================

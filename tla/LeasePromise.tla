---------------------------- MODULE LeasePromise ----------------------------
(***************************************************************************)
(* What the GPU lease promises, without files, locks or PIDs: it has one   *)
(* owner at a time; an owner that dies leaves it orphaned; nobody acquires *)
(* an orphan; and it is reclaimed only after its owner has died, never     *)
(* from an owner that runs, whatever that owner failed to do.              *)
(***************************************************************************)
CONSTANTS Procs, None

VARIABLES status,    \* "free", "held", "dropped" (given up uncleanly), "orphaned"
          owner,     \* the process that holds, dropped or orphaned it
          running    \* the processes that run

vars == <<status, owner, running>>

TypeOK == /\ status \in {"free", "held", "dropped", "orphaned"}
          /\ owner \in Procs \cup {None}
          /\ running \subseteq Procs

Init == status = "free" /\ owner = None /\ running = {}

Acquire(p) == /\ status = "free" /\ p \in running
              /\ status' = "held" /\ owner' = p
              /\ UNCHANGED running

Release == /\ status = "held"
           /\ status' = "free" /\ owner' = None
           /\ UNCHANGED running

\* A release that fails keeps the owner's name on the lease.
Drop == /\ status = "held"
        /\ status' = "dropped"
        /\ UNCHANGED <<owner, running>>

Reclaim == /\ status = "orphaned"
           /\ status' = "free" /\ owner' = None
           /\ UNCHANGED running

Start(p) == /\ p \notin running
            /\ running' = running \cup {p}
            /\ UNCHANGED <<status, owner>>

Die(S) == /\ running' = running \ S
          /\ status' = IF status # "free" /\ owner \in S THEN "orphaned"
                       ELSE status
          /\ UNCHANGED owner

Next == \/ \E p \in Procs : Acquire(p) \/ Start(p)
        \/ Release \/ Drop \/ Reclaim
        \/ \E S \in SUBSET Procs : Die(S)

Spec == Init /\ [][Next]_vars
=============================================================================

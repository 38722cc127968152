---------------------------- MODULE JobLifecycle ----------------------------
(***************************************************************************)
(* What the compute fabric promises about a job, with no worker, database, *)
(* lock or file in sight: a job is accepted once, jobs start one at a time *)
(* in the order they were accepted, the workload of a job is launched at   *)
(* most once, and a terminal state is final.  FabricEngine implements it.  *)
(***************************************************************************)
EXTENDS Naturals

CONSTANT Jobs        \* job identities, numbered in the order they are accepted

VARIABLES state,     \* state[j]: the lifecycle state of job j
          wanted,    \* wanted[j]: a client asked for the cancellation of j
          launches   \* launches[j]: how often the workload of j was launched

vars == <<state, wanted, launches>>

Terminal == {"COMPLETED", "FAILED", "CANCELLED"}
Active   == {"STARTING", "RUNNING"}
States   == {"ABSENT", "QUEUED"} \cup Active \cup Terminal

TypeOK == /\ state \in [Jobs -> States]
          /\ wanted \in [Jobs -> BOOLEAN]
          /\ launches \in [Jobs -> Nat]

Init == /\ state = [j \in Jobs |-> "ABSENT"]
        /\ wanted = [j \in Jobs |-> FALSE]
        /\ launches = [j \in Jobs |-> 0]

-----------------------------------------------------------------------------

Become(j, s) == state' = [state EXCEPT ![j] = s]

Accept(j) == /\ state[j] = "ABSENT"
             /\ \A k \in Jobs : k > j => state[k] = "ABSENT"
             /\ Become(j, "QUEUED")
             /\ UNCHANGED <<wanted, launches>>

\* The next job starts only when no other job is active, oldest first.
Start(j) == /\ state[j] = "QUEUED"
            /\ \A k \in Jobs : state[k] \notin Active
            /\ \A k \in Jobs : k < j => state[k] # "QUEUED"
            /\ Become(j, "STARTING")
            /\ UNCHANGED <<wanted, launches>>

Launch(j) == /\ state[j] = "STARTING"
             /\ launches[j] = 0
             /\ launches' = [launches EXCEPT ![j] = 1]
             /\ UNCHANGED <<state, wanted>>

Run(j) == /\ state[j] = "STARTING"
          /\ launches[j] = 1
          /\ Become(j, "RUNNING")
          /\ UNCHANGED <<wanted, launches>>

\* COMPLETED is reached only through RUNNING, CANCELLED only on request.
End(j, s) == /\ state[j] \in Active
             /\ s \in Terminal
             /\ s = "COMPLETED" => state[j] = "RUNNING"
             /\ s = "CANCELLED" => wanted[j]
             /\ Become(j, s)
             /\ UNCHANGED <<wanted, launches>>

RequestCancel(j) == /\ state[j] \in Active
                    /\ wanted' = [wanted EXCEPT ![j] = TRUE]
                    /\ UNCHANGED <<state, launches>>

CancelQueued(j) == /\ state[j] = "QUEUED"
                   /\ wanted' = [wanted EXCEPT ![j] = TRUE]
                   /\ Become(j, "CANCELLED")
                   /\ UNCHANGED launches

Next == \E j \in Jobs : \/ Accept(j) \/ Start(j) \/ Launch(j) \/ Run(j)
                        \/ \E s \in Terminal : End(j, s)
                        \/ RequestCancel(j) \/ CancelQueued(j)

Spec == Init /\ [][Next]_vars
=============================================================================

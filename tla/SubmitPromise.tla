---------------------------- MODULE SubmitPromise ----------------------------
(***************************************************************************)
(* What a submission of a batch job promises its caller, whatever happens  *)
(* to the messages: a key stands for one job, a caller that is told of a   *)
(* job has the job it asked for, and a refusal is the truth and stays so.  *)
(***************************************************************************)
CONSTANTS Submitters,  \* the calls of submit
          Key, Spec,   \* the idempotency key and the specification of each
          None

VARIABLES
  jobs,    \* the job of each key: its specification and who made it
  verdict  \* what each caller knows

Init == /\ jobs = [k \in {Key[s] : s \in Submitters} |-> None]
        /\ verdict = [s \in Submitters |-> "open"]

Learn(s, v) == verdict' = [verdict EXCEPT ![s] = v]

\* Also when the caller knows nothing, but never after it was refused.
Accept(s) ==
  /\ verdict[s] # "refused" /\ jobs[Key[s]] = None
  /\ jobs' = [jobs EXCEPT ![Key[s]] = [spec |-> Spec[s], maker |-> s]]
  /\ UNCHANGED verdict

TellAccepted(s) ==
  /\ verdict[s] = "open" /\ jobs[Key[s]] # None
  /\ jobs[Key[s]].spec = Spec[s]
  /\ Learn(s, "accepted") /\ UNCHANGED jobs

TellRefused(s) ==
  /\ verdict[s] = "open"
  /\ jobs[Key[s]] # None => jobs[Key[s]].maker # s
  /\ Learn(s, "refused") /\ UNCHANGED jobs

TellUnknown(s) ==
  /\ verdict[s] = "open" /\ Learn(s, "unknown") /\ UNCHANGED jobs

Next == \/ UNCHANGED <<jobs, verdict>>  \* most steps; the quickest to check
        \/ \E s \in Submitters :
             \/ Accept(s) \/ TellAccepted(s) \/ TellRefused(s) \/ TellUnknown(s)

Promise == Init /\ [][Next]_<<jobs, verdict>>
=============================================================================

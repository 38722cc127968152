----------------------------- MODULE RemoteSubmit -----------------------------
(***************************************************************************)
(* Submitting a batch job from the Mac: the command line (cli.py) and the  *)
(* plugin's controller (client.py) with its tunnel (tunnel.py), against    *)
(* the handlers of the worker (server.py) and the idempotent submit of the *)
(* engine.  Requests and answers are lost, late or cut short, the worker   *)
(* stops and restarts, and the persistent runtime loads and unloads its    *)
(* model under the same GPU lease, dies with it, and has it recovered.     *)
(***************************************************************************)
EXTENDS Naturals

CONSTANTS Submitters,  \* the calls of submit
          Plugin,      \* those made by the plugin, the others are zrun's
          Key, Spec,   \* the idempotency key and the specification of each
          Attempts,    \* how often zrun sends a request
          MaxOutages,  \* bound: how often the scheduler or the worker stops
          None

KeysUsed == {Key[s] : s \in Submitters}
Receipts == [spec : {Spec[s] : s \in Submitters}, maker : Submitters]
Jobs == [spec : {Spec[s] : s \in Submitters}, maker : Submitters,
         state : {"QUEUED", "RUNNING", "ENDED", "NO_LEASE"}]
Reports == {"JOB", "REFUSED", "CUT_SHORT", "UNKNOWN"}

ASSUME SubmitAssumption ==
  /\ Plugin \subseteq Submitters
  /\ Attempts \in Nat \ {0} /\ MaxOutages \in Nat
  /\ None \notin Jobs /\ None \notin Receipts /\ None \notin Reports \cup {"ERROR"}

VARIABLES
  at,       \* where each call stands
  verdict,  \* what it has reported
  tries,    \* the number of its request
  wire,     \* each request: "travels", "checked" by the handler, or its answer
  job,      \* the job of each key
  server,   \* "up", "degraded" (no scheduler) or "down"
  lease,    \* "free", "runtime", "fabric" or "stale"
  probe,    \* another process has the lock of the lease file for a moment: a
            \* runtime that is about to load, or a recovery
  clean,    \* history: the calls past their release, until their job starts,
            \* since which there was no stale marker and nobody but the worker
            \* has had the lock
  outages

client == <<at, verdict, tries>>
gpu    == <<lease, probe, clean>>
host   == <<server, gpu, outages>>
vars   == <<client, wire, job, host>>

Requests == Submitters \X (1..Attempts)
\* "refused" is a 409 or 422, "failed" a 503 or 500, which zrun tries again.
Answers  == {"job", "refused", "failed", "broken"}
Calling  == {"tunnel", "opening", "release", "released", "ask"}

TypeOK ==
  /\ at \in [Submitters -> Calling \cup {"idle", "done"}]
  /\ verdict \in [Submitters -> Reports \cup {None}]
  /\ tries \in [Submitters -> 0..Attempts]
  /\ wire \in [Requests -> Answers \cup {"unsent", "travels", "checked", "over"}]
  /\ job \in [KeysUsed -> Jobs \cup {None}]
  /\ server \in {"up", "degraded", "down"}
  /\ lease \in {"free", "runtime", "fabric", "stale"}
  /\ probe \in BOOLEAN /\ clean \subseteq Submitters
  /\ outages \in 0..MaxOutages

Init ==
  /\ at = [s \in Submitters |-> "idle"]
  /\ verdict = [s \in Submitters |-> None]
  /\ tries = [s \in Submitters |-> 0]
  /\ wire = [r \in Requests |-> "unsent"]
  /\ job = [k \in KeysUsed |-> None]
  /\ server = "up" /\ lease = "free" /\ probe = FALSE
  /\ clean = {} /\ outages = 0

-----------------------------------------------------------------------------
(* The caller.                                                             *)

Go(s, place) == at' = [at EXCEPT ![s] = place] /\ UNCHANGED <<verdict, tries>>

Report(s, v) ==
  /\ at' = [at EXCEPT ![s] = "done"]
  /\ verdict' = [verdict EXCEPT ![s] = v]
  /\ UNCHANGED tries

\* The connection of request r is over; a request on its way may still come.
Hang(r) == IF wire[r] \in {"travels", "checked"} THEN wire
           ELSE [wire EXCEPT ![r] = "over"]

Current(s) == <<s, tries[s]>>

Ask(s, n) ==
  /\ at' = [at EXCEPT ![s] = "ask"] /\ tries' = [tries EXCEPT ![s] = n]
  /\ UNCHANGED verdict

\* The specification, the key and the configuration are checked first.
Begin(s) ==
  /\ at[s] = "idle"
  /\ \/ Report(s, "REFUSED") /\ UNCHANGED wire
     \/ s \in Plugin /\ Go(s, "tunnel") /\ UNCHANGED wire
     \/ s \notin Plugin /\ Ask(s, 1) /\ wire' = [wire EXCEPT ![<<s, 1>>] = "travels"]
  /\ UNCHANGED <<job, host>>

\* One ssh process serves all calls of the plugin; a lock lets one call at a
\* time look after it.  It runs, or it has ended and is started again, unless
\* a port is taken.
UseTunnel(s) ==
  /\ at[s] = "tunnel" /\ \A o \in Plugin : at[o] # "opening"
  /\ Go(s, "release") \/ Go(s, "opening") \/ Report(s, "REFUSED")
  /\ UNCHANGED <<wire, job, host>>

\* Both forwards answer before the deadline, or ssh ends or is ended.
TunnelOpens(s) ==
  /\ at[s] = "opening"
  /\ Go(s, "release") \/ Report(s, "REFUSED")
  /\ UNCHANGED <<wire, job, host>>

\* A call goes on to the submission.
Past(s) == /\ Go(s, "released")
           /\ clean' = IF probe \/ lease = "stale" THEN clean ELSE clean \cup {s}

\* A stale marker is in the way of everybody who is past the release.
Marked == clean' = IF lease' = "stale" THEN {} ELSE clean

\* Seeded fault: the submission follows a release that was refused.
ReleaseAnyway(s) ==
  /\ at[s] = "release"
  /\ lease' \in IF lease = "runtime" THEN {"runtime", "free"} ELSE {lease}
  /\ Past(s)
  /\ UNCHANGED <<wire, job, server, probe, outages>>

\* The runtime unloads its model, or it has none and nothing to give back, or
\* no more than the marker of a lease that it has lost: success as well.  Or it
\* refuses, fails on the way, ends or cannot be reached.
Release(s) ==
  /\ at[s] = "release"
  /\ \/ /\ lease' = IF lease = "runtime" THEN "free" ELSE lease
        /\ Past(s)
     \/ /\ lease' \in IF lease = "runtime" THEN {"runtime", "free", "stale"}
                      ELSE {lease}
        /\ Marked /\ Report(s, "REFUSED")
  /\ UNCHANGED <<wire, job, server, probe, outages>>

\* The confirmation arrives and the job is sent; or it does not arrive.
SubmitJob(s) ==
  /\ at[s] = "released"
  /\ \/ Ask(s, 1) /\ wire' = [wire EXCEPT ![<<s, 1>>] = "travels"]
     \/ Report(s, "REFUSED") /\ UNCHANGED wire
  /\ UNCHANGED <<job, host>>

\* Seeded fault: the plugin repeats a request as zrun does.
SameAttempts(s) == Attempts

AttemptsOf(s) == IF s \in Plugin THEN 1 ELSE Attempts

\* Seeded fault: the number of attempts is not looked at.
AlwaysAgain(s, v) == Ask(s, tries[s] + 1) /\ wire' = Hang(Current(s))

AgainOr(s, v) ==
  IF tries[s] < AttemptsOf(s)
  THEN /\ Ask(s, tries[s] + 1)
       /\ wire' = [Hang(Current(s)) EXCEPT ![<<s, tries[s] + 1>>] = "travels"]
  ELSE Report(s, v) /\ wire' = Hang(Current(s))

\* A body that ends early is read as invalid JSON, not as a broken connection.
GetAnswer(s) ==
  /\ at[s] = "ask"
  /\ LET answer == wire[Current(s)] IN
       \/ answer = "job" /\ Report(s, "JOB") /\ wire' = Hang(Current(s))
       \/ answer = "refused" /\ Report(s, "REFUSED") /\ wire' = Hang(Current(s))
       \/ answer = "broken" /\ Report(s, "CUT_SHORT") /\ wire' = Hang(Current(s))
       \/ answer = "failed" /\ AgainOr(s, "REFUSED")
  /\ UNCHANGED <<job, host>>

\* No answer: refused, reset, lost or too late.  The request may be at work
\* all the same, now or later.
GiveUp(s) ==
  /\ at[s] = "ask" /\ AgainOr(s, "UNKNOWN")
  /\ UNCHANGED <<job, host>>

Operate(s) ==
  \/ Begin(s) \/ UseTunnel(s) \/ TunnelOpens(s) \/ Release(s)
  \/ SubmitJob(s) \/ GetAnswer(s) \/ GiveUp(s)

-----------------------------------------------------------------------------
(* The network and the worker.                                             *)

\* The connection ends before the body with the job.  (The code of an error
\* comes first.)  Whatever else is lost is an answer that its caller gives up,
\* or a request that never arrives.
CutShort(r) ==
  /\ wire[r] = "job" /\ wire' = [wire EXCEPT ![r] = "broken"]
  /\ UNCHANGED <<client, job, host>>

\* An answer goes to a client that still listens.
Respond(r, answer) ==
  wire' = [wire EXCEPT ![r] = IF at[r[1]] = "ask" /\ r = Current(r[1])
                              THEN answer ELSE "over"]

\* The handler looks at the health of the scheduler before it reads the job.
CheckHealth(r) ==
  /\ wire[r] = "travels" /\ server # "down"
  /\ IF server = "up" THEN wire' = [wire EXCEPT ![r] = "checked"]
                      ELSE Respond(r, "failed")
  /\ UNCHANGED <<client, job, host>>

\* A new key, a valid job; or the job is not valid, or a file or the database
\* fails before the row is there.
Accept(r) ==
  LET s == r[1] IN
  /\ wire[r] = "checked" /\ job[Key[s]] = None
  /\ \/ /\ job' = [job EXCEPT ![Key[s]] =
                     [spec |-> Spec[s], maker |-> s, state |-> "QUEUED"]]
        /\ Respond(r, "job")
     \/ UNCHANGED job /\ (Respond(r, "refused") \/ Respond(r, "failed"))
  /\ UNCHANGED <<client, host>>

Repeat(r) ==
  LET s == r[1] IN
  /\ wire[r] = "checked" /\ job[Key[s]] # None
  /\ Respond(r, IF job[Key[s]].spec = Spec[s] THEN "job" ELSE "refused")
  /\ UNCHANGED <<client, job, host>>

Started(k) == clean' = clean \ {job[k].maker}
Becomes(k, state) == job' = [job EXCEPT ![k].state = state]
InState(state) == {k \in KeysUsed : job[k] # None /\ job[k].state = state}

\* One job at a time.  With the lease it is at work until it gives the lease
\* back.  A lock that somebody has and a marker without one are both GPU_BUSY.
\* Or the job ends without the lease: it is cancelled, needs no GPU, or fails
\* otherwise.
StartJob(k) ==
  /\ k \in InState("QUEUED") /\ InState("RUNNING") = {} /\ server = "up"
  /\ \/ /\ lease = "free" /\ ~probe /\ lease' = "fabric"
        /\ Becomes(k, "RUNNING") /\ Started(k)
     \/ /\ lease # "free" \/ probe
        /\ Becomes(k, "NO_LEASE") /\ UNCHANGED <<lease, clean>>
     \/ Becomes(k, "ENDED") /\ Started(k) /\ UNCHANGED lease
  /\ UNCHANGED <<client, wire, server, probe, outages>>

EndJob(k) ==
  /\ k \in InState("RUNNING") /\ lease = "fabric"
  /\ Becomes(k, "ENDED") /\ lease' = "free"
  /\ UNCHANGED <<client, wire, server, probe, clean, outages>>

\* The lock goes, the marker may stay; the scheduler stops and leaves the row.
GiveBackFails ==
  /\ lease = "fabric" /\ outages < MaxOutages
  /\ lease' \in {"free", "stale"} /\ Marked
  /\ server' = "degraded" /\ outages' = outages + 1
  /\ UNCHANGED <<client, wire, job, probe>>

\* The scheduler stops first, the process later or at once.
Degrade ==
  /\ server = "up" /\ outages < MaxOutages
  /\ server' = "degraded" /\ outages' = outages + 1
  /\ UNCHANGED <<client, wire, job, gpu>>

WorkerEnds ==
  /\ server # "down" /\ outages < MaxOutages
  /\ server' = "down" /\ outages' = outages + 1
  /\ wire' = [r \in Requests |-> IF wire[r] = "checked" THEN "over" ELSE wire[r]]
  /\ lease' = IF lease = "fabric" THEN "stale" ELSE lease
  /\ Marked
  /\ UNCHANGED <<client, job, probe>>

\* An interrupted job ends, none is started again.
WorkerStarts ==
  /\ server = "down" /\ server' = "up"
  /\ job' = [k \in KeysUsed |-> IF k \in InState("RUNNING")
                                THEN [job[k] EXCEPT !.state = "ENDED"] ELSE job[k]]
  /\ UNCHANGED <<client, wire, gpu, outages>>

-----------------------------------------------------------------------------
(* The lease, for other clients of the runtime and for the supervisor.     *)

\* A load or a recovery locks the file.
Probe ==
  /\ lease \in {"free", "stale"} /\ ~probe
  /\ probe' = TRUE /\ clean' = {}
  /\ UNCHANGED <<client, wire, job, server, lease, outages>>

\* The load has the lease, or could not write its marker to the end; it found a
\* stale marker, or the recovery cleared it or may not.
ProbeEnds ==
  /\ probe /\ probe' = FALSE
  /\ lease' \in IF lease = "free" THEN {"free", "runtime", "stale"}
                ELSE {"stale", "free"}
  /\ Marked
  /\ UNCHANGED <<client, wire, job, server, outages>>

\* The runtime unloads for somebody else, fails to, or ends with the lease.
Free ==
  /\ lease = "runtime" /\ lease' \in {"free", "stale"} /\ Marked
  /\ UNCHANGED <<client, wire, job, server, probe, outages>>

Next ==
  \/ \E s \in Submitters : Operate(s)
  \/ \E r \in Requests : CutShort(r) \/ CheckHealth(r) \/ Accept(r) \/ Repeat(r)
  \/ \E k \in KeysUsed : StartJob(k) \/ EndJob(k)
  \/ GiveBackFails \/ Degrade \/ WorkerEnds \/ WorkerStarts
  \/ Probe \/ ProbeEnds \/ Free

SubmitSpec == Init /\ [][Next]_vars

-----------------------------------------------------------------------------
(* Properties.                                                             *)

\* The status a call of the plugin carries.  A cut answer is invalid JSON to
\* the client and an ERROR of the same code as a refusal.
Status(s) == IF verdict[s] \in {"REFUSED", "CUT_SHORT"} THEN "ERROR"
             ELSE verdict[s]

\* What a call learns, in the words of SubmitPromise.  zrun says of every error
\* that the same key is to be used again.  The plugin's ERROR says that there is
\* no job when the worker, or a step before it, refused; of a cut answer, which
\* is an ERROR too, nothing is promised: ErrorMeansNoJob.
Says(s, v) ==
  CASE v = None -> "open"
    [] v = "JOB" -> "accepted"
    [] v = "REFUSED" -> IF s \in Plugin THEN "refused" ELSE "unknown"
    [] OTHER -> "unknown"

Verdict(s) == Says(s, verdict[s])

\* What SubmitPromise knows of a job.
Receipt(k) == IF job[k] = None THEN None
              ELSE [spec |-> job[k].spec, maker |-> job[k].maker]

Promised == INSTANCE SubmitPromise WITH
  jobs <- [k \in KeysUsed |-> Receipt(k)],
  verdict <- [s \in Submitters |-> Verdict(s)]

\* One job for a key over lost, late and repeated requests; whoever is told of
\* a job has the one it asked for; a call of the plugin that is refused, by an
\* answer it could read or before it asked, has made none, and no late request
\* makes one.  An answer cut short is not such a refusal, though the plugin
\* reports ERROR for both (client.py submit_job, cli.py _retry, engine.py
\* submit).
KeepsPromise == Promised!Promise

\* The call s has made the job of its key.
Made(s) == job[Key[s]] # None /\ job[Key[s]].maker = s

\* "an unknown remote outcome remains explicit and cannot be mistaken for a
\* failure" (errors.py:15): whoever is told ERROR has made no job.
ErrorMeansNoJob == \A s \in Plugin : Status(s) = "ERROR" => ~Made(s)

\* A job that the plugin submitted fails for the lease only when, at its
\* release or since, a stale marker was there or another process has had the
\* lock: a load, a recovery (client.py submit_job: a release that is refused is
\* never followed by a job; engine.py _execute).
LeaseFailureExplained ==
  \A k \in InState("NO_LEASE") : job[k].maker \in Plugin => job[k].maker \notin clean
=============================================================================

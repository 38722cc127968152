------------------------- MODULE RemoteSubmitProofs -------------------------
(***************************************************************************)
(* Proofs about the submission of a batch job: it keeps SubmitPromise, and *)
(* a plugin's job that finds no lease is explained, for any calls, keys,   *)
(* specifications, attempts and outages.                                   *)
(***************************************************************************)
EXTENDS RemoteSubmit, TLAPS

\* A call knows the number of its request and has one verdict.
CallInv ==
  \A s \in Submitters : /\ at[s] = "done" <=> verdict[s] # None
                        /\ at[s] = "ask" => tries[s] \in 1..Attempts

\* The plugin sends one request, and is refused before it is sent or after it
\* is over without a job.
PluginCall(s) ==
  /\ at[s] \notin {"ask", "done"} => wire[<<s, 1>>] = "unsent"
  /\ \A n \in 2..Attempts : wire[<<s, n>>] = "unsent"
  /\ at[s] = "ask" => tries[s] = 1
  /\ Made(s) => wire[<<s, 1>>] \in {"job", "broken", "over"}
  /\ verdict[s] = "REFUSED" => wire[<<s, 1>>] \in {"unsent", "over"} /\ ~Made(s)

PluginInv == \A s \in Plugin : PluginCall(s)

\* Who is answered with a job, or with the beginning of one, is answered with
\* what it asked for.
AnswerInv ==
  \A s \in Submitters, n \in 1..Attempts :
    wire[<<s, n>>] \in {"job", "broken"} =>
      job[Key[s]] # None /\ job[Key[s]].spec = Spec[s]

\* A cut answer is always that of a job.
CutInv ==
  \A s \in Submitters : verdict[s] = "CUT_SHORT" =>
    job[Key[s]] # None /\ job[Key[s]].spec = Spec[s]

\* The worker has the lease while it runs a job; a lease of the runtime, a lock
\* of another process and a stale marker are all known to the history.
LeaseInv ==
  /\ lease = "fabric" => InState("RUNNING") # {} /\ server # "down"
  /\ lease \in {"runtime", "stale"} \/ probe => clean = {}

\* A job has the key of the call that made it.
MakerInv == \A k \in KeysUsed : job[k] # None => Key[job[k].maker] = k

IInv == /\ TypeOK /\ CallInv /\ PluginInv /\ AnswerInv /\ CutInv
        /\ MakerInv /\ LeaseInv /\ LeaseFailureExplained

-----------------------------------------------------------------------------

\* A job that is there keeps its specification and its maker (engine.py _update).
LEMMA JobKept ==
  ASSUME TypeOK, NEW k \in KeysUsed, job[k] # None,
         NEW st \in {"QUEUED", "RUNNING", "ENDED", "NO_LEASE"}
  PROVE  LET j == [job[k] EXCEPT !.state = st] IN
         /\ j \in Jobs /\ j # None /\ j.state = st
         /\ j.spec = job[k].spec /\ j.maker = job[k].maker
<1>1. job[k] \in Jobs
  BY DEF TypeOK
<1> QED
  BY <1>1, SubmitAssumption DEF Jobs

\* A job that starts or ends stays the job of its key (engine.py _execute).
LEMMA Moves ==
  ASSUME TypeOK, NEW k \in KeysUsed, StartJob(k) \/ EndJob(k)
  PROVE  /\ job[k] # None /\ job'[k] \in Jobs /\ job'[k] # None
         /\ job'[k].spec = job[k].spec /\ job'[k].maker = job[k].maker
         /\ \A i \in KeysUsed \ {k} : job'[i] = job[i]
         /\ job' \in [KeysUsed -> Jobs \cup {None}]
<1>1. PICK st \in {"QUEUED", "RUNNING", "ENDED", "NO_LEASE"} :
        job[k] # None /\ job' = [job EXCEPT ![k] = [job[k] EXCEPT !.state = st]]
  BY DEF StartJob, EndJob, Becomes, InState
<1>2. LET j == [job[k] EXCEPT !.state = st] IN
         /\ j \in Jobs /\ j # None /\ j.state = st
         /\ j.spec = job[k].spec /\ j.maker = job[k].maker
  BY <1>1, JobKept
<1> QED
  BY <1>1, <1>2 DEF TypeOK

\* Recovery ends jobs and makes none (engine.py _recover).
LEMMA Recovers ==
  ASSUME TypeOK, WorkerStarts
  PROVE  /\ job' \in [KeysUsed -> Jobs \cup {None}]
         /\ \A k \in KeysUsed :
              /\ job[k] = None => job'[k] = None
              /\ job[k] # None => /\ job'[k] # None /\ job'[k].spec = job[k].spec
                                 /\ job'[k].maker = job[k].maker
              /\ job'[k] = job[k] \/ (job[k] # None /\ job'[k].state = "ENDED")
<1>1. ASSUME NEW k \in KeysUsed
      PROVE  /\ job'[k] \in Jobs \cup {None}
             /\ job[k] = None => job'[k] = None
             /\ job[k] # None => /\ job'[k] # None /\ job'[k].spec = job[k].spec
                                /\ job'[k].maker = job[k].maker
             /\ job'[k] = job[k] \/ (job[k] # None /\ job'[k].state = "ENDED")
  <2>1. job'[k] = IF job[k] # None /\ job[k].state = "RUNNING"
                  THEN [job[k] EXCEPT !.state = "ENDED"] ELSE job[k]
    BY DEF WorkerStarts, InState
  <2>2. job[k] # None => LET j == [job[k] EXCEPT !.state = "ENDED"] IN
          /\ j \in Jobs /\ j # None /\ j.state = "ENDED"
          /\ j.spec = job[k].spec /\ j.maker = job[k].maker
    BY JobKept
  <2> QED
    BY <2>1, <2>2 DEF TypeOK
<1>2. job' = [k \in KeysUsed |-> job'[k]]
  BY DEF WorkerStarts
<1> QED
  BY <1>1, <1>2

\* A new row, or a refusal that makes none (engine.py submit).
LEMMA Accepted ==
  ASSUME TypeOK, NEW r \in Requests, Accept(r)
  PROVE  /\ r[1] \in Submitters /\ Key[r[1]] \in KeysUsed
         /\ wire[r] = "checked" /\ \A q \in Requests \ {r} : wire'[q] = wire[q]
         /\ job' \in [KeysUsed -> Jobs \cup {None}]
         /\ \/ job' = job /\ wire'[r] \in {"refused", "failed", "over"}
            \/ /\ wire'[r] \in {"job", "over"} /\ job[Key[r[1]]] = None
               /\ job'[Key[r[1]]] # None /\ job'[Key[r[1]]].spec = Spec[r[1]]
               /\ job'[Key[r[1]]].maker = r[1] /\ job'[Key[r[1]]].state = "QUEUED"
               /\ \A i \in KeysUsed : i # Key[r[1]] => job'[i] = job[i]
<1> DEFINE new == [spec |-> Spec[r[1]], maker |-> r[1], state |-> "QUEUED"]
<1>1. r[1] \in Submitters /\ Key[r[1]] \in KeysUsed
  BY DEF Requests, KeysUsed
<1>2. /\ new \in Jobs /\ new # None /\ new.spec = Spec[r[1]] /\ new.maker = r[1]
      /\ new.state = "QUEUED"
  BY <1>1, SubmitAssumption DEF Jobs
<1>3. /\ wire[r] = "checked" /\ job[Key[r[1]]] = None
      /\ \/ job' = [job EXCEPT ![Key[r[1]]] = new] /\ Respond(r, "job")
         \/ UNCHANGED job /\ (Respond(r, "refused") \/ Respond(r, "failed"))
  BY DEF Accept
<1> HIDE DEF new
<1>4. \A q \in Requests \ {r} : wire'[q] = wire[q]
  BY <1>3 DEF TypeOK, Respond
<1>5. CASE job' = [job EXCEPT ![Key[r[1]]] = new] /\ Respond(r, "job")
  <2>1. wire'[r] \in {"job", "over"}
    BY <1>5 DEF TypeOK, Respond
  <2>2. /\ job'[Key[r[1]]] = new /\ job' \in [KeysUsed -> Jobs \cup {None}]
        /\ \A i \in KeysUsed : i # Key[r[1]] => job'[i] = job[i]
    BY <1>1, <1>2, <1>5 DEF TypeOK
  <2> QED
    BY <1>1, <1>2, <1>3, <1>4, <2>1, <2>2
<1>6. CASE UNCHANGED job /\ (Respond(r, "refused") \/ Respond(r, "failed"))
  <2>1. wire'[r] \in {"refused", "failed", "over"}
    BY <1>6 DEF TypeOK, Respond
  <2> QED
    BY <1>1, <1>3, <1>4, <1>6, <2>1 DEF TypeOK
<1> QED
  BY <1>3, <1>5, <1>6

\* The variables keep their types (cli.py, client.py, server.py).
LEMMA TypeStep ==
  TypeOK /\ [Next]_vars => TypeOK'
<1> SUFFICES ASSUME TypeOK, [Next]_vars
             PROVE  TypeOK'
  OBVIOUS
<1> USE SubmitAssumption DEF TypeOK, Answers, Calling, Requests, Reports
<1>1. ASSUME NEW s \in Submitters, Begin(s) PROVE TypeOK'
  <2>1. /\ at' \in [Submitters -> Calling \cup {"idle", "done"}]
        /\ verdict' \in [Submitters -> Reports \cup {None}]
        /\ tries' \in [Submitters -> 0..Attempts]
    BY <1>1 DEF Begin, Go, Report, Ask
  <2>2. wire' \in [Requests -> Answers \cup {"unsent", "travels", "checked", "over"}]
    BY <1>1 DEF Begin
  <2> QED
    BY <1>1, <2>1, <2>2 DEF Begin, host, gpu
<1>2. ASSUME NEW s \in Submitters, UseTunnel(s) PROVE TypeOK'
  BY <1>2 DEF UseTunnel, Go, Report, host, gpu
<1>3. ASSUME NEW s \in Submitters, TunnelOpens(s) PROVE TypeOK'
  BY <1>3 DEF TunnelOpens, Go, Report, host, gpu
<1>4. ASSUME NEW s \in Submitters, Release(s) PROVE TypeOK'
  BY <1>4 DEF Release, Past, Marked, Go, Report
<1>5. ASSUME NEW s \in Submitters, SubmitJob(s) PROVE TypeOK'
  <2>1. /\ at' \in [Submitters -> Calling \cup {"idle", "done"}]
        /\ verdict' \in [Submitters -> Reports \cup {None}]
        /\ tries' \in [Submitters -> 0..Attempts]
    BY <1>5 DEF SubmitJob, Ask, Report
  <2>2. wire' \in [Requests -> Answers \cup {"unsent", "travels", "checked", "over"}]
    BY <1>5 DEF SubmitJob
  <2> QED
    BY <1>5, <2>1, <2>2 DEF SubmitJob, host, gpu
<1>6. ASSUME NEW s \in Submitters, GetAnswer(s) PROVE TypeOK'
  BY <1>6 DEF GetAnswer, Report, Ask, Hang, Current, AgainOr, AttemptsOf,
     host, gpu
<1>7. ASSUME NEW s \in Submitters, GiveUp(s) PROVE TypeOK'
  <2>1. /\ at' \in [Submitters -> Calling \cup {"idle", "done"}]
        /\ verdict' \in [Submitters -> Reports \cup {None}]
    BY <1>7 DEF GiveUp, AgainOr, Ask, Report
  <2>2. AttemptsOf(s) \in 0..Attempts /\ tries[s] \in 0..Attempts
    BY DEF AttemptsOf
  <2>3. tries' \in [Submitters -> 0..Attempts]
    BY <1>7, <2>2 DEF GiveUp, AgainOr, Ask, Report
  <2>4. wire' \in [Requests -> Answers \cup {"unsent", "travels", "checked", "over"}]
    BY <1>7 DEF GiveUp, AgainOr, Hang
  <2> QED
    BY <1>7, <2>1, <2>3, <2>4 DEF GiveUp, host, gpu
<1>8. ASSUME NEW r \in Requests, CutShort(r) PROVE TypeOK'
  BY <1>8 DEF CutShort, client, host, gpu
<1>9. ASSUME NEW r \in Requests, CheckHealth(r) PROVE TypeOK'
  BY <1>9 DEF CheckHealth, Current, Respond, client, host, gpu
<1>10. ASSUME NEW r \in Requests, Accept(r) PROVE TypeOK'
  <2>1. job' \in [KeysUsed -> Jobs \cup {None}]
    BY <1>10, Accepted
  <2>2. wire' \in [Requests -> Answers \cup {"unsent", "travels", "checked", "over"}]
    BY <1>10 DEF Accept, Respond, Current
  <2> QED
    BY <1>10, <2>1, <2>2 DEF Accept, client, host, gpu
<1>11. ASSUME NEW r \in Requests, Repeat(r) PROVE TypeOK'
  BY <1>11 DEF Repeat, Current, Respond, client, host, gpu
<1>12. ASSUME NEW k \in KeysUsed, StartJob(k) PROVE TypeOK'
  BY <1>12, Moves DEF StartJob, Started, client
<1>13. ASSUME NEW k \in KeysUsed, EndJob(k) PROVE TypeOK'
  BY <1>13, Moves DEF EndJob, client
<1>14. CASE Degrade
  BY <1>14 DEF Degrade, client, gpu
<1>15. CASE WorkerEnds
  BY <1>15 DEF WorkerEnds, Marked, client
<1>16. CASE WorkerStarts
  BY <1>16, Recovers DEF WorkerStarts, client, gpu
<1>17. CASE GiveBackFails
  BY <1>17 DEF GiveBackFails, Marked, client
<1>18. CASE Probe
  BY <1>18 DEF Probe, client
<1>19. CASE ProbeEnds
  BY <1>19 DEF ProbeEnds, Marked, client
<1>20. CASE Free
  BY <1>20 DEF Free, Marked, client
<1>21. CASE UNCHANGED vars
  BY <1>21 DEF vars, client, host, gpu
<1> QED
  BY <1>1, <1>2, <1>3, <1>4, <1>5, <1>6, <1>7, <1>8, <1>9, <1>10, <1>11,
     <1>12, <1>13, <1>14, <1>15, <1>16, <1>17, <1>18, <1>19, <1>20, <1>21
  DEF Next, Operate

\* A call that has reported is over, one that asks counts its requests (cli.py
\* _retry).
LEMMA CallStep ==
  TypeOK /\ CallInv /\ [Next]_vars => CallInv'
<1> SUFFICES ASSUME TypeOK, CallInv, [Next]_vars
             PROVE  CallInv'
  OBVIOUS
<1> USE SubmitAssumption DEF TypeOK, CallInv, Reports
<1>1. ASSUME NEW s \in Submitters, Begin(s) PROVE CallInv'
  BY <1>1 DEF Begin, Go, Report, Ask, host, gpu
<1>2. ASSUME NEW s \in Submitters, UseTunnel(s) PROVE CallInv'
  BY <1>2 DEF UseTunnel, Go, Report, host, gpu
<1>3. ASSUME NEW s \in Submitters, TunnelOpens(s) PROVE CallInv'
  BY <1>3 DEF TunnelOpens, Go, Report, host, gpu
<1>4. ASSUME NEW s \in Submitters, Release(s) PROVE CallInv'
  BY <1>4 DEF Release, Past, Marked, Go, Report
<1>5. ASSUME NEW s \in Submitters, SubmitJob(s) PROVE CallInv'
  BY <1>5 DEF SubmitJob, Report, Ask, host, gpu
<1>6. ASSUME NEW s \in Submitters, GetAnswer(s) PROVE CallInv'
  BY <1>6 DEF GetAnswer, Report, Ask, Hang, Current, AgainOr, AttemptsOf,
     host, gpu
<1>7. ASSUME NEW s \in Submitters, GiveUp(s) PROVE CallInv'
  BY <1>7 DEF GiveUp, Report, Ask, Hang, Current, AgainOr, AttemptsOf, host, gpu
<1>8. ASSUME NEW r \in Requests, CutShort(r) PROVE CallInv'
  BY <1>8 DEF CutShort, client, host, gpu
<1>9. ASSUME NEW r \in Requests, CheckHealth(r) PROVE CallInv'
  BY <1>9 DEF CheckHealth, Current, Respond, client, host, gpu
<1>10. ASSUME NEW r \in Requests, Accept(r) PROVE CallInv'
  BY <1>10 DEF Accept, Current, Respond, client, host, gpu
<1>11. ASSUME NEW r \in Requests, Repeat(r) PROVE CallInv'
  BY <1>11 DEF Repeat, Current, Respond, client, host, gpu
<1>12. ASSUME NEW k \in KeysUsed, StartJob(k) PROVE CallInv'
  BY <1>12 DEF StartJob, client, Becomes, InState
<1>13. ASSUME NEW k \in KeysUsed, EndJob(k) PROVE CallInv'
  BY <1>13 DEF EndJob, client, Becomes, InState
<1>14. CASE Degrade
  BY <1>14 DEF Degrade, client, gpu
<1>15. CASE WorkerEnds
  BY <1>15 DEF WorkerEnds, Marked, client
<1>16. CASE WorkerStarts
  BY <1>16 DEF WorkerStarts, InState, client, gpu
<1>17. CASE GiveBackFails
  BY <1>17 DEF GiveBackFails, Marked, client
<1>18. CASE Probe
  BY <1>18 DEF Probe, client
<1>19. CASE ProbeEnds
  BY <1>19 DEF ProbeEnds, Marked, client
<1>20. CASE Free
  BY <1>20 DEF Free, Marked, client
<1>21. CASE UNCHANGED vars
  BY <1>21 DEF vars, client, host, gpu
<1> QED
  BY <1>1, <1>2, <1>3, <1>4, <1>5, <1>6, <1>7, <1>8, <1>9, <1>10, <1>11,
     <1>12, <1>13, <1>14, <1>15, <1>16, <1>17, <1>18, <1>19, <1>20, <1>21
  DEF Next, Operate

\* The one request of a plugin's call is over before the call is refused, and
\* has made no job (client.py submit_job, server.py dispatch).
LEMMA PluginStep ==
  TypeOK /\ CallInv /\ PluginInv /\ [Next]_vars => PluginInv'
<1> SUFFICES ASSUME TypeOK, CallInv, PluginInv, [Next]_vars, NEW p \in Plugin
             PROVE  PluginCall(p)'
  BY DEF PluginInv
<1> USE SubmitAssumption DEF TypeOK, CallInv, PluginInv, PluginCall, Made, Answers, Requests
<1>1. ASSUME NEW s \in Submitters, Begin(s) PROVE PluginCall(p)'
  BY <1>1 DEF Begin, Go, Report, Ask, host, gpu
<1>2. ASSUME NEW s \in Submitters, UseTunnel(s) PROVE PluginCall(p)'
  BY <1>2 DEF UseTunnel, Go, Report, host, gpu
<1>3. ASSUME NEW s \in Submitters, TunnelOpens(s) PROVE PluginCall(p)'
  BY <1>3 DEF TunnelOpens, Go, Report, host, gpu
<1>4. ASSUME NEW s \in Submitters, Release(s) PROVE PluginCall(p)'
  BY <1>4 DEF Release, Past, Marked, Go, Report
<1>5. ASSUME NEW s \in Submitters, SubmitJob(s) PROVE PluginCall(p)'
  <2>1. CASE s = p
    <3>1. /\ at[p] = "released" /\ wire[<<p, 1>>] = "unsent" /\ ~Made(p)
          /\ <<p, 1>> \in Requests
      BY <1>5, <2>1 DEF SubmitJob
    <3>2. CASE Ask(p, 1) /\ wire' = [wire EXCEPT ![<<p, 1>>] = "travels"]
      <4>1. /\ at'[p] = "ask" /\ tries'[p] = 1 /\ verdict' = verdict /\ job' = job
            /\ verdict[p] = None
        BY <1>5, <2>1, <3>1, <3>2 DEF SubmitJob, Ask
      <4>2. wire'[<<p, 1>>] = "travels"
        BY <3>1, <3>2
      <4>3. \A n \in 2..Attempts : wire'[<<p, n>>] = wire[<<p, n>>]
        BY <3>2
      <4> QED
        BY <3>1, <4>1, <4>2, <4>3 DEF Reports
    <3>3. CASE Report(p, "REFUSED") /\ UNCHANGED wire
      BY <1>5, <2>1, <3>1, <3>3 DEF SubmitJob, Report
    <3> QED
      BY <1>5, <2>1, <3>2, <3>3 DEF SubmitJob
  <2>2. CASE s # p
    <3>1. /\ at'[p] = at[p] /\ verdict'[p] = verdict[p] /\ tries'[p] = tries[p]
          /\ job' = job /\ \A n \in 1..Attempts : wire'[<<p, n>>] = wire[<<p, n>>]
      BY <1>5, <2>2 DEF SubmitJob, Ask, Report
    <3> QED
      BY <3>1
  <2> QED
    BY <2>1, <2>2
<1>6. ASSUME NEW s \in Submitters, GetAnswer(s) PROVE PluginCall(p)'
  BY <1>6 DEF GetAnswer, Report, Ask, Hang, Current, AgainOr, AttemptsOf,
     host, gpu
<1>7. ASSUME NEW s \in Submitters, GiveUp(s) PROVE PluginCall(p)'
  BY <1>7 DEF GiveUp, Report, Ask, Hang, Current, AgainOr, AttemptsOf, host, gpu
<1>8. ASSUME NEW r \in Requests, CutShort(r) PROVE PluginCall(p)'
  <2>1. /\ UNCHANGED <<at, verdict, tries, job>> /\ wire[r] = "job"
        /\ \A q \in Requests : wire'[q] = IF q = r THEN "broken" ELSE wire[q]
    BY <1>8 DEF CutShort, client
  <2>2. \A n \in 1..Attempts : <<p, n>> \in Requests
    OBVIOUS
  <2> QED
    BY <2>1, <2>2
<1>9. ASSUME NEW r \in Requests, CheckHealth(r) PROVE PluginCall(p)'
  BY <1>9 DEF CheckHealth, Current, Respond, client, host, gpu
<1>10. ASSUME NEW r \in Requests, Accept(r) PROVE PluginCall(p)'
  <2>1. Key[p] \in KeysUsed /\ at' = at /\ verdict' = verdict /\ tries' = tries
    BY <1>10 DEF Accept, client, KeysUsed
  <2>2. /\ r[1] \in Submitters /\ wire[r] = "checked"
        /\ \A q \in Requests \ {r} : wire'[q] = wire[q]
        /\ job' = job \/ wire'[r] \in {"job", "over"}
        /\ wire'[r] \in {"job", "refused", "failed", "over"}
    BY <1>10, Accepted
  <2>3. CASE r[1] = p /\ r[2] = 1
    <3>1. r = <<p, 1>>
      BY <2>3
    <3>2. ~Made(p) /\ verdict[p] # "REFUSED" /\ at[p] \in {"ask", "done"}
      BY <2>2, <3>1
    <3>3. /\ \A n \in 2..Attempts : wire'[<<p, n>>] = "unsent"
          /\ wire'[<<p, 1>>] \in {"job", "over"} \/ job' = job
      BY <2>2, <3>1
    <3>4. Made(p)' => wire'[<<p, 1>>] \in {"job", "over"}
      BY <3>2, <3>3
    <3> QED
      BY <2>1, <3>2, <3>3, <3>4
  <2>4. CASE ~(r[1] = p /\ r[2] = 1)
    <3>0. r = <<r[1], r[2]>> /\ r[2] \in 1..Attempts
      OBVIOUS
    <3>1. r[1] # p
      <4> SUFFICES ASSUME r[1] = p PROVE FALSE
        OBVIOUS
      <4>1. r = <<p, r[2]>> /\ r[2] \in 2..Attempts
        BY <2>4, <3>0
      <4>3. \A n \in 2..Attempts : wire[<<p, n>>] = "unsent"
        OBVIOUS
      <4>2. wire[<<p, r[2]>>] = "unsent"
        BY <4>1, <4>3, Zenon
      <4> QED
        BY <2>2, <4>1, <4>2
    <3>2. Made(p)' => Made(p)
      <4>1. CASE Key[p] = Key[r[1]]
        BY <1>10, <2>1, <3>1, <4>1, Accepted
      <4>2. CASE Key[p] # Key[r[1]]
        BY <1>10, <2>1, <4>2, Accepted
      <4> QED
        BY <4>1, <4>2
    <3>3. \A n \in 1..Attempts : wire'[<<p, n>>] = wire[<<p, n>>]
      BY <2>2, <3>1
    <3> QED
      BY <2>1, <3>2, <3>3
  <2> QED
    BY <2>3, <2>4
<1>11. ASSUME NEW r \in Requests, Repeat(r) PROVE PluginCall(p)'
  BY <1>11 DEF Repeat, Current, Respond, client, host, gpu
<1>12. ASSUME NEW k \in KeysUsed, StartJob(k) PROVE PluginCall(p)'
  <2>1. Key[p] \in KeysUsed /\ wire' = wire /\ at' = at /\ verdict' = verdict
        /\ tries' = tries
    BY <1>12 DEF StartJob, client, KeysUsed
  <2>2. Made(p)' => Made(p)
    BY <1>12, <2>1, Moves DEF Made
  <2> QED
    BY <2>1, <2>2
<1>13. ASSUME NEW k \in KeysUsed, EndJob(k) PROVE PluginCall(p)'
  <2>1. Key[p] \in KeysUsed /\ wire' = wire /\ at' = at /\ verdict' = verdict
        /\ tries' = tries
    BY <1>13 DEF EndJob, client, KeysUsed
  <2>2. Made(p)' => Made(p)
    BY <1>13, <2>1, Moves DEF Made
  <2> QED
    BY <2>1, <2>2
<1>14. CASE Degrade
  BY <1>14 DEF Degrade, client, gpu
<1>15. CASE WorkerEnds
  BY <1>15 DEF WorkerEnds, Marked, client
<1>16. CASE WorkerStarts
  <2>1. Key[p] \in KeysUsed /\ wire' = wire /\ at' = at /\ verdict' = verdict
        /\ tries' = tries
    BY <1>16 DEF WorkerStarts, client, gpu, KeysUsed
  <2>2. Made(p)' => Made(p)
    BY <1>16, <2>1, Recovers DEF Made
  <2> QED
    BY <2>1, <2>2
<1>17. CASE GiveBackFails
  BY <1>17 DEF GiveBackFails, Marked, client
<1>18. CASE Probe
  BY <1>18 DEF Probe, client
<1>19. CASE ProbeEnds
  BY <1>19 DEF ProbeEnds, Marked, client
<1>20. CASE Free
  BY <1>20 DEF Free, Marked, client
<1>21. CASE UNCHANGED vars
  BY <1>21 DEF vars, client, host, gpu
<1> QED
  BY <1>1, <1>2, <1>3, <1>4, <1>5, <1>6, <1>7, <1>8, <1>9, <1>10, <1>11,
     <1>12, <1>13, <1>14, <1>15, <1>16, <1>17, <1>18, <1>19, <1>20, <1>21
  DEF Next, Operate

\* Whatever a caller does next, a request keeps its place, is over or is sent.
LEMMA AskedAgain ==
  ASSUME TypeOK, NEW s \in Submitters, NEW v, NEW r \in Requests,
         AgainOr(s, v) \/ wire' = Hang(Current(s))
  PROVE  wire'[r] \in {wire[r], "travels", "over"}
<1> USE DEF TypeOK
<1>1. CASE wire' = Hang(Current(s))
  BY <1>1 DEF Hang
<1>2. CASE wire' = [Hang(Current(s)) EXCEPT ![<<s, tries[s] + 1>>] = "travels"]
  BY <1>2 DEF Hang
<1> QED
  BY <1>1, <1>2 DEF AgainOr

\* A job is sent to those whose specification it has (engine.py submit).
LEMMA AnswerStep ==
  TypeOK /\ AnswerInv /\ [Next]_vars => AnswerInv'
<1> SUFFICES ASSUME TypeOK, AnswerInv, [Next]_vars,
                    NEW c \in Submitters, NEW n \in 1..Attempts,
                    wire'[<<c, n>>] \in {"job", "broken"}
             PROVE  job'[Key[c]] # None /\ job'[Key[c]].spec = Spec[c]
  BY DEF AnswerInv
<1> USE SubmitAssumption DEF TypeOK, AnswerInv, Requests
<1>1. ASSUME NEW s \in Submitters, Begin(s) PROVE job'[Key[c]] # None /\ job'[Key[c]].spec = Spec[c]
  BY <1>1 DEF Begin, Go, Report, Ask, host, gpu
<1>2. ASSUME NEW s \in Submitters, UseTunnel(s) PROVE job'[Key[c]] # None /\ job'[Key[c]].spec = Spec[c]
  BY <1>2 DEF UseTunnel, Go, Report, host, gpu
<1>3. ASSUME NEW s \in Submitters, TunnelOpens(s) PROVE job'[Key[c]] # None /\ job'[Key[c]].spec = Spec[c]
  BY <1>3 DEF TunnelOpens, Go, Report, host, gpu
<1>4. ASSUME NEW s \in Submitters, Release(s) PROVE job'[Key[c]] # None /\ job'[Key[c]].spec = Spec[c]
  BY <1>4 DEF Release, Past, Marked, Go, Report
<1>5. ASSUME NEW s \in Submitters, SubmitJob(s) PROVE job'[Key[c]] # None /\ job'[Key[c]].spec = Spec[c]
  BY <1>5 DEF SubmitJob, Report, Ask, host, gpu
<1>6. ASSUME NEW s \in Submitters, GetAnswer(s) PROVE job'[Key[c]] # None /\ job'[Key[c]].spec = Spec[c]
  <2>1. wire'[<<c, n>>] \in {wire[<<c, n>>], "travels", "over"}
    BY <1>6, AskedAgain DEF GetAnswer
  <2> QED
    BY <1>6, <2>1 DEF GetAnswer
<1>7. ASSUME NEW s \in Submitters, GiveUp(s) PROVE job'[Key[c]] # None /\ job'[Key[c]].spec = Spec[c]
  <2>1. wire'[<<c, n>>] \in {wire[<<c, n>>], "travels", "over"}
    BY <1>7, AskedAgain DEF GiveUp
  <2> QED
    BY <1>7, <2>1 DEF GiveUp
<1>8. ASSUME NEW r \in Requests, CutShort(r) PROVE job'[Key[c]] # None /\ job'[Key[c]].spec = Spec[c]
  BY <1>8 DEF CutShort, client, host, gpu
<1>9. ASSUME NEW r \in Requests, CheckHealth(r) PROVE job'[Key[c]] # None /\ job'[Key[c]].spec = Spec[c]
  BY <1>9 DEF CheckHealth, Current, Respond, client, host, gpu
<1>10. ASSUME NEW r \in Requests, Accept(r) PROVE job'[Key[c]] # None /\ job'[Key[c]].spec = Spec[c]
  <2>1. Key[c] \in KeysUsed /\ Key[r[1]] \in KeysUsed
    BY DEF KeysUsed
  <2>2. CASE r = <<c, n>>
    BY <1>10, <2>2, Accepted
  <2>3. CASE r # <<c, n>>
    <3>1. wire[<<c, n>>] \in {"job", "broken"}
      BY <1>10, <2>3, Accepted
    <3>2. job[Key[c]] # None /\ job[Key[c]].spec = Spec[c]
      BY <3>1
    <3>3. job'[Key[c]] = job[Key[c]] \/ job[Key[c]] = None
      BY <1>10, <2>1, Accepted
    <3> QED
      BY <3>2, <3>3
  <2> QED
    BY <2>2, <2>3
<1>11. ASSUME NEW r \in Requests, Repeat(r) PROVE job'[Key[c]] # None /\ job'[Key[c]].spec = Spec[c]
  BY <1>11 DEF Repeat, Current, Respond, client, host, gpu
<1>12. ASSUME NEW k \in KeysUsed, StartJob(k) PROVE job'[Key[c]] # None /\ job'[Key[c]].spec = Spec[c]
  <2>1. Key[c] \in KeysUsed /\ wire[<<c, n>>] \in {"job", "broken"}
    BY <1>12 DEF StartJob, KeysUsed
  <2> QED
    BY <1>12, <2>1, Moves
<1>13. ASSUME NEW k \in KeysUsed, EndJob(k) PROVE job'[Key[c]] # None /\ job'[Key[c]].spec = Spec[c]
  <2>1. Key[c] \in KeysUsed /\ wire[<<c, n>>] \in {"job", "broken"}
    BY <1>13 DEF EndJob, KeysUsed
  <2> QED
    BY <1>13, <2>1, Moves
<1>14. CASE Degrade
  BY <1>14 DEF Degrade, client, gpu
<1>15. CASE WorkerEnds
  BY <1>15 DEF WorkerEnds, Marked, client
<1>16. CASE WorkerStarts
  <2>1. Key[c] \in KeysUsed /\ wire[<<c, n>>] \in {"job", "broken"}
    BY <1>16 DEF WorkerStarts, KeysUsed
  <2> QED
    BY <1>16, <2>1, Recovers
<1>17. CASE GiveBackFails
  BY <1>17 DEF GiveBackFails, Marked, client
<1>18. CASE Probe
  BY <1>18 DEF Probe, client
<1>19. CASE ProbeEnds
  BY <1>19 DEF ProbeEnds, Marked, client
<1>20. CASE Free
  BY <1>20 DEF Free, Marked, client
<1>21. CASE UNCHANGED vars
  BY <1>21 DEF vars, client, host, gpu
<1> QED
  BY <1>1, <1>2, <1>3, <1>4, <1>5, <1>6, <1>7, <1>8, <1>9, <1>10, <1>11,
     <1>12, <1>13, <1>14, <1>15, <1>16, <1>17, <1>18, <1>19, <1>20, <1>21
  DEF Next, Operate

\* A row that is there stays, with its specification (engine.py _update).
LEMMA RowStays ==
  ASSUME TypeOK, [Next]_vars, NEW k \in KeysUsed, job[k] # None
  PROVE  job'[k] # None /\ job'[k].spec = job[k].spec
<1>1. ASSUME NEW s \in Submitters, Operate(s) PROVE job' = job
  BY <1>1 DEF Operate, Begin, UseTunnel, TunnelOpens, Release, SubmitJob,
     GetAnswer, GiveUp
<1>2. ASSUME NEW r \in Requests, Accept(r) PROVE job'[k] = job[k]
  <2>1. CASE job' = job
    BY <2>1
  <2>2. CASE job' # job
    <3>1. k # Key[r[1]] /\ \A i \in KeysUsed : i # Key[r[1]] => job'[i] = job[i]
      BY <1>2, <2>2, Accepted
    <3> QED
      BY <3>1
  <2> QED
    BY <2>1, <2>2
<1>3. ASSUME NEW r \in Requests, CutShort(r) \/ CheckHealth(r) \/ Repeat(r)
      PROVE  job' = job
  BY <1>3 DEF CutShort, CheckHealth, Repeat
<1>4. ASSUME NEW i \in KeysUsed, StartJob(i) \/ EndJob(i)
      PROVE  job'[k] # None /\ job'[k].spec = job[k].spec
  BY <1>4, Moves
<1>5. CASE WorkerStarts
  BY <1>5, Recovers
<1>6. CASE Degrade \/ WorkerEnds \/ GiveBackFails \/ Probe \/ ProbeEnds \/ Free
           \/ UNCHANGED vars
  BY <1>6 DEF Degrade, WorkerEnds, GiveBackFails, Probe, ProbeEnds, Free, vars
<1> QED
  BY <1>1, <1>2, <1>3, <1>4, <1>5, <1>6 DEF Next

\* An answer that is cut is that of a job (server.py dispatch, client.py _fabric).
LEMMA CutStep ==
  TypeOK /\ CallInv /\ AnswerInv /\ CutInv /\ [Next]_vars => CutInv'
<1> SUFFICES ASSUME TypeOK, CallInv, AnswerInv, CutInv, [Next]_vars,
                    NEW c \in Submitters, verdict'[c] = "CUT_SHORT"
             PROVE  job'[Key[c]] # None /\ job'[Key[c]].spec = Spec[c]
  BY DEF CutInv
<1>1. Key[c] \in KeysUsed
  BY DEF KeysUsed
<1>2. verdict[c] = "CUT_SHORT" \/ GetAnswer(c)
  <2>1. ASSUME NEW s \in Submitters, Operate(s), ~GetAnswer(c)
        PROVE  verdict[c] = "CUT_SHORT"
    BY <2>1
    DEF TypeOK, Operate, Begin, UseTunnel, TunnelOpens, Release, Past, SubmitJob,
        GetAnswer, GiveUp, AgainOr, Go, Ask, Report
  <2>2. ASSUME \/ \E r \in Requests :
                    CutShort(r) \/ CheckHealth(r) \/ Accept(r) \/ Repeat(r)
               \/ \E k \in KeysUsed : StartJob(k) \/ EndJob(k)
               \/ WorkerStarts \/ Degrade \/ WorkerEnds \/ GiveBackFails
               \/ Probe \/ ProbeEnds \/ Free \/ UNCHANGED vars
        PROVE  verdict' = verdict
    BY <2>2
    DEF CutShort, CheckHealth, Accept, Repeat, StartJob, EndJob, WorkerStarts,
        Degrade, WorkerEnds, GiveBackFails, Probe, ProbeEnds, Free, vars, client
  <2> QED
    BY <2>1, <2>2 DEF Next
<1>3. job[Key[c]] # None /\ job[Key[c]].spec = Spec[c]
  <2>1. CASE verdict[c] = "CUT_SHORT"
    BY <2>1 DEF CutInv
  <2>2. CASE verdict[c] # "CUT_SHORT" /\ GetAnswer(c)
    <3>1. at[c] = "ask" /\ tries[c] \in 1..Attempts /\ wire[Current(c)] = "broken"
      BY <2>2 DEF TypeOK, CallInv, GetAnswer, AgainOr, Ask, Report
    <3> QED
      BY <3>1 DEF AnswerInv, Current
  <2> QED
    BY <1>2, <2>1, <2>2
<1> QED
  BY <1>1, <1>3, RowStays

\* A job is found under the key it came with (engine.py submit).
LEMMA MakerStep ==
  TypeOK /\ MakerInv /\ [Next]_vars => MakerInv'
<1> SUFFICES ASSUME TypeOK, MakerInv, [Next]_vars,
                    NEW j \in KeysUsed, job'[j] # None
             PROVE  Key[job'[j].maker] = j
  BY DEF MakerInv
<1> USE SubmitAssumption DEF TypeOK, MakerInv
<1>1. ASSUME NEW s \in Submitters, Begin(s) PROVE Key[job'[j].maker] = j
  BY <1>1 DEF Begin, Go, Report, Ask, host, gpu
<1>2. ASSUME NEW s \in Submitters, UseTunnel(s) PROVE Key[job'[j].maker] = j
  BY <1>2 DEF UseTunnel, Go, Report, host, gpu
<1>3. ASSUME NEW s \in Submitters, TunnelOpens(s) PROVE Key[job'[j].maker] = j
  BY <1>3 DEF TunnelOpens, Go, Report, host, gpu
<1>4. ASSUME NEW s \in Submitters, Release(s) PROVE Key[job'[j].maker] = j
  BY <1>4 DEF Release, Past, Marked, Go, Report
<1>5. ASSUME NEW s \in Submitters, SubmitJob(s) PROVE Key[job'[j].maker] = j
  BY <1>5 DEF SubmitJob, Report, Ask, host, gpu
<1>6. ASSUME NEW s \in Submitters, GetAnswer(s) PROVE Key[job'[j].maker] = j
  BY <1>6 DEF GetAnswer, Report, Ask, Hang, Current, AgainOr, AttemptsOf,
     host, gpu
<1>7. ASSUME NEW s \in Submitters, GiveUp(s) PROVE Key[job'[j].maker] = j
  BY <1>7 DEF GiveUp, Report, Ask, Hang, Current, AgainOr, AttemptsOf, host, gpu
<1>8. ASSUME NEW r \in Requests, CutShort(r) PROVE Key[job'[j].maker] = j
  BY <1>8 DEF CutShort, client, host, gpu
<1>9. ASSUME NEW r \in Requests, CheckHealth(r) PROVE Key[job'[j].maker] = j
  BY <1>9 DEF CheckHealth, Current, Respond, client, host, gpu
<1>10. ASSUME NEW r \in Requests, Accept(r) PROVE Key[job'[j].maker] = j
  <2>1. CASE job' = job
    BY <2>1
  <2>2. CASE job' # job /\ j = Key[r[1]]
    BY <1>10, <2>2, Accepted
  <2>3. CASE job' # job /\ j # Key[r[1]]
    <3>1. job'[j] = job[j]
      BY <1>10, <2>3, Accepted
    <3> QED
      BY <3>1
  <2> QED
    BY <2>1, <2>2, <2>3
<1>11. ASSUME NEW r \in Requests, Repeat(r) PROVE Key[job'[j].maker] = j
  BY <1>11 DEF Repeat, Current, Respond, client, host, gpu
<1>12. ASSUME NEW k \in KeysUsed, StartJob(k) PROVE Key[job'[j].maker] = j
  BY <1>12, Moves
<1>13. ASSUME NEW k \in KeysUsed, EndJob(k) PROVE Key[job'[j].maker] = j
  BY <1>13, Moves
<1>14. CASE Degrade
  BY <1>14 DEF Degrade, client, gpu
<1>15. CASE WorkerEnds
  BY <1>15 DEF WorkerEnds, Marked, client
<1>16. CASE WorkerStarts
  BY <1>16, Recovers
<1>17. CASE GiveBackFails
  BY <1>17 DEF GiveBackFails, Marked, client
<1>18. CASE Probe
  BY <1>18 DEF Probe, client
<1>19. CASE ProbeEnds
  BY <1>19 DEF ProbeEnds, Marked, client
<1>20. CASE Free
  BY <1>20 DEF Free, Marked, client
<1>21. CASE UNCHANGED vars
  BY <1>21 DEF vars, client, host, gpu
<1> QED
  BY <1>1, <1>2, <1>3, <1>4, <1>5, <1>6, <1>7, <1>8, <1>9, <1>10, <1>11,
     <1>12, <1>13, <1>14, <1>15, <1>16, <1>17, <1>18, <1>19, <1>20, <1>21
  DEF Next, Operate

\* The worker takes the lease for one job and loses it when it ends (engine.py
\* _execute, gpu_lease.py).
LEMMA LeaseStep ==
  TypeOK /\ LeaseInv /\ [Next]_vars => LeaseInv'
<1> SUFFICES ASSUME TypeOK, LeaseInv, [Next]_vars
             PROVE  LeaseInv'
  OBVIOUS
<1> USE SubmitAssumption DEF TypeOK, LeaseInv, InState
<1>1. ASSUME NEW s \in Submitters, Begin(s) PROVE LeaseInv'
  BY <1>1 DEF Begin, Go, Report, Ask, host, gpu
<1>2. ASSUME NEW s \in Submitters, UseTunnel(s) PROVE LeaseInv'
  BY <1>2 DEF UseTunnel, Go, Report, host, gpu
<1>3. ASSUME NEW s \in Submitters, TunnelOpens(s) PROVE LeaseInv'
  BY <1>3 DEF TunnelOpens, Go, Report, host, gpu
<1>4. ASSUME NEW s \in Submitters, Release(s) PROVE LeaseInv'
  BY <1>4 DEF Release, Past, Marked, Go, Report
<1>5. ASSUME NEW s \in Submitters, SubmitJob(s) PROVE LeaseInv'
  BY <1>5 DEF SubmitJob, Report, Ask, host, gpu
<1>6. ASSUME NEW s \in Submitters, GetAnswer(s) PROVE LeaseInv'
  BY <1>6 DEF GetAnswer, Report, Ask, Hang, Current, AgainOr, AttemptsOf,
     host, gpu
<1>7. ASSUME NEW s \in Submitters, GiveUp(s) PROVE LeaseInv'
  BY <1>7 DEF GiveUp, Report, Ask, Hang, Current, AgainOr, AttemptsOf, host, gpu
<1>8. ASSUME NEW r \in Requests, CutShort(r) PROVE LeaseInv'
  BY <1>8 DEF CutShort, client, host, gpu
<1>9. ASSUME NEW r \in Requests, CheckHealth(r) PROVE LeaseInv'
  BY <1>9 DEF CheckHealth, Current, Respond, client, host, gpu
<1>10. ASSUME NEW r \in Requests, Accept(r) PROVE LeaseInv'
  BY <1>10 DEF Accept, Current, Respond, client, host, gpu
<1>11. ASSUME NEW r \in Requests, Repeat(r) PROVE LeaseInv'
  BY <1>11 DEF Repeat, Current, Respond, client, host, gpu
<1>12. ASSUME NEW k \in KeysUsed, StartJob(k) PROVE LeaseInv'
  <2>1. CASE lease' = "fabric" /\ Becomes(k, "RUNNING")
    <3>1. job[k] # None
      BY <1>12, Moves
    <3>2. job'[k] # None /\ job'[k].state = "RUNNING"
      BY <2>1, <3>1, JobKept DEF Becomes
    <3> QED
      BY <1>12, <2>1, <3>2 DEF StartJob
  <2>2. CASE UNCHANGED lease /\ InState("RUNNING") = {}
    BY <1>12, <2>2 DEF StartJob, Started
  <2> QED
    BY <1>12, <2>1, <2>2 DEF StartJob
<1>13. ASSUME NEW k \in KeysUsed, EndJob(k) PROVE LeaseInv'
  BY <1>13 DEF EndJob, client, Becomes, InState
<1>14. CASE Degrade
  BY <1>14 DEF Degrade, client, gpu
<1>15. CASE WorkerEnds
  BY <1>15 DEF WorkerEnds, Marked, client
<1>16. CASE WorkerStarts
  BY <1>16 DEF WorkerStarts, InState, client, gpu
<1>17. CASE GiveBackFails
  BY <1>17 DEF GiveBackFails, Marked, client
<1>18. CASE Probe
  BY <1>18 DEF Probe, client
<1>19. CASE ProbeEnds
  BY <1>19 DEF ProbeEnds, Marked, client
<1>20. CASE Free
  BY <1>20 DEF Free, Marked, client
<1>21. CASE UNCHANGED vars
  BY <1>21 DEF vars, client, host, gpu
<1> QED
  BY <1>1, <1>2, <1>3, <1>4, <1>5, <1>6, <1>7, <1>8, <1>9, <1>10, <1>11,
     <1>12, <1>13, <1>14, <1>15, <1>16, <1>17, <1>18, <1>19, <1>20, <1>21
  DEF Next, Operate

\* A job without a lease is of a call whose release did not last (client.py
\* submit_job).
LEMMA LeaseFailureStep ==
  TypeOK /\ PluginInv /\ MakerInv /\ LeaseInv /\ LeaseFailureExplained /\ [Next]_vars => LeaseFailureExplained'
<1> SUFFICES ASSUME TypeOK, PluginInv, MakerInv, LeaseInv, LeaseFailureExplained, [Next]_vars, NEW j \in KeysUsed,
                    job'[j] # None, job'[j].state = "NO_LEASE", job'[j].maker \in Plugin
             PROVE  job'[j].maker \notin clean'
  BY DEF LeaseFailureExplained, InState
<1> USE SubmitAssumption DEF TypeOK, PluginInv, PluginCall, Made, MakerInv, LeaseInv,
         LeaseFailureExplained, InState
<1>1. ASSUME NEW s \in Submitters, Begin(s) PROVE job'[j].maker \notin clean'
  BY <1>1 DEF Begin, Go, Report, Ask, host, gpu
<1>2. ASSUME NEW s \in Submitters, UseTunnel(s) PROVE job'[j].maker \notin clean'
  BY <1>2 DEF UseTunnel, Go, Report, host, gpu
<1>3. ASSUME NEW s \in Submitters, TunnelOpens(s) PROVE job'[j].maker \notin clean'
  BY <1>3 DEF TunnelOpens, Go, Report, host, gpu
<1>4. ASSUME NEW s \in Submitters, Release(s) PROVE job'[j].maker \notin clean'
  <2>1. job' = job /\ clean' \subseteq clean \cup {s} /\ at[s] = "release"
    BY <1>4 DEF Release, Past, Marked
  <2>2. CASE job[j].maker = s
    <3>1. Made(s) /\ s \in Plugin
      BY <2>1, <2>2
    <3> QED
      BY <2>1, <3>1
  <2>3. CASE job[j].maker # s
    BY <2>1, <2>3
  <2> QED
    BY <2>2, <2>3
<1>5. ASSUME NEW s \in Submitters, SubmitJob(s) PROVE job'[j].maker \notin clean'
  BY <1>5 DEF SubmitJob, Report, Ask, host, gpu
<1>6. ASSUME NEW s \in Submitters, GetAnswer(s) PROVE job'[j].maker \notin clean'
  BY <1>6 DEF GetAnswer, Report, Ask, Hang, Current, AgainOr, AttemptsOf,
     host, gpu
<1>7. ASSUME NEW s \in Submitters, GiveUp(s) PROVE job'[j].maker \notin clean'
  BY <1>7 DEF GiveUp, Report, Ask, Hang, Current, AgainOr, AttemptsOf, host, gpu
<1>8. ASSUME NEW r \in Requests, CutShort(r) PROVE job'[j].maker \notin clean'
  BY <1>8 DEF CutShort, client, host, gpu
<1>9. ASSUME NEW r \in Requests, CheckHealth(r) PROVE job'[j].maker \notin clean'
  BY <1>9 DEF CheckHealth, Current, Respond, client, host, gpu
<1>10. ASSUME NEW r \in Requests, Accept(r) PROVE job'[j].maker \notin clean'
  BY <1>10 DEF Accept, Current, Respond, client, host, gpu
<1>11. ASSUME NEW r \in Requests, Repeat(r) PROVE job'[j].maker \notin clean'
  BY <1>11 DEF Repeat, Current, Respond, client, host, gpu
<1>12. ASSUME NEW k \in KeysUsed, StartJob(k) PROVE job'[j].maker \notin clean'
  <2>1. clean' \subseteq clean /\ job[k] # None /\ (j # k => job'[j] = job[j])
    BY <1>12, Moves DEF StartJob, Started
  <2>2. CASE j # k
    BY <2>1, <2>2
  <2>3. CASE j = k
    <3>1. ~Becomes(k, "RUNNING") /\ ~Becomes(k, "ENDED")
      <4>1. job[k] \in Jobs /\ k \in DOMAIN job
        BY <2>1
      <4>2. "state" \in DOMAIN job[k]
        BY <4>1 DEF Jobs
      <4> QED
        BY <2>3, <4>1, <4>2 DEF Becomes
    <3>2. lease \in {"runtime", "stale"} \/ probe
      BY <1>12, <3>1 DEF StartJob
    <3> QED
      BY <2>1, <3>2
  <2> QED
    BY <2>2, <2>3
<1>13. ASSUME NEW k \in KeysUsed, EndJob(k) PROVE job'[j].maker \notin clean'
  BY <1>13 DEF EndJob, client, Becomes, InState
<1>14. CASE Degrade
  BY <1>14 DEF Degrade, client, gpu
<1>15. CASE WorkerEnds
  BY <1>15 DEF WorkerEnds, Marked, client
<1>16. CASE WorkerStarts
  BY <1>16 DEF WorkerStarts, InState, client, gpu
<1>17. CASE GiveBackFails
  BY <1>17 DEF GiveBackFails, Marked, client
<1>18. CASE Probe
  BY <1>18 DEF Probe, client
<1>19. CASE ProbeEnds
  BY <1>19 DEF ProbeEnds, Marked, client
<1>20. CASE Free
  BY <1>20 DEF Free, Marked, client
<1>21. CASE UNCHANGED vars
  BY <1>21 DEF vars, client, host, gpu
<1> QED
  BY <1>1, <1>2, <1>3, <1>4, <1>5, <1>6, <1>7, <1>8, <1>9, <1>10, <1>11,
     <1>12, <1>13, <1>14, <1>15, <1>16, <1>17, <1>18, <1>19, <1>20, <1>21
  DEF Next, Operate

-----------------------------------------------------------------------------

\* The inductive step.
LEMMA InvStep == IInv /\ [Next]_vars => IInv'
  BY TypeStep, CallStep, PluginStep, AnswerStep, CutStep,
     MakerStep, LeaseStep, LeaseFailureStep
  DEF IInv

\* IInv is an inductive invariant of the submission.
THEOREM Inductive == SubmitSpec => []IInv
<1>1. Init => IInv
  <2> SUFFICES ASSUME Init PROVE IInv
    OBVIOUS
  <2> USE SubmitAssumption DEF Init
  <2>1. TypeOK
    <3>1. /\ 0 \in 0..Attempts /\ 0 \in 0..MaxOutages
      OBVIOUS
    <3> QED
      BY <3>1 DEF TypeOK
  <2>2. CallInv /\ AnswerInv /\ CutInv
    BY DEF CallInv, AnswerInv, CutInv, Requests, Reports
  <2>3. PluginInv
    <3> SUFFICES ASSUME NEW p \in Plugin PROVE PluginCall(p)
      BY DEF PluginInv
    <3>1. p \in Submitters /\ Key[p] \in KeysUsed
      BY DEF KeysUsed
    <3>2. \A n \in 1..Attempts : wire[<<p, n>>] = "unsent"
      BY <3>1 DEF Requests
    <3>3. at[p] = "idle" /\ verdict[p] = None /\ ~Made(p)
      BY <3>1 DEF Made
    <3> QED
      BY <3>2, <3>3 DEF PluginCall, Reports
  <2>4. MakerInv /\ LeaseInv /\ LeaseFailureExplained
    BY DEF MakerInv, LeaseInv, LeaseFailureExplained, InState
  <2> QED
    BY <2>1, <2>2, <2>3, <2>4 DEF IInv
<1> QED
  BY <1>1, InvStep, PTL DEF SubmitSpec

\* Every variable keeps its type (cli.py, client.py, server.py, engine.py).
THEOREM TypeCorrect == SubmitSpec => []TypeOK
<1>1. IInv => TypeOK
  BY DEF IInv
<1> QED
  BY <1>1, Inductive, PTL

\* A plugin's job fails for the lease only when, at its release or since, there
\* was a stale marker or another process had the lock (client.py submit_job,
\* service.py _release_model_locked, supervisor.py recover_dead_lease).
THEOREM LeaseFailureIsExplained == SubmitSpec => []LeaseFailureExplained
<1>1. IInv => LeaseFailureExplained
  BY DEF IInv
<1> QED
  BY <1>1, Inductive, PTL

-----------------------------------------------------------------------------

\* A step that neither makes a job nor reports is invisible.
LEMMA Invisible ==
  ASSUME UNCHANGED verdict, \A k \in KeysUsed : Receipt(k)' = Receipt(k)
  PROVE  UNCHANGED <<[k \in KeysUsed |-> Receipt(k)], [s \in Submitters |-> Verdict(s)]>>
BY DEF Verdict

\* A report changes the word of its call only.
LEMMA ReportMaps ==
  ASSUME TypeOK, CallInv, NEW s \in Submitters, at[s] # "done",
         NEW v \in Reports, Report(s, v), UNCHANGED job
  PROVE  /\ Verdict(s) = "open"
         /\ [c \in Submitters |-> Verdict(c)]'
              = [[c \in Submitters |-> Verdict(c)] EXCEPT ![s] = Says(s, v)]
         /\ UNCHANGED [k \in KeysUsed |-> Receipt(k)]
<1>1. verdict[s] = None /\ verdict' = [verdict EXCEPT ![s] = v]
  BY DEF CallInv, Report
<1>2. \A c \in Submitters : verdict'[c] = IF c = s THEN v ELSE verdict[c]
  BY <1>1 DEF TypeOK
<1>3. Verdict(s) = "open"
  BY <1>1, SubmitAssumption DEF Verdict, Says, Reports
<1>4. \A c \in Submitters : Verdict(c)' = IF c = s THEN Says(s, v) ELSE Verdict(c)
  BY <1>2 DEF Verdict, Says
<1>5. UNCHANGED [k \in KeysUsed |-> Receipt(k)]
  BY DEF Receipt
<1> QED
  BY <1>3, <1>4, <1>5

\* REFUSED refuses a plugin's call that has no job, and tells another nothing.
LEMMA ErrorMaps ==
  ASSUME TypeOK, CallInv, NEW s \in Submitters, at[s] # "done", Report(s, "REFUSED"),
         UNCHANGED job, s \in Plugin => ~Made(s)
  PROVE  Promised!Next
<1>1. "REFUSED" \in Reports /\ Key[s] \in KeysUsed
  BY DEF Reports, KeysUsed
<1>2. CASE s \in Plugin
  <2>1. Says(s, "REFUSED") = "refused"
    BY <1>1, <1>2, SubmitAssumption DEF Says
  <2>2. Receipt(Key[s]) # None => Receipt(Key[s]).maker # s
    BY <1>2 DEF Made, Receipt
  <2>3. Promised!TellRefused(s)
    BY <1>1, <2>1, <2>2, ReportMaps DEF Promised!TellRefused, Promised!Learn
  <2> QED
    BY <2>3 DEF Promised!Next
<1>3. CASE s \notin Plugin
  <2>1. Says(s, "REFUSED") = "unknown"
    BY <1>1, <1>3, SubmitAssumption DEF Says
  <2>2. Promised!TellUnknown(s)
    BY <1>1, <2>1, ReportMaps DEF Promised!TellUnknown, Promised!Learn
  <2> QED
    BY <2>2 DEF Promised!Next
<1> QED
  BY <1>2, <1>3

\* UNKNOWN and an answer cut short tell nothing.
LEMMA UnknownMaps ==
  ASSUME TypeOK, CallInv, NEW s \in Submitters, at[s] # "done",
         NEW v \in {"CUT_SHORT", "UNKNOWN"}, Report(s, v), UNCHANGED job
  PROVE  Promised!Next
<1>1. v \in Reports /\ Says(s, v) = "unknown"
  BY SubmitAssumption DEF Reports, Says
<1>2. Promised!TellUnknown(s)
  BY <1>1, ReportMaps DEF Promised!TellUnknown, Promised!Learn
<1> QED
  BY <1>2 DEF Promised!Next

\* JOB tells of the job that was asked for.
LEMMA JobMaps ==
  ASSUME TypeOK, CallInv, NEW s \in Submitters, at[s] # "done",
         Report(s, "JOB"), UNCHANGED job,
         job[Key[s]] # None, job[Key[s]].spec = Spec[s]
  PROVE  Promised!Next
<1>1. "JOB" \in Reports /\ Says(s, "JOB") = "accepted" /\ Key[s] \in KeysUsed
  BY SubmitAssumption DEF Reports, Says, KeysUsed
<1>2. /\ job[Key[s]] \in Jobs /\ Receipt(Key[s]) \in Receipts
      /\ Receipt(Key[s]).spec = Spec[s]
  BY <1>1 DEF TypeOK, Jobs, Receipt, Receipts
<1>3. Receipt(Key[s]) # None
  BY <1>2, SubmitAssumption
<1>4. Promised!TellAccepted(s)
  BY <1>1, <1>2, <1>3, ReportMaps DEF Promised!TellAccepted, Promised!Learn
<1> QED
  BY <1>4 DEF Promised!Next

\* A new row is a new job, of a call that was not refused.
LEMMA AcceptMaps ==
  ASSUME IInv, NEW r \in Requests, Accept(r), job' # job
  PROVE  Promised!Next
<1> DEFINE s == r[1]
<1>1. /\ s \in Submitters /\ Key[s] \in KeysUsed /\ wire[r] = "checked"
      /\ job[Key[s]] = None /\ job'[Key[s]] # None
      /\ job'[Key[s]].spec = Spec[s] /\ job'[Key[s]].maker = s
      /\ \A i \in KeysUsed : i # Key[s] => job'[i] = job[i]
  BY Accepted DEF IInv
<1>2. verdict' = verdict
  BY DEF Accept, client
<1> PICK c \in Submitters : c = s
  BY <1>1
<1> HIDE DEF s
<1>3. Verdict(c) # "refused"
  <2> SUFFICES ASSUME c \in Plugin, verdict[c] = "REFUSED" PROVE FALSE
    BY SubmitAssumption DEF Verdict, Says
  <2>1. r = <<c, r[2]>> /\ r[2] \in 1..Attempts
    BY DEF Requests, s
  <2>2. /\ wire[<<c, 1>>] \in {"unsent", "over"}
        /\ \A n \in 2..Attempts : wire[<<c, n>>] = "unsent"
    BY DEF IInv, PluginInv, PluginCall
  <2>3. CASE r[2] = 1
    BY <1>1, <2>1, <2>2, <2>3
  <2>4. CASE r[2] \in 2..Attempts
    <3>1. wire[<<c, r[2]>>] = "unsent"
      BY <2>2, <2>4
    <3> QED
      BY <1>1, <2>1, <3>1
  <2> QED
    BY <2>1, <2>3, <2>4, SubmitAssumption
<1>4. /\ Receipt(Key[c]) = None
      /\ Receipt(Key[c])' = [spec |-> Spec[c], maker |-> c]
      /\ \A k \in KeysUsed : k # Key[c] => Receipt(k)' = Receipt(k)
  BY <1>1 DEF Receipt
<1>5. [k \in KeysUsed |-> Receipt(k)]'
        = [[k \in KeysUsed |-> Receipt(k)] EXCEPT ![Key[c]] =
             [spec |-> Spec[c], maker |-> c]]
  BY <1>1, <1>4
<1>6. UNCHANGED [i \in Submitters |-> Verdict(i)]
  BY <1>2 DEF Verdict
<1>7. Promised!Accept(c)
  BY <1>1, <1>3, <1>4, <1>5, <1>6 DEF Promised!Accept
<1> QED
  BY <1>7 DEF Promised!Next

\* Every step is a step of the promise or invisible to it.
LEMMA PromiseStep ==
  IInv /\ [Next]_vars
    => [Promised!Next]_<<[k \in KeysUsed |-> Receipt(k)],
                         [s \in Submitters |-> Verdict(s)]>>
<1> SUFFICES ASSUME IInv, [Next]_vars,
                    ~(UNCHANGED <<[k \in KeysUsed |-> Receipt(k)],
                                  [s \in Submitters |-> Verdict(s)]>>)
             PROVE  Promised!Next
  OBVIOUS
<1>0. TypeOK /\ CallInv
  BY DEF IInv
<1>1. ~(UNCHANGED verdict /\ \A k \in KeysUsed : Receipt(k)' = Receipt(k))
  BY Invisible
<1>2. job' # job \/ verdict' # verdict
  BY <1>1 DEF Receipt
<1>3. ASSUME NEW s \in Submitters, Operate(s) PROVE Promised!Next
  <2>1. job' = job /\ verdict' # verdict
    BY <1>2, <1>3 DEF Operate, Begin, UseTunnel, TunnelOpens, Release, SubmitJob,
       GetAnswer, GiveUp
  <2>2. s \in Plugin /\ at[s] \notin {"ask", "done"} => ~Made(s)
    BY DEF IInv, PluginInv, PluginCall
  <2>3. CASE Begin(s) \/ UseTunnel(s) \/ TunnelOpens(s) \/ Release(s) \/ SubmitJob(s)
    <3>1. at[s] \notin {"ask", "done"} /\ Report(s, "REFUSED")
      BY <2>1, <2>3 DEF Begin, UseTunnel, TunnelOpens, Release, Past, SubmitJob, Go,
         Ask
    <3> QED
      BY <1>0, <2>1, <2>2, <3>1, ErrorMaps
  <2>4. CASE GetAnswer(s)
    <3>1. /\ at[s] = "ask" /\ tries[s] \in 1..Attempts
          /\ (s \in Plugin => tries[s] = 1)
      BY <2>4 DEF GetAnswer, IInv, CallInv, PluginInv, PluginCall
    <3>2. CASE Report(s, "JOB") /\ wire[Current(s)] = "job"
      <4>1. job[Key[s]] # None /\ job[Key[s]].spec = Spec[s]
        BY <3>1, <3>2 DEF IInv, AnswerInv, Current
      <4> QED
        BY <1>0, <2>1, <3>1, <3>2, <4>1, JobMaps
    <3>3. CASE /\ Report(s, "REFUSED")
               /\ wire[Current(s)] \in {"refused", "failed"}
      <4>1. s \in Plugin => ~Made(s)
        BY <3>1, <3>3 DEF IInv, PluginInv, PluginCall, Current
      <4> QED
        BY <1>0, <2>1, <3>1, <3>3, <4>1, ErrorMaps
    <3>4. CASE Report(s, "CUT_SHORT")
      BY <1>0, <2>1, <3>1, <3>4, UnknownMaps
    <3> QED
      BY <2>1, <2>4, <3>2, <3>3, <3>4 DEF GetAnswer, AgainOr, Ask
  <2>5. CASE GiveUp(s)
    <3>1. at[s] = "ask" /\ Report(s, "UNKNOWN")
      BY <2>1, <2>5 DEF GiveUp, AgainOr, Ask
    <3> QED
      BY <1>0, <2>1, <3>1, UnknownMaps
  <2> QED
    BY <1>3, <2>3, <2>4, <2>5 DEF Operate
<1>4. ASSUME NEW r \in Requests, CutShort(r) \/ CheckHealth(r) \/ Accept(r) \/ Repeat(r)
      PROVE  Promised!Next
  <2>1. Accept(r) /\ job' # job
    BY <1>2, <1>4 DEF CutShort, CheckHealth, Accept, Repeat, client
  <2> QED
    BY <2>1, AcceptMaps
<1>5. ASSUME NEW k \in KeysUsed, StartJob(k) \/ EndJob(k) PROVE FALSE
  <2>1. verdict' = verdict
    BY <1>5 DEF StartJob, EndJob, client
  <2>2. ASSUME NEW i \in KeysUsed PROVE Receipt(i)' = Receipt(i)
    BY <1>0, <1>5, Moves DEF Receipt
  <2> QED
    BY <1>1, <2>1, <2>2
<1>6. CASE WorkerStarts
  <2>1. verdict' = verdict
    BY <1>6 DEF WorkerStarts, client, gpu
  <2>2. ASSUME NEW i \in KeysUsed PROVE Receipt(i)' = Receipt(i)
    BY <1>0, <1>6, Recovers DEF Receipt
  <2> QED
    BY <1>1, <2>1, <2>2
<1>7. CASE Degrade \/ WorkerEnds \/ GiveBackFails \/ Probe \/ ProbeEnds \/ Free
  BY <1>2, <1>7 DEF Degrade, WorkerEnds, GiveBackFails, Probe, ProbeEnds, Free,
     client
<1>8. CASE UNCHANGED vars
  BY <1>2, <1>8 DEF vars, client
<1> QED
  BY <1>3, <1>4, <1>5, <1>6, <1>7, <1>8 DEF Next

\* Calls, messages, retries and outages keep SubmitPromise (client.py
\* submit_job, cli.py _retry, engine.py submit).
THEOREM PromiseKept == SubmitSpec => KeepsPromise
<1>1. Init => Promised!Init
  <2> SUFFICES ASSUME Init PROVE Promised!Init
    OBVIOUS
  <2>1. \A k \in KeysUsed : Receipt(k) = None
    BY DEF Init, Receipt
  <2>2. \A s \in Submitters : Verdict(s) = "open"
    BY SubmitAssumption DEF Init, Verdict, Says, Reports
  <2> QED
    BY <2>1, <2>2 DEF Promised!Init, KeysUsed
<1> QED
  BY <1>1, PromiseStep, Inductive, PTL DEF SubmitSpec, KeepsPromise, Promised!Promise

-----------------------------------------------------------------------------
(* What the promise is good for.                                           *)

\* An ERROR of the plugin for a job that it has made comes of a cut answer and of
\* nothing else; and a cut answer is never that of a refusal: the key has the job
\* that was asked for, as it has when a job is reported (client.py submit_job,
\* cli.py _retry).
ReportsAreTrue ==
  \A s \in Submitters :
    /\ s \in Plugin /\ Status(s) = "ERROR" /\ Made(s) => verdict[s] = "CUT_SHORT"
    /\ verdict[s] \in {"JOB", "CUT_SHORT"} =>
         job[Key[s]] # None /\ job[Key[s]].spec = Spec[s]

\* A key names one job for good: the specification and the call that made it
\* never change (engine.py submit).
KeysAreFinal ==
  [][\A k \in KeysUsed : Receipt(k) # None => Receipt(k)' = Receipt(k)]_vars

\* The same, in the words of the promise.
PromiseInv ==
  \A s \in Submitters :
    /\ Verdict(s) = "refused" =>
         Receipt(Key[s]) = None \/ Receipt(Key[s]).maker # s
    /\ Verdict(s) = "accepted" =>
         Receipt(Key[s]) # None /\ Receipt(Key[s]).spec = Spec[s]

\* One caller learns something.
LEMMA LearnVerdict ==
  ASSUME NEW s \in Submitters, NEW v, Promised!Learn(s, v)
  PROVE  \A i \in Submitters : Verdict(i)' = IF i = s THEN v ELSE Verdict(i)
<1> DEFINE now == [i \in Submitters |-> Verdict(i)']
<1>1. now = [[i \in Submitters |-> Verdict(i)] EXCEPT ![s] = v]
  BY DEF Promised!Learn
<1>2. \A i \in Submitters : now[i] = IF i = s THEN v ELSE Verdict(i)
  BY <1>1
<1> QED
  BY <1>2

\* The jobs and verdicts of the promise that a step leaves alone.
LEMMA JobsRest ==
  ASSUME UNCHANGED [k \in KeysUsed |-> Receipt(k)]
  PROVE  \A k \in KeysUsed : Receipt(k)' = Receipt(k)
<1>1. \A k \in KeysUsed : [i \in KeysUsed |-> Receipt(i)'][k]
                          = [i \in KeysUsed |-> Receipt(i)][k]
  OBVIOUS
<1> QED
  BY <1>1

LEMMA VerdictsRest ==
  ASSUME UNCHANGED [s \in Submitters |-> Verdict(s)]
  PROVE  \A s \in Submitters : Verdict(s)' = Verdict(s)
<1>1. \A s \in Submitters : [i \in Submitters |-> Verdict(i)'][s]
                            = [i \in Submitters |-> Verdict(i)][s]
  OBVIOUS
<1> QED
  BY <1>1

\* A new job of a key that had none, by a call that was not refused.
LEMMA AcceptJobs ==
  ASSUME NEW s \in Submitters, Promised!Accept(s)
  PROVE  /\ Receipt(Key[s]) = None /\ Verdict(s) # "refused"
         /\ \A k \in KeysUsed : Receipt(k)' = IF k = Key[s]
                                THEN [spec |-> Spec[s], maker |-> s]
                                ELSE Receipt(k)
         /\ \A i \in Submitters : Verdict(i)' = Verdict(i)
<1> DEFINE now == [k \in KeysUsed |-> Receipt(k)']
<1>0. Key[s] \in KeysUsed
  BY DEF KeysUsed
<1>1. now = [[k \in KeysUsed |-> Receipt(k)] EXCEPT ![Key[s]] =
                [spec |-> Spec[s], maker |-> s]]
  BY DEF Promised!Accept
<1>2. \A k \in KeysUsed : now[k] = IF k = Key[s]
                          THEN [spec |-> Spec[s], maker |-> s] ELSE Receipt(k)
  BY <1>1
<1>3. Receipt(Key[s]) = None /\ Verdict(s) # "refused"
  BY <1>0 DEF Promised!Accept
<1>4. \A i \in Submitters : Verdict(i)' = Verdict(i)
  BY VerdictsRest DEF Promised!Accept
<1> QED
  BY <1>2, <1>3, <1>4

\* What a caller may be told.
LEMMA Told ==
  ASSUME NEW s \in Submitters,
         \/ Promised!TellAccepted(s) \/ Promised!TellRefused(s)
         \/ Promised!TellUnknown(s)
  PROVE  /\ \A k \in KeysUsed : Receipt(k)' = Receipt(k)
         /\ \A i \in Submitters \ {s} : Verdict(i)' = Verdict(i)
         /\ \/ /\ Verdict(s)' = "accepted"
               /\ Receipt(Key[s]) # None /\ Receipt(Key[s]).spec = Spec[s]
            \/ /\ Verdict(s)' = "refused"
               /\ Receipt(Key[s]) # None => Receipt(Key[s]).maker # s
            \/ Verdict(s)' = "unknown"
<1>0. Key[s] \in KeysUsed
  BY DEF KeysUsed
<1>1. \A k \in KeysUsed : Receipt(k)' = Receipt(k)
  BY JobsRest
  DEF Promised!TellAccepted, Promised!TellRefused, Promised!TellUnknown
<1>2. CASE Promised!TellAccepted(s)
  BY <1>0, <1>1, <1>2, LearnVerdict DEF Promised!TellAccepted
<1>3. CASE Promised!TellRefused(s)
  BY <1>0, <1>1, <1>3, LearnVerdict DEF Promised!TellRefused
<1>4. CASE Promised!TellUnknown(s)
  BY <1>0, <1>1, <1>4, LearnVerdict DEF Promised!TellUnknown
<1> QED
  BY <1>2, <1>3, <1>4

\* A step of the promise keeps a job that is there.
LEMMA PromiseKeepsJobs ==
  Promised!Next =>
    \A k \in KeysUsed : Receipt(k) # None => Receipt(k)' = Receipt(k)
BY AcceptJobs, Told, JobsRest DEF Promised!Next

\* Refusals and confirmations stay true, by the promise alone.
LEMMA PromiseTrue == Promised!Promise => []PromiseInv
<1>1. Promised!Init => PromiseInv
  <2> SUFFICES ASSUME Promised!Init PROVE PromiseInv
    OBVIOUS
  <2>1. \A s \in Submitters : [i \in Submitters |-> Verdict(i)][s] = "open"
    BY DEF Promised!Init
  <2> QED
    BY <2>1 DEF PromiseInv
<1>2. /\ PromiseInv
      /\ [Promised!Next]_<<[k \in KeysUsed |-> Receipt(k)],
                           [s \in Submitters |-> Verdict(s)]>>
      => PromiseInv'
  <2> SUFFICES ASSUME PromiseInv,
                      [Promised!Next]_<<[k \in KeysUsed |-> Receipt(k)],
                                        [s \in Submitters |-> Verdict(s)]>>
               PROVE  PromiseInv'
    OBVIOUS
  <2>0. \A s \in Submitters : Key[s] \in KeysUsed
    BY DEF KeysUsed
  <2>1. ASSUME NEW s \in Submitters, Promised!Accept(s) PROVE PromiseInv'
    BY <2>0, <2>1, AcceptJobs DEF PromiseInv
  <2>2. ASSUME NEW s \in Submitters,
               \/ Promised!TellAccepted(s) \/ Promised!TellRefused(s)
               \/ Promised!TellUnknown(s)
        PROVE  PromiseInv'
    BY <2>0, <2>2, Told DEF PromiseInv
  <2>3. CASE UNCHANGED <<[k \in KeysUsed |-> Receipt(k)],
                         [s \in Submitters |-> Verdict(s)]>>
    BY <2>0, <2>3, JobsRest, VerdictsRest DEF PromiseInv
  <2> QED
    BY <2>1, <2>2, <2>3 DEF Promised!Next
<1> QED
  BY <1>1, <1>2, PTL DEF Promised!Promise

\* What a call is told of its job is true for good, over lost, late and repeated
\* messages, with one exception: when the answer with the job is cut short, the
\* plugin says ERROR of a job that exists (client.py submit_job and _fabric_error,
\* cli.py _retry).
THEOREM ReportsTrue == SubmitSpec => []ReportsAreTrue
<1>1. IInv /\ PromiseInv => ReportsAreTrue
  <2> SUFFICES ASSUME IInv, PromiseInv, NEW s \in Submitters
               PROVE  /\ s \in Plugin /\ Status(s) = "ERROR" /\ Made(s)
                           => verdict[s] = "CUT_SHORT"
                      /\ verdict[s] \in {"JOB", "CUT_SHORT"} =>
                           job[Key[s]] # None /\ job[Key[s]].spec = Spec[s]
    BY DEF ReportsAreTrue
  <2>1. /\ s \in Plugin /\ verdict[s] = "REFUSED" => Verdict(s) = "refused"
        /\ verdict[s] = "JOB" => Verdict(s) = "accepted"
    BY SubmitAssumption DEF Verdict, Says, Reports
  <2>2. job[Key[s]] \in Jobs \cup {None}
    BY DEF IInv, TypeOK, KeysUsed
  <2>3. job[Key[s]] # None => /\ Receipt(Key[s]) # None
                              /\ Receipt(Key[s]).maker = job[Key[s]].maker
                              /\ Receipt(Key[s]).spec = job[Key[s]].spec
    BY <2>2, SubmitAssumption DEF Receipt, Receipts, Jobs
  <2>4. s \in Plugin /\ verdict[s] = "REFUSED" => ~Made(s)
    BY <2>1, <2>3 DEF PromiseInv, Made, Receipt
  <2>5. verdict[s] = "JOB" => job[Key[s]] # None /\ job[Key[s]].spec = Spec[s]
    BY <2>1, <2>3 DEF PromiseInv, Receipt
  <2>6. verdict[s] = "CUT_SHORT" =>
          job[Key[s]] # None /\ job[Key[s]].spec = Spec[s]
    BY DEF IInv, CutInv
  <2>7. Status(s) = "ERROR" => verdict[s] \in {"REFUSED", "CUT_SHORT"}
    BY SubmitAssumption DEF IInv, TypeOK, Status, Reports
  <2> QED
    BY <2>4, <2>5, <2>6, <2>7
<1> QED
  BY <1>1, Inductive, PromiseKept, PromiseTrue, PTL DEF KeepsPromise

\* A key stands for one job for good, through retries, refusals and restarts
\* (engine.py submit, _recover).
THEOREM OneJobPerKey == SubmitSpec => KeysAreFinal
<1>1. IInv /\ [Next]_vars =>
        [\A k \in KeysUsed : Receipt(k) # None => Receipt(k)' = Receipt(k)]_vars
  BY PromiseStep, PromiseKeepsJobs, JobsRest
<1> QED
  BY <1>1, Inductive, PTL DEF SubmitSpec, KeysAreFinal
=============================================================================

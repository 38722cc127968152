---------------------------- MODULE BentoService ----------------------------
(***************************************************************************)
(* The persistent runtime (service.py): one process, one resident model,   *)
(* one gate, one GPU lease that it shares with the compute fabric.  A call *)
(* is an HTTP request; the middleware answers 504 for an inference that    *)
(* takes too long and leaves its work running.  Adapter calls may never    *)
(* return.  The lease file is seen from outside: who has it, or "stale"    *)
(* when a marker is left that blocks everybody.                            *)
(***************************************************************************)
EXTENDS Naturals, FiniteSets

CONSTANTS Calls,     \* the requests, each made at most once
          Kind,      \* what each asks for: "infer", "release", or "hook"
          Wants,     \* the model an inference asks for
          Aliases,   \* the models
          MaxStops,  \* bound: how often the process ends
          None

\* RELEASED also says that there was nothing to release.  FAILED is every code
\* that the clients do not tell apart from the others: a wrong token or argument,
\* invalid audio, a busy gate or GPU, a load, an inference or an unload that
\* failed.
Codes == {"OK", "RELEASED", "MODEL_BUSY", "FAILED"}

\* The shutdown hook is the one call that no client makes.
ASSUME ServiceAssumption ==
  /\ Kind \in [Calls -> {"infer", "release", "hook"}]
  /\ Wants \in [Calls -> Aliases]
  /\ None \notin Calls \cup Aliases \cup Codes \cup {"SERVICE_TIMEOUT", "LOST"}
  /\ MaxStops \in Nat

VARIABLES
  at,     \* where each call stands
  reply,  \* the code its handler has ended with, until the task ends
  seen,   \* the code its client got, or "LOST" when the connection broke
  late,   \* the calls at work that the middleware has answered with 504
  gate,   \* the call that holds the in-process gate
  model,  \* _adapter, _model_alias and _model_state
  own,    \* _lease is not None
  lease,  \* "free", "bento", "fabric" or "stale"
  cuda,   \* history: memory of a model may be left on the GPU
  ran,    \* history: the calls whose inference has begun
  saved,  \* the calls whose artifact is in place
  phase,  \* "serving", "stopping" or "down"
  stops   \* how often the process has ended

work  == <<gate, model, own, lease, cuda, ran, saved>>
host  == <<phase, stops>>
serviceVars == <<at, reply, seen, late, work, host>>

\* The places at which a call has the gate.
Gated  == {"audio", "load", "factory", "infer", "write",
           "unload", "sync", "giveback"}
Inside == Gated \cup {"enter", "reply", "sending"}

Empty == [alias |-> None, adapter |-> "none", load |-> "none"]

ServiceTypeOK ==
  /\ at \in [Calls -> Inside \cup {"unsent", "done"}]
  /\ reply \in [Calls -> Codes \cup {None}]
  /\ seen \in [Calls -> Codes \cup {"SERVICE_TIMEOUT", "LOST", None}]
  /\ late \subseteq {k \in Calls : Kind[k] = "infer" /\ at[k] \in Inside}
  /\ ran \subseteq Calls /\ saved \subseteq Calls
  /\ gate \in Calls \cup {None}
  /\ model \in [alias : Aliases \cup {None},
                adapter : {"none", "partial", "whole"},
                load : {"none", "loaded", "failed"}]
  /\ own \in BOOLEAN /\ cuda \in BOOLEAN
  /\ lease \in {"free", "bento", "fabric", "stale"}
  /\ phase \in {"serving", "stopping", "down"}
  /\ stops \in 0..MaxStops

ServiceInit ==
  /\ at = [k \in Calls |-> "unsent"]
  /\ reply = [k \in Calls |-> None] /\ seen = [k \in Calls |-> None]
  /\ late = {} /\ ran = {} /\ saved = {}
  /\ gate = None /\ model = Empty /\ own = FALSE /\ lease = "free"
  /\ cuda = FALSE /\ phase = "serving" /\ stops = 0

-----------------------------------------------------------------------------
(* Requests, the gate and the answers.                                     *)

Go(k, place) == at' = [at EXCEPT ![k] = place]
Sees(k, code) == seen' = [seen EXCEPT ![k] = IF @ = None THEN code ELSE @]

\* What a client makes of a connection that ends: the read of a body that has
\* begun raises, or it returns less, which is an invalid answer.
Broken(k) == IF at[k] = "sending" THEN {"FAILED", "LOST"} ELSE {"LOST"}

\* The handler of k ends with a code; whoever has the gate gives it back.
End(k, code) == /\ Go(k, "reply")
                /\ reply' = [reply EXCEPT ![k] = code]
                /\ gate' = IF gate = k THEN None ELSE gate

\* A client sends k; a process that is down refuses the connection.
Send(k) ==
  /\ at[k] = "unsent"
  /\ IF phase = "serving" THEN Go(k, "enter") /\ UNCHANGED seen
                          ELSE Go(k, "done") /\ Sees(k, "LOST")
  /\ UNCHANGED <<reply, late, work, host>>

\* The token, the run id or the model name is wrong.
Refuse(k) ==
  /\ at[k] = "enter" /\ Kind[k] # "hook"
  /\ End(k, "FAILED")
  /\ UNCHANGED <<seen, late, model, own, lease, cuda, ran, saved, host>>

\* Requests do not wait for the gate, the shutdown hook does.
EnterGate(k) ==
  /\ at[k] = "enter" /\ gate = None
  /\ gate' = k
  /\ Go(k, IF Kind[k] = "infer" THEN "audio" ELSE "unload")
  /\ UNCHANGED <<reply, seen, late, model, own, lease, cuda, ran, saved, host>>

GateBusy(k) ==
  /\ at[k] = "enter" /\ gate # None /\ Kind[k] # "hook"
  /\ End(k, "FAILED")
  /\ UNCHANGED <<seen, late, model, own, lease, cuda, ran, saved, host>>

StartResponse(k) ==
  /\ at[k] = "reply" /\ k \notin late /\ Kind[k] # "hook"
  /\ Go(k, "sending")
  /\ UNCHANGED <<reply, seen, late, work, host>>

\* The last byte, or the end of a task whose messages are dropped.
EndResponse(k) ==
  /\ \/ at[k] = "sending"
     \/ at[k] = "reply" /\ k \in late
  /\ Go(k, "done")
  /\ Sees(k, reply[k])
  /\ reply' = [reply EXCEPT ![k] = None] /\ late' = late \ {k}
  /\ UNCHANGED <<work, host>>

Cutoff(k) == IF at[k] = "sending" THEN Broken(k) ELSE {"SERVICE_TIMEOUT"}

\* Seeded fault: the timeout ends the handler, so its gate is given back.
TimeoutCancels(k) ==
  /\ Kind[k] = "infer" /\ k \notin late /\ at[k] \in Inside
  /\ late' = late \cup {k}
  /\ \E code \in Cutoff(k) : Sees(k, code)
  /\ gate' = IF gate = k THEN None ELSE gate
  /\ UNCHANGED <<at, reply, model, own, lease, cuda, ran, saved, host>>

\* Seeded fault: the clock runs only until the gate is taken.
TimeoutOnlyQueued(k) ==
  /\ Kind[k] = "infer" /\ k \notin late /\ at[k] = "enter"
  /\ late' = late \cup {k}
  /\ Sees(k, "SERVICE_TIMEOUT")
  /\ UNCHANGED <<at, reply, work, host>>

\* Seeded fault: the clock runs for every kind of request.
TimeoutOfAny(k) ==
  /\ k \notin late /\ at[k] \in Inside
  /\ late' = late \cup {k}
  /\ \E code \in Cutoff(k) : Sees(k, code)
  /\ UNCHANGED <<at, reply, work, host>>

\* The middleware stops waiting.  A response that has begun cannot become a
\* 504: its client gets half an answer.
Timeout(k) ==
  /\ Kind[k] = "infer" /\ k \notin late /\ at[k] \in Inside
  /\ late' = late \cup {k}
  /\ \E code \in Cutoff(k) : Sees(k, code)
  /\ UNCHANGED <<at, reply, work, host>>

\* The network breaks or the client stops waiting; the work goes on.
LoseConnection(k) ==
  /\ at[k] \in Inside /\ seen[k] = None /\ Kind[k] # "hook"
  /\ \E code \in Broken(k) : Sees(k, code)
  /\ UNCHANGED <<at, reply, late, work, host>>

-----------------------------------------------------------------------------
(* Inference.                                                              *)

ReadAudio(k) ==
  /\ at[k] = "audio"
  /\ \/ Go(k, "load") /\ UNCHANGED <<gate, reply>>
     \/ End(k, "FAILED")
  /\ UNCHANGED <<seen, late, model, own, lease, cuda, ran, saved, host>>

\* Seeded fault: whatever is resident is used.
ResidentAny(alias) == model.load = "loaded" /\ model.adapter # "none"

Resident(alias) == /\ model.load = "loaded" /\ model.alias = alias
                   /\ model.adapter # "none"

Reuse(k) ==
  /\ at[k] = "load" /\ Resident(Wants[k])
  /\ Go(k, "infer") /\ ran' = ran \cup {k}
  /\ UNCHANGED <<reply, seen, late, gate, model, own, lease, cuda, saved, host>>

\* A failed load, or another model, has to be released first.
LoadRefused(k) ==
  /\ at[k] = "load" /\ ~Resident(Wants[k])
  /\ \/ model.load = "failed" /\ End(k, "FAILED")
     \/ /\ model.load # "failed"
        /\ model.adapter # "none" \/ model.alias # None
        /\ End(k, "MODEL_BUSY")
  /\ UNCHANGED <<seen, late, model, own, lease, cuda, ran, saved, host>>

\* A new lease object does not get the lock that an older one of the same
\* process still has.
LeaseFree == lease = "free"

AcquireLease(k) ==
  /\ at[k] = "load" /\ model = Empty
  /\ LeaseFree
  /\ lease' = "bento" /\ own' = TRUE /\ cuda' = TRUE
  /\ Go(k, "factory")
  /\ UNCHANGED <<reply, seen, late, gate, model, ran, saved, host>>

\* Busy or stale; or the file cannot be opened or written, which may leave a
\* marker of a lease that nobody has.
LeaseDenied(k) ==
  /\ at[k] = "load" /\ model = Empty
  /\ lease' \in IF lease = "free" THEN {"free", "stale"} ELSE {lease}
  /\ End(k, "FAILED")
  /\ UNCHANGED <<seen, late, model, own, cuda, ran, saved, host>>

FactoryReturns(k) ==
  /\ at[k] = "factory"
  /\ model' = [alias |-> Wants[k], adapter |-> "whole", load |-> "loaded"]
  /\ Go(k, "infer") /\ ran' = ran \cup {k}
  /\ UNCHANGED <<reply, seen, late, gate, own, lease, cuda, saved, host>>

\* Seeded fault: a failed load gives the lease back.
FactoryFailsOpen(k) ==
  /\ at[k] = "factory"
  /\ \E adapter \in {"none", "partial"} :
       model' = [alias |-> Wants[k], adapter |-> adapter, load |-> "failed"]
  /\ End(k, "FAILED")
  /\ lease' = "free" /\ own' = FALSE
  /\ UNCHANGED <<seen, late, cuda, ran, saved, host>>

\* Nothing is known of the GPU when no adapter came back; an adapter that is
\* rejected has been closed, or its close has failed: it is kept either way.
FactoryFails(k) ==
  /\ at[k] = "factory"
  /\ \E adapter \in {"none", "partial"} :
       model' = [alias |-> Wants[k], adapter |-> adapter, load |-> "failed"]
  /\ End(k, "FAILED")
  /\ UNCHANGED <<seen, late, own, lease, cuda, ran, saved, host>>

InferReturns(k) ==
  /\ at[k] = "infer"
  /\ \/ Go(k, "write") /\ UNCHANGED <<gate, reply>>
     \/ End(k, "FAILED")
  /\ UNCHANGED <<seen, late, model, own, lease, cuda, ran, saved, host>>

\* The artifact is written beside its place and put there in one step, which
\* may be followed by a failure.
Save(k) ==
  /\ at[k] = "write"
  /\ \/ saved' = saved \cup {k} /\ End(k, "OK")
     \/ saved' \in {saved, saved \cup {k}} /\ End(k, "FAILED")
  /\ UNCHANGED <<seen, late, model, own, lease, cuda, ran, host>>

-----------------------------------------------------------------------------
(* Unloading, for a request and for the shutdown hook.                     *)

NothingResident(k) ==
  /\ at[k] = "unload" /\ model.adapter = "none" /\ ~own
  /\ End(k, "RELEASED")
  /\ UNCHANGED <<seen, late, model, own, lease, cuda, ran, saved, host>>

\* Seeded fault: a failed load without an adapter is not told apart.
UnprovenIgnored == FALSE

\* A load failed and left no adapter that could be closed.
Unproven == model.load = "failed" /\ model.adapter = "none"

UnloadRefused(k) ==
  /\ at[k] = "unload" /\ (model.adapter # "none" \/ own) /\ Unproven
  /\ End(k, "FAILED")
  /\ UNCHANGED <<seen, late, model, own, lease, cuda, ran, saved, host>>

\* The adapter is closed and dropped.  Without one there is nothing to
\* synchronize with and the lease is next.
Close(k) ==
  /\ at[k] = "unload" /\ (model.adapter # "none" \/ own) /\ ~Unproven
  /\ \/ /\ model' = Empty
        /\ Go(k, IF model.adapter # "none" THEN "sync" ELSE "giveback")
        /\ UNCHANGED <<gate, reply>>
     \/ /\ model.adapter # "none"
        /\ End(k, "FAILED") /\ UNCHANGED model
  /\ UNCHANGED <<seen, late, own, lease, cuda, ran, saved, host>>

\* CUDA finishes its work and gives its cache back, or the driver fails.  An
\* adapter without torch has no such work.
Synchronize(k) ==
  /\ at[k] = "sync"
  /\ \/ cuda' = FALSE /\ Go(k, "giveback") /\ UNCHANGED <<gate, reply>>
     \/ End(k, "FAILED") /\ UNCHANGED cuda
  /\ UNCHANGED <<seen, late, model, own, lease, ran, saved, host>>

\* A second call of release on the same lease object does nothing.
GiveBack(k) ==
  /\ at[k] = "giveback"
  /\ lease' = IF lease = "bento" THEN "free" ELSE lease
  /\ own' = FALSE
  /\ End(k, "RELEASED")
  /\ UNCHANGED <<seen, late, model, cuda, ran, saved, host>>

\* The file is closed by a release that fails, and with it goes the lock.
GiveBackFails(k) ==
  /\ at[k] = "giveback" /\ lease = "bento"
  /\ lease' \in {"free", "stale"}
  /\ End(k, "FAILED")
  /\ UNCHANGED <<seen, late, model, own, cuda, ran, saved, host>>

-----------------------------------------------------------------------------
(* The process and its neighbours.                                         *)

\* An orderly stop: nothing new is accepted and the hook waits for the gate.
StopService ==
  /\ phase = "serving" /\ stops < MaxStops
  /\ phase' = "stopping"
  /\ at' = [k \in Calls |-> IF Kind[k] = "hook" THEN "enter" ELSE at[k]]
  /\ UNCHANGED <<reply, seen, late, work, stops>>

\* The process is gone after its hook, by a crash or by the supervisor: its
\* memory is free, its lock too, and a lease it had leaves its marker.
ProcessEnds ==
  /\ phase # "down" /\ stops < MaxStops
  /\ phase' = "down" /\ stops' = stops + 1
  /\ at' = [k \in Calls |-> IF Kind[k] = "hook" THEN "unsent"
                            ELSE IF at[k] \in Inside THEN "done" ELSE at[k]]
  /\ reply' = [k \in Calls |-> None] /\ late' = {}
  /\ \E cut \in SUBSET {k \in Calls : at[k] = "sending"} :
       seen' = [k \in Calls |->
                 IF at[k] \in Inside /\ Kind[k] # "hook" /\ seen[k] = None
                 THEN IF k \in cut THEN "FAILED" ELSE "LOST"
                 ELSE seen[k]]
  /\ gate' = None /\ model' = Empty /\ own' = FALSE /\ cuda' = FALSE
  /\ lease' = IF lease = "bento" THEN "stale" ELSE lease
  /\ UNCHANGED <<ran, saved>>

\* The supervisor frees a dead owner's lease between two processes.
Recover ==
  /\ phase = "down" /\ lease = "stale" /\ lease' = "free"
  /\ UNCHANGED <<at, reply, seen, late, gate, model, own, cuda, ran, saved, host>>

Restart ==
  /\ phase = "down" /\ phase' = "serving"
  /\ UNCHANGED <<at, reply, seen, late, work, stops>>

\* The compute fabric takes the lease for a job, gives it back, or dies.
FabricUses ==
  /\ \/ lease = "free" /\ lease' = "fabric"
     \/ lease = "fabric" /\ lease' \in {"free", "stale"}
  /\ UNCHANGED <<at, reply, seen, late, gate, model, own, cuda, ran, saved, host>>

Handle(k) ==
  \/ EnterGate(k) \/ GateBusy(k) \/ Refuse(k)
  \/ StartResponse(k) \/ EndResponse(k)
  \/ ReadAudio(k) \/ Reuse(k) \/ LoadRefused(k) \/ AcquireLease(k)
  \/ LeaseDenied(k) \/ FactoryReturns(k) \/ FactoryFails(k)
  \/ InferReturns(k) \/ Save(k)
  \/ NothingResident(k) \/ UnloadRefused(k) \/ Close(k) \/ Synchronize(k)
  \/ GiveBack(k) \/ GiveBackFails(k)

ServiceNext ==
  \/ \E k \in Calls : Handle(k) \/ Timeout(k) \/ LoseConnection(k)
  \/ StopService \/ ProcessEnds \/ Recover \/ Restart \/ FabricUses

\* Clients that send their calls in any order.
ServiceSpec == ServiceInit
               /\ [][ServiceNext \/ \E k \in Calls : Kind[k] # "hook" /\ Send(k)]_serviceVars

-----------------------------------------------------------------------------
(* Properties.                                                             *)

\* At most one call is inside an adapter or the lease, and it has the gate,
\* also when its client has got a 504 long ago (service.py _acquire_gate,
\* HonestTimeoutMiddleware).
OneAtTheGate ==
  \A k \in Calls : at[k] \in Gated <=> gate = k

\* A model in memory, one being loaded, or a load that left the GPU in an
\* unknown state is always covered by the lease (service.py _load_model and
\* _release_model_locked, whichever of their steps fails).
ModelProtected ==
  \/ model # Empty
  \/ \E k \in Calls : at[k] \in {"factory", "infer", "write", "sync"}
  => lease = "bento" /\ own

\* An inference runs on the model its request names, and the model is not
\* unloaded below it (service.py _load_model, _release_model_locked).
RightModel ==
  \A k \in Calls : at[k] \in {"infer", "write"} =>
    model = [alias |-> Wants[k], adapter |-> "whole", load |-> "loaded"]

\* A failed load that left no adapter keeps the lease until the process ends
\* (service.py _release_model_locked, CONTRACT.md:69).
UnprovenKept ==
  [][model.load = "failed" /\ model.adapter = "none"
     => phase' = "down" \/ (model' = model /\ lease' = lease)]_serviceVars

\* "if unload fails, the lease stays protected" (CONTRACT.md:66): the process
\* frees the lease only when the memory of the model is known to be free.
GivenBackProved == [][lease = "bento" /\ lease' = "free" => ~cuda']_serviceVars
=============================================================================

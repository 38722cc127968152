------------------------ MODULE AudioControllerProofs ------------------------
(***************************************************************************)
(* Proofs about the persistent runtime and the plugin's controller on it:  *)
(* one call at the gate, the lease around every model, the right model for *)
(* every inference, no second execution behind an operation, and what      *)
(* COMPLETED means, for any calls, models, operations and ends of the      *)
(* process.                                                                *)
(***************************************************************************)
EXTENDS AudioController, TLAPS

\* What can happen to the runtime: a step of its own, or a client's request.
ServiceStep == ServiceNext \/ \E k \in Calls : Kind[k] # "hook" /\ Send(k)

\* The shutdown hook begins only when the process stops.
HookInv ==
  \A k \in Calls : Kind[k] = "hook" /\ phase # "stopping" => at[k] = "unsent"

\* What the places around the adapter and the lease take for granted.
PlaceInv ==
  /\ \A k \in Calls :
       at[k] \in {"factory", "infer", "write", "sync"} => lease = "bento" /\ own
  /\ \A k \in Calls :
       at[k] \in {"factory", "sync", "giveback"} => model = Empty

\* What is known of a model in memory.
ModelInv == /\ model # Empty => lease = "bento" /\ own
            /\ model.load = "loaded" => model.adapter = "whole"

MemInv == PlaceInv /\ ModelInv /\ RightModel

\* What an answer says of the execution of its request.
Answer(k) ==
  /\ at[k] \in {"unsent", "enter", "audio", "load"} => k \notin ran
  /\ reply[k] # None => at[k] \in {"reply", "sending"}
  /\ reply[k] = "MODEL_BUSY" => k \notin ran
  /\ seen[k] = "MODEL_BUSY" => at[k] = "done" /\ k \notin ran
  /\ reply[k] = "OK" \/ seen[k] = "OK" => k \in saved

AnswerInv == \A k \in Calls : Kind[k] = "infer" => Answer(k)

ServiceInv == ServiceTypeOK /\ HookInv /\ OneAtTheGate /\ MemInv /\ AnswerInv

-----------------------------------------------------------------------------

\* The variables of the runtime keep their types (service.py).
LEMMA TypeStep ==
  ServiceTypeOK /\ [ServiceStep]_serviceVars => ServiceTypeOK'
<1> SUFFICES ASSUME ServiceTypeOK, [ServiceStep]_serviceVars
             PROVE  ServiceTypeOK'
  OBVIOUS
<1> USE ServiceAssumption DEF ServiceTypeOK, Codes, Inside, Gated, Empty
<1>1. ASSUME NEW k \in Calls, Send(k), Kind[k] # "hook" PROVE ServiceTypeOK'
  BY <1>1 DEF Send, Go, Sees, work, host
<1>2. ASSUME NEW k \in Calls, EnterGate(k) PROVE ServiceTypeOK'
  BY <1>2 DEF EnterGate, Go, host
<1>3. ASSUME NEW k \in Calls, GateBusy(k) PROVE ServiceTypeOK'
  BY <1>3 DEF GateBusy, End, Go, host
<1>4. ASSUME NEW k \in Calls, Refuse(k) PROVE ServiceTypeOK'
  BY <1>4 DEF Refuse, End, Go, host
<1>5. ASSUME NEW k \in Calls, StartResponse(k) PROVE ServiceTypeOK'
  BY <1>5 DEF StartResponse, Go, work, host
<1>6. ASSUME NEW k \in Calls, EndResponse(k) PROVE ServiceTypeOK'
  BY <1>6 DEF EndResponse, Go, Sees, work, host
<1>7. ASSUME NEW k \in Calls, ReadAudio(k) PROVE ServiceTypeOK'
  BY <1>7 DEF ReadAudio, End, Go, host
<1>8. ASSUME NEW k \in Calls, Reuse(k) PROVE ServiceTypeOK'
  BY <1>8 DEF Reuse, Go, host
<1>9. ASSUME NEW k \in Calls, LoadRefused(k) PROVE ServiceTypeOK'
  BY <1>9 DEF LoadRefused, End, Go, host
<1>10. ASSUME NEW k \in Calls, AcquireLease(k) PROVE ServiceTypeOK'
  BY <1>10 DEF AcquireLease, Go, host
<1>11. ASSUME NEW k \in Calls, LeaseDenied(k) PROVE ServiceTypeOK'
  BY <1>11 DEF LeaseDenied, End, Go, host
<1>12. ASSUME NEW k \in Calls, FactoryReturns(k) PROVE ServiceTypeOK'
  BY <1>12 DEF FactoryReturns, Go, host
<1>13. ASSUME NEW k \in Calls, FactoryFails(k) PROVE ServiceTypeOK'
  BY <1>13 DEF FactoryFails, End, Go, host
<1>14. ASSUME NEW k \in Calls, InferReturns(k) PROVE ServiceTypeOK'
  BY <1>14 DEF InferReturns, End, Go, host
<1>15. ASSUME NEW k \in Calls, Save(k) PROVE ServiceTypeOK'
  BY <1>15 DEF Save, End, Go, host
<1>16. ASSUME NEW k \in Calls, NothingResident(k) PROVE ServiceTypeOK'
  BY <1>16 DEF NothingResident, End, Go, host
<1>17. ASSUME NEW k \in Calls, UnloadRefused(k) PROVE ServiceTypeOK'
  BY <1>17 DEF UnloadRefused, End, Go, host
<1>18. ASSUME NEW k \in Calls, Close(k) PROVE ServiceTypeOK'
  BY <1>18 DEF Close, End, Go, host
<1>19. ASSUME NEW k \in Calls, Synchronize(k) PROVE ServiceTypeOK'
  <2>1. at' \in [Calls -> Inside \cup {"unsent", "done"}]
    BY <1>19 DEF Synchronize, End, Go
  <2>2. reply' \in [Calls -> Codes \cup {None}]
    BY <1>19 DEF Synchronize, End, Go
  <2>3. gate' \in Calls \cup {None} /\ cuda' \in BOOLEAN
    BY <1>19 DEF Synchronize, End, Go
  <2>4. late' \subseteq {j \in Calls : Kind[j] = "infer" /\ at'[j] \in Inside}
    BY <1>19 DEF Synchronize, End, Go
  <2> QED
    BY <1>19, <2>1, <2>2, <2>3, <2>4 DEF Synchronize, host
<1>20. ASSUME NEW k \in Calls, GiveBack(k) PROVE ServiceTypeOK'
  BY <1>20 DEF GiveBack, End, Go, host
<1>21. ASSUME NEW k \in Calls, GiveBackFails(k) PROVE ServiceTypeOK'
  BY <1>21 DEF GiveBackFails, End, Go, host
<1>22. ASSUME NEW k \in Calls, Timeout(k) PROVE ServiceTypeOK'
  BY <1>22 DEF Timeout, Cutoff, Broken, Sees, work, host
<1>23. ASSUME NEW k \in Calls, LoseConnection(k) PROVE ServiceTypeOK'
  BY <1>23 DEF LoseConnection, Broken, Sees, work, host
<1>24. CASE StopService
  BY <1>24 DEF StopService, work, host
<1>25. CASE ProcessEnds
  <2>1. at' \in [Calls -> Inside \cup {"unsent", "done"}]
    BY <1>25 DEF ProcessEnds
  <2>2. /\ reply' \in [Calls -> Codes \cup {None}]
        /\ seen' \in [Calls -> Codes \cup {"SERVICE_TIMEOUT", "LOST", None}]
    BY <1>25 DEF ProcessEnds
  <2>3. late' = {} /\ gate' = None /\ model' = Empty /\ own' = FALSE /\ cuda' = FALSE
    BY <1>25 DEF ProcessEnds
  <2>4. /\ lease' \in {"free", "bento", "fabric", "stale"}
        /\ phase' \in {"serving", "stopping", "down"} /\ stops' \in 0..MaxStops
        /\ ran' \subseteq Calls /\ saved' \subseteq Calls
    BY <1>25 DEF ProcessEnds
  <2> QED
    BY <2>1, <2>2, <2>3, <2>4
<1>26. CASE Recover
  BY <1>26 DEF Recover, work, host
<1>27. CASE Restart
  BY <1>27 DEF Restart, work, host
<1>28. CASE FabricUses
  BY <1>28 DEF FabricUses, work, host
<1>29. CASE UNCHANGED serviceVars
  BY <1>29 DEF serviceVars, work, host
<1> QED
  BY <1>1, <1>2, <1>3, <1>4, <1>5, <1>6, <1>7, <1>8, <1>9, <1>10, <1>11,
     <1>12, <1>13, <1>14, <1>15, <1>16, <1>17, <1>18, <1>19, <1>20, <1>21,
     <1>22, <1>23, <1>24, <1>25, <1>26, <1>27, <1>28, <1>29
  DEF ServiceStep, ServiceNext, Handle

\* Only a stop sends the hook to the gate, and the end of the process ends it
\* (service.py, the shutdown hook).
LEMMA HookStep ==
  ServiceTypeOK /\ HookInv /\ [ServiceStep]_serviceVars => HookInv'
<1> SUFFICES ASSUME ServiceTypeOK, HookInv, [ServiceStep]_serviceVars
             PROVE  HookInv'
  OBVIOUS
<1> USE ServiceAssumption DEF ServiceTypeOK, HookInv, Inside, Gated
<1>1. ASSUME NEW k \in Calls, Send(k), Kind[k] # "hook" PROVE HookInv'
  BY <1>1 DEF Send, Go, Sees, work, host
<1>2. ASSUME NEW k \in Calls, EnterGate(k) PROVE HookInv'
  BY <1>2 DEF EnterGate, Go, host
<1>3. ASSUME NEW k \in Calls, GateBusy(k) PROVE HookInv'
  BY <1>3 DEF GateBusy, End, Go, host
<1>4. ASSUME NEW k \in Calls, Refuse(k) PROVE HookInv'
  BY <1>4 DEF Refuse, End, Go, host
<1>5. ASSUME NEW k \in Calls, StartResponse(k) PROVE HookInv'
  BY <1>5 DEF StartResponse, Go, work, host
<1>6. ASSUME NEW k \in Calls, EndResponse(k) PROVE HookInv'
  BY <1>6 DEF EndResponse, Go, Sees, work, host
<1>7. ASSUME NEW k \in Calls, ReadAudio(k) PROVE HookInv'
  BY <1>7 DEF ReadAudio, End, Go, host
<1>8. ASSUME NEW k \in Calls, Reuse(k) PROVE HookInv'
  BY <1>8 DEF Reuse, Go, host
<1>9. ASSUME NEW k \in Calls, LoadRefused(k) PROVE HookInv'
  BY <1>9 DEF LoadRefused, End, Go, host
<1>10. ASSUME NEW k \in Calls, AcquireLease(k) PROVE HookInv'
  BY <1>10 DEF AcquireLease, Go, host
<1>11. ASSUME NEW k \in Calls, LeaseDenied(k) PROVE HookInv'
  BY <1>11 DEF LeaseDenied, End, Go, host
<1>12. ASSUME NEW k \in Calls, FactoryReturns(k) PROVE HookInv'
  BY <1>12 DEF FactoryReturns, Go, host
<1>13. ASSUME NEW k \in Calls, FactoryFails(k) PROVE HookInv'
  BY <1>13 DEF FactoryFails, End, Go, host
<1>14. ASSUME NEW k \in Calls, InferReturns(k) PROVE HookInv'
  BY <1>14 DEF InferReturns, End, Go, host
<1>15. ASSUME NEW k \in Calls, Save(k) PROVE HookInv'
  BY <1>15 DEF Save, End, Go, host
<1>16. ASSUME NEW k \in Calls, NothingResident(k) PROVE HookInv'
  BY <1>16 DEF NothingResident, End, Go, host
<1>17. ASSUME NEW k \in Calls, UnloadRefused(k) PROVE HookInv'
  BY <1>17 DEF UnloadRefused, End, Go, host
<1>18. ASSUME NEW k \in Calls, Close(k) PROVE HookInv'
  BY <1>18 DEF Close, End, Go, host
<1>19. ASSUME NEW k \in Calls, Synchronize(k) PROVE HookInv'
  BY <1>19 DEF Synchronize, End, Go, host
<1>20. ASSUME NEW k \in Calls, GiveBack(k) PROVE HookInv'
  BY <1>20 DEF GiveBack, End, Go, host
<1>21. ASSUME NEW k \in Calls, GiveBackFails(k) PROVE HookInv'
  BY <1>21 DEF GiveBackFails, End, Go, host
<1>22. ASSUME NEW k \in Calls, Timeout(k) PROVE HookInv'
  BY <1>22 DEF Timeout, Cutoff, Broken, Sees, work, host
<1>23. ASSUME NEW k \in Calls, LoseConnection(k) PROVE HookInv'
  BY <1>23 DEF LoseConnection, Broken, Sees, work, host
<1>24. CASE StopService
  BY <1>24 DEF StopService, work, host
<1>25. CASE ProcessEnds
  BY <1>25 DEF ProcessEnds, work, host
<1>26. CASE Recover
  BY <1>26 DEF Recover, work, host
<1>27. CASE Restart
  BY <1>27 DEF Restart, work, host
<1>28. CASE FabricUses
  BY <1>28 DEF FabricUses, work, host
<1>29. CASE UNCHANGED serviceVars
  BY <1>29 DEF serviceVars, work, host
<1> QED
  BY <1>1, <1>2, <1>3, <1>4, <1>5, <1>6, <1>7, <1>8, <1>9, <1>10, <1>11,
     <1>12, <1>13, <1>14, <1>15, <1>16, <1>17, <1>18, <1>19, <1>20, <1>21,
     <1>22, <1>23, <1>24, <1>25, <1>26, <1>27, <1>28, <1>29
  DEF ServiceStep, ServiceNext, Handle

\* The gate is taken by one call and given back by the same, whatever the
\* middleware has answered (service.py _acquire_gate).
LEMMA GateStep ==
  ServiceTypeOK /\ HookInv /\ OneAtTheGate /\ [ServiceStep]_serviceVars => OneAtTheGate'
<1> SUFFICES ASSUME ServiceTypeOK, HookInv, OneAtTheGate, [ServiceStep]_serviceVars
             PROVE  OneAtTheGate'
  OBVIOUS
<1> USE ServiceAssumption DEF ServiceTypeOK, HookInv, OneAtTheGate, Inside, Gated
<1>1. ASSUME NEW k \in Calls, Send(k), Kind[k] # "hook" PROVE OneAtTheGate'
  BY <1>1 DEF Send, Go, Sees, work, host
<1>2. ASSUME NEW k \in Calls, EnterGate(k) PROVE OneAtTheGate'
  BY <1>2 DEF EnterGate, Go, host
<1>3. ASSUME NEW k \in Calls, GateBusy(k) PROVE OneAtTheGate'
  BY <1>3 DEF GateBusy, End, Go, host
<1>4. ASSUME NEW k \in Calls, Refuse(k) PROVE OneAtTheGate'
  BY <1>4 DEF Refuse, End, Go, host
<1>5. ASSUME NEW k \in Calls, StartResponse(k) PROVE OneAtTheGate'
  BY <1>5 DEF StartResponse, Go, work, host
<1>6. ASSUME NEW k \in Calls, EndResponse(k) PROVE OneAtTheGate'
  BY <1>6 DEF EndResponse, Go, Sees, work, host
<1>7. ASSUME NEW k \in Calls, ReadAudio(k) PROVE OneAtTheGate'
  BY <1>7 DEF ReadAudio, End, Go, host
<1>8. ASSUME NEW k \in Calls, Reuse(k) PROVE OneAtTheGate'
  BY <1>8 DEF Reuse, Go, host
<1>9. ASSUME NEW k \in Calls, LoadRefused(k) PROVE OneAtTheGate'
  BY <1>9 DEF LoadRefused, End, Go, host
<1>10. ASSUME NEW k \in Calls, AcquireLease(k) PROVE OneAtTheGate'
  BY <1>10 DEF AcquireLease, Go, host
<1>11. ASSUME NEW k \in Calls, LeaseDenied(k) PROVE OneAtTheGate'
  BY <1>11 DEF LeaseDenied, End, Go, host
<1>12. ASSUME NEW k \in Calls, FactoryReturns(k) PROVE OneAtTheGate'
  BY <1>12 DEF FactoryReturns, Go, host
<1>13. ASSUME NEW k \in Calls, FactoryFails(k) PROVE OneAtTheGate'
  BY <1>13 DEF FactoryFails, End, Go, host
<1>14. ASSUME NEW k \in Calls, InferReturns(k) PROVE OneAtTheGate'
  BY <1>14 DEF InferReturns, End, Go, host
<1>15. ASSUME NEW k \in Calls, Save(k) PROVE OneAtTheGate'
  BY <1>15 DEF Save, End, Go, host
<1>16. ASSUME NEW k \in Calls, NothingResident(k) PROVE OneAtTheGate'
  BY <1>16 DEF NothingResident, End, Go, host
<1>17. ASSUME NEW k \in Calls, UnloadRefused(k) PROVE OneAtTheGate'
  BY <1>17 DEF UnloadRefused, End, Go, host
<1>18. ASSUME NEW k \in Calls, Close(k) PROVE OneAtTheGate'
  BY <1>18 DEF Close, End, Go, host
<1>19. ASSUME NEW k \in Calls, Synchronize(k) PROVE OneAtTheGate'
  BY <1>19 DEF Synchronize, End, Go, host
<1>20. ASSUME NEW k \in Calls, GiveBack(k) PROVE OneAtTheGate'
  BY <1>20 DEF GiveBack, End, Go, host
<1>21. ASSUME NEW k \in Calls, GiveBackFails(k) PROVE OneAtTheGate'
  BY <1>21 DEF GiveBackFails, End, Go, host
<1>22. ASSUME NEW k \in Calls, Timeout(k) PROVE OneAtTheGate'
  BY <1>22 DEF Timeout, Cutoff, Broken, Sees, work, host
<1>23. ASSUME NEW k \in Calls, LoseConnection(k) PROVE OneAtTheGate'
  BY <1>23 DEF LoseConnection, Broken, Sees, work, host
<1>24. CASE StopService
  BY <1>24 DEF StopService, work, host
<1>25. CASE ProcessEnds
  BY <1>25 DEF ProcessEnds, work, host
<1>26. CASE Recover
  BY <1>26 DEF Recover, work, host
<1>27. CASE Restart
  BY <1>27 DEF Restart, work, host
<1>28. CASE FabricUses
  BY <1>28 DEF FabricUses, work, host
<1>29. CASE UNCHANGED serviceVars
  BY <1>29 DEF serviceVars, work, host
<1> QED
  BY <1>1, <1>2, <1>3, <1>4, <1>5, <1>6, <1>7, <1>8, <1>9, <1>10, <1>11,
     <1>12, <1>13, <1>14, <1>15, <1>16, <1>17, <1>18, <1>19, <1>20, <1>21,
     <1>22, <1>23, <1>24, <1>25, <1>26, <1>27, <1>28, <1>29
  DEF ServiceStep, ServiceNext, Handle

\* The lease covers a model from before the factory until after the last step
\* of the release (service.py _load_model, _release_model_locked).
LEMMA MemStep ==
  ServiceTypeOK /\ HookInv /\ OneAtTheGate /\ MemInv /\ [ServiceStep]_serviceVars => MemInv'
<1> SUFFICES ASSUME ServiceTypeOK, HookInv, OneAtTheGate, MemInv, [ServiceStep]_serviceVars
             PROVE  MemInv'
  OBVIOUS
<1> USE ServiceAssumption DEF ServiceTypeOK, HookInv, OneAtTheGate, MemInv, PlaceInv, ModelInv,
         RightModel, Inside, Gated, Empty, Resident, Unproven, LeaseFree
<1>1. ASSUME NEW k \in Calls, Send(k), Kind[k] # "hook" PROVE MemInv'
  BY <1>1 DEF Send, Go, Sees, work, host
<1>2. ASSUME NEW k \in Calls, EnterGate(k) PROVE MemInv'
  BY <1>2 DEF EnterGate, Go, host
<1>3. ASSUME NEW k \in Calls, GateBusy(k) PROVE MemInv'
  BY <1>3 DEF GateBusy, End, Go, host
<1>4. ASSUME NEW k \in Calls, Refuse(k) PROVE MemInv'
  BY <1>4 DEF Refuse, End, Go, host
<1>5. ASSUME NEW k \in Calls, StartResponse(k) PROVE MemInv'
  BY <1>5 DEF StartResponse, Go, work, host
<1>6. ASSUME NEW k \in Calls, EndResponse(k) PROVE MemInv'
  BY <1>6 DEF EndResponse, Go, Sees, work, host
<1>7. ASSUME NEW k \in Calls, ReadAudio(k) PROVE MemInv'
  BY <1>7 DEF ReadAudio, End, Go, host
<1>8. ASSUME NEW k \in Calls, Reuse(k) PROVE MemInv'
  BY <1>8 DEF Reuse, Go, host
<1>9. ASSUME NEW k \in Calls, LoadRefused(k) PROVE MemInv'
  BY <1>9 DEF LoadRefused, End, Go, host
<1>10. ASSUME NEW k \in Calls, AcquireLease(k) PROVE MemInv'
  BY <1>10 DEF AcquireLease, Go, host
<1>11. ASSUME NEW k \in Calls, LeaseDenied(k) PROVE MemInv'
  BY <1>11 DEF LeaseDenied, End, Go, host
<1>12. ASSUME NEW k \in Calls, FactoryReturns(k) PROVE MemInv'
  BY <1>12 DEF FactoryReturns, Go, host
<1>13. ASSUME NEW k \in Calls, FactoryFails(k) PROVE MemInv'
  BY <1>13 DEF FactoryFails, End, Go, host
<1>14. ASSUME NEW k \in Calls, InferReturns(k) PROVE MemInv'
  BY <1>14 DEF InferReturns, End, Go, host
<1>15. ASSUME NEW k \in Calls, Save(k) PROVE MemInv'
  BY <1>15 DEF Save, End, Go, host
<1>16. ASSUME NEW k \in Calls, NothingResident(k) PROVE MemInv'
  BY <1>16 DEF NothingResident, End, Go, host
<1>17. ASSUME NEW k \in Calls, UnloadRefused(k) PROVE MemInv'
  BY <1>17 DEF UnloadRefused, End, Go, host
<1>18. ASSUME NEW k \in Calls, Close(k) PROVE MemInv'
  BY <1>18 DEF Close, End, Go, host
<1>19. ASSUME NEW k \in Calls, Synchronize(k) PROVE MemInv'
  BY <1>19 DEF Synchronize, End, Go, host
<1>20. ASSUME NEW k \in Calls, GiveBack(k) PROVE MemInv'
  BY <1>20 DEF GiveBack, End, Go, host
<1>21. ASSUME NEW k \in Calls, GiveBackFails(k) PROVE MemInv'
  BY <1>21 DEF GiveBackFails, End, Go, host
<1>22. ASSUME NEW k \in Calls, Timeout(k) PROVE MemInv'
  BY <1>22 DEF Timeout, Cutoff, Broken, Sees, work, host
<1>23. ASSUME NEW k \in Calls, LoseConnection(k) PROVE MemInv'
  BY <1>23 DEF LoseConnection, Broken, Sees, work, host
<1>24. CASE StopService
  BY <1>24 DEF StopService, work, host
<1>25. CASE ProcessEnds
  BY <1>25 DEF ProcessEnds, work, host
<1>26. CASE Recover
  BY <1>26 DEF Recover, work, host
<1>27. CASE Restart
  BY <1>27 DEF Restart, work, host
<1>28. CASE FabricUses
  BY <1>28 DEF FabricUses, work, host
<1>29. CASE UNCHANGED serviceVars
  BY <1>29 DEF serviceVars, work, host
<1> QED
  BY <1>1, <1>2, <1>3, <1>4, <1>5, <1>6, <1>7, <1>8, <1>9, <1>10, <1>11,
     <1>12, <1>13, <1>14, <1>15, <1>16, <1>17, <1>18, <1>19, <1>20, <1>21,
     <1>22, <1>23, <1>24, <1>25, <1>26, <1>27, <1>28, <1>29
  DEF ServiceStep, ServiceNext, Handle

\* MODEL_BUSY precedes every execution, OK follows the artifact (service.py
\* infer_audio).
LEMMA AnswerStep ==
  ServiceTypeOK /\ AnswerInv /\ [ServiceStep]_serviceVars => AnswerInv'
<1> SUFFICES ASSUME ServiceTypeOK, AnswerInv, [ServiceStep]_serviceVars,
                    NEW j \in Calls, Kind[j] = "infer"
             PROVE  Answer(j)'
  BY DEF AnswerInv
<1> USE ServiceAssumption DEF ServiceTypeOK, AnswerInv, Answer, Codes, Inside, Gated
<1>1. ASSUME NEW k \in Calls, Send(k), Kind[k] # "hook" PROVE Answer(j)'
  BY <1>1 DEF Send, Go, Sees, work, host
<1>2. ASSUME NEW k \in Calls, EnterGate(k) PROVE Answer(j)'
  BY <1>2 DEF EnterGate, Go, host
<1>3. ASSUME NEW k \in Calls, GateBusy(k) PROVE Answer(j)'
  BY <1>3 DEF GateBusy, End, Go, host
<1>4. ASSUME NEW k \in Calls, Refuse(k) PROVE Answer(j)'
  BY <1>4 DEF Refuse, End, Go, host
<1>5. ASSUME NEW k \in Calls, StartResponse(k) PROVE Answer(j)'
  BY <1>5 DEF StartResponse, Go, work, host
<1>6. ASSUME NEW k \in Calls, EndResponse(k) PROVE Answer(j)'
  <2>1. CASE j = k
    BY <1>6, <2>1 DEF EndResponse, Go, Sees, work, host
  <2>2. CASE j # k
    BY <1>6, <2>2 DEF EndResponse, Go, Sees, work, host
  <2> QED
    BY <2>1, <2>2
<1>7. ASSUME NEW k \in Calls, ReadAudio(k) PROVE Answer(j)'
  BY <1>7 DEF ReadAudio, End, Go, host
<1>8. ASSUME NEW k \in Calls, Reuse(k) PROVE Answer(j)'
  <2>1. CASE j = k
    BY <1>8, <2>1 DEF Reuse, Go, host
  <2>2. CASE j # k
    BY <1>8, <2>2 DEF Reuse, Go, host
  <2> QED
    BY <2>1, <2>2
<1>9. ASSUME NEW k \in Calls, LoadRefused(k) PROVE Answer(j)'
  BY <1>9 DEF LoadRefused, End, Go, host
<1>10. ASSUME NEW k \in Calls, AcquireLease(k) PROVE Answer(j)'
  BY <1>10 DEF AcquireLease, Go, host
<1>11. ASSUME NEW k \in Calls, LeaseDenied(k) PROVE Answer(j)'
  BY <1>11 DEF LeaseDenied, End, Go, host
<1>12. ASSUME NEW k \in Calls, FactoryReturns(k) PROVE Answer(j)'
  <2>1. CASE j = k
    BY <1>12, <2>1 DEF FactoryReturns, Go, host
  <2>2. CASE j # k
    BY <1>12, <2>2 DEF FactoryReturns, Go, host
  <2> QED
    BY <2>1, <2>2
<1>13. ASSUME NEW k \in Calls, FactoryFails(k) PROVE Answer(j)'
  BY <1>13 DEF FactoryFails, End, Go, host
<1>14. ASSUME NEW k \in Calls, InferReturns(k) PROVE Answer(j)'
  BY <1>14 DEF InferReturns, End, Go, host
<1>15. ASSUME NEW k \in Calls, Save(k) PROVE Answer(j)'
  BY <1>15 DEF Save, End, Go, host
<1>16. ASSUME NEW k \in Calls, NothingResident(k) PROVE Answer(j)'
  BY <1>16 DEF NothingResident, End, Go, host
<1>17. ASSUME NEW k \in Calls, UnloadRefused(k) PROVE Answer(j)'
  BY <1>17 DEF UnloadRefused, End, Go, host
<1>18. ASSUME NEW k \in Calls, Close(k) PROVE Answer(j)'
  BY <1>18 DEF Close, End, Go, host
<1>19. ASSUME NEW k \in Calls, Synchronize(k) PROVE Answer(j)'
  BY <1>19 DEF Synchronize, End, Go, host
<1>20. ASSUME NEW k \in Calls, GiveBack(k) PROVE Answer(j)'
  BY <1>20 DEF GiveBack, End, Go, host
<1>21. ASSUME NEW k \in Calls, GiveBackFails(k) PROVE Answer(j)'
  BY <1>21 DEF GiveBackFails, End, Go, host
<1>22. ASSUME NEW k \in Calls, Timeout(k) PROVE Answer(j)'
  BY <1>22 DEF Timeout, Cutoff, Broken, Sees, work, host
<1>23. ASSUME NEW k \in Calls, LoseConnection(k) PROVE Answer(j)'
  BY <1>23 DEF LoseConnection, Broken, Sees, work, host
<1>24. CASE StopService
  BY <1>24 DEF StopService, work, host
<1>25. CASE ProcessEnds
  <2>1. reply'[j] = None /\ ran' = ran /\ saved' = saved
    BY <1>25 DEF ProcessEnds
  <2>2. at'[j] \in {"unsent", "enter", "audio", "load"} => at[j] = at'[j]
    BY <1>25 DEF ProcessEnds
  <2>3. seen'[j] = "MODEL_BUSY" => seen[j] = "MODEL_BUSY" /\ at'[j] = "done"
    BY <1>25 DEF ProcessEnds
  <2>4. seen'[j] = "OK" => seen[j] = "OK"
    BY <1>25 DEF ProcessEnds
  <2> QED
    BY <2>1, <2>2, <2>3, <2>4
<1>26. CASE Recover
  BY <1>26 DEF Recover, work, host
<1>27. CASE Restart
  BY <1>27 DEF Restart, work, host
<1>28. CASE FabricUses
  BY <1>28 DEF FabricUses, work, host
<1>29. CASE UNCHANGED serviceVars
  BY <1>29 DEF serviceVars, work, host
<1> QED
  BY <1>1, <1>2, <1>3, <1>4, <1>5, <1>6, <1>7, <1>8, <1>9, <1>10, <1>11,
     <1>12, <1>13, <1>14, <1>15, <1>16, <1>17, <1>18, <1>19, <1>20, <1>21,
     <1>22, <1>23, <1>24, <1>25, <1>26, <1>27, <1>28, <1>29
  DEF ServiceStep, ServiceNext, Handle

\* What ServiceInv says in the first state.
LEMMA ServiceStarts == ServiceInit => ServiceInv
<1> SUFFICES ASSUME ServiceInit PROVE ServiceInv
  OBVIOUS
<1> USE ServiceAssumption DEF ServiceInit
<1>1. ServiceTypeOK
  <2>1. model \in [alias : Aliases \cup {None}, adapter : {"none", "partial", "whole"},
                  load : {"none", "loaded", "failed"}]
    BY DEF Empty
  <2>2. /\ at \in [Calls -> Inside \cup {"unsent", "done"}]
        /\ reply \in [Calls -> Codes \cup {None}]
        /\ seen \in [Calls -> Codes \cup {"SERVICE_TIMEOUT", "LOST", None}]
    BY DEF Inside
  <2>3. late \subseteq {k \in Calls : Kind[k] = "infer" /\ at[k] \in Inside}
    OBVIOUS
  <2>4. /\ gate \in Calls \cup {None} /\ ran \subseteq Calls /\ saved \subseteq Calls
        /\ lease \in {"free", "bento", "fabric", "stale"}
        /\ phase \in {"serving", "stopping", "down"} /\ stops \in 0..MaxStops
    OBVIOUS
  <2>5. own \in BOOLEAN /\ cuda \in BOOLEAN
    OBVIOUS
  <2> QED
    BY <2>1, <2>2, <2>3, <2>4, <2>5 DEF ServiceTypeOK
<1>2. HookInv /\ OneAtTheGate
  BY DEF HookInv, OneAtTheGate, Gated
<1>3. MemInv
  BY DEF MemInv, PlaceInv, ModelInv, RightModel, Empty
<1>4. AnswerInv
  BY DEF AnswerInv, Answer, Codes
<1> QED
  BY <1>1, <1>2, <1>3, <1>4 DEF ServiceInv

\* ServiceInv is inductive for the runtime.
LEMMA ServiceKeeps == ServiceInv /\ [ServiceStep]_serviceVars => ServiceInv'
  BY TypeStep, HookStep, GateStep, MemStep, AnswerStep DEF ServiceInv

\* An unproven load has the lease, and no step but the end of the process
\* touches either (service.py _release_model_locked).
LEMMA UnprovenStep ==
  ServiceInv /\ [ServiceStep]_serviceVars
  /\ model.load = "failed" /\ model.adapter = "none"
  => phase' = "down" \/ (model' = model /\ lease' = lease)
<1> SUFFICES ASSUME ServiceInv, [ServiceStep]_serviceVars, model.load = "failed",
                    model.adapter = "none", phase' # "down"
             PROVE  model' = model /\ lease' = lease
  OBVIOUS
<1>1. model # Empty /\ lease = "bento"
  BY DEF ServiceInv, MemInv, ModelInv, Empty
<1>2. \A k \in Calls : at[k] \notin {"factory", "sync", "giveback"}
  BY <1>1 DEF ServiceInv, MemInv, PlaceInv
<1>3. ASSUME NEW k \in Calls, Handle(k) PROVE model' = model /\ lease' = lease
  BY <1>1, <1>2, <1>3 DEF Handle, EnterGate, GateBusy, Refuse, StartResponse, EndResponse,
     ReadAudio, Reuse, LoadRefused, AcquireLease, LeaseDenied, FactoryReturns,
     FactoryFails, InferReturns, Save, NothingResident, UnloadRefused, Unproven,
     Close, Synchronize, GiveBack, GiveBackFails, work
<1>4. ASSUME NEW k \in Calls, Send(k) \/ Timeout(k) \/ LoseConnection(k)
      PROVE  model' = model /\ lease' = lease
  BY <1>4 DEF Send, Timeout, LoseConnection, work
<1>5. CASE StopService \/ ProcessEnds \/ Recover \/ Restart \/ FabricUses
  BY <1>1, <1>5 DEF StopService, ProcessEnds, Recover, Restart, FabricUses, work
<1>6. CASE UNCHANGED serviceVars
  BY <1>6 DEF serviceVars, work
<1> QED
  BY <1>3, <1>4, <1>5, <1>6 DEF ServiceStep, ServiceNext

\* The hook may be called again, an inference not: what is unsent is sent by its
\* client only, and what is over stays over (service.py infer_audio).
LEMMA Settled ==
  ASSUME ServiceTypeOK, ServiceNext, NEW k \in Calls, Kind[k] = "infer"
  PROVE  /\ at[k] = "unsent" => at'[k] = "unsent"
         /\ at[k] = "sending" => at'[k] \in {"sending", "done"}
         /\ at[k] = "done" => at'[k] = "done" /\ (k \in ran' => k \in ran)
         /\ saved \subseteq saved'
<1> USE DEF ServiceTypeOK
<1>1. ASSUME NEW j \in Calls, Handle(j)
      PROVE  /\ at[j] \notin {"unsent", "done"} /\ saved \subseteq saved'
             /\ at[j] = "sending" => at'[j] = "done"
             /\ j # k => at'[k] = at[k] /\ (k \in ran' => k \in ran)
  BY <1>1 DEF Handle, EnterGate, GateBusy, Refuse, StartResponse, EndResponse,
     ReadAudio, Reuse, LoadRefused, AcquireLease, LeaseDenied, FactoryReturns,
     FactoryFails, InferReturns, Save, NothingResident, UnloadRefused, Close,
     Synchronize, GiveBack, GiveBackFails, Go, End, work
<1>2. ASSUME NEW j \in Calls, Timeout(j) \/ LoseConnection(j)
      PROVE  at' = at /\ ran' = ran /\ saved' = saved
  BY <1>2 DEF Timeout, LoseConnection, work
<1>3. CASE StopService \/ ProcessEnds \/ Recover \/ Restart \/ FabricUses
  BY <1>3 DEF StopService, ProcessEnds, Recover, Restart, FabricUses, work, Inside, Gated
<1> QED
  BY <1>1, <1>2, <1>3 DEF ServiceNext

-----------------------------------------------------------------------------

\* The files an operation has at each place.
FilesAt == [idle |-> {}, first |-> {}, release |-> {}, second |-> {}, wav |-> {},
            operation |-> {"wav"}, manifest |-> {"wav", "operation"},
            COMPLETED |-> {"wav", "operation", "manifest"}]

\* The second inference follows a first that was not executed, and files follow
\* an artifact of the runtime.
OperationInv ==
  \A c \in Controllers :
    /\ step[c] \in {"idle", "first", "release"} => at[Third(c)] = "unsent"
    /\ at[Third(c)] # "unsent" \/ step[c] = "release" =>
         at[First(c)] = "done" /\ First(c) \notin ran
    /\ step[c] \in DOMAIN FilesAt => files[c] = FilesAt[step[c]]
    /\ step[c] \in DOMAIN Following \cup {"COMPLETED"} =>
         {First(c), Third(c)} \cap saved # {}

IInv == ServiceInv /\ TypeOK /\ OperationInv

\* Every step of an operation is one a client of the runtime may make.
LEMMA OperationsAreClients == [Next]_vars => [ServiceStep]_serviceVars
<1> SUFFICES ASSUME Next PROVE ServiceStep \/ UNCHANGED serviceVars
  BY DEF vars
<1>1. ASSUME NEW c \in Controllers, Operate(c)
      PROVE  ServiceStep \/ UNCHANGED serviceVars
  BY <1>1, ControllerAssumption
  DEF Operate, Begin, ReleaseFirst, AskAgain, Accept, Unknown, Fail, Publish, ServiceStep
<1> QED
  BY <1>1 DEF Next, ServiceStep

\* The operations keep their types (client.py infer_audio).
LEMMA OperationTypeStep == TypeOK /\ ServiceTypeOK' /\ [Next]_vars => TypeOK'
<1> SUFFICES ASSUME TypeOK, ServiceTypeOK', [Next]_vars PROVE TypeOK'
  OBVIOUS
<1> USE DEF TypeOK, Waiting, Ended, Now
<1>1. ASSUME NEW c \in Controllers, Operate(c) PROVE TypeOK'
  BY <1>1 DEF Operate, Begin, ReleaseFirst, AskAgain, Accept, Unknown, Fail, Publish,
     Following
<1>2. CASE UNCHANGED <<step, files>>
  BY <1>2
<1> QED
  BY <1>1, <1>2 DEF Next, vars

\* A request that one operation sends is not one of another place or operation.
LEMMA SendMoves ==
  ASSUME ServiceTypeOK, NEW k \in Calls, Send(k)
  PROVE  /\ at[k] = "unsent" /\ ran' = ran /\ saved' = saved
         /\ \A j \in Calls \ {k} : at'[j] = at[j]
  BY DEF ServiceTypeOK, Send, Go, work

\* The requests of the operations are all different, and of the right kind.
LEMMA OwnCalls ==
  \A c, d \in Controllers :
    /\ First(c) \in Calls /\ Second(c) \in Calls /\ Third(c) \in Calls
    /\ Kind[First(c)] = "infer" /\ Kind[Third(c)] = "infer"
    /\ First(c) # Third(d) /\ First(c) # Second(d) /\ Third(c) # Second(d)
    /\ c # d => First(c) # First(d) /\ Third(c) # Third(d)
  BY ControllerAssumption DEF First, Second, Third

\* A step of the runtime keeps what an operation knows.
LEMMA ServiceMeanwhile ==
  IInv /\ ServiceNext /\ UNCHANGED <<step, files>> => OperationInv'
<1> SUFFICES ASSUME IInv, ServiceNext, UNCHANGED <<step, files>>,
                    NEW c \in Controllers
             PROVE  /\ step[c] \in {"idle", "first", "release"}
                         => at'[Third(c)] = "unsent"
                    /\ at'[Third(c)] # "unsent" \/ step[c] = "release" =>
                         at'[First(c)] = "done" /\ First(c) \notin ran'
                    /\ step[c] \in DOMAIN FilesAt => files[c] = FilesAt[step[c]]
                    /\ step[c] \in DOMAIN Following \cup {"COMPLETED"} =>
                         {First(c), Third(c)} \cap saved' # {}
  BY DEF OperationInv
<1>1. /\ at[Third(c)] = "unsent" => at'[Third(c)] = "unsent"
      /\ at[First(c)] = "done" => at'[First(c)] = "done"
                                  /\ (First(c) \in ran' => First(c) \in ran)
      /\ saved \subseteq saved'
  BY OwnCalls, Settled DEF IInv, ServiceInv
<1> HIDE DEF First, Third
<1> QED
  BY <1>1 DEF IInv, OperationInv

\* An operation keeps what it knows, and what the others know.
LEMMA OperationStep == IInv /\ [Next]_vars => OperationInv'
<1> SUFFICES ASSUME IInv, [Next]_vars PROVE OperationInv'
  OBVIOUS
<1>1. ASSUME NEW d \in Controllers, Operate(d), NEW c \in Controllers
      PROVE  /\ step'[c] \in {"idle", "first", "release"}
                  => at'[Third(c)] = "unsent"
             /\ at'[Third(c)] # "unsent" \/ step'[c] = "release" =>
                  at'[First(c)] = "done" /\ First(c) \notin ran'
             /\ step'[c] \in DOMAIN FilesAt => files'[c] = FilesAt[step'[c]]
             /\ step'[c] \in DOMAIN Following \cup {"COMPLETED"} =>
                  {First(c), Third(c)} \cap saved' # {}
  <2>0. /\ step[c] \in {"idle", "first", "release"} => at[Third(c)] = "unsent"
        /\ at[Third(c)] # "unsent" \/ step[c] = "release" =>
             at[First(c)] = "done" /\ First(c) \notin ran
        /\ step[c] \in DOMAIN FilesAt => files[c] = FilesAt[step[c]]
        /\ step[c] \in DOMAIN Following \cup {"COMPLETED"} =>
             {First(c), Third(c)} \cap saved # {}
    BY DEF IInv, OperationInv
  <2>a. /\ ServiceTypeOK /\ c \in DOMAIN step /\ c \in DOMAIN files
        /\ d \in DOMAIN step /\ d \in DOMAIN files
    BY DEF IInv, TypeOK
  <2>b. /\ First(c) \in Calls /\ Second(c) \in Calls /\ Third(c) \in Calls
        /\ First(d) \in Calls /\ Second(d) \in Calls /\ Third(d) \in Calls
        /\ First(d) # Third(c) /\ Second(d) # First(c) /\ Second(d) # Third(c)
        /\ Third(d) # First(c)
        /\ c # d => First(c) # First(d) /\ Third(c) # Third(d)
    BY OwnCalls
  <2>c. Answer(First(c)) /\ Answer(Third(c))
    BY OwnCalls DEF IInv, ServiceInv, AnswerInv
  <2> HIDE DEF First, Second, Third
  <2>1. CASE d # c
    <3>1. step'[c] = step[c] /\ files'[c] = files[c]
      BY <1>1, <2>1, <2>a DEF Operate, Begin, ReleaseFirst, AskAgain, Accept, Unknown,
         Fail, Publish, Now
    <3>2. /\ at'[First(c)] = at[First(c)] /\ at'[Third(c)] = at[Third(c)]
          /\ ran' = ran /\ saved' = saved
      BY <1>1, <2>1, <2>a, <2>b, SendMoves DEF Operate, Begin, ReleaseFirst, AskAgain,
         Accept, Unknown, Fail, Publish, serviceVars, work
    <3> QED
      BY <3>1, <3>2, <2>0
  <2>2. CASE d = c /\ Begin(c)
    <3>1. step[c] = "idle" /\ step'[c] \in {"first", "ERROR"} /\ files' = files
      BY <2>2, <2>a DEF Begin, Now
    <3>2. at'[Third(c)] = at[Third(c)] /\ ran' = ran /\ saved' = saved
      BY <2>2, <2>a, <2>b, SendMoves DEF Begin, serviceVars, work
    <3> QED
      BY <2>0, <3>1, <3>2 DEF FilesAt, Following
  <2>3. CASE d = c /\ ReleaseFirst(c)
    <3>1. /\ step[c] = "first" /\ step'[c] = "release" /\ files' = files
          /\ seen[First(c)] = "MODEL_BUSY"
      BY <2>3, <2>a DEF ReleaseFirst, Now, MayAskAgain, Got, Pending
    <3>2. /\ at'[First(c)] = at[First(c)] /\ at'[Third(c)] = at[Third(c)]
          /\ ran' = ran /\ saved' = saved
      BY <2>3, <2>a, <2>b, SendMoves DEF ReleaseFirst
    <3> QED
      BY <2>0, <2>c, <3>1, <3>2 DEF FilesAt, Following, Answer
  <2>4. CASE d = c /\ AskAgain(c)
    <3>1. step[c] = "release" /\ step'[c] = "second" /\ files' = files
      BY <2>4, <2>a DEF AskAgain, Now
    <3>2. at'[First(c)] = at[First(c)] /\ ran' = ran /\ saved' = saved
      BY <2>4, <2>a, <2>b, SendMoves DEF AskAgain
    <3> QED
      BY <2>0, <3>1, <3>2 DEF FilesAt, Following
  <2>5. CASE d = c /\ Accept(c)
    <3>1. /\ step[c] \in {"first", "second"} /\ step'[c] \in {"wav", "ERROR"}
          /\ files' = files
      BY <2>5, <2>a DEF Accept, Now
    <3>2. seen[First(c)] = "OK" \/ seen[Third(c)] = "OK"
      BY <2>5 DEF Accept, Got, Pending
    <3>3. at' = at /\ ran' = ran /\ saved' = saved
      BY <2>5 DEF Accept, serviceVars, work
    <3> QED
      BY <2>0, <2>c, <3>1, <3>2, <3>3 DEF FilesAt, Following, Answer
  <2>6. CASE d = c /\ (Unknown(c) \/ Fail(c))
    <3>1. step'[c] \in {"UNKNOWN", "ERROR"} /\ files' = files
      BY <2>6, <2>a DEF Unknown, Fail, Now
    <3>2. at' = at /\ ran' = ran /\ saved' = saved
      BY <2>6 DEF Unknown, Fail, serviceVars, work
    <3> QED
      BY <2>0, <3>1, <3>2 DEF FilesAt, Following
  <2>7. CASE d = c /\ Publish(c)
    <3>1. /\ step[c] \in DOMAIN Following
          /\ \/ step'[c] = Following[step[c]] /\ files'[c] = files[c] \cup {step[c]}
             \/ step'[c] = "ERROR" /\ files' = files
      BY <2>7, <2>a DEF Publish, Now
    <3>2. at' = at /\ ran' = ran /\ saved' = saved
      BY <2>7 DEF Publish, serviceVars, work
    <3> QED
      BY <2>0, <3>1, <3>2 DEF FilesAt, Following
  <2> QED
    BY <1>1, <2>1, <2>2, <2>3, <2>4, <2>5, <2>6, <2>7 DEF Operate
<1>2. CASE UNCHANGED vars
  BY <1>2 DEF IInv, OperationInv, vars, serviceVars, work
<1>3. CASE ServiceNext /\ UNCHANGED <<step, files>>
  BY <1>3, ServiceMeanwhile
<1>4. ASSUME NEW d \in Controllers, Operate(d) PROVE OperationInv'
  BY <1>1, <1>4 DEF OperationInv
<1> QED
  BY <1>2, <1>3, <1>4 DEF Next

-----------------------------------------------------------------------------

\* IInv is an inductive invariant of the operations on the runtime.
THEOREM Inductive == Spec => []IInv
<1>1. Init => IInv
  <2> SUFFICES ASSUME Init PROVE IInv
    OBVIOUS
  <2>1. ServiceInv
    BY ServiceStarts DEF Init
  <2>2. TypeOK
    BY <2>1 DEF Init, TypeOK, ServiceInv
  <2>3. OperationInv
    BY OwnCalls DEF Init, OperationInv, ServiceInit, FilesAt, Following
  <2> QED
    BY <2>1, <2>2, <2>3 DEF IInv
<1>2. IInv /\ [Next]_vars => IInv'
  <2> SUFFICES ASSUME IInv, [Next]_vars PROVE IInv'
    OBVIOUS
  <2>1. ServiceInv'
    BY OperationsAreClients, ServiceKeeps DEF IInv
  <2>2. TypeOK'
    BY <2>1, OperationTypeStep DEF IInv, ServiceInv
  <2> QED
    BY <2>1, <2>2, OperationStep DEF IInv
<1> QED
  BY <1>1, <1>2, PTL DEF Spec

\* Every variable of the runtime and of the operations keeps its type
\* (service.py, client.py infer_audio).
THEOREM TypeCorrect == Spec => []TypeOK
<1>1. IInv => TypeOK
  BY DEF IInv
<1> QED
  BY <1>1, Inductive, PTL

\* One call is inside an adapter or the lease, also when its client got a 504
\* long ago (service.py _acquire_gate, HonestTimeoutMiddleware).
THEOREM GateHolds == Spec => []OneAtTheGate
<1>1. IInv => OneAtTheGate
  BY DEF IInv, ServiceInv
<1> QED
  BY <1>1, Inductive, PTL

\* The lease covers every model and every load that may have left one, whichever
\* step of a load or a release fails (service.py _load_model,
\* _release_model_locked).
THEOREM ModelIsProtected == Spec => []ModelProtected
<1>1. IInv => ModelProtected
  BY DEF IInv, ServiceInv, MemInv, PlaceInv, ModelInv, ModelProtected
<1> QED
  BY <1>1, Inductive, PTL

\* An inference runs on the model it names, which nobody unloads meanwhile
\* (service.py _load_model, _release_model_locked).
THEOREM RunsOnItsModel == Spec => []RightModel
<1>1. IInv => RightModel
  BY DEF IInv, ServiceInv, MemInv
<1> QED
  BY <1>1, Inductive, PTL

\* No operation makes the GPU work twice (client.py infer_audio).
THEOREM RunsOnce == Spec => []NoSilentRerun
<1>1. IInv => NoSilentRerun
  <2> SUFFICES ASSUME IInv, NEW c \in Controllers, {First(c), Third(c)} \subseteq ran
               PROVE  FALSE
    BY DEF NoSilentRerun
  <2>1. Answer(Third(c))
    BY OwnCalls DEF IInv, ServiceInv, AnswerInv
  <2>2. at[Third(c)] = "unsent"
    BY DEF IInv, OperationInv
  <2> QED
    BY <2>1, <2>2 DEF Answer
<1> QED
  BY <1>1, Inductive, PTL

\* COMPLETED stands for an artifact of the runtime and all the local files
\* (client.py infer_audio, bento.py infer_audio).
THEOREM CompletedHasAll == Spec => []CompletedIsWhole
<1>1. IInv => CompletedIsWhole
  BY DEF IInv, OperationInv, FilesAt, CompletedIsWhole
<1> QED
  BY <1>1, Inductive, PTL

\* Nobody but the end of the process takes the lease from a load that failed
\* without an adapter (service.py _release_model_locked, CONTRACT.md:69).
THEOREM UnprovenLoadKeepsLease == Spec => UnprovenKept
<1>1. IInv /\ [Next]_vars =>
        [model.load = "failed" /\ model.adapter = "none"
         => phase' = "down" \/ (model' = model /\ lease' = lease)]_serviceVars
  BY OperationsAreClients, UnprovenStep DEF IInv
<1> QED
  BY <1>1, Inductive, PTL DEF Spec, UnprovenKept

-----------------------------------------------------------------------------
(* What an ERROR leaves open: ErrorMeansOver is refuted, this holds.       *)

\* The answers that leave open whether the work of a request is over.
Open == {None, "FAILED", "LOST", "SERVICE_TIMEOUT"}

\* A request goes on behind a report only where the report allows it: behind
\* COMPLETED none does, and behind ERROR only one that was answered with
\* SERVICE_TIMEOUT, or one that has nothing left to do but to send the rest of
\* an answer that was cut short (errors.py:15, service.py
\* HonestTimeoutMiddleware, bento.py _read).
ReportLeavesOpen ==
  \A c \in Controllers : \A k \in {First(c), Third(c)} : at[k] \in Inside =>
    /\ step[c] # "COMPLETED"
    /\ step[c] = "ERROR" => seen[k] = "SERVICE_TIMEOUT" \/ at[k] = "sending"

Over(k) == at[k] \notin Inside \/ at[k] = "sending" \/ seen[k] = "SERVICE_TIMEOUT"

\* A definite answer ends its request.  One cut short, FAILED to its client, has
\* begun.
HeardInv ==
  \A k \in Calls : Kind[k] = "infer" =>
    /\ seen[k] \notin Open => at[k] = "done"
    /\ seen[k] = "FAILED" => at[k] \in {"sending", "done"}

OpenAt(c) ==
  /\ step[c] = "idle" => at[First(c)] = "unsent"
  /\ step[c] = "second" => at[First(c)] = "done"
  /\ step[c] \in DOMAIN Following \cup {"COMPLETED"} =>
       at[First(c)] \notin Inside /\ at[Third(c)] \notin Inside
  /\ step[c] = "ERROR" => Over(First(c)) /\ Over(Third(c))

OpenInv == HeardInv /\ \A c \in Controllers : OpenAt(c)

\* An answer is heard once, and a definite one at the end of the request
\* (service.py HonestTimeoutMiddleware).
LEMMA Heard ==
  ASSUME ServiceTypeOK, [ServiceStep]_serviceVars,
         NEW k \in Calls, Kind[k] = "infer"
  PROVE  /\ seen[k] # None => seen'[k] = seen[k]
         /\ seen'[k] \notin Open => seen'[k] = seen[k] \/ at'[k] = "done"
         /\ seen'[k] = "FAILED" => seen'[k] = seen[k] \/ at'[k] \in {"sending", "done"}
<1> USE DEF ServiceTypeOK, Open
<1>1. ASSUME NEW j \in Calls, EndResponse(j)
      PROVE  /\ seen[k] # None => seen'[k] = seen[k]
             /\ seen'[k] \notin Open => seen'[k] = seen[k] \/ at'[k] = "done"
             /\ seen'[k] = "FAILED" => seen'[k] = seen[k]
                                      \/ at'[k] \in {"sending", "done"}
  BY <1>1 DEF EndResponse, Sees, Go
<1>2. ASSUME NEW j \in Calls, Handle(j), ~EndResponse(j) PROVE seen' = seen
  BY <1>2 DEF Handle, EnterGate, GateBusy, Refuse, StartResponse,
     ReadAudio, Reuse, LoadRefused, AcquireLease, LeaseDenied, FactoryReturns,
     FactoryFails, InferReturns, Save, NothingResident, UnloadRefused, Close,
     Synchronize, GiveBack, GiveBackFails
<1>3. ASSUME NEW j \in Calls, Timeout(j) \/ LoseConnection(j) \/ Send(j)
      PROVE  /\ seen[k] # None => seen'[k] = seen[k]
             /\ seen'[k] \notin Open => seen'[k] = seen[k] \/ at'[k] = "done"
             /\ seen'[k] = "FAILED" => seen'[k] = seen[k]
                                      \/ at'[k] \in {"sending", "done"}
  BY <1>3 DEF Timeout, LoseConnection, Cutoff, Broken, Send, Sees
<1>4. CASE ProcessEnds
  BY <1>4 DEF ProcessEnds
<1>5. CASE StopService \/ Recover \/ Restart \/ FabricUses
           \/ UNCHANGED serviceVars
  BY <1>5 DEF StopService, Recover, Restart, FabricUses, serviceVars
<1> QED
  BY <1>1, <1>2, <1>3, <1>4, <1>5 DEF ServiceStep, ServiceNext

\* What is over stays over, and what is unsent is sent by its client only.
LEMMA OverStays ==
  ASSUME ServiceTypeOK, ServiceNext, NEW k \in Calls, Kind[k] = "infer"
  PROVE  /\ at[k] = "unsent" => at'[k] = "unsent"
         /\ at[k] = "done" => at'[k] = "done"
         /\ at[k] \notin Inside => at'[k] \notin Inside
         /\ Over(k) => Over(k)'
<1>1. /\ at[k] = "unsent" => at'[k] = "unsent"
      /\ at[k] = "sending" => at'[k] \in {"sending", "done"}
      /\ at[k] = "done" => at'[k] = "done"
      /\ seen[k] # None => seen'[k] = seen[k]
  BY Settled, Heard DEF ServiceStep
<1>2. at[k] \in Inside \cup {"unsent", "done"} /\ "SERVICE_TIMEOUT" # None
  BY ServiceAssumption DEF ServiceTypeOK
<1> QED
  BY <1>1, <1>2 DEF Over, Inside, Gated

\* An answer that was heard stays true of its request.
LEMMA HeardStep == ServiceTypeOK /\ HeardInv /\ [Next]_vars => HeardInv'
<1> SUFFICES ASSUME ServiceTypeOK, HeardInv, [Next]_vars,
                    NEW k \in Calls, Kind[k] = "infer"
             PROVE  /\ seen'[k] \notin Open => at'[k] = "done"
                    /\ seen'[k] = "FAILED" => at'[k] \in {"sending", "done"}
  BY DEF HeardInv
<1>1. [ServiceStep]_serviceVars
  BY OperationsAreClients
<1>2. /\ seen'[k] \notin Open => seen'[k] = seen[k] \/ at'[k] = "done"
      /\ seen'[k] = "FAILED" => seen'[k] = seen[k] \/ at'[k] \in {"sending", "done"}
  BY <1>1, Heard
<1>3. /\ at[k] = "done" => at'[k] = "done"
      /\ at[k] = "sending" => at'[k] \in {"sending", "done"}
  <2>1. CASE ServiceNext
    BY <2>1, Settled
  <2>2. ASSUME NEW j \in Calls, Send(j) PROVE at[k] # "unsent" => at'[k] = at[k]
    BY <2>2, SendMoves
  <2>3. CASE UNCHANGED serviceVars
    BY <2>3 DEF serviceVars
  <2> QED
    BY <1>1, <2>1, <2>2, <2>3 DEF ServiceStep
<1> QED
  BY <1>2, <1>3 DEF HeardInv

\* Every step keeps what is known of the calls behind a report.
LEMMA OpenStep == IInv /\ OpenInv /\ [Next]_vars => OpenInv'
<1> SUFFICES ASSUME IInv, OpenInv, [Next]_vars, NEW c \in Controllers
             PROVE  OpenAt(c)'
  BY HeardStep DEF OpenInv, IInv, ServiceInv
<1> USE DEF Following
<1>0. /\ ServiceTypeOK /\ OpenAt(c) /\ c \in DOMAIN step
      /\ First(c) \in Calls /\ Second(c) \in Calls /\ Third(c) \in Calls
      /\ Kind[First(c)] = "infer" /\ Kind[Third(c)] = "infer"
      /\ First(c) # Third(c) /\ First(c) # Second(c) /\ Third(c) # Second(c)
  BY OwnCalls DEF IInv, TypeOK, OpenInv
<1>a. /\ step[c] \in {"idle", "first", "release"} => at[Third(c)] = "unsent"
      /\ step[c] = "release" => at[First(c)] = "done"
  BY DEF IInv, OperationInv
<1>b. /\ seen[First(c)] \notin Open => at[First(c)] = "done"
      /\ seen[First(c)] = "FAILED" => at[First(c)] \in {"sending", "done"}
      /\ seen[Third(c)] \notin Open => at[Third(c)] = "done"
      /\ seen[Third(c)] = "FAILED" => at[Third(c)] \in {"sending", "done"}
  BY <1>0 DEF OpenInv, HeardInv
<1>1. CASE ServiceNext /\ UNCHANGED <<step, files>>
  <2>1. step'[c] = step[c]
    BY <1>1
  <2>2. ASSUME NEW k \in {First(c), Third(c)}
        PROVE  /\ at[k] = "unsent" => at'[k] = "unsent"
               /\ at[k] = "done" => at'[k] = "done"
               /\ at[k] \notin Inside => at'[k] \notin Inside
               /\ Over(k) => Over(k)'
    BY <1>0, <1>1, OverStays
  <2>3. /\ at[First(c)] = "unsent" => at'[First(c)] = "unsent"
        /\ at[First(c)] = "done" => at'[First(c)] = "done"
        /\ at[First(c)] \notin Inside => at'[First(c)] \notin Inside
        /\ at[Third(c)] \notin Inside => at'[Third(c)] \notin Inside
        /\ Over(First(c)) => Over(First(c))'
        /\ Over(Third(c)) => Over(Third(c))'
    BY <2>2
  <2> QED
    BY <1>0, <2>1, <2>3 DEF OpenAt
<1>2. CASE UNCHANGED vars
  <2>1. step' = step /\ at' = at /\ seen' = seen
    BY <1>2 DEF vars, serviceVars
  <2> QED
    BY <1>0, <2>1 DEF OpenAt, Over
<1>3. ASSUME NEW d \in Controllers, Operate(d), d # c PROVE OpenAt(c)'
  <2>1. step'[c] = step[c]
    BY <1>0, <1>3 DEF IInv, TypeOK, Operate, Begin, ReleaseFirst, AskAgain,
       Accept, Unknown, Fail, Publish, Now
  <2>2. ASSUME NEW j \in Calls, Send(j), j # First(c), j # Third(c)
        PROVE  /\ at'[First(c)] = at[First(c)] /\ at'[Third(c)] = at[Third(c)]
               /\ seen'[First(c)] = seen[First(c)]
               /\ seen'[Third(c)] = seen[Third(c)]
    BY <1>0, <2>2 DEF ServiceTypeOK, Send, Go, Sees
  <2>3. /\ First(d) \in Calls /\ Second(d) \in Calls /\ Third(d) \in Calls
        /\ First(d) # First(c) /\ First(d) # Third(c)
        /\ Second(d) # First(c) /\ Second(d) # Third(c)
        /\ Third(d) # First(c) /\ Third(d) # Third(c)
    BY <1>3, OwnCalls
  <2>4. /\ at'[First(c)] = at[First(c)] /\ at'[Third(c)] = at[Third(c)]
        /\ seen'[First(c)] = seen[First(c)] /\ seen'[Third(c)] = seen[Third(c)]
    BY <1>3, <2>2, <2>3 DEF Operate, Begin, ReleaseFirst, AskAgain, Accept,
       Unknown, Fail, Publish, serviceVars
  <2> QED
    BY <1>0, <2>1, <2>4 DEF OpenAt, Over
<1>4. CASE Begin(c)
  <2>1. CASE step'[c] = "first"
    BY <2>1 DEF OpenAt
  <2>2. CASE step'[c] = "ERROR" /\ UNCHANGED serviceVars
    BY <1>0, <1>4, <1>a, <2>2
    DEF Begin, OpenAt, Over, Inside, Gated, serviceVars
  <2> QED
    BY <1>0, <1>4, <2>1, <2>2 DEF Begin, Now
<1>5. CASE ReleaseFirst(c)
  BY <1>0, <1>5 DEF ReleaseFirst, Now, OpenAt
<1>6. CASE AskAgain(c)
  <2>1. step[c] = "release" /\ step'[c] = "second" /\ Send(Third(c))
    BY <1>0, <1>6 DEF AskAgain, Now
  <2>2. at'[First(c)] = "done"
    BY <1>0, <1>a, <2>1, SendMoves
  <2> QED
    BY <2>1, <2>2 DEF OpenAt
<1>7. CASE Accept(c)
  <2>1. at' = at /\ seen' = seen /\ step'[c] \in {"wav", "ERROR"}
    BY <1>0, <1>7 DEF Accept, Now, serviceVars
  <2>2. \/ step[c] = "first" /\ seen[First(c)] = "OK"
        \/ step[c] = "second" /\ seen[Third(c)] = "OK"
    BY <1>7 DEF Accept, Got, Pending
  <2>3. "OK" \notin Open
    BY ServiceAssumption DEF Open, Codes
  <2>4. /\ at[First(c)] \in {"unsent", "done"}
        /\ at[Third(c)] \in {"unsent", "done"}
    BY <1>0, <1>a, <1>b, <2>2, <2>3 DEF OpenAt
  <2> QED
    BY <2>1, <2>4 DEF OpenAt, Over, Inside, Gated
<1>8. CASE Unknown(c)
  BY <1>0, <1>8 DEF Unknown, Now, OpenAt
<1>9. CASE Fail(c)
  <2>1. at' = at /\ seen' = seen /\ step'[c] = "ERROR"
    BY <1>0, <1>9 DEF Fail, Now, serviceVars
  <2>2. \/ step[c] = "release"
        \/ step[c] = "first" /\ seen[First(c)] \notin {None, "LOST"}
        \/ step[c] = "second" /\ seen[Third(c)] \notin {None, "LOST"}
    BY <1>9 DEF Fail, Waiting, Got, Pending
  <2>3. Over(First(c)) /\ Over(Third(c))
    BY <1>0, <1>a, <1>b, <2>2 DEF OpenAt, Over, Open, Inside, Gated
  <2> QED
    BY <2>1, <2>3 DEF OpenAt, Over
<1>10. CASE Publish(c)
  BY <1>0, <1>10 DEF Publish, Now, OpenAt, Over, serviceVars
<1> QED
  BY <1>1, <1>2, <1>3, <1>4, <1>5, <1>6, <1>7, <1>8, <1>9, <1>10
  DEF Next, Operate

\* An operation that reports COMPLETED has no inference at work, and one that
\* reports ERROR only one that the runtime has answered with SERVICE_TIMEOUT, or
\* one whose answer was cut short while it was sent (client.py infer_audio,
\* service.py HonestTimeoutMiddleware).
THEOREM ErrorIsExplained == Spec => []ReportLeavesOpen
<1>1. Init => OpenInv
  <2> SUFFICES ASSUME Init PROVE OpenInv
    OBVIOUS
  <2>1. HeardInv
    BY ServiceAssumption DEF Init, ServiceInit, HeardInv, Open, Codes
  <2>2. \A c \in Controllers : step[c] = "idle" /\ at[First(c)] = "unsent"
    BY OwnCalls DEF Init, ServiceInit
  <2> QED
    BY <2>1, <2>2 DEF OpenInv, OpenAt, Following
<1>2. OpenInv => ReportLeavesOpen
  BY DEF OpenInv, OpenAt, Over, ReportLeavesOpen
<1> QED
  BY <1>1, <1>2, OpenStep, Inductive, PTL DEF Spec

-----------------------------------------------------------------------------
(* The runtime under clients of any kind.                                  *)

\* What holds in place of the refuted GivenBackProved: the lease is freed when
\* no adapter is kept and no call loads, uses or synchronizes one.  Memory that
\* a failed synchronization left behind is what it does not cover (service.py
\* _release_model_locked).
GivenBackUnloaded ==
  [][lease = "bento" /\ lease' = "free" =>
       /\ model = Empty
       /\ \A k \in Calls :
            at[k] \notin {"factory", "infer", "write", "sync"}]_serviceVars

\* Only a call at the end of an unload frees the lease (service.py
\* _release_model_locked).
LEMMA FreedByGiveBack ==
  ASSUME ServiceTypeOK, [ServiceStep]_serviceVars,
         lease = "bento", lease' = "free"
  PROVE  \E k \in Calls : at[k] = "giveback"
<1>1. ASSUME NEW j \in Calls, Handle(j), at[j] # "giveback" PROVE FALSE
  BY <1>1 DEF Handle, EnterGate, GateBusy, Refuse, StartResponse, EndResponse,
     ReadAudio, Reuse, LoadRefused, AcquireLease, LeaseDenied, FactoryReturns,
     FactoryFails, InferReturns, Save, NothingResident, UnloadRefused, Close,
     Synchronize, GiveBack, GiveBackFails, work
<1>2. ASSUME NEW j \in Calls, Timeout(j) \/ LoseConnection(j) \/ Send(j)
      PROVE  FALSE
  BY <1>2 DEF Timeout, LoseConnection, Send, work
<1>3. CASE \/ StopService \/ ProcessEnds \/ Recover \/ Restart \/ FabricUses
           \/ UNCHANGED serviceVars
  BY <1>3 DEF StopService, ProcessEnds, Recover, Restart, FabricUses,
     serviceVars, work
<1> QED
  BY <1>1, <1>2, <1>3 DEF ServiceStep, ServiceNext

\* Whoever the clients are, one call is at the gate, the lease covers every
\* model, and an inference runs on its own (service.py).
THEOREM AnyClients ==
  ServiceSpec => [](OneAtTheGate /\ ModelProtected /\ RightModel)
<1>1. ServiceInv => OneAtTheGate /\ ModelProtected /\ RightModel
  BY DEF ServiceInv, MemInv, PlaceInv, ModelInv, ModelProtected
<1> QED
  BY <1>1, ServiceStarts, ServiceKeeps, PTL DEF ServiceSpec, ServiceStep

\* The lease is given back by an unload that has dropped the adapter, and
\* nobody works with one (service.py _release_model_locked, CONTRACT.md:66).
THEOREM GivenBackAfterUnload == ServiceSpec => GivenBackUnloaded
<1>1. ServiceInv /\ [ServiceStep]_serviceVars =>
        [lease = "bento" /\ lease' = "free" =>
           /\ model = Empty
           /\ \A k \in Calls :
                at[k] \notin {"factory", "infer", "write", "sync"}]_serviceVars
  <2> SUFFICES ASSUME ServiceInv, [ServiceStep]_serviceVars,
                      lease = "bento", lease' = "free"
               PROVE  /\ model = Empty
                      /\ \A k \in Calls :
                           at[k] \notin {"factory", "infer", "write", "sync"}
    OBVIOUS
  <2>1. PICK j \in Calls : at[j] = "giveback"
    BY FreedByGiveBack DEF ServiceInv
  <2>2. model = Empty
    BY <2>1 DEF ServiceInv, MemInv, PlaceInv
  <2>3. \A k \in Calls : at[k] \in Gated => k = j
    BY <2>1 DEF ServiceInv, OneAtTheGate, Gated
  <2> QED
    BY <2>1, <2>2, <2>3 DEF Gated
<1> QED
  BY <1>1, ServiceStarts, ServiceKeeps, PTL DEF ServiceSpec, ServiceStep,
     GivenBackUnloaded
=============================================================================

--------------------------- MODULE AudioController ---------------------------
(***************************************************************************)
(* infer_audio of the plugin's controller (client.py, bento.py) against    *)
(* the persistent runtime: ask for the inference; when another model is    *)
(* resident release it once and ask once more; put the answer into new     *)
(* local files; report COMPLETED, ERROR or UNKNOWN.                        *)
(***************************************************************************)
EXTENDS BentoService

CONSTANTS Controllers  \* the operations, one infer_audio each

\* The calls of an operation: the inference, the release, the inference again.
First(c)  == <<c, 1>>
Second(c) == <<c, 2>>
Third(c)  == <<c, 3>>

ASSUME ControllerAssumption ==
  \A c \in Controllers :
    /\ {First(c), Second(c), Third(c)} \subseteq Calls
    /\ Kind[First(c)] = "infer" /\ Kind[Third(c)] = "infer"
    /\ Kind[Second(c)] = "release"
    /\ Wants[First(c)] = Wants[Third(c)]

VARIABLES
  step,   \* where each operation stands, or its status
  files   \* the local files each operation has published

vars == <<serviceVars, step, files>>

Waiting == {"first", "release", "second"}
Ended   == {"COMPLETED", "ERROR", "UNKNOWN"}

TypeOK == /\ ServiceTypeOK
          /\ step \in [Controllers -> {"idle", "wav", "operation", "manifest"}
                                      \cup Waiting \cup Ended]
          /\ files \in [Controllers -> SUBSET {"wav", "operation", "manifest"}]

Init == /\ ServiceInit
        /\ step = [c \in Controllers |-> "idle"]
        /\ files = [c \in Controllers |-> {}]

Now(c, s) == step' = [step EXCEPT ![c] = s] /\ UNCHANGED files

\* The call an operation waits for.
Pending(c) == IF step[c] = "first" THEN First(c)
              ELSE IF step[c] = "release" THEN Second(c) ELSE Third(c)

Got(c) == seen[Pending(c)]

\* The arguments, the output path and the tunnel are checked before anything
\* is sent; any of them may end the operation.
Begin(c) ==
  /\ step[c] = "idle"
  /\ \/ Now(c, "first") /\ Send(First(c))
     \/ Now(c, "ERROR") /\ UNCHANGED serviceVars

\* A refusal that says that nothing was executed.
MayAskAgain(code) == code = "MODEL_BUSY"

ReleaseFirst(c) ==
  /\ step[c] = "first" /\ MayAskAgain(Got(c))
  /\ Now(c, "release") /\ Send(Second(c))

\* Seeded fault: a broken connection is followed by the same request.
AskAgainBlindly(c) ==
  /\ \/ step[c] = "release" /\ Got(c) = "RELEASED"
     \/ step[c] = "first" /\ Got(c) = "LOST"
  /\ Now(c, "second") /\ Send(Third(c))

AskAgain(c) ==
  /\ step[c] = "release" /\ Got(c) = "RELEASED"
  /\ Now(c, "second") /\ Send(Third(c))

\* The audio came: its identity, size and hash are checked before it is kept.
Accept(c) ==
  /\ step[c] \in {"first", "second"} /\ Got(c) = "OK"
  /\ \/ Now(c, "wav")
     \/ Now(c, "ERROR")
  /\ UNCHANGED serviceVars

\* A broken connection leaves the outcome of an inference open, unless it cut
\* an answer short that is then found to be invalid.
Unknown(c) ==
  /\ step[c] \in {"first", "second"} /\ Got(c) = "LOST"
  /\ Now(c, "UNKNOWN") /\ UNCHANGED serviceVars

\* Any other answer is an error, and so is a release that was not confirmed.
Fail(c) ==
  /\ step[c] \in Waiting /\ Got(c) # None
  /\ IF step[c] = "release" THEN Got(c) # "RELEASED"
     ELSE /\ Got(c) \notin {"OK", "LOST"}
          /\ ~(step[c] = "first" /\ MayAskAgain(Got(c)))
  /\ Now(c, "ERROR") /\ UNCHANGED serviceVars

Following == [wav |-> "operation", operation |-> "manifest",
              manifest |-> "COMPLETED"]

\* Seeded fault: a file that cannot be written is passed over.
PublishLoosely(c) ==
  /\ step[c] \in DOMAIN Following
  /\ step' = [step EXCEPT ![c] = Following[step[c]]]
  /\ files' \in {files, [files EXCEPT ![c] = @ \cup {step[c]}]}
  /\ UNCHANGED serviceVars

\* Each file is written beside its place and linked to it, never over another
\* file.  A failure ends the operation with the files it has.
Publish(c) ==
  /\ step[c] \in DOMAIN Following
  /\ \/ /\ step' = [step EXCEPT ![c] = Following[step[c]]]
        /\ files' = [files EXCEPT ![c] = @ \cup {step[c]}]
     \/ Now(c, "ERROR")
  /\ UNCHANGED serviceVars

Operate(c) == \/ Begin(c) \/ ReleaseFirst(c) \/ AskAgain(c) \/ Accept(c)
              \/ Unknown(c) \/ Fail(c) \/ Publish(c)

Next == \/ \E c \in Controllers : Operate(c)
        \/ ServiceNext /\ UNCHANGED <<step, files>>

Spec == Init /\ [][Next]_vars

\* Only the middleware's clock has to go on: the factory and infer_wav may
\* never return, and nobody has to restart the process.
Clock == (\E k \in Calls : Timeout(k)) /\ UNCHANGED <<step, files>>

\* A timeout always adds its call to late, so no step of the clock is lost by
\* looking at late alone.
FairSpec == Spec /\ WF_late(Clock)

-----------------------------------------------------------------------------
(* Properties.                                                             *)

\* An operation makes the GPU work at most once: only a refusal that precedes
\* the execution is followed by a second request (client.py infer_audio).
NoSilentRerun ==
  \A c \in Controllers : ~({First(c), Third(c)} \subseteq ran)

\* COMPLETED means that the runtime keeps the artifact of one of the requests
\* of this operation and that all its local files are there (client.py
\* infer_audio, bento.py infer_audio).
CompletedIsWhole ==
  \A c \in Controllers : step[c] = "COMPLETED" =>
    /\ {First(c), Third(c)} \cap saved # {}
    /\ files[c] = {"wav", "operation", "manifest"}

\* Every inference request is answered or cut off, even when the adapter never
\* returns: again and again none is open, and each is made but once
\* (service.py HonestTimeoutMiddleware).
InferenceAnswered ==
  []<>(\A k \in Calls : Kind[k] = "infer" /\ at[k] \in Inside => seen[k] # None)

\* "an unknown remote outcome remains explicit and cannot be mistaken for a
\* failure" (errors.py:15): no inference of an operation that reports ERROR
\* is still at work.
ErrorMeansOver ==
  \A c \in Controllers : step[c] = "ERROR" =>
    \A k \in {First(c), Third(c)} : at[k] \notin Gated
=============================================================================

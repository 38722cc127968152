------------------------------ MODULE JobOutputs ------------------------------
(***************************************************************************)
(* How the outputs of one job reach the Mac: a client follows its log page *)
(* by page while the job writes it (server.py logs, cli.py logs), and      *)
(* clients fetch the bundle of the ended job through the one slot the      *)
(* worker has for that (server.py bundle, cli.py artifacts).               *)
(***************************************************************************)
EXTENDS Integers, Sequences, FiniteSetsExt

CONSTANTS Content,   \* the bytes that the job would write, see Byte
          Limit,     \* the bytes of a page
          Fetchers,  \* the clients that fetch the bundle
          Attempts,  \* how often each sends its request: the plugin once
          None

\* A whole character, the lead of one with three bytes, and a byte within one.
Byte == {"char", "lead", "trail"}

\* The requests of each client, and what one of them may bring.
Requests == UNION {{f} \X (1..Attempts[f]) : f \in Fetchers}
Bundles == [log : Nat, whole : BOOLEAN, by : Fetchers]

ASSUME OutputsAssumption ==
  /\ Content \in Seq(Byte)
  /\ Limit \in Nat \ {0} /\ Attempts \in [Fetchers -> Nat \ {0}]
  /\ None \notin Requests /\ None \notin Bundles

VARIABLES
  ended,      \* the row of the job is terminal
  len,        \* the bytes of Content that are in the log
  survivor,   \* a process of the job has outlived its end
  late,       \* history: such a process has written
  reader,     \* the follower: "ask", "state" or "ended"
  saw,        \* whether the row was terminal when its handler looked
  offset,     \* the offset the follower has reached
  printed,    \* and what it has printed
  fetch,      \* where each fetch stands
  tries,      \* the number of its request
  request,    \* the handler of each request, or its answer
  slot,       \* the request that has the slot
  got,        \* what each fetch has downloaded
  target      \* the directory of the job on the Mac

log    == <<ended, len, survivor, late>>
follow == <<reader, saw, offset, printed>>
bundle == <<fetch, tries, request, slot, got, target>>
vars   == <<log, follow, bundle>>

-----------------------------------------------------------------------------
(* The incremental decoder: the text so far and the bytes that wait for the *)
(* rest of their character.                                                 *)

\* The characters that a byte ends when w bytes wait.
Ends(w, byte) ==
  LET cut == IF w > 0 THEN <<"bad">> ELSE <<>> IN
  IF byte = "char" THEN cut \o <<"narrow">>
  ELSE IF byte = "lead" THEN cut
  ELSE IF w = 0 THEN <<"bad">>
  ELSE IF w = 2 THEN <<"wide">> ELSE <<>>

Feed(d, byte) ==
  [text |-> d.text \o Ends(d.waiting, byte),
   waiting |-> IF byte = "lead" THEN 1
               ELSE IF byte = "trail" /\ d.waiting = 1 THEN 2 ELSE 0]

Decode(bytes) ==
  LET d[n \in 0..Len(bytes)] ==
        IF n = 0 THEN [text |-> <<>>, waiting |-> 0]
                 ELSE Feed(d[n - 1], bytes[n])
  IN d[Len(bytes)]

\* With final=True an unfinished character becomes a replacement.
Whole(bytes) == LET d == Decode(bytes) IN
                IF d.waiting > 0 THEN Append(d.text, "bad") ELSE d.text

Upto(n) == SubSeq(Content, 1, n)

-----------------------------------------------------------------------------
(* The job and its log.                                                    *)

Glyphs == {"narrow", "wide", "bad"}
Answers == {"bundle", "refused", "failed"}

TypeOK ==
  /\ {ended, survivor, late, saw} \subseteq BOOLEAN
  /\ len \in 0..Len(Content) /\ offset \in 0..Len(Content)
  /\ reader \in {"ask", "state", "ended"}
  /\ printed \in Seq(Glyphs)
  /\ fetch \in [Fetchers -> {"idle", "asking", "verify", "move", "DONE", "ERROR"}]
  /\ tries \in [Fetchers -> Nat]
  /\ \A f \in Fetchers : tries[f] <= Attempts[f]
  /\ request \in [Requests -> Answers \cup {"unsent", "sent", "packing", "over"}]
  /\ slot \in Requests \cup {None}
  /\ got \in [Fetchers -> Bundles \cup {None}] /\ target \in Bundles \cup {None}

Init ==
  /\ ended = FALSE /\ len = 0 /\ survivor = FALSE /\ late = FALSE
  /\ reader = "ask" /\ saw = FALSE /\ offset = 0 /\ printed = <<>>
  /\ fetch = [f \in Fetchers |-> "idle"] /\ tries = [f \in Fetchers |-> 0]
  /\ request = [r \in Requests |-> "unsent"] /\ slot = None
  /\ got = [f \in Fetchers |-> None] /\ target = None

\* The workload writes what it likes to, a character in pieces too.
Write ==
  /\ ~ended \/ survivor
  /\ len' \in (len + 1)..Len(Content)
  /\ late' = ended
  /\ UNCHANGED <<ended, survivor, follow, bundle>>

\* The row becomes terminal when the tree is gone, or could not be ended.
End ==
  /\ ~ended /\ ended' = TRUE
  /\ survivor' \in BOOLEAN
  /\ UNCHANGED <<len, late, follow, bundle>>

-----------------------------------------------------------------------------
(* Following the log.                                                      *)

\* Seeded fault: the bytes that wait are counted as read.
Swallowed(d) == 0

Waiting(d) == IF saw THEN 0 ELSE d.waiting

\* The handler reads the state of the job, then the file.
LookUp ==
  /\ reader = "ask" /\ reader' = "state" /\ saw' = ended
  /\ UNCHANGED <<offset, printed, log, bundle>>

\* The follower prints the page, and ends at one that gets it no further and
\* is of an ended job.
Prints(text, next) ==
  /\ printed' = printed \o text /\ offset' = next
  /\ reader' = IF next = offset /\ saw THEN "ended" ELSE "ask"

\* A character that crosses the limit is completed from the file.  One that
\* the file does not complete waits, or is replaced when nothing can follow.
ReadPage ==
  /\ reader = "state"
  /\ LET Data(n) == SubSeq(Content, offset + 1, Min({len, offset + n}))
         extra == Min({e \in 0..3 : \/ Decode(Data(Limit + e)).waiting = 0
                                        \/ e = 3 \/ offset + Limit + e >= len})
         data == Data(Limit + extra)
         d == Decode(data)
     IN Prints(IF saw THEN Whole(data) ELSE d.text,
               offset + Len(data) - Waiting(d))
  /\ saw' = FALSE
  /\ UNCHANGED <<log, bundle>>

\* The plugin has returned nothing of what it had.
StartsAgain == offset' = 0 /\ printed' = <<>>

\* The connection breaks.  zrun asks again, by itself or when it is called with
\* the offset it has told.
Break ==
  /\ reader = "state" /\ reader' = "ask"
  /\ UNCHANGED <<offset, printed>> \/ StartsAgain
  /\ saw' = FALSE
  /\ UNCHANGED <<log, bundle>>

-----------------------------------------------------------------------------
(* Fetching the bundle.                                                    *)

Goes(f, place) == fetch' = [fetch EXCEPT ![f] = place]
Current(f) == <<f, tries[f]>>
Marks(r, m) == request' = [request EXCEPT ![r] = m]

StartFetch(f) ==
  /\ fetch[f] = "idle"
  /\ IF target # None THEN Goes(f, "ERROR") /\ UNCHANGED <<tries, request>>
     ELSE /\ Goes(f, "asking") /\ tries' = [tries EXCEPT ![f] = 1]
          /\ Marks(<<f, 1>>, "sent")
  /\ UNCHANGED <<slot, got, target, log, follow>>

Listens(r) == fetch[r[1]] = "asking" /\ r = Current(r[1])

\* The handler refuses while the job is not terminal and while the slot is
\* taken, maybe by an older request of the same client.
TakeSlot(r) ==
  /\ request[r] = "sent"
  /\ IF ended /\ slot = None
     THEN slot' = r /\ Marks(r, "packing")
     ELSE Marks(r, IF Listens(r) THEN "refused" ELSE "over") /\ UNCHANGED slot
  /\ UNCHANGED <<fetch, tries, got, target, log, follow>>

\* The files are put into a zip file, each with the hash of what was read, and
\* sent; or one of them is not a regular file, or cannot be read, or too few
\* bytes arrive, or a damaged copy does, or nobody listens.
SendBundle(r) ==
  /\ request[r] = "packing"
  /\ IF Listens(r)
     THEN \/ (Marks(r, "refused") \/ Marks(r, "failed")) /\ UNCHANGED got
          \/ /\ Marks(r, "bundle")
             /\ \E whole \in BOOLEAN : got' = [got EXCEPT ![r[1]] =
                  [log |-> len, whole |-> whole, by |-> r[1]]]
     ELSE Marks(r, "over") /\ UNCHANGED got
  /\ UNCHANGED <<slot, fetch, tries, target, log, follow>>

\* Seeded fault: the slot is given back after the last byte only.
WasSent(r) == request[r] = "bundle"

Finished(r) == request[r] # "packing"

GiveSlotBack(r) ==
  /\ slot = r /\ Finished(r) /\ slot' = None
  /\ UNCHANGED <<fetch, tries, request, got, target, log, follow>>

\* A worker that ends takes its handlers and their temporary files with it.
WorkerEnds ==
  /\ slot # None /\ slot' = None
  /\ request' = [r \in Requests |->
       IF request[r] = "packing" THEN "over" ELSE request[r]]
  /\ UNCHANGED <<fetch, tries, got, target, log, follow>>

\* The connection of the request is closed; its handler may not have begun.
Closed(f) == [request EXCEPT ![Current(f)] =
                IF @ \in Answers THEN "over" ELSE @]

\* Seeded fault: the number of attempts is not looked at.
AlwaysAgain(f) ==
  /\ tries' = [tries EXCEPT ![f] = @ + 1]
  /\ request' = Closed(f) /\ UNCHANGED fetch

AgainOrError(f) ==
  IF tries[f] < Attempts[f]
  THEN /\ tries' = [tries EXCEPT ![f] = @ + 1]
       /\ request' = [Closed(f) EXCEPT ![<<f, tries[f] + 1>>] = "sent"]
       /\ UNCHANGED fetch
  ELSE Goes(f, "ERROR") /\ request' = Closed(f) /\ UNCHANGED tries

Receive(f) ==
  /\ fetch[f] = "asking"
  /\ LET answer == request[Current(f)]
         Stops(place) == Goes(f, place) /\ request' = Closed(f) /\ UNCHANGED tries
     IN \/ answer = "bundle" /\ Stops("verify")
        \/ answer = "refused" /\ Stops("ERROR")
        \/ answer = "failed" /\ AgainOrError(f)
  /\ UNCHANGED <<slot, got, target, log, follow>>

\* A timeout or a broken connection; the handler does not know.
GiveUp(f) ==
  /\ fetch[f] = "asking" /\ request[Current(f)] \notin Answers
  /\ AgainOrError(f)
  /\ UNCHANGED <<slot, got, target, log, follow>>

\* The scratch directory goes with the call.
Discard(f) == got' = [got EXCEPT ![f] = None]

\* verify_extract_bundle: names, sizes, hashes, job and state.
Verified(b) == b.whole

Verify(f) ==
  /\ fetch[f] = "verify"
  /\ IF Verified(got[f]) /\ target = None
     THEN Goes(f, "move") /\ UNCHANGED got
     ELSE Goes(f, "ERROR") /\ Discard(f)
  /\ UNCHANGED <<tries, request, slot, target, log, follow>>

\* Seeded fault: the directory is replaced.
Replace(f) ==
  /\ fetch[f] = "move" /\ target' = got[f] /\ Goes(f, "DONE") /\ Discard(f)
  /\ UNCHANGED <<tries, request, slot, log, follow>>

\* The plugin reads the inventory and the manifest of what is in place; when
\* that fails it reports an error.
Reported(f) == Goes(f, "DONE") \/ Goes(f, "ERROR")

\* The rename fails on a directory that has appeared in between.
Move(f) ==
  /\ fetch[f] = "move"
  /\ IF target = None THEN target' = got[f] /\ Reported(f)
                      ELSE Goes(f, "ERROR") /\ UNCHANGED target
  /\ Discard(f)
  /\ UNCHANGED <<tries, request, slot, log, follow>>

Handle(r) == SendBundle(r) \/ GiveSlotBack(r)

Next ==
  \/ Write \/ End \/ LookUp \/ ReadPage \/ Break \/ WorkerEnds
  \/ \E r \in Requests : TakeSlot(r) \/ Handle(r)
  \/ \E f \in Fetchers : StartFetch(f) \/ Receive(f) \/ GiveUp(f) \/ Verify(f)
                         \/ Move(f)

Spec == Init /\ [][Next]_vars

\* The handler that has the slot goes on: it reads local files, and its socket
\* has a timeout of 20 s.
FairSpec == Spec /\ WF_vars(\E r \in Requests : Handle(r))

-----------------------------------------------------------------------------
(* Properties.                                                             *)

\* Unless a process outlives the job and writes: the printed text is that of
\* the bytes up to the offset, wherever the pages cut the characters and the
\* connection breaks, and a follower that ends has seen the whole log
\* (server.py logs, cli.py logs).  That is so for a log in which the first byte
\* of a character is followed by its others, as in the run: Unbroken in
\* JobOutputsProofs.  Damaged characters at the limit of a page can be shown
\* otherwise than by one decoder.
FollowedFaithfully ==
  ~late => /\ printed = Whole(Upto(offset))
           /\ reader = "ended" => offset = len

\* A fetch that reports success has its own verified copy in place, also when
\* two clients fetch at once, and that copy has the log that a follower has
\* seen (server.py build_bundle, cli.py artifacts and verify_extract_bundle).
PublishedWhole ==
  /\ \A f \in Fetchers : fetch[f] = "DONE" => target.by = f
  /\ target # None => target.whole
  /\ target # None /\ reader = "ended" /\ ~late => printed = Whole(Upto(target.log))

\* The one slot always comes back: after a failure, a client that left and an
\* answer that was cut short (server.py bundle).
SlotComesBack == slot # None ~> slot = None
=============================================================================

-------------------------- MODULE MCAudioController --------------------------
(* Small instances of AudioController for TLC. *)
EXTENDS AudioController, TLC

CONSTANTS c1, c2, unet, tiger, hook

\* One operation asks for unet, the others for tiger.
MCAliases == {unet, tiger}
Two == {c1, c2}
CallsOf(controllers) == (controllers \X {1, 2, 3}) \cup {<<hook, 0>>}
CallsOfTwo == CallsOf(Two)
MCKind == [k \in Calls |-> CASE k[2] = 0 -> "hook"
                             [] k[2] = 2 -> "release"
                             [] OTHER -> "infer"]
MCWants == [k \in Calls |-> IF k[1] = c1 THEN unet ELSE tiger]
=============================================================================

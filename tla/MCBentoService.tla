--------------------------- MODULE MCBentoService ---------------------------
(* A small instance of BentoService for TLC: an inference and two releases. *)
EXTENDS BentoService

CONSTANTS infer1, release1, release2, hook, unet

MCCalls == {infer1, release1, release2, hook}
MCAliases == {unet}
MCKind == [k \in MCCalls |-> CASE k = infer1 -> "infer"
                               [] k = hook -> "hook"
                               [] OTHER -> "release"]
MCWants == [k \in MCCalls |-> unet]
=============================================================================

----------------------------- MODULE MCJobOutputs -----------------------------
(* A small instance of JobOutputs for TLC: a byte and a wide character, zrun *)
(* (here with two attempts) and the plugin fetch the bundle.                  *)
EXTENDS JobOutputs, TLC

CONSTANTS zrun, plugin

MCFetchers == {zrun, plugin}
MCContent == <<"char", "lead", "trail", "trail">>
MCAttempts == (zrun :> 2) @@ (plugin :> 1)
=============================================================================

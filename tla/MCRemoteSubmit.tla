---------------------------- MODULE MCRemoteSubmit ----------------------------
(* A small instance of RemoteSubmit for TLC: two calls of the plugin, and one *)
(* of zrun that uses the key of the first for another specification.         *)
EXTENDS RemoteSubmit, TLC

CONSTANTS p1, p2, z1, k1, k2, a, b

MCSubmitters == {p1, p2, z1}
MCPlugin == {p1, p2}
MCKey == (p1 :> k1) @@ (p2 :> k2) @@ (z1 :> k1)
MCSpec == (p1 :> a) @@ (p2 :> a) @@ (z1 :> b)
=============================================================================

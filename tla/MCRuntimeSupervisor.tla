------------------------- MODULE MCRuntimeSupervisor -------------------------
(* RuntimeSupervisor for TLC; its constants are numbers. *)
EXTENDS RuntimeSupervisor
=============================================================================

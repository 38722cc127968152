----------------------------- MODULE MCGpuLease -----------------------------
(* Small instances of GpuLease for TLC. *)
EXTENDS GpuLease, TLC

CONSTANTS fabric, runtime, s1, n1, n2, n3

MCProcs == {fabric, runtime}
MCSupervisors == {s1}
MCPids == {n1, n2, n3}
MCTidy == {fabric}

\* Pids are only compared with each other.
MCSymmetry == Permutations(MCPids)
=============================================================================

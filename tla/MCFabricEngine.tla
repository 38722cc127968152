--------------------------- MODULE MCFabricEngine ---------------------------
(* Small instances of FabricEngine for TLC. *)
EXTENDS FabricEngine, TLC

CONSTANTS k1, k2, cpu, cpu2, gpu

MCKeys == {k1, k2}
CpuOnly == {cpu}
TwoCpu == {cpu, cpu2}
GpuOnly == {gpu}
CpuAndGpu == {cpu, gpu}
NoGpu == {}

\* Keys are only compared with each other.
MCSymmetry == Permutations(MCKeys)
=============================================================================

SPECIFICATION Spec
CONSTANTS
  fabric = fabric
  runtime = runtime
  s1 = s1
  n1 = n1
  n2 = n2
  n3 = n3
  None = None
  Procs <- MCProcs
  Supervisors <- MCSupervisors
  Pids <- MCPids
  Tidy <- MCTidy
SYMMETRY MCSymmetry
INVARIANTS
  TypeOK
  HolderMarked
  Exclusive
PROPERTIES
  KeepsPromise
  ErasedRightly

SPECIFICATION FairSpec
CONSTANTS
  k1 = k1
  k2 = k2
  cpu = cpu
  cpu2 = cpu2
  gpu = gpu
  None = None
  Keys <- MCKeys
  Specs <- TwoCpu
  GpuSpecs <- NoGpu
  MaxJobs = 2
  KillOnClose = TRUE
  MaxOutages = 1
  MaxFaults = 0
INVARIANTS
  AcceptedOnce
PROPERTIES
  EveryJobEnds

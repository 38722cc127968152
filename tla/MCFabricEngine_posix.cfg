SPECIFICATION FairSpec
CONSTANTS
  k1 = k1
  k2 = k2
  cpu = cpu
  cpu2 = cpu2
  gpu = gpu
  None = None
  Keys <- MCKeys
  Specs <- CpuAndGpu
  GpuSpecs <- GpuOnly
  MaxJobs = 1
  KillOnClose = FALSE
  MaxOutages = 2
  MaxFaults = 1
INVARIANTS
  SurvivorsExplained
PROPERTIES
  EveryJobEnds
  ShutdownEnds

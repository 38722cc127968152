SPECIFICATION Spec
CONSTANTS
  k1 = k1
  k2 = k2
  cpu = cpu
  cpu2 = cpu2
  gpu = gpu
  None = None
  Keys <- MCKeys
  Specs <- GpuOnly
  GpuSpecs <- GpuOnly
  MaxJobs = 1
  KillOnClose = TRUE
  MaxOutages = 1
  MaxFaults = 1
INVARIANTS
  LeaseGuardsGpu

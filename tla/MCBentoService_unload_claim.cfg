SPECIFICATION ServiceSpec
CHECK_DEADLOCK FALSE
CONSTANTS
  infer1 = infer1
  release1 = release1
  release2 = release2
  hook = hook
  unet = unet
  None = None
  Calls <- MCCalls
  Aliases <- MCAliases
  Kind <- MCKind
  Wants <- MCWants
  MaxStops = 0
PROPERTIES
  GivenBackProved

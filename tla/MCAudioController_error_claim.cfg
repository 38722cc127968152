SPECIFICATION Spec
CHECK_DEADLOCK FALSE
CONSTANTS
  c1 = c1
  c2 = c2
  unet = unet
  tiger = tiger
  hook = hook
  None = None
  Controllers <- Two
  Aliases <- MCAliases
  Calls <- CallsOfTwo
  Kind <- MCKind
  Wants <- MCWants
  MaxStops = 0
INVARIANTS
  ErrorMeansOver

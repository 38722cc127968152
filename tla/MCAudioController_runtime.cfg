SPECIFICATION FairSpec
CHECK_DEADLOCK FALSE
CONSTANTS
  c1 = c1
  c2 = c2
  unet = unet
  tiger = tiger
  hook = hook
  None = None
  Controllers <- Two
  Aliases <- MCAliases
  Calls <- CallsOfTwo
  Kind <- MCKind
  Wants <- MCWants
  MaxStops = 1
INVARIANTS
  TypeOK
  OneAtTheGate
  ModelProtected
  RightModel
  NoSilentRerun
  CompletedIsWhole
PROPERTIES
  UnprovenKept
  InferenceAnswered

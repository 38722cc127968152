SPECIFICATION SubmitSpec
CONSTANTS
  p1 = p1
  p2 = p2
  z1 = z1
  k1 = k1
  k2 = k2
  a = a
  b = b
  None = None
  Submitters <- MCSubmitters
  Plugin <- MCPlugin
  Key <- MCKey
  Spec <- MCSpec
  Attempts = 2
  MaxOutages = 1
INVARIANTS
  TypeOK
  LeaseFailureExplained
PROPERTIES
  KeepsPromise

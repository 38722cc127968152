SPECIFICATION FairSpec
CHECK_DEADLOCK FALSE
CONSTANTS
  Limit = 3
  MaxLives = 2
INVARIANTS
  OneRuntime
  Contained
  LoopBounded
PROPERTIES
  StopEndsAll

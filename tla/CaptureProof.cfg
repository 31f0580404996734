SPECIFICATION Spec
CONSTANTS
  c1 = c1
  Callbacks <- OneCallback
  MaxGeneration = 2
  MaxClock = 3
  Second = 2
  Resolution = 2
  Freshness = 2
CHECK_DEADLOCK FALSE
PROPERTIES
  CommitsOnCurrentProof

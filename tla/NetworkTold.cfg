SPECIFICATION FairSpec
CONSTANTS
  c1 = c1
  c2 = c2
  Callbacks <- TwoCallbacks
  Watches = 3
CHECK_DEADLOCK FALSE
INVARIANTS
  NoEventStranded
PROPERTIES
  EveryMoveIsTold

SPECIFICATION FairSpec
CONSTANTS
  p1 = p1
  p2 = p2
  p3 = p3
  Nobody = Nobody
  Launches <- ThreeLaunches
  Rounds <- LaunchRounds
INVARIANTS
  ActedOnOnceIfServed
  OneInstanceActs
PROPERTIES
  HandedOverWasNotRefused
  LaunchEnds
CHECK_DEADLOCK FALSE

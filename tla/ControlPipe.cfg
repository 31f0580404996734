SPECIFICATION FairSpec
CONSTANTS
  MaxSent = 3
  Buffer = 2
INVARIANTS
  LagIsGivenUp
  LiveChannelIsRead
PROPERTIES
  PushEnds
  StopEndsOnceAppLeft

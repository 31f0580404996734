SPECIFICATION Spec
CONSTANTS
  Requests <- AllRequests
  StopAfters = {0, 1, 2, 3, 4, 5, 6, 7, 8}
  WfpMayFail = TRUE
  MayCrash = TRUE
INVARIANTS
  EndedMachineIsReleased
  RoutesAreCovered
  UpCarriesTraffic
  StatusShowsCapture
  StagedStopIsClean
PROPERTIES
  NoCaptureAfterStop
  KillSwitchHolds
  SessionSpendsGrants

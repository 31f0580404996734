SPECIFICATION FairSpec
CONSTANTS
  Requests <- OpenRequests
  StopAfters = {0}
  WfpMayFail = FALSE
  MayCrash = FALSE
PROPERTIES
  StopTakesRoutes
  StopAnswers
  DnsWindowCloses

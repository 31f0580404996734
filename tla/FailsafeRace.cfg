SPECIFICATION Spec
CONSTANTS
  Requests <- BlockedRequests
  StopAfters = {0}
  WfpMayFail = FALSE
  MayCrash = FALSE
PROPERTIES
  FailsafeKeepsBlock

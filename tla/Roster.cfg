CONSTANTS
  PMUs = {a}
  Clients = {c}
  Main = main
  MaxRequests = 3
  StopCanTimeOut = FALSE
  DbCanFail = TRUE
  ApiDuringBoot = FALSE
SPECIFICATION Spec
INVARIANTS LiveIsStreaming OneRunPerPMU
PROPERTIES StoppedRunsEnd CallersFinish
CHECK_DEADLOCK FALSE

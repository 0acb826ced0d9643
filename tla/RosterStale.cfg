CONSTANTS
  PMUs = {a, b}
  Clients = {c}
  Main = main
  MaxRequests = 0
  StopCanTimeOut = FALSE
  DbCanFail = FALSE
  ApiDuringBoot = FALSE
SPECIFICATION Spec
INVARIANT ExpectedIsLive
CHECK_DEADLOCK FALSE

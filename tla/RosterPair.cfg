CONSTANTS
  PMUs = {a, b}
  Clients = {c}
  Main = main
  MaxRequests = 1
  StopCanTimeOut = FALSE
  DbCanFail = TRUE
  ApiDuringBoot = FALSE
SPECIFICATION Spec
INVARIANTS TypeOK ConfiguredIsActive
PROPERTY LoneSyncIsExact
CHECK_DEADLOCK FALSE

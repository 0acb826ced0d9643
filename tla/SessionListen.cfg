CONSTANTS
  Transports = {"listen"}
  MaxLayout = 2
  MayRefuse = {}
  MaxAttempts = 1
  WireSize = 1
SPECIFICATION StreamingSpec
PROPERTY Refreshed
CHECK_DEADLOCK FALSE

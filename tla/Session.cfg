CONSTANTS
  Transports = {"tcp", "dial", "listen"}
  MaxLayout = 2
  MayRefuse = {2}
  MaxAttempts = 2
  WireSize = 2
SPECIFICATION Spec
INVARIANTS TypeOK DecodedInItsLayout
PROPERTIES SkeletonSpec SessionsStream RefreshedOverTCP CancelledEnds
CHECK_DEADLOCK FALSE

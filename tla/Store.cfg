CONSTANTS
  Endpoints = {e1, e2}
  Nicknames = {n1, n2}
  MaxCrashes = 1
  MaxRequests = 2
SPECIFICATION Spec
INVARIANT PoolsAreClosed
PROPERTIES OpensMigrated ComesBack
CHECK_DEADLOCK FALSE

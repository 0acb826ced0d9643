CONSTANTS
  PMUs = {a}
  Manager = m
  Threads = {a, m}
  Clients = {c}
  None = none
  Second = 12
  RingSize = 2
  ChannelSize = 1
  Workers = {w1, w2}
  Gone = gone
  TapeWorkers = {t1}
  DashboardQueue = 1
  CaptureQueue = 1
  TapeSize = 2
  MaxClockSkew = 5
  Kinds <- DashboardKinds
  Bounds <- DashboardBounds
  AtOnce = 2
  Overtakings = 4
  Pauses = 1
  Windows = 2
SPECIFICATION Spec
INVARIANTS FeedIsSafe TapeKeepsOrder SteadyWindowShown
PROPERTY ReadingsShownOrCounted
CHECK_DEADLOCK FALSE

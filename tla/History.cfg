CONSTANTS
  PMUs = {a}
  Layouts = {l1, l2}
  NoLayout = none
  QueueSize = 1
  EventQueue = 1
  BatchSize = 2
  MaxFrames = 2
  MaxConfigs = 2
SPECIFICATION Spec
INVARIANTS TypeOK Accounted LayoutsFollowProfiles
PROPERTIES FrameLogSpec FramesLeave ShutdownFinishes
CHECK_DEADLOCK FALSE

CONSTANTS
  Second = 12
  MaxPhasors = 2
  MaxAnalogs = 2
  MaxDigitals = 1
  Labels = {"VA", "VB", "VC", "IA", "VX", "IX"}
  Troubles = {"deadlines", "noise", "short"}
  MaxAttempts = 2
  MaxSent = 4
SPECIFICATION Spec
INVARIANTS DeliveredAsSent NothingReadBeyondEnd FramesRoundTrip LiveLabelsKept CrcSeesErrors
CHECK_DEADLOCK FALSE

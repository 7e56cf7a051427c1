SPECIFICATION Spec
CONSTANTS
  Period = 10
  Window = 6
  MaxDelay = 0
  MaxResend = 0
  MaxFrames = 3
  MaxTime = 13
INVARIANT PlacementRight
CHECK_DEADLOCK FALSE

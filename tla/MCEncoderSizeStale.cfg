SPECIFICATION Spec
CONSTANTS
  Sizes <- MCSizes
  Native <- MCNative
  MaxSessions = 2
INVARIANT BaseIsLinkSize
CHECK_DEADLOCK FALSE

SPECIFICATION Spec
CONSTANTS
  Submitters = {capture}
  RingCapacity = 4
  Backlog = 3
  MaxCoding = 1
INVARIANT SentDecodably

SPECIFICATION FairSpec
CONSTANTS
  Submitters = {capture}
  RingCapacity = 2
  Backlog = 1
  MaxCoding = 1
PROPERTIES AwaitedKeyframeComes

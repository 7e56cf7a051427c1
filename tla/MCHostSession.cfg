SPECIFICATION FairSpec
CONSTANTS
  Conns = {c1, c2, c3}
  NoConn = NoConn
  MaxOpen = 2
INVARIANTS TypeOK NothingLeaks ServedWhole
PROPERTIES OnlyOwnerEnds SessionFreed HostGoesQuiet
CHECK_DEADLOCK FALSE

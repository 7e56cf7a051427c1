SPECIFICATION Spec
CONSTANTS
  Conns = {c1, c2}
  NoConn = NoConn
  MaxOpen = 1
INVARIANTS IdleListens
CHECK_DEADLOCK FALSE

SPECIFICATION Spec
CONSTANTS
  Conns = {c1, c2}
  NoConn = NoConn
  MaxOpen = 2
PROPERTIES TeardownSafe
CHECK_DEADLOCK FALSE

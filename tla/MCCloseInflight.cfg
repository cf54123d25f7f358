CONSTANTS
  Publishers = {p1, p2}
  Conns = {k1, k2}
  FirstConn = k1
  PoolSize = 1
  None = None
SPECIFICATION Spec
PROPERTY CloseLetsInflightFinish
CHECK_DEADLOCK FALSE

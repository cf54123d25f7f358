CONSTANTS
  Publishers = {p1, p2}
  Conns = {k1, k2}
  FirstConn = k1
  PoolSize = 2
  None = None
SPECIFICATION FairSpec
INVARIANTS ExclusiveHolder NoLiveOrphan ConnsTracked
PROPERTIES CloseReturnsUnlessFillBlocked 
CHECK_DEADLOCK FALSE

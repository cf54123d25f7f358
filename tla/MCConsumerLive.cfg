CONSTANTS
  Workers = {w1}
  Messages = {m1}
  Conns = {k1, k2}
  FirstConn = k1
  Prefetch = 1
  RetryLimit = 2
  NotFoundLimit = 2
  None = None
SPECIFICATION ConsumerFairSpec
PROPERTIES KeepsDelivery MessagesSettle StopEnds
CHECK_DEADLOCK FALSE

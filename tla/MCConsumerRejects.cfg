CONSTANTS
  Workers = {w1}
  Messages = {m1}
  Conns = {k1}
  FirstConn = k1
  Prefetch = 1
  RetryLimit = 2
  NotFoundLimit = 2
  None = None
SPECIFICATION ConsumerSpec
PROPERTIES RejectsOnlyPoison
CHECK_DEADLOCK FALSE

SPECIFICATION MessagingSpec
CONSTANTS
  Calls = {w1, w2, c3}
  Exclusive = FALSE
  Threshold = 2
  NoCall = NoCall
  Workers = {w1, w2}
  Messages = {m1, m2}
  Conns = {k1, k2}
  FirstConn = k1
  Prefetch = 2
  RetryLimit = 2
  NotFoundLimit = 2
  None = None
SYMMETRY Symmetry
INVARIANTS
  PendingSorted PendingIsLive WaiterIsRegistered TimeoutsRecycle
  DeliveriesMatch UnitGoneMeansMissing StopGivesBack
CHECK_DEADLOCK FALSE

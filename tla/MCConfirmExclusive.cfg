CONSTANTS
  Calls = {c1, c2, c3}
  Exclusive = TRUE
  Threshold = 2
  NoCall = NoCall
SPECIFICATION FairSpec
INVARIANTS OkMeansAcked
PROPERTIES KeepsContract ShutdownWakesWaiters
CHECK_DEADLOCK FALSE

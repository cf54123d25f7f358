SPECIFICATION LibrariesSpec
CONSTANTS
  Logins = {q1, q2, q3}
  MaxFails = 2
  Window = 2
  Holders = {w1, w2, w3}
  Draws = {v1, v2, v3, v4}
  Lease = 2
  NoValue = none
  Takers = {t1, t2}
  Buckets = {b1, b2, b3}
  Burst = 2
  IdleThreshold = 2
  MaxStray = 2
  NoBucket = none
  MaxRetries = 2
  Resources = 3
  Guarded = {3}
  Handlers = {h1, h2}
  Publishers = {p1, p2}
  Msgs = {g1, g2}
  Maps = {h0, k1, k2}
  Base = h0
  Delays = {1, 2}
  NoDelay = none
  Ids = {i1, i2}
  NoId = none
  Nothing = none
  AuditDropFields <- Credentials
  OtherFields <- OtherNames
  Depth = 2
  Declarers = {d1, d2}
  Newer = {d2}
  Changed = {"DelayedExchange"}
  MaxTries = 3
INVARIANTS
  WrongWithinLimit
  LeaseIsExclusive
  
  RepeatsOnlyBroken
  RequestsKeepResources
  SentAsAsked
  LogHidesCredentials
  SuccessMeansInPlace
PROPERTIES
  LockoutEnds
  ShutdownEnds
CHECK_DEADLOCK FALSE

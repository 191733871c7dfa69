CONSTANTS
  Context = {c1, c2}
  Mac = {m1, m2}
  Op = {o1}
  PoolSize = 2
  Traffic = 1
  Null = null
SPECIFICATION NdisFairSpec
CHECK_DEADLOCK FALSE
INVARIANTS
  PoolsAccurate
  BroadcastReachesAll
PROPERTIES
  StopReturns

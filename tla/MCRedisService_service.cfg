CONSTANTS
  Threads = {t1, t2}
  Aliases = {a1, a2}
  None = None
  PoolSize = 1
  Instances = 2
SPECIFICATION FairSpec
CHECK_DEADLOCK FALSE
INVARIANTS TypeOK StopReachesEveryPool LastPoolStops
PROPERTIES RunEnds

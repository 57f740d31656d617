CONSTANTS
  Threads = {t1, t2}
  Aliases = {a1, a2}
  None = None
  PoolSize = 2
  Instances = 1
SPECIFICATION Spec
CHECK_DEADLOCK FALSE
SYMMETRY Symmetry
INVARIANTS StoppedMeansClosed

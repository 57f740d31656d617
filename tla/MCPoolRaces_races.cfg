CONSTANTS
  Threads = {t1, t2}
  Conns = {c1, c2, c3, c4}
  Requests = {r1, r2, r3}
  PoolSize = 1
  None = None
SPECIFICATION Spec
CHECK_DEADLOCK FALSE
SYMMETRY Symmetry
INVARIANTS RequestOnce OfferedOnce Overshoot OnlyEarlyStray NoMutualWait ClosedIsTold

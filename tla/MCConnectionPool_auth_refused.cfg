CONSTANTS
  Conns = {c1, c2}
  Requests = {r1, r2}
  PoolSize = 2
  AuthReplies = {"refused"}
  None = None
SPECIFICATION FairSpec
CHECK_DEADLOCK FALSE
PROPERTIES AuthFailureReported

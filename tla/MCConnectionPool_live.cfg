CONSTANTS
  Conns = {c1, c2, c3}
  Requests = {r1, r2, r3}
  PoolSize = 2
  AuthReplies = {}
  None = None
SPECIFICATION FairSpec
CHECK_DEADLOCK FALSE
PROPERTIES ImplementsFairDispatcher CloseCompletes

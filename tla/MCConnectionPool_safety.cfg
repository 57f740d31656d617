CONSTANTS
  Conns = {c1, c2, c3, c4}
  Requests = {r1, r2, r3, r4}
  PoolSize = 2
  AuthReplies = {"accepted", "refused"}
  None = None
SPECIFICATION Spec
CHECK_DEADLOCK FALSE
SYMMETRY Symmetry
INVARIANTS TypeOK ConnectionsAreLive PoolBounded ReadyIsIdle NoWaitWhileIdle WaitersHaveServer OnePlace AnsweredOnce CloseDrains
PROPERTIES LostOnlyWithLink ClosedAcceptsNothing ImplementsDispatcher ImplementsPoolLife

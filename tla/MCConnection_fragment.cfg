CONSTANTS
  Requests = {r1, r2}
  Auth = Auth
  None = None
  Schemas = {"tcp", "unix"}
  Passwords = {FALSE}
  AuthReplies = {"value", "error"}
  Sizes = {2}
  Kinds = {"value"}
SPECIFICATION Spec
CHECK_DEADLOCK FALSE
INVARIANTS NeverAsserts

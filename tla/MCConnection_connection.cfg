CONSTANTS
  Requests = {r1, r2}
  Auth = Auth
  None = None
  Schemas = {"tcp", "unix"}
  Passwords = {TRUE, FALSE}
  AuthReplies = {"value", "error"}
  Sizes = {1, 3}
  Kinds = {"value", "error", "nested"}
SPECIFICATION FairSpec
CHECK_DEADLOCK FALSE
INVARIANTS TypeOK ToldOnce InStep RightAnswer AssertsOnlyIf
PROPERTIES TerminateIsGraceful TerminatedIsSilent TerminateCompletes ExecutionEnds

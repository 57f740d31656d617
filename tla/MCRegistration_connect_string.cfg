CONSTANTS
  Tokens <- MCTokens
  Numbers <- MCNumbers
  IntMax = 32767
  Truth <- MCTruth
  Settings <- MCSettings
  Written <- MCWritten
  OtherTexts <- MCOtherTexts
  GivenOptions <- MCGivenOptions
  PoolSizes = {0, 1}
  PathMax = 6
SPECIFICATION Spec
CHECK_DEADLOCK FALSE
INVARIANTS TakenAsMeant Lossless SwallowedOnlyLongPath

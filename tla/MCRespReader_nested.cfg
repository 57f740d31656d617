CONSTANTS
  Byte <- MCByte
  Values <- NestedValues
  Encode <- NestedEncode
  Replies <- MCNested
  Requests <- None
  Buffers <- None
  Cut = FALSE
SPECIFICATION SpecTrip
CHECK_DEADLOCK FALSE
INVARIANTS ErrorConsumesAnswer

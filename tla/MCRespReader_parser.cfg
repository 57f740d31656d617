CONSTANTS
  Byte <- MCByte
  Values <- Top
  Encode <- MCEncode
  Replies <- MCReplies
  Requests <- MCRequests
  Buffers <- MCBuffers
  Cut = TRUE
SPECIFICATION SpecTrip
CHECK_DEADLOCK FALSE
INVARIANTS RoundTrip CutIsNotEnough
PROPERTIES LoopProgress

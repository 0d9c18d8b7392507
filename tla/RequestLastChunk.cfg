SPECIFICATION Spec
CONSTANTS
  Messages <- SingleChunk
  Limit = 2
INVARIANT LastChunkEndsBody
CHECK_DEADLOCK FALSE

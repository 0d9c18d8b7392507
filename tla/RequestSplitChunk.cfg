SPECIFICATION Spec
CONSTANTS
  Messages <- SingleChunk
  Limit = 2
INVARIANT ChunksAreWhole
CHECK_DEADLOCK FALSE

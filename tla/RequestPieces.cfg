SPECIFICATION Spec
CONSTANTS
  Messages <- WholeMessages
  Limit = 2
INVARIANTS
  TypeOK
  DecidedAsSent
  WholeRequestIsDecided
  BufferWithinLimit
PROPERTY MovesAsListed
CHECK_DEADLOCK FALSE

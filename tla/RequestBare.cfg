SPECIFICATION Spec
CONSTANTS
  Messages <- BareMessages
  Limit = 2
INVARIANT HeaderSectionIsParsed
CHECK_DEADLOCK FALSE

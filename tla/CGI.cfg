SPECIFICATION FairSpec
CONSTANTS
  Calls = {q1, q2, q3}
  Slots = {n1, n2}
  Pids = {p1, p2}
  Other = Other
  None = None
  MaxOutput = 2
INVARIANTS
  TypeOK
  ResultIsOwn
  ResultIsFinal
  NothingLeftBehind
PROPERTIES
  KillsOnlyTheScript
  FreeAfterLastTry
  FreeAfterScript

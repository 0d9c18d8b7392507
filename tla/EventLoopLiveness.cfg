SPECIFICATION FairSpec
CONSTANTS
  Clients = {c1, c2}
  Servers = {s1, s2}
  Fds = {f1, f2}
  None = None
  MAX_EVENTS = 3
  LISTEN_BACKLOG = 2
  MaxUnread = 1
  Faults = {}
INVARIANTS
  NoForgottenClient
  NoDescriptorLeak
PROPERTIES
  AnsweredInTheEnd
  HangUpIsNoticed
  QueueIsServed
  SignalEndsTheLoop

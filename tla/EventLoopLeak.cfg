SPECIFICATION Spec
CONSTANTS
  Clients = {c1, c2}
  Servers = {s1}
  Fds = {f1}
  None = None
  MAX_EVENTS = 2
  LISTEN_BACKLOG = 2
  MaxUnread = 1
  Faults = {}
INVARIANT NoMemoryLeak

SPECIFICATION Spec
CONSTANTS
  Clients = {c1, c2, c3}
  Servers = {s1}
  Fds = {f1, f2}
  None = None
  MAX_EVENTS = 2
  LISTEN_BACKLOG = 2
  MaxUnread = 1
  Faults = {"listen", "fcntl", "epoll_add", "handler"}
SYMMETRY Symmetry
INVARIANTS
  TypeOK
  EventsAreLive
  DescriptorOwnership
  BatchIsCurrent
  InterestMatchesRequest
  IInv
PROPERTY ImplementsService

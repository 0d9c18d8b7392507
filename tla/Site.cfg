SPECIFICATION SiteFairSpec
CONSTANTS
  Clients = {c1, c2}
  Servers = {s1}
  Fds = {f1, f2}
  None = None
  MAX_EVENTS = 2
  LISTEN_BACKLOG = 2
  MaxUnread = 1
  Faults = {}
  Pids = {p1}
  Other = Other
  MaxOutput = 1
INVARIANTS
  AnswerIsOwnScripts
  NameStaysTaken
PROPERTY LoopGoesOn

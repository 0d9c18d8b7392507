SPECIFICATION Spec
CONSTANTS
  v1 = v1
  v2 = v2
  x = x
  None = None
  Users = {u1, u2}
  Names = {"session", "theme"}
  Keys = {k1, k2}
  Values = {v1, v2}
  Contents = {x}
  Files <- SiteFiles
  Dirs <- SiteDirs
  Root = "/"
  Index <- SiteIndex
  Locations <- Site
  Limit = 1
  Requests <- LargeRequests
INVARIANT LargeBodiesAreRefused

SPECIFICATION MCSpec
CONSTANTS
  None = None
  \* copy
  p1 = p1
  p2 = p2
  i1 = i1
  i2 = i2
  i3 = i3
  Procs = {p1, p2}
  Inodes = {i1, i2, i3}
  Versions = {0, 1}
  Hashed = TRUE
  Policy = "ttl"
  MaxAge = 1
  MaxLatency = 1
  MaxTime = 4
  ShortTime = 1
  MaxKills = 1
  Shared = TRUE
  \* db
  c1 = c1
  c2 = c2
  u1 = u1
  u2 = u2
  x1 = x1
  x2 = x2
  x3 = x3
  Clients = {c1, c2}
  Uris = {u1, u2}
  Contents = {x1, x2, x3}
  Script <- MCScript
  MaxCalls = 3
  MaxMishaps = 1
INVARIANTS
  HashNamesCopy
  CopyAgeBounded
  ReachedAnswerIsCurrent
  HashNamesContent
SYMMETRY Symmetry
CHECK_DEADLOCK FALSE

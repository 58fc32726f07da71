SPECIFICATION MCSpec
CONSTANTS
  \* http
  r1 = r1
  r2 = r2
  r3 = r3
  Plans <- MCPlans
  Capacity = 1
  MaxEvents = 1
  MaxDeaths = 1
  \* lsp
  None = None
  Uris = {u1, u2}
  FirstVersions = {0, 1}
  Bad = {1, 3}
  Garbage = Garbage
  MaxTexts = 3
  MaxSends = 3
  MaxAway = 2
INVARIANTS
  SerialHistoryIsComplete
  RecentLogsAreServed
  DoneMeansAllTargets
  SerialOutputIsOwn
  TreeIsOfBuffer
  EvaluatorCatchesUp
CHECK_DEADLOCK FALSE

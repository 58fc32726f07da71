SPECIFICATION MCSpec
CONSTANTS
  Tokens <- MCTokens
  Files <- MCFiles
  Skipped <- MCSkipped
  Modules <- MCModules
  Places <- MCPlaces
  Bare = {"bare"}
  Labels <- MCLabels
  Rels <- MCRels
  PathRank <- MCPathRank
  MaxWrites = 1
  None = None
  NoValue = "-"
  NoTask = "-"
INVARIANTS
  ResolversAgree
  ExpansionIsExact
  LabelsReachOneThing
  ReadsAreOneMoment
  DispatchFollowsPatterns
  HashTellsReads
  AssignmentsAreExact
  ForkIsOwn
CHECK_DEADLOCK FALSE

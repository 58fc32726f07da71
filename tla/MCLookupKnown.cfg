SPECIFICATION LookupSpec
CONSTANTS
  Tokens <- MCTokens
  Files <- MCFiles
  Skipped <- MCSkipped
  Modules <- MCModules
  Places <- MCPlaces
  Bare = {"bare"}
  Labels <- MCLabels
  Rels <- MCRels
  PathRank <- MCPathRank
  MaxWrites = 1
INVARIANTS
  LookupOwnStem
CHECK_DEADLOCK FALSE

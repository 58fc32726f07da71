SPECIFICATION GraphSpec
CONSTANTS
  NoTask = "none"
  Phase1 <- MCPhase1
  Phase2 <- MCPhase2
  Swallowed = {"types"}
  Skipped = {"c", "out"}
  Extra <- MCExtra
  Guarded = {"shell"}
  Size <- MCSize
  Graphs <- MCGraphs
  Broken <- MCBroken
  Defines <- MCDefines
INVARIANTS
  OkMeansWhole
  LoadsFinishFirst
  GraphFollowsSources
CHECK_DEADLOCK FALSE

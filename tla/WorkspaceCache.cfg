SPECIFICATION FairSpec
CONSTANTS
  Callers = {p1, p2}
  HasRoots = TRUE
  HeedsAdvice = TRUE
  MaxCalls = 2
  MaxMishaps = 1
  Free = Free
  Stale = Stale
INVARIANTS
  SettledEntryIsWhole
  SerialCallsAreClean
PROPERTIES
  CallsEnd
\* a run ends when every caller has made its calls
CHECK_DEADLOCK FALSE

SPECIFICATION FairSpec
CONSTANTS
  cwd = cwd
  commit = commit
  Threads = {t1, t2}
  Keys <- MCKeys
  CwdKeys <- MCCwdKeys
  RootOf <- MCRootOf
  Nobody = Nobody
  MaxEdits = 1
  MaxCalls = 2
  Interruptible = TRUE
INVARIANTS
  UnracedReloadIsFresh
PROPERTIES
  SingleFlightSpec
  CallsReturnUnlessAbandoned
\* a run ends when every thread has made its calls
CHECK_DEADLOCK FALSE

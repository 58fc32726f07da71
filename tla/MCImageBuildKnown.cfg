SPECIFICATION Spec
CONSTANTS
  None = None
  Procs = {p1, p2}
  Targets = {t1, t2}
  Diffs = {d1, d2}
  MaxBuilds = 3
  MaxEdits = 2
  MaxMishaps = 1
INVARIANTS
  KnownSourceTree
CHECK_DEADLOCK FALSE

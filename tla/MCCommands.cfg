SPECIFICATION MCSpec
CONSTANTS
  None = None
  \* image
  Procs = {p1, p2}
  Targets = {t1, t2}
  Diffs = {d1, d2}
  MaxBuilds = 3
  MaxEdits = 2
  MaxMishaps = 1
  \* kind
  Nodes = {n1, n2}
  First = n1
  n1 = n1
  Ports = {5001, 5002}
  Limits = {2, 4}
  MaxRuns = 3
  MaxFaults = 2
SYMMETRY MCSymmetry
INVARIANTS
  DirtyTagIsExact
  CleanRunProvisions
CHECK_DEADLOCK FALSE

SPECIFICATION MCSpec
CONSTANTS
  None = None
  \* hf
  Files = {large, small}
  Large = {large}
  Segments = {s1, s2, s3}
  Torn = Torn
  MaxMishaps = 4
  \* restart
  Clients = {c1, c2, c3}
  MaxFaults = 2
  MaxStarts = 3
INVARIANTS
  SingleSuccessor
PROPERTIES
  ProgressIsKept
  EventuallyDownloaded
  RestartsEnd
CHECK_DEADLOCK FALSE

SPECIFICATION Spec
CONSTANTS
  p1 = p1
  p2 = p2
  Procs = {p1, p2}
  Versions <- MCVersions
  Fields <- MCFields
  Kinds = {"head"}
  FieldOf <- MCFieldOf
  SizeOf <- MCSizeOf
  Length = "length"
  Absent <- NoField
  None = None
  Failed = Failed
  Policy = "ttl"
  MaxAge = 1
  MaxLatency = 1
  MaxTime = 3
  MaxMishaps = 1
  Possible = {"kill", "clean", "cut"}
INVARIANTS
  NotPermanentlyStale
  SerialManifestMatches
  StalenessBounded
SYMMETRY Symmetry

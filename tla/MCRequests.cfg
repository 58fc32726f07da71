SPECIFICATION RequestsSpec
CONSTANTS
  Request = {r1, r2}
  Version = {"v1", "v2"}
  Label = {"size", "dist"}
  NoData = NoData
  None = "none"
  Own <- MCOwn
  Default <- MCDefault
  Rules <- MCRules
  CtxRule <- MCCtxRule
  Factor <- MCFactor
  Asks <- MCAsks
SYMMETRY MCSymmetry
INVARIANTS
  LayersHold
  CtxIsOwnOrConfigured
  LineageIsOwnHistory
  LoneDispatchIsOwn
CHECK_DEADLOCK FALSE

CONSTANTS
  World = "cached"
  Ops <- MCOps
  Deferral <- MCDeferrals
  Key <- MCKeys
  Value = {}
  Policy <- MCPolicies
  MaxTime = 0
  Request = {r1, r2}
  Budget = "none"
  Nobody = nobody
SPECIFICATION Spec
INVARIANT SlotsAreFilled
CHECK_DEADLOCK FALSE

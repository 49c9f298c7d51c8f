CONSTANTS
  World = "beside"
  Ops <- MCOps
  Deferral <- MCDeferrals
  Key <- MCKeys
  Value = {}
  Policy <- MCPolicies
  MaxTime = 0
  Request = {r1, r2}
  Budget = "some"
  Nobody = nobody
SPECIFICATION Spec
SYMMETRY MCSymmetry
INVARIANTS
  ResponseIsThePage
  SlotsAreFilled
CHECK_DEADLOCK FALSE

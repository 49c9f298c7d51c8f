CONSTANTS
  Key = {page}
  Request = {r1, r2, r3}
  MaxVersion = 1
  MaxTime = 3
  Value <- MCValues
  Policy <- MCPolicies
SPECIFICATION FairSpec
INVARIANTS
  NeverGoesBack
  InvalidationTakesEffect
PROPERTIES
  OnlySharedPagesBecomeEntries
  EveryCallEnds

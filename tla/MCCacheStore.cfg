CONSTANTS
  k1 = k1
  k2 = k2
  k3 = k3
  long = long
  red = red
  blue = blue
  Key <- MCKeys
  KeyLen <- MCKeyLen
  Tag <- MCTags
  Value <- MCValues
  Policy <- MCPolicies
  Limit = 4000
  MaxTime = 4
SPECIFICATION RecencySpec
INVARIANTS
  StructureExact
  WithinBudget
PROPERTIES
  EvictsAsLRU
  MutexIsReleased
  ImplementsAbstract

CONSTANTS
  Fragment <- MCFragments
  Locale <- MCLocales
  Scalar <- MCScalars
  List <- MCLists
  Visit <- MCVisits
  Key <- MCKeys
  Value <- MCValues
  Policy <- MCPolicies
  Request = {r1, r2}
  MaxTime = 3
SPECIFICATION Spec
PROPERTY PrivateRendersLeaveNoEntry

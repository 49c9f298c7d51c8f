SPECIFICATION AnswersSpec
CONSTANTS
  Fragment <- MCFragments
  Locale = {"en", "pl"}
  Scalar = {"1"}
  List <- MCLists
  Visit <- MCVisits
  Key <- MCKeys
  Value <- MCValues
  Policy <- MCPolicies
  Goroutine = {g1, g2}
  MaxTime = 2
  None = None
  Visitor = {"ann", "bob"}
  Proxy = "proxy"
  Request <- MCRequest
  Page <- MCPage
  Layout <- MCLayout
  Bucket <- MCBucket
  Declared = {"theme"}
  PrivateCookies = {"session"}
  Themes <- MCThemes
  Target = "account"
  MaxTokens = 3
  MaxMessages = 1
  MaxVisits = 4
INVARIANTS
  AnswersAreTheVisitorsOwn
  RefusedOnlyWhereFirstVisitsCross
  MessagesReachTheirVisitor
  ServesTheAlike
  PrivateBytesStayOnes
SYMMETRY MCSymmetry
CHECK_DEADLOCK FALSE

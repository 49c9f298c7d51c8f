CONSTANTS
  Page = {"intro", "guide", "news", "bare"}
  Layout = {"root", "docs", "blog"}
  LayoutChain <- MCChains
  Elsewhere = "news"
  Island = {"bar", "map", "late", "next"}
  Slot = {"offers", "latest"}
  Outlet = 2
  MaxHistory = 3
  MaxGeneration = 2
SPECIFICATION BothSpec
INVARIANT DocumentIsTheAddress
PROPERTIES
  LastNavigationWins
  BackLeadsBack
  EveryNavigationEnds
  DocumentComesToLife
CHECK_DEADLOCK FALSE

CONSTANTS
  Browser = {b1}
  MaxVersion = 3
  MaxBuilds = 6
  MaxLost = 1
  Request = {g}
SPECIFICATION DevFairSpec
INVARIANTS
  OpenStreamMissesNothing
  RebuildsLoseNoPage
PROPERTIES
  WatchedEditsAreBuilt
  NoChildIsLeftBehind
CHECK_DEADLOCK FALSE

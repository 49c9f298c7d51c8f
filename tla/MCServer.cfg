CONSTANTS
  Word <- MCWord
  Empty = ""
  Lower <- MCLower
  Fold <- MCFold
  Configs <- MCConfigs
  Assets = "assets"
  Hosts <- MCHosts
  Typed <- MCTyped
  Arguments <- MCArguments
  Metas = {3, 7}
  Sitemaps = {6}
  Manners <- MCManners
  Limit = 2
  Exclude = {}
  Probes = TRUE
  TTL = 2
  Stale = 1
  Before <- MCBefore
  Sites <- MCSites
  MaxTime = 3
  MaxPages = 2
  MaxShard = 2
  MaxChanges = 3
SPECIFICATION ServerSpec
INVARIANTS
  LinksLeadToTheirPage
  OneSpelling
  VisitsSettle
  ShardsAreWhole
  SitemapIsTrue

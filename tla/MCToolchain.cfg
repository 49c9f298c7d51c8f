CONSTANTS
  Unset = Unset
  Junk = Junk
  Odd = Odd
  ExpressionVerdict <- MCExpressionVerdict
  DocumentVerdict <- MCDocumentVerdict
  PlanVerdict <- MCPlanVerdict
  MessagesVerdict <- MCMessagesVerdict
  Sources <- MCSources
  Ident <- MCIdent
  Keyword = {"type"}
  MaxBuilds = 2
SPECIFICATION ToolchainSpec
CHECK_DEADLOCK FALSE
INVARIANTS
  SettingsMeanWhatTheySay
  ManifestSurvives
  NothingIsLostInSilence
  PlansRenderTheTemplate
  LinksAreJudgedAsAnswered
  BuildsAreWhole
  SubmissionsAreJudgedAsSent
  MessagesAreTheLocalesOwn

CONSTANTS
  Unset = Unset
  Junk = Junk
  Odd = Odd
  ExpressionVerdict <- MCExpressionVerdict
  DocumentVerdict <- MCDocumentVerdict
  PlanVerdict <- MCPlanVerdict
  MessagesVerdict <- MCMessagesVerdict
  Sources <- MCSources
  Ident <- MCIdent
  Keyword = {"type"}
  MaxBuilds = 2
SPECIFICATION FragmentSpec
CHECK_DEADLOCK FALSE
INVARIANT FragmentsAreKeyedByWhatTheyRead

SPECIFICATION GraphSpec
CONSTANTS
  PathCount = 3
  TextsOf <- MCTextsOf
  Parse <- MCParse
  Fold <- MCFold
  Queries = {"f"}
  Rank <- MCRank
  Limits = {1}
  MaxOffset = 3
  Base <- MCBase
  Nothing = Nothing
INVARIANTS
  IndexAnswersAsAScan
  RefreshedIsCold
  ToolsAgree
  NoSilentGap
  PagesAddUp
  ReferencesKeepTheirText

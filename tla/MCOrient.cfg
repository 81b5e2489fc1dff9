SPECIFICATION OrientSpec
CONSTANTS
  Absent = Absent
  Missing = Missing
  Nothing = Nothing
  Paths = {1, 2, 3}
  Texts = {"t", "u"}
  Declares <- MCDeclares
  Relates <- MCRelates
  Doubts <- MCDoubts
  Resolved <- MCResolved
  Number <- MCNumber
  Tree <- MCTree
  MaxChanges = 3
  WordsOf <- MCWordsOf
  Spelled <- MCSpelled
  Profile <- MCProfile
  Hybrid = TRUE
  RootLimit = 2
  Tokens <- MCTokens
  Graphs <- MCGraphs
  Requests <- MCRequests
  Relevances = {200, 320, 400, 1001}
  RerankLimit = 2
  MinTop = 300
  MinMargin = 80
  FanOut = 2
  BodyLimit = 3
  Budgets = {1, 3, 5}
  MaxBudget = 11
INVARIANTS
  OverlayShowsTheLatest
  PackAccountsForAll
  NothingIsLostToABudget
  RerankDecidesNoObligation
CHECK_DEADLOCK FALSE

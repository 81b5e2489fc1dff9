SPECIFICATION ServerSpec
CONSTANTS
  a = a
  b = b
  t1 = t1
  t2 = t2
  r1 = r1
  r2 = r2
  Paths = {a, b}
  Texts = {t1, t2}
  Revs = {r1, r2}
  Committed <- MCCommitted
  MaxEdits = 2
  None = None
  Queries = {q1}
  CacheLimit = 1
  MaxHandles = 1
  Tools <- MCTools
  Toolset = {"orient", "expand", "search_graph", "scan_risks", "ingest_runtime_evidence", "get_outline", "find_similar"}
  Arms = {"orient", "expand", "search_graph", "scan_risks", "ingest_runtime_evidence", "get_outline", "memory_record"}
  Null = Null
  Files = {f1, f2}
  Most <- MCMost
  MostFound = 3
INVARIANTS
  AnswersAreFresh
  CachesAreOfTheGraph
  PagesAreOfOneGraph
  ScansAreOfHead
  VisibleAnswersAreTrue

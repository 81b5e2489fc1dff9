SPECIFICATION ReuseSpec
CONSTANTS
  a = a
  b = b
  t1 = t1
  t2 = t2
  r1 = r1
  r2 = r2
  Paths = {a, b}
  Texts = {t1, t2}
  Revs = {r1, r2}
  Committed <- MCCommitted
  MaxEdits = 3
  None = None
  Queries = {q1, q2}
  CacheLimit = 1
  MaxHandles = 2
INVARIANTS
  NeverReusesWrongData

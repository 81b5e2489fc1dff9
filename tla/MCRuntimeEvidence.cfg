SPECIFICATION EvidenceSpec
CONSTANTS
  p1 = p1
  p2 = p2
  Procs = {p1, p2}
  b1 = b1
  b2 = b2
  b3 = b3
  r1 = r1
  r2 = r2
  t1 = t1
  t2 = t2
  e1 = e1
  e2 = e2
  f = f
  g = g
  A = A
  B = B
  C = C
  run = run
  go = go
  Ids = {b1, b2, b3}
  Revs = {r1, r2}
  Trees = {t1, t2}
  Environments = {e1, e2}
  Revision <- MCRevision
  LastSeen <- MCLastSeen
  Environment <- MCEnvironment
  Documents <- MCDocuments
  Lines <- MCLines
  StaticCalls <- MCStaticCalls
  Input <- MCInput
  Cutoffs = {1, 2}
  MaxOutages = 1
  None = None
SYMMETRY Workers
INVARIANTS
  SnapshotsMatchBatches
  EvidenceAddsUp
  EvidenceIsOfTheGraph
PROPERTIES
  OnlyPruneForgets

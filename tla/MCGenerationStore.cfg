SPECIFICATION FairSpec
CONSTANTS
  Procs = {p1, p2}
  Readers = {r1}
  Gens = {g1, g2}
  Contents = {c1, c2}
  SegmentCount = 2
  MaxOutages = 2
  None = None
INVARIANTS
  StoreIsSound
PROPERTIES
  RefinesPromise
  LockComesFree

SPECIFICATION Spec
CONSTANTS
  Projects = {a, b}
  Slots = {s1, s2}
  Snapshots = {g1, g2}
  Keys = {status, graph}
  Status = status
  Conns = {c1, c2}
  Openers = {w1}
  Queriers = {q1}
  MaxOpen = 1
  Capacity = 1
  None = None
SYMMETRY Symmetry
INVARIANTS
  CacheIsOfOpenGraphs
  SlotsAreSound

SPECIFICATION Spec
SYMMETRY Symmetry
CONSTANTS
  Procs = {p1, p2}
  Ids = {1, 2, 3}
  Confidence <- MCConfidence
  Deadline <- MCDeadline
  Limits = {1}
  MinConfidences = {2}
  MaxTime = 1
  MaxOutages = 1
  None = None
INVARIANTS
  RememberedUntilExpired
  RecallMissesNothingValid
PROPERTIES
  ReadsFailOnlyOfExpiry

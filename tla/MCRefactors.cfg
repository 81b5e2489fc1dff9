SPECIFICATION FairSpec
CONSTANTS
  f1 = f1
  f2 = f2
  s1 = s1
  s2 = s2
  Inputs <- MCInputs
  Snapshots = {s1, s2}
  SnapshotOf <- MCSnapshotOf
  Workers = {w1, w2}
  MaxSchedules = 4
  None = None
  RefactorRequests <- MCRequests
  Scopes <- MCScopes
  Keywords = {"fn", "if", "return", "struct", "while"}
  MinTokens = 8
  Width = 4
  DocumentLimit = 5
  IndexLimit = 5
  PairLimit = 3
  FunctionalLimit = 2
  EvidenceLimit = 2
INVARIANTS
  LookupsAreSound
  AnswersAreComplete
  NothingIsRemovedUnseen
PROPERTIES
  BuildSettles

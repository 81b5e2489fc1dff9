SPECIFICATION RouterSpec
CONSTANTS
  alpha = alpha
  beta = beta
  gamma = gamma
  Roots <- MCRoots
  MaxRepos = 2
  MaxCalls = 4
  MaxSessions = 1
  MaxHandles = 2
  Closed = Closed
SYMMETRY Symmetry
INVARIANTS
  HandlesAreSound
PROPERTIES
  EvictionIsSound
CHECK_DEADLOCK FALSE

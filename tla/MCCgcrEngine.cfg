SPECIFICATION FairSpec
CONSTANTS
  o1 = o1
  o2 = o2
  parse = parse
  scan = scan
  x = x
  y = y
  small = small
  large = large
  Obligations = {o1, o2}
  Kinds = {parse, scan}
  Counterexamples = {x, y}
  About <- MCAbout
  Allowed <- MCAllowed
  Cost <- MCCost
  Weight <- MCWeight
  Records = {small, large}
  InitialRecords = {}
  Tokens <- MCTokens
  Budget <- MCBudget
  InputBytes = 1
  MaxBytes = 5
  MaxFacts = 2
  None = None
INVARIANTS
  ContextIsSound
PROPERTIES
  Terminates
CHECK_DEADLOCK FALSE

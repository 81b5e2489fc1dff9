SPECIFICATION GatesSpec
CONSTANTS
  PackageOf <- MCPackageOf
  FileOf <- MCFileOf
  HotspotFanIn = 2
  MaxPasses = 4
  RepoPaths <- MCRepoPaths
  GapRows = 1
  PathOf <- MCPathOf
  NameOf <- MCNameOf
  Tests = {4}
  BaseCalls <- MCBaseCalls
  Repositories <- MCRepositories
  Refreshes <- MCRefreshes
  Requests <- MCRequests
  GateLimit = 9
  CacheLimit = 1
  BatchLimit = 1
  ScanLimit = 2
  Demands <- MCDemands
  TestRuns <- MCTestRuns
  Allowlist = {"MIT"}
  Missing = Missing
CONSTRAINTS
  OneReport
  FewFailures
INVARIANTS
  GateIsHonest
  LicencesMeanWhatTheySay
  StructureIsTold
  ScanHidesNothing
  MissionsDoNotClash

CONSTANTS
  Parts = {"marking", "pools", "ephemerons", "arrays", "roots", "skiplist", "fragments", "bigarray"}
  MkDomains <- MkSomeDomains
  MkOwner <- MkSomeOwner
  MkSize <- MkSomeSize
  MkConts <- MkSomeConts
  MkLazies <- MkSomeLazies
  MkHeaps <- MkSomeHeaps
  EpFields <- EpField
  EpShape <- EpShapes
  EpContents <- EpStart
  EpHeld <- EpHeldSets
  ThJobs <- ThJobSets
  ChCalls <- ChSomeCalls
  ChSource <- ChSomeSource
  EvJobs <- EvJobSets
  EvMaxEvents <- EvLimits
  SlJobs <- SlJobSets
  CfRanges <- CfSomeRanges
  BaShapes <- BaAllShapes
  BrShapes <- BrSmallShapes
  SeCalls <- SeAllCalls
  SeKind <- SeKinds
  TrCommands <- TrLists
  TrReal <- TrLeads
  ShDomains = {d1, d2}
  ShPools = {p1, p2}
  ChThreads = {t1, t2}
SPECIFICATION Spec
INVARIANTS MarkingSound PoolsSound  RootsSound  BigarraysSound
SYMMETRY HeapSymmetry
CHECK_DEADLOCK FALSE

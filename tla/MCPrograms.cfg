CONSTANTS
  Parts = {"marshal", "compare", "interp", "bigdata", "half", "fma", "hex", "str", "ints", "lexing", "addrmap", "frames", "travel"}
  MaJobs <- MaSomeJobs
  MaFragments <- MaSomeFragments
  MaForeign <- MaSomeForeign
  MaCustoms <- MaSomeCustoms
  CoHeap <- CoSomeHeap
  CoValues <- CoSomeValues
  CoCounts <- CoSomeCounts
  CoCusts <- CoSomeCusts
  BdJobs <- BdJobSet
  FmInputs <- FmTriples
  HxInputs <- HxTexts
  SmJobs <- SmAsked
  IvJobs <- IvAllJobs
  LxTexts <- LxAllTexts
  LxTables <- LxTable
  AmHash <- AmHashes
  FtTables <- FtUnits
  TtTrace <- TtProgram
  TtParent <- TtParents
SPECIFICATION Spec
INVARIANTS   NumbersRight  
CHECK_DEADLOCK FALSE

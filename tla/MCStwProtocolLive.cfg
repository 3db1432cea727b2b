CONSTANTS
  Max_domains = 2
  InitMayFail = FALSE
SPECIFICATION FairSpec
PROPERTIES
  SectionEnds
  SpawnReturns

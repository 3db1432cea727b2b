CONSTANTS
  Max_domains = 2
  InitMayFail = TRUE
SPECIFICATION FairSpec
PROPERTIES
  SpawnReturns
CHECK_DEADLOCK FALSE

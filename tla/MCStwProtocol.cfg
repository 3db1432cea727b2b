CONSTANTS
  Max_domains = 3
  InitMayFail = TRUE
SPECIFICATION Spec
INVARIANTS
  StwExclusion
  StwInv
  SlotsSound
PROPERTY
  SectionSetFrozen
CHECK_DEADLOCK FALSE

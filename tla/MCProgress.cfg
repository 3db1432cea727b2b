CONSTANTS
  Parts = {"barrier", "slot", "failing", "minor", "parser"}
  Domains = {d1, d2, d3}
  num_domains = 3
  BARRIER_SENSE_BIT = 8
  Rounds = 4
  Backups = {"b1", "b2"}
  CreateMayFail = FALSE
  MiYoung <- MiSomeYoung
  MiHeaps <- MiSomeHeaps
  PaGrammars <- PaSomeGrammars
  PaRaising <- PaSomeRaising
SPECIFICATION FairParts
INVARIANTS BarrierSync BackupSound FailingSlot AllPromoted ParserRight
PROPERTIES TerminateSeen ServiceSpec Finishes ParseEnds
CHECK_DEADLOCK FALSE

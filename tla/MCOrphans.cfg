CONSTANTS
  d0 = d0
  d1 = d1
  eph = eph
  key = key
  data = data
  Domains = {d0, d1}
  Main = d0
  Parts = {"ephemerons", "finalisers"}
  Leavers = {d1}
  FullMajors = {}
  Objects = {eph, key}
  Ephemerons = {eph}
  Fields <- MCFields
  Key <- MCKey
  Data <- MCData
  First = {}
  Last = {}
  MaxNest = 2
SPECIFICATION SpecParts
INVARIANTS CountersKept OrphansKept
PROPERTY FinalisersKept

CONSTANTS
  d0 = d0
  d1 = d1
  eph = eph
  key = key
  data = data
  Domains = {d0, d1}
  Main = d0
  Parts = {"ephemerons", "forced", "revived"}
  Leavers = {}
  FullMajors = {}
  Objects = {eph, key, data}
  Ephemerons = {eph}
  Fields <- MCFields
  Key <- MCKey
  Data <- MCData
  First = {}
  Last = {}
  MaxNest = 2
SPECIFICATION FairParts
INVARIANT EphemeronsSound
PROPERTIES CycleEndsClean FinishEnds

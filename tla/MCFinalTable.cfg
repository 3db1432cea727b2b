CONSTANTS
  v1 = v1
  v2 = v2
  MaxFuns = 3
  Values = {v1, v2}
  MajorFirst = {v1}
  RegisterMajor = FALSE
SPECIFICATION FairSpec
INVARIANT TablesSound
PROPERTIES Finalised LastWhenUnreachable

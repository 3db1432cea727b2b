CONSTANTS
  v1 = v1
  v2 = v2
  MaxFuns = 3
  Values = {v1, v2}
  MajorFirst = {v2}
  RegisterMajor = TRUE
SPECIFICATION Spec
PROPERTIES LastWhenUnreachable

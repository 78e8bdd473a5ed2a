CONSTANTS
  j1 = j1
  j2 = j2
  j3 = j3
  Jobs = {j1, j2}
  Ids = {j1}
  IdOf <- OneId
  Period <- Periods
  ChanCap = 1
  Slots = {s1, s2}
  Unsupported = {}
  NoJob = NoJob
SPECIFICATION Spec
INVARIANT OnePlace

CONSTANTS
  j1 = j1
  j2 = j2
  j3 = j3
  Jobs = {j1, j2, j3}
  Ids = {j1, j2, j3}
  IdOf <- DistinctIds
  Period <- Periods
  ChanCap = 1
  Slots = {s1, s2}
  Unsupported = {j3}
  NoJob = NoJob
SPECIFICATION FairSpec
INVARIANTS TypeOK OnePlace CountersAgree
PROPERTIES PassComplete StoppedQuiet CycleSpec KeepsProbing

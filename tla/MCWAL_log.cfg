CONSTANTS
  Records = {r1, r2}
  Ptrs = {p1, p2, p3}
  MaxNow = 2
  SegmentSize = 1
  MaxAge = 2
  Retention = 1
  SharedSeconds = FALSE
  Faults = {"create"}
  Compressed = TRUE
SPECIFICATION FairSpec
\* a process that died may stay down: at the clock bound nothing else happens
CHECK_DEADLOCK FALSE
INVARIANTS NoLoss NoneComesBack IndexAgrees
PROPERTIES LogSpec Purged

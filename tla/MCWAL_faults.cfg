CONSTANTS
  Records = {r1, r2}
  Ptrs = {p1, p2, p3}
  MaxNow = 2
  SegmentSize = 1
  MaxAge = 2
  Retention = 1
  SharedSeconds = TRUE
  Faults = {"torn", "create", "save"}
  Compressed = FALSE
SPECIFICATION Spec
\* a process that died may stay down: at the clock bound nothing else happens
CHECK_DEADLOCK FALSE
SYMMETRY PtrRecordSymmetry
INVARIANT OnlyReportedSuppressed
PROPERTY OnlySentDeleted

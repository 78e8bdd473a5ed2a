CONSTANTS
  Records = {r1, r2}
  Slices <- AllSlices
  Endpoints = {e1}
  Workers = {w1}
  Flusher = flusher
  Size = 1
  SliceLen = 1
  ZeroTimeouts = {FALSE}
  RetryCap = 1
  MaxAttempts = 0
  Faults = {"crash"}
SPECIFICATION DeliverySpec
\* in the end every record is probed for and settled
CHECK_DEADLOCK FALSE
SYMMETRY RecordSymmetry
INVARIANT NotLost

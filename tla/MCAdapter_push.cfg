CONSTANTS
  Slices = {i1, i2, i3}
  Endpoints = {e1}
  Workers = {w1}
  Flusher = flusher
  Size = 2
  SliceLen = 1
  ZeroTimeouts = {TRUE, FALSE}
  RetryCap = 1
  MaxAttempts = 2
SPECIFICATION FairSpec
\* a stopped adapter, or one whose process died, does nothing any more
CHECK_DEADLOCK FALSE
INVARIANTS TypeOK Conserved
PROPERTIES Settles StopEnds PushReturns

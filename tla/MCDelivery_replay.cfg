CONSTANTS
  Records = {r1}
  Slices <- AllSlices
  Endpoints = {e1, e2}
  Workers = {w1, w2}
  Flusher = flusher
  Size = 1
  SliceLen = 1
  ZeroTimeouts = {FALSE}
  RetryCap = 1
  MaxAttempts = 1
  Faults = {"crash", "outage", "stop"}
SPECIFICATION DeliveryFairSpec
\* in the end every record is probed for and settled
CHECK_DEADLOCK FALSE
PROPERTIES SettledWasAccepted LostOnlyThus Replays

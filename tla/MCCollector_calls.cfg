CONSTANTS
  Recorders = {w1, w2}
  Exporters = {push, scrape}
  Updater = timer
  Series = {s1}
  MaxRecords = 2
  MaxUpdates = 1
  NoOne = NoOne
SPECIFICATION FairSpec
\* when the bounds are reached and nobody exports
CHECK_DEADLOCK FALSE
INVARIANTS RegisteredOnce GaugesOfThisTime
PROPERTY CallsReturn

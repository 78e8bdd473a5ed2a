CONSTANTS
  server = server
  scheduler = scheduler
  wal = wal
  adapter = adapter
  normalizer = normalizer
  observability = observability
  Components = {server, scheduler, wal, adapter, normalizer, observability}
  Priority <- Priorities
  Flushing = {wal, adapter}
  Heeding <- HeedingCalls
  Failing <- FailingCalls
  Timeout = 4
  NoComponent = NoComponent
SPECIFICATION FairSpec
\* after Shutdown the process ends
CHECK_DEADLOCK FALSE
INVARIANT OneSlowIsHarmless
PROPERTIES InOrder ShutdownEnds

----------------------------- MODULE MCShutdown -----------------------------
(* The six components of main, with the calls of theirs that heed their    *)
(* context and those that may return an error.                              *)
EXTENDS Shutdown

CONSTANTS server, scheduler, wal, adapter, normalizer, observability

Priorities ==
  [c \in Components |->
     CASE c = server -> 1 [] c = scheduler -> 2 [] c = wal -> 3
       [] c = adapter -> 4 [] c = normalizer -> 5 [] c = observability -> 6]

HeedingCalls ==
  {<<server, "stop">>, <<adapter, "flush">>, <<observability, "stop">>}
FailingCalls == {<<server, "stop">>, <<wal, "flush">>}
=============================================================================

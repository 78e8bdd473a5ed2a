---------------------------- MODULE MCScheduler ----------------------------
(* Small instances of Scheduler.  j1 and j2 are ordinary jobs of different  *)
(* periods, j3 one whose protocol has no probe.                             *)
EXTENDS Scheduler

CONSTANTS j1, j2, j3

DistinctIds == [j \in Jobs |-> j]
OneId       == [j \in Jobs |-> j1]
Periods     == [j \in Jobs |-> IF j = j1 THEN 1 ELSE 2]
=============================================================================

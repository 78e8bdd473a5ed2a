----------------------------- MODULE ProbeCycle -----------------------------
(***************************************************************************)
(* What the scheduler and its worker pool promise for each target, with no *)
(* heap, channel, semaphore or clock: a scheduled job waits, is probed by  *)
(* one worker, and waits again; a job whose protocol has no probe is given *)
(* up.  Never more than Capacity jobs are probed at a time.                *)
(***************************************************************************)
EXTENDS Naturals, FiniteSets

CONSTANTS Jobs,         \* the jobs main builds from the configured targets
          Unsupported,  \* those whose protocol the probe factory refuses
          Capacity      \* workers

VARIABLES waiting,      \* jobs scheduled and not with a worker
          probing       \* jobs with a worker

cycleVars == <<waiting, probing>>

CycleInit == waiting = {} /\ probing = {}

Admit(j) ==
  /\ j \in Jobs \ (waiting \cup probing)
  /\ waiting' = waiting \cup {j}
  /\ UNCHANGED probing

Take(j) ==
  /\ j \in waiting
  /\ Cardinality(probing) < Capacity
  /\ waiting' = waiting \ {j}
  /\ probing' = probing \cup {j}

Return(j) ==
  /\ j \in probing
  /\ probing' = probing \ {j}
  /\ waiting' = waiting \cup {j}

GiveUp(j) ==
  /\ j \in probing \cap Unsupported
  /\ probing' = probing \ {j}
  /\ UNCHANGED waiting

CycleNext == \E j \in Jobs : Admit(j) \/ Take(j) \/ Return(j) \/ GiveUp(j)

CycleSpec == CycleInit /\ [][CycleNext]_cycleVars
=============================================================================

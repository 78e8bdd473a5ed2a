------------------------------ MODULE ProbeRun ------------------------------
(***************************************************************************)
(* What a probe promises to the worker that runs it, whatever it does on   *)
(* the network: it returns, with one of the results its protocol has in    *)
(* Probes, and then lets itself be closed.                                 *)
(***************************************************************************)
EXTENDS Probes

CONSTANTS
  Workers,
  Asked  \* targets they may be asked to probe

NoResult == Failed(0, "none", Unset)

VARIABLES
  phase,   \* of each worker: "idle", "running", "returned"
  target,  \* what its last probe was for
  result   \* of its last probe

vars == <<phase, target, result>>

Init ==
  /\ phase = [w \in Workers |-> "idle"]
  /\ target \in [Workers -> Asked]
  /\ result = [w \in Workers |-> NoResult]

Start(w) ==
  /\ phase[w] = "idle"
  /\ phase' = [phase EXCEPT ![w] = "running"]
  /\ \E t \in Asked : target' = [target EXCEPT ![w] = t]
  /\ UNCHANGED result

Return(w) ==
  /\ phase[w] = "running"
  /\ phase' = [phase EXCEPT ![w] = "returned"]
  /\ \E r \in Execute(target[w]) : result' = [result EXCEPT ![w] = r]
  /\ UNCHANGED target

Close(w) ==
  /\ phase[w] = "returned"
  /\ phase' = [phase EXCEPT ![w] = "idle"]
  /\ UNCHANGED <<target, result>>

Next == \E w \in Workers : Start(w) \/ Return(w) \/ Close(w)
Fairness == \A w \in Workers : WF_vars(Return(w)) /\ WF_vars(Close(w))
Safety == Init /\ [][Next]_vars
Spec == Safety /\ Fairness
=============================================================================

----------------------------- MODULE RecordLog -----------------------------
(***************************************************************************)
(* What the write-ahead log promises its callers, with no files, segments  *)
(* or clocks: a record is pending from the moment Write returned nil until *)
(* the moment MarkSent returned nil, and nothing but MarkSent ends that.   *)
(* A restart of the process hands out exactly the pending records          *)
(* (WALManager.GetUnsentRecords), so a crash is a stuttering step here.    *)
(***************************************************************************)
CONSTANT Records            \* the records the probes will ever produce

VARIABLES pending,          \* written, not yet reported as sent
          done              \* reported as sent: never handed out again

logVars == <<pending, done>>

LogInit == pending = {} /\ done = {}

Append(r) ==
  /\ r \in Records \ (pending \cup done)
  /\ pending' = pending \cup {r}
  /\ UNCHANGED done

Settle(r) ==
  /\ r \in pending
  /\ pending' = pending \ {r}
  /\ done' = done \cup {r}

LogNext == \E r \in Records : Append(r) \/ Settle(r)

LogSpec == LogInit /\ [][LogNext]_logVars
=============================================================================

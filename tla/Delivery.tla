------------------------------ MODULE Delivery ------------------------------
(***************************************************************************)
(* The way of a probe result to VictoriaMetrics: executeProbe and          *)
(* replayWALRecords of cmd/vmprober/main.go, between the write-ahead log   *)
(* (through its promise, RecordLog) and the adapter (Adapter, in detail).  *)
(*                                                                         *)
(* A result is written to the log, pushed, and marked as sent as soon as   *)
(* Push returned nil, which it does when the slice is queued.  The log     *)
(* outlives the process, what the adapter carries does not.  After a       *)
(* restart the replay goroutine pushes what the log still has pending,     *)
(* while new results keep coming in.                                       *)
(*                                                                         *)
(* Slices here are pairs of a record and the goroutine that pushes it.     *)
(***************************************************************************)
EXTENDS Adapter

CONSTANTS
  Records,   \* probe results
  Faults     \* what may happen: a subset of FaultKinds

\* "crash":  the process ends without a shutdown
\* "outage": a post fails
\* "stop":   the operator stops the process
FaultKinds == {"crash", "outage", "stop"}

Callers == {"probe", "replay"}

ASSUME DeliveryAssumption ==
  /\ Slices = Records \X Callers
  /\ Faults \subseteq FaultKinds

VARIABLES
  pending,   \* records of the log that are not marked as sent
  done,      \* records of the log that are
  up,        \* is the process running?
  logOpen,   \* has the log not been closed yet?
  probe,     \* progress of the goroutine that probes for each record
  replay,    \* progress of the replay goroutine
  left,      \* records it has still to handle
  delivered  \* records an endpoint has confirmed, in this process or an earlier one

logged  == <<pending, done>>
callers == <<probe, replay, left>>
process == <<up, logOpen, callers>>
around  == <<logged, process, delivered>>

Log == INSTANCE RecordLog

ProbeOf(r)  == <<r, "probe">>
ReplayOf(r) == <<r, "replay">>

DeliveryInit ==
  /\ Init
  /\ Log!LogInit
  /\ up = TRUE
  /\ logOpen = TRUE
  /\ probe = [r \in Records |-> "idle"]
  /\ replay = "starting"
  /\ left = {}
  /\ delivered = {}

Running == up /\ ~panicked

-----------------------------------------------------------------------------
(* executeProbe *)

\* The result is written to the log, and pushed even if that failed.
ProbeWrites(r) ==
  /\ Running
  /\ probe[r] = "idle"
  /\ probe' = [probe EXCEPT ![r] = "pushing"]
  /\ IF logOpen THEN Log!Append(r) ELSE UNCHANGED logged
  /\ UNCHANGED <<vars, up, logOpen, replay, left, delivered>>

\* MarkSent; a record that is marked already, or that is not in the log, stays so.
Settled(r) == IF r \in pending THEN Log!Settle(r) ELSE UNCHANGED logged

\* Has Push returned, and has it returned nil?  Mutant: its error is ignored.
PushOver(i) == push[i] \in {"accepted", "rejected"}
ErrorIgnored(i) == PushOver(i)
PushAccepted(i) == push[i] = "accepted"

ProbeMarks(r) ==
  /\ Running
  /\ probe[r] = "pushing"
  /\ PushOver(ProbeOf(r))
  /\ probe' = [probe EXCEPT ![r] = "ended"]
  /\ IF PushAccepted(ProbeOf(r)) THEN Settled(r) ELSE UNCHANGED logged
  /\ UNCHANGED <<vars, up, logOpen, replay, left, delivered>>

-----------------------------------------------------------------------------
(* replayWALRecords *)

\* The records the replay goroutine asks the log for; mutant: none.
NothingUnsent == {}
Unsent == pending

ReplayReads ==
  /\ Running
  /\ replay = "starting"
  /\ left' = Unsent
  /\ replay' = "running"
  /\ UNCHANGED <<vars, logged, up, logOpen, probe, delivered>>

\* The record it is at: it goes on to another only when this one is handled.
ReplayTurn(r) ==
  /\ replay = "running"
  /\ r \in left
  /\ \A q \in left \ {r} : push[ReplayOf(q)] = "new"

\* A record that could not be pushed stays pending until the next start.
ReplayMarks(r) ==
  /\ Running
  /\ ReplayTurn(r)
  /\ PushOver(ReplayOf(r))
  /\ left' = left \ {r}
  /\ IF PushAccepted(ReplayOf(r)) THEN Settled(r) ELSE UNCHANGED logged
  /\ UNCHANGED <<vars, up, logOpen, probe, replay, delivered>>

ReplayEnds ==
  /\ Running
  /\ replay = "running" /\ left = {}
  /\ replay' = "ended"
  /\ UNCHANGED <<vars, logged, up, logOpen, probe, left, delivered>>

-----------------------------------------------------------------------------
(* The adapter, called by these goroutines and by the shutdown *)

Called(i) ==
  IF i[2] = "probe" THEN probe[i[1]] = "pushing" ELSE ReplayTurn(i[1])

Pushes(i) == up /\ Called(i) /\ Pushing(i) /\ UNCHANGED around

\* Without outages every post succeeds.
PostAllowed(ok) == ok \/ "outage" \in Faults

\* What an endpoint has confirmed it keeps.
Remembered == delivered' = delivered \cup {i[1] : i \in {p[1] : p \in answered'}}

SendStep ==
  /\ up
  /\ \E s \in Senders, e \in Endpoints, ok \in BOOLEAN : PostAllowed(ok) /\ Post(s, e, ok)
  /\ Remembered
  /\ UNCHANGED <<logged, process>>

RetryStep ==
  /\ up
  /\ \/ RetryTake \/ RetryInterrupted \/ RetryDrained
     \/ \E ok \in BOOLEAN : PostAllowed(ok) /\ RetryPost(ok)
  /\ Remembered
  /\ UNCHANGED <<logged, process>>

WorkStep(w) == up /\ Working(w) /\ UNCHANGED around

\* The shutdown closes the log before it flushes and stops the adapter.
LogCloses ==
  /\ Running
  /\ "stop" \in Faults
  /\ logOpen
  /\ logOpen' = FALSE
  /\ UNCHANGED <<vars, logged, up, callers, delivered>>

FlushStarts == up /\ ~logOpen /\ FlushBegin /\ UNCHANGED around
StopStep    == up /\ Stopping /\ UNCHANGED around

-----------------------------------------------------------------------------
(* The end of the process and the next start *)

MayEnd == "crash" \in Faults \/ panicked \/ shut = "stopped"

\* The adapter's memory is gone.
Forgets ==
  /\ push' = [i \in Slices |-> "new"]
  /\ queue' = <<>>
  /\ \E zero \in ZeroTimeouts : wpc' = WorkersAt(zero)
  /\ batch' = [s \in Senders |-> {}]
  /\ todo' = [s \in Senders |-> {}]
  /\ reached' = [s \in Senders |-> FALSE]
  /\ retryQueue' = <<>>
  /\ held' = <<>>
  /\ retrying' = TRUE
  /\ shut' = "no"
  /\ panicked' = FALSE
  /\ answered' = {} /\ abandoned' = {}
  /\ tries' = [p \in Pairs |-> 0]

Ends ==
  /\ up
  /\ MayEnd
  /\ up' = FALSE
  /\ logOpen' = TRUE
  /\ probe' = [r \in Records |-> IF probe[r] = "pushing" THEN "ended" ELSE probe[r]]
  /\ replay' = "starting"
  /\ left' = {}
  /\ Forgets
  /\ UNCHANGED <<logged, delivered>>

Starts ==
  /\ ~up
  /\ up' = TRUE
  /\ UNCHANGED <<vars, logged, logOpen, callers, delivered>>

-----------------------------------------------------------------------------
Probing(r) == ProbeWrites(r) \/ ProbeMarks(r)
Replaying == ReplayReads \/ (\E r \in Records : ReplayMarks(r)) \/ ReplayEnds

DeliveryNext ==
  \/ \E r \in Records : Probing(r)
  \/ Replaying
  \/ \E i \in Slices : Pushes(i)
  \/ SendStep \/ RetryStep
  \/ \E w \in Workers : WorkStep(w)
  \/ LogCloses \/ FlushStarts \/ StopStep
  \/ Ends \/ Starts

allVars == <<vars, around>>

DeliverySpec == DeliveryInit /\ [][DeliveryNext]_allVars

\* The goroutines of a running process go on; probing, stopping, crashing and
\* starting are up to others.
DeliveryFairSpec ==
  /\ DeliverySpec
  /\ WF_allVars(Replaying)
  /\ \A r \in Records : WF_allVars(ProbeMarks(r))
  /\ \A i \in Slices : WF_allVars(Pushes(i))
  /\ WF_allVars(SendStep) /\ WF_allVars(RetryStep)
  /\ \A w \in Workers : WF_allVars(WorkStep(w))

-----------------------------------------------------------------------------
(* Properties *)

\* The running adapter carries the record.
Carried(r) ==
  /\ Running
  /\ \E c \in Callers, e \in Endpoints :
       InQueue(<<r, c>>) # {} \/ Carriers(<<r, c>>, e) # {}
       \/ InRetry(<<r, c>>, e) # {} \/ InHand(<<r, c>>, e) # {}

\* A record that was ever written to the log is pending there, on its way in the
\* running process, or with an endpoint.
NotLost == \A r \in done : r \in delivered \/ Carried(r)

\* Where no process crashes or is stopped, only an outage of every endpoint loses a
\* record: a push of it was accepted, and then given up at all of them.
LostByOutageOnly ==
  \A r \in done :
    \/ r \in delivered \/ Carried(r)
    \/ \E c \in Callers : /\ push[<<r, c>>] = "accepted"
                          /\ \A e \in Endpoints : <<<<r, c>>, e>> \in abandoned

\* Carried no more and not delivered either: an endpoint was given up, or the
\* process ended.
GivenUp(r) == \E c \in Callers, e \in Endpoints : <<<<r, c>>, e>> \in abandoned' \ abandoned
LostOnlyThus ==
  [][\A r \in Records : Carried(r) /\ ~Carried(r)' =>
       r \in delivered' \/ GivenUp(r) \/ ~Running']_allVars

\* Only an accepted push settles a record: what a restart does not replay was at
\* least queued.  (While its process runs: a new process forgets its pushes.)
SettledWasAccepted ==
  [][\A r \in done' \ done : \E c \in Callers : push[<<r, c>>] = "accepted"]_allVars

\* What a start finds pending is settled, unless the process ends, its pushes
\* are refused, or it is being stopped.
Excused(r) == ~Running \/ shut # "no" \/ push[ReplayOf(r)] = "rejected"
Replays ==
  \A r \in Records : (Running /\ replay = "starting" /\ r \in pending) ~>
                       (r \in done \/ Excused(r))

-----------------------------------------------------------------------------
(* Why nothing is lost without faults, and what is by outages alone *)

\* Nothing ends the process or stops the adapter: what is settled was accepted, what
\* an endpoint answered is delivered, and nothing is given up if no endpoint fails.
NotLostInv ==
  /\ AdapterInv
  /\ Running /\ logOpen /\ shut = "no"
  /\ Faults = {} => abandoned = {}
  /\ \A r \in done : r \in Records /\ \E c \in Callers : push[<<r, c>>] = "accepted"
  /\ \A p \in answered : p[1][1] \in delivered
=============================================================================

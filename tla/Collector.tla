------------------------------ MODULE Collector ------------------------------
(***************************************************************************)
(* The metrics collector (internal/metrics/collector.go) and the           *)
(* goroutines that use it: workers record results (Record), a timer of     *)
(* main copies the scheduler's statistics (UpdateJobMetrics), and the push *)
(* loop (ExportMetrics) and any request of /metrics write all metrics out, *)
(* which calls back into the collector for each of the three job gauges.   *)
(*                                                                         *)
(* Writers and callbacks share the RWMutex c.mu, by Go's contract: a       *)
(* writer that waits for readers keeps new readers out, and the readers it *)
(* kept out enter when it unlocks, before the next writer.                 *)
(*                                                                         *)
(* A counter has a name, a kind and a series of labels; the RTT histogram  *)
(* goes with the success counter.  Registering a name twice panics.  An    *)
(* export reads counters without the mutex; only its gauges are modelled.  *)
(***************************************************************************)
EXTENDS Integers, FiniteSets

CONSTANTS
  Recorders,    \* workers
  Exporters,    \* the push loop and requests of /metrics
  Updater,      \* main's timer
  Series,
  MaxRecords, MaxUpdates,   \* bounds
  NoOne

Writers == Recorders \cup {Updater}
Procs == Writers \cup Exporters
Outcomes == {"success", "failure"}
Names == ({"attempts"} \cup Outcomes) \X Series

\* The order in which UpdateJobMetrics assigns the gauges; names are written out
\* in alphabetical order, which is the reverse.
Gauges == <<"total", "running", "failed">>
Exported == <<"failed", "running", "total">>
GaugeNames == {"total", "running", "failed"}

ASSUME CollectorAssumption ==
  /\ Updater \notin Recorders /\ Exporters \cap Writers = {}
  /\ NoOne \notin Procs
  /\ MaxRecords \in Nat /\ MaxUpdates \in Nat

VARIABLES
  pc,         \* where a goroutine is: "idle" when in none of the calls
  at,         \* which counter or gauge it is at
  writer,     \* the writer that has the mutex or waits for its readers
  held,       \* how many read locks a goroutine holds
  probe,      \* the series and the outcome a worker records
  registered, \* the names in the maps of the collector
  count,      \* the counters
  gauge,      \* jobsTotalValue, jobsRunningValue, jobsFailedValue: the update they are of
  updates,    \* how many calls of UpdateJobMetrics returned
  sample,     \* the gauges an export has read
  since,      \* history: updates when an export began
  panicked    \* a name was registered twice

vars == <<pc, at, writer, held, probe, registered, count, gauge, updates, sample, since, panicked>>

Records == Series \X Outcomes
NoProbe == CHOOSE r \in Records : TRUE

Init ==
  /\ pc = [p \in Procs |-> "idle"] /\ at = [p \in Procs |-> 1]
  /\ writer = NoOne /\ held = [p \in Procs |-> 0]
  /\ probe = [p \in Recorders |-> NoProbe]
  /\ registered = {} /\ count = [n \in Names |-> 0]
  /\ gauge = [g \in GaugeNames |-> 0] /\ updates = 0
  /\ sample = [p \in Exporters |-> [g \in GaugeNames |-> 0]]
  /\ since = [p \in Exporters |-> 0]
  /\ panicked = FALSE

Goto(p, l) == pc' = [pc EXCEPT ![p] = l]

-----------------------------------------------------------------------------
(* The mutex *)

\* Lock: no other writer.  Mutant: Record takes no lock.
Unguarded == TRUE
Free == writer = NoOne

Announce(p) ==
  /\ pc[p] = "lock" /\ Free
  /\ writer' = p
  /\ Goto(p, "drain")
  /\ UNCHANGED <<at, held, probe, registered, count, gauge, updates, sample, since, panicked>>

Drained(p) ==
  /\ pc[p] = "drain"
  /\ \A q \in Procs : held[q] = 0
  /\ Goto(p, IF p = Updater THEN "set" ELSE "find")
  /\ UNCHANGED <<at, writer, held, probe, registered, count, gauge, updates, sample, since,
                 panicked>>

\* Unlock lets in the readers that wait.
Unlock(p) ==
  LET let_in == {q \in Exporters : pc[q] = "rwait"} IN
  /\ writer' = NoOne
  /\ pc' = [q \in Procs |-> IF q = p THEN "idle" ELSE IF q \in let_in THEN "read" ELSE pc[q]]
  /\ held' = [q \in Procs |-> IF q \in let_in THEN held[q] + 1 ELSE held[q]]
  /\ at' = [at EXCEPT ![p] = 1]

\* RLock: no writer has the mutex or waits for it.
MayRead == writer = NoOne

RLock(p) ==
  /\ pc[p] = "rlock"
  /\ IF MayRead
       THEN Goto(p, "read") /\ held' = [held EXCEPT ![p] = @ + 1]
       ELSE Goto(p, "rwait") /\ UNCHANGED held
  /\ UNCHANGED <<at, writer, probe, registered, count, gauge, updates, sample, since, panicked>>

-----------------------------------------------------------------------------
(* Record *)

Recorded(s) == count[<<"attempts", s>>]
Waiting(s) == Cardinality({p \in Recorders : pc[p] # "idle" /\ at[p] = 1 /\ probe[p][1] = s})

Record(p, r) ==
  /\ pc[p] = "idle"
  /\ Recorded(r[1]) + Waiting(r[1]) < MaxRecords
  /\ probe' = [probe EXCEPT ![p] = r]
  /\ Goto(p, "lock")
  /\ UNCHANGED <<at, writer, held, registered, count, gauge, updates, sample, since, panicked>>

NameOf(p) == <<IF at[p] = 1 THEN "attempts" ELSE probe[p][2], probe[p][1]>>

\* getOrCreateCounter and its three siblings.
Find(p) ==
  /\ pc[p] = "find"
  /\ Goto(p, IF NameOf(p) \in registered THEN "add" ELSE "create")
  /\ UNCHANGED <<at, writer, held, probe, registered, count, gauge, updates, sample, since,
                 panicked>>

Create(p) ==
  /\ pc[p] = "create"
  /\ panicked' = (panicked \/ NameOf(p) \in registered)
  /\ registered' = registered \cup {NameOf(p)}
  /\ Goto(p, "add")
  /\ UNCHANGED <<at, writer, held, probe, count, gauge, updates, sample, since>>

\* The attempt is counted, then its outcome.
Add(p) ==
  /\ pc[p] = "add"
  /\ count' = [count EXCEPT ![NameOf(p)] = @ + 1]
  /\ IF at[p] = 1
       THEN /\ at' = [at EXCEPT ![p] = 2] /\ Goto(p, "find")
            /\ UNCHANGED <<writer, held, probe>>
       ELSE Unlock(p) /\ probe' = [probe EXCEPT ![p] = NoProbe]
  /\ UNCHANGED <<registered, gauge, updates, sample, since, panicked>>

-----------------------------------------------------------------------------
(* UpdateJobMetrics *)

Update ==
  /\ pc[Updater] = "idle" /\ updates < MaxUpdates
  /\ Goto(Updater, "lock")
  /\ UNCHANGED <<at, writer, held, probe, registered, count, gauge, updates, sample, since,
                 panicked>>

\* It assigns all three; mutant: the failed jobs are forgotten.
NotTheFailed == {1, 2}
Assigned == {1, 2, 3}

Set ==
  /\ pc[Updater] = "set"
  /\ gauge' = IF at[Updater] \in Assigned
                THEN [gauge EXCEPT ![Gauges[at[Updater]]] = updates + 1] ELSE gauge
  /\ IF at[Updater] < 3
       THEN at' = [at EXCEPT ![Updater] = @ + 1] /\ UNCHANGED <<pc, writer, held, updates>>
       ELSE Unlock(Updater) /\ updates' = updates + 1
  /\ UNCHANGED <<probe, registered, count, sample, since, panicked>>

-----------------------------------------------------------------------------
(* ExportMetrics *)

\* It must not hold the mutex; mutant: it holds a read lock.
ReadLocked == 1
HeldByExport == 0

Export(p) ==
  /\ pc[p] = "idle"
  /\ HeldByExport > 0 => writer = NoOne
  /\ held' = [held EXCEPT ![p] = HeldByExport]
  /\ since' = [since EXCEPT ![p] = updates]
  /\ Goto(p, "rlock")
  /\ UNCHANGED <<at, writer, probe, registered, count, gauge, updates, sample, panicked>>

\* A callback reads its gauge and unlocks; after the third the export is done.
Read(p) ==
  LET g == Exported[at[p]] IN
  /\ pc[p] = "read"
  /\ sample' = [sample EXCEPT ![p][g] = gauge[g]]
  /\ held' = [held EXCEPT ![p] = @ - 1]
  /\ at' = [at EXCEPT ![p] = @ + 1]
  /\ Goto(p, IF at[p] < 3 THEN "rlock" ELSE "done")
  /\ UNCHANGED <<writer, probe, registered, count, gauge, updates, since, panicked>>

Pushed(p) ==
  /\ pc[p] = "done"
  /\ Goto(p, "idle") /\ at' = [at EXCEPT ![p] = 1]
  /\ held' = [held EXCEPT ![p] = 0]
  /\ sample' = [sample EXCEPT ![p] = [g \in GaugeNames |-> 0]]
  /\ since' = [since EXCEPT ![p] = 0]
  /\ UNCHANGED <<writer, probe, registered, count, gauge, updates, panicked>>

-----------------------------------------------------------------------------
Step(p) ==
  \/ p \in Writers /\ (Announce(p) \/ Drained(p))
  \/ p \in Recorders /\ (Find(p) \/ Create(p) \/ Add(p))
  \/ p = Updater /\ Set
  \/ p \in Exporters /\ (RLock(p) \/ Read(p) \/ Pushed(p))

Next ==
  \/ \E p \in Recorders, r \in Records : Record(p, r)
  \/ Update
  \/ \E p \in Exporters : Export(p)
  \/ \E p \in Procs : Step(p)

Spec == Init /\ [][Next]_vars

\* A goroutine that can go on does.  A writer is not passed over for ever by others:
\* Go hands a mutex to a goroutine that waited long.
FairSpec ==
  /\ Spec
  /\ \A p \in Procs : WF_vars(Step(p))
  /\ \A p \in Writers : SF_vars(Announce(p))

-----------------------------------------------------------------------------
(* Properties *)

\* No two workers register one name, however they interleave at the first results
\* of a series: the library would panic.
RegisteredOnce == ~panicked

\* The gauges of an export are no older than the last update before it began, and
\* of the gauges it reads, a later one is of the same update or of a later one.
GaugesOfThisTime ==
  \A p \in Exporters : \A i \in 1..(at[p] - 1) :
    /\ sample[p][Exported[i]] >= since[p]
    /\ \A j \in 1..i : sample[p][Exported[j]] <= sample[p][Exported[i]]

\* Every call of the collector returns: an exporter and a writer never wait for each
\* other, although the export calls back into the mutex.
CallsReturn == \A p \in Procs : pc[p] # "idle" ~> pc[p] = "idle"

\* What CallsReturn rests on: a goroutine that has to wait for the mutex waits for one
\* that has it, as the writer or as a reader, and can go on.
MayGo(p) ==
  /\ pc[p] \notin {"idle", "rwait"}
  /\ pc[p] = "lock" => Free
  /\ pc[p] = "drain" => \A q \in Procs : held[q] = 0
NoneStuck ==
  \A p \in Procs : pc[p] # "idle" =>
    MayGo(p) \/ \E q \in Procs : MayGo(q) /\ (q = writer \/ held[q] > 0)

-----------------------------------------------------------------------------
(* Why they hold *)

Places ==
  /\ pc \in [Procs -> {"idle", "lock", "drain", "find", "create", "add", "set",
                       "rlock", "rwait", "read", "done"}]
  /\ \A p \in Recorders : pc[p] \in {"idle", "lock", "drain", "find", "create", "add"}
  /\ pc[Updater] \in {"idle", "lock", "drain", "set"}
  /\ \A p \in Exporters : pc[p] \in {"idle", "rlock", "rwait", "read", "done"}
  /\ at \in [Procs -> 1..4]
  /\ at[Updater] <= 3 /\ (pc[Updater] # "set" => at[Updater] = 1)
  /\ \A p \in Exporters : /\ pc[p] = "idle" => at[p] = 1
                          /\ pc[p] \in {"rlock", "rwait", "read"} => at[p] <= 3

Values ==
  /\ held \in [Procs -> Nat]
  /\ probe \in [Recorders -> Records \cup {NoProbe}]
  /\ gauge \in [GaugeNames -> Nat] /\ updates \in Nat
  /\ sample \in [Exporters -> [GaugeNames -> Nat]]
  /\ since \in [Exporters -> Nat]

\* The mutex is one writer's, or that of the callbacks that read.
Exclusive ==
  /\ \A p \in Procs : held[p] = IF pc[p] = "read" THEN 1 ELSE 0
  /\ \A p \in Writers : pc[p] \in {"drain", "find", "create", "add", "set"} => writer = p
  /\ \A p \in Writers : pc[p] \in {"find", "create", "add", "set"} =>
       \A q \in Procs : held[q] = 0

\* Who has the mutex as its writer, or keeps readers out, is in its call; callbacks
\* wait for such a one only.
WriterWrites ==
  writer # NoOne => /\ writer \in Writers
                    /\ pc[writer] \in {"drain", "find", "create", "add", "set"}
KeptOut == \A p \in Exporters : pc[p] = "rwait" => writer # NoOne

\* What a worker is about to create is not there.
CreatesNew == \A p \in Recorders : pc[p] = "create" => NameOf(p) \notin registered

\* Between two updates, all gauges are of the last.
GaugesUpToDate ==
  \A k \in 1..3 : gauge[Gauges[k]] = updates + (IF k < at[Updater] THEN 1 ELSE 0)

\* No gauge is of an update that has not returned.
NoneAhead ==
  \A p \in Exporters : /\ since[p] <= updates
                       /\ \A i \in 1..(at[p] - 1) : sample[p][Exported[i]] <= updates

CollectorInv ==
  /\ Places /\ Values
  /\ Exclusive
  /\ RegisteredOnce /\ CreatesNew
  /\ GaugesUpToDate /\ NoneAhead /\ GaugesOfThisTime
=============================================================================

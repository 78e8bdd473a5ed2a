------------------------------ MODULE Scheduler ------------------------------
(***************************************************************************)
(* The scheduler (internal/scheduler) and the worker pool around it (the   *)
(* dispatcher goroutine and executeProbe of cmd/vmprober/main.go).         *)
(*                                                                         *)
(* A job is a pointer.  Its ID is built from host, port and protocol, so   *)
(* two jobs of a configuration may share one; allJobs then knows only the  *)
(* last.  processJobs holds s.mu during its whole loop, in which each      *)
(* non-blocking send races with the dispatcher, so the loop is one action  *)
(* per iteration and mu says whether it is running.  Every other method of *)
(* the scheduler is one critical section and one action.                   *)
(*                                                                         *)
(* container/heap is used by its contract: the root is a minimum as long   *)
(* as no key in the heap changes (ordered); after such a change it is any  *)
(* element, until the heap is down to one.                                 *)
(*                                                                         *)
(* NextRun is kept relative to the clock, in seconds: positive is in the   *)
(* future, 0 is now, and overdue jobs are ranked -1, -2, ... by age, which *)
(* is all that the heap compares.  The clock unit is the period of the     *)
(* scheduler's ticker.  The loop reads the clock once, so the clock does   *)
(* not advance during it.                                                  *)
(***************************************************************************)
EXTENDS Integers, Sequences, FiniteSets, SequencesExt

CONSTANTS
  Jobs,         \* the jobs main builds from the configured targets
  Ids,          \* job IDs
  IdOf,         \* the ID of each job
  Period,       \* the interval of each job, in seconds
  ChanCap,      \* capacity of jobChan
  Slots,        \* slots of the probe semaphore (scheduler.concurrent)
  Unsupported,  \* jobs whose protocol the probe factory refuses
  NoJob

ASSUME SchedulerAssumption ==
  /\ IsFiniteSet(Jobs) /\ IsFiniteSet(Slots) /\ Slots # {}
  /\ IdOf \in [Jobs -> Ids]
  /\ Period \in [Jobs -> Nat \ {0}]
  /\ ChanCap \in Nat \ {0}
  /\ Unsupported \subseteq Jobs
  /\ NoJob \notin Jobs

VARIABLES
  fresh,      \* jobs main has not scheduled yet
  heap,       \* how often each job is in s.jobs
  ordered,    \* is the heap order intact?
  stored,     \* s.allJobs
  nextRun,    \* NextRun of each job, relative to the clock
  interval,   \* Interval of each job
  jobChan,    \* the channel to the dispatcher
  ticked,     \* the ticker has fired and run has not received it
  mu,         \* "free", or "loop" while processJobs holds s.mu
  stopping,   \* "no", "cancelled", or "stopped" once Stop returned
  hand,       \* the job the dispatcher waits to start
  pc,         \* what each semaphore slot's goroutine does next
  work,       \* the job it works on
  totalJobs, queuedJobs, runningJobs   \* s.stats

heapVars == <<heap, ordered, stored, nextRun, interval>>
poolVars == <<hand, pc, work>>
loopVars == <<ticked, mu, stopping>>
stats    == <<totalJobs, queuedJobs, runningJobs>>
vars     == <<fresh, heapVars, jobChan, loopVars, poolVars, stats>>

-----------------------------------------------------------------------------
(* The heap *)

Queued == {j \in Jobs : heap[j] > 0}

\* The jobs heap.Peek may return; mutant: it returns any of them.
AnyQueued == Queued
Roots == IF ordered THEN {j \in Queued : \A k \in Queued : nextRun[j] <= nextRun[k]}
                    ELSE Queued

\* The order survives a step unless the step changes the key of a job that
\* stays in the heap; a heap of one job is ordered.
KeepsOrder(h, key) ==
  \/ \A j, k \in Jobs : h[j] > 0 /\ h[k] > 0 => j = k
  \/ ordered /\ \A j \in Queued : h[j] > 0 => key[j] = nextRun[j]

\* heap.Push and heap.Pop; mutant: the root is looked at and not removed.
Pushed(j) == [heap EXCEPT ![j] = @ + 1]
PeekedOnly(j) == heap
Popped(j) == [heap EXCEPT ![j] = @ - 1]

\* Jobs whose NextRun will be compared again before it is overwritten
Compared == Queued \cup {work[s] : s \in {t \in Slots : pc[t] = "rescheduling"}}

\* NextRun one second later, overdue jobs ranked by age
Aged ==
  LET later == [j \in Jobs |-> IF j \in Compared THEN nextRun[j] - 1 ELSE nextRun[j]]
      past  == {later[j] : j \in {k \in Compared : later[k] < 0}}
  IN  [j \in Jobs |->
         IF j \in Compared /\ later[j] < 0
         THEN -1 - Cardinality({v \in past : v > later[j]})
         ELSE later[j]]

-----------------------------------------------------------------------------
PCs == {"free", "starting", "probing", "stamping", "rescheduling", "releasing"}

TypeOK ==
  /\ fresh \subseteq Jobs
  /\ heap \in [Jobs -> Nat]
  /\ ordered \in BOOLEAN
  /\ stored \in [Ids -> Jobs \cup {NoJob}]
  /\ nextRun \in [Jobs -> Int]
  /\ interval \in [Jobs -> Nat \ {0}]
  /\ jobChan \in Seq(Jobs) /\ Len(jobChan) <= ChanCap
  /\ ticked \in BOOLEAN
  /\ mu \in {"free", "loop"}
  /\ stopping \in {"no", "cancelled", "stopped"}
  /\ hand \in Jobs \cup {NoJob}
  /\ pc \in [Slots -> PCs]
  /\ work \in [Slots -> Jobs \cup {NoJob}]
  /\ \A s \in Slots : work[s] = NoJob <=> pc[s] = "free"
  /\ totalJobs \in Nat /\ queuedJobs \in Int /\ runningJobs \in Nat

Init ==
  /\ fresh = Jobs
  /\ heap = [j \in Jobs |-> 0]
  /\ ordered = TRUE
  /\ stored = [i \in Ids |-> NoJob]
  /\ nextRun = [j \in Jobs |-> 0]
  /\ interval = Period
  /\ jobChan = <<>>
  /\ ticked = FALSE
  /\ mu = "free"
  /\ stopping = "no"
  /\ hand = NoJob
  /\ pc = [s \in Slots |-> "free"]
  /\ work = [s \in Slots |-> NoJob]
  /\ totalJobs = 0 /\ queuedJobs = 0 /\ runningJobs = 0

-----------------------------------------------------------------------------
(* The clock and the ticker of run *)

Tick ==
  /\ mu = "free"
  /\ nextRun' = Aged
  /\ ticked' = TRUE
  /\ UNCHANGED <<fresh, heap, ordered, stored, interval, jobChan, mu, stopping,
                 poolVars, stats>>

-----------------------------------------------------------------------------
(* The scheduler *)

\* Schedule, called by main for every job of the configuration, due at once
Schedule(j) ==
  LET key == [nextRun EXCEPT ![j] = 0]
  IN
  /\ mu = "free"
  /\ j \in fresh
  /\ fresh' = fresh \ {j}
  /\ nextRun' = key
  /\ totalJobs' = IF stored[IdOf[j]] = NoJob THEN totalJobs + 1 ELSE totalJobs
  /\ stored' = [stored EXCEPT ![IdOf[j]] = j]
  /\ heap' = Pushed(j)
  /\ ordered' = KeepsOrder(Pushed(j), key)
  /\ queuedJobs' = queuedJobs + 1
  /\ UNCHANGED <<interval, jobChan, loopVars, poolVars, runningJobs>>

\* run receives a tick and calls processJobs.  After Stop cancelled the context
\* the select may still prefer the tick.
LoopBegin ==
  /\ ticked /\ mu = "free" /\ stopping # "stopped"
  /\ ticked' = FALSE
  /\ mu' = "loop"
  /\ UNCHANGED <<fresh, heapVars, jobChan, stopping, poolVars, stats>>

\* The root is due: its NextRun is copied to the stored job of its ID.
DueRoot(j) == mu = "loop" /\ j \in Roots /\ nextRun[j] <= 0

StoredKey(j) == [nextRun EXCEPT ![stored[IdOf[j]]] = nextRun[j]]

\* Mutant of HasRoom: one job too many.
HasRoomOffByOne == Len(jobChan) <= ChanCap
HasRoom == Len(jobChan) < ChanCap

\* One iteration that finds room in the channel
LoopSend(j) ==
  /\ DueRoot(j)
  /\ HasRoom
  /\ nextRun' = StoredKey(j)
  /\ heap' = Popped(j)
  /\ ordered' = KeepsOrder(Popped(j), StoredKey(j))
  /\ jobChan' = Append(jobChan, j)
  /\ queuedJobs' = queuedJobs - 1
  /\ UNCHANGED <<fresh, stored, interval, loopVars, poolVars, totalJobs,
                 runningJobs>>

\* The popped job goes back to the heap; mutant: it does not.
NotPutBack(j) == [heap EXCEPT ![j] = @ - 1]
PutBack(j) == heap

\* The deferred unlock of processJobs
Unlock == mu' = "free"

\* An iteration that finds the channel full returns the job to the heap and
\* leaves the loop.
LoopFull(j) ==
  /\ DueRoot(j)
  /\ ~HasRoom
  /\ nextRun' = StoredKey(j)
  /\ heap' = PutBack(j)
  /\ ordered' = KeepsOrder(PutBack(j), StoredKey(j))
  /\ Unlock
  /\ UNCHANGED <<fresh, stored, interval, jobChan, ticked, stopping,
                 poolVars, stats>>

\* The heap is empty or its root is not due.
LoopEnd ==
  /\ mu = "loop"
  /\ Queued = {} \/ \E j \in Roots : nextRun[j] > 0
  /\ Unlock
  /\ UNCHANGED <<fresh, heapVars, jobChan, ticked, stopping, poolVars, stats>>

\* Stop cancels the context of run and waits for it.
Stop ==
  /\ stopping = "no"
  /\ stopping' = "cancelled"
  /\ UNCHANGED <<fresh, heapVars, jobChan, ticked, mu, poolVars, stats>>

\* wg.Wait: run has left processJobs; mutant: nothing is waited for.
NoWait == TRUE
RunIsIdle == mu = "free"

RunReturns ==
  /\ stopping = "cancelled" /\ RunIsIdle
  /\ stopping' = "stopped"
  /\ UNCHANGED <<fresh, heapVars, jobChan, ticked, mu, poolVars, stats>>

-----------------------------------------------------------------------------
(* The worker pool *)

\* The dispatcher receives a job and then blocks for a slot, ...
Receive ==
  /\ hand = NoJob
  /\ jobChan # <<>>
  /\ hand' = Head(jobChan)
  /\ jobChan' = Tail(jobChan)
  /\ UNCHANGED <<fresh, heapVars, loopVars, pc, work, stats>>

\* ... and spawns the goroutine that works on the job in that slot.
Acquire(s) ==
  /\ hand # NoJob
  /\ pc[s] = "free"
  /\ hand' = NoJob
  /\ work' = [work EXCEPT ![s] = hand]
  /\ pc' = [pc EXCEPT ![s] = "starting"]
  /\ UNCHANGED <<fresh, heapVars, jobChan, loopVars, stats>>

MarkJobStarted(s) ==
  /\ mu = "free"
  /\ pc[s] = "starting"
  /\ pc' = [pc EXCEPT ![s] = "probing"]
  /\ runningJobs' = IF stored[IdOf[work[s]]] # NoJob THEN runningJobs + 1 ELSE runningJobs
  /\ UNCHANGED <<fresh, heapVars, jobChan, loopVars, hand, work, totalJobs,
                 queuedJobs>>

\* Mutant of Lowered: the decrement is missing.
NotLowered(n) == n
Lowered(n) == IF n > 0 THEN n - 1 ELSE 0

\* MarkJobCompleted and MarkJobFailed: the counter is clamped at zero.  (The
\* status they record is left out: nothing in the cycle reads it.)
MarkJob(s) ==
  /\ mu = "free"
  /\ pc[s] = "probing"
  /\ runningJobs' = IF stored[IdOf[work[s]]] # NoJob THEN Lowered(runningJobs) ELSE runningJobs
  /\ UNCHANGED <<fresh, heapVars, jobChan, loopVars, hand, work, totalJobs, queuedJobs>>

\* The probe ran, and its result went through the rest of executeProbe.
\* Mutant: a failed probe ends executeProbe early.
MarkJobDoneOrReturn(s) ==
  /\ work[s] \notin Unsupported
  /\ MarkJob(s)
  /\ \E next \in {"stamping", "releasing"} : pc' = [pc EXCEPT ![s] = next]
MarkJobDone(s) ==
  /\ work[s] \notin Unsupported
  /\ MarkJob(s)
  /\ pc' = [pc EXCEPT ![s] = "stamping"]

\* The factory knows no probe for the protocol: executeProbe returns at once,
\* without rescheduling.
ProbeRefused(s) ==
  /\ work[s] \in Unsupported
  /\ MarkJob(s)
  /\ pc' = [pc EXCEPT ![s] = "releasing"]

\* job.NextRun is written without a lock.
Stamp(s) ==
  LET key == [nextRun EXCEPT ![work[s]] = interval[work[s]]]
  IN
  /\ pc[s] = "stamping"
  /\ nextRun' = key
  /\ ordered' = KeepsOrder(heap, key)
  /\ pc' = [pc EXCEPT ![s] = "rescheduling"]
  /\ UNCHANGED <<fresh, heap, stored, interval, jobChan, loopVars, hand, work,
                 stats>>

\* Reschedule pushes the stored job of the ID, with the times of this one.
Reschedule(s) ==
  LET j == work[s]
      job == IF stored[IdOf[j]] # NoJob THEN stored[IdOf[j]] ELSE j
      key == [nextRun EXCEPT ![job] = nextRun[j]]
  IN
  /\ mu = "free"
  /\ pc[s] = "rescheduling"
  /\ nextRun' = key
  /\ interval' = [interval EXCEPT ![job] = interval[j]]
  /\ totalJobs' = IF stored[IdOf[j]] = NoJob THEN totalJobs + 1 ELSE totalJobs
  /\ stored' = [stored EXCEPT ![IdOf[j]] = job]
  /\ heap' = Pushed(job)
  /\ ordered' = KeepsOrder(Pushed(job), key)
  /\ queuedJobs' = queuedJobs + 1
  /\ pc' = [pc EXCEPT ![s] = "releasing"]
  /\ UNCHANGED <<fresh, jobChan, loopVars, hand, work, runningJobs>>

\* The deferred release of the slot
Release(s) ==
  /\ pc[s] = "releasing"
  /\ pc' = [pc EXCEPT ![s] = "free"]
  /\ work' = [work EXCEPT ![s] = NoJob]
  /\ UNCHANGED <<fresh, heapVars, jobChan, loopVars, hand, stats>>

-----------------------------------------------------------------------------
Loop == LoopBegin \/ LoopEnd \/ \E j \in Jobs : LoopSend(j) \/ LoopFull(j)

Worker(s) ==
  \/ MarkJobStarted(s) \/ MarkJobDone(s) \/ ProbeRefused(s)
  \/ Stamp(s) \/ Reschedule(s) \/ Release(s)

Next ==
  \/ Tick
  \/ \E j \in Jobs : Schedule(j)
  \/ Loop
  \/ Stop \/ RunReturns
  \/ Receive
  \/ \E s \in Slots : Acquire(s) \/ Worker(s)

Spec == Init /\ [][Next]_vars

\* Time passes; main schedules its jobs; the loop, the dispatcher and the
\* goroutine of a slot go on when they can, and probes end because they have
\* timeouts.  A goroutine waiting for s.mu gets it although the loop takes it
\* every second: sync.RWMutex lets no waiter starve.
FairSpec ==
  /\ Spec
  /\ WF_vars(Tick)
  /\ SF_vars(\E j \in Jobs : Schedule(j))
  /\ WF_vars(Loop) /\ WF_vars(RunReturns)
  /\ WF_vars(Receive) /\ WF_vars(\E s \in Slots : Acquire(s))
  /\ \A s \in Slots : SF_vars(Worker(s))

-----------------------------------------------------------------------------
(* Properties *)

Carrying == {s \in Slots : pc[s] \in {"starting", "probing", "stamping", "rescheduling"}}
CarriedBy(j) == {s \in Carrying : work[s] = j}
InChan(j) == {i \in 1..Len(jobChan) : jobChan[i] = j}

\* How many times the job is on its way round
Places(j) ==
  heap[j] + Cardinality(InChan(j)) + (IF hand = j THEN 1 ELSE 0) + Cardinality(CarriedBy(j))

\* A scheduled job is in exactly one place of its round - the heap, the channel,
\* the dispatcher's hand or one worker - so that it is never probed twice at a
\* time and never dropped, unless its protocol is unsupported.
OnePlace ==
  \A j \in Jobs :
    IF j \in fresh THEN Places(j) = 0
    ELSE IF j \in Unsupported THEN Places(j) <= 1
    ELSE Places(j) = 1

\* The elements of the slice s.jobs: a job is in it as often as it was pushed.
Elements == UNION {{j} \X (1..heap[j]) : j \in Jobs}

\* The counters say what they claim: QueuedJobs the size of the heap, RunningJobs
\* the probes in progress, TotalJobs the IDs stored.
CountersAgree ==
  /\ queuedJobs = Cardinality(Elements)
  /\ runningJobs = Cardinality({s \in Slots : pc[s] = "probing"})
  /\ totalJobs = Cardinality({i \in Ids : stored[i] # NoJob})

\* A pass of processJobs that ends with room in the channel leaves no job in the
\* heap that was due.
PassComplete ==
  [][mu = "loop" /\ mu' = "free" /\ Len(jobChan) < ChanCap
       => \A j \in Queued : nextRun[j] > 0]_vars

\* Once Stop has returned, no job leaves the heap.
StoppedQuiet ==
  [][stopping = "stopped" => \A j \in Jobs : heap'[j] >= heap[j]]_vars

\* Until the scheduler is stopped, every job with a supported protocol is probed
\* again and again, however few the workers and small the channel.
KeepsProbing ==
  \A j \in Jobs \ Unsupported :
    []<>(stopping # "no" \/ \E s \in Slots : pc[s] = "probing" /\ work[s] = j)

\* The workers and the queues implement the cycle of ProbeCycle.
Cycle == INSTANCE ProbeCycle WITH
  Capacity <- Cardinality(Slots),
  waiting <- {j \in Jobs : heap[j] > 0 \/ InChan(j) # {} \/ hand = j},
  probing <- {work[s] : s \in Carrying}
CycleSpec == Cycle!CycleSpec

-----------------------------------------------------------------------------
(* Why these hold *)

\* Host, port and protocol tell any two targets of the configuration apart.
TargetsDiffer == \A j, k \in Jobs : IdOf[j] = IdOf[k] => j = k

\* A job that main has not scheduled yet is nowhere; one that it has is stored under
\* its ID, or another of that ID is, and stays there.
Known ==
  /\ \A j \in fresh : /\ heap[j] = 0 /\ InChan(j) = {} /\ hand # j
                      /\ \A s \in Slots : work[s] # j
  /\ \A i \in Ids : stored[i] # NoJob => stored[i] \notin fresh /\ IdOf[stored[i]] = i
  /\ \A j \in Jobs \ fresh : stored[IdOf[j]] # NoJob

\* The counters, whatever the IDs
CountInv == TypeOK /\ Known /\ CountersAgree

\* The round of a job, if IDs are distinct.  A key changes only while its job is not
\* in the heap, so that the order of the heap is never lost.
RoundInv == TypeOK /\ Known /\ ordered /\ OnePlace

\* Stop waits for processJobs.
StopInv == TypeOK /\ (stopping = "stopped" => mu = "free")
=============================================================================

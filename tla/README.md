# vmprober in TLA+

Models, model-checking runs and proofs for vmprober, the Go daemon that probes
configured targets (TCP, UDP, ICMP, HTTP, DNS, gRPC) and delivers the results to
VictoriaMetrics.  Paths below are relative to the repository, that is to `src/`.

- [The system](#the-system): its parts, their state, and what is hard about them
- [The modules](#the-modules): what models what
- [The runs](#the-runs): what TLC checks, on which instances
- [The proofs](#the-proofs): what TLAPS proves, and how
- [Disagreements found](#disagreements-found)
- [Not modelled](#not-modelled) and the [plan](#plan)

## The system

| part | code | state | operations | correct when |
|---|---|---|---|---|
| write-ahead log | `internal/wal` | segment objects, the active one, `.wal` and `.wal.sent` files | Write, Rotate, rotation loop, MarkSent, GetUnsentRecords, DeleteSentRecords, Close, recovery | nothing acknowledged is lost before it is marked, nothing marked comes back, sent files go away |
| scheduler | `internal/scheduler` | heap of jobs, jobs by ID, job channel, counters | Schedule, processJobs, Mark\*, Reschedule, Stop | each job is in one place, is probed again and again, counters are true |
| worker pool | `cmd/vmprober/main.go` | semaphore, one goroutine per probe | dispatcher, executeProbe | bounded concurrency, no job leaves the cycle |
| adapter | `internal/adapter/victoriametrics.go` | batch queue, three workers' batches | Push, Flush, Stop, sendBatch | a slice of metrics is in one place, batches are sent in the end, Push and Stop return |
| retry engine | `internal/adapter/retry.go` | retry queue, the task in hand | ScheduleRetry, retryWorker, Stop | every task ends, confirmed or given up |
| delivery path | `cmd/vmprober/main.go` | which record is written, pushed, marked, replayed | executeProbe, replayWALRecords | a result is delivered or replayed |
| shutdown | `internal/shutdown` | components in order of priority, status | Register, Shutdown | order, no component skipped |
| normalizer | `internal/normalizer` | dedup window | Normalize, Dedup, Cleanup | an event passes once per window, and none is dropped for one of the other outcome |
| collector | `internal/metrics` | counters under an RWMutex, gauges with callbacks | Record, UpdateJobMetrics, ExportMetrics | no deadlock |
| ICMP probe | `internal/probe/icmp.go` | sockets, sequence number | NewICMPProbe, Execute, Close | sockets are closed, one's own answer counts, another process's does not |
| other probes | `internal/probe` | none shared | Execute | a result on every way out, of a series that fits |
| configuration | `internal/config` | current configuration, subscribers, the watcher's last modification time | Load, Watch, notify, the watcher | subscribers see the last valid file, none is put back |
| HTTP server, observability | `internal/server`, `internal/observability` | none of their own | handlers, loops | |

How they interact.  `main` builds one job per target and protocol and gives it to
the scheduler.  The scheduler's loop sends due jobs into a channel; a dispatcher
goroutine receives them, waits for one of `scheduler.concurrent` slots and starts
a goroutine that runs `executeProbe`: it probes, normalizes and deduplicates the
result, writes it to the log, pushes it to the adapter, marks the record as sent,
updates the collector, marks the job, and gives it back to the scheduler.  The
adapter's workers gather slices of metrics into batches and post them to every
endpoint; what fails goes to the retry engine.  At the next start a replay
goroutine pushes what the log still holds as unsent, concurrently with new
probes.  An hourly goroutine deletes old, fully sent segments.  The shutdown
manager stops server, scheduler, log, adapter, normalizer and observability in
that order, while probes in flight, replay and the periodic push go on.

What is hard, and therefore what the properties are about (PROJECT.json lists
every hazard at its line): rotation goroutines racing each other, Close and
deletion; file names with a resolution of a second; crashes between two system
calls; a mutex held around non-blocking sends; jobs that are identified by ID in
one place and by pointer in another; a Push that returns before anything is sent;
the closing of a queue that is still pushed to; bounded queues; retries; a replay
that overlaps with new results; probes of many jobs that share a series, and pings
of many workers that share an identifier and see each other's packets; a file that
changes while it is watched and loaded.

## The modules

| module | models | lines of code |
|---|---|---|
| `RecordLog` | what the log promises: a record is pending from Write to MarkSent | interface |
| `WAL` | the log with segments, files, goroutines, crashes, restarts | `wal/manager.go`, `wal/segment.go` |
| `MCWAL` | TLC instances of `WAL` | |
| `WAL_proofs` | theorems about `WAL` | |
| `ProbeCycle` | what the scheduler promises: a job waits, is probed by one worker, waits again | |
| `Scheduler` | scheduler, dispatcher, semaphore, the job's way through executeProbe | `scheduler.go`, `main.go` |
| `MCScheduler` | TLC instances of `Scheduler` | |
| `Scheduler_proofs` | theorems about `Scheduler` | |
| `Adapter` | adapter and retry engine | `victoriametrics.go`, `retry.go` |
| `MCAdapter` | TLC instances of `Adapter` | |
| `Delivery` | `Adapter` and `RecordLog` composed through executeProbe and the replay | `main.go` |
| `MCDelivery` | TLC instances of `Delivery` | |
| `Delivery_proofs` | theorems about `Adapter` and `Delivery` | |
| `Shutdown` | the shutdown manager and the components' Shutdown methods | `shutdown/manager.go`, `shutdown/components.go` |
| `MCShutdown` | main's six components for TLC | |
| `Shutdown_proofs` | theorems about `Shutdown` | |
| `Probes` | what the Execute of every protocol may return, and the series of a result | `probe/*.go`, `normalizer.go`, `main.go` |
| `Dedup` | the dedup cache and the two critical sections of Dedup | `normalizer/dedup.go`, `normalizer/normalizer.go` |
| `Results` | `Dedup` fed by `Probes` | `main.go`, `normalizer.go` |
| `MCResults` | a TLC instance of `Results` | |
| `Results_proofs` | theorems about `Dedup` and `Results` | |
| `ProbeRun` | what a probe promises the worker that runs it | interface |
| `Icmp` | ICMP probes of concurrent workers | `probe/icmp.go` |
| `MCIcmp` | a TLC instance of `Icmp` | |
| `Icmp_proofs` | theorems about `Icmp` | |
| `Config` | the configuration manager, its subscribers, its watcher and the file | `config/config.go` |
| `MCConfig` | a TLC instance of `Config` | |
| `Config_proofs` | theorems about `Config` | |
| `Collector` | the collector's mutex, counters, gauges and exports | `metrics/collector.go` |
| `MCCollector` | a TLC instance of `Collector` | |
| `Collector_proofs` | theorems about `Collector` | |

`WAL` implements `RecordLog` and `Scheduler` implements `ProbeCycle` (both
checked and proved), and `Icmp` implements `ProbeRun` (checked with its liveness,
proved without).  `ProbeRun` and `Results` both rest on `Probes`.  `Delivery` uses the log only through `RecordLog`, so that the adapter
can be modelled in detail there.

Each module is commented next to its definitions; what follows are the decisions
that are not obvious from the code.

**WAL.**  Every exported method of the manager holds `w.mu` throughout, so it is
one action; what interleaves is the rotation goroutines `Write` spawns, the check
and the act of `rotationLoop`, the two halves of `Close`, and a crash between two
system calls.  The loop may still take a tick after `Close` has cancelled it.  When
companion files cannot be saved, every holder of the record may fail
(`MarkSentUnsaved`) or a later one succeed after the earlier (`MarkSentByNext`).  Segments are pointers (`Ptrs`), because one object may be both
active and closed; files are identified by the second in their name.  A file is
the set of its complete records and a `tail` that says how it ends, because a torn
record makes the file unreadable or not depending on the compression.  The
directory, the files and the environment's choices survive `Crash`, nothing else
does; data written but not synced survives too, as it does when only the process
dies.  Panics of readers on misframed files are a special case of `Crash`, which
is always possible.  Compaction only sets a flag that nothing reads and is left
out, as are `Read`, `Flush` and the size metrics.  `Faults` and `SharedSeconds`
are the assumptions about the environment: without them everything below holds,
with them `NoLoss` and `LogSpec` fail.

**Scheduler.**  Jobs are pointers, `IdOf` gives their IDs.  `processJobs` is one
action per iteration under `mu = "loop"`, since the dispatcher drains the channel
meanwhile; every other method is one action that needs `mu = "free"`.
`container/heap` is modelled by its contract: the root is a minimum as long as no
key of a queued job changed, and any job afterwards.  `NextRun` is relative to the
clock, and overdue jobs are ranked by age, which keeps the state space finite and
is all the heap compares.  The status and the success and failure counts of a job
are left out: nothing in the cycle reads them.  The branches of `Mark*` and `Reschedule` for an
unknown ID are modelled but unreachable from `main`.

**Adapter.**  A slice of metrics is pushed once and its contents do not matter.
`sendBatch` runs in workers, in callers of `Push` whose slice did not fit, and in
the caller of `Flush`; each post to an endpoint is one step, at the time the
answer is known.  Channels behave as in Go (see the head of the module): in
particular the cancelled context wakes blocked pushes, and a send on the closed
queue panics.  Delays are left out: a timer may fire at any moment.  `Size` is
both the capacity of the queue, in slices, and the size of a batch, in metrics,
as in the code.  A batch timeout of zero may win the select of `Push` although the
queue has room (`PushAtOnce`).  That the formatter fails on a batch is left out: it
can marshal all metrics that the normalizer makes.

**Delivery.**  Slices are pairs of a record and the goroutine that pushes it, so
that a record can be pushed by its probe and by the replay.  A process that ends
forgets the adapter's state, the endpoints keep theirs.  Results without metrics,
which are written and not pushed, and records the replay cannot decode are left
out.

**Shutdown.**  The manager's only clock is its budget, counted in `Timeout` ticks;
a component's context (`share`) runs out after half of it, or with the budget.  A
call returns whenever it likes, except that one in `Heeding` is over when its
context is; `Failing` says which calls can return an error.  In `main` these are
the HTTP server's stop, the adapter's flush and observability's stop, and the
server's stop and the log's flush.  The adapter's Stop, the scheduler's Stop and the
log's Close ignore their contexts.  Components are called in `main` once; the
refusal of a second concurrent call is left out.

**Probes.**  For each protocol the set of results its Execute can return, one per
exit, reduced to success and the fields that make up a series.  The exchanges of
TCP, UDP, HTTP, DNS and gRPC touch no shared state, so one step is enough for
them.  `main` gives HTTP, DNS and gRPC no configuration, so their defaults decide
which checks exist (`Checked`).  `LookupMayFail` says whether the address lookup
those three make after a success may fail; hashes are taken to be injective.

**Dedup.**  One goroutine per job, between whose Check and Mark anything may
happen.  Times are whole units and an event has the time its probe began, as in
the code; `Delay`, the bound on the way from there to Dedup, is an assumption
about the environment: the timeout of a probe bounds it in practice.  The cache
is forgotten by a restart, which is not modelled.  `NewNormalizer` fixes the
window.  What events there are and which series they have is left to constants,
so that the proofs about spacing hold for any; `Results` gives them what `Probes`
returns, by an assumption that equates the two and that its instance meets.

**Icmp.**  One action per system call of Execute; a raw socket gets a copy of
every packet (`Deliver`), and the first one is all a probe ever reads, so `inbox`
keeps that one.  Of a packet the code looks at three things: whether it is an echo,
of this process's identifier (`own`), with this number.  It does not look at the
type, so an echo may be a request or a reply (`kind`); `run` and `peer` say, for the
properties, whose request it is or answers.  A request to one of the host's own
addresses (`Local`) comes to all its sockets before it is answered (`LoopBack`).
All other ICMP traffic of the host is `Foreign`: pings of it, answers to other
processes, errors, with the number that confuses most.  The identifier is the
process number in sixteen bits, so others may have it, too: such echoes come from
the addresses in `Strangers`.  Time is left out:
the deadline may pass at any moment of a read, and does in the end.  The second
socket, which Execute never uses, is there for `SocketsClosed`.

**Config.**  Load is two steps, one that takes the lock and reads and one that
publishes, since the file may change between them; a file that is neither away nor
broken may still fail to be read.  Contents are numbered in the order they are
written, and times are free: the same, earlier or later.  `steady` records what
`CatchesUp` needs and the code cannot know (see there).  `validate` is the Boolean
`valid`; `applyDefaults` is data, and so is what is read when the file is half
written, which is a version of its own.

**Collector.**  Go's `RWMutex` is modelled with the one property that matters
here: a waiting writer keeps new readers out.  The lookup of a counter, its
registration and its increment are three steps, so that a missing lock would
show.  Counters are read by an export without the mutex; a sample of them makes
no promise, and only the gauges of an export are modelled.  `enable_job_metrics`
is on; without it neither callbacks nor updates exist.

## The runs

Runs that pass:

| run | instance | checks |
|---|---|---|
| `wal_log` | fair, 2 records, 3 objects, 3 seconds, a segment per record, rotation by age as well, compression; file creation may fail | `NoLoss`, `NoneComesBack`, `IndexAgrees`, `Purged`, and that `WAL` implements `RecordLog` |
| `wal_faults` | 2 records, 3 objects, 3 seconds, every fault | what still holds then: `OnlyReportedSuppressed`, `OnlySentDeleted` |
| `scheduler_pool` | fair, 3 jobs (one unsupported), channel of 1, 2 slots | `OnePlace`, `CountersAgree`, `PassComplete`, `StoppedQuiet`, `KeepsProbing`, implements `ProbeCycle` |
| `adapter_push` | fair, 3 slices, queue and batch of 2, retry queue of 1, 2 attempts, with and without a batch timeout of zero | `Conserved`, `Settles`, `StopEnds`, `PushReturns` |
| `delivery_replay` | fair, 1 record, 2 endpoints, 2 workers, crashes, outages, shutdowns, restarts | `SettledWasAccepted`, `LostOnlyThus`, `Replays` |
| `shutdown_order` | fair, main's 6 components, any of them registered, a budget of 4 | `InOrder`, `OneSlowIsHarmless`, `ShutdownEnds` |
| `collector_calls` | fair, 2 workers, 2 exporters, the timer | `RegisteredOnce`, `GaugesOfThisTime`, `CallsReturn` |
| `results_dedup` | 2 jobs that connect to 2 hosts of one address, so that their successes share a series and so do their failures; a window of 3, a delay of 1, 7 instants | `Spaced`, `DroppedForAnother`, `LikeForLike` |
| `icmp_shared` | fair, 2 workers, 2 probes, the host's own address, a name that has this and a remote one, an IPv6 name, strangers on the host, the last sequence number before the wrap | `SocketsClosed`, `AnswerOfThisProcess`, `OwnAnswerCounts`, implements `ProbeRun` (`RunsAsPromised`) |
| `config_watch` | fair, 1 caller of Load beside the watcher, 2 subscribers with channels of 1, 3 contents, 3 times | `KeepsUp`, `NeverBackwards`, `CatchesUp` |

Bounds.  In `wal_log` two records fill two segments and a third is active, and the
list of closed segments, recovery, deletion by age (`Retention = 1`) and a second
crash all happen; no symmetry is used there, because liveness is checked.  In
`wal_faults` records and objects are interchangeable, which is sound without
liveness.  A channel of one is full as soon as there are two due jobs, and two
slots make two jobs of different periods and the refused one compete.  A retry
queue of one overflows as soon as a second batch fails; a batch of two is filled
by two slices and flushed by the timer with one; a third slice finds the queue
full.  In `delivery_replay` the one record is pushed by its probe and by the
replay, before and after a crash, and one endpoint accepts what the other refuses.
A budget of four gives each component two units, so that two slow ones exhaust
it.  In `results_dedup` two windows fit into the time, the delay is long enough for
two events of one series to be on their way at once, and the bound of `Spaced` is
tight: one unit more and it is violated.  The two jobs are interchangeable with
their hosts (symmetry, no liveness is checked).  In `icmp_shared` both probes may
run at once, or one after the other has left its request unanswered; the sequence
number starts at 65535, so that it wraps.  Of the two IPv4 addresses one is the
host's and a stranger's as well, which for `AnswerOfThisProcess` is one case, and the
other is neither, which is the case it is about.  In `config_watch` a channel of one is
full after one change, and three contents are one to start with, one that breaks
the file or is told, and one more.  Two exporters and two workers are enough for a
reader, a waiting writer and one more of each.

Fairness.  `WAL`: time passes and the cleanup goroutine runs; nobody has to write,
restart or crash.  `Scheduler`: weak fairness for the clock, the loop and the
dispatcher, and strong fairness for the goroutines that wait for the scheduler's
mutex, because `sync.RWMutex` lets no waiter starve although the loop takes it
every second.  `Adapter`: timers fire and posts end because the HTTP client has a
timeout of 30 s.  `Delivery`: the goroutines of a running process go on.
`Shutdown`: every call returns at last; those that ignore their contexts end when
their goroutines do.  `Collector`: every goroutine that can go on does, and a
writer gets the mutex in the end, as Go's mutex hands itself to whoever waited
long.  `Icmp`: a worker goes on, and the deadline of its read passes, as
`SetReadDeadline` promises; no packet need ever arrive.  `Config`: the ticker goes
on, a load that has begun ends, and the watcher gets the lock if it comes free
again and again (strong fairness, as for the scheduler); nobody has to write a
file, to call Load or to read a channel.  `Dedup` and `Results` have no liveness:
nothing there waits.

Deadlock is checked for the scheduler and the configuration manager.  The other configurations switch the check
off because a process that is down, an adapter that is stopped or an agent at the
bound of its probes rightly stays so.

Every property of a passing run has a mutant in PROJECT.json: a plausible slip in
the code it is about, under which the run fails.

## The proofs

`WAL_proofs`, for all records, objects, seconds, sizes and ages:

- `TypeCorrect`: `Spec => []TypeOK`, whatever the faults.
- `NothingLost`: under `SoundEnvironment` (no torn record, no two segments in one
  second), `Spec => []NoLoss`.  `NoLoss` speaks of records and files only and is
  not inductive: a deletion must know that the object it removes a file for
  speaks for the whole file, and a later write that the file it appends to has a
  name.  `LossInv` adds that files are whole, that an object's index suppresses
  only reported records, that the open active segment has a file, that a segment
  chosen for deletion has nothing left to send, and that a closed segment shares
  neither object nor second with the open active one.  The proof goes action by
  action; failing creations and lost companion files are allowed in it.
- `NothingElseIsSuppressed` and `NothingElseIsDeleted`: `Spec => []OnlyReportedSuppressed`
  and `Spec => OnlySentDeleted`, whatever the faults and even if segments share a
  file.  Their invariant, `DeletionInv`, is the part of `LossInv` that survives all
  of that: what is chosen for deletion was looked at as a whole before.
- `MemoryAgreesWithDisk` and `RefinesRecordLog`: under `QuietEnvironment`,
  `Spec => []IndexAgrees` and `Spec => LogSpec`.  `QuietEnvironment` adds to
  `SoundEnvironment` that no companion file is left truncated: after such a fault
  memory says sent and the disk does not, and a restart brings a record back that
  MarkSent was asked for.  The
  invariant is `LogInv`.  Beyond `LossInv` it says that a record is in one file only
  (otherwise a MarkSent would settle one copy), that the running process has exactly
  one object for every file (`EachListed`, `OneObject`), that this object leaves out
  what the disk leaves out and, once it has indexed the file, knows all that is in it
  (`InStep`), and that a file is removed only when the disk, too, has all its records
  as sent (`DoomedSaved`).  Each action of the log is then one of `RecordLog` or, as a
  rotation, a deletion, a crash and a restart, none.
- `NothingComesBack`: under `QuietEnvironment`, `Spec => []NoneComesBack`, the
  counterpart of `NoLoss`: a restart hands out no record whose MarkSent has returned.
  It needs nothing of `WAL` but the refinement, because it is true of `RecordLog`; with
  `Faults = {"save"}` TLC refutes it (`wal_log` checks it without).

`Scheduler_proofs`, for all jobs, IDs, periods, capacities and slots:

- `TypeCorrect`: `Spec => []TypeOK`.  The heap, the channel, the hand of the
  dispatcher and the slots hold known jobs only and respect their capacities.
  It needs that the keys stay integers when the clock ages them (`AgedType`, a
  cardinality argument) and that a slot in use has a job.
- `CountersAreExact`: `Spec => []CountersAgree`, whatever the IDs.
- `StopIsQuiet`: `Spec => StoppedQuiet`.
- `JobsStayInOnePlace`, `PassesAreComplete` and `RefinesProbeCycle`: under
  `TargetsDiffer`, `Spec => []OnePlace`, `Spec => PassComplete` and
  `Spec => CycleSpec`.  `TargetsDiffer` says that no two targets of the configuration
  have host, port and protocol in common, which `validate` does not ensure and
  `scheduler_twins` shows to be needed.  Then the job that `Reschedule` finds under an
  ID is the one that ran (`Known`), so that it comes back into the heap where it left,
  and the key of a job changes only while it is outside the heap, so that the root is
  a minimum at every pass (`RoundInv`).

`Delivery_proofs`, for all slices, endpoints, workers, sizes and attempts:

- `TypeCorrect`: `Spec => []TypeOK`, with the capacities of both queues.
- `SlicesAreConserved`: `Spec => []Conserved`.  `Places` is a sum of four
  cardinalities and two flags; each step moves a slice from one term to another, and
  for each there is a lemma with the two terms it changes.  That a slice that is
  refused is nowhere needs that what each sender has in hand says what it is doing,
  and that the tries of a slice are counted (`HandsMatch`): it is what tells a refusal
  before the first post from one after the last.
- `NobodyWaitsInVain`: `Spec => []NobodyHangs`, the safety part of `PushReturns` and
  `StopEnds`: a Push that is blocked or posts, a Flush in its batch, and every worker
  that Stop waits for can go on.  A sendBatch in a worker or in Flush that has tried
  its last endpoint has returned (`BusySenders`).

and, with `Delivery` around the adapter, for all records and faults:

- `EveryProcessConserves`: `DeliverySpec => []Conserved`.  Every step is one of the
  adapter, none of it, or the end of a process, after which it starts anew.
- `OnlyAcceptedIsSettled`: `DeliverySpec => SettledWasAccepted`.
- `LossesHaveAReason`: `DeliverySpec => LostOnlyThus`, with all three faults allowed.
  A record that the adapter carries is owed to an endpoint, and what is owed stays owed
  while the process runs (`OwedStays`): an accepted push stays accepted, and one that
  posts its slice itself ends accepted or with every endpoint tried.  By `Conserved` it
  is then still in one place, and if that is none of those that carry, the endpoint has
  answered or was given up.
- `OutagesLoseLittle`: `DeliverySpec => []LostByOutageOnly` if `Faults \subseteq
  {"outage"}`: a record marked as sent is delivered or on its way, unless an accepted
  push of it was given up at every endpoint.  One endpoint that keeps up is enough,
  whatever the others do.  The invariant is `NotLostInv`, as for
- `NothingIsLostWithoutFaults`: `DeliverySpec => []NotLost` if `Faults = {}`.  What is
  settled was accepted (and stays so), is therefore in one place by `Conserved`, and
  that place is not `abandoned` (`NotLostInv`).  The assumption cannot be weakened: with
  any one of the three faults TLC finds a loss (`delivery_crash`, and below).

`Results_proofs`, for all jobs, events, series, windows and delays (this part uses only
what `Dedup` assumes):

- `CacheRemembers`: `Spec => []SpacedInv`, and from it
- `PassesAreSpaced`: `Spec => Spaced`.  Two events of a job that pass are more
  than the window less twice the delay apart, although another job may mark the
  same series between the Check and the Mark of the first.  The invariant says
  what the cache remembers of the last event of a job: that event is older than
  the window less the delay, or the cache has one of its series that is at most
  the delay older.  A Mark by another job keeps this because what it writes is no
  older than the delay; a Cleanup keeps it because what it removes is older than
  the window.  An event between Check and Mark carries the conclusion with it.
- `DropsHaveAReason`: `Spec => DroppedForAnother`.  What the cache has of a series is
  the last event of some job that passed (`Backed`): a Mark that sets it back is one.

and for all targets of any protocol, hosts and addresses, provided that the lookup
after a success does not fail (`~LookupMayFail`):

- `OutcomesApart`: a success and a failure are never of one series.  Every exit of
  every probe is `Apt`: TCP and UDP failures have no
  addresses, an ICMP failure may have its target but has no source, and the other
  three have an address when they succeed and none when they do not.
- `DropsAreLikeForLike`: `Spec => LikeForLike`.  What is in the cache was put there by
  an event of the same series (`Marked`), which by the first theorem had the same
  outcome as the event that is dropped.

`Icmp_proofs`, for all workers, hosts, addresses, sequence starts and numbers of
probes, whatever the network does:

- `TypeCorrect`, `SocketsAreClosed`, `AnswersAreOfThisProcess`: `Spec => []TypeOK`,
  `Spec => []SocketsClosed`, `Spec => []AnswerOfThisProcess`.
- `OwnAnswersCount`: `Spec => OwnAnswerCounts`.
- `RunsSafely`: `Spec => Run!Safety`, the refinement of `ProbeRun` without its
  liveness.  Each way out returns a result that `Probes` lists for the target.

`AnswerOfThisProcess` is about sources that are neither addresses of this host nor
`Strangers`, for any such sets: of those two it is not true (see below).

They rest on one invariant, `IcmpInv`.  The packets a socket may hold are not
enough: that an echo with the identifier is of this process, and no request, needs
that only requests to the host loop back (`Told`); that one's own answer matches needs
that probes have numbers of their own
(`Numbered`), that there is no packet of a probe that has not sent, and that what
is on the wire bears the number and the address the probe still has (`Sent`); that
a result is listed needs that a worker's address is one of its host's and no IPv6
address once it has a socket (`Located`).

`Config_proofs`, for all callers, subscribers, capacities and histories of the file:

- `ConfigTypes`: `Spec => []TypeOK`, with the holder of the lock.
- `SubscribersKeepUp`: `Spec => []KeepsUp`.
- `NothingPutBack`: `Spec => NeverBackwards`.

The invariant adds that what a loader read under the lock is no older than what is
published (`ReadIsNew`), which is what the lock is for, and that there is nothing
in the channel of somebody who is no subscriber (`NoNews`).

- `NoChangePassedOver`: `Spec => []ChangesNoticed`, the safety part of `CatchesUp`:
  while the watcher lives and the file gives it what it needs (`steady`), a valid change
  that stays is newer than the time it has noted, or is being loaded or published.  Its invariant adds that the time noted is
  not ahead of the file's (`NotAhead`) and that the watcher ends with its context only
  (`Watches`).

`Collector_proofs`, for all workers, exporters, series and bounds:

- `NamesRegisteredOnce`: `Spec => []RegisteredOnce`.
- `GaugesAreOfTheirTime`: `Spec => []GaugesOfThisTime`.

Their invariant, `CollectorInv`, has the contract of the mutex (`Exclusive`): a writer
past its draining is alone, and a lock is counted exactly while a callback reads.  So
what a worker is about to create is still missing (`CreatesNew`), and a callback sees
all three gauges of the last update (`GaugesUpToDate`), which no gauge that was read
before is ahead of (`NoneAhead`).

- `NobodyIsStuck`: `Spec => []NoneStuck`, the safety part of `CallsReturn`: who waits
  for the mutex waits for one who has it and can go on, so that the export, which
  calls back into the mutex while a writer keeps callbacks out, deadlocks with nobody.
  The chain has two links at most: a callback waits for the writer (`KeptOut`), which
  is in its call (`WriterWrites`) and waits, if at all, for a callback that reads.  If
  ExportMetrics held a read lock, it would fail (`ReadLocked`).

`Shutdown_proofs`, for all components, priorities, budgets, and calls that heed their
contexts or fail:

- `TypeCorrect`: `Spec => []TypeOK`.
- `OneSlowLeavesEnough`: `Spec => []OneSlowIsHarmless`.  `ShutdownInv` says that
  each component is still to be called, in its call or handled (`EachOnce`), that the
  budget is untouched until somebody is slow, and that the half of it which no context
  may use is left while the only one who was slow heeds its context (`Spare`).
- `StoppedInOrder`: `Spec => InOrder`.

Only model-checked: all liveness, `ProbeRun`'s included, for which the prover has no
support.  Of `PushReturns`, `StopEnds`, `CallsReturn` and `CatchesUp` the safety part
is proved, as above: nothing waits for what cannot come.  These parts, `NobodyHangs`,
`NoneStuck` and `ChangesNoticed`, and `LostByOutageOnly` and the `TypeOK` of `WAL` are in no
configuration; TLC finds them true, and so it
does the inductive invariants, on instances like those of the runs.

## Disagreements found

Each is a run that is expected to end in a violation (PROJECT.json has the quoted
claims).

| run | what happens |
|---|---|
| `scheduler_twins` | two targets with equal host, port and protocol: one is dropped, the other queued twice |
| `delivery_crash` | a record is marked as sent when it is queued, and a crash loses it |

The same modules show more of this when another property or another constant is
put into a configuration; these runs are not kept:

- `NoLoss` fails with `Faults = {"torn"}`: `WALSegment.Write` writes the size and
  the data of a record with two system calls (`wal/segment.go:138`), and after a
  size without its data the acknowledged records of that segment are unreadable,
  although `docs/architecture/design-principles.md:9` promises "no data loss on
  crashes or restarts".
- `~panicked` is violated in `Adapter` with two slices and two workers: Stop
  closes the queue (`adapter/victoriametrics.go:135`) while probes in flight,
  the replay and the periodic push may still call Push, whose send then panics
  and ends the process in the middle of its shutdown.
- `NoLoss` and `LogSpec` fail with `SharedSeconds`: two segments created within
  one second share a `.wal` and a `.wal.sent` file, so the later object overwrites
  what the earlier had marked, and deleting one unlinks the file of the other.
- The window of the deduplication is ten minutes whatever `push.dedup.window`
  says (`normalizer/normalizer.go:57`): with deduplication on, a series delivers
  one result in that time.
- The three job gauges of one export may come from two updates (`Collector`).
- Stop leaves slices in the queue that were accepted after Flush, because the
  workers may notice the cancelled context first.
- With `ZeroTimeouts = {TRUE}`, the default, every batch worker is gone after its
  first step; slices are then sent only by pushes that timed out (`PushReturns`
  holds all the same, `Settles` says nothing).
- `SuccessIsAnswered` fails in `Icmp` with one worker and one probe: a probe of an
  address of the host takes its own echo request, which loops back to its socket
  before the answer, for the answer, and succeeds even if the host answers no pings.
  Neither `parseICMPResponse` nor `isMatchingResponse` (`probe/icmp.go:349`, `:397`)
  looks at the type; `probe/icmp_test.go:122` probes such a target.
- `SuccessIsOwn` fails in `Icmp`: with two workers a probe may succeed with the
  answer to another probe, even of another host, because all send the same
  identifier and the same sequence number (each probe is made anew and counts its
  own from the start), and the address of the sender is reported but not compared.
  An echo of another process with the same sixteen bits of process number will do, too.
  `probe/icmp.go:290` says "Check request and response match".  In turn, any other
  ICMP packet that comes first makes a probe fail, as one packet is all it reads.
- ICMP over IPv6 never works: the socket is bound to 0.0.0.0 for both families
  (`probe/icmp.go:145`), which the library refuses; `docs/components/probes.md:69`
  says "IPv4 and IPv6 support".
- `DroppedForOwnHost` fails in `Results`: the series of a failure has no host in
  it, so with deduplication on, the failures of one host hide those of every other
  on the same port; successes of two names of one address do the same.
- `ReturnsShow` fails in `Results`: a target that goes down and comes back within the
  ten minutes is reported as down until they are over, because its success is
  dropped for the one before the failure.
- With `LookupMayFail`, `LikeForLike` fails for HTTP, DNS and gRPC targets with a
  port: a success whose lookup failed has the series of a failure.
- The settings of `probes.http`, `probes.dns` and `probes.grpc` and of their targets
  have no effect (`main.go:578` returns nil for them); `validate_answer: true` in
  `docs/components/probes.md:218` checks nothing.
- Nothing calls `Watch`: `README.md:43` ("Configuration changes without service
  restart") and `docs/getting-started/configuration.md:318` describe a reload that
  is implemented in `internal/config` but never started.
- `CatchesUp` without `steady` fails in `Config`: a change is never loaded if the
  file is put back with an older or an equal time, if reading it failed for a reason
  that has passed, if it was written between Load and the watcher's first look at
  it, or once the context of the first subscriber has ended, which ends the only
  watcher there will be.
- `KeepsUp` without `missed` fails: a subscriber whose channel is full misses a
  change, and one that came before the first Load is not told of it.
- A port of zero is refused by `validate` before `applyDefaults` could make it 8429
  (`config/config.go:130`, `:151`).
- `NotLost` fails without a crash, too, when an endpoint fails until the retries
  are used up, or when the process is stopped with a full queue.

## Not modelled

The metric formatter and the compressor (encodings), the parsing of the Prometheus
text in the collector, the HTTP server and observability (pure input and output),
the type definitions.  Of the probes, the exchanges of HTTP, DNS and gRPC message
by message, RTTs and payloads; of the normalizer, labels, metrics and statistics.
`calculateBackoff` (floating point, capped by a `max_delay` that is zero by
default) and `parseSize` (a size beyond 63 bits wraps) are arithmetic on values
that the models leave abstract.

## Plan

1. Pure operators: the job heap's sift operations against the contract used in
   `Scheduler`, `calculateBackoff`, `parseSize` with 64-bit wrap-around.
2. Refinement: an abstract window for `Dedup`.

------------------------------- MODULE Dedup -------------------------------
(***************************************************************************)
(* The deduplication of probe results (internal/normalizer): DedupCache    *)
(* and the two critical sections of DefaultNormalizer.Dedup, called by the *)
(* goroutines that run executeProbe.                                       *)
(*                                                                         *)
(* An event carries the time its probe began.  Its series depends on what  *)
(* the probe found out: jobs share series, and a job has several (Results  *)
(* has the series of each protocol).  A job runs one probe at a time.      *)
(* Between Check and Mark of one event anything may happen.                *)
(*                                                                         *)
(* Time is counted up to MaxNow.  Delay bounds the time from the beginning *)
(* of a probe to the end of Dedup, and is the probe's timeout in practice. *)
(***************************************************************************)
EXTENDS Integers

CONSTANTS
  Jobs,
  Events,    \* what an event may say
  NoEvent,   \* no event
  EventsOf,  \* what the events of a job may say
  Series,    \* the series of events
  SeriesOf,  \* the series an event belongs to (generateSeriesID)
  Window,    \* the deduplication window, 10 minutes in NewNormalizer
  Delay,     \* how long after its timestamp an event is handled
  MaxNow     \* the clock stops here

ASSUME DedupAssumption ==
  /\ NoEvent \notin Events
  /\ EventsOf \in [Jobs -> SUBSET Events]
  /\ SeriesOf \in [Events -> Series]
  /\ Window \in Nat \ {0} /\ Delay \in Nat \ {0} /\ MaxNow \in Nat

\* No timestamp: an absent key, a series of which nothing passed yet
Never == -1

VARIABLES
  now,
  cache,   \* d.cache: the timestamp that was marked last for each series
  pc,      \* what the goroutine of each job does next
  event,   \* the event it has in hand, NoEvent when it is idle
  stamp,   \* the timestamp of that event
  passed,  \* history: the last timestamp of each job and series that passed
  marker   \* history: the event that was marked last in each series

vars == <<now, cache, pc, event, stamp, passed, marker>>

TypeOK ==
  /\ now \in Nat
  /\ cache \in [Series -> Nat \cup {Never}]
  /\ pc \in [Jobs -> {"idle", "checking", "marking"}]
  /\ event \in [Jobs -> Events \cup {NoEvent}]
  /\ \A j \in Jobs : pc[j] # "idle" => event[j] \in EventsOf[j]
  /\ stamp \in [Jobs -> Nat]
  /\ passed \in [Jobs -> [Series -> Nat \cup {Never}]]
  /\ marker \in [Series -> Events \cup {NoEvent}]

Init ==
  /\ now = 0
  /\ cache = [s \in Series |-> Never]
  /\ pc = [j \in Jobs |-> "idle"]
  /\ event = [j \in Jobs |-> NoEvent]
  /\ stamp = [j \in Jobs |-> 0]
  /\ passed = [j \in Jobs |-> [s \in Series |-> Never]]
  /\ marker = [s \in Series |-> NoEvent]

-----------------------------------------------------------------------------
\* The clock waits for events that must be handled by now.
Tick ==
  /\ now < MaxNow
  /\ \A j \in Jobs : pc[j] # "idle" => now < stamp[j] + Delay
  /\ now' = now + 1
  /\ UNCHANGED <<cache, pc, event, stamp, passed, marker>>

\* A probe begins; its result is normalized and handed to Dedup later.
Probe(j) ==
  /\ pc[j] = "idle"
  /\ \E e \in EventsOf[j] : event' = [event EXCEPT ![j] = e]
  /\ pc' = [pc EXCEPT ![j] = "checking"]
  /\ stamp' = [stamp EXCEPT ![j] = now]
  /\ UNCHANGED <<now, cache, passed, marker>>

Current(j) == SeriesOf[event[j]]

\* The goroutine of the job is done with the event.
Done(j) ==
  /\ pc' = [pc EXCEPT ![j] = "idle"]
  /\ event' = [event EXCEPT ![j] = NoEvent]
  /\ UNCHANGED <<now, stamp>>

\* timestamp.Sub(lastSeen) < d.window: true of older timestamps, too.
IsDuplicate(j) ==
  LET seen == cache[Current(j)]
  IN  seen # Never /\ stamp[j] - seen < Window

\* What a duplicate leaves in the cache; mutant: its own timestamp.
Refreshed(j) == [cache EXCEPT ![Current(j)] = stamp[j]]
AfterDuplicate(j) == cache

\* Check, under the read lock
CheckDuplicate(j) ==
  /\ pc[j] = "checking"
  /\ IsDuplicate(j)
  /\ cache' = AfterDuplicate(j)
  /\ Done(j)
  /\ UNCHANGED <<passed, marker>>

CheckNew(j) ==
  /\ pc[j] = "checking"
  /\ ~IsDuplicate(j)
  /\ pc' = [pc EXCEPT ![j] = "marking"]
  /\ UNCHANGED <<now, cache, event, stamp, passed, marker>>

\* Mark, under the write lock; the event goes on to the log and the adapter.
Mark(j) ==
  /\ pc[j] = "marking"
  /\ cache' = [cache EXCEPT ![Current(j)] = stamp[j]]
  /\ passed' = [passed EXCEPT ![j][Current(j)] = stamp[j]]
  /\ marker' = [marker EXCEPT ![Current(j)] = event[j]]
  /\ Done(j)

\* Which entries Cleanup deletes.  Mutant: half the window is enough.
OutdatedEarly(s) == 2 * (now - cache[s]) > Window
Outdated(s) == now - cache[s] > Window

\* Cleanup, every minute and when the normalizer is closed
Cleanup ==
  /\ cache' = [s \in Series |-> IF cache[s] # Never /\ Outdated(s) THEN Never ELSE cache[s]]
  /\ UNCHANGED <<now, pc, event, stamp, passed, marker>>

Next ==
  \/ Tick \/ Cleanup
  \/ \E j \in Jobs : Probe(j) \/ CheckDuplicate(j) \/ CheckNew(j) \/ Mark(j)

Spec == Init /\ [][Next]_vars

-----------------------------------------------------------------------------
(* Properties *)

\* Two events of one job and series that pass are a window apart, but for twice
\* the delay: once for an entry that another job of the series set back to an
\* older timestamp, once for an entry that was cleaned up while the event was on
\* its way.  This holds although Check and Mark do not exclude each other.
Spaced ==
  [][\A j \in Jobs : \A s \in Series :
       passed'[j][s] # passed[j][s] /\ passed[j][s] # Never
         => passed'[j][s] - passed[j][s] > Window - 2 * Delay]_vars

Dropped(j) == pc[j] = "checking" /\ pc'[j] = "idle"

\* An event is dropped only in favour of one of its series that passed, less
\* than a window before it or at most the delay after it: duplicates do not
\* prolong the window, and a series that goes on being probed goes on passing.
DroppedForAnother ==
  [][\A j \in Jobs : Dropped(j) =>
       \E k \in Jobs : LET last == passed[k][Current(j)]
                       IN  /\ last # Never
                           /\ stamp[j] - last < Window
                           /\ last - stamp[j] <= Delay]_vars

-----------------------------------------------------------------------------
(* Why Spaced holds: what the cache says about the last events of each job *)

\* A job's last event of a series is outdated, or the cache has one hardly older.
Remembered(j, s) ==
  \/ passed[j][s] = Never
  \/ now - passed[j][s] > Window - Delay
  \/ cache[s] # Never /\ cache[s] >= passed[j][s] - Delay

\* What is about to be marked is far enough from what its job marked last.
MarkSpaced(j) ==
  passed[j][Current(j)] # Never => stamp[j] - passed[j][Current(j)] > Window - 2 * Delay

SpacedInv ==
  /\ TypeOK
  /\ \A j \in Jobs : \A s \in Series : passed[j][s] <= now /\ Remembered(j, s)
  /\ \A j \in Jobs : pc[j] # "idle" => stamp[j] <= now /\ now <= stamp[j] + Delay
  /\ \A j \in Jobs : pc[j] = "marking" => MarkSpaced(j)
=============================================================================

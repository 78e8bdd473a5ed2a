------------------------------ MODULE Results ------------------------------
(***************************************************************************)
(* Dedup fed by the probes: executeProbe normalizes what Execute returned  *)
(* and asks Dedup about it.  Here it shows what sharing a series means.    *)
(***************************************************************************)
EXTENDS Dedup, Probes

CONSTANT TargetOf  \* the target of each job

ASSUME ResultsAssumption == TargetOf \in [Jobs -> Targets]

\* What Normalize makes of a result, as far as Dedup and its properties go
Normalized(t, r) == [host |-> t.host, success |-> r.success, series |-> SeriesID(t, r)]

\* The constants of Dedup are these.
JobEvents   == [j \in Jobs |-> {Normalized(TargetOf[j], r) : r \in Execute(TargetOf[j])}]
AllEvents   == UNION {JobEvents[j] : j \in Jobs}
AllSeries   == {e.series : e \in AllEvents}
EventSeries == [e \in AllEvents |-> e.series]

ASSUME DedupOfResults ==
  /\ Events = AllEvents /\ EventsOf = JobEvents
  /\ Series = AllSeries /\ SeriesOf = EventSeries

\* A success is never dropped because of a failure, nor the other way round,
\* whichever jobs share its series and whatever they mark between its Check and
\* Mark: the first failure in a window shows, and so does the first success.
LikeForLike ==
  [][\A j \in Jobs : Dropped(j) => marker[Current(j)].success = event[j].success]_vars

\* More than that does not hold.  What a job reported last is not always what was
\* found last: a target that comes back within the window has its success dropped
\* because of the one before it went down.
Latest(j, s) == passed[j][s] # Never /\ \A other \in Series : passed[j][s] >= passed[j][other]
ReturnsShow ==
  [][\A j \in Jobs : \A s \in Series :
       Dropped(j) /\ Latest(j, s) => \E e \in EventsOf[j] :
         SeriesOf[e] = s /\ e.success = event[j].success]_vars

\* An event is dropped only because of one of the same host.  It does not hold:
\* the failures of all hosts on one port are of one series.
DroppedForOwnHost ==
  [][\A j \in Jobs : Dropped(j) => marker[Current(j)].host = event[j].host]_vars
=============================================================================

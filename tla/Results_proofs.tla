--------------------------- MODULE Results_proofs ---------------------------
(***************************************************************************)
(* Proofs about Dedup and about Results.                                   *)
(*                                                                         *)
(* For any jobs, events, series, window and delay (the first part uses     *)
(* only what Dedup assumes): passed events of a job are spaced, although   *)
(* Check and Mark are two critical sections and jobs may share a series.   *)
(*                                                                         *)
(* For any targets, hosts and addresses: the deduplication never takes a   *)
(* failure for a success or a success for a failure, as long as the        *)
(* lookups after successful probes succeed.                                *)
(***************************************************************************)
EXTENDS Results, TLAPS

-----------------------------------------------------------------------------
(* Dedup *)

LEMMA InitInv == Init => SpacedInv
BY DedupAssumption DEF Init, SpacedInv, TypeOK, Remembered, Never

LEMMA TypeStep ==
  ASSUME TypeOK, [Next]_vars
  PROVE  TypeOK'
<1> USE DedupAssumption DEF TypeOK, Never
<1>1. CASE Tick
  BY <1>1 DEF Tick
<1>2. CASE Cleanup
  BY <1>2 DEF Cleanup
<1>3. ASSUME NEW j \in Jobs, Probe(j) PROVE TypeOK'
  <2>1. PICK e \in EventsOf[j] : event' = [event EXCEPT ![j] = e]
    BY <1>3 DEF Probe
  <2>2. e \in Events
    BY <2>1
  <2> QED BY <1>3, <2>1, <2>2 DEF Probe
<1>4. ASSUME NEW j \in Jobs, CheckDuplicate(j) PROVE TypeOK'
  BY <1>4 DEF CheckDuplicate, AfterDuplicate, Done
<1>5. ASSUME NEW j \in Jobs, CheckNew(j) PROVE TypeOK'
  BY <1>5 DEF CheckNew
<1>6. ASSUME NEW j \in Jobs, Mark(j) PROVE TypeOK'
  <2>1. event[j] \in Events /\ Current(j) \in Series
    BY <1>6 DEF Mark, Current
  <2> QED BY <1>6, <2>1 DEF Mark, Done
<1>7. CASE UNCHANGED vars
  BY <1>7 DEF vars
<1> QED BY <1>1, <1>2, <1>3, <1>4, <1>5, <1>6, <1>7 DEF Next

\* The series of an event in hand is one of the cache's.
LEMMA CurrentType ==
  ASSUME TypeOK, NEW j \in Jobs, pc[j] # "idle"
  PROVE  Current(j) \in Series
BY DedupAssumption DEF TypeOK, Current

\* Every step keeps what the cache says about the jobs, and spaces what passes.
LEMMA StepInv ==
  ASSUME SpacedInv, [Next]_vars
  PROVE  SpacedInv'
<1>1. TypeOK'
  BY TypeStep DEF SpacedInv
<1> USE DedupAssumption, <1>1
<1>2. CASE Tick
  <2>1. /\ now' = now + 1 /\ UNCHANGED <<cache, pc, event, stamp, passed>>
        /\ \A j \in Jobs : pc[j] # "idle" => now < stamp[j] + Delay
    BY <1>2 DEF Tick
  <2>2. ASSUME NEW j \in Jobs, NEW s \in Series PROVE passed'[j][s] <= now'
    BY <2>1 DEF SpacedInv, TypeOK, Never
  <2>3. ASSUME NEW j \in Jobs, pc'[j] # "idle"
        PROVE  stamp'[j] <= now' /\ now' <= stamp'[j] + Delay
    BY <2>1, <2>3 DEF SpacedInv, TypeOK
  <2>4. ASSUME NEW j \in Jobs, NEW s \in Series PROVE Remembered(j, s)'
    BY <2>1 DEF SpacedInv, TypeOK, Remembered, Never
  <2>5. ASSUME NEW j \in Jobs, pc'[j] = "marking" PROVE MarkSpaced(j)'
    BY <2>1, <2>5 DEF SpacedInv, MarkSpaced, Current
  <2> QED BY <2>2, <2>3, <2>4, <2>5 DEF SpacedInv
<1>3. CASE Cleanup
  <2>1. UNCHANGED <<now, pc, event, stamp, passed>>
    BY <1>3 DEF Cleanup
  <2>2. ASSUME NEW j \in Jobs, NEW s \in Series PROVE Remembered(j, s)'
    <3>1. CASE cache'[s] = cache[s]
      BY <2>1, <3>1 DEF SpacedInv, Remembered
    <3>2. CASE cache[s] # Never /\ Outdated(s)
      BY <2>1, <3>2 DEF Outdated, SpacedInv, TypeOK, Remembered, Never
    <3> QED BY <1>3, <3>1, <3>2 DEF Cleanup
  <2>3. ASSUME NEW j \in Jobs, pc'[j] = "marking" PROVE MarkSpaced(j)'
    BY <2>1, <2>3 DEF SpacedInv, MarkSpaced, Current
  <2> QED BY <2>1, <2>2, <2>3 DEF SpacedInv
<1>4. ASSUME NEW j \in Jobs, Probe(j) PROVE SpacedInv'
  <2>1. UNCHANGED <<now, cache, passed>>
    BY <1>4 DEF Probe
  <2>2. ASSUME NEW k \in Jobs, pc'[k] # "idle"
        PROVE  stamp'[k] <= now' /\ now' <= stamp'[k] + Delay
    BY <1>4, <2>1, <2>2 DEF Probe, SpacedInv, TypeOK
  <2>3. ASSUME NEW k \in Jobs, pc'[k] = "marking" PROVE MarkSpaced(k)'
    <3>1. k # j /\ pc[k] = "marking" /\ event'[k] = event[k] /\ stamp'[k] = stamp[k]
      BY <1>4, <2>3 DEF Probe, SpacedInv, TypeOK
    <3> QED BY <2>1, <3>1 DEF SpacedInv, MarkSpaced, Current
  <2> QED BY <2>1, <2>2, <2>3 DEF SpacedInv, Remembered
<1>5. ASSUME NEW j \in Jobs, CheckDuplicate(j) PROVE SpacedInv'
  <2>1. /\ UNCHANGED <<now, cache, stamp, passed>>
        /\ pc' = [pc EXCEPT ![j] = "idle"]
        /\ event' = [event EXCEPT ![j] = NoEvent]
    BY <1>5 DEF CheckDuplicate, AfterDuplicate, Done
  <2>2. ASSUME NEW k \in Jobs, pc'[k] # "idle"
        PROVE  k # j /\ pc'[k] = pc[k] /\ event'[k] = event[k]
    BY <2>1, <2>2 DEF SpacedInv, TypeOK
  <2>3. ASSUME NEW k \in Jobs, pc'[k] = "marking" PROVE MarkSpaced(k)'
    BY <2>1, <2>2, <2>3 DEF SpacedInv, MarkSpaced, Current
  <2> QED BY <2>1, <2>2, <2>3 DEF SpacedInv, Remembered
<1>6. ASSUME NEW j \in Jobs, CheckNew(j) PROVE SpacedInv'
  <2> DEFINE s == Current(j)
  <2>1. /\ UNCHANGED <<now, cache, event, stamp, passed>>
        /\ pc' = [pc EXCEPT ![j] = "marking"]
        /\ pc[j] = "checking" /\ ~IsDuplicate(j)
    BY <1>6 DEF CheckNew
  <2>2. MarkSpaced(j)
    <3> SUFFICES ASSUME passed[j][s] # Never
                 PROVE  stamp[j] - passed[j][s] > Window - 2 * Delay
      BY DEF MarkSpaced
    <3>1. s \in Series
      BY <2>1, CurrentType DEF SpacedInv
    <3>2. stamp[j] \in Nat /\ passed[j][s] \in Nat /\ now \in Nat
      BY <3>1 DEF SpacedInv, TypeOK
    <3>3. now <= stamp[j] + Delay /\ Remembered(j, s)
      BY <2>1, <3>1 DEF SpacedInv
    <3>4. CASE now - passed[j][s] > Window - Delay
      BY <3>2, <3>3, <3>4
    <3>5. CASE cache[s] # Never /\ cache[s] >= passed[j][s] - Delay
      <4>1. cache[s] \in Nat
        BY <3>1, <3>5 DEF SpacedInv, TypeOK
      <4>2. ~(stamp[j] - cache[s] < Window)
        BY <2>1, <3>5 DEF IsDuplicate
      <4> QED BY <3>2, <3>5, <4>1, <4>2
    <3> QED BY <3>3, <3>4, <3>5 DEF Remembered
  <2>3. ASSUME NEW k \in Jobs, pc'[k] = "marking" PROVE MarkSpaced(k)'
    <3>1. k = j \/ pc[k] = "marking"
      BY <2>1, <2>3 DEF SpacedInv, TypeOK
    <3>2. MarkSpaced(k)
      BY <2>2, <3>1 DEF SpacedInv
    <3> QED BY <2>1, <3>2 DEF MarkSpaced, Current
  <2>4. ASSUME NEW k \in Jobs, pc'[k] # "idle" PROVE pc[k] # "idle"
    BY <2>1, <2>4 DEF SpacedInv, TypeOK
  <2> QED BY <2>1, <2>3, <2>4 DEF SpacedInv, Remembered
<1>7. ASSUME NEW j \in Jobs, Mark(j) PROVE SpacedInv'
  <2> DEFINE s == Current(j)
  <2>1. s \in Series
    BY <1>7, CurrentType DEF Mark, SpacedInv
  <2>2. /\ stamp[j] \in Nat /\ now \in Nat
        /\ stamp[j] <= now /\ now <= stamp[j] + Delay
    BY <1>7 DEF Mark, SpacedInv, TypeOK
  <2>3. /\ cache' = [cache EXCEPT ![s] = stamp[j]]
        /\ passed' = [passed EXCEPT ![j][s] = stamp[j]]
        /\ pc' = [pc EXCEPT ![j] = "idle"]
        /\ event' = [event EXCEPT ![j] = NoEvent]
        /\ UNCHANGED <<now, stamp>>
    BY <1>7 DEF Mark, Done
  <2> HIDE DEF s
  <2>4. ASSUME NEW k \in Jobs, NEW u \in Series
        PROVE  passed'[k][u] <= now' /\ Remembered(k, u)'
    <3>1. CASE k = j /\ u = s
      <4>1. passed'[k][u] = stamp[j] /\ cache'[u] = stamp[j]
        BY <2>1, <2>3, <3>1 DEF SpacedInv, TypeOK
      <4> QED BY <2>2, <2>3, <4>1 DEF Remembered, Never
    <3>2. CASE k # j /\ u = s
      <4>1. passed'[k][u] = passed[k][u] /\ cache'[u] = stamp[j] /\ passed[k][u] <= now
        BY <2>1, <2>3, <3>2 DEF SpacedInv, TypeOK
      <4>2. passed[k][u] \in Nat \cup {Never}
        BY DEF SpacedInv, TypeOK
      <4> QED BY <2>2, <2>3, <4>1, <4>2 DEF Remembered, Never
    <3>3. CASE u # s
      <4>1. /\ passed'[k][u] = passed[k][u] /\ cache'[u] = cache[u]
            /\ passed[k][u] <= now /\ Remembered(k, u)
        BY <2>1, <2>3, <3>3 DEF SpacedInv, TypeOK
      <4> QED BY <2>3, <4>1 DEF Remembered
    <3> QED BY <3>1, <3>2, <3>3
  <2>5. ASSUME NEW k \in Jobs, pc'[k] # "idle"
        PROVE  /\ stamp'[k] <= now' /\ now' <= stamp'[k] + Delay
               /\ pc'[k] = "marking" => MarkSpaced(k)'
    <3>1. k # j /\ pc'[k] = pc[k] /\ event'[k] = event[k] /\ passed'[k] = passed[k]
      BY <2>3, <2>5 DEF SpacedInv, TypeOK
    <3>2. pc[k] = "marking" => MarkSpaced(k)
      BY DEF SpacedInv
    <3>3. pc'[k] = "marking" => MarkSpaced(k)'
      BY <2>3, <3>1, <3>2 DEF MarkSpaced, Current
    <3> QED BY <2>3, <2>5, <3>1, <3>3 DEF SpacedInv
  <2> QED BY <2>4, <2>5 DEF SpacedInv
<1>8. CASE UNCHANGED vars
  BY <1>8 DEF vars, SpacedInv, TypeOK, Remembered, MarkSpaced, Current, Never
<1> QED BY <1>2, <1>3, <1>4, <1>5, <1>6, <1>7, <1>8 DEF Next

\* The cache remembers, for every job and series, that its last event passed.
THEOREM CacheRemembers == Spec => []SpacedInv
<1>1. Init => SpacedInv
  BY InitInv
<1>2. SpacedInv /\ [Next]_vars => SpacedInv'
  BY StepInv
<1> QED BY <1>1, <1>2, PTL DEF Spec

\* Two events of one job and series that pass the deduplication are spaced by the
\* window, but for twice the delay, whoever else marks that series in between.
THEOREM PassesAreSpaced == Spec => Spaced
<1> DEFINE Space == \A j \in Jobs : \A s \in Series :
                      passed'[j][s] # passed[j][s] /\ passed[j][s] # Never
                        => passed'[j][s] - passed[j][s] > Window - 2 * Delay
<1>1. SpacedInv /\ [Next]_vars => [Space]_vars
  <2> SUFFICES ASSUME SpacedInv, [Next]_vars, ~(UNCHANGED vars) PROVE Space
    OBVIOUS
  <2> SUFFICES ASSUME NEW j \in Jobs, NEW s \in Series,
                      passed'[j][s] # passed[j][s], passed[j][s] # Never
               PROVE  passed'[j][s] - passed[j][s] > Window - 2 * Delay
    OBVIOUS
  <2>1. PICK k \in Jobs : Mark(k)
    BY DEF Next, Tick, Cleanup, Probe, CheckDuplicate, CheckNew, Done
  <2>2. Current(k) \in Series
    BY <2>1, CurrentType DEF Mark, SpacedInv
  <2>3. passed' = [passed EXCEPT ![k][Current(k)] = stamp[k]]
    BY <2>1 DEF Mark
  <2>4. k = j /\ s = Current(k) /\ passed'[j][s] = stamp[j]
    BY <2>2, <2>3 DEF SpacedInv, TypeOK
  <2>5. MarkSpaced(j)
    BY <2>1, <2>4 DEF Mark, SpacedInv
  <2> QED BY <2>4, <2>5 DEF MarkSpaced
<1>2. Spec => []SpacedInv
  BY CacheRemembers
<1> QED BY <1>1, <1>2, PTL DEF Spec, Spaced

\* A job that drops its event found a duplicate.
LEMMA DroppedIsDuplicate ==
  ASSUME TypeOK, Next, NEW j \in Jobs, Dropped(j)
  PROVE  CheckDuplicate(j)
<1>1. pc \in [Jobs -> {"idle", "checking", "marking"}]
  BY DEF TypeOK
<1>2. ~Tick /\ ~Cleanup
  BY DEF Dropped, Tick, Cleanup
<1>3. PICK k \in Jobs : Probe(k) \/ CheckDuplicate(k) \/ CheckNew(k) \/ Mark(k)
  BY <1>2 DEF Next
<1>4. k = j
  BY <1>1, <1>3 DEF Dropped, Probe, CheckDuplicate, CheckNew, Mark, Done
<1> QED BY <1>1, <1>3, <1>4 DEF Dropped, Probe, CheckNew, Mark

\* What the cache has of a series is the last event of some job that passed.
Backed == \A s \in Series : cache[s] # Never => \E k \in Jobs : passed[k][s] = cache[s]

LEMMA BackedStep ==
  ASSUME TypeOK, Backed, [Next]_vars
  PROVE  Backed'
<1> SUFFICES ASSUME NEW s \in Series, cache'[s] # Never
             PROVE  \E k \in Jobs : passed'[k][s] = cache'[s]
  BY DEF Backed
<1>1. CASE \E j \in Jobs : Mark(j)
  <2>1. PICK j \in Jobs : Mark(j)
    BY <1>1
  <2>2. Current(j) \in Series
    BY <2>1, CurrentType DEF Mark
  <2>3. /\ cache' = [cache EXCEPT ![Current(j)] = stamp[j]]
        /\ passed' = [passed EXCEPT ![j][Current(j)] = stamp[j]]
    BY <2>1 DEF Mark
  <2>4. CASE s = Current(j)
    BY <2>2, <2>3, <2>4 DEF TypeOK
  <2>5. CASE s # Current(j)
    <3>1. cache'[s] = cache[s] /\ \A k \in Jobs : passed'[k][s] = passed[k][s]
      BY <2>2, <2>3, <2>5 DEF TypeOK
    <3> QED BY <3>1 DEF Backed
  <2> QED BY <2>4, <2>5
<1>2. CASE ~\E j \in Jobs : Mark(j)
  <2>1. passed' = passed /\ cache'[s] = cache[s]
    BY <1>2 DEF Next, Tick, Cleanup, Probe, CheckDuplicate, AfterDuplicate, CheckNew, vars
  <2> QED BY <2>1 DEF Backed
<1> QED BY <1>1, <1>2

\* An event is dropped only in favour of one of its series that passed, less than
\* a window before it or at most the delay after it.
THEOREM DropsHaveAReason == Spec => DroppedForAnother
<1> DEFINE Show == \A j \in Jobs : Dropped(j) =>
                     \E k \in Jobs : LET last == passed[k][Current(j)]
                                     IN  /\ last # Never
                                         /\ stamp[j] - last < Window
                                         /\ last - stamp[j] <= Delay
<1>1. Init => Backed
  BY DEF Init, Backed, Never
<1>2. SpacedInv /\ Backed /\ [Next]_vars => Backed'
  BY BackedStep DEF SpacedInv
<1>3. SpacedInv /\ Backed /\ [Next]_vars => [Show]_vars
  <2> SUFFICES ASSUME SpacedInv, Backed, Next, NEW j \in Jobs, Dropped(j)
               PROVE  \E k \in Jobs : LET last == passed[k][Current(j)]
                                      IN  /\ last # Never
                                          /\ stamp[j] - last < Window
                                          /\ last - stamp[j] <= Delay
    BY DEF Dropped, vars
  <2>1. CheckDuplicate(j)
    BY DroppedIsDuplicate DEF SpacedInv
  <2>2. /\ cache[Current(j)] # Never /\ stamp[j] - cache[Current(j)] < Window
        /\ Current(j) \in Series
    BY <2>1, CurrentType DEF CheckDuplicate, IsDuplicate, SpacedInv
  <2>3. PICK k \in Jobs : passed[k][Current(j)] = cache[Current(j)]
    BY <2>2 DEF Backed
  <2>4. /\ passed[k][Current(j)] <= now /\ now <= stamp[j] + Delay
        /\ passed[k][Current(j)] \in Int /\ stamp[j] \in Int /\ now \in Int /\ Delay \in Int
    <3>1. pc[j] # "idle"
      BY <2>1 DEF CheckDuplicate
    <3>2. passed[k][Current(j)] \in Nat \cup {Never} /\ stamp[j] \in Nat /\ now \in Nat
      BY <2>2 DEF SpacedInv, TypeOK
    <3> QED BY <2>2, <3>1, <3>2, DedupAssumption DEF SpacedInv, Never
  <2>5. passed[k][Current(j)] - stamp[j] <= Delay
    BY <2>4
  <2> QED BY <2>2, <2>3, <2>5
<1>4. Spec => []SpacedInv
  BY CacheRemembers
<1> QED BY <1>1, <1>2, <1>3, <1>4, PTL DEF Spec, DroppedForAnother

-----------------------------------------------------------------------------
(* Results *)

\* A success has the address of its host, and for ICMP a source; a failure has no
\* address, or for ICMP no source.
Apt(t, r) ==
  /\ r.success \in BOOLEAN
  /\ r.success => r.ip \in Addresses
  /\ r.success /\ t.protocol = "icmp" => r.source \in Addresses
  /\ ~r.success /\ t.protocol # "icmp" => r.ip = Unset
  /\ ~r.success => r.source = Unset

LEMMA FailedApt ==
  ASSUME NEW t, NEW port, NEW at, NEW ip, t.protocol # "icmp" => ip = Unset
  PROVE  Apt(t, Failed(port, at, ip))
BY DEF Apt, Failed

LEMMA SucceededApt ==
  ASSUME NEW t, NEW port, NEW ip \in Addresses, NEW source,
         t.protocol = "icmp" => source \in Addresses
  PROVE  Apt(t, Succeeded(port, ip, source))
BY DEF Apt, Succeeded

LEMMA Outcome ==
  ASSUME ~LookupMayFail, NEW t \in Targets, NEW r \in Execute(t)
  PROVE  Apt(t, r)
<1>1. AddressesOf[t.host] \subseteq Addresses /\ t.protocol \in Protocols
  BY ProbesAssumption DEF Targets
<1>2. \A noted : LookedUp(t, noted) \subseteq Addresses
  BY <1>1 DEF LookedUp
<1>3. CASE t.protocol = "tcp"
  <2>1. r \in TCPExecute(t)
    BY <1>3 DEF Execute, Creators
  <2> QED BY <1>1, <1>3, <2>1, FailedApt, SucceededApt DEF TCPExecute
<1>4. CASE t.protocol = "udp"
  <2>1. r \in UDPExecute(t)
    BY <1>4 DEF Execute, Creators
  <2> QED BY <1>1, <1>4, <2>1, FailedApt, SucceededApt DEF UDPExecute
<1>5. CASE t.protocol = "icmp"
  <2>1. r \in ICMPExecute(t)
    BY <1>5 DEF Execute, Creators
  <2> QED BY <1>1, <1>5, <2>1, FailedApt, SucceededApt DEF ICMPExecute
<1>6. CASE t.protocol \in {"http", "https"}
  <2>1. r \in HTTPExecute(t)
    BY <1>6 DEF Execute, Creators
  <2> QED BY <1>1, <1>2, <1>6, <2>1, FailedApt, SucceededApt DEF HTTPExecute
<1>7. CASE t.protocol = "dns"
  <2>1. r \in DNSExecute(t)
    BY <1>7 DEF Execute, Creators
  <2> QED BY <1>1, <1>2, <1>7, <2>1, FailedApt, SucceededApt DEF DNSExecute
<1>8. CASE t.protocol = "grpc"
  <2>1. r \in GRPCExecute(t)
    BY <1>8 DEF Execute, Creators
  <2> QED BY <1>1, <1>2, <1>8, <2>1, FailedApt, SucceededApt DEF GRPCExecute
<1> QED BY <1>1, <1>3, <1>4, <1>5, <1>6, <1>7, <1>8 DEF Protocols

\* No series holds successes and failures, whatever the targets.
THEOREM OutcomesApart ==
  ASSUME ~LookupMayFail,
         NEW t \in Targets, NEW r \in Execute(t),
         NEW u \in Targets, NEW q \in Execute(u),
         SeriesID(t, r) = SeriesID(u, q)
  PROVE  r.success = q.success
<1>1. t.protocol = u.protocol /\ r.ip = q.ip /\ r.source = q.source
  BY DEF SeriesID
<1>2. Unset \notin Addresses
  BY ProbesAssumption
<1>3. r.success \in BOOLEAN /\ q.success \in BOOLEAN
  BY Outcome DEF Apt
<1>4. ~(r.success /\ ~q.success)
  BY <1>1, <1>2, Outcome DEF Apt
<1>5. ~(q.success /\ ~r.success)
  BY <1>1, <1>2, Outcome DEF Apt
<1> QED BY <1>3, <1>4, <1>5

\* The same of events, which is what Dedup compares.
LEMMA EventsApart ==
  ASSUME ~LookupMayFail, NEW e \in Events, NEW f \in Events, SeriesOf[e] = SeriesOf[f]
  PROVE  e.success = f.success
<1>1. PICK j \in Jobs : \E r \in Execute(TargetOf[j]) : e = Normalized(TargetOf[j], r)
  BY DedupOfResults DEF AllEvents, JobEvents
<1>2. PICK k \in Jobs : \E q \in Execute(TargetOf[k]) : f = Normalized(TargetOf[k], q)
  BY DedupOfResults DEF AllEvents, JobEvents
<1>3. e.series = f.series
  BY DedupOfResults DEF EventSeries
<1> PICK r \in Execute(TargetOf[j]) : e = Normalized(TargetOf[j], r)
  BY <1>1
<1> PICK q \in Execute(TargetOf[k]) : f = Normalized(TargetOf[k], q)
  BY <1>2
<1>4. SeriesID(TargetOf[j], r) = SeriesID(TargetOf[k], q)
  BY <1>3 DEF Normalized
<1>5. TargetOf[j] \in Targets /\ TargetOf[k] \in Targets
  BY ResultsAssumption
<1>6. r.success = q.success
  BY <1>4, <1>5, OutcomesApart
<1> QED BY <1>6 DEF Normalized

-----------------------------------------------------------------------------
\* What is in the cache was put there by an event of that series.
Marked ==
  \A s \in Series : cache[s] # Never => marker[s] \in Events /\ SeriesOf[marker[s]] = s

LEMMA MarkedStep ==
  ASSUME TypeOK, Marked, [Next]_vars
  PROVE  Marked'
<1> USE DedupAssumption DEF TypeOK, Marked
<1>1. CASE Tick \/ UNCHANGED vars
  BY <1>1 DEF Tick, vars
<1>2. CASE Cleanup
  BY <1>2 DEF Cleanup
<1>3. ASSUME NEW j \in Jobs, Probe(j) \/ CheckDuplicate(j) \/ CheckNew(j) PROVE Marked'
  BY <1>3 DEF Probe, CheckDuplicate, AfterDuplicate, CheckNew
<1>4. ASSUME NEW j \in Jobs, Mark(j) PROVE Marked'
  <2>1. event[j] \in Events /\ Current(j) = SeriesOf[event[j]] /\ Current(j) \in Series
    BY <1>4 DEF Mark, Current
  <2>2. /\ cache' = [cache EXCEPT ![Current(j)] = stamp[j]]
        /\ marker' = [marker EXCEPT ![Current(j)] = event[j]]
    BY <1>4 DEF Mark
  <2> QED BY <2>1, <2>2
<1> QED BY <1>1, <1>2, <1>3, <1>4 DEF Next

\* No event is dropped for one of the other outcome, whichever jobs share its series.
THEOREM DropsAreLikeForLike ==
  ASSUME ~LookupMayFail
  PROVE  Spec => LikeForLike
<1> DEFINE Show == \A j \in Jobs : Dropped(j) => marker[Current(j)].success = event[j].success
<1>1. Init => Marked
  BY DEF Init, Marked, Never
<1>2. SpacedInv /\ Marked /\ [Next]_vars => Marked'
  BY MarkedStep DEF SpacedInv
<1>3. SpacedInv /\ Marked /\ [Next]_vars => [Show]_vars
  <2> SUFFICES ASSUME SpacedInv, Marked, Next, NEW j \in Jobs, Dropped(j)
               PROVE  marker[Current(j)].success = event[j].success
    BY DEF Dropped, vars
  <2>1. CheckDuplicate(j)
    BY DroppedIsDuplicate DEF SpacedInv
  <2>2. cache[Current(j)] # Never
    BY <2>1 DEF CheckDuplicate, IsDuplicate
  <2>3. event[j] \in Events /\ Current(j) = SeriesOf[event[j]] /\ Current(j) \in Series
    BY <2>1, DedupAssumption DEF CheckDuplicate, SpacedInv, TypeOK, Current
  <2>4. marker[Current(j)] \in Events /\ SeriesOf[marker[Current(j)]] = SeriesOf[event[j]]
    BY <2>2, <2>3 DEF Marked
  <2> QED BY <2>3, <2>4, EventsApart
<1>4. Spec => []SpacedInv
  BY CacheRemembers
<1> QED BY <1>1, <1>2, <1>3, <1>4, PTL DEF Spec, LikeForLike
=============================================================================

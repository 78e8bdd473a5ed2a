-------------------------- MODULE Scheduler_proofs --------------------------
(***************************************************************************)
(* Proofs about Scheduler, for any jobs, periods, channel and slots: types *)
(* and counters whatever the IDs; the round of each job, complete passes   *)
(* and the refinement of ProbeCycle if no two jobs share an ID.            *)
(***************************************************************************)
EXTENDS Scheduler, SequenceTheorems, FiniteSetTheorems, TLAPS

\* Every key is an integer after the clock advanced.
LEMMA AgedType ==
  ASSUME TypeOK
  PROVE  Aged \in [Jobs -> Int]
<1> DEFINE later == [j \in Jobs |-> IF j \in Compared THEN nextRun[j] - 1 ELSE nextRun[j]]
           past  == {later[j] : j \in {k \in Compared : later[k] < 0}}
           Before(j) == {v \in past : v > later[j]}
<1>1. later \in [Jobs -> Int]
  BY DEF TypeOK
<1>2. Compared \subseteq Jobs
  <2>1. ASSUME NEW s \in Slots, pc[s] = "rescheduling" PROVE work[s] \in Jobs
    BY <2>1 DEF TypeOK
  <2> QED BY <2>1 DEF Compared, Queued
<1>3. IsFiniteSet(past)
  <2>1. IsFiniteSet({k \in Compared : later[k] < 0})
    BY <1>2, FS_Subset, SchedulerAssumption
  <2> DEFINE S == {k \in Compared : later[k] < 0}
             f == [k \in S |-> later[k]]
  <2> HIDE DEF later
  <2>2. f \in Surjection(S, past)
    BY DEF Surjection
  <2> HIDE DEF f
  <2>3. IsFiniteSet(S)
    BY <2>1
  <2> HIDE DEF S, past
  <2> QED BY <2>2, <2>3, FS_Surjection
<1>4. ASSUME NEW j \in Jobs PROVE Cardinality(Before(j)) \in Nat
  BY <1>3, FS_Subset, FS_CardinalityType
<1>5. ASSUME NEW j \in Jobs
      PROVE  (IF j \in Compared /\ later[j] < 0
              THEN -1 - Cardinality(Before(j)) ELSE later[j]) \in Int
  <2> HIDE DEF later, past
  <2> QED BY <1>1, <1>4
<1> QED BY <1>5 DEF Aged

\* A goroutine that has not released its slot works on a job.
LEMMA WorksOnAJob ==
  ASSUME TypeOK, NEW s \in Slots, pc[s] # "free"
  PROVE  work[s] \in Jobs
BY DEF TypeOK

\* Init and every step keep the types.
LEMMA TypeInit == Init => TypeOK
<1> SUFFICES ASSUME Init PROVE TypeOK
  OBVIOUS
<1>1. jobChan \in Seq(Jobs) /\ Len(jobChan) <= ChanCap
  BY SchedulerAssumption DEF Init
<1>2. interval \in [Jobs -> Nat \ {0}]
  BY SchedulerAssumption DEF Init
<1>3. /\ pc \in [Slots -> PCs] /\ work \in [Slots -> Jobs \cup {NoJob}]
      /\ \A s \in Slots : work[s] = NoJob <=> pc[s] = "free"
  BY DEF Init, PCs
<1>4. /\ heap \in [Jobs -> Nat] /\ stored \in [Ids -> Jobs \cup {NoJob}]
      /\ nextRun \in [Jobs -> Int]
  BY DEF Init
<1>5. ordered \in BOOLEAN /\ ticked \in BOOLEAN /\ mu \in {"free", "loop"}
  BY DEF Init
<1>6. /\ fresh \subseteq Jobs /\ stopping \in {"no", "cancelled", "stopped"}
      /\ hand \in Jobs \cup {NoJob}
  BY DEF Init
<1>7. /\ totalJobs \in Nat /\ queuedJobs \in Int /\ runningJobs \in Nat
  BY DEF Init
<1> QED BY <1>1, <1>2, <1>3, <1>4, <1>5, <1>6, <1>7 DEF TypeOK

LEMMA TypeStep ==
  ASSUME TypeOK, [Next]_vars
  PROVE  TypeOK'
<1> USE SchedulerAssumption DEF TypeOK, PCs
<1>1. CASE Tick
  BY <1>1, AgedType DEF Tick, poolVars, stats
<1>2. ASSUME NEW j \in Jobs, Schedule(j) PROVE TypeOK'
  BY <1>2 DEF Schedule, Pushed, KeepsOrder, loopVars, poolVars
<1>3. CASE LoopBegin
  BY <1>3 DEF LoopBegin, heapVars, poolVars, stats
<1>4. ASSUME NEW j \in Jobs, LoopSend(j) PROVE TypeOK'
  <2>1. heap[j] > 0
    BY <1>4 DEF LoopSend, DueRoot, Roots, Queued
  <2>2. heap' \in [Jobs -> Nat] /\ nextRun' \in [Jobs -> Int] /\ ordered' \in BOOLEAN
    <3>1. heap' \in [Jobs -> Nat]
      BY <1>4, <2>1 DEF LoopSend, Popped
    <3>2. nextRun' \in [Jobs -> Int]
      BY <1>4 DEF LoopSend, StoredKey
    <3>3. ordered' \in BOOLEAN
      BY <1>4 DEF LoopSend, KeepsOrder
    <3> QED BY <3>1, <3>2, <3>3
  <2>3. jobChan' \in Seq(Jobs) /\ Len(jobChan') <= ChanCap
    <3>1. jobChan' = Append(jobChan, j) /\ Len(jobChan) < ChanCap
      BY <1>4 DEF LoopSend, HasRoom
    <3> QED BY <3>1
  <2> QED BY <1>4, <2>2, <2>3 DEF LoopSend, loopVars, poolVars
<1>5. ASSUME NEW j \in Jobs, LoopFull(j) PROVE TypeOK'
  BY <1>5 DEF LoopFull, DueRoot, Roots, Queued, StoredKey, PutBack, Unlock, KeepsOrder, poolVars, stats
<1>6. CASE LoopEnd
  BY <1>6 DEF LoopEnd, Unlock, heapVars, poolVars, stats
<1>7. CASE Stop \/ RunReturns
  BY <1>7 DEF Stop, RunReturns, heapVars, poolVars, stats
<1>8. CASE Receive
  BY <1>8 DEF Receive, heapVars, loopVars, stats
<1>9. ASSUME NEW s \in Slots, Acquire(s) PROVE TypeOK'
  BY <1>9 DEF Acquire, heapVars, loopVars, stats
<1>10. ASSUME NEW s \in Slots, MarkJobStarted(s) PROVE TypeOK'
  BY <1>10 DEF MarkJobStarted, heapVars, loopVars
<1>11. ASSUME NEW s \in Slots, MarkJobDone(s) \/ ProbeRefused(s) PROVE TypeOK'
  <2>1. MarkJob(s) /\ \E next \in PCs \ {"free"} : pc' = [pc EXCEPT ![s] = next]
    BY <1>11 DEF MarkJobDone, ProbeRefused
  <2>2. runningJobs' \in Nat
    BY <2>1 DEF MarkJob, Lowered
  <2>3. /\ pc[s] = "probing"
        /\ UNCHANGED <<fresh, heapVars, jobChan, loopVars, hand, work, totalJobs, queuedJobs>>
    BY <2>1 DEF MarkJob
  <2>4. pc' \in [Slots -> PCs] /\ \A t \in Slots : work[t] = NoJob <=> pc'[t] = "free"
    BY <2>1, <2>3
  <2> QED BY <2>2, <2>3, <2>4 DEF heapVars, loopVars
<1>12. ASSUME NEW s \in Slots, Stamp(s) PROVE TypeOK'
  BY <1>12 DEF Stamp, KeepsOrder, loopVars, stats
<1>13. ASSUME NEW s \in Slots, Reschedule(s) PROVE TypeOK'
  <2> DEFINE j == work[s]
             job == IF stored[IdOf[j]] # NoJob THEN stored[IdOf[j]] ELSE j
             key == [nextRun EXCEPT ![job] = nextRun[j]]
  <2>1. j \in Jobs /\ job \in Jobs
    BY <1>13, WorksOnAJob DEF Reschedule
  <2>2. stored' \in [Ids -> Jobs \cup {NoJob}] /\ totalJobs' \in Nat
    <3> HIDE DEF job
    <3>1. /\ stored' = [stored EXCEPT ![IdOf[j]] = job]
          /\ totalJobs' = IF stored[IdOf[j]] = NoJob THEN totalJobs + 1 ELSE totalJobs
      BY <1>13 DEF Reschedule, job
    <3> QED BY <3>1, <2>1
  <2>3. /\ nextRun' \in [Jobs -> Int] /\ interval' \in [Jobs -> Nat \ {0}]
        /\ heap' \in [Jobs -> Nat] /\ ordered' \in BOOLEAN
    <3> HIDE DEF job
    <3>1. /\ nextRun' = key /\ interval' = [interval EXCEPT ![job] = interval[j]]
          /\ heap' = Pushed(job) /\ ordered' = KeepsOrder(Pushed(job), key)
      BY <1>13 DEF Reschedule, job
    <3> QED BY <3>1, <2>1 DEF Pushed, KeepsOrder
  <2>4. /\ pc' = [pc EXCEPT ![s] = "releasing"] /\ pc[s] # "free"
        /\ queuedJobs' \in Int
        /\ UNCHANGED <<fresh, jobChan, loopVars, hand, work, runningJobs>>
    BY <1>13 DEF Reschedule
  <2> HIDE DEF j, job, key
  <2> QED BY <2>2, <2>3, <2>4 DEF loopVars
<1>14. ASSUME NEW s \in Slots, Release(s) PROVE TypeOK'
  BY <1>14 DEF Release, heapVars, loopVars, stats
<1>15. CASE UNCHANGED vars
  BY <1>15 DEF vars, heapVars, loopVars, poolVars, stats
<1> QED
  BY <1>1, <1>2, <1>3, <1>4, <1>5, <1>6, <1>7, <1>8, <1>9, <1>10, <1>11, <1>12,
     <1>13, <1>14, <1>15 DEF Next, Loop, Worker

\* The scheduler and its pool keep their types, however many jobs share an ID.
THEOREM TypeCorrect == Spec => []TypeOK
<1>1. Init => TypeOK
  BY TypeInit
<1>2. TypeOK /\ [Next]_vars => TypeOK'
  BY TypeStep
<1> QED BY <1>1, <1>2, PTL DEF Spec

-----------------------------------------------------------------------------
(* Where jobs are *)

\* The positions of a job in the channel, and how a send and a receive move them.
LEMMA InChanFinite ==
  ASSUME TypeOK, NEW j
  PROVE  IsFiniteSet(InChan(j)) /\ Cardinality(InChan(j)) \in Nat
<1>1. IsFiniteSet(1..Len(jobChan))
  BY FS_Interval DEF TypeOK
<1>2. InChan(j) \in SUBSET (1..Len(jobChan))
  BY DEF InChan
<1> QED BY <1>1, <1>2, FS_Subset, FS_CardinalityType

LEMMA SendCounts ==
  ASSUME TypeOK, NEW j \in Jobs, NEW k \in Jobs, jobChan' = Append(jobChan, j)
  PROVE  Cardinality(InChan(k)') = Cardinality(InChan(k)) + (IF k = j THEN 1 ELSE 0)
<1> DEFINE n == Len(jobChan)
<1>1. /\ n \in Nat /\ Len(jobChan') = n + 1 /\ jobChan'[n + 1] = j
      /\ \A i \in 1..n : jobChan'[i] = jobChan[i]
  BY AppendProperties DEF TypeOK
<1> HIDE DEF n
<1>2. n + 1 \notin InChan(k) /\ 1..n + 1 = 1..n \cup {n + 1}
  BY <1>1 DEF InChan, n
<1>3. InChan(k)' = IF k = j THEN InChan(k) \cup {n + 1} ELSE InChan(k)
  BY <1>1, <1>2 DEF InChan, n
<1>4. CASE k = j
  BY <1>2, <1>3, <1>4, InChanFinite, FS_AddElement
<1>5. CASE k # j
  BY <1>3, <1>5, InChanFinite
<1> QED BY <1>4, <1>5

\* The positions that stay move up by one.
LEMMA ReceiveCounts ==
  ASSUME TypeOK, NEW k \in Jobs, jobChan # <<>>, jobChan' = Tail(jobChan)
  PROVE  Cardinality(InChan(k)') =
           Cardinality(InChan(k)) - (IF k = Head(jobChan) THEN 1 ELSE 0)
<1> DEFINE later == InChan(k) \ {1}
           f == [i \in InChan(k)' |-> i + 1]
<1>1. /\ Len(jobChan) \in Nat \ {0} /\ Len(jobChan') = Len(jobChan) - 1
      /\ \A i \in 1..Len(jobChan') : jobChan'[i] = jobChan[i + 1]
      /\ Head(jobChan) = jobChan[1]
  BY HeadTailProperties, EmptySeq DEF TypeOK
<1>2. IsFiniteSet(InChan(k)) /\ Cardinality(InChan(k)) \in Nat
  BY InChanFinite
<1>3. later = {i + 1 : i \in InChan(k)'}
  <2>1. \A i \in InChan(k)' : i + 1 \in later
    BY <1>1 DEF InChan
  <2>2. \A m \in later : m - 1 \in InChan(k)' /\ m = (m - 1) + 1
    BY <1>1 DEF InChan
  <2> HIDE DEF later
  <2> QED BY <2>1, <2>2
<1>4. f \in Bijection(InChan(k)', later)
  <2>1. \A i \in InChan(k)' : i \in Int
    BY DEF InChan
  <2>2. f \in [InChan(k)' -> later] /\ \A m \in later : \E i \in InChan(k)' : f[i] = m
    BY <1>3
  <2>3. \A i, m \in InChan(k)' : f[i] = f[m] => i = m
    BY <2>1
  <2> HIDE DEF f, later
  <2> QED BY <2>2, <2>3 DEF Bijection, Injection, IsInjective, Surjection
<1>5. IsFiniteSet(InChan(k)')
  <2>1. InChan(k)' \in SUBSET (1..Len(jobChan')) /\ Len(jobChan') \in Int
    BY <1>1 DEF InChan
  <2> QED BY <2>1, FS_Interval, FS_Subset
<1>6. Cardinality(later) = Cardinality(InChan(k)')
  <2>1. ExistsBijection(InChan(k)', later)
    BY <1>4 DEF ExistsBijection
  <2> HIDE DEF f, later
  <2> QED BY <1>5, <2>1, FS_Bijection
<1>7. 1 \in InChan(k) <=> k = Head(jobChan)
  BY <1>1 DEF InChan
<1>8. Cardinality(later) = IF 1 \in InChan(k) THEN Cardinality(InChan(k)) - 1
                                             ELSE Cardinality(InChan(k))
  BY <1>2, FS_RemoveElement
<1> HIDE DEF later
<1>9. CASE k = Head(jobChan)
  BY <1>6, <1>7, <1>8, <1>9
<1>10. CASE k # Head(jobChan)
  BY <1>2, <1>6, <1>7, <1>8, <1>10
<1> QED BY <1>9, <1>10

\* A received job is one that was in the channel.
LEMMA HeadIsInChan ==
  ASSUME TypeOK, jobChan # <<>>
  PROVE  Head(jobChan) \in Jobs /\ InChan(Head(jobChan)) # {}
<1>1. Head(jobChan) \in Jobs /\ Len(jobChan) \in Nat \ {0} /\ Head(jobChan) = jobChan[1]
  BY HeadTailProperties, EmptySeq DEF TypeOK
<1> QED BY <1>1 DEF InChan

\* The slots that carry a job are finitely many.
LEMMA CarriedFinite ==
  ASSUME NEW j
  PROVE  IsFiniteSet(CarriedBy(j)) /\ Cardinality(CarriedBy(j)) \in Nat
<1>1. CarriedBy(j) \in SUBSET Slots
  BY DEF CarriedBy, Carrying
<1> QED BY <1>1, SchedulerAssumption, FS_Subset, FS_CardinalityType

\* A job in any of its places was scheduled.
LEMMA Somewhere ==
  ASSUME TypeOK, Known, NEW j \in Jobs,
         heap[j] > 0 \/ InChan(j) # {} \/ hand = j \/ \E s \in Slots : work[s] = j
  PROVE  j \notin fresh /\ stored[IdOf[j]] \in Jobs \ fresh /\ IdOf[j] \in Ids
BY SchedulerAssumption DEF Known, TypeOK

-----------------------------------------------------------------------------
(* What is known of scheduled jobs *)

LEMMA KnownInit == Init => Known
BY SchedulerAssumption DEF Init, Known, InChan

\* Every step keeps fresh jobs out of the round and scheduled ones stored.
LEMMA KnownStep ==
  ASSUME TypeOK, Known, [Next]_vars
  PROVE  Known'
<1> USE SchedulerAssumption DEF TypeOK
<1>1. ASSUME UNCHANGED <<fresh, heap, stored, jobChan, hand, work>> PROVE Known'
  BY <1>1 DEF Known, InChan
<1>2. ASSUME NEW j \in Jobs, Schedule(j) PROVE Known'
  <2>1. /\ fresh' = fresh \ {j} /\ heap' = [heap EXCEPT ![j] = @ + 1]
        /\ stored' = [stored EXCEPT ![IdOf[j]] = j]
        /\ UNCHANGED <<jobChan, hand, work>>
    BY <1>2 DEF Schedule, Pushed, poolVars
  <2> QED BY <2>1 DEF Known, InChan
<1>3. ASSUME NEW j \in Jobs, LoopSend(j) PROVE Known'
  <2>1. /\ heap' = [heap EXCEPT ![j] = @ - 1] /\ jobChan' = Append(jobChan, j)
        /\ UNCHANGED <<fresh, stored, hand, work>> /\ heap[j] > 0
    BY <1>3 DEF LoopSend, Popped, poolVars, DueRoot, Roots, Queued
  <2>2. ASSUME NEW k \in fresh PROVE InChan(k)' = {}
    <3>1. k # j /\ InChan(k) = {}
      BY <2>1 DEF Known
    <3>2. /\ Len(jobChan') = Len(jobChan) + 1 /\ jobChan'[Len(jobChan) + 1] = j
          /\ \A n \in 1..Len(jobChan) : jobChan'[n] = jobChan[n]
      BY <2>1, AppendProperties
    <3>3. ASSUME NEW n \in 1..Len(jobChan') PROVE jobChan'[n] # k
      <4> DEFINE m == Len(jobChan)
      <4>0. m \in Nat /\ n \in 1..m + 1
        BY <3>2
      <4> HIDE DEF m
      <4>1. n \in 1..m \/ n = m + 1
        BY <4>0
      <4> USE DEF m
      <4> QED BY <3>1, <3>2, <4>1 DEF InChan
    <3> QED BY <3>3 DEF InChan
  <2>3. ASSUME NEW k \in fresh
        PROVE heap'[k] = 0 /\ hand' # k /\ \A s \in Slots : work'[s] # k
    BY <2>1 DEF Known
  <2> QED BY <2>1, <2>2, <2>3 DEF Known
<1>4. CASE Receive
  <2>1. /\ hand' = Head(jobChan) /\ jobChan' = Tail(jobChan) /\ jobChan # <<>>
        /\ UNCHANGED <<fresh, heap, stored, work>>
    BY <1>4 DEF Receive, heapVars
  <2>2. ASSUME NEW k \in fresh PROVE InChan(k)' = {} /\ hand' # k
    <3>1. InChan(k) = {}
      BY DEF Known
    <3>2. \A n \in 1..Len(jobChan') : n + 1 \in 1..Len(jobChan) /\ jobChan'[n] = jobChan[n + 1]
      BY <2>1, HeadTailProperties, EmptySeq
    <3>3. \A n \in 1..Len(jobChan') : jobChan'[n] # k
      BY <3>1, <3>2 DEF InChan
    <3>4. Head(jobChan) # k
      BY <2>1, <3>1, HeadIsInChan
    <3> QED BY <2>1, <3>3, <3>4 DEF InChan
  <2> QED BY <2>1, <2>2 DEF Known
<1>5. ASSUME NEW s \in Slots, Acquire(s) PROVE Known'
  BY <1>5 DEF Acquire, heapVars, Known, InChan
<1>6. ASSUME NEW s \in Slots, Reschedule(s) PROVE Known'
  <2> DEFINE j == work[s]
             job == IF stored[IdOf[j]] # NoJob THEN stored[IdOf[j]] ELSE j
  <2>1. j \in Jobs /\ j \notin fresh /\ stored[IdOf[j]] \in Jobs \ fresh /\ IdOf[j] \in Ids
    BY <1>6, WorksOnAJob, Somewhere DEF Reschedule
  <2>2. job = stored[IdOf[j]]
    BY <2>1
  <2>3. /\ heap' = [heap EXCEPT ![job] = @ + 1] /\ stored' = [stored EXCEPT ![IdOf[j]] = job]
        /\ UNCHANGED <<fresh, jobChan, hand, work>>
    BY <1>6 DEF Reschedule, Pushed
  <2> HIDE DEF j, job
  <2>4. stored' = stored
    BY <2>2, <2>3
  <2>5. \A k \in fresh : heap'[k] = heap[k]
    BY <2>1, <2>2, <2>3
  <2>6. \A k \in fresh : InChan(k)' = InChan(k)
    BY <2>3 DEF InChan
  <2> QED BY <2>3, <2>4, <2>5, <2>6 DEF Known
<1>7. ASSUME NEW s \in Slots, Release(s) PROVE Known'
  BY <1>7 DEF Release, heapVars, Known, InChan
<1>8. CASE Tick \/ LoopBegin \/ LoopEnd \/ Stop \/ RunReturns \/ UNCHANGED vars
  BY <1>1, <1>8 DEF Tick, LoopBegin, LoopEnd, Stop, RunReturns, vars, heapVars, poolVars
<1>9. ASSUME NEW j \in Jobs, LoopFull(j) PROVE Known'
  BY <1>1, <1>9 DEF LoopFull, PutBack, poolVars
<1>10. ASSUME NEW s \in Slots, MarkJobStarted(s) \/ MarkJobDone(s) \/ ProbeRefused(s)
       PROVE  Known'
  BY <1>1, <1>10 DEF MarkJobStarted, MarkJobDone, ProbeRefused, MarkJob, heapVars
<1>11. ASSUME NEW s \in Slots, Stamp(s) PROVE Known'
  BY <1>1, <1>11 DEF Stamp
<1> QED
  BY <1>2, <1>3, <1>4, <1>5, <1>6, <1>7, <1>8, <1>9, <1>10, <1>11 DEF Next, Loop, Worker

-----------------------------------------------------------------------------
(* The counters *)

\* The heap is finite; a push adds an element and a pop removes one.
LEMMA ElementsFinite ==
  ASSUME TypeOK
  PROVE  IsFiniteSet(Elements) /\ Cardinality(Elements) \in Nat
<1> DEFINE Of == [j \in Jobs |-> {j} \X (1..heap[j])]
           All == {Of[j] : j \in Jobs}
<1>1. \A j \in Jobs : IsFiniteSet(Of[j])
  <2>1. \A j \in Jobs : IsFiniteSet({j}) /\ IsFiniteSet(1..heap[j])
    BY FS_Singleton, FS_Interval DEF TypeOK
  <2> QED BY <2>1, FS_Product
<1>2. Elements = UNION All
  BY DEF Elements
<1> HIDE DEF Of
<1>3. IsFiniteSet(All)
  <2>1. Of \in Surjection(Jobs, All)
    BY DEF Surjection, Of
  <2> QED BY <2>1, FS_Surjection, SchedulerAssumption
<1>4. IsFiniteSet(UNION All)
  BY <1>1, <1>3, FS_UNION
<1> QED BY <1>2, <1>4, FS_CardinalityType

LEMMA PushCounts ==
  ASSUME TypeOK, NEW j \in Jobs, heap' = Pushed(j)
  PROVE  Cardinality(Elements') = Cardinality(Elements) + 1
<1>1. \A k \in Jobs : heap[k] \in Nat /\ heap'[k] = IF k = j THEN heap[j] + 1 ELSE heap[k]
  BY DEF TypeOK, Pushed
<1>2. 1..heap[j] + 1 = 1..heap[j] \cup {heap[j] + 1} /\ heap[j] + 1 \notin 1..heap[j]
  BY <1>1
<1>3. Elements' = Elements \cup {<<j, heap[j] + 1>>}
  BY <1>1, <1>2 DEF Elements
<1>4. <<j, heap[j] + 1>> \notin Elements
  BY <1>2 DEF Elements
<1> QED BY <1>3, <1>4, ElementsFinite, FS_AddElement

LEMMA PopCounts ==
  ASSUME TypeOK, NEW j \in Jobs, heap[j] > 0, heap' = Popped(j)
  PROVE  Cardinality(Elements') = Cardinality(Elements) - 1
<1>1. \A k \in Jobs : heap[k] \in Nat /\ heap'[k] = IF k = j THEN heap[j] - 1 ELSE heap[k]
  BY DEF TypeOK, Popped
<1>2. 1..heap[j] - 1 = (1..heap[j]) \ {heap[j]} /\ heap[j] \in 1..heap[j]
  BY <1>1
<1>3. Elements' = Elements \ {<<j, heap[j]>>}
  BY <1>1, <1>2 DEF Elements
<1>4. <<j, heap[j]>> \in Elements
  BY <1>2 DEF Elements
<1> QED BY <1>3, <1>4, ElementsFinite, FS_RemoveElement

LEMMA ElementsKept ==
  ASSUME heap' = heap
  PROVE  Cardinality(Elements') = Cardinality(Elements)
BY DEF Elements

\* The IDs stored are finitely many, as each has a job of its own.
LEMMA StoredFinite ==
  ASSUME TypeOK, Known
  PROVE  IsFiniteSet({i \in Ids : stored[i] # NoJob})
<1> DEFINE S == {i \in Ids : stored[i] # NoJob}
           f == [i \in S |-> stored[i]]
<1>1. f \in Injection(S, Jobs)
  <2>1. \A i \in S : stored[i] \in Jobs /\ IdOf[stored[i]] = i
    BY DEF TypeOK, Known
  <2>2. f \in [S -> Jobs]
    BY <2>1
  <2>3. \A i, k \in S : f[i] = f[k] => i = k
    BY <2>1
  <2> HIDE DEF f, S
  <2> QED BY <2>2, <2>3 DEF Injection, IsInjective
<1> HIDE DEF f, S
<1> QED BY <1>1, FS_Injection, SchedulerAssumption DEF S

\* Storing a job counts its ID, unless that is stored already.
LEMMA StoreCounts ==
  ASSUME TypeOK, Known, NEW i \in Ids, NEW j \in Jobs, stored' = [stored EXCEPT ![i] = j]
  PROVE  Cardinality({k \in Ids : stored'[k] # NoJob}) =
           Cardinality({k \in Ids : stored[k] # NoJob}) + (IF stored[i] = NoJob THEN 1 ELSE 0)
<1> DEFINE S == {k \in Ids : stored[k] # NoJob}
<1>1. {k \in Ids : stored'[k] # NoJob} = S \cup {i}
  BY SchedulerAssumption DEF TypeOK
<1>2. IsFiniteSet(S) /\ Cardinality(S) \in Nat
  BY StoredFinite, FS_CardinalityType
<1>3. i \in S <=> stored[i] # NoJob
  OBVIOUS
<1> HIDE DEF S
<1>4. CASE i \in S
  <2>1. Cardinality(S \cup {i}) = Cardinality(S)
    BY <1>2, <1>4, FS_AddElement
  <2> QED BY <1>1, <1>2, <1>3, <1>4, <2>1 DEF S
<1>5. CASE i \notin S
  <2>1. Cardinality(S \cup {i}) = Cardinality(S) + 1
    BY <1>2, <1>5, FS_AddElement
  <2> QED BY <1>1, <1>3, <1>5, <2>1 DEF S
<1> QED BY <1>4, <1>5

Probing == {s \in Slots : pc[s] = "probing"}

LEMMA ProbingFinite == IsFiniteSet(Probing) /\ Cardinality(Probing) \in Nat
<1>1. Probing \in SUBSET Slots
  BY DEF Probing
<1> QED BY <1>1, SchedulerAssumption, FS_Subset, FS_CardinalityType

LEMMA CountInit == Init => CountInv
<1> SUFFICES ASSUME Init PROVE CountersAgree
  BY TypeInit, KnownInit DEF CountInv
<1>1. Elements = {}
  BY DEF Init, Elements
<1>2. {s \in Slots : pc[s] = "probing"} = {} /\ {i \in Ids : stored[i] # NoJob} = {}
  BY DEF Init
<1> QED BY <1>1, <1>2, FS_EmptySet DEF Init, CountersAgree

\* Every step changes the counters with what they count.
LEMMA CountStep ==
  ASSUME CountInv, [Next]_vars
  PROVE  CountersAgree'
<1>0. TypeOK /\ Known /\ CountersAgree
  BY DEF CountInv
<1>1. ASSUME UNCHANGED <<heap, stored, queuedJobs, runningJobs, totalJobs>>, Probing' = Probing
      PROVE  CountersAgree'
  BY <1>0, <1>1, ElementsKept DEF CountersAgree, Probing
<1>2. ASSUME NEW j \in Jobs, Schedule(j) PROVE CountersAgree'
  <2>1. IdOf[j] \in Ids
    BY SchedulerAssumption
  <2>2. Cardinality(Elements') = Cardinality(Elements) + 1
    BY <1>0, <1>2, PushCounts DEF Schedule
  <2>3. totalJobs' = Cardinality({i \in Ids : stored[i] # NoJob})
                       + (IF stored[IdOf[j]] = NoJob THEN 1 ELSE 0)
    BY <1>0, <1>2 DEF Schedule, CountersAgree, TypeOK
  <2>4. totalJobs' = Cardinality({i \in Ids : stored'[i] # NoJob})
    BY <1>0, <1>2, <2>1, <2>3, StoreCounts DEF Schedule
  <2> QED BY <1>0, <1>2, <2>2, <2>4 DEF Schedule, CountersAgree, poolVars
<1>3. ASSUME NEW j \in Jobs, LoopSend(j) PROVE CountersAgree'
  <2>1. heap[j] > 0
    BY <1>3 DEF LoopSend, DueRoot, Roots, Queued
  <2>2. Cardinality(Elements') = Cardinality(Elements) - 1
    BY <1>0, <1>3, <2>1, PopCounts DEF LoopSend
  <2> QED BY <1>0, <1>3, <2>2 DEF LoopSend, CountersAgree, poolVars
<1>4. ASSUME NEW s \in Slots, MarkJobStarted(s) PROVE CountersAgree'
  <2>1. stored[IdOf[work[s]]] # NoJob
    BY <1>0, <1>4, WorksOnAJob, Somewhere, SchedulerAssumption DEF MarkJobStarted
  <2>2. runningJobs' = runningJobs + 1
    BY <1>4, <2>1 DEF MarkJobStarted
  <2>3. Probing' = Probing \cup {s} /\ s \notin Probing
    BY <1>0, <1>4 DEF MarkJobStarted, Probing, TypeOK
  <2>4. Cardinality(Probing') = Cardinality(Probing) + 1
    BY <2>3, ProbingFinite, FS_AddElement
  <2>5. UNCHANGED <<heap, stored, totalJobs, queuedJobs>>
    BY <1>4 DEF MarkJobStarted, heapVars
  <2> QED BY <1>0, <2>2, <2>4, <2>5, ElementsKept DEF CountersAgree, Probing
<1>5. ASSUME NEW s \in Slots, MarkJobDone(s) \/ ProbeRefused(s) PROVE CountersAgree'
  <2>1. MarkJob(s) /\ \E next \in {"stamping", "releasing"} : pc' = [pc EXCEPT ![s] = next]
    BY <1>5 DEF MarkJobDone, ProbeRefused
  <2>2. stored[IdOf[work[s]]] # NoJob
    BY <1>0, <2>1, WorksOnAJob, Somewhere, SchedulerAssumption DEF MarkJob
  <2>3. Probing' = Probing \ {s} /\ s \in Probing
    BY <1>0, <2>1 DEF MarkJob, Probing, TypeOK
  <2>4. Cardinality(Probing') = Cardinality(Probing) - 1 /\ Cardinality(Probing) \in Nat
    BY <2>3, ProbingFinite, FS_RemoveElement
  <2>5. Cardinality(Probing) > 0
    BY <2>3, ProbingFinite, FS_EmptySet
  <2>6. runningJobs' = runningJobs - 1
    BY <1>0, <2>1, <2>2, <2>5 DEF MarkJob, Lowered, CountersAgree, Probing
  <2>7. UNCHANGED <<heap, stored, totalJobs, queuedJobs>>
    BY <2>1 DEF MarkJob, heapVars
  <2> QED BY <1>0, <2>4, <2>6, <2>7, ElementsKept DEF CountersAgree, Probing
<1>6. ASSUME NEW s \in Slots, Reschedule(s) PROVE CountersAgree'
  <2> DEFINE j == work[s]
             job == IF stored[IdOf[j]] # NoJob THEN stored[IdOf[j]] ELSE j
  <2>1. j \in Jobs /\ stored[IdOf[j]] \in Jobs
    BY <1>0, <1>6, WorksOnAJob, Somewhere DEF Reschedule
  <2>2. job = stored[IdOf[j]] /\ job # NoJob
    BY <2>1, SchedulerAssumption
  <2>3. /\ heap' = Pushed(job) /\ queuedJobs' = queuedJobs + 1
        /\ stored' = [stored EXCEPT ![IdOf[j]] = job]
        /\ totalJobs' = IF stored[IdOf[j]] = NoJob THEN totalJobs + 1 ELSE totalJobs
        /\ runningJobs' = runningJobs
    BY <1>6 DEF Reschedule
  <2>4. Probing' = Probing
    BY <1>0, <1>6 DEF Reschedule, Probing, TypeOK
  <2> HIDE DEF j, job
  <2>5. stored' = stored /\ totalJobs' = totalJobs
    BY <1>0, <2>2, <2>3 DEF TypeOK
  <2>6. Cardinality(Elements') = Cardinality(Elements) + 1
    BY <1>0, <2>1, <2>2, <2>3, PushCounts
  <2> QED BY <1>0, <2>3, <2>4, <2>5, <2>6 DEF CountersAgree, Probing
<1>7. CASE Tick \/ LoopBegin \/ LoopEnd \/ Stop \/ RunReturns \/ Receive \/ UNCHANGED vars
  BY <1>1, <1>7 DEF Tick, LoopBegin, LoopEnd, Stop, RunReturns, Receive, vars, heapVars,
     poolVars, stats, Probing
<1>8. ASSUME NEW j \in Jobs, LoopFull(j) PROVE CountersAgree'
  BY <1>1, <1>8 DEF LoopFull, PutBack, poolVars, stats, Probing
<1>9. ASSUME NEW s \in Slots, Acquire(s) \/ Stamp(s) \/ Release(s) PROVE CountersAgree'
  <2>1. UNCHANGED <<heap, stored, queuedJobs, runningJobs, totalJobs>>
    BY <1>9 DEF Acquire, Stamp, Release, heapVars, stats
  <2>2. Probing' = Probing
    BY <1>0, <1>9 DEF Acquire, Stamp, Release, Probing, TypeOK
  <2> QED BY <1>1, <2>1, <2>2
<1> QED
  BY <1>2, <1>3, <1>4, <1>5, <1>6, <1>7, <1>8, <1>9 DEF Next, Loop, Worker

\* The statistics the scheduler exports are exact, however many jobs share an ID:
\* the size of the heap, the probes in progress, the IDs stored.
THEOREM CountersAreExact == Spec => []CountersAgree
<1>1. Init => CountInv
  BY CountInit
<1>2. CountInv /\ [Next]_vars => CountInv'
  BY CountStep, KnownStep, TypeStep DEF CountInv
<1>3. CountInv => CountersAgree
  BY DEF CountInv
<1> QED BY <1>1, <1>2, <1>3, PTL DEF Spec

-----------------------------------------------------------------------------
(* The round of a job *)

\* The four terms of Places are numbers.
LEMMA PlacesTypes ==
  ASSUME TypeOK, NEW j \in Jobs
  PROVE  /\ heap[j] \in Nat /\ Cardinality(InChan(j)) \in Nat
         /\ Cardinality(CarriedBy(j)) \in Nat /\ Places(j) \in Nat
<1>1. heap[j] \in Nat /\ Cardinality(InChan(j)) \in Nat /\ Cardinality(CarriedBy(j)) \in Nat
  BY InChanFinite, CarriedFinite DEF TypeOK
<1> QED BY <1>1 DEF Places

\* A job is never in two places, nor twice in one.
LEMMA Exclusive ==
  ASSUME TypeOK, OnePlace, NEW j \in Jobs
  PROVE  /\ heap[j] > 0 => heap[j] = 1 /\ InChan(j) = {} /\ hand # j /\ CarriedBy(j) = {}
         /\ InChan(j) # {} => heap[j] = 0 /\ hand # j /\ CarriedBy(j) = {}
         /\ hand = j => heap[j] = 0 /\ InChan(j) = {} /\ CarriedBy(j) = {}
         /\ CarriedBy(j) # {} =>
              heap[j] = 0 /\ InChan(j) = {} /\ hand # j /\ \E s : CarriedBy(j) = {s}
<1>1. Places(j) <= 1
  BY DEF OnePlace
<1> DEFINE c == Cardinality(InChan(j))
           w == Cardinality(CarriedBy(j))
<1>2. heap[j] \in Nat /\ c \in Nat /\ w \in Nat
  BY PlacesTypes
<1>3. (c = 0 <=> InChan(j) = {}) /\ (w = 0 <=> CarriedBy(j) = {})
  BY InChanFinite, CarriedFinite, FS_EmptySet
<1>4. w = 1 <=> \E s : CarriedBy(j) = {s}
  BY CarriedFinite, FS_Singleton
<1>5. heap[j] + c + (IF hand = j THEN 1 ELSE 0) + w <= 1
  BY <1>1 DEF Places
<1> HIDE DEF c, w
<1>6. heap[j] > 0 => heap[j] = 1 /\ InChan(j) = {} /\ hand # j /\ CarriedBy(j) = {}
  <2>1. heap[j] > 0 => heap[j] = 1 /\ c = 0 /\ hand # j /\ w = 0
    BY <1>2, <1>5
  <2> QED BY <2>1, <1>3
<1>7. InChan(j) # {} => heap[j] = 0 /\ hand # j /\ CarriedBy(j) = {}
  <2>1. c # 0 => heap[j] = 0 /\ hand # j /\ w = 0
    BY <1>2, <1>5
  <2> QED BY <2>1, <1>3
<1>8. hand = j => heap[j] = 0 /\ InChan(j) = {} /\ CarriedBy(j) = {}
  <2>1. hand = j => heap[j] = 0 /\ c = 0 /\ w = 0
    BY <1>2, <1>5
  <2> QED BY <2>1, <1>3
<1>9. CarriedBy(j) # {} =>
         heap[j] = 0 /\ InChan(j) = {} /\ hand # j /\ \E s : CarriedBy(j) = {s}
  <2>1. w # 0 => heap[j] = 0 /\ c = 0 /\ hand # j /\ w = 1
    BY <1>2, <1>5
  <2> QED BY <2>1, <1>3, <1>4
<1> QED BY <1>6, <1>7, <1>8, <1>9

\* A slot that takes or drops a job changes the count of that job only.
LEMMA TakeCounts ==
  ASSUME TypeOK, NEW s \in Slots, Acquire(s), NEW k \in Jobs
  PROVE  /\ CarriedBy(k)' = IF k = hand THEN CarriedBy(k) \cup {s} ELSE CarriedBy(k)
         /\ Cardinality(CarriedBy(k)') =
              Cardinality(CarriedBy(k)) + (IF k = hand THEN 1 ELSE 0)
<1>1. s \notin CarriedBy(k)
  BY DEF Acquire, CarriedBy, Carrying
<1>2. /\ pc' = [pc EXCEPT ![s] = "starting"] /\ work' = [work EXCEPT ![s] = hand]
      /\ pc[s] = "free"
  BY DEF Acquire
<1>3. CarriedBy(k)' = IF k = hand THEN CarriedBy(k) \cup {s} ELSE CarriedBy(k)
  BY <1>2 DEF CarriedBy, Carrying, TypeOK
<1>4. CASE k = hand
  BY <1>1, <1>3, <1>4, CarriedFinite, FS_AddElement
<1>5. CASE k # hand
  BY <1>3, <1>5, CarriedFinite
<1> QED BY <1>3, <1>4, <1>5

LEMMA DropCounts ==
  ASSUME TypeOK, NEW s \in Slots, s \in Carrying, NEW k \in Jobs,
         pc' = [pc EXCEPT ![s] = "releasing"], work' = work
  PROVE  /\ CarriedBy(k)' = IF k = work[s] THEN CarriedBy(k) \ {s} ELSE CarriedBy(k)
         /\ Cardinality(CarriedBy(k)') =
              Cardinality(CarriedBy(k)) - (IF k = work[s] THEN 1 ELSE 0)
<1>1. CarriedBy(k)' = IF k = work[s] THEN CarriedBy(k) \ {s} ELSE CarriedBy(k)
  BY DEF CarriedBy, Carrying, TypeOK
<1>2. s \in CarriedBy(k) <=> k = work[s]
  BY DEF CarriedBy
<1>3. CASE k = work[s]
  BY <1>1, <1>2, <1>3, CarriedFinite, FS_RemoveElement
<1>4. CASE k # work[s]
  BY <1>1, <1>4, CarriedFinite
<1> QED BY <1>1, <1>3, <1>4

\* The round of a job is not left between these steps of its goroutine.
LEMMA CarriedKept ==
  ASSUME TypeOK, NEW s \in Slots, NEW l \in {"probing", "stamping", "rescheduling"},
         s \in Carrying, pc' = [pc EXCEPT ![s] = l], work' = work, NEW k
  PROVE  CarriedBy(k)' = CarriedBy(k) /\ Carrying' = Carrying
BY DEF CarriedBy, Carrying, TypeOK

\* If targets differ, a job is the only one ever stored under its ID.
LEMMA StoredIsOwn ==
  ASSUME TargetsDiffer, TypeOK, Known, NEW j \in Jobs \ fresh
  PROVE  stored[IdOf[j]] = j
<1>1. IdOf[j] \in Ids /\ stored[IdOf[j]] # NoJob /\ stored[IdOf[j]] \in Jobs
  BY SchedulerAssumption DEF Known, TypeOK
<1>2. IdOf[stored[IdOf[j]]] = IdOf[j]
  BY <1>1 DEF Known
<1> QED BY <1>1, <1>2 DEF TargetsDiffer

LEMMA RoundInit == Init => RoundInv
<1> SUFFICES ASSUME Init PROVE OnePlace
  BY TypeInit, KnownInit DEF RoundInv, Init
<1>1. ASSUME NEW j \in Jobs PROVE Places(j) = 0
  <2>1. heap[j] = 0 /\ InChan(j) = {} /\ hand # j /\ CarriedBy(j) = {}
    BY SchedulerAssumption DEF Init, InChan, CarriedBy, Carrying
  <2> QED BY <2>1, FS_EmptySet DEF Places
<1> QED BY <1>1 DEF Init, OnePlace

\* How each step moves jobs from place to place.
LEMMA PlacesStep ==
  ASSUME TargetsDiffer, RoundInv, [Next]_vars
  PROVE  OnePlace'
<1>0. TypeOK /\ Known /\ OnePlace
  BY DEF RoundInv
<1>1. ASSUME fresh' = fresh, \A k \in Jobs : Places(k)' = Places(k) PROVE OnePlace'
  BY <1>0, <1>1 DEF OnePlace
<1>2. ASSUME UNCHANGED <<fresh, heap, jobChan, hand>>, \A k \in Jobs : CarriedBy(k)' = CarriedBy(k)
      PROVE  OnePlace'
  <2>1. \A k \in Jobs : Places(k)' = Places(k)
    BY <1>2 DEF Places, InChan
  <2> QED BY <1>1, <1>2, <2>1
<1>3. ASSUME NEW j \in Jobs, Schedule(j) PROVE OnePlace'
  <2>1. /\ j \in fresh /\ fresh' = fresh \ {j} /\ heap' = [heap EXCEPT ![j] = @ + 1]
        /\ UNCHANGED <<jobChan, hand, pc, work>>
    BY <1>3 DEF Schedule, Pushed, poolVars
  <2>2. ASSUME NEW k \in Jobs
        PROVE  Places(k)' = Places(k) + (IF k = j THEN 1 ELSE 0)
    <3>1. /\ heap'[k] = heap[k] + (IF k = j THEN 1 ELSE 0)
          /\ InChan(k)' = InChan(k) /\ CarriedBy(k)' = CarriedBy(k)
      BY <1>0, <2>1 DEF TypeOK, InChan, CarriedBy, Carrying
    <3> QED BY <1>0, <2>1, <3>1, PlacesTypes DEF Places
  <2>3. Places(j) = 0
    BY <1>0, <2>1 DEF OnePlace
  <2>4. Places(j)' = 1 /\ j \notin fresh'
    BY <2>1, <2>2, <2>3
  <2>5. ASSUME NEW k \in Jobs, k # j
        PROVE  Places(k)' = Places(k) /\ (k \in fresh' <=> k \in fresh)
    BY <1>0, <2>1, <2>2, <2>5, PlacesTypes
  <2>6. ASSUME NEW k \in Jobs
        PROVE  IF k \in fresh' THEN Places(k)' = 0
               ELSE IF k \in Unsupported THEN Places(k)' <= 1
               ELSE Places(k)' = 1
    <3>1. CASE k = j
      BY <2>4, <3>1
    <3>2. CASE k # j
      BY <1>0, <2>5, <3>2 DEF OnePlace
    <3> QED BY <3>1, <3>2
  <2> QED BY <2>6 DEF OnePlace
<1>4. ASSUME NEW j \in Jobs, LoopSend(j) PROVE OnePlace'
  <2>1. /\ heap' = [heap EXCEPT ![j] = @ - 1] /\ jobChan' = Append(jobChan, j)
        /\ UNCHANGED <<fresh, hand, pc, work>>
    BY <1>4 DEF LoopSend, Popped, poolVars
  <2>2. ASSUME NEW k \in Jobs PROVE Places(k)' = Places(k)
    <3>1. /\ heap'[k] = heap[k] - (IF k = j THEN 1 ELSE 0)
          /\ CarriedBy(k)' = CarriedBy(k)
      BY <1>0, <2>1 DEF TypeOK, CarriedBy, Carrying
    <3>2. Cardinality(InChan(k)') = Cardinality(InChan(k)) + (IF k = j THEN 1 ELSE 0)
      BY <1>0, <2>1, SendCounts
    <3> QED BY <1>0, <2>1, <3>1, <3>2, PlacesTypes DEF Places
  <2> QED BY <1>1, <2>1, <2>2
<1>5. CASE Receive
  <2>1. /\ jobChan # <<>> /\ jobChan' = Tail(jobChan) /\ hand = NoJob
        /\ hand' = Head(jobChan) /\ UNCHANGED <<fresh, heap, pc, work>>
    BY <1>5 DEF Receive, heapVars
  <2>2. ASSUME NEW k \in Jobs PROVE Places(k)' = Places(k)
    <3>1. Cardinality(InChan(k)') =
            Cardinality(InChan(k)) - (IF k = Head(jobChan) THEN 1 ELSE 0)
      BY <1>0, <2>1, ReceiveCounts
    <3>2. CarriedBy(k)' = CarriedBy(k) /\ hand # k
      BY <2>1, SchedulerAssumption DEF CarriedBy, Carrying
    <3> QED BY <1>0, <2>1, <3>1, <3>2, PlacesTypes DEF Places
  <2> QED BY <1>1, <2>1, <2>2
<1>6. ASSUME NEW s \in Slots, Acquire(s) PROVE OnePlace'
  <2>1. hand # NoJob /\ hand' = NoJob /\ UNCHANGED <<fresh, heap, jobChan>>
    BY <1>6 DEF Acquire, heapVars
  <2>2. ASSUME NEW k \in Jobs PROVE Places(k)' = Places(k)
    <3>1. Cardinality(CarriedBy(k)') =
            Cardinality(CarriedBy(k)) + (IF k = hand THEN 1 ELSE 0)
      BY <1>0, <1>6, TakeCounts
    <3>2. InChan(k)' = InChan(k) /\ hand' # k
      BY <2>1, SchedulerAssumption DEF InChan
    <3> QED BY <1>0, <2>1, <3>1, <3>2, PlacesTypes DEF Places
  <2> QED BY <1>1, <2>1, <2>2
<1>7. ASSUME NEW s \in Slots, MarkJobStarted(s) \/ MarkJobDone(s) \/ Stamp(s) PROVE OnePlace'
  <2>1. /\ UNCHANGED <<fresh, heap, jobChan, hand, work>> /\ s \in Carrying
        /\ \E l \in {"probing", "stamping", "rescheduling"} : pc' = [pc EXCEPT ![s] = l]
    BY <1>7 DEF MarkJobStarted, MarkJobDone, MarkJob, Stamp, heapVars, Carrying
  <2> QED BY <1>0, <1>2, <2>1, CarriedKept
<1>8. ASSUME NEW s \in Slots, ProbeRefused(s) PROVE OnePlace'
  <2> DEFINE j == work[s]
  <2>1. /\ UNCHANGED <<fresh, heap, jobChan, hand, work>> /\ s \in Carrying
        /\ pc' = [pc EXCEPT ![s] = "releasing"] /\ j \in Unsupported /\ j \in Jobs
    BY <1>8, SchedulerAssumption DEF ProbeRefused, MarkJob, heapVars, Carrying
  <2> HIDE DEF j
  <2>2. ASSUME NEW k \in Jobs
        PROVE  Places(k)' = Places(k) - (IF k = j THEN 1 ELSE 0)
    <3>1. Cardinality(CarriedBy(k)') =
            Cardinality(CarriedBy(k)) - (IF k = j THEN 1 ELSE 0)
      BY <1>0, <2>1, DropCounts DEF j
    <3>2. InChan(k)' = InChan(k)
      BY <2>1 DEF InChan
    <3> QED BY <1>0, <2>1, <3>1, <3>2, PlacesTypes DEF Places
  <2>3. j \notin fresh
    BY <1>0, <2>1, Somewhere DEF j
  <2> QED BY <1>0, <2>1, <2>2, <2>3, PlacesTypes DEF OnePlace
<1>9. ASSUME NEW s \in Slots, Reschedule(s) PROVE OnePlace'
  <2> DEFINE j == work[s]
  <2>1. j \in Jobs \ fresh /\ s \in Carrying
    BY <1>0, <1>9, WorksOnAJob, Somewhere DEF Reschedule, Carrying
  <2>2. stored[IdOf[j]] = j /\ j # NoJob
    BY <1>0, <2>1, StoredIsOwn, SchedulerAssumption
  <2>3. /\ heap' = [heap EXCEPT ![j] = @ + 1] /\ pc' = [pc EXCEPT ![s] = "releasing"]
        /\ UNCHANGED <<fresh, jobChan, hand, work>>
    BY <1>9, <2>2 DEF Reschedule, Pushed
  <2> HIDE DEF j
  <2>4. ASSUME NEW k \in Jobs PROVE Places(k)' = Places(k)
    <3>1. Cardinality(CarriedBy(k)') =
            Cardinality(CarriedBy(k)) - (IF k = j THEN 1 ELSE 0)
      BY <1>0, <2>1, <2>3, DropCounts DEF j
    <3>2. InChan(k)' = InChan(k) /\ heap'[k] = heap[k] + (IF k = j THEN 1 ELSE 0)
      BY <1>0, <2>3 DEF InChan, TypeOK
    <3> QED BY <1>0, <2>3, <3>1, <3>2, PlacesTypes DEF Places
  <2> QED BY <1>1, <2>3, <2>4
<1>10. ASSUME NEW s \in Slots, Release(s) PROVE OnePlace'
  <2>1. UNCHANGED <<fresh, heap, jobChan, hand>>
    BY <1>10 DEF Release, heapVars
  <2>2. \A k \in Jobs : CarriedBy(k)' = CarriedBy(k)
    BY <1>0, <1>10 DEF Release, CarriedBy, Carrying, TypeOK
  <2> QED BY <1>2, <2>1, <2>2
<1>11. CASE \/ Tick \/ LoopBegin \/ LoopEnd \/ Stop \/ RunReturns \/ UNCHANGED vars
            \/ \E j \in Jobs : LoopFull(j)
  <2>1. UNCHANGED <<fresh, heap, jobChan, hand, pc, work>>
    BY <1>11 DEF Tick, LoopBegin, LoopEnd, LoopFull, PutBack, Stop, RunReturns, vars,
       heapVars, poolVars
  <2> QED BY <1>2, <2>1 DEF CarriedBy, Carrying
<1> QED
  BY <1>3, <1>4, <1>5, <1>6, <1>7, <1>8, <1>9, <1>10, <1>11 DEF Next, Loop, Worker

\* No step changes the key of a job in the heap.
LEMMA OrderStep ==
  ASSUME TargetsDiffer, RoundInv, [Next]_vars
  PROVE  ordered'
<1>0. TypeOK /\ Known /\ OnePlace /\ ordered
  BY DEF RoundInv
<1>1. ASSUME NEW h, NEW key, \A j \in Queued : key[j] = nextRun[j] PROVE KeepsOrder(h, key)
  BY <1>0, <1>1 DEF KeepsOrder
<1>2. ASSUME NEW j \in Jobs, Schedule(j) PROVE ordered'
  <2>1. j \notin Queued
    BY <1>0, <1>2, Somewhere DEF Schedule, Queued
  <2> DEFINE key == [nextRun EXCEPT ![j] = 0]
  <2>2. \A k \in Queued : key[k] = nextRun[k]
    BY <1>0, <2>1 DEF TypeOK, Queued
  <2>3. ordered' = KeepsOrder(Pushed(j), key)
    BY <1>2 DEF Schedule
  <2> HIDE DEF key
  <2> QED BY <1>1, <2>2, <2>3
<1>3. ASSUME NEW j \in Jobs, LoopSend(j) \/ LoopFull(j) PROVE ordered'
  <2>1. heap[j] > 0
    BY <1>3 DEF LoopSend, LoopFull, DueRoot, Roots, Queued
  <2>2. stored[IdOf[j]] = j
    BY <1>0, <2>1, Somewhere, StoredIsOwn
  <2>3. \A k \in Queued : StoredKey(j)[k] = nextRun[k]
    BY <1>0, <2>2 DEF StoredKey, TypeOK, Queued
  <2> QED BY <1>1, <1>3, <2>3 DEF LoopSend, LoopFull
<1>4. ASSUME NEW s \in Slots, Stamp(s) PROVE ordered'
  <2>1. work[s] \in Jobs /\ s \in CarriedBy(work[s])
    BY <1>0, <1>4, WorksOnAJob DEF Stamp, CarriedBy, Carrying
  <2>2. work[s] \notin Queued
    BY <1>0, <2>1, Exclusive DEF Queued
  <2> DEFINE key == [nextRun EXCEPT ![work[s]] = interval[work[s]]]
  <2>3. \A k \in Queued : key[k] = nextRun[k]
    BY <1>0, <2>2 DEF TypeOK, Queued
  <2>4. ordered' = KeepsOrder(heap, key)
    BY <1>4 DEF Stamp
  <2> HIDE DEF key
  <2> QED BY <1>1, <2>3, <2>4
<1>5. ASSUME NEW s \in Slots, Reschedule(s) PROVE ordered'
  <2> DEFINE j == work[s]
             key == [nextRun EXCEPT ![j] = nextRun[j]]
  <2>1. j \in Jobs \ fresh /\ j # NoJob
    BY <1>0, <1>5, WorksOnAJob, Somewhere, SchedulerAssumption DEF Reschedule
  <2>2. stored[IdOf[j]] = j
    BY <1>0, <2>1, StoredIsOwn
  <2>3. ordered' = KeepsOrder(Pushed(j), key)
    BY <1>5, <2>1, <2>2 DEF Reschedule
  <2>4. \A k \in Queued : key[k] = nextRun[k]
    BY <1>0 DEF TypeOK, Queued
  <2> HIDE DEF j, key
  <2> QED BY <1>1, <2>3, <2>4
<1>6. CASE \/ Tick \/ LoopBegin \/ LoopEnd \/ Stop \/ RunReturns \/ Receive \/ UNCHANGED vars
           \/ \E s \in Slots : \/ Acquire(s) \/ MarkJobStarted(s) \/ MarkJobDone(s)
                               \/ ProbeRefused(s) \/ Release(s)
  BY <1>0, <1>6 DEF Tick, LoopBegin, LoopEnd, Stop, RunReturns, Receive, Acquire,
     MarkJobStarted, MarkJobDone, ProbeRefused, MarkJob, Release, vars, heapVars
<1> QED BY <1>2, <1>3, <1>4, <1>5, <1>6 DEF Next, Loop, Worker

LEMMA RoundStep ==
  ASSUME TargetsDiffer, RoundInv, [Next]_vars
  PROVE  RoundInv'
BY TypeStep, KnownStep, PlacesStep, OrderStep DEF RoundInv

\* If host, port and protocol tell the targets apart, a job is in exactly one place
\* of its round: it is never probed twice at a time and never lost, unless there is
\* no probe for its protocol.
THEOREM JobsStayInOnePlace ==
  ASSUME TargetsDiffer
  PROVE  Spec => []OnePlace
<1>1. Init => RoundInv
  BY RoundInit
<1>2. RoundInv /\ [Next]_vars => RoundInv'
  BY RoundStep
<1>3. RoundInv => OnePlace
  BY DEF RoundInv
<1> QED BY <1>1, <1>2, <1>3, PTL DEF Spec

\* In the same case the heap is always in order, and a pass of processJobs that ends
\* with room in the channel has sent every job that was due.
THEOREM PassesAreComplete ==
  ASSUME TargetsDiffer
  PROVE  Spec => PassComplete
<1>1. Init => RoundInv
  BY RoundInit
<1>2. RoundInv /\ [Next]_vars => RoundInv'
  BY RoundStep
<1> DEFINE Complete == mu = "loop" /\ mu' = "free" /\ Len(jobChan) < ChanCap
                         => \A j \in Queued : nextRun[j] > 0
<1>3. RoundInv /\ [Next]_vars => Complete
  <2> SUFFICES ASSUME RoundInv, [Next]_vars, mu = "loop", mu' = "free",
                      Len(jobChan) < ChanCap, NEW k \in Queued
               PROVE  nextRun[k] > 0
    OBVIOUS
  <2>1. CASE LoopEnd
    <3>1. PICK j \in Roots : nextRun[j] > 0
      BY <2>1 DEF LoopEnd
    <3>2. nextRun[j] <= nextRun[k] /\ j \in Jobs /\ k \in Jobs
      BY DEF RoundInv, Roots, Queued
    <3> QED BY <3>1, <3>2 DEF RoundInv, TypeOK
  <2>2. ASSUME NEW j \in Jobs PROVE ~LoopFull(j)
    BY DEF LoopFull, HasRoom
  <2>3. UNCHANGED mu \/ LoopEnd \/ \E j \in Jobs : LoopFull(j)
    BY DEF Next, Loop, Worker, Tick, Schedule, LoopBegin, LoopSend, Stop, RunReturns,
       Receive, Acquire, MarkJobStarted, MarkJobDone, ProbeRefused, MarkJob, Stamp,
       Reschedule, Release, loopVars, vars
  <2> QED BY <2>1, <2>2, <2>3
<1> QED BY <1>1, <1>2, <1>3, PTL DEF Spec, PassComplete

-----------------------------------------------------------------------------
(* Stop *)

LEMMA StopStep ==
  ASSUME StopInv, [Next]_vars
  PROVE  StopInv'
<1>1. TypeOK'
  BY TypeStep DEF StopInv
<1>2. stopping' = "stopped" => mu' = "free"
  <2>1. CASE RunReturns
    BY <2>1 DEF RunReturns, RunIsIdle
  <2>2. CASE Stop
    BY <2>2 DEF Stop
  <2>3. CASE LoopBegin
    BY <2>3 DEF LoopBegin
  <2>4. CASE LoopEnd \/ \E j \in Jobs : LoopFull(j)
    BY <2>4 DEF LoopEnd, LoopFull, Unlock
  <2>5. CASE UNCHANGED <<mu, stopping>>
    BY <2>5 DEF StopInv
  <2> QED BY <2>1, <2>2, <2>3, <2>4, <2>5 DEF Next, Loop, Worker, Tick, Schedule, LoopSend,
     Receive, Acquire, MarkJobStarted, MarkJobDone, ProbeRefused, MarkJob, Stamp,
     Reschedule, Release, loopVars, vars
<1> QED BY <1>1, <1>2 DEF StopInv

\* Stop returns only when processJobs has, so that no job leaves the heap afterwards.
THEOREM StopIsQuiet == Spec => StoppedQuiet
<1>1. Init => StopInv
  BY TypeInit DEF Init, StopInv
<1>2. StopInv /\ [Next]_vars => StopInv'
  BY StopStep
<1> DEFINE Quiet == stopping = "stopped" => \A j \in Jobs : heap'[j] >= heap[j]
<1>3. StopInv /\ [Next]_vars => Quiet
  <2> SUFFICES ASSUME StopInv, [Next]_vars, stopping = "stopped", NEW k \in Jobs
               PROVE  heap'[k] >= heap[k]
    OBVIOUS
  <2>1. ASSUME NEW j \in Jobs PROVE ~LoopSend(j)
    BY DEF LoopSend, DueRoot, StopInv
  <2>2. UNCHANGED heap \/ (\E j \in Jobs : heap' = Pushed(j)) \/ \E j \in Jobs : LoopSend(j)
    <3>1. ASSUME NEW s \in Slots, Reschedule(s) PROVE \E j \in Jobs : heap' = Pushed(j)
      <4>1. work[s] \in Jobs /\ IdOf[work[s]] \in Ids
        BY <3>1, WorksOnAJob, SchedulerAssumption DEF Reschedule, StopInv
      <4>2. CASE stored[IdOf[work[s]]] = NoJob
        BY <3>1, <4>1, <4>2 DEF Reschedule
      <4>3. CASE stored[IdOf[work[s]]] # NoJob
        BY <3>1, <4>1, <4>3 DEF Reschedule, StopInv, TypeOK
      <4> QED BY <4>2, <4>3
    <3> QED BY <3>1 DEF Next, Loop, Worker, Tick, Schedule, LoopBegin, LoopFull, LoopEnd,
       PutBack, Stop, RunReturns, Receive, Acquire, MarkJobStarted, MarkJobDone,
       ProbeRefused, MarkJob, Stamp, Release, heapVars, vars
  <2>3. heap \in [Jobs -> Nat]
    BY DEF StopInv, TypeOK
  <2>4. ASSUME NEW j \in Jobs, heap' = Pushed(j) PROVE heap'[k] >= heap[k]
    <3>1. heap[k] \in Nat /\ heap'[k] = IF k = j THEN heap[k] + 1 ELSE heap[k]
      BY <2>3, <2>4 DEF Pushed
    <3> QED BY <3>1
  <2>5. CASE UNCHANGED heap
    <3>1. heap[k] \in Nat
      BY <2>3
    <3> QED BY <2>5, <3>1
  <2> QED BY <2>1, <2>2, <2>4, <2>5
<1> QED BY <1>1, <1>2, <1>3, PTL DEF Spec, StoppedQuiet

-----------------------------------------------------------------------------
(* The refinement of ProbeCycle *)

Waiting == {j \in Jobs : heap[j] > 0 \/ InChan(j) # {} \/ hand = j}
Carried == {work[s] : s \in Carrying}

\* What a job's four places say of its place in the cycle
LEMMA InCycle ==
  ASSUME TypeOK, NEW j \in Jobs
  PROVE  /\ j \in Carried <=> CarriedBy(j) # {}
         /\ Carried \subseteq Jobs
  <1>1. \A s \in Carrying : work[s] \in Jobs
    BY WorksOnAJob DEF Carrying
  <1> QED BY <1>1 DEF Carried, CarriedBy

\* A step that neither takes nor drops a job carries the same jobs.
LEMMA SameCarried ==
  ASSUME Carrying' = Carrying, \A s \in Carrying : work'[s] = work[s]
  PROVE  Carried' = Carried
BY DEF Carried

\* While a slot is free, fewer jobs than slots are carried.
LEMMA RoomForOne ==
  ASSUME TypeOK, NEW s \in Slots, pc[s] = "free"
  PROVE  Cardinality(Carried) < Cardinality(Slots)
<1> DEFINE f == [t \in Carrying |-> work[t]]
<1>1. f \in Surjection(Carrying, Carried)
  BY DEF Surjection, Carried
<1>2. Carrying \in SUBSET (Slots \ {s})
  BY DEF Carrying
<1>3. /\ IsFiniteSet(Slots \ {s})
      /\ Cardinality(Slots \ {s}) = Cardinality(Slots) - 1
      /\ Cardinality(Slots) \in Nat
  BY SchedulerAssumption, FS_RemoveElement, FS_CardinalityType
<1>4. IsFiniteSet(Carrying) /\ Cardinality(Carrying) <= Cardinality(Slots \ {s})
  BY <1>2, <1>3, FS_Subset
<1>5. IsFiniteSet(Carried) /\ Cardinality(Carried) <= Cardinality(Carrying)
  BY <1>1, <1>4, FS_Surjection
<1>6. Cardinality(Carrying) \in Nat /\ Cardinality(Carried) \in Nat
  BY <1>4, <1>5, FS_CardinalityType
<1> QED BY <1>3, <1>4, <1>5, <1>6

\* main's Schedule admits a job.
LEMMA ScheduleAdmits ==
  ASSUME RoundInv, NEW j \in Jobs, Schedule(j)
  PROVE  Cycle!Admit(j)
<1>0. TypeOK /\ Known
  BY DEF RoundInv
<1>1. /\ heap' = [heap EXCEPT ![j] = @ + 1] /\ UNCHANGED <<jobChan, hand, pc, work>>
      /\ j \in fresh
  BY DEF Schedule, Pushed, poolVars
<1>2. j \notin Waiting /\ j \notin Carried
  BY <1>0, <1>1 DEF Known, Waiting, Carried, Carrying, TypeOK
<1>3. Waiting' = Waiting \cup {j}
  BY <1>0, <1>1 DEF Waiting, InChan, TypeOK
<1>4. Carried' = Carried
  BY <1>1 DEF Carried, Carrying
<1> QED BY <1>2, <1>3, <1>4 DEF Cycle!Admit, Waiting, Carried

\* The semaphore's Acquire gives a waiting job to a worker.
LEMMA AcquireTakes ==
  ASSUME RoundInv, NEW s \in Slots, Acquire(s)
  PROVE  Cycle!CycleNext
<1>0. TypeOK /\ OnePlace
  BY DEF RoundInv
<1>1. /\ hand \in Jobs /\ hand' = NoJob /\ pc[s] = "free"
      /\ pc' = [pc EXCEPT ![s] = "starting"] /\ work' = [work EXCEPT ![s] = hand]
      /\ UNCHANGED <<heap, jobChan>>
  BY <1>0 DEF Acquire, TypeOK, heapVars
<1>2. hand \in Waiting /\ Waiting' = Waiting \ {hand}
  <2>1. heap[hand] = 0 /\ InChan(hand) = {}
    BY <1>0, <1>1, Exclusive
  <2>2. \A k \in Jobs : InChan(k)' = InChan(k) /\ heap'[k] = heap[k] /\ hand' # k
    BY <1>1, SchedulerAssumption DEF InChan
  <2> QED BY <1>1, <2>1, <2>2 DEF Waiting
<1>3. Carried' = Carried \cup {hand}
  <2>1. Carrying' = Carrying \cup {s} /\ s \notin Carrying
    BY <1>0, <1>1 DEF Carrying, TypeOK
  <2>2. work'[s] = hand /\ \A t \in Carrying : work'[t] = work[t]
    BY <1>0, <1>1, <2>1 DEF TypeOK, Carrying
  <2> QED BY <2>1, <2>2 DEF Carried
<1>4. Cardinality(Carried) < Cardinality(Slots)
  BY <1>0, <1>1, RoomForOne
<1>5. PICK j \in Jobs : j = hand
  BY <1>1
<1>6. Waiting' = Waiting \ {j} /\ Carried' = Carried \cup {j} /\ j \in Waiting
  BY <1>2, <1>3, <1>5
<1>7. Cycle!Take(j)
  <2>1. Cycle!Cardinality({work[t] : t \in Carrying}) < Cardinality(Slots)
    BY <1>4 DEF Carried, Cycle!Cardinality, Cardinality, Cycle!IsFiniteSet, IsFiniteSet
  <2>2. j \in {k \in Jobs : heap[k] > 0 \/ InChan(k) # {} \/ hand = k}
    BY <1>6 DEF Waiting
  <2>3. Waiting' = Waiting \ {j}
    BY <1>6
  <2>4. Carried' = Carried \cup {j}
    BY <1>6
  <2> QED BY <2>1, <2>2, <2>3, <2>4 DEF Cycle!Take, Waiting, Carried
<1> QED BY <1>7 DEF Cycle!CycleNext

\* A worker that drops its job is the only one that carried it.
LEMMA DropUncarries ==
  ASSUME TypeOK, OnePlace, NEW s \in Carrying,
         pc' = [pc EXCEPT ![s] = "releasing"], work' = work
  PROVE  work[s] \in Jobs /\ work[s] \in Carried /\ Carried' = Carried \ {work[s]}
<1>1. s \in Slots /\ work[s] \in Jobs /\ s \in CarriedBy(work[s])
  BY WorksOnAJob DEF Carrying, CarriedBy
<1>2. CarriedBy(work[s]) = {s}
  BY <1>1, Exclusive
<1>3. Carrying' = Carrying \ {s}
  BY <1>1 DEF Carrying, TypeOK
<1>4. \A t \in Carrying \ {s} : work[t] # work[s]
  BY <1>2 DEF CarriedBy
<1> QED BY <1>1, <1>3, <1>4 DEF Carried

\* Reschedule returns the job to the waiting ones.
LEMMA RescheduleReturns ==
  ASSUME TargetsDiffer, RoundInv, NEW s \in Slots, Reschedule(s)
  PROVE  Cycle!CycleNext
<1> DEFINE j == work[s]
<1>0. TypeOK /\ Known /\ OnePlace
  BY DEF RoundInv
<1>1. j \in Jobs \ fresh /\ s \in Carrying /\ j # NoJob
  BY <1>0, WorksOnAJob, Somewhere, SchedulerAssumption DEF Reschedule, Carrying
<1>2. stored[IdOf[j]] = j
  BY <1>0, <1>1, StoredIsOwn
<1>3. /\ heap' = [heap EXCEPT ![j] = @ + 1] /\ pc' = [pc EXCEPT ![s] = "releasing"]
      /\ UNCHANGED <<jobChan, hand, work>>
  BY <1>1, <1>2 DEF Reschedule, Pushed
<1>4. j \in Carried /\ Carried' = Carried \ {j}
  BY <1>0, <1>1, <1>3, DropUncarries
<1>5. Waiting' = Waiting \cup {j}
  <2> HIDE DEF j
  <2> QED BY <1>0, <1>1, <1>3 DEF Waiting, InChan, TypeOK
<1>6. PICK k \in Jobs : k = j
  BY <1>1
<1>7. Waiting' = Waiting \cup {k} /\ Carried' = Carried \ {k} /\ k \in Carried
  BY <1>4, <1>5, <1>6
<1>8. Cycle!Return(k)
  BY <1>7 DEF Cycle!Return, Waiting, Carried
<1> QED BY <1>8 DEF Cycle!CycleNext

\* A job without a probe is given up.
LEMMA RefusalGivesUp ==
  ASSUME RoundInv, NEW s \in Slots, ProbeRefused(s)
  PROVE  Cycle!CycleNext
<1>0. TypeOK /\ OnePlace
  BY DEF RoundInv
<1>1. /\ UNCHANGED <<heap, jobChan, hand, work>> /\ s \in Carrying
      /\ pc' = [pc EXCEPT ![s] = "releasing"] /\ work[s] \in Unsupported
  BY DEF ProbeRefused, MarkJob, heapVars, Carrying
<1>2. work[s] \in Jobs /\ work[s] \in Carried /\ Carried' = Carried \ {work[s]}
  BY <1>0, <1>1, DropUncarries
<1>3. Waiting' = Waiting
  BY <1>1 DEF Waiting, InChan
<1>4. PICK k \in Jobs : k = work[s]
  BY <1>2
<1>5. Waiting' = Waiting /\ Carried' = Carried \ {k} /\ k \in Carried \cap Unsupported
  BY <1>1, <1>2, <1>3, <1>4
<1>6. Cycle!GiveUp(k)
  BY <1>5 DEF Cycle!GiveUp, Waiting, Carried
<1> QED BY <1>6 DEF Cycle!CycleNext

\* A channel that holds a job as often as before holds it now if it did.
LEMMA SameCount ==
  ASSUME TypeOK, TypeOK', NEW k, Cardinality(InChan(k)') = Cardinality(InChan(k))
  PROVE  InChan(k)' = {} <=> InChan(k) = {}
<1>1. IsFiniteSet(InChan(k))
  BY InChanFinite
<1>2. IsFiniteSet(InChan(k)')
  <2>1. InChan(k)' \in SUBSET (1..Len(jobChan')) /\ Len(jobChan') \in Int
    BY DEF InChan, TypeOK
  <2>2. IsFiniteSet(1..Len(jobChan'))
    BY <2>1, FS_Interval
  <2> QED BY <2>1, <2>2, FS_Subset
<1> QED BY <1>1, <1>2, FS_EmptySet

\* A send to the channel and a receive from it leave a job waiting.
LEMMA SendKeepsWaiting ==
  ASSUME RoundInv, NEW j \in Jobs, LoopSend(j)
  PROVE  Waiting' = Waiting
<1>0. TypeOK /\ OnePlace /\ TypeOK'
  BY TypeStep DEF RoundInv, Next, Loop
<1>1. /\ heap' = [heap EXCEPT ![j] = @ - 1] /\ jobChan' = Append(jobChan, j)
      /\ hand' = hand /\ heap[j] > 0
  BY DEF LoopSend, Popped, poolVars, DueRoot, Roots, Queued
<1>2. ASSUME NEW k \in Jobs, k # j PROVE k \in Waiting' <=> k \in Waiting
  <2>1. Cardinality(InChan(k)') = Cardinality(InChan(k))
    BY <1>0, <1>1, <1>2, SendCounts, InChanFinite
  <2>2. InChan(k)' = {} <=> InChan(k) = {}
    BY <1>0, <2>1, SameCount
  <2> QED BY <1>0, <1>1, <1>2, <2>2 DEF Waiting, TypeOK
<1>3. j \in Waiting /\ j \in Waiting'
  <2>1. Len(jobChan) + 1 \in 1..Len(jobChan') /\ jobChan'[Len(jobChan) + 1] = j
    BY <1>0, <1>1, AppendProperties, LenProperties DEF TypeOK
  <2> QED BY <1>1, <2>1 DEF Waiting, InChan
<1>4. \A k \in Jobs : k \in Waiting' <=> k \in Waiting
  BY <1>2, <1>3
<1> QED BY <1>4 DEF Waiting

LEMMA ReceiveKeepsWaiting ==
  ASSUME RoundInv, Receive
  PROVE  Waiting' = Waiting
<1>0. TypeOK /\ OnePlace /\ TypeOK'
  BY TypeStep DEF RoundInv, Next
<1> DEFINE j == Head(jobChan)
<1>1. /\ jobChan # <<>> /\ jobChan' = Tail(jobChan) /\ hand = NoJob
      /\ hand' = j /\ heap' = heap
  BY DEF Receive, heapVars
<1>2. j \in Jobs /\ InChan(j) # {}
  BY <1>0, <1>1, HeadIsInChan
<1>3. ASSUME NEW k \in Jobs, k # j PROVE k \in Waiting' <=> k \in Waiting
  <2>1. Cardinality(InChan(k)') = Cardinality(InChan(k))
    BY <1>0, <1>1, <1>3, ReceiveCounts, InChanFinite
  <2>2. InChan(k)' = {} <=> InChan(k) = {}
    BY <1>0, <2>1, SameCount
  <2> HIDE DEF j
  <2> QED BY <1>1, <1>3, <2>2, SchedulerAssumption DEF Waiting
<1>4. j \in Waiting /\ j \in Waiting'
  BY <1>1, <1>2 DEF Waiting
<1> HIDE DEF j
<1>5. \A k \in Jobs : k \in Waiting' <=> k \in Waiting
  BY <1>3, <1>4
<1> QED BY <1>5 DEF Waiting

\* Every step is one of the cycle, or none.
LEMMA CycleStep ==
  ASSUME TargetsDiffer, RoundInv, [Next]_vars
  PROVE  [Cycle!CycleNext]_(Cycle!cycleVars)
<1>0. TypeOK
  BY DEF RoundInv
<1>1. ASSUME Waiting' = Waiting, Carried' = Carried
      PROVE  UNCHANGED Cycle!cycleVars
  BY <1>1 DEF Cycle!cycleVars, Waiting, Carried
<1>2. ASSUME NEW s \in Slots, MarkJobStarted(s) \/ MarkJobDone(s) \/ Stamp(s)
      PROVE  UNCHANGED Cycle!cycleVars
  <2>1. /\ UNCHANGED <<heap, jobChan, hand, work>> /\ s \in Carrying
        /\ \E l \in {"probing", "stamping", "rescheduling"} : pc' = [pc EXCEPT ![s] = l]
    BY <1>2 DEF MarkJobStarted, MarkJobDone, MarkJob, Stamp, heapVars, Carrying
  <2>2. Carrying' = Carrying
    BY <1>0, <2>1, CarriedKept
  <2> QED BY <1>1, <2>1, <2>2 DEF Waiting, Carried, InChan
<1>3. ASSUME NEW s \in Slots, Release(s) PROVE UNCHANGED Cycle!cycleVars
  <2>1. UNCHANGED <<heap, jobChan, hand>>
    BY <1>3 DEF Release, heapVars
  <2>2. Carrying' = Carrying /\ \A t \in Carrying : work'[t] = work[t]
    BY <1>0, <1>3 DEF Release, Carrying, TypeOK
  <2> QED BY <1>1, <2>1, <2>2, SameCarried DEF Waiting, InChan
<1>4. ASSUME NEW j \in Jobs, LoopSend(j) PROVE UNCHANGED Cycle!cycleVars
  BY <1>1, <1>4, SendKeepsWaiting DEF LoopSend, poolVars, Carried, Carrying
<1>5. ASSUME Receive PROVE UNCHANGED Cycle!cycleVars
  BY <1>1, <1>5, ReceiveKeepsWaiting DEF Receive, Carried, Carrying
<1>6. CASE \/ Tick \/ LoopBegin \/ LoopEnd \/ Stop \/ RunReturns \/ UNCHANGED vars
           \/ \E j \in Jobs : LoopFull(j)
  <2>1. UNCHANGED <<heap, jobChan, hand, pc, work>>
    BY <1>6 DEF Tick, LoopBegin, LoopEnd, LoopFull, PutBack, Stop, RunReturns, vars,
       heapVars, poolVars
  <2> QED BY <1>1, <2>1 DEF Waiting, Carried, Carrying, InChan
<1>7. (\E j \in Jobs : Schedule(j)) => Cycle!CycleNext
  BY ScheduleAdmits DEF Cycle!CycleNext
<1>8. ASSUME NEW s \in Slots, Acquire(s) PROVE Cycle!CycleNext
  BY <1>8, AcquireTakes
<1>9. ASSUME NEW s \in Slots, Reschedule(s) PROVE Cycle!CycleNext
  BY <1>9, RescheduleReturns
<1>10. ASSUME NEW s \in Slots, ProbeRefused(s) PROVE Cycle!CycleNext
  BY <1>10, RefusalGivesUp
<1> QED BY <1>2, <1>3, <1>4, <1>5, <1>6, <1>7, <1>8, <1>9, <1>10 DEF Next, Loop, Worker

\* If targets differ, the heap, the channel, the dispatcher and the slots of the
\* semaphore are no more than the cycle of ProbeCycle: a job waits, is taken by one of
\* as many workers as there are slots, and comes back.
THEOREM RefinesProbeCycle ==
  ASSUME TargetsDiffer
  PROVE  Spec => CycleSpec
<1>1. Init => RoundInv
  BY RoundInit
<1>2. RoundInv /\ [Next]_vars => RoundInv'
  BY RoundStep
<1>3. Init => Cycle!CycleInit
  BY SchedulerAssumption DEF Init, Cycle!CycleInit, InChan, Carrying
<1>4. RoundInv /\ [Next]_vars => [Cycle!CycleNext]_(Cycle!cycleVars)
  BY CycleStep
<1> QED BY <1>1, <1>2, <1>3, <1>4, PTL DEF Spec, CycleSpec, Cycle!CycleSpec
=============================================================================

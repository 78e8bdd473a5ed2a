-------------------------- MODULE Delivery_proofs --------------------------
(***************************************************************************)
(* Proofs about Adapter and about Delivery.                                *)
(*                                                                         *)
(* For any slices, endpoints, workers, sizes and attempts (the first part  *)
(* uses only what Adapter assumes): types, that slices are conserved, and  *)
(* that whoever is waited for can go on.                                   *)
(*                                                                         *)
(* For any records: the adapter conserves slices in every process,         *)
(* whatever ended the one before; only accepted pushes settle a record;    *)
(* and what is settled is not lost unless the process crashes, is stopped, *)
(* or a post fails, and in that case only if every endpoint misses it.     *)
(***************************************************************************)
EXTENDS Delivery, SequenceTheorems, FiniteSetTheorems, TLAPS

-----------------------------------------------------------------------------
(* Counting: how many positions of a sequence hold an element of a set,    *)
(* which is what a channel gains by a send and loses by a receive          *)

\* The positions of s that hold an element of T
At(s, T) == {k \in 1..Len(s) : s[k] \in T}

LEMMA AtFinite ==
  ASSUME NEW S, NEW s \in Seq(S), NEW T
  PROVE  IsFiniteSet(At(s, T)) /\ Cardinality(At(s, T)) \in Nat
<1>1. IsFiniteSet(1..Len(s))
  BY FS_Interval
<1>2. At(s, T) \in SUBSET (1..Len(s))
  BY DEF At
<1> QED BY <1>1, <1>2, FS_Subset, FS_CardinalityType

\* A position counted is one that exists, and none is when there is no such element.
LEMMA AtNone ==
  ASSUME NEW S, NEW s \in Seq(S), NEW T
  PROVE  Cardinality(At(s, T)) = 0 <=> \A k \in 1..Len(s) : s[k] \notin T
<1>1. Cardinality(At(s, T)) = 0 <=> At(s, T) = {}
  BY AtFinite, FS_EmptySet
<1> QED BY <1>1 DEF At

\* An empty sequence has no positions.
LEMMA AtEmpty ==
  ASSUME NEW T
  PROVE  At(<<>>, T) = {} /\ Cardinality(At(<<>>, T)) = 0
<1>1. At(<<>>, T) = {}
  BY DEF At
<1> QED BY <1>1, FS_EmptySet

\* A send adds the position of its element.
LEMMA AtAppend ==
  ASSUME NEW S, NEW s \in Seq(S), NEW x \in S, NEW T
  PROVE  Cardinality(At(Append(s, x), T)) =
           Cardinality(At(s, T)) + (IF x \in T THEN 1 ELSE 0)
<1> DEFINE n == Len(s)
           r == Append(s, x)
<1>1. /\ n \in Nat /\ Len(r) = n + 1 /\ r[n + 1] = x
      /\ \A k \in 1..n : r[k] = s[k]
  BY AppendProperties
<1>2. IsFiniteSet(At(s, T)) /\ Cardinality(At(s, T)) \in Nat
  BY AtFinite
<1> HIDE DEF n, r
<1>3. n + 1 \notin At(s, T)
  BY <1>1 DEF At, n
<1>4. At(r, T) = IF x \in T THEN At(s, T) \cup {n + 1} ELSE At(s, T)
  <2>1. 1..n + 1 = 1..n \cup {n + 1}
    BY <1>1
  <2> QED BY <1>1, <2>1 DEF At, n
<1>5. CASE x \in T
  BY <1>2, <1>3, <1>4, <1>5, FS_AddElement DEF r
<1>6. CASE x \notin T
  BY <1>2, <1>4, <1>6 DEF r
<1> QED BY <1>5, <1>6

\* A receive removes the position of the head; the others move up by one.
LEMMA AtTail ==
  ASSUME NEW S, NEW s \in Seq(S), s # <<>>, NEW T
  PROVE  Cardinality(At(Tail(s), T)) =
           Cardinality(At(s, T)) - (IF Head(s) \in T THEN 1 ELSE 0)
<1> DEFINE r == Tail(s)
           later == At(s, T) \ {1}
           f == [k \in At(r, T) |-> k + 1]
<1>1. /\ Len(s) \in Nat /\ Len(s) >= 1 /\ r \in Seq(S) /\ Len(r) = Len(s) - 1
      /\ \A k \in 1..Len(r) : r[k] = s[k + 1]
      /\ Head(s) = s[1]
  BY HeadTailProperties, EmptySeq
<1>2. /\ IsFiniteSet(At(s, T)) /\ Cardinality(At(s, T)) \in Nat
      /\ IsFiniteSet(At(r, T)) /\ Cardinality(At(r, T)) \in Nat
  BY <1>1, AtFinite
<1> HIDE DEF r
<1>3. f \in Bijection(At(r, T), later)
  <2>1. \A k \in At(r, T) : k \in Int /\ k + 1 \in later
    BY <1>1 DEF At
  <2>2. f \in [At(r, T) -> later]
    BY <2>1
  <2>3. \A k, m \in At(r, T) : f[k] = f[m] => k = m
    BY <2>1
  <2>4. ASSUME NEW m \in later PROVE \E k \in At(r, T) : f[k] = m
    <3>1. m \in 1..Len(s) /\ m # 1 /\ s[m] \in T
      BY DEF At
    <3>2. m - 1 \in 1..Len(r) /\ (m - 1) + 1 = m
      BY <1>1, <3>1
    <3>3. m - 1 \in At(r, T)
      BY <1>1, <3>1, <3>2 DEF At
    <3> QED BY <3>2, <3>3
  <2> HIDE DEF f, later
  <2> QED BY <2>2, <2>3, <2>4 DEF Bijection, Injection, IsInjective, Surjection
<1>4. Cardinality(later) = Cardinality(At(r, T))
  <2>1. ExistsBijection(At(r, T), later)
    BY <1>3 DEF ExistsBijection
  <2> QED BY <2>1, <1>2, FS_Bijection
<1>5. 1 \in At(s, T) <=> Head(s) \in T
  BY <1>1 DEF At
<1>6. Cardinality(later) = Cardinality(At(s, T)) - (IF Head(s) \in T THEN 1 ELSE 0)
  <2>1. Cardinality(At(s, T) \ {1}) =
          IF 1 \in At(s, T) THEN Cardinality(At(s, T)) - 1 ELSE Cardinality(At(s, T))
    BY <1>2, FS_RemoveElement
  <2>2. CASE Head(s) \in T
    BY <1>5, <2>1, <2>2
  <2>3. CASE Head(s) \notin T
    BY <1>2, <1>5, <2>1, <2>3
  <2> QED BY <2>2, <2>3
<1> QED BY <1>4, <1>6 DEF r

-----------------------------------------------------------------------------
(* The types of Adapter *)

\* Initially nothing is anywhere.
LEMMA TypeInit == Init => TypeOK
<1> SUFFICES ASSUME Init PROVE TypeOK
  OBVIOUS
<1>1. /\ queue \in Seq(Slices) /\ Len(queue) <= Size
      /\ retryQueue \in Seq(Task) /\ Len(retryQueue) <= RetryCap
      /\ held \in Seq(Task) /\ Len(held) <= 1
  BY AdapterAssumption DEF Init
<1>2. wpc \in [Workers -> {"panicking", "selecting", "sending", "leaving", "gone"}]
  BY DEF Init, WorkersAt
<1>3. shut \in ToSet(Phases)
  BY DEF Init, ToSet, Phases
<1> QED BY <1>1, <1>2, <1>3 DEF Init, TypeOK

\* The values of the phases
LEMMA PhaseSet ==
  ToSet(Phases) = {"no", "flushing", "flushed", "cancelled", "closed", "waited", "stopped"}
<1>1. DOMAIN Phases = 1..7
  BY DEF Phases
<1>2. 1..7 = {1, 2, 3, 4, 5, 6, 7}
  OBVIOUS
<1> QED BY <1>1, <1>2 DEF ToSet, Phases

\* What a sender is given to send, and what a receive returns
LEMMA StartTypes ==
  ASSUME TypeOK, NEW s \in Senders, NEW S \in SUBSET Slices, StartsSending(s, S)
  PROVE  /\ batch' \in [Senders -> SUBSET Slices] /\ todo' \in [Senders -> SUBSET Endpoints]
         /\ reached' \in [Senders -> BOOLEAN]
BY DEF TypeOK, StartsSending

LEMMA ReceivableIsSlice ==
  ASSUME TypeOK
  PROVE  Receivable \subseteq Slices
BY HeadTailProperties DEF TypeOK, Receivable, Blocked

LEMMA ReceiveTypes ==
  ASSUME TypeOK, NEW i \in Receivable, Receive(i)
  PROVE  /\ push' \in [Slices -> {"new", "blocked", "sending", "accepted", "rejected"}]
         /\ queue' \in Seq(Slices) /\ Len(queue') <= Size
<1>0. i \in Slices
  BY ReceivableIsSlice
<1>1. CASE queue = <<>>
  BY <1>0, <1>1 DEF Receive, TypeOK
<1>2. CASE queue # <<>>
  <2>1. Tail(queue) \in Seq(Slices) /\ Len(Tail(queue)) = Len(queue) - 1 /\ Len(queue) \in Nat
    BY <1>2, HeadTailProperties, LenProperties DEF TypeOK
  <2>2. CASE Blocked = {}
    <3>1. queue' = Tail(queue) /\ push' = push
      BY <1>2, <2>2 DEF Receive
    <3>2. Len(queue) <= Size /\ Size \in Nat
      BY AdapterAssumption DEF TypeOK
    <3>3. Len(queue') <= Size
      BY <2>1, <3>1, <3>2
    <3> QED BY <2>1, <3>1, <3>3 DEF TypeOK
  <2>3. CASE Blocked # {}
    <3>1. PICK j \in Blocked : queue' = Append(Tail(queue), j)
                               /\ push' = [push EXCEPT ![j] = "accepted"]
      BY <1>2, <2>3 DEF Receive, LetIn
    <3>2. j \in Slices
      BY DEF Blocked
    <3>3. Append(Tail(queue), j) \in Seq(Slices) /\ Len(Append(Tail(queue), j)) = Len(queue)
      BY <2>1, <3>2, AppendProperties
    <3> QED BY <3>1, <3>2, <3>3 DEF TypeOK
  <2> QED BY <2>2, <2>3
<1> QED BY <1>1, <1>2

LEMMA TriedTypes ==
  ASSUME TypeOK, NEW S, NEW e
  PROVE  Tried(S, e) \in [Pairs -> Nat]
BY DEF TypeOK, Tried

\* A task is put into the retry queue only if there is room.
LEMMA QueuesTask ==
  ASSUME TypeOK, NEW t \in Task, RetryRoom, retryQueue' = Append(retryQueue, t)
  PROVE  retryQueue' \in Seq(Task) /\ Len(retryQueue') <= RetryCap
<1>1. Len(retryQueue) \in Nat /\ Len(retryQueue) < RetryCap
  BY LenProperties DEF TypeOK, RetryRoom
<1>2. retryQueue' \in Seq(Task) /\ Len(retryQueue') = Len(retryQueue) + 1
  BY AppendProperties DEF TypeOK
<1> QED BY <1>1, <1>2, AdapterAssumption

LEMMA HeldIsTask ==
  ASSUME TypeOK, held # <<>>
  PROVE  /\ held[1] \in Task /\ Len(held) = 1
         /\ held[1].slices \in SUBSET Slices /\ held[1].endpoint \in Endpoints
         /\ held[1].attempts \in Nat
<1>1. Len(held) \in Nat /\ Len(held) # 0 /\ Len(held) <= 1
  BY EmptySeq, LenProperties DEF TypeOK
<1>2. Len(held) = 1
  <2> DEFINE n == Len(held)
  <2>1. n \in Nat /\ n # 0 /\ n <= 1
    BY <1>1
  <2> HIDE DEF n
  <2>2. n = 1
    BY <2>1
  <2> QED BY <2>2 DEF n
<1>3. held[1] \in Task
  BY <1>2 DEF TypeOK
<1>4. /\ held[1].slices \in SUBSET Slices /\ held[1].endpoint \in Endpoints
      /\ held[1].attempts \in Nat
  BY <1>3 DEF Task
<1> QED BY <1>2, <1>3, <1>4

LEMMA PostTypes ==
  ASSUME TypeOK, NEW s \in Senders, NEW e \in Endpoints, NEW ok \in BOOLEAN, Post(s, e, ok)
  PROVE  TypeOK'
<1>0. batch[s] \in SUBSET Slices
  BY DEF TypeOK
<1>1. tries' \in [Pairs -> Nat]
  BY TriedTypes DEF Post
<1>2. todo' \in [Senders -> SUBSET Endpoints] /\ reached' \in [Senders -> BOOLEAN]
  <2>1. todo' = [todo EXCEPT ![s] = @ \ {e}] /\ reached' = [reached EXCEPT ![s] = @ \/ ok]
    BY DEF Post
  <2> QED BY <2>1 DEF TypeOK
<1>3. /\ answered' \subseteq Pairs /\ abandoned' \subseteq Pairs
      /\ retryQueue' \in Seq(Task) /\ Len(retryQueue') <= RetryCap
  <2>1. CASE ok
    BY <2>1, <1>0 DEF Post, TypeOK, Pairs
  <2>2. CASE ~ok
    <3> DEFINE t == [slices |-> batch[s], endpoint |-> e, attempts |-> 0]
    <3>1. t \in Task
      BY <1>0 DEF Task
    <3>2. ScheduleRetry(s, e) /\ answered' = answered
      BY <2>2 DEF Post
    <3>3. CASE RetryRoom /\ retryQueue' = Append(retryQueue, t) /\ UNCHANGED abandoned
      <4> HIDE DEF t
      <4> QED BY <3>1, <3>2, <3>3, QueuesTask DEF TypeOK
    <3>4. CASE abandoned' = abandoned \cup (batch[s] \X {e}) /\ UNCHANGED retryQueue
      BY <3>2, <3>4, <1>0 DEF TypeOK, Pairs
    <3> QED BY <3>2, <3>3, <3>4 DEF ScheduleRetry, NewTask
  <2> QED BY <2>1, <2>2
<1>4. /\ batch' \in [Senders -> SUBSET Slices]
      /\ push' \in [Slices -> {"new", "blocked", "sending", "accepted", "rejected"}]
      /\ wpc' \in [Workers -> {"panicking", "selecting", "sending", "leaving", "gone"}]
  <2>1. CASE todo[s] = {e}
    <3>1. Returns(s, reached[s] \/ ok)
      BY <2>1 DEF Post
    <3> QED BY <3>1 DEF Returns, Emptied, TypeOK
  <2>2. CASE todo[s] # {e}
    BY <2>2 DEF Post, TypeOK
  <2> QED BY <2>1, <2>2
<1>5. UNCHANGED <<queue, held, retrying, shut, panicked>>
  BY DEF Post
<1> QED BY <1>1, <1>2, <1>3, <1>4, <1>5 DEF TypeOK

LEMMA PushingTypes ==
  ASSUME TypeOK, NEW i \in Slices, Pushing(i)
  PROVE  TypeOK'
<1>1. CASE PushQueued(i)
  <2>1. /\ queue' = Append(queue, i) /\ Len(queue) < Size
        /\ push' = [push EXCEPT ![i] = "accepted"]
        /\ UNCHANGED <<wpc, sendVars, retryVars, shut, panicked, history>>
    BY <1>1 DEF PushQueued
  <2>2. queue' \in Seq(Slices) /\ Len(queue') = Len(queue) + 1 /\ Len(queue) \in Nat
    BY <2>1, AppendProperties, LenProperties DEF TypeOK
  <2>3. Len(queue') <= Size
    BY <2>1, <2>2, AdapterAssumption
  <2> QED BY <2>1, <2>2, <2>3 DEF TypeOK, sendVars, retryVars, history
<1>2. CASE PushBlocks(i) \/ PushStopped(i) \/ PushPanics(i)
  BY <1>2 DEF PushBlocks, PushStopped, PushPanics, TypeOK, sendVars, retryVars, history
<1>3. CASE PushTimesOut(i) \/ PushAtOnce(i)
  <2>1. i \in Senders /\ {i} \in SUBSET Slices /\ StartsSending(i, {i})
    BY <1>3 DEF Senders, PushTimesOut, PushAtOnce, Direct
  <2> QED BY <1>3, <2>1, StartTypes DEF PushTimesOut, PushAtOnce, Direct, TypeOK, retryVars, history
<1> QED BY <1>1, <1>2, <1>3 DEF Pushing

LEMMA WorkingTypes ==
  ASSUME TypeOK, NEW w \in Workers, Working(w)
  PROVE  TypeOK'
<1>0. w \in Senders /\ batch[w] \in SUBSET Slices
  BY DEF TypeOK, Senders
<1>1. CASE WorkerTake(w)
  <2>1. PICK i \in Receivable :
          /\ Receive(i)
          /\ IF Full(batch[w] \cup {i})
             THEN /\ StartsSending(w, batch[w] \cup {i})
                  /\ wpc' = [wpc EXCEPT ![w] = "sending"]
             ELSE /\ batch' = [batch EXCEPT ![w] = @ \cup {i}]
                  /\ UNCHANGED <<todo, reached, wpc>>
    BY <1>1 DEF WorkerTake
  <2>2. UNCHANGED <<retryVars, shut, panicked, history>>
    BY <1>1 DEF WorkerTake
  <2>3. batch[w] \cup {i} \in SUBSET Slices
    BY <1>0, ReceivableIsSlice
  <2>4. /\ push' \in [Slices -> {"new", "blocked", "sending", "accepted", "rejected"}]
        /\ queue' \in Seq(Slices) /\ Len(queue') <= Size
    BY <2>1, ReceiveTypes
  <2>5. /\ batch' \in [Senders -> SUBSET Slices] /\ todo' \in [Senders -> SUBSET Endpoints]
        /\ reached' \in [Senders -> BOOLEAN]
        /\ wpc' \in [Workers -> {"panicking", "selecting", "sending", "leaving", "gone"}]
    <3>1. CASE Full(batch[w] \cup {i})
      <4>1. /\ StartsSending(w, batch[w] \cup {i})
            /\ wpc' = [wpc EXCEPT ![w] = "sending"]
        BY <2>1, <3>1
      <4> QED BY <1>0, <2>3, <4>1, StartTypes DEF TypeOK
    <3>2. CASE ~Full(batch[w] \cup {i})
      BY <1>0, <2>1, <2>3, <3>2 DEF TypeOK
    <3> QED BY <3>1, <3>2
  <2> QED BY <2>2, <2>4, <2>5 DEF TypeOK, retryVars, history
<1>2. CASE WorkerTick(w)
  <2>1. StartsSending(w, batch[w])
    BY <1>2 DEF WorkerTick
  <2> QED BY <1>0, <1>2, <2>1, StartTypes DEF WorkerTick, TypeOK, retryVars, history
<1>3. CASE WorkerPanics(w)
  BY <1>3 DEF WorkerPanics, TypeOK, sendVars, retryVars, history
<1>4. CASE WorkerLeaves(w)
  <2>1. /\ batch' \in [Senders -> SUBSET Slices] /\ todo' \in [Senders -> SUBSET Endpoints]
        /\ reached' \in [Senders -> BOOLEAN]
        /\ wpc' \in [Workers -> {"panicking", "selecting", "sending", "leaving", "gone"}]
    <3>1. CASE batch[w] = {}
      BY <1>4, <3>1 DEF WorkerLeaves, TypeOK, sendVars
    <3>2. CASE batch[w] # {}
      BY <1>0, <1>4, <3>2, StartTypes DEF WorkerLeaves, TypeOK
    <3> QED BY <3>1, <3>2
  <2> QED BY <1>4, <2>1 DEF WorkerLeaves, TypeOK, retryVars, history
<1> QED BY <1>1, <1>2, <1>3, <1>4 DEF Working

LEMMA RetryingTypes ==
  ASSUME TypeOK, Retrying
  PROVE  TypeOK'
<1>1. CASE RetryTake
  <2>1. retryQueue # <<>> /\ held' = <<Head(retryQueue)>> /\ retryQueue' = Tail(retryQueue)
        /\ UNCHANGED <<push, queue, wpc, sendVars, retrying, shut, panicked, history>>
    BY <1>1 DEF RetryTake
  <2>2. /\ Head(retryQueue) \in Task /\ retryQueue' \in Seq(Task)
        /\ Len(retryQueue') = Len(retryQueue) - 1 /\ Len(retryQueue) \in Nat
    BY <2>1, HeadTailProperties, LenProperties DEF TypeOK
  <2>3. held' \in Seq(Task) /\ Len(held') <= 1 /\ Len(retryQueue') <= RetryCap
    BY <2>1, <2>2, AdapterAssumption DEF TypeOK
  <2> QED BY <2>1, <2>2, <2>3 DEF TypeOK, sendVars, history
<1>2. ASSUME NEW ok \in BOOLEAN, RetryPost(ok) PROVE TypeOK'
  <2> DEFINE t == held[1]
  <2>1. t \in Task /\ t.slices \in SUBSET Slices /\ t.endpoint \in Endpoints /\ t.attempts \in Nat
    BY <1>2, HeldIsTask DEF RetryPost
  <2>2. tries' \in [Pairs -> Nat] /\ held' = <<>>
        /\ UNCHANGED <<push, queue, wpc, sendVars, shut, panicked>>
    BY <1>2, TriedTypes DEF RetryPost
  <2>3. t.slices \X {t.endpoint} \subseteq Pairs
    BY <2>1 DEF Pairs
  <2>4. /\ answered' \subseteq Pairs /\ abandoned' \subseteq Pairs /\ retrying' \in BOOLEAN
        /\ retryQueue' \in Seq(Task) /\ Len(retryQueue') <= RetryCap
    <3>1. CASE ok
      BY <1>2, <2>3, <3>1 DEF RetryPost, TypeOK
    <3>2. CASE ~ok
      <4> DEFINE n == t.attempts + 1
                 u == [t EXCEPT !.attempts = n]
      <4>1. RetryFails(n) /\ answered' = answered
        BY <1>2, <3>2 DEF RetryPost
      <4>2. u \in Task
        BY <2>1 DEF Task
      <4>3. CASE RetryRoom /\ retryQueue' = Append(retryQueue, u)
                 /\ UNCHANGED <<abandoned, retrying>>
        <5> HIDE DEF u
        <5> QED BY <4>1, <4>2, <4>3, QueuesTask DEF TypeOK
      <4>4. CASE abandoned' = abandoned \cup (t.slices \X {t.endpoint}) /\ UNCHANGED retryQueue
                 /\ retrying' \in {retrying, FALSE}
        BY <2>3, <4>1, <4>4 DEF TypeOK
      <4> QED BY <4>1, <4>3, <4>4 DEF RetryFails
    <3> QED BY <3>1, <3>2
  <2>5. held' \in Seq(Task) /\ Len(held') <= 1
    BY <2>2
  <2> QED BY <2>2, <2>4, <2>5 DEF TypeOK, sendVars
<1>3. CASE RetryInterrupted
  <2>1. held[1].slices \X {held[1].endpoint} \subseteq Pairs
    BY <1>3, HeldIsTask DEF RetryInterrupted, Pairs
  <2>2. abandoned' \subseteq Pairs
    BY <1>3, <2>1 DEF RetryInterrupted, TypeOK
  <2>3. held' = <<>> /\ retrying' \in BOOLEAN
    BY <1>3 DEF RetryInterrupted
  <2>4. held' \in Seq(Task) /\ Len(held') <= 1
    BY <2>3
  <2>5. UNCHANGED <<push, queue, wpc, sendVars, retryQueue, shut, panicked, answered, tries>>
    BY <1>3 DEF RetryInterrupted
  <2> QED BY <2>2, <2>3, <2>4, <2>5 DEF TypeOK, sendVars
<1>4. CASE RetryDrained
  <2>1. \A k \in 1..Len(retryQueue) : retryQueue[k] \in Task
    BY DEF TypeOK
  <2>2. DOMAIN retryQueue = 1..Len(retryQueue)
    BY LenProperties DEF TypeOK
  <2>3. \A t \in ToSet(retryQueue) : t.slices \X {t.endpoint} \subseteq Pairs
    BY <2>1, <2>2 DEF ToSet, Task, Pairs
  <2>4. abandoned' \subseteq Pairs
    BY <1>4, <2>3 DEF RetryDrained, TypeOK
  <2>5. retryQueue' = <<>> /\ retrying' \in BOOLEAN
    BY <1>4 DEF RetryDrained
  <2>6. retryQueue' \in Seq(Task) /\ Len(retryQueue') <= RetryCap
    BY <2>5, AdapterAssumption
  <2>7. UNCHANGED <<push, queue, wpc, sendVars, held, shut, panicked, answered, tries>>
    BY <1>4 DEF RetryDrained
  <2> QED BY <2>4, <2>5, <2>6, <2>7 DEF TypeOK, sendVars
<1> QED BY <1>1, <1>2, <1>3, <1>4 DEF Retrying

LEMMA StoppingTypes ==
  ASSUME TypeOK, FlushBegin \/ Stopping
  PROVE  TypeOK'
<1>1. CASE FlushTake
  <2>1. PICK i \in Receivable : Receive(i) /\ StartsSending(Flusher, {i})
    BY <1>1 DEF FlushTake
  <2>2. {i} \in SUBSET Slices /\ Flusher \in Senders
    BY ReceivableIsSlice DEF Senders
  <2> QED BY <1>1, <2>1, <2>2, ReceiveTypes, StartTypes
          DEF FlushTake, TypeOK, retryVars, history
<1>2. CASE FlushBegin \/ FlushEnd \/ StopClose \/ StopWaited \/ StopReturns
  BY <1>2, PhaseSet DEF FlushBegin, FlushEnd, StopClose, StopWaited, StopReturns, TypeOK,
     sendVars, retryVars, history
<1>3. CASE StopCancel
  BY <1>3, PhaseSet DEF StopCancel, TypeOK, sendVars, retryVars, history
<1> QED BY <1>1, <1>2, <1>3 DEF Stopping

LEMMA TypeStep ==
  ASSUME TypeOK, [Next]_vars
  PROVE  TypeOK'
<1>1. CASE UNCHANGED vars
  BY <1>1 DEF TypeOK, vars, sendVars, retryVars, history
<1> QED BY <1>1, PostTypes, PushingTypes, WorkingTypes, RetryingTypes, StoppingTypes
        DEF Next, Sending

\* The adapter keeps its types, whatever its capacities and however it is stopped.
THEOREM TypeCorrect == Spec => []TypeOK
<1>1. Init => TypeOK
  BY TypeInit
<1>2. TypeOK /\ [Next]_vars => TypeOK'
  BY TypeStep
<1> QED BY <1>1, <1>2, PTL DEF Spec

-----------------------------------------------------------------------------
(* The terms of Places, by name *)

NQueue(i)        == Cardinality(InQueue(i))
NCarry(i, e)     == Cardinality(Carriers(i, e))
NRetry(i, e)     == Cardinality(InRetry(i, e))
NHand(i, e)      == Cardinality(InHand(i, e))
NAnswered(i, e)  == One(<<i, e>> \in answered)
NAbandoned(i, e) == One(<<i, e>> \in abandoned)

\* What Places should be
Owed(i, e) == One(\/ push[i] \in {"accepted", "sending"}
                  \/ push[i] = "rejected" /\ tries[<<i, e>>] > 0)

\* The tasks that carry slice i to endpoint e
TasksOf(i, e) == {t \in Task : i \in t.slices /\ t.endpoint = e}

\* Places is a sum of numbers, each of which is zero if there is no such place.
LEMMA PlacesAdd ==
  ASSUME TypeOK, NEW i \in Slices, NEW e \in Endpoints
  PROVE  /\ NQueue(i) \in Nat /\ NCarry(i, e) \in Nat /\ NRetry(i, e) \in Nat
         /\ NHand(i, e) \in Nat /\ NAnswered(i, e) \in Nat /\ NAbandoned(i, e) \in Nat
         /\ Owed(i, e) \in {0, 1}
         /\ Places(i, e) = NQueue(i) + NCarry(i, e) + NRetry(i, e) + NHand(i, e)
                             + NAnswered(i, e) + NAbandoned(i, e)
<1>1. InQueue(i) = At(queue, {i})
  BY DEF InQueue, At
<1>2. InRetry(i, e) = At(retryQueue, TasksOf(i, e))
  BY DEF InRetry, At, TasksOf, TypeOK
<1>3. InHand(i, e) = At(held, TasksOf(i, e))
  BY DEF InHand, At, TasksOf, TypeOK
<1>4. NQueue(i) \in Nat /\ NRetry(i, e) \in Nat /\ NHand(i, e) \in Nat
  BY <1>1, <1>2, <1>3, AtFinite DEF TypeOK, NQueue, NRetry, NHand
<1>5. IsFiniteSet(Senders)
  <2>1. IsFiniteSet(Slices \cup Workers) /\ IsFiniteSet({Flusher})
    BY AdapterAssumption, FS_Union, FS_Singleton
  <2> QED BY <2>1, FS_Union DEF Senders
<1>6. Carriers(i, e) \in SUBSET Senders
  BY DEF Carriers
<1>7. NCarry(i, e) \in Nat
  BY <1>5, <1>6, FS_Subset, FS_CardinalityType DEF NCarry
<1>8. NAnswered(i, e) \in Nat /\ NAbandoned(i, e) \in Nat /\ Owed(i, e) \in {0, 1}
  BY DEF NAnswered, NAbandoned, Owed, One
<1>9. Places(i, e) = NQueue(i) + NCarry(i, e) + NRetry(i, e) + NHand(i, e)
                       + NAnswered(i, e) + NAbandoned(i, e)
  BY DEF Places, NAnswered, NAbandoned, NQueue, NRetry, NHand, NCarry
<1> QED BY <1>4, <1>7, <1>8, <1>9

LEMMA CarriersFinite ==
  ASSUME NEW i, NEW e
  PROVE  IsFiniteSet(Carriers(i, e))
<1>1. IsFiniteSet(Senders)
  <2>1. IsFiniteSet(Slices \cup Workers) /\ IsFiniteSet({Flusher})
    BY AdapterAssumption, FS_Union, FS_Singleton
  <2> QED BY <2>1, FS_Union DEF Senders
<1>2. Carriers(i, e) \in SUBSET Senders
  BY DEF Carriers
<1> QED BY <1>1, <1>2, FS_Subset

LEMMA InQueueFinite ==
  ASSUME TypeOK, NEW i
  PROVE  IsFiniteSet(InQueue(i))
<1>1. InQueue(i) = At(queue, {i})
  BY DEF InQueue, At
<1> QED BY <1>1, AtFinite DEF TypeOK

\* A slice that is in one place is in no other.
LEMMA InOnePlace ==
  ASSUME TypeOK, Conserved, NEW i \in Slices, NEW e \in Endpoints
  PROVE  /\ Owed(i, e) = 0 => NCarry(i, e) = 0
         /\ NQueue(i) # 0 => NCarry(i, e) = 0
         /\ NCarry(i, e) # 0 => /\ Owed(i, e) = 1 /\ NCarry(i, e) = 1
                                /\ NAnswered(i, e) = 0 /\ NAbandoned(i, e) = 0
         /\ NRetry(i, e) # 0 => /\ Owed(i, e) = 1 /\ NRetry(i, e) = 1
                                /\ NAnswered(i, e) = 0 /\ NAbandoned(i, e) = 0
         /\ NHand(i, e) # 0 => /\ Owed(i, e) = 1 /\ NHand(i, e) = 1
                               /\ NAnswered(i, e) = 0 /\ NAbandoned(i, e) = 0
<1> DEFINE q == NQueue(i)
           c == NCarry(i, e)
           r == NRetry(i, e)
           h == NHand(i, e)
           a == NAnswered(i, e)
           b == NAbandoned(i, e)
           o == Owed(i, e)
<1>1. /\ q \in Nat /\ c \in Nat /\ r \in Nat /\ h \in Nat /\ a \in Nat /\ b \in Nat
      /\ o = 0 \/ o = 1
  BY PlacesAdd
<1>2. q + c + r + h + a + b = o
  <2>1. Places(i, e) = Owed(i, e)
    BY DEF Conserved, Owed
  <2> QED BY <2>1, PlacesAdd
<1> HIDE DEF q, c, r, h, a, b, o
<1>3. /\ o = 0 => c = 0
      /\ q # 0 => c = 0
      /\ c # 0 => o = 1 /\ c = 1 /\ a = 0 /\ b = 0
      /\ r # 0 => o = 1 /\ r = 1 /\ a = 0 /\ b = 0
      /\ h # 0 => o = 1 /\ h = 1 /\ a = 0 /\ b = 0
  BY <1>1, <1>2
<1> QED BY <1>3 DEF q, c, r, h, a, b, o

\* A slice that is on its way is owed, and is in no other place.
LEMMA CarriedOnly ==
  ASSUME TypeOK, Conserved, NEW i \in Slices, NEW e \in Endpoints, Carriers(i, e) # {}
  PROVE  /\ Owed(i, e) = 1 /\ NCarry(i, e) = 1 /\ InQueue(i) = {}
         /\ <<i, e>> \notin answered \cup abandoned
<1>1. NCarry(i, e) # 0
  BY CarriersFinite, FS_EmptySet DEF NCarry
<1>2. /\ Owed(i, e) = 1 /\ NCarry(i, e) = 1 /\ NQueue(i) = 0
      /\ NAnswered(i, e) = 0 /\ NAbandoned(i, e) = 0
  BY <1>1, InOnePlace
<1>3. InQueue(i) = {}
  BY <1>2, InQueueFinite, FS_EmptySet DEF NQueue
<1> QED BY <1>2, <1>3 DEF NAnswered, NAbandoned, One

LEMMA NotOwed ==
  ASSUME TypeOK, Conserved, HandsMatch, NEW i \in Slices, NEW e \in Endpoints,
         push[i] \in {"new", "blocked"}
  PROVE  Owed(i, e) = 0 /\ Carriers(i, e) = {} /\ tries[<<i, e>>] = 0
<1>1. Owed(i, e) = 0
  BY DEF Owed, One
<1>2. NCarry(i, e) = 0
  BY <1>1, InOnePlace
<1> QED BY <1>1, <1>2, CarriersFinite, FS_EmptySet DEF NCarry, HandsMatch

\* The held task
LEMMA HandCounts ==
  ASSUME TypeOK, NEW i, NEW e
  PROVE  /\ held = <<>> => NHand(i, e) = 0
         /\ held # <<>> =>
              NHand(i, e) = One(i \in held[1].slices /\ held[1].endpoint = e)
<1>1. CASE held = <<>>
  <2>1. InHand(i, e) = {}
    BY <1>1 DEF InHand
  <2> QED BY <1>1, <2>1, FS_EmptySet DEF NHand
<1>2. CASE held # <<>>
  <2>1. 1..Len(held) = {1}
    <3>1. Len(held) = 1
      BY <1>2, HeldIsTask
    <3> QED BY <3>1
  <2>2. CASE i \in held[1].slices /\ held[1].endpoint = e
    <3>1. InHand(i, e) = {1}
      BY <2>1, <2>2 DEF InHand
    <3> QED BY <1>2, <2>2, <3>1, FS_Singleton DEF NHand, One
  <2>3. CASE ~(i \in held[1].slices /\ held[1].endpoint = e)
    <3>1. InHand(i, e) = {}
      BY <2>1, <2>3 DEF InHand
    <3> QED BY <1>2, <2>3, <3>1, FS_EmptySet DEF NHand, One
  <2> QED BY <2>2, <2>3
<1> QED BY <1>1, <1>2

\* The retry queue: a task added, a task removed
LEMMA RetryGains ==
  ASSUME TypeOK, NEW i \in Slices, NEW e \in Endpoints, NEW t \in Task,
         retryQueue' = Append(retryQueue, t)
  PROVE  NRetry(i, e)' = NRetry(i, e) + One(i \in t.slices /\ t.endpoint = e)
<1>1. retryQueue' \in Seq(Task)
  BY AppendProperties DEF TypeOK
<1>2. /\ InRetry(i, e) = At(retryQueue, TasksOf(i, e))
      /\ InRetry(i, e)' = At(Append(retryQueue, t), TasksOf(i, e))
  BY <1>1 DEF InRetry, At, TasksOf, TypeOK
<1>3. t \in TasksOf(i, e) <=> i \in t.slices /\ t.endpoint = e
  BY DEF TasksOf
<1>4. Cardinality(At(Append(retryQueue, t), TasksOf(i, e))) =
        Cardinality(At(retryQueue, TasksOf(i, e))) + (IF t \in TasksOf(i, e) THEN 1 ELSE 0)
  BY AtAppend DEF TypeOK
<1> QED BY <1>2, <1>3, <1>4 DEF NRetry, One

LEMMA RetryLoses ==
  ASSUME TypeOK, NEW i \in Slices, NEW e \in Endpoints,
         retryQueue # <<>>, retryQueue' = Tail(retryQueue)
  PROVE  NRetry(i, e)' = NRetry(i, e) - One(/\ i \in Head(retryQueue).slices
                                            /\ Head(retryQueue).endpoint = e)
<1> DEFINE t == Head(retryQueue)
<1>1. retryQueue' \in Seq(Task) /\ t \in Task
  BY HeadTailProperties DEF TypeOK
<1>2. /\ InRetry(i, e) = At(retryQueue, TasksOf(i, e))
      /\ InRetry(i, e)' = At(Tail(retryQueue), TasksOf(i, e))
  BY <1>1 DEF InRetry, At, TasksOf, TypeOK
<1>3. t \in TasksOf(i, e) <=> i \in t.slices /\ t.endpoint = e
  BY <1>1 DEF TasksOf
<1>4. Cardinality(At(Tail(retryQueue), TasksOf(i, e))) =
        Cardinality(At(retryQueue, TasksOf(i, e))) - (IF t \in TasksOf(i, e) THEN 1 ELSE 0)
  BY AtTail DEF TypeOK
<1> QED BY <1>2, <1>3, <1>4 DEF NRetry, One

\* The queue: a slice added, the head removed
LEMMA QueueGains ==
  ASSUME NEW q \in Seq(Slices), NEW i \in Slices, NEW j \in Slices
  PROVE  Cardinality(At(Append(q, j), {i})) = Cardinality(At(q, {i})) + One(i = j)
<1>1. j \in {i} <=> i = j
  OBVIOUS
<1>2. Cardinality(At(Append(q, j), {i})) =
        Cardinality(At(q, {i})) + (IF j \in {i} THEN 1 ELSE 0)
  BY AtAppend
<1> QED BY <1>1, <1>2 DEF One

LEMMA QueueLoses ==
  ASSUME TypeOK, NEW i \in Slices, queue # <<>>
  PROVE  Cardinality(At(Tail(queue), {i})) = NQueue(i) - One(i = Head(queue))
<1>1. InQueue(i) = At(queue, {i})
  BY DEF InQueue, At
<1>2. Head(queue) \in {i} <=> i = Head(queue)
  OBVIOUS
<1>3. Cardinality(At(Tail(queue), {i})) =
        Cardinality(At(queue, {i})) - (IF Head(queue) \in {i} THEN 1 ELSE 0)
  BY AtTail DEF TypeOK
<1> QED BY <1>1, <1>2, <1>3 DEF NQueue, One

\* A receive takes slice i out of the queue or from a blocked Push; a blocked Push
\* that it lets in is accepted.
LEMMA ReceiveCounts ==
  ASSUME AdapterInv, NEW i \in Receivable, Receive(i), tries' = tries,
         NEW k \in Slices, NEW e \in Endpoints
  PROVE  NQueue(k)' + One(k = i) + Owed(k, e) = NQueue(k) + Owed(k, e)'
<1>0. TypeOK /\ Conserved /\ HandsMatch /\ i \in Slices
  BY ReceivableIsSlice DEF AdapterInv
<1>1. NQueue(k) \in Nat /\ Owed(k, e) \in {0, 1}
  BY <1>0, PlacesAdd
<1>2. ASSUME NEW j \in Blocked, push' = [push EXCEPT ![j] = "accepted"]
      PROVE  Owed(k, e)' = Owed(k, e) + One(k = j)
  <2>1. j \in Slices /\ push[j] = "blocked"
    BY DEF Blocked
  <2>2. CASE k = j
    <3>1. Owed(k, e) = 0
      BY <1>0, <2>1, <2>2, NotOwed
    <3>2. Owed(k, e)' = 1
      BY <1>0, <1>2, <2>1, <2>2 DEF Owed, One, TypeOK
    <3> QED BY <2>2, <3>1, <3>2 DEF One
  <2>3. CASE k # j
    <3>1. Owed(k, e)' = Owed(k, e)
      BY <1>0, <1>2, <2>1, <2>3 DEF Owed, TypeOK
    <3> QED BY <1>1, <2>3, <3>1 DEF One
  <2> QED BY <2>2, <2>3
<1>3. CASE queue = <<>>
  <2>1. queue' = queue /\ push' = [push EXCEPT ![i] = "accepted"] /\ i \in Blocked
    BY <1>3 DEF Receive, Receivable
  <2>2. NQueue(k)' = NQueue(k)
    BY <2>1 DEF NQueue, InQueue
  <2>3. Owed(k, e)' = Owed(k, e) + One(k = i)
    BY <1>2, <2>1
  <2> QED BY <1>1, <2>2, <2>3 DEF One
<1>4. CASE queue # <<>> /\ Blocked = {}
  <2>1. queue' = Tail(queue) /\ push' = push /\ i = Head(queue)
    BY <1>4 DEF Receive, Receivable
  <2>2. NQueue(k)' = NQueue(k) - One(k = i)
    <3>1. InQueue(k)' = At(Tail(queue), {k})
      BY <2>1 DEF InQueue, At
    <3> QED BY <1>0, <1>4, <2>1, <3>1, QueueLoses DEF NQueue
  <2>3. Owed(k, e)' = Owed(k, e)
    BY <2>1 DEF Owed
  <2> QED BY <1>1, <2>2, <2>3 DEF One
<1>5. CASE queue # <<>> /\ Blocked # {}
  <2>1. PICK j \in Blocked : /\ queue' = Append(Tail(queue), j)
                             /\ push' = [push EXCEPT ![j] = "accepted"]
    BY <1>5 DEF Receive, LetIn
  <2>2. j \in Slices /\ i = Head(queue) /\ Tail(queue) \in Seq(Slices)
    BY <1>0, <1>5, HeadTailProperties DEF Blocked, Receivable, TypeOK
  <2>3. NQueue(k)' = NQueue(k) - One(k = i) + One(k = j)
    <3>1. Cardinality(At(Tail(queue), {k})) = NQueue(k) - One(k = i)
      BY <1>0, <1>5, <2>2, QueueLoses
    <3>2. Cardinality(At(Append(Tail(queue), j), {k})) =
            Cardinality(At(Tail(queue), {k})) + One(k = j)
      <4>1. PICK q \in Seq(Slices) : q = Tail(queue)
        BY <2>2
      <4>2. Cardinality(At(Append(q, j), {k})) = Cardinality(At(q, {k})) + One(k = j)
        BY <2>2, QueueGains
      <4> QED BY <4>1, <4>2
    <3>3. InQueue(k)' = At(Append(Tail(queue), j), {k})
      BY <2>1 DEF InQueue, At
    <3> QED BY <3>1, <3>2, <3>3 DEF NQueue
  <2>4. Owed(k, e)' = Owed(k, e) + One(k = j)
    BY <1>2, <2>1
  <2> QED BY <1>1, <2>3, <2>4 DEF One
<1> QED BY <1>3, <1>4, <1>5

\* A slice that can be received is carried by no sender.
LEMMA ReceivableUncarried ==
  ASSUME AdapterInv, NEW i \in Receivable, NEW e \in Endpoints
  PROVE  Carriers(i, e) = {}
<1>0. TypeOK /\ Conserved /\ HandsMatch /\ i \in Slices
  BY ReceivableIsSlice DEF AdapterInv
<1>1. CASE queue = <<>>
  BY <1>0, <1>1, NotOwed DEF Receivable, Blocked
<1>2. CASE queue # <<>>
  <2>1. i = queue[1] /\ Len(queue) \in Nat /\ Len(queue) # 0
    BY <1>0, <1>2, EmptySeq, LenProperties DEF Receivable, TypeOK
  <2>2. InQueue(i) # {}
    BY <2>1 DEF InQueue
  <2> QED BY <1>0, <2>2, CarriedOnly
<1> QED BY <1>1, <1>2

\* A sender that gathers or starts to send one more slice is one more carrier of it.
LEMMA TakeCounts ==
  ASSUME TypeOK, NEW s \in Senders, NEW i \in Slices, NEW e \in Endpoints, NEW k \in Slices,
         \A t \in Senders : t # s => batch'[t] = batch[t] /\ todo'[t] = todo[t],
         batch'[s] = batch[s] \cup {i},
         todo'[s] = {} \/ e \in todo'[s],
         todo[s] = {} \/ batch[s] = {},
         Carriers(i, e) = {}
  PROVE  NCarry(k, e)' = NCarry(k, e) + One(k = i)
<1>1. \A t \in Senders : t # s => batch'[t] = batch[t] /\ todo'[t] = todo[t]
  OBVIOUS
<1>2. /\ batch'[s] = batch[s] \cup {i} /\ (todo'[s] = {} \/ e \in todo'[s])
      /\ todo[s] = {} \/ batch[s] = {}
  OBVIOUS
<1>3. CASE k = i
  <2>1. Carriers(k, e)' = Carriers(k, e) \cup {s}
    BY <1>1, <1>2, <1>3 DEF Carriers
  <2>2. s \notin Carriers(k, e)
    BY <1>3
  <2> QED BY <1>3, <2>1, <2>2, CarriersFinite, FS_AddElement DEF NCarry, One
<1>4. CASE k # i
  <2>1. s \in Carriers(k, e)' <=> s \in Carriers(k, e)
    BY <1>2, <1>4 DEF Carriers
  <2>2. Carriers(k, e)' = Carriers(k, e)
    BY <1>1, <2>1 DEF Carriers
  <2>3. NCarry(k, e) \in Nat
    BY PlacesAdd
  <2> QED BY <1>4, <2>2, <2>3 DEF NCarry, One
<1> QED BY <1>3, <1>4

\* A sender that starts to send what it has gathered is the same carrier.
LEMMA GatheredKept ==
  ASSUME TypeOK, NEW s \in Senders, todo[s] = {}, StartsSending(s, batch[s]),
         NEW k \in Slices, NEW e \in Endpoints
  PROVE  NCarry(k, e)' = NCarry(k, e)
<1>1. /\ \A t \in Senders : batch'[t] = batch[t]
      /\ \A t \in Senders : t # s => todo'[t] = todo[t]
      /\ e \in todo'[s]
  BY DEF StartsSending, TypeOK
<1>2. Carriers(k, e)' = Carriers(k, e)
  BY <1>1 DEF Carriers
<1> QED BY <1>2 DEF NCarry

\* After a post to one endpoint the sender carries its batch to the others.
LEMMA PostCounts ==
  ASSUME TypeOK, NEW s \in Senders, NEW f \in Endpoints, NEW ok \in BOOLEAN, Post(s, f, ok),
         NEW k \in Slices, NEW e \in Endpoints
  PROVE  NCarry(k, e)' = NCarry(k, e) - One(k \in batch[s] /\ e = f)
<1>1. /\ \A t \in Senders : t # s => batch'[t] = batch[t] /\ todo'[t] = todo[t]
      /\ todo'[s] = todo[s] \ {f} /\ f \in todo[s]
      /\ batch'[s] = IF todo[s] = {f} THEN {} ELSE batch[s]
  BY DEF Post, Returns, Emptied, TypeOK
<1>2. CASE k \in batch[s] /\ e = f
  <2>1. s \in Carriers(k, e) /\ Carriers(k, e)' = Carriers(k, e) \ {s}
    BY <1>1, <1>2 DEF Carriers
  <2>2. NCarry(k, e)' = NCarry(k, e) - 1
    BY <2>1, CarriersFinite, FS_RemoveElement DEF NCarry
  <2> QED BY <1>2, <2>2 DEF One
<1>3. CASE ~(k \in batch[s] /\ e = f)
  <2>1. s \in Carriers(k, e)' <=> s \in Carriers(k, e)
    BY <1>1, <1>3 DEF Carriers
  <2>2. Carriers(k, e)' = Carriers(k, e)
    BY <1>1, <2>1 DEF Carriers
  <2>3. NCarry(k, e) \in Nat
    BY PlacesAdd
  <2> QED BY <1>3, <2>2, <2>3 DEF NCarry, One
<1> QED BY <1>2, <1>3

-----------------------------------------------------------------------------
(* What senders have in hand *)

LEMMA HandsInit == Init => HandsMatch
BY AdapterAssumption DEF Init, HandsMatch, Senders, Pairs, WorkersAt

\* Nothing that hands depend on changes.
LEMMA HandsKept ==
  ASSUME HandsMatch, UNCHANGED <<push, wpc, batch, todo, tries>>
  PROVE  HandsMatch'
BY DEF HandsMatch

\* A receive changes only the progress of pushes that are blocked.
LEMMA ReceivePush ==
  ASSUME TypeOK, NEW i \in Receivable, Receive(i), NEW k \in Slices
  PROVE  push'[k] = push[k] \/ (push[k] = "blocked" /\ push'[k] = "accepted")
<1>1. \/ push' = push
      \/ \E j \in Blocked : push' = [push EXCEPT ![j] = "accepted"]
  <2>1. CASE queue = <<>>
    <3>1. i \in Blocked /\ push' = [push EXCEPT ![i] = "accepted"]
      BY <2>1 DEF Receive, Receivable
    <3> QED BY <3>1
  <2>2. CASE queue # <<>>
    BY <2>2 DEF Receive
  <2> QED BY <2>1, <2>2
<1>2. ASSUME NEW j \in Blocked, push' = [push EXCEPT ![j] = "accepted"]
      PROVE  push'[k] = push[k] \/ (push[k] = "blocked" /\ push'[k] = "accepted")
  <2>1. j \in Slices /\ push[j] = "blocked"
    BY DEF Blocked
  <2>2. CASE k = j
    BY <1>2, <2>1, <2>2 DEF TypeOK
  <2>3. CASE k # j
    BY <1>2, <2>1, <2>3 DEF TypeOK
  <2> QED BY <2>2, <2>3
<1>3. CASE push' = push
  BY <1>3
<1> QED BY <1>1, <1>2, <1>3

\* What a worker or the flusher does with its batch leaves the slices' own alone.
LEMMA OtherHands ==
  ASSUME TypeOK, HandsMatch, NEW s \in Workers \cup {Flusher}, tries' = tries,
         \A i \in Slices : \/ push'[i] = push[i]
                           \/ push[i] = "blocked" /\ push'[i] \in {"accepted", "rejected"},
         \A t \in Senders : t # s => batch'[t] = batch[t] /\ todo'[t] = todo[t],
         \A w \in Workers : wpc'[w] \notin {"sending", "leaving"} => todo'[w] = {}
  PROVE  HandsMatch'
<1>1. \A i \in Slices : i \in Senders /\ i # s
  BY AdapterAssumption DEF Senders
<1> QED BY <1>1 DEF HandsMatch

LEMMA PostHands ==
  ASSUME AdapterInv, NEW s \in Senders, NEW f \in Endpoints, NEW ok \in BOOLEAN, Post(s, f, ok)
  PROVE  HandsMatch'
<1>0. TypeOK /\ HandsMatch /\ Conserved
  BY DEF AdapterInv
<1>1. /\ \A t \in Senders : t # s => batch'[t] = batch[t] /\ todo'[t] = todo[t]
      /\ todo'[s] = todo[s] \ {f} /\ f \in todo[s]
      /\ batch'[s] = IF todo[s] = {f} THEN {} ELSE batch[s]
  BY <1>0 DEF Post, Returns, Emptied, TypeOK
<1>2. \A i \in Slices : i \in Senders
  BY DEF Senders
<1>3. \A i \in Slices, e \in Endpoints :
        tries'[<<i, e>>] = IF i \in batch[s] /\ e = f THEN tries[<<i, e>>] + 1
                           ELSE tries[<<i, e>>]
  BY <1>0 DEF Post, Tried, Pairs
<1>4. \A i \in Slices : \/ push'[i] = push[i]
                        \/ i = s /\ todo[s] = {f} /\ push'[i] \in {"accepted", "rejected"}
  BY <1>0 DEF Post, Returns, TypeOK
<1>5. ASSUME NEW i \in Slices
      PROVE  /\ push'[i] = "sending" => batch'[i] = {i} /\ todo'[i] # {}
             /\ push'[i] # "sending" => batch'[i] = {} /\ todo'[i] = {}
  <2>1. CASE i # s
    BY <1>0, <1>1, <1>2, <1>4, <2>1 DEF HandsMatch
  <2>2. CASE i = s
    <3>1. push[i] = "sending" /\ batch[i] = {i}
      BY <1>0, <1>1, <2>2 DEF HandsMatch
    <3>2. CASE todo[s] = {f}
      <4>1. push'[i] \in {"accepted", "rejected"}
        BY <1>0, <2>2, <3>2 DEF Post, Returns, TypeOK
      <4> QED BY <1>1, <2>2, <3>2, <4>1
    <3>3. CASE todo[s] # {f}
      BY <1>1, <1>4, <2>2, <3>1, <3>3
    <3> QED BY <3>2, <3>3
  <2> QED BY <2>1, <2>2
<1>6. ASSUME NEW i \in Slices, NEW e \in Endpoints
      PROVE  /\ push'[i] \in {"new", "blocked"} => tries'[<<i, e>>] = 0
             /\ push'[i] = "sending" /\ e \notin todo'[i] => tries'[<<i, e>>] > 0
  <2>0. tries[<<i, e>>] \in Nat
    BY <1>0 DEF TypeOK, Pairs
  <2>1. CASE push'[i] \in {"new", "blocked"}
    <3>1. push[i] \in {"new", "blocked"}
      BY <1>4, <2>1
    <3>2. Carriers(i, e) = {} /\ tries[<<i, e>>] = 0
      BY <1>0, <3>1, NotOwed
    <3>3. ~(i \in batch[s] /\ e = f)
      BY <1>1, <3>2 DEF Carriers
    <3> QED BY <1>3, <2>1, <3>2, <3>3
  <2>2. CASE push'[i] = "sending" /\ e \notin todo'[i]
    <3>1. push[i] = "sending"
      BY <1>4, <2>2
    <3>2. CASE e \notin todo[i]
      <4>1. tries[<<i, e>>] > 0
        BY <1>0, <3>1, <3>2 DEF HandsMatch
      <4> QED BY <1>3, <2>0, <2>2, <4>1
    <3>3. CASE e \in todo[i]
      <4>1. i = s /\ e = f
        BY <1>1, <1>2, <2>2, <3>3
      <4>2. i \in batch[s]
        BY <1>0, <3>1, <4>1 DEF HandsMatch
      <4>3. tries'[<<i, e>>] = tries[<<i, e>>] + 1
        BY <1>3, <4>1, <4>2
      <4> QED BY <2>0, <2>2, <4>3
    <3> QED BY <3>2, <3>3
  <2> QED BY <2>1, <2>2
<1>7. ASSUME NEW w \in Workers, wpc'[w] \notin {"sending", "leaving"} PROVE todo'[w] = {}
  <2>1. w \in Senders
    BY DEF Senders
  <2>2. CASE w # s
    <3>1. wpc'[w] = wpc[w]
      BY <1>0, <2>2 DEF Post, Returns, TypeOK
    <3> QED BY <1>0, <1>1, <1>7, <2>1, <2>2, <3>1 DEF HandsMatch
  <2>3. CASE w = s
    <3>1. wpc[w] \in {"sending", "leaving"}
      BY <1>0, <1>1, <2>3 DEF HandsMatch
    <3>2. todo[s] = {f}
      <4>1. CASE todo[s] # {f}
        BY <1>7, <3>1, <4>1 DEF Post
      <4> QED BY <4>1
    <3> QED BY <1>1, <2>3, <3>2
  <2> QED BY <2>2, <2>3
<1> QED BY <1>5, <1>6, <1>7 DEF HandsMatch

LEMMA PushingHands ==
  ASSUME AdapterInv, NEW i \in Slices, Pushing(i)
  PROVE  HandsMatch'
<1>0. TypeOK /\ HandsMatch
  BY DEF AdapterInv
<1>1. CASE PushQueued(i) \/ PushBlocks(i) \/ PushStopped(i)
  <2>1. /\ push[i] = "new" /\ UNCHANGED <<wpc, batch, todo, tries>>
        /\ \E p \in {"accepted", "blocked", "rejected"} : push' = [push EXCEPT ![i] = p]
    BY <1>1 DEF PushQueued, PushBlocks, PushStopped, sendVars, history
  <2>2. \A k \in Slices : \/ push'[k] = push[k]
                          \/ k = i /\ push'[k] \in {"accepted", "blocked", "rejected"}
    BY <1>0, <2>1 DEF TypeOK
  <2> QED BY <1>0, <2>1, <2>2 DEF HandsMatch
<1>2. CASE PushPanics(i)
  BY <1>0, <1>2, HandsKept DEF PushPanics, sendVars, history
<1>3. CASE PushTimesOut(i) \/ PushAtOnce(i)
  <2>1. /\ push[i] \in {"new", "blocked"} /\ UNCHANGED <<wpc, tries>>
        /\ push' = [push EXCEPT ![i] = "sending"] /\ StartsSending(i, {i})
    BY <1>3 DEF PushTimesOut, PushAtOnce, Direct, TimerFires, history
  <2>2. i \in Senders /\ Slices \subseteq Senders /\ Workers \subseteq Senders /\ i \notin Workers
    BY AdapterAssumption DEF Senders
  <2>3. /\ push'[i] = "sending" /\ batch'[i] = {i} /\ todo'[i] = Endpoints
        /\ \A k \in Slices : k # i => push'[k] = push[k]
        /\ \A t \in Senders : t # i => batch'[t] = batch[t] /\ todo'[t] = todo[t]
    BY <1>0, <2>1, <2>2 DEF StartsSending, TypeOK
  <2> QED BY <1>0, <2>1, <2>2, <2>3, AdapterAssumption DEF HandsMatch
<1> QED BY <1>1, <1>2, <1>3 DEF Pushing

LEMMA WorkingHands ==
  ASSUME AdapterInv, NEW w \in Workers, Working(w)
  PROVE  HandsMatch'
<1>0. TypeOK /\ HandsMatch /\ w \in Senders /\ Workers \subseteq Senders
  BY DEF AdapterInv, Senders
<1>1. ASSUME NEW S \in SUBSET Slices, StartsSending(w, S), tries' = tries,
             \E l \in {"sending", "leaving"} : wpc' = [wpc EXCEPT ![w] = l],
             \A i \in Slices : \/ push'[i] = push[i]
                               \/ push[i] = "blocked" /\ push'[i] = "accepted"
      PROVE  HandsMatch'
  <2>1. \A t \in Senders : t # w => batch'[t] = batch[t] /\ todo'[t] = todo[t]
    BY <1>0, <1>1 DEF StartsSending, TypeOK
  <2>2. \A v \in Workers : wpc'[v] \notin {"sending", "leaving"} => todo'[v] = {}
    <3>1. wpc'[w] \in {"sending", "leaving"} /\ \A v \in Workers : v # w => wpc'[v] = wpc[v]
      BY <1>0, <1>1 DEF TypeOK
    <3> QED BY <1>0, <2>1, <3>1 DEF HandsMatch
  <2> QED BY <1>0, <1>1, <2>1, <2>2, OtherHands
<1>2. CASE WorkerTake(w)
  <2>1. PICK i \in Receivable :
          /\ Receive(i)
          /\ IF Full(batch[w] \cup {i})
             THEN /\ StartsSending(w, batch[w] \cup {i})
                  /\ wpc' = [wpc EXCEPT ![w] = "sending"]
             ELSE /\ batch' = [batch EXCEPT ![w] = @ \cup {i}]
                  /\ UNCHANGED <<todo, reached, wpc>>
    BY <1>2 DEF WorkerTake
  <2>2. tries' = tries
    BY <1>2 DEF WorkerTake, history
  <2>3. batch[w] \cup {i} \in SUBSET Slices
    BY <1>0, ReceivableIsSlice DEF TypeOK
  <2>4. \A k \in Slices : push'[k] = push[k] \/ (push[k] = "blocked" /\ push'[k] = "accepted")
    BY <1>0, <2>1, ReceivePush
  <2>5. CASE Full(batch[w] \cup {i})
    BY <1>1, <2>1, <2>2, <2>3, <2>4, <2>5
  <2>6. CASE ~Full(batch[w] \cup {i})
    <3>1. batch' = [batch EXCEPT ![w] = @ \cup {i}] /\ UNCHANGED <<todo, wpc>>
      BY <2>1, <2>6
    <3>2. \A t \in Senders : t # w => batch'[t] = batch[t] /\ todo'[t] = todo[t]
      BY <1>0, <3>1 DEF TypeOK
    <3>3. \A v \in Workers : wpc'[v] \notin {"sending", "leaving"} => todo'[v] = {}
      BY <1>0, <3>1 DEF HandsMatch
    <3> QED BY <1>0, <2>2, <2>4, <3>2, <3>3, OtherHands
  <2> QED BY <2>5, <2>6
<1>3. CASE WorkerTick(w) \/ (WorkerLeaves(w) /\ batch[w] # {})
  <2>1. /\ StartsSending(w, batch[w]) /\ tries' = tries /\ push' = push
        /\ \E l \in {"sending", "leaving"} : wpc' = [wpc EXCEPT ![w] = l]
    BY <1>3 DEF WorkerTick, WorkerLeaves, history
  <2>2. batch[w] \in SUBSET Slices
    BY <1>0 DEF TypeOK
  <2> QED BY <1>1, <2>1, <2>2
<1>4. CASE WorkerPanics(w) \/ (WorkerLeaves(w) /\ batch[w] = {})
  <2>1. /\ UNCHANGED <<push, batch, todo, tries>> /\ wpc' = [wpc EXCEPT ![w] = "gone"]
        /\ wpc[w] \in {"panicking", "selecting"}
    BY <1>4 DEF WorkerPanics, WorkerLeaves, sendVars, history
  <2>2. todo[w] = {}
    BY <1>0, <2>1 DEF HandsMatch
  <2>3. \A v \in Workers : v # w => wpc'[v] = wpc[v]
    BY <1>0, <2>1 DEF TypeOK
  <2> QED BY <1>0, <2>1, <2>2, <2>3 DEF HandsMatch
<1> QED BY <1>2, <1>3, <1>4 DEF Working

LEMMA RetryingHands ==
  ASSUME AdapterInv, Retrying
  PROVE  HandsMatch'
<1>0. TypeOK /\ HandsMatch /\ Conserved
  BY DEF AdapterInv
<1>1. CASE RetryTake \/ RetryInterrupted \/ RetryDrained
  BY <1>0, <1>1, HandsKept DEF RetryTake, RetryInterrupted, RetryDrained, sendVars, history
<1>2. ASSUME NEW ok \in BOOLEAN, RetryPost(ok) PROVE HandsMatch'
  <2> DEFINE t == held[1]
  <2>1. /\ held # <<>> /\ tries' = Tried(t.slices, t.endpoint)
        /\ UNCHANGED <<push, wpc, batch, todo>>
    BY <1>2 DEF RetryPost, sendVars
  <2>2. \A i \in Slices, e \in Endpoints :
          tries'[<<i, e>>] = IF i \in t.slices /\ e = t.endpoint THEN tries[<<i, e>>] + 1
                             ELSE tries[<<i, e>>]
    BY <2>1 DEF Tried, Pairs
  <2>3. ASSUME NEW i \in Slices, NEW e \in Endpoints
        PROVE  /\ push[i] \in {"new", "blocked"} => tries'[<<i, e>>] = 0
               /\ push[i] = "sending" /\ e \notin todo[i] => tries'[<<i, e>>] > 0
    <3>0. tries[<<i, e>>] \in Nat
      BY <1>0 DEF TypeOK, Pairs
    <3>1. CASE i \in t.slices /\ e = t.endpoint
      <4>1. NHand(i, e) = 1
        BY <1>0, <2>1, <3>1, HandCounts DEF One
      <4>2. Owed(i, e) = 1
        BY <1>0, <4>1, InOnePlace
      <4>3. push[i] \notin {"new", "blocked"}
        BY <4>2 DEF Owed, One
      <4>4. tries'[<<i, e>>] = tries[<<i, e>>] + 1
        BY <2>2, <3>1
      <4> QED BY <3>0, <4>3, <4>4
    <3>2. CASE ~(i \in t.slices /\ e = t.endpoint)
      <4>1. tries'[<<i, e>>] = tries[<<i, e>>]
        BY <2>2, <3>2
      <4> QED BY <1>0, <4>1 DEF HandsMatch
    <3> QED BY <3>1, <3>2
  <2> QED BY <1>0, <2>1, <2>3 DEF HandsMatch
<1> QED BY <1>1, <1>2 DEF Retrying

LEMMA StoppingHands ==
  ASSUME AdapterInv, FlushBegin \/ Stopping
  PROVE  HandsMatch'
<1>0. TypeOK /\ HandsMatch /\ Flusher \in Senders /\ Workers \subseteq Senders
      /\ Flusher \notin Workers
  BY AdapterAssumption DEF AdapterInv, Senders
<1>1. CASE FlushTake
  <2>1. PICK i \in Receivable : Receive(i) /\ StartsSending(Flusher, {i})
    BY <1>1 DEF FlushTake
  <2>2. wpc' = wpc /\ tries' = tries
    BY <1>1 DEF FlushTake, history
  <2>3. \A t \in Senders : t # Flusher => batch'[t] = batch[t] /\ todo'[t] = todo[t]
    BY <1>0, <2>1 DEF StartsSending, TypeOK
  <2>4. \A k \in Slices : push'[k] = push[k] \/ (push[k] = "blocked" /\ push'[k] = "accepted")
    BY <1>0, <2>1, ReceivePush
  <2>5. \A v \in Workers : wpc'[v] \notin {"sending", "leaving"} => todo'[v] = {}
    BY <1>0, <2>2, <2>3 DEF HandsMatch
  <2> QED BY <1>0, <2>2, <2>3, <2>4, <2>5, OtherHands
<1>2. CASE FlushBegin \/ FlushEnd \/ StopClose \/ StopWaited \/ StopReturns
  BY <1>0, <1>2, HandsKept DEF FlushBegin, FlushEnd, StopClose, StopWaited, StopReturns,
     sendVars, history
<1>3. CASE StopCancel
  <2>1. UNCHANGED <<wpc, batch, todo, tries>>
    BY <1>3 DEF StopCancel, sendVars, history
  <2>2. \A k \in Slices : push'[k] = IF push[k] = "blocked" THEN "rejected" ELSE push[k]
    BY <1>3 DEF StopCancel
  <2> QED BY <1>0, <2>1, <2>2 DEF HandsMatch
<1> QED BY <1>1, <1>2, <1>3 DEF Stopping

LEMMA HandsStep ==
  ASSUME AdapterInv, [Next]_vars
  PROVE  HandsMatch'
<1>1. CASE UNCHANGED vars
  BY <1>1, HandsKept DEF AdapterInv, vars, sendVars, history
<1> QED BY <1>1, PostHands, PushingHands, WorkingHands, RetryingHands, StoppingHands
        DEF Next, Sending

-----------------------------------------------------------------------------
(* Where slices are *)

\* The account of a slice stays balanced when what its terms gain is what becomes
\* owed.
LEMMA Balance ==
  ASSUME TypeOK, Conserved, NEW i \in Slices, NEW e \in Endpoints,
         NQueue(i)' + NCarry(i, e)' + NRetry(i, e)' + NHand(i, e)'
           + NAnswered(i, e)' + NAbandoned(i, e)' + Owed(i, e)
         = NQueue(i) + NCarry(i, e) + NRetry(i, e) + NHand(i, e)
           + NAnswered(i, e) + NAbandoned(i, e) + Owed(i, e)',
         NQueue(i)' \in Int, NCarry(i, e)' \in Int, NRetry(i, e)' \in Int, NHand(i, e)' \in Int
  PROVE  Places(i, e)' = Owed(i, e)'
<1>1. Places(i, e)' = NQueue(i)' + NCarry(i, e)' + NRetry(i, e)' + NHand(i, e)'
                       + NAnswered(i, e)' + NAbandoned(i, e)'
  BY DEF Places, NQueue, NCarry, NRetry, NHand, NAnswered, NAbandoned
<1>2. /\ NAnswered(i, e)' \in Nat /\ NAbandoned(i, e)' \in Nat /\ Owed(i, e)' \in Nat
  BY DEF NAnswered, NAbandoned, Owed, One
<1>3. Places(i, e) = Owed(i, e)
  BY DEF Conserved, Owed
<1> DEFINE m == NQueue(i)' + NCarry(i, e)' + NRetry(i, e)' + NHand(i, e)'
                   + NAnswered(i, e)' + NAbandoned(i, e)'
           n == NQueue(i) + NCarry(i, e) + NRetry(i, e) + NHand(i, e)
                   + NAnswered(i, e) + NAbandoned(i, e)
           o == Owed(i, e)
           p == Owed(i, e)'
<1>4. n = o /\ o \in Int
  BY <1>3, PlacesAdd
<1>5. m \in Int /\ p \in Int
  BY <1>2
<1>6. m + o = n + p
  OBVIOUS
<1> HIDE DEF m, n, o, p
<1>7. m = p
  BY <1>4, <1>5, <1>6
<1> QED BY <1>1, <1>7 DEF m, p

\* What is owed does not change unless the slice's Push returns or it is tried.
LEMMA OwedKept ==
  ASSUME push' = push, tries' = tries, NEW i, NEW e
  PROVE  Owed(i, e)' = Owed(i, e)
BY DEF Owed

LEMMA PostBalance ==
  ASSUME AdapterInv, NEW s \in Senders, NEW f \in Endpoints, NEW ok \in BOOLEAN, Post(s, f, ok)
  PROVE  Conserved'
<1>0. TypeOK /\ HandsMatch /\ Conserved
  BY DEF AdapterInv
<1> SUFFICES ASSUME NEW i \in Slices, NEW e \in Endpoints
             PROVE  Places(i, e)' = Owed(i, e)'
  BY DEF Conserved, Owed
<1> DEFINE P == i \in batch[s] /\ e = f
<1>1. f \in todo[s] /\ UNCHANGED <<queue, held>> /\ tries' = Tried(batch[s], f)
  BY DEF Post
<1>2. NCarry(i, e)' = NCarry(i, e) - One(P)
  BY <1>0, PostCounts
<1>3. NQueue(i)' = NQueue(i) /\ NHand(i, e)' = NHand(i, e)
  BY <1>1 DEF NQueue, NHand, InQueue, InHand
<1>4. P => Owed(i, e) = 1 /\ <<i, e>> \notin answered \cup abandoned
  <2>1. P => Carriers(i, e) # {}
    BY <1>1 DEF Carriers
  <2> QED BY <1>0, <2>1, CarriedOnly
<1>5. <<i, e>> \in batch[s] \X {f} <=> P
  OBVIOUS
<1>6. /\ NRetry(i, e)' \in Int
      /\ NRetry(i, e)' + NAnswered(i, e)' + NAbandoned(i, e)'
           = NRetry(i, e) + NAnswered(i, e) + NAbandoned(i, e) + One(P)
  <2>0. NRetry(i, e) \in Nat
    BY <1>0, PlacesAdd
  <2>1. CASE ok
    <3>1. answered' = answered \cup (batch[s] \X {f}) /\ UNCHANGED <<retryQueue, abandoned>>
      BY <2>1 DEF Post
    <3>2. NRetry(i, e)' = NRetry(i, e) /\ NAbandoned(i, e)' = NAbandoned(i, e)
      BY <3>1 DEF NRetry, InRetry, NAbandoned
    <3>3. NAnswered(i, e)' = NAnswered(i, e) + One(P)
      <4> HIDE DEF P
      <4> QED BY <1>4, <1>5, <3>1 DEF NAnswered, One
    <3>4. NAnswered(i, e) \in Nat /\ NAbandoned(i, e) \in Nat /\ One(P) \in Nat
      BY DEF NAnswered, NAbandoned, One
    <3> HIDE DEF P
    <3> QED BY <2>0, <3>2, <3>3, <3>4
  <2>2. CASE ~ok
    <3>1. ScheduleRetry(s, f) /\ answered' = answered
      BY <2>2 DEF Post
    <3>2. NAnswered(i, e)' = NAnswered(i, e)
      BY <3>1 DEF NAnswered
    <3> DEFINE t == [slices |-> batch[s], endpoint |-> f, attempts |-> 0]
    <3>3. CASE retryQueue' = Append(retryQueue, t) /\ UNCHANGED abandoned
      <4>1. t \in Task /\ t.slices = batch[s] /\ t.endpoint = f
        BY <1>0 DEF Task, TypeOK
      <4> HIDE DEF t
      <4>2. NRetry(i, e)' = NRetry(i, e) + One(i \in t.slices /\ t.endpoint = e)
        BY <1>0, <3>3, <4>1, RetryGains
      <4>3. One(i \in t.slices /\ t.endpoint = e) = One(P)
        BY <4>1 DEF One
      <4>4. NAbandoned(i, e)' = NAbandoned(i, e)
        BY <3>3 DEF NAbandoned
      <4>5. NAnswered(i, e) \in Nat /\ NAbandoned(i, e) \in Nat /\ One(P) \in Nat
        BY DEF NAnswered, NAbandoned, One
      <4> HIDE DEF P
      <4> QED BY <2>0, <3>2, <4>2, <4>3, <4>4, <4>5
    <3>4. CASE abandoned' = abandoned \cup (batch[s] \X {f}) /\ UNCHANGED retryQueue
      <4>1. NRetry(i, e)' = NRetry(i, e)
        BY <3>4 DEF NRetry, InRetry
      <4>2. NAbandoned(i, e)' = NAbandoned(i, e) + One(P)
        <5> HIDE DEF P
        <5> QED BY <1>4, <1>5, <3>4 DEF NAbandoned, One
      <4>3. NAnswered(i, e) \in Nat /\ NAbandoned(i, e) \in Nat /\ One(P) \in Nat
        BY DEF NAnswered, NAbandoned, One
      <4> HIDE DEF P
      <4> QED BY <2>0, <3>2, <4>1, <4>2, <4>3
    <3> QED BY <3>1, <3>3, <3>4 DEF ScheduleRetry, NewTask
  <2> QED BY <2>1, <2>2
<1>7. Owed(i, e)' = Owed(i, e)
  <2>0. tries[<<i, e>>] \in Nat
    BY <1>0 DEF TypeOK, Pairs
  <2>1. tries'[<<i, e>>] = IF P THEN tries[<<i, e>>] + 1 ELSE tries[<<i, e>>]
    BY <1>0, <1>1 DEF Tried, Pairs
  <2>2. CASE push'[i] = push[i]
    <3>1. CASE P
      <4>1. Owed(i, e) = 1
        BY <1>4, <3>1
      <4>2. tries'[<<i, e>>] > 0
        BY <2>0, <2>1, <3>1
      <4> HIDE DEF P
      <4> QED BY <2>2, <4>1, <4>2 DEF Owed, One
    <3>2. CASE ~P
      BY <2>1, <2>2, <3>2 DEF Owed
    <3> QED BY <3>1, <3>2
  <2>3. CASE push'[i] # push[i]
    <3>1. i = s /\ todo[s] = {f} /\ push'[i] \in {"accepted", "rejected"}
      BY <1>0, <2>3 DEF Post, Returns, TypeOK
    <3>2. push[i] = "sending" /\ batch[i] = {i}
      BY <1>0, <1>1, <3>1 DEF HandsMatch
    <3>3. Owed(i, e) = 1
      BY <3>2 DEF Owed, One
    <3>4. tries'[<<i, e>>] > 0
      <4>1. CASE e = f
        BY <2>0, <2>1, <3>1, <3>2, <4>1
      <4>2. CASE e # f
        <5>1. tries[<<i, e>>] > 0
          BY <1>0, <3>1, <3>2, <4>2 DEF HandsMatch
        <5> QED BY <2>1, <4>2, <5>1
      <4> QED BY <4>1, <4>2
    <3> QED BY <3>1, <3>3, <3>4 DEF Owed, One
  <2> QED BY <2>2, <2>3
<1>8. NQueue(i) \in Nat /\ NCarry(i, e) \in Nat /\ NHand(i, e) \in Nat /\ NRetry(i, e) \in Nat
  BY <1>0, PlacesAdd
<1>9. /\ One(P) \in Nat /\ Owed(i, e) \in Nat /\ NAnswered(i, e) \in Nat /\ NAbandoned(i, e) \in Nat
      /\ NAnswered(i, e)' \in Nat /\ NAbandoned(i, e)' \in Nat
  BY DEF One, Owed, NAnswered, NAbandoned
<1> HIDE DEF P
<1>10. NQueue(i)' + NCarry(i, e)' + NRetry(i, e)' + NHand(i, e)'
           + NAnswered(i, e)' + NAbandoned(i, e)' + Owed(i, e)
         = NQueue(i) + NCarry(i, e) + NRetry(i, e) + NHand(i, e)
           + NAnswered(i, e) + NAbandoned(i, e) + Owed(i, e)'
  <2> DEFINE q == NQueue(i)
             c == NCarry(i, e)
             r == NRetry(i, e)
             h == NHand(i, e)
             a == NAnswered(i, e)
             b == NAbandoned(i, e)
             r1 == NRetry(i, e)'
             a1 == NAnswered(i, e)'
             b1 == NAbandoned(i, e)'
             o == Owed(i, e)
             u == One(P)
  <2>1. /\ q \in Int /\ c \in Int /\ r \in Int /\ h \in Int /\ a \in Int /\ b \in Int
        /\ r1 \in Int /\ a1 \in Int /\ b1 \in Int /\ o \in Int /\ u \in Int
    BY <1>6, <1>8, <1>9
  <2>2. r1 + a1 + b1 = r + a + b + u
    BY <1>6
  <2> HIDE DEF q, c, r, h, a, b, r1, a1, b1, o, u
  <2>3. q + (c - u) + r1 + h + a1 + b1 + o = q + c + r + h + a + b + o
    BY <2>1, <2>2
  <2> QED BY <1>2, <1>3, <1>7, <2>3 DEF q, c, r, h, a, b, r1, a1, b1, o, u
<1>11. NQueue(i)' \in Int /\ NCarry(i, e)' \in Int /\ NHand(i, e)' \in Int
  BY <1>2, <1>3, <1>8, <1>9
<1> QED BY <1>0, <1>6, <1>10, <1>11, Balance

\* Before the first post a slice moves between Push, the queue and the senders, ...
LEMMA MovesIn ==
  ASSUME TypeOK, Conserved, NEW i \in Slices, NEW e \in Endpoints,
         UNCHANGED <<retryQueue, held, answered, abandoned>>,
         NQueue(i)' \in Int, NCarry(i, e)' \in Int,
         NQueue(i)' + NCarry(i, e)' + Owed(i, e) = NQueue(i) + NCarry(i, e) + Owed(i, e)'
  PROVE  Places(i, e)' = Owed(i, e)'
<1> DEFINE q == NQueue(i)
           c == NCarry(i, e)
           q1 == NQueue(i)'
           c1 == NCarry(i, e)'
           r == NRetry(i, e)
           h == NHand(i, e)
           a == NAnswered(i, e)
           b == NAbandoned(i, e)
           o == Owed(i, e)
           o1 == Owed(i, e)'
<1>1. /\ NRetry(i, e)' = r /\ NHand(i, e)' = h /\ NAnswered(i, e)' = a /\ NAbandoned(i, e)' = b
  BY DEF NRetry, NHand, NAnswered, NAbandoned, InRetry, InHand
<1>2. /\ q \in Int /\ c \in Int /\ r \in Int /\ h \in Int /\ a \in Int /\ b \in Int
      /\ o \in Int
  BY PlacesAdd
<1>3. q1 \in Int /\ c1 \in Int /\ o1 \in Int /\ q1 + c1 + o = q + c + o1
  BY DEF Owed, One
<1> HIDE DEF q, c, q1, c1, r, h, a, b, o, o1
<1>4. q1 + c1 + r + h + a + b + o = q + c + r + h + a + b + o1
  BY <1>2, <1>3
<1> QED BY <1>1, <1>2, <1>3, <1>4, Balance DEF q, c, q1, c1, r, h, a, b, o, o1

\* ... and afterwards between the retry queue, the retry worker and its end.
LEMMA MovesOut ==
  ASSUME TypeOK, Conserved, NEW i \in Slices, NEW e \in Endpoints,
         UNCHANGED <<queue, batch, todo>>, Owed(i, e)' = Owed(i, e),
         NRetry(i, e)' \in Int, NHand(i, e)' \in Int,
         NRetry(i, e)' + NHand(i, e)' + NAnswered(i, e)' + NAbandoned(i, e)'
           = NRetry(i, e) + NHand(i, e) + NAnswered(i, e) + NAbandoned(i, e)
  PROVE  Places(i, e)' = Owed(i, e)'
<1> DEFINE q == NQueue(i)
           c == NCarry(i, e)
           r == NRetry(i, e)
           h == NHand(i, e)
           a == NAnswered(i, e)
           b == NAbandoned(i, e)
           r1 == NRetry(i, e)'
           h1 == NHand(i, e)'
           a1 == NAnswered(i, e)'
           b1 == NAbandoned(i, e)'
           o == Owed(i, e)
<1>1. NQueue(i)' = q /\ NCarry(i, e)' = c
  BY DEF NQueue, NCarry, InQueue, Carriers
<1>2. /\ q \in Int /\ c \in Int /\ r \in Int /\ h \in Int /\ a \in Int /\ b \in Int
      /\ o \in Int
  BY PlacesAdd
<1>3. /\ r1 \in Int /\ h1 \in Int /\ a1 \in Int /\ b1 \in Int
      /\ r1 + h1 + a1 + b1 = r + h + a + b
  BY DEF NAnswered, NAbandoned, One
<1> HIDE DEF q, c, r, h, a, b, r1, h1, a1, b1, o
<1>4. q + c + r1 + h1 + a1 + b1 + o = q + c + r + h + a + b + o
  BY <1>2, <1>3
<1> QED BY <1>1, <1>2, <1>3, <1>4, Balance DEF q, c, r, h, a, b, r1, h1, a1, b1, o

\* Nothing moves.
LEMMA Unmoved ==
  ASSUME TypeOK, Conserved, NEW i \in Slices, NEW e \in Endpoints,
         UNCHANGED <<queue, batch, todo, retryQueue, held, answered, abandoned>>,
         Owed(i, e)' = Owed(i, e)
  PROVE  Places(i, e)' = Owed(i, e)'
<1>1. Places(i, e)' = Places(i, e)
  BY DEF Places, InQueue, Carriers, InRetry, InHand
<1> QED BY <1>1 DEF Conserved, Owed

LEMMA PushingBalance ==
  ASSUME AdapterInv, NEW i \in Slices, Pushing(i)
  PROVE  Conserved'
<1>0. TypeOK /\ HandsMatch /\ Conserved
  BY DEF AdapterInv
<1> SUFFICES ASSUME NEW k \in Slices, NEW e \in Endpoints
             PROVE  Places(k, e)' = Owed(k, e)'
  BY DEF Conserved, Owed
<1>1. /\ NQueue(k) \in Nat /\ NCarry(k, e) \in Nat /\ Owed(k, e) \in Nat
  BY <1>0, PlacesAdd
<1>2. CASE PushQueued(i)
  <2>1. /\ queue' = Append(queue, i) /\ push[i] = "new" /\ push' = [push EXCEPT ![i] = "accepted"]
        /\ UNCHANGED <<batch, todo, retryQueue, held, answered, abandoned, tries>>
    BY <1>2 DEF PushQueued, sendVars, retryVars, history
  <2>2. NQueue(k)' = NQueue(k) + One(k = i)
    <3>1. InQueue(k) = At(queue, {k}) /\ InQueue(k)' = At(Append(queue, i), {k})
      BY <2>1 DEF InQueue, At
    <3>2. PICK q \in Seq(Slices) : q = queue
      BY <1>0 DEF TypeOK
    <3>3. Cardinality(At(Append(q, i), {k})) = Cardinality(At(q, {k})) + One(k = i)
      BY QueueGains
    <3> QED BY <3>1, <3>2, <3>3 DEF NQueue
  <2>3. NCarry(k, e)' = NCarry(k, e)
    BY <2>1 DEF NCarry, Carriers
  <2>4. Owed(k, e)' = Owed(k, e) + One(k = i)
    <3>1. CASE k = i
      <4>1. Owed(k, e) = 0
        BY <1>0, <2>1, <3>1, NotOwed
      <4>2. Owed(k, e)' = 1
        BY <1>0, <2>1, <3>1 DEF Owed, One, TypeOK
      <4> QED BY <3>1, <4>1, <4>2 DEF One
    <3>2. CASE k # i
      <4>1. Owed(k, e)' = Owed(k, e)
        BY <1>0, <2>1, <3>2 DEF Owed, TypeOK
      <4> QED BY <1>1, <3>2, <4>1 DEF One
    <3> QED BY <3>1, <3>2
  <2>5. One(k = i) \in Nat
    BY DEF One
  <2>6. /\ NQueue(k)' \in Int /\ NCarry(k, e)' \in Int
        /\ NQueue(k)' + NCarry(k, e)' + Owed(k, e) = NQueue(k) + NCarry(k, e) + Owed(k, e)'
    BY <1>1, <2>2, <2>3, <2>4, <2>5
  <2> QED BY <1>0, <2>1, <2>6, MovesIn
<1>3. CASE PushBlocks(i) \/ PushStopped(i) \/ PushPanics(i)
  <2>1. UNCHANGED <<queue, batch, todo, retryQueue, held, answered, abandoned, tries>>
    BY <1>3 DEF PushBlocks, PushStopped, PushPanics, sendVars, retryVars, history
  <2>2. Owed(k, e)' = Owed(k, e)
    <3>1. CASE push'[k] = push[k]
      BY <2>1, <3>1 DEF Owed
    <3>2. CASE push'[k] # push[k]
      <4>1. push[k] = "new" /\ push'[k] \in {"blocked", "rejected"}
        BY <1>0, <1>3, <3>2 DEF PushBlocks, PushStopped, PushPanics, TypeOK
      <4>2. Owed(k, e) = 0 /\ tries'[<<k, e>>] = 0
        BY <1>0, <2>1, <4>1, NotOwed
      <4> QED BY <4>1, <4>2 DEF Owed, One
    <3> QED BY <3>1, <3>2
  <2> QED BY <1>0, <2>1, <2>2, Unmoved
<1>4. CASE PushTimesOut(i) \/ PushAtOnce(i)
  <2>1. /\ push[i] \in {"new", "blocked"} /\ push' = [push EXCEPT ![i] = "sending"]
        /\ StartsSending(i, {i})
        /\ UNCHANGED <<queue, retryQueue, held, answered, abandoned, tries>>
    BY <1>4 DEF PushTimesOut, PushAtOnce, Direct, TimerFires, retryVars, history
  <2>2. i \in Senders /\ batch[i] = {} /\ todo[i] = {} /\ Carriers(i, e) = {}
    BY <1>0, <2>1, NotOwed DEF HandsMatch, Senders
  <2>3. /\ batch' = [batch EXCEPT ![i] = batch[i] \cup {i}]
        /\ todo' = [todo EXCEPT ![i] = Endpoints]
    BY <2>1, <2>2 DEF StartsSending
  <2>4. NCarry(k, e)' = NCarry(k, e) + One(k = i)
    <3>1. \A t \in Senders : t # i => batch'[t] = batch[t] /\ todo'[t] = todo[t]
      BY <1>0, <2>3 DEF TypeOK
    <3>2. batch'[i] = batch[i] \cup {i} /\ e \in todo'[i]
      BY <1>0, <2>2, <2>3 DEF TypeOK
    <3> QED BY <1>0, <2>2, <3>1, <3>2, TakeCounts
  <2>5. NQueue(k)' = NQueue(k)
    BY <2>1 DEF NQueue, InQueue
  <2>6. Owed(k, e)' = Owed(k, e) + One(k = i)
    <3>1. CASE k = i
      <4>1. Owed(k, e) = 0
        BY <1>0, <2>1, <3>1, NotOwed
      <4>2. Owed(k, e)' = 1
        BY <1>0, <2>1, <3>1 DEF Owed, One, TypeOK
      <4> QED BY <3>1, <4>1, <4>2 DEF One
    <3>2. CASE k # i
      <4>1. Owed(k, e)' = Owed(k, e)
        BY <1>0, <2>1, <3>2 DEF Owed, TypeOK
      <4> QED BY <1>1, <3>2, <4>1 DEF One
    <3> QED BY <3>1, <3>2
  <2>7. One(k = i) \in Nat
    BY DEF One
  <2>8. /\ NQueue(k)' \in Int /\ NCarry(k, e)' \in Int
        /\ NQueue(k)' + NCarry(k, e)' + Owed(k, e) = NQueue(k) + NCarry(k, e) + Owed(k, e)'
    BY <1>1, <2>4, <2>5, <2>6, <2>7
  <2> QED BY <1>0, <2>1, <2>8, MovesIn
<1> QED BY <1>2, <1>3, <1>4 DEF Pushing

\* A worker or the flusher takes one more slice.
LEMMA TakeBalance ==
  ASSUME AdapterInv, NEW s \in Senders, NEW i \in Receivable, Receive(i),
         batch' = [batch EXCEPT ![s] = batch[s] \cup {i}],
         \/ todo' = todo /\ todo[s] = {}
         \/ todo' = [todo EXCEPT ![s] = Endpoints] /\ (todo[s] = {} \/ batch[s] = {}),
         UNCHANGED <<retryVars, history>>
  PROVE  Conserved'
<1>0. TypeOK /\ HandsMatch /\ Conserved /\ i \in Slices
  BY ReceivableIsSlice DEF AdapterInv
<1> SUFFICES ASSUME NEW k \in Slices, NEW e \in Endpoints
             PROVE  Places(k, e)' = Owed(k, e)'
  BY DEF Conserved, Owed
<1>1. UNCHANGED <<retryQueue, held, answered, abandoned, tries>>
  BY DEF retryVars, history
<1>2. NQueue(k)' + One(k = i) + Owed(k, e) = NQueue(k) + Owed(k, e)'
  BY <1>1, ReceiveCounts
<1>3. Carriers(i, e) = {}
  BY ReceivableUncarried
<1>4. NCarry(k, e)' = NCarry(k, e) + One(k = i)
  <2>1. \A t \in Senders : t # s => batch'[t] = batch[t] /\ todo'[t] = todo[t]
    BY <1>0 DEF TypeOK
  <2>2. /\ batch'[s] = batch[s] \cup {i} /\ (todo'[s] = {} \/ e \in todo'[s])
        /\ todo[s] = {} \/ batch[s] = {}
    BY <1>0 DEF TypeOK
  <2> QED BY <1>0, <1>3, <2>1, <2>2, TakeCounts
<1>5. NQueue(k)' \in Nat
  <2>1. queue' \in Seq(Slices)
    BY <1>0, ReceiveTypes
  <2>2. InQueue(k)' = At(queue', {k})
    BY DEF InQueue, At
  <2> QED BY <2>1, <2>2, AtFinite DEF NQueue
<1> DEFINE q == NQueue(k)
           q1 == NQueue(k)'
           c == NCarry(k, e)
           c1 == NCarry(k, e)'
           o == Owed(k, e)
           o1 == Owed(k, e)'
           u == One(k = i)
<1>6. q \in Int /\ c \in Int /\ o \in Int /\ o1 \in Int /\ u \in Int /\ q1 \in Int
  <2>1. q \in Int /\ c \in Int /\ o \in Int
    BY <1>0, PlacesAdd
  <2>2. o1 \in Int /\ u \in Int
    BY DEF Owed, One
  <2> QED BY <1>5, <2>1, <2>2
<1>7. q1 + u + o = q + o1 /\ c1 = c + u
  BY <1>2, <1>4
<1> HIDE DEF q, q1, c, c1, o, o1, u
<1>8. q1 \in Int /\ c1 \in Int /\ q1 + c1 + o = q + c + o1
  BY <1>6, <1>7
<1> QED BY <1>0, <1>1, <1>8, MovesIn DEF q, q1, c, c1, o, o1

\* A sender starts to send what it has gathered.
LEMMA GatheredBalance ==
  ASSUME AdapterInv, NEW s \in Senders, todo[s] = {}, StartsSending(s, batch[s]),
         UNCHANGED <<push, queue, retryVars, history>>
  PROVE  Conserved'
<1>0. TypeOK /\ Conserved
  BY DEF AdapterInv
<1> SUFFICES ASSUME NEW k \in Slices, NEW e \in Endpoints
             PROVE  Places(k, e)' = Owed(k, e)'
  BY DEF Conserved, Owed
<1>1. NCarry(k, e)' = NCarry(k, e)
  BY <1>0, GatheredKept
<1>2. NQueue(k)' = NQueue(k) /\ Owed(k, e)' = Owed(k, e)
  BY OwedKept DEF history, NQueue, InQueue
<1>3. NQueue(k) \in Int /\ NCarry(k, e) \in Int
  BY <1>0, PlacesAdd
<1>4. UNCHANGED <<retryQueue, held, answered, abandoned>>
  BY DEF retryVars, history
<1> QED BY <1>0, <1>1, <1>2, <1>3, <1>4, MovesIn

LEMMA WorkingBalance ==
  ASSUME AdapterInv, NEW w \in Workers, Working(w)
  PROVE  Conserved'
<1>0. TypeOK /\ HandsMatch /\ Conserved /\ w \in Senders
  BY DEF AdapterInv, Senders
<1>1. CASE WorkerTake(w)
  <2>1. PICK i \in Receivable :
          /\ Receive(i)
          /\ IF Full(batch[w] \cup {i})
             THEN /\ StartsSending(w, batch[w] \cup {i})
                  /\ wpc' = [wpc EXCEPT ![w] = "sending"]
             ELSE /\ batch' = [batch EXCEPT ![w] = @ \cup {i}]
                  /\ UNCHANGED <<todo, reached, wpc>>
    BY <1>1 DEF WorkerTake
  <2>2. todo[w] = {} /\ UNCHANGED <<retryVars, history>>
    BY <1>0, <1>1 DEF WorkerTake, HandsMatch
  <2>3. batch' = [batch EXCEPT ![w] = batch[w] \cup {i}]
    BY <2>1 DEF StartsSending
  <2>4. todo' = todo \/ todo' = [todo EXCEPT ![w] = Endpoints]
    BY <2>1 DEF StartsSending
  <2> QED BY <1>0, <2>1, <2>2, <2>3, <2>4, TakeBalance
<1>2. CASE WorkerTick(w) \/ (WorkerLeaves(w) /\ batch[w] # {})
  <2>1. /\ StartsSending(w, batch[w]) /\ wpc[w] = "selecting"
        /\ UNCHANGED <<push, queue, retryVars, history>>
    BY <1>2 DEF WorkerTick, WorkerLeaves
  <2>2. todo[w] = {}
    BY <1>0, <2>1 DEF HandsMatch
  <2> QED BY <1>0, <2>1, <2>2, GatheredBalance
<1>3. CASE WorkerPanics(w) \/ (WorkerLeaves(w) /\ batch[w] = {})
  <2>1. UNCHANGED <<push, queue, batch, todo, retryQueue, held, answered, abandoned, tries>>
    BY <1>3 DEF WorkerPanics, WorkerLeaves, sendVars, retryVars, history
  <2>2. \A k \in Slices, e \in Endpoints : Places(k, e)' = Owed(k, e)'
    BY <1>0, <2>1, OwedKept, Unmoved
  <2> QED BY <2>2 DEF Conserved, Owed
<1> QED BY <1>1, <1>2, <1>3 DEF Working

LEMMA StoppingBalance ==
  ASSUME AdapterInv, FlushBegin \/ Stopping
  PROVE  Conserved'
<1>0. TypeOK /\ HandsMatch /\ Conserved /\ Flusher \in Senders
  BY DEF AdapterInv, Senders
<1>1. CASE FlushTake
  <2>1. PICK i \in Receivable : Receive(i) /\ StartsSending(Flusher, {i})
    BY <1>1 DEF FlushTake
  <2>2. batch[Flusher] = {} /\ UNCHANGED <<retryVars, history>>
    BY <1>1 DEF FlushTake
  <2>3. /\ batch' = [batch EXCEPT ![Flusher] = batch[Flusher] \cup {i}]
        /\ todo' = [todo EXCEPT ![Flusher] = Endpoints]
    BY <2>1, <2>2 DEF StartsSending
  <2> QED BY <1>0, <2>1, <2>2, <2>3, TakeBalance
<1>2. CASE FlushBegin \/ FlushEnd \/ StopClose \/ StopWaited \/ StopReturns
  <2>1. UNCHANGED <<push, queue, batch, todo, retryQueue, held, answered, abandoned, tries>>
    BY <1>2 DEF FlushBegin, FlushEnd, StopClose, StopWaited, StopReturns, sendVars, retryVars,
       history
  <2>2. \A k \in Slices, e \in Endpoints : Places(k, e)' = Owed(k, e)'
    BY <1>0, <2>1, OwedKept, Unmoved
  <2> QED BY <2>2 DEF Conserved, Owed
<1>3. CASE StopCancel
  <2>1. UNCHANGED <<queue, batch, todo, retryQueue, held, answered, abandoned, tries>>
    BY <1>3 DEF StopCancel, sendVars, retryVars, history
  <2>2. ASSUME NEW k \in Slices, NEW e \in Endpoints PROVE Owed(k, e)' = Owed(k, e)
    <3>1. push'[k] = IF push[k] = "blocked" THEN "rejected" ELSE push[k]
      BY <1>3 DEF StopCancel
    <3>2. CASE push[k] = "blocked"
      <4>1. Owed(k, e) = 0 /\ tries'[<<k, e>>] = 0
        BY <1>0, <2>1, <3>2, NotOwed
      <4> QED BY <3>1, <3>2, <4>1 DEF Owed, One
    <3>3. CASE push[k] # "blocked"
      BY <2>1, <3>1, <3>3 DEF Owed
    <3> QED BY <3>2, <3>3
  <2>3. \A k \in Slices, e \in Endpoints : Places(k, e)' = Owed(k, e)'
    BY <1>0, <2>1, <2>2, Unmoved
  <2> QED BY <2>3 DEF Conserved, Owed
<1> QED BY <1>1, <1>2, <1>3 DEF Stopping

-----------------------------------------------------------------------------
(* The retry engine moves tasks *)

\* Is it slice k that the held task carries to endpoint e?
HeldIs(k, e) == k \in held[1].slices /\ held[1].endpoint = e

\* What the held task is about was posted, or is now.
LEMMA HeldOwed ==
  ASSUME TypeOK, Conserved, held # <<>>, push' = push,
         tries' = tries \/ tries' = Tried(held[1].slices, held[1].endpoint),
         NEW k \in Slices, NEW e \in Endpoints
  PROVE  Owed(k, e)' = Owed(k, e)
<1>1. CASE tries' = tries
  BY <1>1 DEF Owed
<1>2. CASE tries' = Tried(held[1].slices, held[1].endpoint)
  <2>1. tries'[<<k, e>>] = IF HeldIs(k, e) THEN tries[<<k, e>>] + 1 ELSE tries[<<k, e>>]
    BY <1>2 DEF Tried, Pairs, HeldIs
  <2>2. CASE HeldIs(k, e)
    <3>1. NHand(k, e) # 0
      BY <2>2, HandCounts DEF HeldIs, One
    <3>2. Owed(k, e) = 1
      BY <3>1, InOnePlace
    <3>3. tries'[<<k, e>>] > 0
      <4>1. tries[<<k, e>>] \in Nat
        BY DEF TypeOK, Pairs
      <4> QED BY <2>1, <2>2, <4>1
    <3> QED BY <3>2, <3>3 DEF Owed, One
  <2>3. CASE ~HeldIs(k, e)
    BY <2>1, <2>3 DEF Owed
  <2> QED BY <2>2, <2>3
<1> QED BY <1>1, <1>2

\* It leaves the hand of the retry worker; ...
LEMMA HandEmpties ==
  ASSUME TypeOK, Conserved, held # <<>>, held' = <<>>, NEW k \in Slices, NEW e \in Endpoints
  PROVE  /\ NHand(k, e)' = 0 /\ NHand(k, e) = One(HeldIs(k, e))
         /\ HeldIs(k, e) => NAnswered(k, e) = 0 /\ NAbandoned(k, e) = 0
<1>1. NHand(k, e)' = 0
  <2>1. InHand(k, e)' = {}
    BY DEF InHand
  <2> QED BY <2>1, FS_EmptySet DEF NHand
<1>2. NHand(k, e) = One(HeldIs(k, e))
  BY HandCounts DEF HeldIs
<1>3. HeldIs(k, e) => NHand(k, e) # 0
  BY <1>2 DEF One
<1> QED BY <1>1, <1>2, <1>3, InOnePlace

\* ... and is confirmed, ...
LEMMA HeldAnswered ==
  ASSUME TypeOK, Conserved, held # <<>>, held' = <<>>,
         UNCHANGED <<push, queue, batch, todo, retryQueue, abandoned>>,
         tries' = tries \/ tries' = Tried(held[1].slices, held[1].endpoint),
         answered' = answered \cup (held[1].slices \X {held[1].endpoint}),
         NEW k \in Slices, NEW e \in Endpoints
  PROVE  Places(k, e)' = Owed(k, e)'
<1>1. /\ NHand(k, e)' = 0 /\ NHand(k, e) = One(HeldIs(k, e))
      /\ HeldIs(k, e) => NAnswered(k, e) = 0
  BY HandEmpties
<1>2. NRetry(k, e)' = NRetry(k, e) /\ NAbandoned(k, e)' = NAbandoned(k, e)
  BY DEF NRetry, InRetry, NAbandoned
<1>3. NAnswered(k, e)' = NAnswered(k, e) + One(HeldIs(k, e))
  <2>1. <<k, e>> \in answered' <=> <<k, e>> \in answered \/ HeldIs(k, e)
    BY DEF HeldIs
  <2>2. CASE HeldIs(k, e)
    BY <1>1, <2>1, <2>2 DEF NAnswered, One
  <2>3. CASE ~HeldIs(k, e)
    BY <2>1, <2>3 DEF NAnswered, One
  <2> QED BY <2>2, <2>3
<1>4. /\ NRetry(k, e) \in Nat /\ NHand(k, e) \in Nat /\ NAnswered(k, e) \in Nat
      /\ NAbandoned(k, e) \in Nat
  BY PlacesAdd
<1>5. /\ NRetry(k, e)' \in Int /\ NHand(k, e)' \in Int
      /\ NRetry(k, e)' + NHand(k, e)' + NAnswered(k, e)' + NAbandoned(k, e)'
           = NRetry(k, e) + NHand(k, e) + NAnswered(k, e) + NAbandoned(k, e)
  BY <1>1, <1>2, <1>3, <1>4
<1>6. Owed(k, e)' = Owed(k, e)
  BY HeldOwed
<1> QED BY <1>5, <1>6, MovesOut

\* ... given up, ...
LEMMA HeldDropped ==
  ASSUME TypeOK, Conserved, held # <<>>, held' = <<>>,
         UNCHANGED <<push, queue, batch, todo, retryQueue, answered>>,
         tries' = tries \/ tries' = Tried(held[1].slices, held[1].endpoint),
         abandoned' = abandoned \cup (held[1].slices \X {held[1].endpoint}),
         NEW k \in Slices, NEW e \in Endpoints
  PROVE  Places(k, e)' = Owed(k, e)'
<1>1. /\ NHand(k, e)' = 0 /\ NHand(k, e) = One(HeldIs(k, e))
      /\ HeldIs(k, e) => NAbandoned(k, e) = 0
  BY HandEmpties
<1>2. NRetry(k, e)' = NRetry(k, e) /\ NAnswered(k, e)' = NAnswered(k, e)
  BY DEF NRetry, InRetry, NAnswered
<1>3. NAbandoned(k, e)' = NAbandoned(k, e) + One(HeldIs(k, e))
  <2>1. <<k, e>> \in abandoned' <=> <<k, e>> \in abandoned \/ HeldIs(k, e)
    BY DEF HeldIs
  <2>2. CASE HeldIs(k, e)
    BY <1>1, <2>1, <2>2 DEF NAbandoned, One
  <2>3. CASE ~HeldIs(k, e)
    BY <2>1, <2>3 DEF NAbandoned, One
  <2> QED BY <2>2, <2>3
<1>4. /\ NRetry(k, e) \in Nat /\ NHand(k, e) \in Nat /\ NAnswered(k, e) \in Nat
      /\ NAbandoned(k, e) \in Nat
  BY PlacesAdd
<1>5. /\ NRetry(k, e)' \in Int /\ NHand(k, e)' \in Int
      /\ NRetry(k, e)' + NHand(k, e)' + NAnswered(k, e)' + NAbandoned(k, e)'
           = NRetry(k, e) + NHand(k, e) + NAnswered(k, e) + NAbandoned(k, e)
  BY <1>1, <1>2, <1>3, <1>4
<1>6. Owed(k, e)' = Owed(k, e)
  BY HeldOwed
<1> QED BY <1>5, <1>6, MovesOut

\* ... or queued again.
LEMMA HeldRequeued ==
  ASSUME TypeOK, Conserved, held # <<>>, held' = <<>>, NEW t \in Task,
         t.slices = held[1].slices, t.endpoint = held[1].endpoint,
         UNCHANGED <<push, queue, batch, todo, answered, abandoned>>,
         tries' = tries \/ tries' = Tried(held[1].slices, held[1].endpoint),
         retryQueue' = Append(retryQueue, t),
         NEW k \in Slices, NEW e \in Endpoints
  PROVE  Places(k, e)' = Owed(k, e)'
<1>1. NHand(k, e)' = 0 /\ NHand(k, e) = One(HeldIs(k, e))
  BY HandEmpties
<1>2. NAnswered(k, e)' = NAnswered(k, e) /\ NAbandoned(k, e)' = NAbandoned(k, e)
  BY DEF NAnswered, NAbandoned
<1>3. NRetry(k, e)' = NRetry(k, e) + One(HeldIs(k, e))
  <2>1. NRetry(k, e)' = NRetry(k, e) + One(k \in t.slices /\ t.endpoint = e)
    BY RetryGains
  <2> QED BY <2>1 DEF HeldIs
<1>4. /\ NRetry(k, e) \in Nat /\ NHand(k, e) \in Nat /\ NAnswered(k, e) \in Nat
      /\ NAbandoned(k, e) \in Nat
  BY PlacesAdd
<1>5. /\ NRetry(k, e)' \in Int /\ NHand(k, e)' \in Int
      /\ NRetry(k, e)' + NHand(k, e)' + NAnswered(k, e)' + NAbandoned(k, e)'
           = NRetry(k, e) + NHand(k, e) + NAnswered(k, e) + NAbandoned(k, e)
  BY <1>1, <1>2, <1>3, <1>4
<1>6. Owed(k, e)' = Owed(k, e)
  BY HeldOwed
<1> QED BY <1>5, <1>6, MovesOut

\* The retry worker takes the head of the queue into its hand.
LEMMA TakenInHand ==
  ASSUME TypeOK, Conserved, RetryTake, NEW k \in Slices, NEW e \in Endpoints
  PROVE  Places(k, e)' = Owed(k, e)'
<1> DEFINE t == Head(retryQueue)
<1>1. /\ held = <<>> /\ retryQueue # <<>> /\ held' = <<t>> /\ retryQueue' = Tail(retryQueue)
      /\ UNCHANGED <<push, queue, batch, todo, answered, abandoned, tries>>
  BY DEF RetryTake, sendVars, history
<1>2. NRetry(k, e)' = NRetry(k, e) - One(k \in t.slices /\ t.endpoint = e)
  BY <1>1, RetryLoses
<1>3. NHand(k, e) = 0
  BY <1>1, HandCounts
<1>4. NHand(k, e)' = One(k \in t.slices /\ t.endpoint = e)
  <2>1. 1..Len(held') = {1} /\ held'[1] = t
    BY <1>1
  <2> HIDE DEF t
  <2>2. CASE k \in t.slices /\ t.endpoint = e
    <3>1. InHand(k, e)' = {1}
      BY <2>1, <2>2 DEF InHand
    <3> QED BY <2>2, <3>1, FS_Singleton DEF NHand, One
  <2>3. CASE ~(k \in t.slices /\ t.endpoint = e)
    <3>1. InHand(k, e)' = {}
      BY <2>1, <2>3 DEF InHand
    <3> QED BY <2>3, <3>1, FS_EmptySet DEF NHand, One
  <2> QED BY <2>2, <2>3
<1> HIDE DEF t
<1>5. NAnswered(k, e)' = NAnswered(k, e) /\ NAbandoned(k, e)' = NAbandoned(k, e)
  BY <1>1 DEF NAnswered, NAbandoned
<1>6. /\ NRetry(k, e) \in Nat /\ NAnswered(k, e) \in Nat /\ NAbandoned(k, e) \in Nat
      /\ One(k \in t.slices /\ t.endpoint = e) \in Nat
  BY PlacesAdd DEF One
<1>7. /\ NRetry(k, e)' \in Int /\ NHand(k, e)' \in Int
      /\ NRetry(k, e)' + NHand(k, e)' + NAnswered(k, e)' + NAbandoned(k, e)'
           = NRetry(k, e) + NHand(k, e) + NAnswered(k, e) + NAbandoned(k, e)
  BY <1>2, <1>3, <1>4, <1>5, <1>6
<1>8. Owed(k, e)' = Owed(k, e)
  BY <1>1 DEF Owed
<1> QED BY <1>1, <1>7, <1>8, MovesOut

\* A retry engine that is stopped gives up what is queued, each slice once.
LEMMA QueueDrained ==
  ASSUME TypeOK, Conserved, RetryDrained, NEW k \in Slices, NEW e \in Endpoints
  PROVE  Places(k, e)' = Owed(k, e)'
<1>1. /\ retryQueue' = <<>>
      /\ abandoned' = abandoned \cup UNION {t.slices \X {t.endpoint} : t \in ToSet(retryQueue)}
      /\ UNCHANGED <<push, queue, batch, todo, held, answered, tries>>
  BY DEF RetryDrained, sendVars
<1>2. NRetry(k, e)' = 0
  <2>1. InRetry(k, e)' = {}
    BY <1>1 DEF InRetry
  <2> QED BY <2>1, FS_EmptySet DEF NRetry
<1>3. InRetry(k, e) = At(retryQueue, TasksOf(k, e))
  BY DEF InRetry, At, TasksOf, TypeOK
<1>4. NRetry(k, e) = 0 <=> InRetry(k, e) = {}
  BY <1>3, AtFinite, FS_EmptySet DEF NRetry, TypeOK
<1>5. <<k, e>> \in abandoned' <=> <<k, e>> \in abandoned \/ InRetry(k, e) # {}
  <2>1. \A t \in Task : <<k, e>> \in t.slices \X {t.endpoint} <=> k \in t.slices /\ t.endpoint = e
    OBVIOUS
  <2>2. ToSet(retryQueue) = {retryQueue[n] : n \in 1..Len(retryQueue)}
    BY DEF ToSet, TypeOK
  <2>3. \A n \in 1..Len(retryQueue) : retryQueue[n] \in Task
    BY DEF TypeOK
  <2>4. InRetry(k, e) # {} <=>
          \E n \in 1..Len(retryQueue) : <<k, e>> \in retryQueue[n].slices \X {retryQueue[n].endpoint}
    BY <2>1, <2>3 DEF InRetry
  <2> QED BY <1>1, <2>2, <2>4
<1>6. NAbandoned(k, e)' = NAbandoned(k, e) + NRetry(k, e)
  <2>1. CASE NRetry(k, e) = 0
    BY <1>4, <1>5, <2>1 DEF NAbandoned, One
  <2>2. CASE NRetry(k, e) # 0
    <3>1. NRetry(k, e) = 1 /\ NAbandoned(k, e) = 0
      BY <2>2, InOnePlace
    <3>2. NAbandoned(k, e)' = 1
      BY <1>4, <1>5, <2>2 DEF NAbandoned, One
    <3> QED BY <3>1, <3>2
  <2> QED BY <2>1, <2>2
<1>7. /\ NRetry(k, e) \in Nat /\ NHand(k, e) \in Nat /\ NAnswered(k, e) \in Nat
      /\ NAbandoned(k, e) \in Nat
  BY PlacesAdd
<1>8. NHand(k, e)' = NHand(k, e) /\ NAnswered(k, e)' = NAnswered(k, e)
  BY <1>1 DEF NHand, InHand, NAnswered
<1>9. /\ NRetry(k, e)' \in Int /\ NHand(k, e)' \in Int
      /\ NRetry(k, e)' + NHand(k, e)' + NAnswered(k, e)' + NAbandoned(k, e)'
           = NRetry(k, e) + NHand(k, e) + NAnswered(k, e) + NAbandoned(k, e)
  BY <1>2, <1>6, <1>7, <1>8
<1>10. Owed(k, e)' = Owed(k, e)
  BY <1>1 DEF Owed
<1> QED BY <1>1, <1>9, <1>10, MovesOut

LEMMA RetryingBalance ==
  ASSUME AdapterInv, Retrying
  PROVE  Conserved'
<1>0. TypeOK /\ Conserved
  BY DEF AdapterInv
<1> SUFFICES ASSUME NEW k \in Slices, NEW e \in Endpoints
             PROVE  Places(k, e)' = Owed(k, e)'
  BY DEF Conserved, Owed
<1>1. CASE RetryTake
  BY <1>0, <1>1, TakenInHand
<1>2. ASSUME NEW ok \in BOOLEAN, RetryPost(ok) PROVE Places(k, e)' = Owed(k, e)'
  <2>1. /\ held # <<>> /\ held' = <<>> /\ tries' = Tried(held[1].slices, held[1].endpoint)
        /\ UNCHANGED <<push, queue, batch, todo>>
    BY <1>2 DEF RetryPost, sendVars
  <2>2. CASE ok
    BY <1>0, <1>2, <2>1, <2>2, HeldAnswered DEF RetryPost
  <2>3. CASE ~ok
    <3> DEFINE u == [held[1] EXCEPT !.attempts = held[1].attempts + 1]
    <3>1. RetryFails(held[1].attempts + 1) /\ answered' = answered
      BY <1>2, <2>3 DEF RetryPost
    <3>2. CASE retryQueue' = Append(retryQueue, u) /\ UNCHANGED abandoned
      <4>1. u \in Task /\ u.slices = held[1].slices /\ u.endpoint = held[1].endpoint
        <5>1. held[1] \in Task /\ held[1].attempts \in Nat
          BY <1>0, <2>1, HeldIsTask
        <5> QED BY <5>1 DEF Task
      <4> HIDE DEF u
      <4>2. PICK t \in Task : t = u
        BY <4>1
      <4> QED BY <1>0, <2>1, <3>1, <3>2, <4>1, <4>2, HeldRequeued
    <3>3. CASE abandoned' = abandoned \cup (held[1].slices \X {held[1].endpoint})
               /\ UNCHANGED retryQueue
      BY <1>0, <2>1, <3>1, <3>3, HeldDropped
    <3> QED BY <3>1, <3>2, <3>3 DEF RetryFails
  <2> QED BY <2>2, <2>3
<1>3. CASE RetryInterrupted
  <2>1. /\ held # <<>> /\ held' = <<>> /\ tries' = tries
        /\ abandoned' = abandoned \cup (held[1].slices \X {held[1].endpoint})
        /\ UNCHANGED <<push, queue, batch, todo, retryQueue, answered>>
    BY <1>3 DEF RetryInterrupted, sendVars
  <2> QED BY <1>0, <2>1, HeldDropped
<1>4. CASE RetryDrained
  BY <1>0, <1>4, QueueDrained
<1> QED BY <1>1, <1>2, <1>3, <1>4 DEF Retrying

-----------------------------------------------------------------------------
(* Conservation *)

\* Nothing was pushed and nothing is anywhere.
LEMMA ConservedInit == Init => Conserved
<1> SUFFICES ASSUME Init, NEW k \in Slices, NEW e \in Endpoints
             PROVE  Places(k, e) = Owed(k, e)
  BY DEF Conserved, Owed
<1>1. InQueue(k) = {} /\ Carriers(k, e) = {} /\ InRetry(k, e) = {} /\ InHand(k, e) = {}
  BY DEF Init, InQueue, Carriers, InRetry, InHand
<1>2. One(<<k, e>> \in answered) = 0 /\ One(<<k, e>> \in abandoned) = 0 /\ Owed(k, e) = 0
  BY DEF Init, One, Owed
<1> QED BY <1>1, <1>2, FS_EmptySet DEF Places

LEMMA ConservedStep ==
  ASSUME AdapterInv, [Next]_vars
  PROVE  Conserved'
<1>1. CASE UNCHANGED vars
  BY <1>1 DEF AdapterInv, Conserved, Places, InQueue, Carriers, InRetry, InHand, vars, sendVars,
     retryVars, history
<1>2. CASE \E s \in Senders : Sending(s)
  BY <1>2, PostBalance DEF Sending
<1>3. CASE Next /\ ~(\E s \in Senders : Sending(s))
  BY <1>3, PushingBalance, WorkingBalance, RetryingBalance, StoppingBalance DEF Next
<1> QED BY <1>1, <1>2, <1>3

\* For every endpoint an accepted slice is in exactly one place, whatever posts
\* fail, time out or are retried, and wherever a shutdown meets them: between the
\* queue, the senders, the retry engine and its end, none is lost or doubled.
THEOREM SlicesAreConserved == Spec => []Conserved
<1>1. Init => AdapterInv
  BY TypeInit, HandsInit, ConservedInit DEF AdapterInv
<1>2. AdapterInv /\ [Next]_vars => AdapterInv'
  <2> SUFFICES ASSUME AdapterInv, [Next]_vars PROVE AdapterInv'
    OBVIOUS
  <2>1. TypeOK' /\ HandsMatch' /\ Conserved'
    BY TypeStep, HandsStep, ConservedStep DEF AdapterInv
  <2> QED BY <2>1 DEF AdapterInv
<1>3. AdapterInv => Conserved
  BY DEF AdapterInv
<1> QED BY <1>1, <1>2, <1>3, PTL DEF Spec

-----------------------------------------------------------------------------
(* Nobody hangs *)

\* Who starts to send has every endpoint before it.
LEMMA StartsBusy ==
  ASSUME TypeOK, BusySenders, NEW s \in Senders, NEW S, StartsSending(s, S),
         \A w \in Workers \ {s} : wpc'[w] \in {"sending", "leaving"} => wpc'[w] = wpc[w]
  PROVE  BusySenders'
<1>1. todo'[s] = Endpoints /\ Endpoints # {}
  BY AdapterAssumption DEF StartsSending, TypeOK
<1>2. \A t \in Senders \ {s} : todo'[t] = todo[t] /\ batch'[t] = batch[t]
  BY DEF StartsSending, TypeOK
<1>3. \A w \in Workers : w \in Senders
  BY DEF Senders
<1>4. Flusher \in Senders
  BY DEF Senders
<1> QED BY <1>1, <1>2, <1>3, <1>4 DEF BusySenders

\* A post is the last of its sender, which returns, or leaves it another.
LEMMA PostBusy ==
  ASSUME TypeOK, BusySenders, NEW s \in Senders, NEW e \in Endpoints, NEW ok \in BOOLEAN,
         Post(s, e, ok)
  PROVE  BusySenders'
<1>1. \A t \in Senders : todo'[t] = IF t = s THEN todo[s] \ {e} ELSE todo[t]
  BY DEF Post, TypeOK
<1>2. Workers \subseteq Senders /\ Flusher \in Senders
  BY DEF Senders
<1>3. CASE todo[s] = {e}
  <2>1. /\ \A t \in Senders : batch'[t] = IF t = s THEN {} ELSE batch[t]
        /\ \A w \in Workers : IF w = s THEN wpc'[w] \in {"gone", "selecting"}
                                       ELSE wpc'[w] = wpc[w]
    BY <1>3 DEF Post, Returns, Emptied, TypeOK
  <2> QED BY <1>1, <1>2, <2>1 DEF BusySenders
<1>4. CASE todo[s] # {e}
  <2>1. todo'[s] # {} /\ UNCHANGED <<batch, wpc>>
    BY <1>1, <1>4 DEF Post
  <2> QED BY <1>1, <1>2, <2>1 DEF BusySenders
<1> QED BY <1>3, <1>4

LEMMA WorkingBusy ==
  ASSUME TypeOK, BusySenders, NEW w \in Workers, Working(w)
  PROVE  BusySenders'
<1>1. w \in Senders /\ w # Flusher /\ Flusher \in Senders
  BY AdapterAssumption DEF Senders
<1>2. CASE \E S : StartsSending(w, S)
  <2>1. PICK S : StartsSending(w, S)
    BY <1>2
  <2>2. \A v \in Workers \ {w} : wpc'[v] = wpc[v]
    BY DEF Working, WorkerTake, WorkerTick, WorkerPanics, WorkerLeaves, TypeOK
  <2> QED BY <1>1, <2>1, <2>2, StartsBusy
<1>3. CASE ~\E S : StartsSending(w, S)
  <2>1. /\ UNCHANGED todo /\ batch'[Flusher] = batch[Flusher]
        /\ \A v \in Workers : wpc'[v] = wpc[v] \/ wpc'[v] = "gone"
    <3>1. CASE WorkerTake(w)
      BY <1>1, <1>3, <3>1 DEF WorkerTake, TypeOK
    <3>2. CASE WorkerTick(w)
      BY <1>3, <3>2 DEF WorkerTick
    <3>3. CASE WorkerPanics(w) \/ WorkerLeaves(w)
      BY <1>3, <3>3 DEF WorkerPanics, WorkerLeaves, sendVars, TypeOK
    <3> QED BY <3>1, <3>2, <3>3 DEF Working
  <2> QED BY <2>1 DEF BusySenders
<1> QED BY <1>2, <1>3

LEMMA BusyStep ==
  ASSUME TypeOK, BusySenders, [Next]_vars
  PROVE  BusySenders'
<1>1. ASSUME NEW i \in Slices, Pushing(i) PROVE BusySenders'
  <2>1. wpc' = wpc
    BY <1>1 DEF Pushing, PushQueued, PushBlocks, PushTimesOut, PushAtOnce, Direct, PushStopped, PushPanics
  <2>2. CASE StartsSending(i, {i})
    BY <2>1, <2>2, StartsBusy DEF Senders
  <2>3. CASE UNCHANGED <<batch, todo>>
    BY <2>1, <2>3 DEF BusySenders
  <2> QED BY <1>1, <2>2, <2>3
          DEF Pushing, PushQueued, PushBlocks, PushTimesOut, PushAtOnce, Direct, PushStopped, PushPanics, sendVars
<1>2. CASE Retrying
  <2>1. UNCHANGED <<batch, todo, wpc>>
    BY <1>2 DEF Retrying, RetryTake, RetryPost, RetryInterrupted, RetryDrained, sendVars
  <2> QED BY <2>1 DEF BusySenders
<1>3. CASE FlushTake
  <2>1. PICK i \in Receivable : StartsSending(Flusher, {i})
    BY <1>3 DEF FlushTake
  <2>2. Flusher \in Senders /\ wpc' = wpc
    BY <1>3 DEF FlushTake, Senders
  <2> QED BY <2>1, <2>2, StartsBusy
<1>4. CASE FlushBegin \/ (Stopping /\ ~FlushTake) \/ UNCHANGED vars
  <2>1. UNCHANGED <<batch, todo, wpc>>
    BY <1>4 DEF FlushBegin, Stopping, FlushEnd, StopCancel, StopClose, StopWaited, StopReturns,
       vars, sendVars
  <2> QED BY <2>1 DEF BusySenders
<1> QED BY <1>1, <1>2, <1>3, <1>4, PostBusy, WorkingBusy DEF Next, Sending

LEMMA BusyCanGo ==
  ASSUME TypeOK, HandsMatch, BusySenders
  PROVE  NobodyHangs
<1>1. \A i \in Slices : /\ push[i] = "blocked" => TimerFires(i)
                        /\ push[i] = "sending" => MayPost(i)
  BY DEF HandsMatch, TimerFires, MayPost
<1>2. batch[Flusher] # {} => MayPost(Flusher)
  BY DEF BusySenders, MayPost
<1>3. ASSUME shut = "closed", NEW w \in Workers PROVE wpc[w] = "gone" \/ MayWork(w)
  <2>1. wpc[w] \in {"panicking", "selecting", "sending", "leaving", "gone"}
    BY DEF TypeOK
  <2> QED BY <1>3, <2>1 DEF BusySenders, MayWork, MayPost, MayLeave, Cancelled
<1> QED BY <1>1, <1>2, <1>3 DEF NobodyHangs

\* A Push that waits or posts, a Flush in its batch and a worker that Stop waits for
\* can go on, whoever fails, retries or pushes meanwhile.
THEOREM NobodyWaitsInVain == Spec => []NobodyHangs
<1>1. Init => AdapterInv /\ BusySenders
  BY TypeInit, HandsInit, ConservedInit
     DEF AdapterInv, Init, BusySenders, WorkersAt, Senders
<1>2. AdapterInv /\ BusySenders /\ [Next]_vars => AdapterInv' /\ BusySenders'
  <2> SUFFICES ASSUME AdapterInv, BusySenders, [Next]_vars PROVE AdapterInv' /\ BusySenders'
    OBVIOUS
  <2>1. TypeOK' /\ HandsMatch' /\ Conserved'
    BY TypeStep, HandsStep, ConservedStep DEF AdapterInv
  <2>2. BusySenders'
    BY BusyStep DEF AdapterInv
  <2> QED BY <2>1, <2>2 DEF AdapterInv
<1>3. AdapterInv /\ BusySenders => NobodyHangs
  BY BusyCanGo DEF AdapterInv
<1> QED BY <1>1, <1>2, <1>3, PTL DEF Spec

-----------------------------------------------------------------------------
(* The adapter in its surroundings *)

\* Every step is one of the adapter, none of it, or the end of its process.
LEMMA AdapterSteps ==
  ASSUME [DeliveryNext]_allVars
  PROVE  [Next]_vars \/ Ends
<1>1. CASE \E r \in Records : Probing(r)
  BY <1>1 DEF Probing, ProbeWrites, ProbeMarks
<1>2. CASE Replaying
  BY <1>2 DEF Replaying, ReplayReads, ReplayMarks, ReplayEnds
<1>3. CASE \E i \in Slices : Pushes(i)
  BY <1>3 DEF Pushes, Next
<1>4. CASE SendStep
  BY <1>4 DEF SendStep, Next, Sending
<1>5. CASE RetryStep
  BY <1>5 DEF RetryStep, Next, Retrying
<1>6. CASE \E w \in Workers : WorkStep(w)
  BY <1>6 DEF WorkStep, Next
<1>7. CASE LogCloses \/ FlushStarts \/ StopStep
  BY <1>7 DEF LogCloses, FlushStarts, StopStep, Next
<1>8. CASE Starts
  BY <1>8 DEF Starts
<1>9. CASE UNCHANGED allVars
  BY <1>9 DEF allVars
<1> QED BY <1>1, <1>2, <1>3, <1>4, <1>5, <1>6, <1>7, <1>8, <1>9 DEF DeliveryNext

\* A process that ends leaves nothing of its adapter to the next.
LEMMA EndsAnew == Ends => Init'
BY DEF Ends, Forgets, Init

LEMMA InitIsInv == Init => AdapterInv
BY TypeInit, HandsInit, ConservedInit DEF AdapterInv

LEMMA AnewIsInv == Init' => AdapterInv'
BY InitIsInv, PTL

LEMMA AdapterKept ==
  ASSUME AdapterInv, [DeliveryNext]_allVars
  PROVE  AdapterInv'
<1>1. CASE [Next]_vars
  BY <1>1, TypeStep, HandsStep, ConservedStep DEF AdapterInv
<1>2. CASE Ends
  BY <1>2, EndsAnew, AnewIsInv
<1> QED BY <1>1, <1>2, AdapterSteps

\* Whatever the log, the replay and the operator do, and whenever a process crashes
\* and another starts: in each of them every accepted slice is in one place.
THEOREM EveryProcessConserves == DeliverySpec => []Conserved
<1>1. DeliveryInit => AdapterInv
  BY InitIsInv DEF DeliveryInit
<1>2. AdapterInv /\ [DeliveryNext]_allVars => AdapterInv'
  BY AdapterKept
<1>3. AdapterInv => Conserved
  BY DEF AdapterInv
<1> QED BY <1>1, <1>2, <1>3, PTL DEF DeliverySpec

-----------------------------------------------------------------------------
(* What settles a record *)

\* A step that settles records settles one, of which a push was accepted.
LEMMA SettlesAccepted ==
  ASSUME [DeliveryNext]_allVars, NEW r \in done' \ done
  PROVE  /\ r \in Records /\ done' = done \cup {r}
         /\ \E c \in Callers : push[<<r, c>>] = "accepted"
<1>1. CASE \E q \in Records : Probing(q)
  <2>1. PICK q \in Records : Probing(q)
    BY <1>1
  <2>2. ProbeMarks(q) /\ PushAccepted(ProbeOf(q)) /\ Settled(q)
    BY <2>1 DEF Probing, ProbeWrites, ProbeMarks, Log!Append, logged
  <2>3. done' = done \cup {q} /\ r = q
    BY <2>2 DEF Settled, Log!Settle, logged
  <2> QED BY <2>2, <2>3 DEF PushAccepted, ProbeOf, Callers
<1>2. CASE Replaying
  <2>1. PICK q \in Records : ReplayMarks(q)
    BY <1>2 DEF Replaying, ReplayReads, ReplayEnds, logged
  <2>2. PushAccepted(ReplayOf(q)) /\ Settled(q)
    BY <2>1 DEF ReplayMarks, logged
  <2>3. done' = done \cup {q} /\ r = q
    BY <2>2 DEF Settled, Log!Settle, logged
  <2> QED BY <2>2, <2>3 DEF PushAccepted, ReplayOf, Callers
<1>3. CASE UNCHANGED logged
  BY <1>3 DEF logged
<1> QED BY <1>1, <1>2, <1>3 DEF DeliveryNext, Pushes, SendStep, RetryStep, WorkStep, LogCloses,
  FlushStarts, StopStep, Ends, Starts, around, allVars

\* Only an accepted push settles a record: what no later start replays was at
\* least queued once, in the process that settled it.
THEOREM OnlyAcceptedIsSettled == DeliverySpec => SettledWasAccepted
<1>1. [DeliveryNext]_allVars =>
        [\A r \in done' \ done : \E c \in Callers : push[<<r, c>>] = "accepted"]_allVars
  BY SettlesAccepted
<1> QED BY <1>1, PTL DEF DeliverySpec, SettledWasAccepted

-----------------------------------------------------------------------------
(* Nothing is lost without faults, and by outages only what every endpoint misses *)

\* A push that is over stays so while its process runs.
LEMMA PushOverStays ==
  ASSUME AdapterInv, [Next]_vars, NEW i \in Slices, push[i] \in {"accepted", "rejected"}
  PROVE  push'[i] = push[i]
<1>0. push \in [Slices -> {"new", "blocked", "sending", "accepted", "rejected"}]
  BY DEF AdapterInv, TypeOK
<1>1. ASSUME NEW j \in Receivable, Receive(j) PROVE push'[i] = push[i]
  <2>1. push' = push \/ \E k \in Blocked : push' = [push EXCEPT ![k] = "accepted"]
    BY <1>1 DEF Receive, Receivable
  <2>2. CASE push' = push
    BY <2>2
  <2>3. CASE \E k \in Blocked : push' = [push EXCEPT ![k] = "accepted"]
    <3>1. PICK k \in Blocked : push' = [push EXCEPT ![k] = "accepted"]
      BY <2>3
    <3>2. k # i
      BY DEF Blocked
    <3> QED BY <1>0, <3>1, <3>2
  <2> QED BY <2>1, <2>2, <2>3
<1>2. CASE \E s \in Senders : Sending(s)
  <2>1. PICK s \in Senders, e \in Endpoints, ok \in BOOLEAN : Post(s, e, ok)
    BY <1>2 DEF Sending
  <2>2. s # i
    <3>1. todo[i] = {} /\ e \in todo[s]
      BY <2>1 DEF Post, AdapterInv, HandsMatch
    <3> QED BY <3>1
  <2> QED BY <1>0, <2>1, <2>2 DEF Post, Returns
<1>3. CASE \E j \in Slices : Pushing(j)
  BY <1>0, <1>3 DEF Pushing, PushQueued, PushBlocks, PushTimesOut, PushAtOnce, Direct, TimerFires, PushStopped,
     PushPanics
<1>4. CASE \E w \in Workers : Working(w)
  <2>1. CASE \E w \in Workers : WorkerTake(w)
    BY <1>1, <2>1 DEF WorkerTake
  <2>2. CASE UNCHANGED push
    BY <2>2
  <2> QED BY <1>4, <2>1, <2>2 DEF Working, WorkerTick, WorkerPanics, WorkerLeaves
<1>5. CASE Retrying
  BY <1>5 DEF Retrying, RetryTake, RetryPost, RetryInterrupted, RetryDrained
<1>6. CASE FlushBegin \/ Stopping
  <2>1. CASE FlushTake
    BY <1>1, <2>1 DEF FlushTake
  <2>2. CASE StopCancel
    BY <2>2 DEF StopCancel
  <2>3. CASE UNCHANGED push
    BY <2>3
  <2> QED BY <1>6, <2>1, <2>2, <2>3 DEF FlushBegin, Stopping, FlushEnd, StopClose, StopWaited,
        StopReturns
<1>7. CASE UNCHANGED vars
  BY <1>7 DEF vars
<1> QED BY <1>2, <1>3, <1>4, <1>5, <1>6, <1>7 DEF Next

\* Without crashes and stops the process runs on, and what it carries it gives up
\* after a failure only.
LEMMA OutageStep ==
  ASSUME Faults \subseteq {"outage"}, NotLostInv, [DeliveryNext]_allVars
  PROVE  /\ [Next]_vars
         /\ Running' /\ logOpen' /\ shut' = "no"
         /\ Faults = {} => UNCHANGED abandoned
         /\ answered' # answered => Remembered
         /\ delivered \subseteq delivered'
<1>0. up /\ ~panicked /\ logOpen /\ shut = "no"
  BY DEF NotLostInv, Running
<1> USE <1>0 DEF Running
<1>1. CASE \E r \in Records : Probing(r)
  <2>1. UNCHANGED <<vars, up, logOpen, delivered>>
    BY <1>1 DEF Probing, ProbeWrites, ProbeMarks
  <2> QED BY <2>1 DEF vars, history
<1>2. CASE Replaying
  <2>1. UNCHANGED <<vars, up, logOpen, delivered>>
    BY <1>2 DEF Replaying, ReplayReads, ReplayMarks, ReplayEnds
  <2> QED BY <2>1 DEF vars, history
<1>3. CASE \E i \in Slices : Pushes(i)
  <2>1. PICK i \in Slices : Pushing(i) /\ UNCHANGED around
    BY <1>3 DEF Pushes
  <2>2. Next
    BY <2>1 DEF Next
  <2>3. UNCHANGED <<shut, panicked, history>>
    BY <2>1 DEF Pushing, PushQueued, PushBlocks, PushTimesOut, PushAtOnce, Direct, PushStopped, PushPanics, QueueClosed
  <2> QED BY <2>1, <2>2, <2>3 DEF around, process, history
<1>4. CASE SendStep
  <2>1. PICK s \in Senders, e \in Endpoints, ok \in BOOLEAN : PostAllowed(ok) /\ Post(s, e, ok)
    BY <1>4 DEF SendStep
  <2>2. (Faults = {} => ok) /\ Next
    BY <2>1 DEF PostAllowed, Next, Sending
  <2> QED BY <1>4, <2>1, <2>2 DEF SendStep, Post, Remembered, process
<1>5. CASE RetryStep
  <2>1. RetryTake \/ \E ok \in BOOLEAN : PostAllowed(ok) /\ RetryPost(ok)
    BY <1>5 DEF RetryStep, RetryInterrupted, RetryDrained, RetryCancelled
  <2>2. Next /\ UNCHANGED <<shut, panicked>>
    BY <2>1 DEF Next, Retrying, RetryTake, RetryPost
  <2>3. Faults = {} => UNCHANGED abandoned
    BY <2>1 DEF PostAllowed, RetryTake, RetryPost, history
  <2> QED BY <1>5, <2>2, <2>3 DEF RetryStep, Remembered, process
<1>6. CASE \E w \in Workers : WorkStep(w)
  <2>1. PICK w \in Workers : Working(w) /\ UNCHANGED around
    BY <1>6 DEF WorkStep
  <2>2. Next
    BY <2>1 DEF Next
  <2>3. UNCHANGED <<shut, panicked, history>>
    BY <2>1 DEF Working, WorkerTake, WorkerTick, WorkerPanics, WorkerLeaves
  <2> QED BY <2>1, <2>2, <2>3 DEF around, process, history
<1>7. CASE LogCloses \/ FlushStarts \/ StopStep
  BY <1>7 DEF LogCloses, FlushStarts, StopStep, Stopping, FlushTake, FlushEnd, StopCancel,
     StopClose, StopWaited, StopReturns
<1>8. CASE Ends \/ Starts
  BY <1>8 DEF Ends, MayEnd, Starts
<1>9. CASE UNCHANGED allVars
  BY <1>9 DEF allVars, vars, around, process, history
<1> QED BY <1>1, <1>2, <1>3, <1>4, <1>5, <1>6, <1>7, <1>8, <1>9 DEF DeliveryNext

LEMMA NotLostStep ==
  ASSUME Faults \subseteq {"outage"}, NotLostInv, [DeliveryNext]_allVars
  PROVE  NotLostInv'
<1>1. AdapterInv /\ AdapterInv'
  BY AdapterKept DEF NotLostInv
<1>2. /\ [Next]_vars
      /\ Running' /\ logOpen' /\ shut' = "no"
      /\ Faults = {} => UNCHANGED abandoned
      /\ answered' # answered => Remembered
      /\ delivered \subseteq delivered'
  BY OutageStep
<1>3. ASSUME NEW r \in done'
      PROVE  r \in Records /\ \E c \in Callers : push'[<<r, c>>] = "accepted"
  <2>1. r \in Records /\ \E c \in Callers : push[<<r, c>>] = "accepted"
    BY SettlesAccepted DEF NotLostInv
  <2>2. PICK c \in Callers : push[<<r, c>>] = "accepted"
    BY <2>1
  <2>3. <<r, c>> \in Slices
    BY <2>1, DeliveryAssumption
  <2>4. push'[<<r, c>>] = "accepted"
    BY <1>1, <1>2, <2>2, <2>3, PushOverStays
  <2> QED BY <2>1, <2>4
<1>4. ASSUME NEW p \in answered' PROVE p[1][1] \in delivered'
  <2>1. CASE answered' = answered
    BY <1>2, <2>1 DEF NotLostInv
  <2>2. CASE Remembered
    BY <2>2 DEF Remembered
  <2> QED BY <1>2, <2>1, <2>2
<1>5. Faults = {} => abandoned' = {}
  BY <1>2 DEF NotLostInv
<1> QED BY <1>1, <1>2, <1>3, <1>4, <1>5 DEF NotLostInv

\* What was accepted and not given up by some endpoint is in the adapter or answered.
LEMMA LostHolds ==
  ASSUME NotLostInv
  PROVE  LostByOutageOnly
<1> SUFFICES ASSUME NEW r \in done, r \notin delivered,
                    \A c \in Callers : push[<<r, c>>] = "accepted" =>
                      \E e \in Endpoints : <<<<r, c>>, e>> \notin abandoned
             PROVE  Carried(r)
  BY DEF LostByOutageOnly
<1>1. PICK c \in Callers : push[<<r, c>>] = "accepted"
  BY DEF NotLostInv
<1>2. PICK e \in Endpoints : <<<<r, c>>, e>> \notin abandoned
  BY <1>1
<1>3. <<r, c>> \in Slices
  BY DeliveryAssumption DEF NotLostInv
<1>4. Places(<<r, c>>, e) = 1
  BY <1>1, <1>3 DEF NotLostInv, AdapterInv, Conserved, One
<1>5. <<<<r, c>>, e>> \notin answered /\ <<<<r, c>>, e>> \notin abandoned
  BY <1>2 DEF NotLostInv
<1>6. ~(/\ InQueue(<<r, c>>) = {} /\ Carriers(<<r, c>>, e) = {}
        /\ InRetry(<<r, c>>, e) = {} /\ InHand(<<r, c>>, e) = {})
  BY <1>4, <1>5, FS_EmptySet DEF Places, One
<1>7. \/ InQueue(<<r, c>>) # {} \/ Carriers(<<r, c>>, e) # {}
      \/ InRetry(<<r, c>>, e) # {} \/ InHand(<<r, c>>, e) # {}
  BY <1>6
<1> QED BY <1>2, <1>7 DEF Carried, NotLostInv

LEMMA NotLostInitially == DeliveryInit => NotLostInv
BY InitIsInv DEF DeliveryInit, NotLostInv, Running, Init, Log!LogInit

\* A process that neither crashes nor is stopped loses a record marked as sent only if
\* it was given up at every endpoint, after the last retry or for a full retry queue:
\* one endpoint that keeps up is enough, however the others fail.
THEOREM OutagesLoseLittle ==
  ASSUME Faults \subseteq {"outage"}
  PROVE  DeliverySpec => []LostByOutageOnly
<1>1. NotLostInv /\ [DeliveryNext]_allVars => NotLostInv'
  BY NotLostStep
<1> QED BY <1>1, NotLostInitially, LostHolds, PTL DEF DeliverySpec

\* A record marked as sent is with an endpoint or on its way there, if the process
\* does not crash, is not stopped and no post fails: of these three each may lose it.
THEOREM NothingIsLostWithoutFaults ==
  ASSUME Faults = {}
  PROVE  DeliverySpec => []NotLost
<1>1. NotLostInv /\ [DeliveryNext]_allVars => NotLostInv'
  BY NotLostStep
<1>2. NotLostInv => NotLost
  BY LostHolds, AdapterAssumption DEF NotLostInv, LostByOutageOnly, NotLost
<1> QED BY <1>1, <1>2, NotLostInitially, PTL DEF DeliverySpec

-----------------------------------------------------------------------------
(* What can be lost *)

\* A slice that is on its way to an endpoint is owed to it, and neither confirmed nor
\* given up.
LEMMA OnItsWay ==
  ASSUME TypeOK, Conserved, NEW i \in Slices, NEW e \in Endpoints,
         InQueue(i) # {} \/ Carriers(i, e) # {} \/ InRetry(i, e) # {} \/ InHand(i, e) # {}
  PROVE  Owed(i, e) = 1 /\ <<i, e>> \notin answered /\ <<i, e>> \notin abandoned
<1>1. /\ InQueue(i) = At(queue, {i}) /\ InRetry(i, e) = At(retryQueue, TasksOf(i, e))
      /\ InHand(i, e) = At(held, TasksOf(i, e))
  BY DEF InQueue, InRetry, InHand, At, TasksOf, TypeOK
<1>2. /\ IsFiniteSet(InQueue(i)) /\ IsFiniteSet(InRetry(i, e)) /\ IsFiniteSet(InHand(i, e))
      /\ IsFiniteSet(Carriers(i, e))
  BY <1>1, AtFinite, CarriersFinite DEF TypeOK
<1>3. NQueue(i) # 0 \/ NCarry(i, e) # 0 \/ NRetry(i, e) # 0 \/ NHand(i, e) # 0
  BY <1>2, FS_EmptySet DEF NQueue, NCarry, NRetry, NHand
<1>4. Places(i, e) = Owed(i, e)
  BY DEF Conserved, Owed
<1>5. Owed(i, e) = 1 /\ NAnswered(i, e) = 0 /\ NAbandoned(i, e) = 0
  <2> DEFINE q == NQueue(i)
             y == NCarry(i, e)
             t == NRetry(i, e)
             h == NHand(i, e)
             d == NAnswered(i, e)
             g == NAbandoned(i, e)
             o == Owed(i, e)
  <2>1. /\ q \in Nat /\ y \in Nat /\ t \in Nat /\ h \in Nat /\ d \in Nat /\ g \in Nat
        /\ o \in {0, 1} /\ o = q + y + t + h + d + g
    BY <1>4, PlacesAdd
  <2>2. q # 0 \/ y # 0 \/ t # 0 \/ h # 0
    BY <1>3
  <2> SUFFICES o = 1 /\ d = 0 /\ g = 0
    OBVIOUS
  <2> HIDE DEF q, y, t, h, d, g, o
  <2> QED BY <2>1, <2>2
<1> QED BY <1>5 DEF NAnswered, NAbandoned, One

\* Posts are counted and never forgotten.
LEMMA TriesGrow ==
  ASSUME TypeOK, [Next]_vars, NEW p \in Pairs
  PROVE  tries'[p] >= tries[p]
<1>1. CASE UNCHANGED tries
  BY <1>1 DEF TypeOK
<1>2. CASE \E S, e : tries' = Tried(S, e)
  BY <1>2 DEF Tried, TypeOK
<1>3. CASE \E s \in Senders : Sending(s)
  BY <1>2, <1>3 DEF Sending, Post
<1>4. CASE Retrying
  BY <1>1, <1>2, <1>4 DEF Retrying, RetryTake, RetryPost, RetryInterrupted, RetryDrained, history
<1>5. CASE Next /\ ~(\E s \in Senders : Sending(s)) /\ ~Retrying
  <2>1. UNCHANGED history
    BY <1>5 DEF Next, Pushing, PushQueued, PushBlocks, PushTimesOut, PushAtOnce, Direct, PushStopped, PushPanics,
       Working, WorkerTake, WorkerTick, WorkerPanics, WorkerLeaves, FlushBegin, Stopping,
       FlushTake, FlushEnd, StopCancel, StopClose, StopWaited, StopReturns
  <2> QED BY <1>1, <2>1 DEF history
<1>6. CASE UNCHANGED vars
  BY <1>1, <1>6 DEF vars, history
<1> QED BY <1>3, <1>4, <1>5, <1>6

\* A Push that sends its slice itself goes on, or has posted it to every endpoint.
LEMMA SendingStays ==
  ASSUME AdapterInv, [Next]_vars, NEW i \in Slices, push[i] = "sending", NEW e \in Endpoints
  PROVE  push'[i] \in {"sending", "accepted"} \/ (push'[i] = "rejected" /\ tries'[<<i, e>>] > 0)
<1>0. /\ push \in [Slices -> {"new", "blocked", "sending", "accepted", "rejected"}]
      /\ TypeOK /\ tries \in [Pairs -> Nat] /\ <<i, e>> \in Pairs
  BY DEF AdapterInv, TypeOK, Pairs
<1>1. CASE \E s \in Senders : Sending(s)
  <2>1. PICK s \in Senders, f \in Endpoints, ok \in BOOLEAN : Post(s, f, ok)
    BY <1>1 DEF Sending
  <2>2. CASE push'[i] = push[i]
    BY <2>2
  <2>3. CASE push'[i] # push[i]
    <3>1. s = i /\ todo[i] = {f} /\ push'[i] \in {"accepted", "rejected"}
      BY <1>0, <2>1, <2>3 DEF Post, Returns
    <3>2. batch[i] = {i} /\ (e # f => tries[<<i, e>>] > 0)
      BY <3>1 DEF AdapterInv, HandsMatch
    <3>3. tries' = Tried({i}, f)
      BY <2>1, <3>1, <3>2 DEF Post
    <3>4. tries'[<<i, e>>] > 0
      BY <1>0, <3>2, <3>3 DEF Tried
    <3> QED BY <3>1, <3>4
  <2> QED BY <2>2, <2>3
<1>2. CASE \E j \in Slices : Pushing(j)
  BY <1>0, <1>2 DEF Pushing, PushQueued, PushBlocks, PushTimesOut, PushAtOnce, Direct, TimerFires, PushStopped,
     PushPanics
<1>3. CASE \E w \in Workers : Working(w)
  BY <1>0, <1>3 DEF Working, WorkerTake, WorkerTick, WorkerPanics, WorkerLeaves, Receive
<1>4. CASE Retrying
  BY <1>4 DEF Retrying, RetryTake, RetryPost, RetryInterrupted, RetryDrained
<1>5. CASE FlushBegin \/ Stopping
  BY <1>0, <1>5 DEF FlushBegin, Stopping, FlushTake, FlushEnd, StopCancel, StopClose, StopWaited,
     StopReturns, Receive
<1>6. CASE UNCHANGED vars
  BY <1>6 DEF vars
<1> QED BY <1>1, <1>2, <1>3, <1>4, <1>5, <1>6 DEF Next

\* What the adapter owes an endpoint, it owes it for the life of the process.
LEMMA OwedStays ==
  ASSUME AdapterInv, [Next]_vars, NEW i \in Slices, NEW e \in Endpoints, Owed(i, e) = 1
  PROVE  Owed(i, e)' = 1
<1>1. CASE push[i] = "accepted"
  BY <1>1, PushOverStays DEF Owed, One
<1>2. CASE push[i] = "sending"
  BY <1>2, SendingStays DEF Owed, One
<1>3. CASE push[i] = "rejected" /\ tries[<<i, e>>] > 0
  <2>1. push'[i] = "rejected"
    BY <1>3, PushOverStays
  <2>2. <<i, e>> \in Pairs /\ TypeOK /\ tries[<<i, e>>] \in Nat
    BY DEF Pairs, AdapterInv, TypeOK
  <2>3. tries'[<<i, e>>] >= tries[<<i, e>>] /\ tries[<<i, e>>] >= 1
    BY <1>3, <2>2, TriesGrow
  <2>4. tries' \in [Pairs -> Nat]
    BY TypeStep DEF AdapterInv, TypeOK
  <2>5. tries'[<<i, e>>] > 0
    BY <2>2, <2>3, <2>4
  <2> QED BY <2>1, <2>5 DEF Owed, One
<1> QED BY <1>1, <1>2, <1>3 DEF Owed, One

\* What an endpoint answers to a process is noted as delivered.
LEMMA AnswersNoted ==
  ASSUME [DeliveryNext]_allVars
  PROVE  UNCHANGED answered \/ Remembered \/ Ends
<1>1. CASE \E r \in Records : Probing(r)
  BY <1>1 DEF Probing, ProbeWrites, ProbeMarks, vars, history
<1>2. CASE Replaying
  BY <1>2 DEF Replaying, ReplayReads, ReplayMarks, ReplayEnds, vars, history
<1>3. CASE \E i \in Slices : Pushes(i)
  BY <1>3 DEF Pushes, Pushing, PushQueued, PushBlocks, PushTimesOut, PushAtOnce, Direct, PushStopped, PushPanics,
     history
<1>4. CASE SendStep \/ RetryStep
  BY <1>4 DEF SendStep, RetryStep
<1>5. CASE \E w \in Workers : WorkStep(w)
  BY <1>5 DEF WorkStep, Working, WorkerTake, WorkerTick, WorkerPanics, WorkerLeaves, history
<1>6. CASE LogCloses \/ FlushStarts \/ StopStep
  BY <1>6 DEF LogCloses, FlushStarts, StopStep, FlushBegin, Stopping, FlushTake, FlushEnd,
     StopCancel, StopClose, StopWaited, StopReturns, vars, history
<1>7. CASE Starts \/ UNCHANGED allVars
  BY <1>7 DEF Starts, allVars, vars, history
<1> QED BY <1>1, <1>2, <1>3, <1>4, <1>5, <1>6, <1>7 DEF DeliveryNext

LEMMA LostStep ==
  ASSUME AdapterInv, [DeliveryNext]_allVars, NEW r \in Records, Carried(r), ~Carried(r)', Running'
  PROVE  r \in delivered' \/ GivenUp(r)
<1>1. ~Ends /\ [Next]_vars
  <2>1. ~Ends
    BY DEF Ends, Running
  <2> QED BY <2>1, AdapterSteps
<1>2. AdapterInv'
  BY AdapterKept
<1>3. PICK c \in Callers, e \in Endpoints :
        InQueue(<<r, c>>) # {} \/ Carriers(<<r, c>>, e) # {}
        \/ InRetry(<<r, c>>, e) # {} \/ InHand(<<r, c>>, e) # {}
  BY DEF Carried
<1> DEFINE i == <<r, c>>
<1>4. i \in Slices
  BY DeliveryAssumption
<1>5. i[1] = r
  OBVIOUS
<1>6. Owed(i, e) = 1 /\ <<i, e>> \notin answered /\ <<i, e>> \notin abandoned
  BY <1>3, <1>4, OnItsWay DEF AdapterInv
<1>7. Owed(i, e)' = 1
  BY <1>1, <1>4, <1>6, OwedStays
<1>8. /\ InQueue(i)' = {} /\ Carriers(i, e)' = {} /\ InRetry(i, e)' = {} /\ InHand(i, e)' = {}
  BY DEF Carried
<1>9. Places(i, e)' = 1
  <2>1. Conserved'
    BY <1>2 DEF AdapterInv
  <2> QED BY <1>4, <1>7, <2>1 DEF Conserved, Owed
<1>10. <<i, e>> \in answered' \/ <<i, e>> \in abandoned'
  BY <1>8, <1>9, FS_EmptySet DEF Places, One
<1>11. CASE <<i, e>> \in answered'
  <2>1. Remembered
    BY <1>1, <1>6, <1>11, AnswersNoted
  <2>2. <<i, e>>[1] = i
    OBVIOUS
  <2> HIDE DEF i
  <2> QED BY <1>5, <1>11, <2>1, <2>2 DEF Remembered
<1>12. CASE <<i, e>> \in abandoned'
  BY <1>6, <1>12 DEF GivenUp
<1> QED BY <1>10, <1>11, <1>12

\* Whatever fails, a record the adapter carries goes astray in two ways only: an
\* endpoint is given up, or the process ends.  No interleaving of probes, replay,
\* workers, retries and shutdown loses it between two of their steps.
THEOREM LossesHaveAReason == DeliverySpec => LostOnlyThus
<1> DEFINE Show == \A r \in Records : Carried(r) /\ ~Carried(r)' =>
                     r \in delivered' \/ GivenUp(r) \/ ~Running'
<1>1. DeliveryInit => AdapterInv
  BY InitIsInv DEF DeliveryInit
<1>2. AdapterInv /\ [DeliveryNext]_allVars => AdapterInv'
  BY AdapterKept
<1>3. AdapterInv /\ [DeliveryNext]_allVars => [Show]_allVars
  BY LostStep
<1> QED BY <1>1, <1>2, <1>3, PTL DEF DeliverySpec, LostOnlyThus
=============================================================================

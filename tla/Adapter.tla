------------------------------ MODULE Adapter ------------------------------
(***************************************************************************)
(* The VictoriaMetrics adapter of internal/adapter: the batch queue and    *)
(* its workers, sendBatch, the retry engine, Flush and Stop.               *)
(*                                                                         *)
(* What Push is given, a slice of metrics, is an element of Slices that is *)
(* pushed once; its contents are left out.  sendBatch runs in three kinds  *)
(* of goroutines: batch workers, callers of Push whose slice did not fit   *)
(* into the queue, and the caller of Flush.  It posts to one endpoint      *)
(* after the other, in any order here; a post is one step, taken when the  *)
(* answer (or its absence) is known.  Time is left out: a timer may fire   *)
(* at any moment.                                                          *)
(*                                                                         *)
(* Channels are modelled as Go runs them: a receive from a full queue lets *)
(* a blocked sender's slice in, a queue of capacity zero hands over        *)
(* directly, closing a context wakes whoever is blocked on it, a select    *)
(* with several ready cases takes any, and a send on a closed channel      *)
(* panics and ends the process.                                            *)
(***************************************************************************)
EXTENDS Naturals, Sequences, FiniteSets, SequencesExt

CONSTANTS
  Slices,       \* what the callers push, each once
  Endpoints,    \* push.endpoints
  Workers,      \* the batch workers
  Flusher,      \* the goroutine that calls Flush and Stop
  Size,         \* push.batch.size: slices in the queue, metrics in a batch
  SliceLen,     \* metrics in a slice
  ZeroTimeouts, \* may push.batch.timeout be zero (its default), or not, or both?
  RetryCap,     \* capacity of the retry queue
  MaxAttempts   \* push.retry.max_attempts

Senders == Slices \cup Workers \cup {Flusher}
Pairs   == Slices \X Endpoints

ASSUME AdapterAssumption ==
  /\ IsFiniteSet(Slices) /\ IsFiniteSet(Workers)
  /\ IsFiniteSet(Endpoints) /\ Endpoints # {}
  /\ Slices \cap Workers = {} /\ Flusher \notin Slices \cup Workers
  /\ Size \in Nat /\ SliceLen \in Nat \ {0}
  /\ ZeroTimeouts \subseteq BOOLEAN /\ ZeroTimeouts # {}
  /\ RetryCap \in Nat \ {0} /\ MaxAttempts \in Nat

Task == [slices : SUBSET Slices, endpoint : Endpoints, attempts : Nat]

VARIABLES
  push,        \* progress of the Push of each slice
  queue,       \* a.batchQueue
  wpc,         \* what each batch worker does
  batch,       \* the metrics each sender has gathered or is sending
  todo,        \* endpoints its sendBatch has not tried
  reached,     \* has its sendBatch succeeded with some endpoint?
  retryQueue,  \* r.retryQueue
  held,        \* the task of the retry worker, if any
  retrying,    \* does the retry worker run?
  shut,        \* progress of Flush and Stop
  panicked,    \* the process died from a send on the closed queue
  answered,    \* slices each endpoint has confirmed
  abandoned,   \* slices that will not be sent to an endpoint any more
  tries        \* posts of each slice to each endpoint

sendVars  == <<batch, todo, reached>>
retryVars == <<retryQueue, held, retrying>>
history   == <<answered, abandoned, tries>>
vars      == <<push, queue, wpc, sendVars, retryVars, shut, panicked, history>>

-----------------------------------------------------------------------------
Phases == <<"no", "flushing", "flushed", "cancelled", "closed", "waited", "stopped">>

\* a.ctx is cancelled; the queue is closed; the retry engine is cancelled
Cancelled      == shut \in {"cancelled", "closed", "waited", "stopped"}
QueueClosed    == shut \in {"closed", "waited", "stopped"}
RetryCancelled == shut \in {"waited", "stopped"}

Blocked == {i \in Slices : push[i] = "blocked"}

TypeOK ==
  /\ push \in [Slices -> {"new", "blocked", "sending", "accepted", "rejected"}]
  /\ queue \in Seq(Slices) /\ Len(queue) <= Size
  /\ wpc \in [Workers -> {"panicking", "selecting", "sending", "leaving", "gone"}]
  /\ batch \in [Senders -> SUBSET Slices]
  /\ todo \in [Senders -> SUBSET Endpoints]
  /\ reached \in [Senders -> BOOLEAN]
  /\ retryQueue \in Seq(Task) /\ Len(retryQueue) <= RetryCap
  /\ held \in Seq(Task) /\ Len(held) <= 1
  /\ retrying \in BOOLEAN
  /\ shut \in ToSet(Phases)
  /\ panicked \in BOOLEAN
  /\ answered \subseteq Pairs
  /\ abandoned \subseteq Pairs
  /\ tries \in [Pairs -> Nat]

\* The workers start; with a timeout of zero each will panic in NewTicker.
WorkersAt(zero) == [w \in Workers |-> IF zero THEN "panicking" ELSE "selecting"]

Init ==
  /\ push = [i \in Slices |-> "new"]
  /\ queue = <<>>
  /\ \E zero \in ZeroTimeouts : wpc = WorkersAt(zero)
  /\ batch = [s \in Senders |-> {}]
  /\ todo = [s \in Senders |-> {}]
  /\ reached = [s \in Senders |-> FALSE]
  /\ retryQueue = <<>>
  /\ held = <<>>
  /\ retrying = TRUE
  /\ shut = "no"
  /\ panicked = FALSE
  /\ answered = {}
  /\ abandoned = {}
  /\ tries = [p \in Pairs |-> 0]

-----------------------------------------------------------------------------
(* sendBatch *)

\* Sender s starts to send S.
StartsSending(s, S) ==
  /\ batch' = [batch EXCEPT ![s] = S]
  /\ todo' = [todo EXCEPT ![s] = Endpoints]
  /\ reached' = [reached EXCEPT ![s] = FALSE]

Tried(S, e) == [p \in Pairs |-> IF p \in S \X {e} THEN tries[p] + 1 ELSE tries[p]]

\* Mutant of RetryRoom: one task too many.
RetryRoomOffByOne == Len(retryQueue) <= RetryCap
RetryRoom == Len(retryQueue) < RetryCap

\* What sender s leaves to the retry engine: its batch as formatted for e.
\* Mutant: the task refers to the batch, which the sender empties.
EmptiedTask(s, e) == [slices |-> {}, endpoint |-> e, attempts |-> 0]
NewTask(s, e) == [slices |-> batch[s], endpoint |-> e, attempts |-> 0]

\* ScheduleRetry: a full retry queue drops the task.  The context of Flush may
\* have expired, and then the task is dropped too.
ScheduleRetry(s, e) ==
  \/ /\ RetryRoom
     /\ retryQueue' = Append(retryQueue, NewTask(s, e))
     /\ UNCHANGED abandoned
  \/ /\ ~RetryRoom \/ s = Flusher
     /\ abandoned' = abandoned \cup (batch[s] \X {e})
     /\ UNCHANGED retryQueue

\* The batch a worker goes on with; mutant: it keeps what it has sent.
KeepsBatch(s) == batch
Emptied(s) == [batch EXCEPT ![s] = {}]

\* sendBatch has tried its last endpoint and returns, without an error if some
\* endpoint took the batch.  A worker empties its batch either way.
Returns(s, ok) ==
  /\ batch' = Emptied(s)
  /\ push' = IF s \in Slices THEN [push EXCEPT ![s] = IF ok THEN "accepted" ELSE "rejected"]
                             ELSE push
  /\ wpc' = IF s \in Workers
            THEN [wpc EXCEPT ![s] = IF @ = "leaving" THEN "gone" ELSE "selecting"]
            ELSE wpc

\* One endpoint has answered, or failed to.
Post(s, e, ok) ==
  /\ ~panicked
  /\ e \in todo[s]
  /\ tries' = Tried(batch[s], e)
  /\ todo' = [todo EXCEPT ![s] = @ \ {e}]
  /\ reached' = [reached EXCEPT ![s] = @ \/ ok]
  /\ IF ok THEN /\ answered' = answered \cup (batch[s] \X {e})
                /\ UNCHANGED <<retryQueue, abandoned>>
           ELSE ScheduleRetry(s, e) /\ UNCHANGED answered
  /\ IF todo[s] = {e} THEN Returns(s, reached[s] \/ ok) ELSE UNCHANGED <<batch, push, wpc>>
  /\ UNCHANGED <<queue, held, retrying, shut, panicked>>

-----------------------------------------------------------------------------
(* Push *)

PushQueued(i) ==
  /\ ~panicked /\ ~QueueClosed
  /\ push[i] = "new"
  /\ Len(queue) < Size
  /\ queue' = Append(queue, i)
  /\ push' = [push EXCEPT ![i] = "accepted"]
  /\ UNCHANGED <<wpc, sendVars, retryVars, shut, panicked, history>>

PushBlocks(i) ==
  /\ ~panicked /\ ~Cancelled
  /\ push[i] = "new"
  /\ Len(queue) = Size
  /\ push' = [push EXCEPT ![i] = "blocked"]
  /\ UNCHANGED <<queue, wpc, sendVars, retryVars, shut, panicked, history>>

\* May a blocked Push give up waiting?  Mutant: its select has no timer.
NoTimer(i) == push[i] = "blocked" /\ Cancelled
TimerFires(i) == push[i] = "blocked"

\* The caller sends its slice itself.
Direct(i) ==
  /\ push' = [push EXCEPT ![i] = "sending"]
  /\ StartsSending(i, {i})
  /\ UNCHANGED <<queue, wpc, retryVars, shut, panicked, history>>

\* The push timeout
PushTimesOut(i) == ~panicked /\ TimerFires(i) /\ Direct(i)

\* A timeout of zero, with which no worker is alive, may win the select although
\* the queue has room.
PushAtOnce(i) ==
  /\ ~panicked /\ push[i] = "new"
  /\ TRUE \in ZeroTimeouts /\ \A w \in Workers : wpc[w] \in {"panicking", "gone"}
  /\ Direct(i)

\* "adapter is stopped"
PushStopped(i) ==
  /\ ~panicked /\ Cancelled
  /\ push[i] = "new"
  /\ push' = [push EXCEPT ![i] = "rejected"]
  /\ UNCHANGED <<queue, wpc, sendVars, retryVars, shut, panicked, history>>

\* The select prefers the send on the closed queue to the cancelled context.
PushPanics(i) ==
  /\ ~panicked /\ QueueClosed
  /\ push[i] = "new"
  /\ panicked' = TRUE
  /\ UNCHANGED <<push, queue, wpc, sendVars, retryVars, shut, history>>

-----------------------------------------------------------------------------
(* Batch workers *)

\* What a receive from the queue may return: its head, or the slice of a blocked
\* sender when the queue has no capacity.
Receivable == IF queue # <<>> THEN {Head(queue)} ELSE Blocked

\* A receive from a full queue makes room for the slice of a blocked sender.
\* Mutant: that slice is lost.
NotLetIn(j) == Tail(queue)
LetIn(j) == Append(Tail(queue), j)

\* The receive of i and what it does to a blocked sender
Receive(i) ==
  IF queue = <<>>
  THEN queue' = queue /\ push' = [push EXCEPT ![i] = "accepted"]
  ELSE IF Blocked = {}
  THEN queue' = Tail(queue) /\ push' = push
  ELSE \E j \in Blocked : /\ queue' = LetIn(j)
                          /\ push' = [push EXCEPT ![j] = "accepted"]

Full(S) == Cardinality(S) * SliceLen >= Size

WorkerTake(w) ==
  /\ ~panicked
  /\ wpc[w] = "selecting"
  /\ \E i \in Receivable :
       /\ Receive(i)
       /\ IF Full(batch[w] \cup {i})
          THEN /\ StartsSending(w, batch[w] \cup {i})
               /\ wpc' = [wpc EXCEPT ![w] = "sending"]
          ELSE /\ batch' = [batch EXCEPT ![w] = @ \cup {i}]
               /\ UNCHANGED <<todo, reached, wpc>>
  /\ UNCHANGED <<retryVars, shut, panicked, history>>

\* The batch timeout; mutant: only a full batch is worth sending.
WorthSending(S) == Full(S)
NonEmpty(S) == S # {}

WorkerTick(w) ==
  /\ ~panicked
  /\ wpc[w] = "selecting"
  /\ NonEmpty(batch[w])
  /\ StartsSending(w, batch[w])
  /\ wpc' = [wpc EXCEPT ![w] = "sending"]
  /\ UNCHANGED <<push, queue, retryVars, shut, panicked, history>>

\* time.NewTicker panics when the timeout is zero; the worker recovers and ends.
WorkerPanics(w) ==
  /\ ~panicked
  /\ wpc[w] = "panicking"
  /\ wpc' = [wpc EXCEPT ![w] = "gone"]
  /\ UNCHANGED <<push, queue, sendVars, retryVars, shut, panicked, history>>

\* The context is cancelled: what was gathered is sent, what is queued is left.
\* Mutant: the worker notices only with something gathered.
Notices(w) == Cancelled /\ batch[w] # {}
MayLeave(w) == Cancelled

WorkerLeaves(w) ==
  /\ ~panicked
  /\ wpc[w] = "selecting"
  /\ MayLeave(w)
  /\ IF batch[w] = {}
     THEN wpc' = [wpc EXCEPT ![w] = "gone"] /\ UNCHANGED sendVars
     ELSE wpc' = [wpc EXCEPT ![w] = "leaving"] /\ StartsSending(w, batch[w])
  /\ UNCHANGED <<push, queue, retryVars, shut, panicked, history>>

-----------------------------------------------------------------------------
(* The retry engine *)

RetryTake ==
  /\ ~panicked
  /\ retrying
  /\ held = <<>> /\ retryQueue # <<>>
  /\ held' = <<Head(retryQueue)>>
  /\ retryQueue' = Tail(retryQueue)
  /\ UNCHANGED <<push, queue, wpc, sendVars, retrying, shut, panicked, history>>

\* May a task that has been tried n times be tried again?
TryAgain(n) == n < MaxAttempts

\* What becomes of the held task after its n-th failure: it is queued again,
\* or dropped because it was the last, because the queue is full, or because
\* the engine is stopping.
RetryFails(n) ==
  LET t == held[1]
      dropped == abandoned \cup (t.slices \X {t.endpoint})
  IN
  \/ /\ TryAgain(n) /\ RetryRoom
     /\ retryQueue' = Append(retryQueue, [t EXCEPT !.attempts = n])
     /\ UNCHANGED <<abandoned, retrying>>
  \/ /\ ~TryAgain(n) \/ (~RetryRoom /\ ~RetryCancelled)
     /\ abandoned' = dropped
     /\ UNCHANGED <<retryQueue, retrying>>
  \/ /\ TryAgain(n) /\ RetryCancelled
     /\ abandoned' = dropped
     /\ retrying' = FALSE
     /\ UNCHANGED retryQueue

\* The delay has passed and the endpoint has answered, or failed to.
RetryPost(ok) ==
  LET t == held[1]
  IN
  /\ ~panicked
  /\ held # <<>>
  /\ tries' = Tried(t.slices, t.endpoint)
  /\ IF ok THEN /\ answered' = answered \cup (t.slices \X {t.endpoint})
                /\ UNCHANGED <<abandoned, retryQueue, retrying>>
           ELSE RetryFails(t.attempts + 1) /\ UNCHANGED answered
  /\ held' = <<>>
  /\ UNCHANGED <<push, queue, wpc, sendVars, shut, panicked>>

\* The engine is stopped during a delay: the task it holds is lost, and those in
\* the queue are never looked at.
RetryInterrupted ==
  /\ ~panicked /\ RetryCancelled
  /\ retrying
  /\ held # <<>>
  /\ abandoned' = abandoned \cup (held[1].slices \X {held[1].endpoint})
  /\ held' = <<>>
  /\ retrying' = FALSE
  /\ UNCHANGED <<push, queue, wpc, sendVars, retryQueue, shut, panicked, answered, tries>>

\* The engine is stopped between tasks: it drops what is queued.
RetryDrained ==
  /\ ~panicked /\ RetryCancelled
  /\ retrying
  /\ held = <<>>
  /\ abandoned' = abandoned \cup UNION {t.slices \X {t.endpoint} : t \in ToSet(retryQueue)}
  /\ retryQueue' = <<>>
  /\ retrying' = FALSE
  /\ UNCHANGED <<push, queue, wpc, sendVars, held, shut, panicked, answered, tries>>

-----------------------------------------------------------------------------
(* Flush and Stop *)

FlushBegin ==
  /\ ~panicked
  /\ shut = "no"
  /\ shut' = "flushing"
  /\ UNCHANGED <<push, queue, wpc, sendVars, retryVars, panicked, history>>

FlushTake ==
  /\ ~panicked
  /\ shut = "flushing"
  /\ batch[Flusher] = {}
  /\ \E i \in Receivable : Receive(i) /\ StartsSending(Flusher, {i})
  /\ UNCHANGED <<wpc, retryVars, shut, panicked, history>>

FlushEnd ==
  /\ ~panicked
  /\ shut = "flushing"
  /\ batch[Flusher] = {}
  /\ Receivable = {}
  /\ shut' = "flushed"
  /\ UNCHANGED <<push, queue, wpc, sendVars, retryVars, panicked, history>>

\* a.cancel wakes every Push that is blocked on the queue.
StopCancel ==
  /\ ~panicked
  /\ shut = "flushed"
  /\ shut' = "cancelled"
  /\ push' = [i \in Slices |-> IF push[i] = "blocked" THEN "rejected" ELSE push[i]]
  /\ UNCHANGED <<queue, wpc, sendVars, retryVars, panicked, history>>

StopClose ==
  /\ ~panicked
  /\ shut = "cancelled"
  /\ shut' = "closed"
  /\ UNCHANGED <<push, queue, wpc, sendVars, retryVars, panicked, history>>

\* The workers have ended: the retry engine is cancelled, ...
StopWaited ==
  /\ ~panicked
  /\ shut = "closed"
  /\ \A w \in Workers : wpc[w] = "gone"
  /\ shut' = "waited"
  /\ UNCHANGED <<push, queue, wpc, sendVars, retryVars, panicked, history>>

\* ... and Stop returns when its worker has ended.
StopReturns ==
  /\ ~panicked
  /\ shut = "waited"
  /\ ~retrying
  /\ shut' = "stopped"
  /\ UNCHANGED <<push, queue, wpc, sendVars, retryVars, panicked, history>>

-----------------------------------------------------------------------------
Sending(s) == \E e \in Endpoints, ok \in BOOLEAN : Post(s, e, ok)

Pushing(i) ==
  \/ PushQueued(i) \/ PushBlocks(i) \/ PushStopped(i) \/ PushPanics(i)
  \/ PushTimesOut(i) \/ PushAtOnce(i)

Working(w) == WorkerTake(w) \/ WorkerTick(w) \/ WorkerPanics(w) \/ WorkerLeaves(w)

Retrying ==
  RetryTake \/ (\E ok \in BOOLEAN : RetryPost(ok)) \/ RetryInterrupted \/ RetryDrained

Stopping == FlushTake \/ FlushEnd \/ StopCancel \/ StopClose \/ StopWaited \/ StopReturns

Next ==
  \/ \E s \in Senders : Sending(s)
  \/ \E i \in Slices : Pushing(i)
  \/ \E w \in Workers : Working(w)
  \/ Retrying
  \/ FlushBegin \/ Stopping

Spec == Init /\ [][Next]_vars

\* Timers fire, posts end because the HTTP client has a timeout, and goroutines
\* that can go on do.  Nothing obliges anybody to push or to stop the adapter.
FairSpec ==
  /\ Spec
  /\ \A s \in Senders : WF_vars(Sending(s))
  /\ \A i \in Slices : WF_vars(PushTimesOut(i))
  /\ \A w \in Workers : WF_vars(Working(w)) /\ WF_vars(WorkerTick(w))
  /\ WF_vars(Retrying)
  /\ WF_vars(Stopping)

-----------------------------------------------------------------------------
(* Properties *)

\* Where slice i is on its way to endpoint e
InQueue(i)    == {k \in 1..Len(queue) : queue[k] = i}
Carriers(i, e) == {s \in Senders : i \in batch[s] /\ (todo[s] = {} \/ e \in todo[s])}
InRetry(i, e) ==
  {k \in 1..Len(retryQueue) : i \in retryQueue[k].slices /\ retryQueue[k].endpoint = e}
InHand(i, e)  == {k \in 1..Len(held) : i \in held[k].slices /\ held[k].endpoint = e}
One(condition) == IF condition THEN 1 ELSE 0

Places(i, e) ==
  Cardinality(InQueue(i)) + Cardinality(Carriers(i, e))
  + Cardinality(InRetry(i, e)) + Cardinality(InHand(i, e))
  + One(<<i, e>> \in answered) + One(<<i, e>> \in abandoned)

\* For every endpoint, a slice whose Push was accepted is in exactly one place:
\* queued, gathered, being sent, waiting for a retry, confirmed or given up.
\* It is never lost between two of them and never sent by two senders.  A
\* refused slice is nowhere, or was tried by Push itself and may be retried.
Conserved ==
  \A i \in Slices, e \in Endpoints :
    Places(i, e) = One(\/ push[i] \in {"accepted", "sending"}
                       \/ push[i] = "rejected" /\ tries[<<i, e>>] > 0)

\* A slice that was accepted is at last confirmed or given up by every endpoint,
\* also when too few metrics arrive to fill a batch, unless the adapter is
\* stopped or the batch timeout has ended its workers.
Settles ==
  \A i \in Slices, e \in Endpoints :
    push[i] = "accepted" ~> \/ <<i, e>> \in answered \cup abandoned
                            \/ shut # "no" \/ \A w \in Workers : wpc[w] = "gone"

\* Push never blocks for ever, even when all batch workers are gone.
PushReturns ==
  \A i \in Slices : push[i] \in {"blocked", "sending"} ~>
    (push[i] \in {"accepted", "rejected"} \/ panicked)

\* A Stop that has begun returns: it waits neither for a worker that waits for
\* metrics nor for the retries that are left, unless a late Push panics.
StopEnds == shut = "cancelled" ~> (shut = "stopped" \/ panicked)

\* What PushReturns and StopEnds rest on: who is waited for, by its caller or by Flush
\* and Stop, can go on, and a sender that has not returned has an endpoint to try.
MayPost(s) == todo[s] # {}
MayWork(w) == wpc[w] = "panicking" \/ (wpc[w] = "selecting" /\ MayLeave(w)) \/ MayPost(w)
NobodyHangs ==
  /\ \A i \in Slices : /\ push[i] = "blocked" => TimerFires(i)
                       /\ push[i] = "sending" => MayPost(i)
  /\ batch[Flusher] # {} => MayPost(Flusher)
  /\ shut = "closed" => \A w \in Workers : wpc[w] = "gone" \/ MayWork(w)

-----------------------------------------------------------------------------
(* Why it is conserved *)

\* What a slice, and each sender, has in hand says what it is doing; a slice that
\* Push still has not sent was not posted, and one that it sends was posted to
\* every endpoint it is done with.
HandsMatch ==
  /\ \A i \in Slices : /\ push[i] = "sending" => batch[i] = {i} /\ todo[i] # {}
                       /\ push[i] # "sending" => batch[i] = {} /\ todo[i] = {}
  /\ \A i \in Slices, e \in Endpoints :
       /\ push[i] \in {"new", "blocked"} => tries[<<i, e>>] = 0
       /\ push[i] = "sending" /\ e \notin todo[i] => tries[<<i, e>>] > 0
  /\ \A w \in Workers : wpc[w] \notin {"sending", "leaving"} => todo[w] = {}

AdapterInv == TypeOK /\ HandsMatch /\ Conserved

\* A sendBatch in a worker or in Flush that tried its last endpoint has returned.
BusySenders ==
  /\ \A w \in Workers : wpc[w] \in {"sending", "leaving"} => todo[w] # {}
  /\ batch[Flusher] # {} => todo[Flusher] # {}
=============================================================================

-------------------------- MODULE Shutdown_proofs --------------------------
(***************************************************************************)
(* Proofs about Shutdown, for any components, priorities and budget, any   *)
(* calls that heed their context and any that may return an error: the     *)
(* components are stopped in order, and one that is slow leaves enough of  *)
(* the budget for the others.                                              *)
(***************************************************************************)
EXTENDS Shutdown, FiniteSetTheorems, TLAPS

\* Half of the budget, rounded down, leaves at least half, rounded up.
LEMMA Halves ==
  /\ Timeout \in Nat /\ Timeout \div 2 \in Nat /\ Rest \in Nat
  /\ Rest > 0 /\ Rest + Timeout \div 2 = Timeout
BY ShutdownAssumption DEF Rest

\* The context of a component is no longer than half of the budget.
LEMMA Shares ==
  ASSUME left \in 0..Timeout
  PROVE  Share \in 0..(Timeout \div 2) /\ (left = Timeout => Share = Timeout \div 2)
BY Halves DEF Share

LEMMA Initially == Init => ShutdownInv
<1> SUFFICES ASSUME Init PROVE ShutdownInv
  OBVIOUS
<1> USE DEF Init
<1>1. TypeOK
  <2>1. left \in 0..Timeout /\ share \in 0..(Timeout \div 2)
    BY Halves
  <2> QED BY <2>1 DEF TypeOK, Stages
<1>2. FlushesNow /\ Expired
  BY DEF FlushesNow, Expired
<1>3. EachOnce
  BY DEF EachOnce
<1>4. Spare
  BY DEF Spare
<1> QED BY <1>1, <1>2, <1>3, <1>4 DEF ShutdownInv

-----------------------------------------------------------------------------
(* The steps *)

LEMMA RegisterKeeps ==
  ASSUME ShutdownInv, NEW c \in Components, Register(c)
  PROVE  ShutdownInv'
<1> USE DEF ShutdownInv, Register
<1>1. TypeOK'
  BY DEF TypeOK
<1>2. FlushesNow' /\ Expired'
  BY DEF FlushesNow, Expired
<1>3. EachOnce'
  BY DEF EachOnce
<1>4. Spare'
  BY DEF Spare, Obedient
<1> QED BY <1>1, <1>2, <1>3, <1>4

LEMMA BeginKeeps ==
  ASSUME ShutdownInv, Begin
  PROVE  ShutdownInv'
<1> USE DEF ShutdownInv, Begin
<1>1. TypeOK'
  BY DEF TypeOK
<1>2. FlushesNow' /\ Expired'
  BY DEF FlushesNow, Expired
<1>3. EachOnce'
  BY ShutdownAssumption DEF EachOnce, TypeOK
<1>4. Spare'
  BY DEF Spare, Obedient
<1> QED BY <1>1, <1>2, <1>3, <1>4

LEMMA CallKeeps ==
  ASSUME ShutdownInv, NEW c \in Components, Call(c)
  PROVE  ShutdownInv'
<1> USE DEF ShutdownInv, Call
<1>1. c \in todo /\ c # NoComponent /\ c \notin handled /\ c \notin slow
  BY ShutdownAssumption DEF Foremost, EachOnce, TypeOK
<1>2. TypeOK'
  BY <1>1, Shares DEF TypeOK, Stages
<1>3. FlushesNow' /\ Expired'
  BY DEF FlushesNow, Expired
<1>4. EachOnce'
  BY <1>1 DEF EachOnce, TypeOK
<1>5. Spare'
  <2>1. slow = {} => left = Timeout /\ share' = Timeout \div 2
    BY Shares DEF Spare, TypeOK
  <2>2. ASSUME NEW d \in slow, slow = {d}, Obedient(d)
        PROVE  left >= Rest /\ d # c
    <3>1. left >= Rest + (IF current = d THEN share ELSE 0)
      BY <2>2 DEF Spare
    <3>2. current = NoComponent /\ d # current /\ d # c
      <4>1. current = NoComponent /\ slow \subseteq handled \cup ({current} \ {NoComponent})
        BY DEF TypeOK
      <4>2. NoComponent \notin handled
        BY <4>1 DEF EachOnce
      <4> QED BY <1>1, <4>1, <4>2
    <3> QED BY <3>1, <3>2, Halves
  <2>3. UNCHANGED <<slow, left>> /\ current' = c
    OBVIOUS
  <2> QED BY <2>1, <2>2, <2>3, Halves DEF Spare, Obedient
<1> QED BY <1>2, <1>3, <1>4, <1>5

LEMMA TickKeeps ==
  ASSUME ShutdownInv, Tick
  PROVE  ShutdownInv'
<1> USE DEF ShutdownInv, Tick
<1>1. TypeOK'
  BY Halves DEF TypeOK
<1>2. FlushesNow'
  BY DEF FlushesNow
<1>3. EachOnce'
  BY DEF EachOnce
<1>4. Expired'
  BY DEF Expired, TypeOK
<1>5. Spare'
  <2>1. slow' # {}
    OBVIOUS
  <2>2. ASSUME NEW d \in slow', slow' = {d}, Obedient(d)
        PROVE  left' >= Rest + (IF current' = d THEN share' ELSE 0)
    <3>1. d = current /\ current' = d
      BY <2>2
    <3>2. <<current, stage>> \in Heeding
      BY <2>2, <3>1 DEF Obedient, FlushesNow, TypeOK, Stages
    <3>3. share > 0 /\ share' = share - 1 /\ left' = left - 1
      BY <3>2
    <3>4. left >= Rest + share
      <4>1. CASE slow = {}
        BY <4>1, Halves DEF Spare
      <4>2. CASE slow = {d}
        BY <2>2, <3>1, <4>2 DEF Spare
      <4> QED BY <2>2, <4>1, <4>2
    <3> QED BY <3>1, <3>3, <3>4, Halves DEF TypeOK
  <2> QED BY <2>1, <2>2 DEF Spare, Obedient
<1> QED BY <1>1, <1>2, <1>3, <1>4, <1>5

LEMMA ReturnKeeps ==
  ASSUME ShutdownInv, current # NoComponent, NEW err \in BOOLEAN, Returned(err), UNCHANGED stage
  PROVE  ShutdownInv'
<1> USE DEF ShutdownInv, Returned, StillInProgress
<1>1. inProgress /\ current \in registered /\ current \notin todo
  BY DEF EachOnce, TypeOK
<1>2. TypeOK'
  BY <1>1 DEF TypeOK
<1>3. FlushesNow'
  BY DEF FlushesNow
<1>4. EachOnce'
  BY <1>1, ShutdownAssumption DEF EachOnce, TypeOK
<1>5. Expired'
  BY DEF Expired, BudgetSpent
<1>6. Spare'
  <2>1. UNCHANGED <<slow, left>> /\ current' = NoComponent
    OBVIOUS
  <2>2. ASSUME NEW d \in slow, slow = {d}, Obedient(d)
        PROVE  left >= Rest /\ d # NoComponent
    BY <2>2, Halves, ShutdownAssumption DEF Spare, TypeOK
  <2>3. slow = {} => left = Timeout
    BY DEF Spare
  <2> QED BY <2>1, <2>2, <2>3, Halves DEF Spare, Obedient
<1> QED BY <1>2, <1>3, <1>4, <1>5, <1>6

LEMMA FlushReturnsKeeps ==
  ASSUME ShutdownInv, FlushReturns
  PROVE  ShutdownInv'
BY DEF ShutdownInv, FlushReturns, TypeOK, Stages, FlushesNow, EachOnce, Spare, Obedient, Expired

LEMMA FinishKeeps ==
  ASSUME ShutdownInv, Finish
  PROVE  ShutdownInv'
BY DEF ShutdownInv, Finish, TypeOK, FlushesNow, EachOnce, Spare, Obedient, Expired

LEMMA ShutdownStep ==
  ASSUME ShutdownInv, [Next]_vars
  PROVE  ShutdownInv'
<1>1. CASE \E c \in Components : Register(c)
  BY <1>1, RegisterKeeps
<1>2. CASE Begin
  BY <1>2, BeginKeeps
<1>3. CASE Tick
  BY <1>3, TickKeeps
<1>4. CASE \E c \in Components : Call(c)
  BY <1>4, CallKeeps
<1>5. CASE FlushReturns
  BY <1>5, FlushReturnsKeeps
<1>6. CASE FlushFails \/ StopReturns \/ StopFails
  BY <1>6, ReturnKeeps DEF FlushFails, StopReturns, StopFails
<1>7. CASE Finish
  BY <1>7, FinishKeeps
<1>8. CASE UNCHANGED vars
  BY <1>8 DEF vars, ShutdownInv, TypeOK, FlushesNow, EachOnce, Spare, Obedient, Expired
<1> QED BY <1>1, <1>2, <1>3, <1>4, <1>5, <1>6, <1>7, <1>8 DEF Next, Running

LEMMA ShutdownInvariance == Spec => []ShutdownInv
BY Initially, ShutdownStep, PTL DEF Spec

-----------------------------------------------------------------------------
(* The results *)

\* What is registered, called, handled and slow is what it should be, and no context
\* is longer than half of the budget.
THEOREM TypeCorrect == Spec => []TypeOK
BY ShutdownInvariance, PTL DEF ShutdownInv

\* A component that uses up its context leaves the other half of the budget, so that
\* Shutdown, which looks at the budget after each component, goes through them all.
THEOREM OneSlowLeavesEnough == Spec => []OneSlowIsHarmless
<1>1. ShutdownInv => OneSlowIsHarmless
  <2> SUFFICES ASSUME ShutdownInv, result # "none", Cardinality(slow) <= 1,
                      \A c \in slow : Obedient(c)
               PROVE  result = "nil" /\ handled = registered
    BY DEF OneSlowIsHarmless
  <2> USE DEF ShutdownInv
  <2>1. IsFiniteSet(slow)
    <3>1. slow \in SUBSET Components
      BY DEF TypeOK
    <3> QED BY <3>1, ShutdownAssumption, FS_Subset
  <2>2. slow = {} \/ \E c \in slow : slow = {c}
    <3>1. Cardinality(slow) = 0 \/ Cardinality(slow) = 1
      BY <2>1, FS_CardinalityType
    <3> QED BY <2>1, <3>1, FS_EmptySet, FS_Singleton
  <2>3. left > 0
    <3>1. CASE slow = {}
      BY <3>1, Halves, ShutdownAssumption DEF Spare
    <3>2. CASE \E c \in slow : slow = {c}
      <4>1. PICK c \in slow : slow = {c}
        BY <3>2
      <4>2. left >= Rest + (IF current = c THEN share ELSE 0)
        BY <4>1 DEF Spare
      <4> QED BY <4>2, Halves DEF TypeOK
    <3> QED BY <2>2, <3>1, <3>2
  <2>4. result = "nil"
    BY <2>3 DEF Expired, TypeOK
  <2>5. todo = {} /\ current = NoComponent
    BY <2>4 DEF EachOnce, TypeOK
  <2>6. handled = registered
    BY <2>5, ShutdownAssumption DEF EachOnce, TypeOK
  <2> QED BY <2>4, <2>6
<1> QED BY <1>1, ShutdownInvariance, PTL

\* Whatever the components are called and whenever they were registered, one is called
\* only when all of a higher priority have returned.
THEOREM StoppedInOrder == Spec => InOrder
<1> DEFINE Ordered == \A c \in registered : current # c /\ current' = c
                        => \A d \in registered : Priority[d] < Priority[c] => d \in handled
<1>1. ShutdownInv /\ [Next]_vars => [Ordered]_vars
  <2> SUFFICES ASSUME ShutdownInv, Next, NEW c \in registered, current # c, current' = c,
                      NEW d \in registered, Priority[d] < Priority[c]
               PROVE  d \in handled
    OBVIOUS
  <2>1. c # NoComponent
    BY ShutdownAssumption DEF ShutdownInv, TypeOK
  <2>2. Call(c)
    BY <2>1 DEF Next, Running, Register, Begin, Tick, FlushReturns, FlushFails, StopReturns,
       StopFails, Returned, Finish, Call
  <2>3. d \notin todo
    <3>1. Priority[c] \in Nat /\ Priority[d] \in Nat
      BY ShutdownAssumption DEF ShutdownInv, TypeOK
    <3> QED BY <2>2, <3>1 DEF Call, Foremost
  <2> QED BY <2>2, <2>3 DEF Call, ShutdownInv, EachOnce
<1> QED BY <1>1, ShutdownInvariance, PTL DEF Spec, InOrder
=============================================================================

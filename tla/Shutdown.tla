------------------------------ MODULE Shutdown ------------------------------
(***************************************************************************)
(* The shutdown manager (internal/shutdown) and the components main        *)
(* registers with it: one call of Shutdown stops them in order of          *)
(* priority.  The call has a budget of Timeout, and each component a       *)
(* context with half of it, or with what is left if that is less.          *)
(*                                                                         *)
(* A component is stopped by one call, or by a flush and, when that        *)
(* returned no error, a stop.  Some of these calls return when their       *)
(* context ends (Heeding), the others when their work is done.  main calls *)
(* Shutdown once.                                                          *)
(***************************************************************************)
EXTENDS Integers, FiniteSets

CONSTANTS
  Components,
  Priority,     \* of each component; the lowest is stopped first
  Flushing,     \* components whose Shutdown flushes first
  Heeding,      \* pairs of a component and a stage that return with their context
  Failing,      \* pairs of a component and a stage that may return an error
  Timeout,      \* the budget
  NoComponent

Stages == {"flush", "stop"}

ASSUME ShutdownAssumption ==
  /\ IsFiniteSet(Components) /\ NoComponent \notin Components
  /\ Priority \in [Components -> Nat]
  /\ Flushing \subseteq Components
  /\ Heeding \subseteq Components \X Stages /\ Failing \subseteq Components \X Stages
  /\ Timeout \in Nat /\ Timeout > 1

VARIABLES
  registered,   \* m.components
  inProgress,   \* m.status.InProgress
  todo,         \* components Shutdown has not called yet
  current,      \* the component it is in
  stage,        \* the call of that component it waits for
  left,         \* what is left of the budget
  share,        \* what is left of the component's context
  handled,      \* components with m.status.Components true
  failed,       \* components in m.status.Errors
  slow,         \* history: components that took time
  result        \* what Shutdown returned: "none" yet, "nil" or "expired"

vars == <<registered, inProgress, todo, current, stage, left, share, handled, failed,
          slow, result>>

Init ==
  /\ registered = {} /\ todo = {} /\ current = NoComponent /\ stage = "stop"
  /\ inProgress = FALSE
  /\ left = Timeout /\ share = 0
  /\ handled = {} /\ failed = {} /\ slow = {}
  /\ result = "none"

-----------------------------------------------------------------------------
\* main registers the components that are configured.
Register(c) ==
  /\ ~inProgress /\ result = "none"
  /\ c \notin registered
  /\ registered' = registered \cup {c}
  /\ UNCHANGED <<inProgress, todo, current, stage, left, share, handled, failed, slow, result>>

Begin ==
  /\ ~inProgress /\ result = "none"
  /\ inProgress' = TRUE
  /\ todo' = registered
  /\ UNCHANGED <<registered, current, stage, left, share, handled, failed, slow,
                 result>>

\* The components sorted by priority; mutant: in the order of their registration.
Unsorted == todo
Foremost == {c \in todo : \A d \in todo : Priority[c] <= Priority[d]}

\* A component's context; mutant: all that is left.
Everything == left
Share == IF left < Timeout \div 2 THEN left ELSE Timeout \div 2

Call(c) ==
  /\ inProgress /\ result = "none"
  /\ current = NoComponent
  /\ c \in Foremost
  /\ current' = c
  /\ todo' = todo \ {c}
  /\ stage' = IF c \in Flushing THEN "flush" ELSE "stop"
  /\ share' = Share
  /\ UNCHANGED <<registered, inProgress, left, handled, failed, slow, result>>

\* Time passes in a call, unless its context has ended and it heeds that.
Tick ==
  /\ current # NoComponent
  /\ left > 0
  /\ <<current, stage>> \in Heeding => share > 0
  /\ left' = left - 1
  /\ share' = IF share > 0 THEN share - 1 ELSE 0
  /\ slow' = slow \cup {current}
  /\ UNCHANGED <<registered, inProgress, todo, current, stage, handled, failed, result>>

\* The component's Shutdown has returned: its status is set, and the budget is
\* looked at.
BudgetSpent == left = 0

\* InProgress when Shutdown returns before its end; mutant: not reset there.
NotReset == TRUE
StillInProgress == FALSE

Returned(err) ==
  /\ handled' = handled \cup {current}
  /\ failed' = IF err THEN failed \cup {current} ELSE failed
  /\ current' = NoComponent
  /\ IF BudgetSpent THEN result' = "expired" /\ inProgress' = StillInProgress
                    ELSE UNCHANGED <<result, inProgress>>
  /\ UNCHANGED <<registered, todo, left, share, slow>>

MayFail == <<current, stage>> \in Failing

FlushReturns ==
  /\ current # NoComponent /\ stage = "flush"
  /\ stage' = "stop"
  /\ UNCHANGED <<registered, inProgress, todo, current, left, share, handled, failed,
                 slow, result>>

\* An error of the flush is what the component returns; it is then not stopped.
FlushFails ==
  /\ current # NoComponent /\ stage = "flush" /\ MayFail
  /\ Returned(TRUE)
  /\ UNCHANGED stage

StopReturns ==
  /\ current # NoComponent /\ stage = "stop"
  /\ Returned(FALSE)
  /\ UNCHANGED stage

StopFails ==
  /\ current # NoComponent /\ stage = "stop" /\ MayFail
  /\ Returned(TRUE)
  /\ UNCHANGED stage

Finish ==
  /\ inProgress /\ result = "none"
  /\ current = NoComponent /\ todo = {}
  /\ result' = "nil" /\ inProgress' = FALSE
  /\ UNCHANGED <<registered, todo, current, stage, left, share, handled, failed, slow>>

Running ==
  \/ \E c \in Components : Call(c)
  \/ FlushReturns \/ FlushFails \/ StopReturns \/ StopFails \/ Finish

Next == (\E c \in Components : Register(c)) \/ Begin \/ Tick \/ Running

Spec == Init /\ [][Next]_vars

\* Every call of a component returns at last; nobody has to call Shutdown.
FairSpec == Spec /\ WF_vars(Running)

-----------------------------------------------------------------------------
(* Properties *)

\* A component is called only when every registered component of a higher
\* priority has returned: the log is closed before the adapter is flushed.
InOrder ==
  [][\A c \in registered : current # c /\ current' = c
       => \A d \in registered : Priority[d] < Priority[c] => d \in handled]_vars

\* One component that takes all the time its context gives it does not keep the
\* others from being stopped.
Obedient(c) == (IF c \in Flushing THEN {<<c, "flush">>} ELSE {}) \cup {<<c, "stop">>} \subseteq Heeding
OneSlowIsHarmless ==
  result # "none" /\ Cardinality(slow) <= 1 /\ (\A c \in slow : Obedient(c))
    => result = "nil" /\ handled = registered

\* When every call of a component returns, Shutdown returns, and its status says so
\* whichever way it did.
ShutdownEnds == inProgress ~> ~inProgress

-----------------------------------------------------------------------------
(* Why they hold *)

TypeOK ==
  /\ registered \subseteq Components /\ todo \subseteq registered
  /\ current \in registered \cup {NoComponent}
  /\ inProgress \in BOOLEAN /\ stage \in Stages
  /\ left \in 0..Timeout /\ share \in 0..(Timeout \div 2)
  /\ handled \subseteq registered /\ failed \subseteq handled
  /\ slow \subseteq handled \cup ({current} \ {NoComponent})
  /\ result \in {"none", "nil", "expired"}

\* A component that is flushed now is one that flushes.
FlushesNow == current # NoComponent /\ stage = "flush" => current \in Flushing

\* Each component is still to be called, in its call, or handled.
EachOnce ==
  /\ inProgress \/ result # "none" =>
       registered = todo \cup handled \cup ({current} \ {NoComponent})
  /\ todo \cap handled = {} /\ current \notin todo \cup handled
  /\ result # "none" => ~inProgress
  /\ ~inProgress => current = NoComponent
  /\ ~inProgress /\ result = "none" => todo = {} /\ handled = {}
  /\ result = "nil" => todo = {}

\* One slow component takes no more than its context; the other half is left.
Rest == Timeout - Timeout \div 2
Spare ==
  /\ slow = {} => /\ left = Timeout
                  /\ current # NoComponent => share = Timeout \div 2
  /\ \A c \in slow : slow = {c} /\ Obedient(c) =>
       left >= Rest + (IF current = c THEN share ELSE 0)

\* Shutdown gives up when nothing is left, and then nobody takes more time.
Expired == result = "expired" => left = 0

ShutdownInv == TypeOK /\ FlushesNow /\ EachOnce /\ Spare /\ Expired
=============================================================================

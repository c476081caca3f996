------------------------------ MODULE Admission ------------------------------
(***************************************************************************)
(* What execute promises its callers, with no permits, queue or dispatcher: *)
(* a call that has reserved its budget is admitted in one step, when fewer  *)
(* than ConcurrentMax calls run and both rates allow it, is answered once,  *)
(* and is turned away only when QueueMaxSize others wait.                   *)
(***************************************************************************)
EXTENDS Integers, Sequences, FiniteSets, Functions

CONSTANTS
  Callers, Costs, Window, RequestsPerMinute, TokensPerMinute, ConcurrentMax,
  QueueMaxSize, MaxBudget

VARIABLES
  call,    \* each caller's call: "idle", "waiting", "running" or "answered"
  cost,    \* what it has reserved
  used,    \* all that was ever reserved
  log,     \* the calls admitted in the last Window ticks, oldest first
  closed   \* whether the gatekeeper was shut down

vars == <<call, cost, used, log, closed>>

Init ==
  /\ call = [t \in Callers |-> "idle"] /\ cost = [t \in Callers |-> 0]
  /\ used = 0 /\ log = <<>> /\ closed = FALSE

Calls(s) == {t \in Callers : call[t] = s}
Moves(t, from, to) == call[t] = from /\ call' = [call EXCEPT ![t] = to]
LogCost == SumFunction([i \in 1 .. Len(log) |-> log[i].cost])

Arrive(t) ==
  \E c \in Costs :
    /\ Moves(t, "idle", "waiting")
    /\ used + c <= MaxBudget
    /\ used' = used + c /\ cost' = [cost EXCEPT ![t] = c]
    /\ UNCHANGED <<log, closed>>

Admit(t) ==
  /\ Moves(t, "waiting", "running")
  /\ Cardinality(Calls("running")) < ConcurrentMax
  /\ Len(log) < RequestsPerMinute
  /\ LogCost + cost[t] <= TokensPerMinute
  /\ log' = Append(log, [age |-> 0, cost |-> cost[t]])
  /\ UNCHANGED <<cost, used, closed>>

Answer(t) == Moves(t, "running", "answered") /\ UNCHANGED <<cost, used, log, closed>>

\* A call that waits when the gatekeeper is shut down is answered with an error.
Fail(t) == closed /\ Moves(t, "waiting", "answered") /\ UNCHANGED <<cost, used, log, closed>>

Refuse(t) ==
  /\ Moves(t, "waiting", "idle")
  /\ Cardinality(Calls("waiting") \ {t}) >= QueueMaxSize
  /\ cost' = [cost EXCEPT ![t] = 0]
  /\ UNCHANGED <<used, log, closed>>

Return(t) ==
  /\ Moves(t, "answered", "idle")
  /\ cost' = [cost EXCEPT ![t] = 0]
  /\ UNCHANGED <<used, log, closed>>

Close == ~closed /\ closed' = TRUE /\ UNCHANGED <<call, cost, used, log>>

\* A tick: the calls that are then a window old leave the log.
Pass ==
  /\ \E k \in 0 .. Len(log) :
       /\ \A i \in 1 .. Len(log) : i <= k <=> log[i].age + 1 >= Window
       /\ log' = [i \in 1 .. Len(log) - k |-> [log[k + i] EXCEPT !.age = @ + 1]]
  /\ UNCHANGED <<call, cost, used, closed>>

Next ==
  \/ \E t \in Callers :
       Arrive(t) \/ Admit(t) \/ Answer(t) \/ Fail(t) \/ Refuse(t) \/ Return(t)
  \/ Close
  \/ Pass

Spec == Init /\ [][Next]_vars
==============================================================================

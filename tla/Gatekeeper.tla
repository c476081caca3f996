----------------------------- MODULE Gatekeeper ------------------------------
(***************************************************************************)
(* The API gatekeeper of one process: execute (shared/gatekeeper.py) called *)
(* by several threads, the budget (shared/gatekeeper_budget.py), the        *)
(* sliding window, the semaphore, the overflow queue and its dispatcher     *)
(* thread (shared/gatekeeper_traffic.py), and the retries                   *)
(* (shared/gatekeeper_runtime.py).                                          *)
(*                                                                         *)
(* A caller has one call at a time, so a task is named by its caller.  Time *)
(* is the age of what the window holds, in ticks; the window of 60 seconds  *)
(* is Window ticks.                                                         *)
(***************************************************************************)
EXTENDS Integers, Sequences, FiniteSets, Functions

CONSTANTS
  Callers,            \* the threads that call execute
  Costs,              \* the projected costs they pass
  Window,             \* length of the sliding window
  RequestsPerMinute, TokensPerMinute, ConcurrentMax, QueueMaxSize,
  MaxRetries, MaxBudget,
  Transient,          \* whether an API request may fail in a retryable way
  MayShutDown         \* whether reset_instance may be called

\* A cost above tokens_per_minute is never granted, but may be asked for.
ASSUME LimitsAssumption ==
  /\ IsFiniteSet(Callers)
  /\ {Window, RequestsPerMinute, TokensPerMinute, ConcurrentMax, QueueMaxSize}
       \subseteq Nat \ {0}
  /\ MaxRetries \in Nat /\ MaxBudget \in Nat
  /\ Costs \subseteq Nat \ {0}
  /\ Transient \in BOOLEAN /\ MayShutDown \in BOOLEAN

Dispatcher == "dispatcher"
ASSUME DispatcherAssumption == Dispatcher \notin Callers
Threads == Callers \cup {Dispatcher}
NoTask == "no task"
ASSUME NoTaskAssumption == NoTask \notin Callers

VARIABLES
  pc,       \* where each thread is
  cost,     \* projected_cost of each caller's task
  attempt,  \* retries its running call has used
  done,     \* task.done; whether with a result or an error makes no difference here
  dtask,    \* the task the dispatcher holds
  wait,     \* how long the dispatcher still sleeps
  tracked,  \* _tracked_token_consumption
  permits,  \* the semaphore
  window,   \* _timestamps and _token_timestamps, oldest first
  queue,    \* the overflow queue
  shutdown, \* the shutdown event
  grants,   \* history: the slots granted in the last Window ticks
  wire,     \* history: the API requests sent in the last Window ticks
  spent     \* history: projected costs of all slots granted

taskVars == <<cost, attempt, done>>
historyVars == <<grants, wire, spent>>
vars == <<pc, taskVars, dtask, wait, tracked, permits, window, queue, shutdown, historyVars>>

Slots == [age : 0 .. Window, cost : Costs]
SharedSteps == {"acquire", "window", "giveback", "refused", "calling", "record", "release"}
CallerSteps == SharedSteps \cup {"idle", "enqueue", "waiting"}
DispatcherSteps == SharedSteps \cup {"loop", "get", "check", "sleep", "exited"}

\* The types of the variables; no counter leaves its range.
TypeOK ==
  /\ pc \in [Threads -> CallerSteps \cup DispatcherSteps]
  /\ \A t \in Callers : pc[t] \in CallerSteps
  /\ pc[Dispatcher] \in DispatcherSteps
  /\ cost \in [Callers -> Costs \cup {0}]
  /\ attempt \in [Callers -> 0 .. MaxRetries]
  /\ done \in [Callers -> BOOLEAN]
  /\ dtask \in Callers \cup {NoTask}
  /\ wait \in 0 .. Window
  /\ tracked \in 0 .. MaxBudget
  /\ permits \in 0 .. ConcurrentMax
  /\ window \in Seq(Slots) /\ grants \in Seq(Slots)
  /\ queue \in Seq(Callers) /\ Len(queue) <= QueueMaxSize
  /\ shutdown \in BOOLEAN
  /\ wire \in Seq([age : 0 .. Window])
  /\ spent \in Nat

Init ==
  /\ pc = [t \in Threads |-> IF t = Dispatcher THEN "loop" ELSE "idle"]
  /\ cost = [t \in Callers |-> 0] /\ attempt = [t \in Callers |-> 0]
  /\ done = [t \in Callers |-> FALSE]
  /\ dtask = NoTask /\ wait = 0
  /\ tracked = 0 /\ permits = ConcurrentMax
  /\ window = <<>> /\ queue = <<>> /\ shutdown = FALSE
  /\ grants = <<>> /\ wire = <<>> /\ spent = 0

-------------------------------------------------------------------------------
(* The sliding window. *)

\* How many of the oldest entries are at least n old, and what is left without
\* them: where the loops of the two prune methods stop.
Leading(w, n) ==
  CHOOSE k \in 0 .. Len(w) :
    /\ \A i \in 1 .. k : w[i].age >= n
    /\ k < Len(w) => w[k + 1].age < n
Younger(w, n) == SubSeq(w, Leading(w, n) + 1, Len(w))

\* A faulty form of the next definition: off by one.
PrunedTooEarly(w) == Younger(w, Window - 1)
Pruned(w) == Younger(w, Window)
Tokens(w) == SumFunction([i \in 1 .. Len(w) |-> w[i].cost])
Aged(w, n) == [i \in 1 .. Len(w) |-> [w[i] EXCEPT !.age = @ + n]]

\* try_acquire_slot's test of a pruned window.
Fits(w, c) == Len(w) < RequestsPerMinute /\ Tokens(w) + c <= TokensPerMinute

\* A faulty form of the next definition: off by one token.
RetryAfterOneMore(w, c) ==
  LET toFree == Tokens(w) + c - TokensPerMinute
      forRequests == IF Len(w) >= RequestsPerMinute THEN {Window - w[1].age} ELSE {}
      forTokens == {Window - w[i].age :
                      i \in {j \in 1 .. Len(w) : Tokens(SubSeq(w, 1, j - 1)) <= toFree}}
      waits == forRequests \cup forTokens \cup {0}
  IN  CHOOSE m \in waits : \A n \in waits : n <= m

\* retry_after_seconds of a pruned window: until the oldest request leaves if
\* the window is full, and until enough of the oldest tokens have left.
RetryAfter(w, c) ==
  LET toFree == Tokens(w) + c - TokensPerMinute
      forRequests == IF Len(w) >= RequestsPerMinute THEN {Window - w[1].age} ELSE {}
      forTokens == {Window - w[i].age :
                      i \in {j \in 1 .. Len(w) : Tokens(SubSeq(w, 1, j - 1)) < toFree}}
      waits == forRequests \cup forTokens \cup {0}
  IN  CHOOSE m \in waits : \A n \in waits : n <= m

-------------------------------------------------------------------------------
(* Steps callers and the dispatcher share: try_acquire_slot, _run_task and  *)
(* release_slot, for the task a thread works on.                            *)

Task(t) == IF t = Dispatcher THEN dtask ELSE t
Goto(t, step) == pc' = [pc EXCEPT ![t] = step]
At(t, step) == pc[t] = step

\* The non-blocking semaphore.
TryAcquire(t) ==
  /\ At(t, "acquire")
  /\ \/ permits > 0 /\ permits' = permits - 1 /\ Goto(t, "window")
     \/ permits = 0 /\ UNCHANGED permits /\ Goto(t, "refused")
  /\ UNCHANGED <<taskVars, dtask, wait, tracked, window, queue, shutdown, historyVars>>

\* The window, under the rate lock: a slot is granted ...
Grant(t) ==
  LET w == Pruned(window)
      slot == [age |-> 0, cost |-> cost[Task(t)]]
  IN  /\ At(t, "window")
      /\ Fits(w, slot.cost)
      /\ window' = Append(w, slot)
      /\ grants' = Append(grants, slot)
      /\ spent' = spent + slot.cost
      /\ Goto(t, "calling")
      /\ UNCHANGED <<taskVars, dtask, wait, tracked, permits, queue, shutdown, wire>>

\* ... or not.
Deny(t) ==
  /\ At(t, "window")
  /\ ~Fits(Pruned(window), cost[Task(t)])
  /\ window' = Pruned(window)
  /\ Goto(t, "giveback")
  /\ UNCHANGED <<taskVars, dtask, wait, tracked, permits, queue, shutdown, historyVars>>

\* A faulty form of the next definition: the permit leaks.
GiveBackForgotten(t) ==
  /\ At(t, "giveback")
  /\ Goto(t, "refused")
  /\ UNCHANGED <<taskVars, dtask, wait, tracked, permits, window, queue, shutdown, historyVars>>

GiveBack(t) ==
  /\ At(t, "giveback")
  /\ permits' = permits + 1
  /\ Goto(t, "refused")
  /\ UNCHANGED <<taskVars, dtask, wait, tracked, window, queue, shutdown, historyVars>>

\* A faulty form of the next definition: the reservation is refunded.
RefusedRefunds(t) ==
  /\ At(t, "refused")
  /\ window' = Pruned(window)
  /\ tracked' = tracked - cost[Task(t)]
  /\ IF t = Dispatcher
       THEN wait' = RetryAfter(window', cost[dtask]) /\ Goto(t, "sleep")
       ELSE UNCHANGED wait /\ Goto(t, "enqueue")
  /\ UNCHANGED <<taskVars, dtask, permits, queue, shutdown, historyVars>>

\* A faulty form of the next definition: a caller waits without queueing.
RefusedWaits(t) ==
  /\ At(t, "refused")
  /\ window' = Pruned(window)
  /\ IF t = Dispatcher
       THEN wait' = RetryAfter(window', cost[dtask]) /\ Goto(t, "sleep")
       ELSE UNCHANGED wait /\ Goto(t, "waiting")
  /\ UNCHANGED <<taskVars, dtask, tracked, permits, queue, shutdown, historyVars>>

\* retry_after_seconds: a caller only logs it, the dispatcher sleeps for it.
Refused(t) ==
  /\ At(t, "refused")
  /\ window' = Pruned(window)
  /\ IF t = Dispatcher
       THEN wait' = RetryAfter(window', cost[dtask]) /\ Goto(t, "sleep")
       ELSE UNCHANGED wait /\ Goto(t, "enqueue")
  /\ UNCHANGED <<taskVars, dtask, tracked, permits, queue, shutdown, historyVars>>

\* A faulty form of the next definition: the retries are not counted.
RequestUncounted(t) ==
  /\ At(t, "calling")
  /\ wire' = Append(wire, [age |-> 0])
  /\ Goto(t, "record") \/ (Transient /\ UNCHANGED pc)
  /\ UNCHANGED <<taskVars, dtask, wait, tracked, permits, window, queue, shutdown, grants, spent>>

\* run_with_retries: one request to the API, answered or failed for good, or
\* to be retried.
Request(t) ==
  LET k == Task(t) IN
  /\ At(t, "calling")
  /\ wire' = Append(wire, [age |-> 0])
  /\ \/ attempt' = [attempt EXCEPT ![k] = 0] /\ Goto(t, "record")
     \/ /\ Transient /\ attempt[k] < MaxRetries
        /\ attempt' = [attempt EXCEPT ![k] = @ + 1]
        /\ UNCHANGED pc
  /\ UNCHANGED <<cost, done, dtask, wait, tracked, permits, window, queue, shutdown, grants,
                 spent>>

\* The finally of _run_task: usage and telemetry are reported, the task is done.
\* From here its caller may go on, and the dispatcher looks at it no more.
Record(t) ==
  /\ At(t, "record")
  /\ done' = [done EXCEPT ![Task(t)] = TRUE]
  /\ dtask' = IF t = Dispatcher THEN NoTask ELSE dtask
  /\ Goto(t, "release")
  /\ UNCHANGED <<cost, attempt, wait, tracked, permits, window, queue, shutdown, historyVars>>

Release(t) ==
  /\ At(t, "release")
  /\ permits' = permits + 1
  /\ Goto(t, IF t = Dispatcher THEN "loop" ELSE "waiting")
  /\ UNCHANGED <<taskVars, dtask, wait, tracked, window, queue, shutdown, historyVars>>

SharedStep(t) ==
  TryAcquire(t) \/ Grant(t) \/ Deny(t) \/ GiveBack(t) \/ Refused(t) \/ Request(t)
    \/ Record(t) \/ Release(t)

-------------------------------------------------------------------------------
(* A caller in execute. *)

\* reserve_budget, under the budget lock; over the limit execute raises and
\* the caller is where it was.
Reserve(t) ==
  \E c \in Costs :
    /\ At(t, "idle")
    /\ tracked + c <= MaxBudget
    /\ tracked' = tracked + c
    /\ cost' = [cost EXCEPT ![t] = c]
    /\ Goto(t, "acquire")
    /\ UNCHANGED <<attempt, done, dtask, wait, permits, window, queue, shutdown, historyVars>>

\* The task of a call that is over is garbage.
Forget(t) ==
  /\ cost' = [cost EXCEPT ![t] = 0]
  /\ done' = [done EXCEPT ![t] = FALSE]
  /\ UNCHANGED attempt

\* A faulty form of the next definition: no bound.
EnqueueUnbounded(t) ==
  /\ At(t, "enqueue")
  /\ queue' = Append(queue, t) /\ Goto(t, "waiting")
  /\ UNCHANGED <<taskVars, dtask, wait, tracked, permits, window, shutdown, historyVars>>

\* A faulty form of the next definition: the queue counts as full one task early.
EnqueueOffByOne(t) ==
  /\ At(t, "enqueue")
  /\ IF Len(queue) + 1 < QueueMaxSize
       THEN queue' = Append(queue, t) /\ Goto(t, "waiting") /\ UNCHANGED taskVars
       ELSE UNCHANGED queue /\ Goto(t, "idle") /\ Forget(t)
  /\ UNCHANGED <<dtask, wait, tracked, permits, window, shutdown, historyVars>>

\* put_nowait on the overflow queue; a full one raises.
Enqueue(t) ==
  /\ At(t, "enqueue")
  /\ IF Len(queue) < QueueMaxSize
       THEN queue' = Append(queue, t) /\ Goto(t, "waiting") /\ UNCHANGED taskVars
       ELSE UNCHANGED queue /\ Goto(t, "idle") /\ Forget(t)
  /\ UNCHANGED <<dtask, wait, tracked, permits, window, shutdown, historyVars>>

\* done.wait returns, and execute with it.
Return(t) ==
  /\ At(t, "waiting") /\ done[t]
  /\ Goto(t, "idle") /\ Forget(t)
  /\ UNCHANGED <<dtask, wait, tracked, permits, window, queue, shutdown, historyVars>>

CallerStep(t) == SharedStep(t) \/ Enqueue(t) \/ Return(t)

-------------------------------------------------------------------------------
(* The dispatcher thread. *)

\* The test of the outer loop.
Poll ==
  /\ At(Dispatcher, "loop")
  /\ Goto(Dispatcher, IF shutdown THEN "exited" ELSE "get")
  /\ UNCHANGED <<taskVars, dtask, wait, tracked, permits, window, queue, shutdown, historyVars>>

\* A faulty form of the next definition: the task stays in the queue.
DequeuePeeks ==
  /\ At(Dispatcher, "get")
  /\ IF queue = <<>>
       THEN UNCHANGED dtask /\ Goto(Dispatcher, "loop")
       ELSE dtask' = Head(queue) /\ Goto(Dispatcher, "check")
  /\ UNCHANGED <<taskVars, wait, tracked, permits, window, queue, shutdown, historyVars>>

\* get with a timeout.
Dequeue ==
  /\ At(Dispatcher, "get")
  /\ IF queue = <<>>
       THEN UNCHANGED <<dtask, queue>> /\ Goto(Dispatcher, "loop")
       ELSE dtask' = Head(queue) /\ queue' = Tail(queue) /\ Goto(Dispatcher, "check")
  /\ UNCHANGED <<taskVars, wait, tracked, permits, window, shutdown, historyVars>>

\* The test of the inner loop, and the failure of the task it leads to.
Check ==
  /\ At(Dispatcher, "check")
  /\ IF shutdown
       THEN /\ done' = [done EXCEPT ![dtask] = TRUE]
            /\ dtask' = NoTask
            /\ Goto(Dispatcher, "loop")
       ELSE UNCHANGED <<done, dtask>> /\ Goto(Dispatcher, "acquire")
  /\ UNCHANGED <<cost, attempt, wait, tracked, permits, window, queue, shutdown, historyVars>>

Wake ==
  /\ At(Dispatcher, "sleep") /\ wait = 0
  /\ Goto(Dispatcher, "check")
  /\ UNCHANGED <<taskVars, dtask, wait, tracked, permits, window, queue, shutdown, historyVars>>

DispatcherStep == SharedStep(Dispatcher) \/ Poll \/ Dequeue \/ Check \/ Wake

-------------------------------------------------------------------------------

\* reset_instance.
ShutDown ==
  /\ MayShutDown /\ ~shutdown
  /\ shutdown' = TRUE
  /\ UNCHANGED <<pc, taskVars, dtask, wait, tracked, permits, window, queue, historyVars>>

\* A tick: everything in the window ages, the histories forget what is a full
\* window old.
Older(s) == IF s.age < Window THEN [s EXCEPT !.age = @ + 1] ELSE s
Tick ==
  /\ window # <<>> \/ grants # <<>> \/ wire # <<>> \/ wait > 0
  /\ window' = [i \in 1 .. Len(window) |-> Older(window[i])]
  /\ grants' = Younger(Aged(grants, 1), Window)
  /\ wire' = Younger(Aged(wire, 1), Window)
  /\ wait' = IF wait > 0 THEN wait - 1 ELSE 0
  /\ UNCHANGED <<pc, taskVars, dtask, tracked, permits, queue, shutdown, spent>>

Next ==
  \/ \E t \in Callers : Reserve(t) \/ CallerStep(t)
  \/ DispatcherStep
  \/ ShutDown
  \/ Tick

Spec == Init /\ [][Next]_vars

\* Threads are scheduled, time passes, and every API request ends (the HTTP
\* client has a timeout).  Nobody has to call.
Fairness ==
  /\ \A t \in Callers : WF_vars(CallerStep(t))
  /\ WF_vars(DispatcherStep)
  /\ WF_vars(Tick)

FairSpec == Spec /\ Fairness
==============================================================================

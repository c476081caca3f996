--------------------------- MODULE GatekeeperProps ---------------------------
(***************************************************************************)
(* What must be true of Gatekeeper, and what the repository says of it.    *)
(***************************************************************************)
EXTENDS Gatekeeper

\* Threads that hold a permit of the semaphore.
Holders == {t \in Threads : pc[t] \in {"window", "giveback", "calling", "record", "release"}}

\* A permit is neither lost nor made up on any path through try_acquire_slot,
\* _run_task and release_slot, so at most ConcurrentMax calls run at once.
SlotsConserved == permits + Cardinality(Holders) = ConcurrentMax

InQueue(t) == \E i \in 1 .. Len(queue) : queue[i] = t

\* Calls that have reserved budget and not been granted a slot.
Ungranted ==
  {t \in Callers :
     \/ pc[t] \in {"acquire", "window", "giveback", "refused", "enqueue"}
     \/ InQueue(t)
     \/ dtask = t /\ ~At(Dispatcher, "calling") /\ ~At(Dispatcher, "record")}

\* Whatever the interleaving, no slot is granted that was not paid for: what
\* was granted and what still waits for a slot is within the reservations.
PaidBeforeGranted ==
  spent + SumFunctionOnSet(cost, Ungranted) <= tracked /\ tracked <= MaxBudget

\* Over any stretch of one window, the slots granted to all threads together
\* keep to both rates: the check and the entry are one step, and pruning never
\* forgets a slot too early.
GrantsWithinRates ==
  Len(grants) <= RequestsPerMinute /\ Tokens(grants) <= TokensPerMinute

\* A queued task is in the hands of exactly one of the queue, the dispatcher
\* and its caller: it is never lost, queued twice, or run by two threads.
Places(t) ==
  Cardinality({i \in 1 .. Len(queue) : queue[i] = t})
    + (IF dtask = t THEN 1 ELSE 0)
    + (IF pc[t] \in {"acquire", "window", "giveback", "refused", "enqueue", "calling", "record"}
         THEN 1 ELSE 0)
    + (IF done[t] THEN 1 ELSE 0)
OnePlace == \A t \in Callers : pc[t] # "idle" => Places(t) = 1

\* retry_after_seconds is exact: if nobody else is granted a slot meanwhile, a
\* task that can fit at all fits when that time has passed and not before.
RetryAfterExact ==
  \A c \in 1 .. TokensPerMinute :
    LET w == Pruned(window)
        d == RetryAfter(w, c)
    IN  /\ Fits(Pruned(Aged(w, d)), c)
        /\ d > 0 => ~Fits(Pruned(Aged(w, d - 1)), c)

\* Retries go out without a slot, but their excess is bounded: every request of
\* the last window belongs to a call granted in it or to one that was already
\* running, and no call sends more than its retries allow.
RequestsBounded ==
  Len(wire) <= (RequestsPerMinute + ConcurrentMax) * (1 + MaxRetries)

\* How a call stands, whoever has it: its caller, the queue or the dispatcher.
Runs(t) == \E u \in Threads : Task(u) = t /\ pc[u] \in {"calling", "record"}
CallOf(t) ==
  IF pc[t] = "idle" THEN "idle"
  ELSE IF done[t] THEN "answered"
  ELSE IF Runs(t) THEN "running" ELSE "waiting"
Call == [t \in Callers |-> CallOf(t)]

\* The permits, the window, the queue and the dispatcher together admit calls as if
\* in one step: a call runs once, with budget reserved, a permit and a slot, and is
\* refused only when QueueMaxSize others wait.
Admission ==
  INSTANCE Admission
    WITH call <- Call, used <- tracked, log <- grants, closed <- shutdown
CallsAdmitted == Admission!Spec

\* The calls that never come back: those in the queue when the dispatcher has
\* left its loop, and those at or behind a task too large for the window.
Stranded(t) ==
  \/ At(Dispatcher, "exited") /\ InQueue(t)
  \/ dtask # NoTask /\ cost[dtask] > TokensPerMinute /\ (dtask = t \/ InQueue(t))

\* Every other call of execute comes back, queued or not: no permit, slot or
\* task is lost on the way, and a shutdown fails the task being dispatched.
EveryCallReturns ==
  \A t \in Callers : pc[t] = "acquire" ~> pc[t] = "idle" \/ Stranded(t)

\* requests_per_minute caps the requests sent to the API.
RequestsWithinRate == Len(wire) <= RequestsPerMinute
==============================================================================

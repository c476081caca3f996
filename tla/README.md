# A verification project for the debate system

The repository runs a scientific debate between two LLM agents. A *session*
(the caller's process) starts a *judge* process, which chooses a topic, starts
a *pro* and a *con* process, prompts them in turn, keeps the ledger of what they
say, and finally declares a winner. This directory holds TLA+ models of the
parts of that program whose behaviour depends on who acts when, the TLC runs
that check them, and proofs about them for every size of debate.

All source paths below are relative to `src/src/`, the Python packages, unless
they name a document of the repository.

## 1. Inventory

### The parts, their state and their operations

| Part | Source | State | Operations |
| --- | --- | --- | --- |
| Session loop | `debate_sdk/sdk/session.py` | `final_judgment`, `transcript_events`, the worker process | `run_debate_session`: start the worker, read events, join or terminate it, return or raise |
| Judge | `debate_sdk/services/judge_agent.py`, `judge_process_mixin.py`, `judge_routing_mixin.py`, `judge_decision_mixin.py` | `active_agent_id`, `current_round`, `ledger`, the child processes | choose a topic, spawn, `start_debate`, `handle_message`, `_route_next_turn`, `_backup_state`, `terminate_children`, `evaluate_debate`, `_handle_budget_failure` |
| Debaters | `base_agent.py`, `child_agent.py`, `pro_agent.py`, `con_agent.py` | `is_running` | event loop, `_execute_turn`, heartbeat thread |
| Watchdog | `debate_sdk/shared/watchdog.py`, `process_utils.py` | `registry`, `heartbeats`, its thread and manager process | `register_agent`, `heartbeat`, the check loop, `_on_timeout`, `stop` |
| API gatekeeper | `debate_sdk/shared/gatekeeper*.py` | budget, semaphore, window, overflow queue, dispatcher thread | `execute`, `try_acquire_slot`, `retry_after_seconds`, `run_with_retries`, `reset_instance` |
| LLM client | `groq_mixin.py` | none that matters | one HTTP request through the gatekeeper |
| History and checkpoints | `history.py`, `state_manager.py` | the ledger's entries, one file | `add_entry`, `save_state` |
| IPC contracts | `contracts.py` | none | validation |
| Recovery | `recovery.py` | a table of factories | `recover`; nothing calls it |
| Logging | `logger.py`, `logging_handler.py`, `sdk/logstream.py` | one stream and one line count per process and logger name | `emit`, `_rotate`, `follow_logs` |
| Configuration, web search, pricing, transcript, CLI | the rest | none, or the terminal | parsing, HTTP, formatting |

### How they interact

The session, the judge and the two debaters are four processes and share
nothing but queues: both debaters write the judge's *inbound* queue (arguments,
heartbeats, telemetry of their gatekeepers), the judge writes one queue of
*prompts* per debater, and the judge's *outbound* queue carries the topic, the
streamed arguments, telemetry and the judgment to the session. Each debater has
a heartbeat thread beside its event loop. The watchdog is a thread of the judge
that reads the time of the last *handled* message of each child and kills a
child that has been silent too long; the judge terminates the same children when
the debate is over. Every process has loggers with handlers of their own, and
those of the shared modules write the same files in all of them; a follower
thread of the CLI reads log files. The gatekeeper is a singleton of each
process; its dispatcher is a thread, and a caller and the dispatcher meet on the
semaphore, the window and the overflow queue. The `on_event` callback runs
inside the session loop.

### What is hard

* Messages of a child that arrive late, twice, or after the debate is over.
* A child that dies, freezes, or answers with nothing the judge can use.
* The judge dying with events still unsent, or terminated by the session while
  its children run.
* Closing: children still send while they are killed and while the judge
  evaluates; the judge's loop outlives the watchdog it reports to.
* The watchdog acting on the judge's view of a child, not on the child.
* Two threads of the judge that terminate the same process: what one of them has
  waited for no longer exists for the other.
* Answers of the judge's model in any shape, out of which one side must win.
* A rotation of log files that is interrupted, or seen half done by the follower;
  processes that share a file and not its line count.
* In the gatekeeper: a check and its effect in separate steps, shutdown in the
  middle of a hand-over, retries behind the window's back.

`PROJECT.json` lists each hazard at its line with the properties that cover it,
or why none does yet.

### What makes each part correct

* *Judge and debaters*: the ledger alternates, each turn carries its round, one
  turn is outstanding and it answers the present history, ENDING is the last
  prompt, a checkpoint is a prefix of the ledger.
* *Closing*: one judgment, after every child is dead, and nothing after it; no
  child survives the call.
* *Session*: what the caller sees is a prefix of a debate followed by the
  verdict, and the call ends.
* *Watchdog*: a frozen child is killed although its sibling lives, and no other;
  terminating the children from two threads leaves none and ends.
* *Judgment*: the first clear answer decides, neither side is favoured, there is
  no tie, and what is read of a justification is in the judgment.
* *Gatekeeper*: permits, budget and tasks are conserved, the rates hold over
  every window, the retry time is exact, every call returns.
* *Logging*: the files hold the latest lines in order, none has too many, a
  rotation loses no more than the oldest file, the follower shows each line once.

## 2. The modules

| Module | What it is |
| --- | --- |
| `DebateTurns` | the vocabulary: agents, turns, `TurnAfter(n)`, `Alternating` |
| `DebateProtocol` | the abstract specification: what the caller of `run_debate_session` is promised, without processes or queues |
| `DebateEnd` | the abstract specification of a debate's end: watched, closed, judged, in this order and once |
| `Debate` | session, judge, debaters and watchdog together |
| `DebateProps` | invariants, action and liveness properties of `Debate`, the refinements of `DebateProtocol` and `DebateEnd`, and what the documents claim |
| `Debate_proofs`, `DebateClosing_proofs`, `DebateProtocol_proofs` | theorems about `Debate`: turn taking; its end, its checkpoint, and that it implements `DebateEnd`; that it implements `DebateProtocol`. Each extends the one before |
| `MCDebate` | the sets of faults of the runs |
| `Admission` | the abstract specification of the gatekeeper: calls that are admitted one by one |
| `Gatekeeper` | the gatekeeper of one process |
| `GatekeeperProps`, `MCGatekeeper` | its properties, the refinement of `Admission`, and its instance for TLC |
| `Gatekeeper_proofs` | theorems about `Gatekeeper` |
| `JudgeLoops` | the abstract specification of the judge's two conversations with its model: so many attempts, and what may come of them |
| `Judgment` | the same with the answers: topic, validation, evaluation, verdict |
| `JudgmentProps`, `MCJudgment` | its properties, the refinement of `JudgeLoops`, and the answers TLC tries |
| `Judgment_proofs` | theorems about `Judgment` |
| `Logs`, `LogsProps` | the handlers of one logger and the follower, and their properties |
| `Logs_proofs` | theorems about `Logs` |
| `Supervision`, `SupervisionProps` | the judge and its watchdog terminating the children call by call, their properties, and the refinement of `DebateEnd` |
| `Supervision_proofs` | theorems about `Supervision` |
| `NatLemmas` | lemmas that several proofs use: least elements, induction, sums over finite sets |

`Judgment` and `Supervision` open up steps that are single in `Debate`.
`Judgment` is its topic choice and its evaluation; `JudgeLoops` states what
`Debate` takes for granted of them (`TopicAttemptFails`, `TopicChosen`,
`EvaluationFails`, `DeclareWinner`). `Supervision` is its `SpawnChildren`,
`TerminateChild`, `StopWatchdog` and `ReapSilent`; that both implement
`DebateEnd` ties the single steps to the calls they stand for.

### Debate and the code

`jpc` is where the judge's main thread is: the constructor's topic choice
(`topic`), `spawn_children`, `start_debate`, the event loop (`loop`),
`terminate_children` (`closing`), `evaluate_debate` (`judging`), `exited`.
`then` is where `closing` returns to, since three callers use it. `active`,
`round`, `ledger` are `active_agent_id`, `current_round` and the entries of
`HistoryLedger` without their text; `saved` is the checkpoint file. `child[a]`
is the process of debater `a`: waiting for a prompt (`idle`), in the LLM call
(`thinking`), with a raw reply in hand (`replied`), frozen, or dead. `turn[a]`
is the prompt it works on: the length of its history, from which the child
computes its round, and whether it is ENDING. `silence[a]` is the time since
`Watchdog.heartbeat` was last called for `a`, in ticks.

Each action is a step of one thread between two waits. `HandleArgument` is all
of `handle_message` for the active agent's argument: stream, enter, checkpoint,
route. When routing ends the debate, `terminate_children` and `evaluate_debate`
follow as steps of their own, because the children, the watchdog and the session
run meanwhile. What can go wrong is a member of `Faults`, so a run states
exactly which faults it allows; `FaultKinds` says what each stands for.
Duplicated arguments (`repeat`) are those of a debater class that sends twice:
`run_debate_session` takes `pro_cls` and `con_cls` from its caller, and the
queues themselves neither lose nor duplicate. `judge_budget` likewise needs a
judge class whose handler raises, which the repository's own
`tests/integration/test_orchestration_flow.py` has: the judge's LLM calls are
made inside loops that catch every exception.

Definitions called *a faulty form* are the plausible bugs the project is tested
with: each property has one that breaks it when it replaces the definition that
follows it. They are used nowhere else.

### Gatekeeper and the code

`pc[t]` is where thread `t` is in `execute` or `_dispatch_loop`. The semaphore
and the window are taken in separate steps, as in `try_acquire_slot`; the steps
under `_rate_lock` and `_budget_lock` are atomic. A task is named by its
caller. Time is the age of the window's entries, so that no clock grows.
`_timestamps` and `_token_timestamps` are one sequence: every cost is positive
(the only caller passes 2000), so they always have the same entries. `Younger` is
the loop of the two prune methods: it stops at the first entry that is young
enough and looks at none behind it, so `Pruned` forgets exactly the old entries
only because the window is in order, which is part of what is proved. `grants`,
`wire` and `spent` are history variables of the properties. A call whose cost is
above `tokens_per_minute` may be made: it is refused for ever, and when it has
been queued it holds the dispatcher and all behind it.

`Admission` is the gatekeeper without its machinery. Its calls are idle, waiting,
running or answered, and one step, `Admit`, stands for everything between the
attempt at a permit and the slot in the window. A call is running from the step
`Grant` to the step `Record` of whichever thread has its task, so the permit taken
before and given back after either is not seen.

### Judgment and the code

`phase` follows the judge through `_decide_topic` (`topic`, and `validate` while
it asks the model about its own candidate), the debate, and `evaluate_debate`
(`judging`). An answer is a record of what the code looks for in a text: the
words a topic begins with; which of `pro` and `con` are in the winner field,
beside the side it *names* to a reader; which sides the justification mentions;
and the justification. That is a list, a text (each line is an item), or anything
else, of which the code reads nothing (`RawItems`). An item is a text with or
without a colon, or an object with a point and the fields `evidence`, `text` and
`reason`: the first that is not empty is its evidence, so one of white space
hides those behind it (`Evidence`). The items keep their raw numbers, from which
missing points get their names; `Reasons` is the code's loop over them, as a
recursive function of how many are done. `cut`
says that the budget halted the debate, and `fallback` is what the hash of the
history picks: either side, once for a debate.

### Logs and the code

The disk is `path` (which file a name leads to) and `data` (the lines of a
file), because an open stream stays on its file when that is renamed. `index`,
`count` and `mode`/`file`/`pos` are the fields of each process's handler. A
rotation is a step for every call to the file system. A process that was forked
(the default of Linux, for callers of the SDK) shares the position of the parent's
stream (`Inheritance`); one that was spawned, as the CLI forces, has its own. A position of the follower is a length in characters in the
code and a number of lines here: lines have one length. It reads the files of a
pass in the order of their numbers, whatever else happens, so `todo` is a set and
the next file its least member.

### Supervision and the code

`jpc` and `dpc` are where the judge and the watchdog thread are, `tree[t]` where
thread `t` is inside `terminate_process_tree`. A child process is running,
frozen (`stalled`; `stuck` when SIGKILL does not help either), a `zombie`, or
`gone` once somebody has waited for it; psutil raises `NoSuchProcess` only for
the last. `age` is the time since the child's entry in `heartbeats` was
written, an absent entry being as old as can be. `path` says why the judge
terminates the children, which decides what an exception does: in the handler of
the last argument (`concluded`) it ends the event loop and `terminate_children`
is called once more by `_judge_worker`; after a budget stop (`truncated`) or in
that second call (`ending`) it ends the process, whose exit function shuts the
manager down, sends SIGTERM to the children and joins them. `todo` is the
watchdog's copy of its registry, in one of the `Orders` of registration.

`DebateEnd` knows of all this only a `stage`, the children that can still be
killed, and whether the watchdog looks after them. `Stage` in `SupervisionProps`
reads the stage off `jpc`, `path` and `verdict`, `Stage` in `DebateProps` off
`jpc`, `then` and `dog`. A stage is "closing" from the handled argument or the
budget stop that ends the debate until `terminate_children` has returned, and
"over" when the judge has given up the debate, which it may do anywhere:
`DebateEnd` promises that a judgment, if one is made, is in its place, not that
there is one (`Supervision_verdict` shows a debate without one).

## 3. The runs

Faults are in `MCDebate`; `MaxRounds` is 1 or 2, `Attempts` 2 (3 in the code),
`Timeout` 1, `MaxBeats` 1 in all runs of `Debate`.

| Run | Checks | Shows |
| --- | --- | --- |
| `Debate_turns` | `TurnInv`, `LedgerAlternates`, `SingleTurn`, `EndingIsLast`, `CheckpointConsistent`, `ProtocolSafety` | turn taking survives repeated, dropped, rejected and failed replies, failing checkpoints, a budget stop, and a judge killed anywhere; and the caller sees a behaviour of `DebateProtocol` |
| `Debate_shutdown` | `TypeOK`, `VerdictClosesDebate`, `NoOrphans`, `JudgmentIsLastWord` | however children crash, freeze or are reaped (rightly or wrongly) while the judge closes, a verdict finds them dead, and is alone and last |
| `Debate_live` | `SessionEnds`, `ProtocolLive`, `StalledReaped` | unless a turn is lost for good, the session makes the progress of `DebateProtocol` and the call ends, whatever befalls the judge and the handler; a frozen child is killed while its sibling beats |
| `Gatekeeper` | `TypeOK`, `SlotsConserved`, `PaidBeforeGranted`, `GrantsWithinRates`, `OnePlace`, `RetryAfterExact`, `RequestsBounded`, `CallsAdmitted`, `EveryCallReturns` | the accounts of the gatekeeper balance under every interleaving, with a shutdown at any time; it implements `Admission`; and every call returns, but those stranded at or behind an oversize call, or in the queue of a gatekeeper that was shut down |
| `Judgment` | `TypeOK`, `SidesAlike`, `FirstClearAnswer`, `NeverTied`, `ReasonsKept`, `LoopsEnd` | out of any answers the verdict is the one the first clear answer gives, and the loops implement `JudgeLoops` with its fairness |
| `Logs` | `TypeOK`, `FirstInFirstOut`, `FilesBounded`, `Retained`, `FollowedInOrder`, `FollowedToTheEnd` | the log is first in, first out at every step of a rotation, through a crash, an error or a closed handler in it; the follower shows every line once up to the first purge |
| `Supervision` | `TypeOK`, `ClosedMeansGone`, `OnlySilentTerminated`, `EndsInOrder`, `StalledReaped`, `ClosingEnds` | the watchdog terminates silent children only, the calls implement `DebateEnd`, and no interleaving of it with the judge's closing leaves a child or a closing that does not end |

Five runs show where a document and the code part ways; each is a finding in
`PROJECT.json`, with the line of the document and of the code:

| Run | Property | What TLC finds |
| --- | --- | --- |
| `Debate_failed` | `FailureHandled` | a child's failed LLM call ends the child, and its turn is lost for ever; a reply without text (`drop`) and a child's budget stop (`budget`) do the same to the judge |
| `Gatekeeper_retries` | `RequestsWithinRate` | retries exceed the cap on requests; `RequestsBounded` says by how much |
| `Judgment_words` | `NobodyStaysNobody` | "inconclusive" is a win for Con |
| `Logs_shared` | `FilesBounded` | two processes that share a file each fill it to its limit, here spawned ones; with `Inherited = TRUE` TLC finds the same of forked ones |
| `Supervision_verdict` | `WinnerDeclared` | when the watchdog waits for a frozen child between two calls of the judge's closing, the debate ends without a verdict |

Three more divergences need no run to be seen. A reply that is JSON of the wrong
shape brings the child down (`docs/TODO.md:247` says it does not): it is the
fault `reject` of `Debate`. A new call of the gatekeeper competes with its queue,
which is therefore not the queue of `docs/PRD.md:104`. And a shutdown fails the
task the dispatcher holds but not those behind it, which `Stranded` in
`GatekeeperProps` allows for.

### Bounds

Two rounds have a first turn, a hand-over inside a round, one between rounds,
and the last turn; a third round repeats the second. The liveness and the
process-fault runs use one round, because what they are about happens within a
turn or at the end. `MaxBeats` bounds the heartbeats of one child that wait on
the judge's queue: more of them only repeat the step `HandleHeartbeat`. One
waiting beat is enough for a beat to stand before or behind an argument and to
be left over after the verdict. `Attempts` of 2 has a first and a last failure.
In the gatekeeper two callers and the dispatcher give every race for a permit, a
window of two ticks has an entry that is about to leave and one that is not,
costs of two and four tokens at a rate of six make the token and the request
limit bind separately, a cost of seven fits never, and a queue of one slot can be
full. `MaxBudget` also bounds the number of calls, so `EveryCallReturns` does not say
what becomes of a call in the queue that new calls overtake for ever.

`Judgment` keeps the three attempts of the code. The topic's answers are all of
their kind; an evaluation varies one field at a time, but for the winner field
and the sides a justification mentions, which are read together; justifications are
every object and every text, lists of two items, texts of lines, and an object. `Logs` has three files of two
lines, the least with a file between the newest and the oldest and a line that
does not fill its file; nine lines rotate, purge, and purge again (`MaxWritten`),
and one crash or error (`MaxCuts`) may come at each step. `Supervision` lets one
child fail by itself (`MaxFaults`), at any step of either thread. One is a real
restriction: when *both* children are frozen and closing raises after a budget
stop, the judge waits for ever in its exit function. With `MaxFaults = 2` TLC
finds `ClosingEnds` and `StalledReaped` of `Supervision` violated in this way;
`PROJECT.json` has it as a hazard. Another is that heartbeats of running children
are always handled in time there: a judge too busy for that, whose watchdog kills
healthy children, is the fault `late` of `Debate`.

`CHECK_DEADLOCK FALSE` appears in the runs of `Gatekeeper`, `Logs` and
`Supervision`: a gatekeeper whose budget is used up and whose dispatcher has
exited, a log with `MaxWritten` lines, and a judge that has exited or idles after
its verdict have nothing left to do. `Debate` and `Judgment` end in explicit
steps, `Over` and `Settled`, and any other deadlock is an error.

### Fairness

`Debate!FairSpec` assumes that the judge, each debater, each heartbeat thread,
the watchdog and the session take a step when they can: the operating system
schedules them, every read of a queue has a timeout and is retried, and every
LLM request ends because the HTTP client has a timeout. It does not assume that
any fault happens, or that an attempt which may fail ever succeeds, beyond the
bounded number of attempts in the code. `Tick` lets time pass only so far as a
healthy child's beats are handled within the timeout, unless the fault `late` is
allowed: 90 seconds against beats every 2.
`Gatekeeper!FairSpec` assumes the same of callers inside a call, the dispatcher
and time; nobody is assumed to call. `Judgment!FairSpec` assumes that requests are
answered or fail. `Logs!FairSpec` assumes that a handler finishes a line it has
begun and that the follower goes on, not that anybody logs.
`Supervision!FairSpec` assumes the two threads and the heartbeat threads are
scheduled and time passes, but so that the heartbeats of a running child are
handled before they expire: closing takes seconds, the timeout is 90.

## 4. What is proved

A run checks a small instance; the theorems below hold for every value of the
constants that the named assumptions allow. TLC evaluates those assumptions in
the runs.

### The debate

`Debate_proofs`, `DebateClosing_proofs` and `DebateProtocol_proofs` assume that
`MaxRounds`, `Attempts`, `Timeout` and `MaxBeats` are positive natural numbers
(`BoundsAssumption`) and nothing but the names of the faults
(`FaultsAssumption`): any set of faults may happen.

| Theorem | Statement |
| --- | --- |
| `DebateTypes` | `Spec => []TypeOK` |
| `DebateTurnTaking` | `Spec => []TurnInv` |
| `LedgerInOrder` | `Spec => []LedgerAlternates` |
| `OneTurnAtATime` | `Spec => []SingleTurn` |
| `EndingInPlace` | `Spec => []EndingIsLast` |
| `CheckpointIsPrefix` | `Spec => []CheckpointConsistent` |
| `DebateClosing` | `Spec => []ClosingInv` |
| `VerdictIsLast` | `Spec => []VerdictClosesDebate` |
| `NothingAfterJudgment` | `Spec => JudgmentIsLastWord`, an action property |
| `NoChildLeftBehind` | `Spec => []NoOrphans`, if `judge_kill` and `handler` are not among the faults |
| `DebateEndsInOrder` | `Spec => EndsInOrder`: every behaviour of `Debate` is one of `DebateEnd` |
| `DebateStreams` | `Spec => []StreamInv` |
| `SessionImplementsProtocol` | `Spec => ProtocolSafety`: every behaviour of `Debate` is one of `DebateProtocol` |

`LedgerAlternates` is not inductive: that the next argument of the active agent
carries the right round depends on the prompt it answers, which may still be on
the child's queue, in the child's hands, or already an argument behind others on
the judge's queue. `TurnInv` says that the wanted turn is in exactly one of
these places, that every repeated argument of the active agent on the queue
carries the same round, and that no argument of the other agent is behind one of
them; the last is why, when the turn passes, nothing on the queue can be
mistaken for the new agent's answer. Steps that touch none of this are
dispatched by three lemmas (`KeepQueue`, `ShortenQueue`, `LengthenQueue`); the
steps that move the wanted turn have lemmas of their own (`StartDebateStep`,
`TakePromptStep`, `EmitStep`, `HandleArgumentStep`, `BudgetFailureStep`).

That a verdict is final follows from `ClosingInv`: whoever closes the debate has
first made `active` nobody, so no argument that is handled later can start a
second closing; the judge judges only behind a stopped watchdog and dead
children; and the judgment is either still on the outbound queue or with the
session. `VerdictClosesDebate` alone says nothing of the judge about to send one.
`NoOrphans` is the one theorem with an assumption on the faults, and it needs it:
a judge that is killed, or terminated when the session's handler raises, leaves
its children behind (a hazard of `PROJECT.json`). `DebateEndsInOrder` needs
`WatchInv` besides: a debate that is still open has a running watchdog, so it
is closed under the watchdog's eyes; once it is closed `ClosingInv` has the rest.
No run repeats this theorem: the run `Supervision` checks its counterpart, in
which the same end takes many more steps.

The refinement maps `turns` to what the caller was shown, and a call that is
polling or joining to one that is running. What it needs is where the events on
the outbound queue stand with respect to the transcript: `StreamInv` says that
the `i`-th event, if it is an argument, is the turn after those shown and those
before it on the queue, that a final judgment is behind a whole debate, and that
the judge has streamed all of its ledger while it lives. It holds only while the
session listens, and whether a judgment comes behind a whole debate was decided
when the debate closed (`Complete`).

### The judgment

`Judgment_proofs` proves, for every number of `Attempts` (`AttemptsAssumption`)
and every set of answers of the form the code reads (`RepliesAssumption`: any
subset of the topics and validations, and evaluations with any sides in any
field, any integer score in tenths, and a justification of any form with any number of
items):

| Theorem | Statement |
| --- | --- |
| `FirstAnswerDecides` | `Spec => []FirstClearAnswer` |
| `NeitherSideFavoured` | `Spec => []SidesAlike` |
| `NoTie` | `Spec => []NeverTied` |
| `JudgmentTypes` | `Spec => []TypeOK` |
| `ReasonsAreKept` | `Spec => []ReasonsKept` |
| `LoopsImplemented` | `Spec => Loops!Spec`, the refinement of `JudgeLoops` without its fairness |

`FirstClearAnswer` speaks of the verdict only; what makes it inductive is
`LoopInv`: while the judge judges, its failed attempts are the answers it has
heard and none of them was clear, and before that none was heard and an attempt
is left. `WinnerIsClear` ties the winner the code computes to what an answer
says, from the four sets of sides a field can hold (`SidesOfField`).
`ReasonsKept` says that what is read of a justification is in the judgment once,
in order, with the item it belongs to, and nothing else is; what the code does not
read is lost, as the property names it. It is about a loop over a list of any
length: `Account` says what the reasons after the first `m` items are,
`SetInduction` carries it over them, and `AccountIsFaithful` concludes; that
`Evidence` picks the field the property means is `EvidenceSaid`.

### The supervision

`Supervision_proofs` holds for every `Timeout` above 0, every number of faults
and every set of them (`SupervisionAssumption`, `SupervisionFaults`).

| Theorem | Statement |
| --- | --- |
| `SupervisionTypes` | `Spec => []TypeOK` |
| `Supervised` | `Spec => []SupervisionInv` |
| `ChildrenGone` | `Spec => []ClosedMeansGone` |
| `WatchdogSparesTheLiving` | `Spec => OnlySilentTerminated`, an action property |
| `SupervisionEndsInOrder` | `Spec => EndsInOrder`: every behaviour of `Supervision` is one of `DebateEnd` |

`ClosedInv` follows the judge from child to child: those it is through with are
gone, or nothing can kill them, and what `terminate_process_tree` returns is the
truth about the one it is at. `FreshInv` says that a running child has been heard
in time from its registration on, so nothing the watchdog has found silent runs;
`ReapedInv` that a child it has waited for is no longer on its list.

The refinement must show that a debate is never closed unwatched, though the
watchdog's thread dies of `NoSuchProcess` when the judge has reaped a child it is
about to kill. `WatchInv` says why: as long as nobody terminates the children,
the watchdog is the only one that waits for them, so nothing takes one from under
it, and its thread runs from `Watchdog.start` on. `PathInv` says which reasons
for terminating the children the judge can have at each place, and that it has a
verdict only after one, so that no second closing leads back to a judgment.
A step of the judge that raises leads out of the debate or, from
`terminate_children`, to "over"; what nothing can kill (`stuck`) is not counted
among the living, as in `ClosedMeansGone`.

### The gatekeeper

`Gatekeeper_proofs` holds for every finite set of callers, every window, rate,
permit count, queue size and budget, and any set of positive costs, above the
token rate or not (`LimitsAssumption`, `DispatcherAssumption`,
`NoTaskAssumption`); with and without shutdown and transient failures.

| Theorem | Statement |
| --- | --- |
| `Gatekeeping` | `Spec => []GateInv` |
| `GatekeeperTypes` | `Spec => []TypeOK` |
| `NoSlotLeaks` | `Spec => []SlotsConserved` |
| `TaskInOnePlace` | `Spec => []OnePlace` |
| `RatesHold` | `Spec => []GrantsWithinRates` |
| `RetryExact` | `Spec => []RetryAfterExact` |
| `NothingUnpaid` | `Spec => []PaidBeforeGranted` |
| `RetriesBounded` | `Spec => []RequestsBounded` |
| `AdmissionImplemented` | `Spec => CallsAdmitted`: every behaviour of `Gatekeeper` is one of `Admission` |

`GateInv` holds what none of these properties says: which thread has which task
(`DispatchInv`, `QueueInv`, `CallsInv`), and that the window is in order of age,
so that pruning it leaves exactly the slots granted in the last window
(`AgesInv`). A permit is counted by the set of its holders: each step that moves a
thread in or out of it moves one permit. `RatesHold` and `RetryExact` compare sums
of costs over the entries of a window with those of its younger part, and
`NothingUnpaid` sums costs over the calls that wait for a slot; `NatLemmas` proves
of `SumFunctionOnSet` what they use: the sum is the same however it is added up,
one element can be taken out, subsets have smaller sums.

`RequestsBounded` says that the requests of one window are at most those which the
calls granted in it, and the calls running when it began, may send. Which call a
request on `wire` belongs to is not in the state, nor who was running a window ago,
so `RequestsInv` says that the state is the outcome of *some* story: `n` calls with
the times since they were granted, `m` requests with the times since they were sent
and the call each belongs to, and the present call of every running thread.
`WindowsTold` ties the story to `grants` and `wire`, `CallsTold` to `attempt`, and
`BoundariesTold` says that at no past moment more than `ConcurrentMax` calls had been
granted and were still to send a request or to end. A call granted, a request and a
tick each add a line to the story or make it older (`StoryGrant`, `StoryRequest`,
`StoryTick`); the bound is then a count of the requests by their calls (`Fibers` in
`NatLemmas`).

For `AdmissionImplemented` every step is `Reserve`, `Grant`, `Record`, a failure,
`Return`, a refusal, `ShutDown`, a tick, or leaves each call where it stands. What has
to be shown is what `Admission` demands of these steps and `Gatekeeper` does not say:
that fewer than `ConcurrentMax` *calls* run when a thread with a permit is granted a
slot, that only the tokens of the last window count against the rate, that a full
queue is made of calls that wait, no call twice, and that no other thread runs the
call of a caller that moves.

### The logs

`Logs_proofs` assumes at least one file of at least one line and a finite set of
processes (`LogsAssumption`, `InheritanceAssumption`), with any number of crashes
and errors.

| Theorem | Statement |
| --- | --- |
| `Logging` | `Spec => []LogInv` |
| `LogTypesHold` | `Spec => []TypeOK` |
| `OneProcess` | `Spec => []One(w)`, if `w` is the only process |
| `NoFileTooLong` | `Spec => []FilesBounded`, if `w` is the only process |
| `LogIsFirstInFirstOut` | `Spec => []FirstInFirstOut`, if `w` is the only process |
| `FollowerKeepsUp` | `Spec => []FollowedInOrder`, if `w` is the only process |
| `LogRetains` | `Spec => []Retained`, if `w` is the only process |

The first two hold for any number of processes that share the log. The others are
about a logger whose files one process writes, as those of the judge and of each
debater, with a stream it opened itself (`Writers = {w}`, `Inherited = FALSE`): for
two processes the run `Logs_shared` shows that `FilesBounded` fails.
`One(w)` says that the texts of the files are consecutive stretches of the lines
written (`Numbered` by their ends), that no file is beyond the handler's, and that
an open stream is at the end of the newest file with the lines the handler has
counted. `FollowedInOrder` needs in `KeepsUp` how far the follower is in *each*
file: as far as the lines it has shown reach into that file's stretch. `Retained`
counts files that are not full: `Room` says that at most one for each crash or
error is below any file, and one more where a rotation has made room; the lines
retained are those of the full ones.

### Model-checked only

* Every liveness property (`SessionEnds`, `ProtocolLive`, both `StalledReaped`,
  `EveryCallReturns`, `LoopsEnd`, `FollowedToTheEnd`, `ClosingEnds`): fairness and
  ENABLED are out of the proof system's reach.

Every invariant and action property of a passing run is the statement of a
theorem. Induction over naturals, lists and finite sets is done in the form of a
set that contains 0 and is closed under successor (`SetInduction` in `NatLemmas`);
the library's induction theorems, which take an operator, cannot be used.

## 5. What is not modelled

* The text of topics, prompts, arguments and judgments, and the artifacts
  written after the verdict.
* Messages that fit no contract, which `_validate_payload` drops: the program's own
  processes send none.
* The judge's own heartbeats and telemetry on the outbound queue: the session
  takes no decision on them.
* Killing a process inside a queue operation, which can leave a queue unusable,
  and pids that are used again.
* `unregister_agent`, `is_process_alive` and the watchdog's recovery callback:
  nothing in `src/` calls or sets them outside of tests. `Recovery` likewise (the
  repository's README says so).
* Usage totals of the gatekeeper, and the length of the sleep between its retries.
* Names of log files beyond their numbers: that the follower's pattern matches no
  logger of the program is a hazard of `PROJECT.json`, and `Logs` lets it follow
  the files it is meant to.
* `load_state`, `clear_state` and `load_from_list`: nothing calls them. Two
  sessions of one id share a temporary file, but ids are random unless a caller
  chooses them.
* Configuration, web search, pricing, transcript and CLI: pure functions, HTTP
  and terminal input and output.

## 6. Plan

Done: `DebateTurns`, `DebateProtocol`, `DebateEnd`, `Debate` with its properties
and proofs, `Admission` and `Gatekeeper`, `JudgeLoops` and `Judgment`, `Logs`,
`Supervision`, each with its properties and its proofs, the refinements of the
four abstract specifications among them.

Left: what of `Logs` remains true when several processes share its files, and
`Recovery`, should a later version of the program use it.

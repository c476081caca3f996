------------------------------- MODULE Debate --------------------------------
(***************************************************************************)
(* One debate session: the session loop of the caller (sdk/session.py), the *)
(* judge process (services/judge_agent.py and its mixins), the two debater *)
(* processes (services/child_agent.py on services/base_agent.py), and the  *)
(* watchdog thread inside the judge (shared/watchdog.py).  They meet on    *)
(* four queues: the judge's inbound queue, which both children write; one  *)
(* inbound queue per child; and the judge's outbound queue, which the      *)
(* session reads.                                                          *)
(*                                                                         *)
(* The judge's own heartbeats and the telemetry of its own LLM calls on the *)
(* outbound queue are left out: the session loop takes no decision on them. *)
(* terminate_process_tree is one step that always succeeds.                *)
(***************************************************************************)
EXTENDS DebateTurns, FiniteSets

CONSTANTS
  MaxRounds,  \* rounds of the debate, at least 1 after build_session_config
  Attempts,   \* tries of one topic choice and of one evaluation (range(3))
  Timeout,    \* ticks of silence the watchdog tolerates
  MaxBeats,   \* bound: heartbeats of one child waiting on the inbound queue
  Faults      \* the faults that may happen, a subset of FaultKinds

FaultKinds ==
  { "drop",         \* a child's reply is not JSON or has no text: nothing is sent
    "reject",       \* a child's reply is JSON of the wrong shape
    "error",        \* a child's LLM call fails after its retries
    "budget",       \* a child's gatekeeper raises BudgetExceededException
    "repeat",       \* a debater class that sends its argument twice
    "crash",        \* a child process is killed from outside
    "stall",        \* a child process freezes, its heartbeat thread included
    "late",         \* the judge may take a heartbeat off its queue too late
    "topic",        \* an attempt to choose a topic fails
    "misjudge",     \* an attempt to evaluate the debate fails
    "judge_budget", \* the judge's message handler raises BudgetExceededException
    "judge_kill",   \* the judge process is killed from outside
    "disk",         \* a checkpoint cannot be written
    "handler" }     \* the caller's on_event raises

ASSUME BoundsAssumption ==
  /\ MaxRounds \in Nat \ {0}
  /\ Attempts \in Nat \ {0}
  /\ Timeout \in Nat \ {0}
  /\ MaxBeats \in Nat \ {0}
ASSUME FaultsAssumption == Faults \subseteq FaultKinds

VARIABLES
  jpc,        \* where the judge process is
  then,       \* where it goes once terminate_children is done
  tries,      \* failed attempts of the LLM loop it is in
  truncated,  \* the judgment being made is a RESOURCE_TRUNCATION
  active,     \* active_agent_id
  round,      \* current_round
  ledger,     \* the turns of the history ledger
  saved,      \* the checkpoint on disk
  registry,   \* the children the watchdog watches
  silence,    \* ticks since the judge handled a message of each child
  dog,        \* the watchdog thread
  inbound,    \* the judge's inbound queue
  prompts,    \* the inbound queue of each child
  outbound,   \* the judge's outbound queue
  child,      \* the state of each child process
  turn,       \* the prompt each child took last
  outcome,    \* where the session loop is
  transcript, \* transcript_events
  verdict     \* final_judgment, as the session received it

judgeVars == <<jpc, then, tries, truncated>>
debateVars == <<active, round, ledger, saved>>
watchVars == <<registry, silence, dog>>
childVars == <<child, turn>>
queueVars == <<inbound, prompts, outbound>>
sessionVars == <<outcome, transcript, verdict>>
vars == <<judgeVars, debateVars, watchVars, childVars, queueVars, sessionVars>>

NoAgent == "none"
Prompts == [hist : Nat, ending : BOOLEAN]
LiveStates == {"idle", "thinking", "replied", "stalled"}
Messages == [kind : {"heartbeat", "telemetry", "argument"}, agent : Agents, round : Nat]
Judgments == {"final", "truncated"}
Events == [kind : {"telemetry", "argument"}, agent : Agents, round : Nat]
            \cup [kind : {"topic"} \cup Judgments, agent : {NoAgent}, round : {0}]

Message(kind, a, r) == [kind |-> kind, agent |-> a, round |-> r]
Beats(a) == {i \in 1 .. Len(inbound) : inbound[i] = Message("heartbeat", a, 0)}
Alive(a) == child[a] \in LiveStates
Healthy(a) == Alive(a) /\ child[a] # "stalled"

\* The types of the variables: every queue holds messages of its own kind
\* and every control variable one of its states.
TypeOK ==
  /\ jpc \in {"topic", "spawn", "start", "loop", "closing", "judging", "exited"}
  /\ then \in {"judging", "exited"}
  /\ tries \in 0 .. Attempts
  /\ truncated \in BOOLEAN
  /\ active \in Agents \cup {NoAgent}
  /\ round \in 0 .. MaxRounds
  /\ ledger \in Seq(Turns)
  /\ saved \in [ledger : Seq(Turns), round : Nat]
  /\ registry \subseteq Agents
  /\ silence \in [Agents -> 0 .. (Timeout + 1)]
  /\ dog \in {"off", "on", "stopped"}
  /\ inbound \in Seq(Messages)
  /\ prompts \in [Agents -> Seq(Prompts)]
  /\ outbound \in Seq(Events)
  /\ child \in [Agents -> LiveStates \cup {"unborn", "dead"}]
  /\ turn \in [Agents -> Prompts]
  /\ outcome \in {"polling", "joining", "returned", "raised"}
  /\ transcript \in Seq(Turns)
  /\ verdict \in Judgments \cup {"none"}

Init ==
  /\ jpc = "topic" /\ then = "exited" /\ tries = 0 /\ truncated = FALSE
  /\ active = NoAgent /\ round = 0 /\ ledger = <<>>
  /\ saved = [ledger |-> <<>>, round |-> 0]
  /\ registry = {} /\ silence = [a \in Agents |-> 0] /\ dog = "off"
  /\ inbound = <<>> /\ prompts = [a \in Agents |-> <<>>] /\ outbound = <<>>
  /\ child = [a \in Agents |-> "unborn"]
  /\ turn = [a \in Agents |-> [hist |-> 0, ending |-> FALSE]]
  /\ outcome = "polling" /\ transcript = <<>> /\ verdict = "none"

-------------------------------------------------------------------------------
(* The judge process. *)

\* _decide_topic, in the constructor: an attempt fails ...
TopicAttemptFails ==
  /\ jpc = "topic" /\ "topic" \in Faults /\ tries < Attempts
  /\ tries' = tries + 1
  /\ jpc' = IF tries' = Attempts THEN "exited" ELSE "topic"
  /\ UNCHANGED <<then, truncated, debateVars, watchVars, childVars, queueVars, sessionVars>>

\* ... or yields a topic.
TopicChosen ==
  /\ jpc = "topic"
  /\ jpc' = "spawn" /\ tries' = 0
  /\ UNCHANGED <<then, truncated, debateVars, watchVars, childVars, queueVars,
                 sessionVars>>

\* spawn_children: start both processes, register them, start the watchdog.
SpawnChildren ==
  /\ jpc = "spawn"
  /\ child' = [a \in Agents |-> "idle"]
  /\ registry' = Agents
  /\ silence' = [a \in Agents |-> 0]
  /\ dog' = "on"
  /\ jpc' = "start"
  /\ UNCHANGED <<then, tries, truncated, debateVars, turn, queueVars, sessionVars>>

\* A faulty form of the next definition: whose turn it is is forgotten.
IsLastAnyAgent(a, r) == r >= MaxRounds
IsLast(a, r) == r >= MaxRounds /\ a = Con

\* is_last: the prompt of agent a in round r is marked ENDING.
\* _send_turn_prompt in round r to agent a, whose history is the ledger led.
SendTurnPrompt(a, r, led) ==
  /\ active' = a
  /\ round' = r
  /\ prompts' = [prompts EXCEPT ![a] =
       Append(@, [hist |-> Len(led), ending |-> IsLast(a, r)])]

\* start_debate, after which the judge enters its event loop.
StartDebate ==
  /\ jpc = "start"
  /\ outbound' = Append(outbound, [kind |-> "topic", agent |-> NoAgent, round |-> 0])
  /\ SendTurnPrompt(Pro, 1, ledger)
  /\ jpc' = "loop"
  /\ UNCHANGED <<then, tries, truncated, ledger, saved, watchVars, childVars, inbound,
                 sessionVars>>

\* The judge takes a message of the given kind off its inbound queue. Validation
\* drops a message that fits no contract; every message of this program is made by
\* one, so none is dropped.
Received == Head(inbound)
Takes(kind) ==
  /\ jpc = "loop" /\ inbound # <<>>
  /\ Received.kind = kind
  /\ inbound' = Tail(inbound)

\* A faulty form of the next definition: one child vouches for both.
UpdateHeartbeatOfAll ==
  /\ dog # "stopped"
  /\ silence' = [a \in Agents |-> 0]
  /\ UNCHANGED <<registry, dog>>

\* _update_heartbeat, the first thing handle_message does: it raises once the
\* watchdog's manager process is shut down.
UpdateHeartbeat ==
  /\ dog # "stopped"
  /\ silence' = [silence EXCEPT ![Received.agent] = 0]
  /\ UNCHANGED <<registry, dog>>

HandleHeartbeat ==
  /\ Takes("heartbeat") /\ UpdateHeartbeat
  /\ UNCHANGED <<judgeVars, debateVars, childVars, prompts, outbound, sessionVars>>

HandleTelemetry ==
  /\ Takes("telemetry") /\ UpdateHeartbeat
  /\ outbound' = Append(outbound, Received)
  /\ UNCHANGED <<judgeVars, debateVars, childVars, prompts, sessionVars>>

\* A faulty form of the next definition: the check is missing.
InTurnAlways == TRUE
InTurn == Received.agent = active

\* A faulty form of the next definition: streamed before the check.
HandleOutOfTurnStreamed ==
  /\ Takes("argument") /\ UpdateHeartbeat
  /\ ~InTurn
  /\ outbound' = Append(outbound, Received)
  /\ UNCHANGED <<judgeVars, debateVars, childVars, prompts, sessionVars>>

\* An argument of an agent that is not the active one is ignored.
HandleOutOfTurn ==
  /\ Takes("argument") /\ UpdateHeartbeat
  /\ ~InTurn
  /\ UNCHANGED <<judgeVars, debateVars, childVars, prompts, outbound, sessionVars>>

\* A faulty form of the next definition: the checkpoint is taken too early.
BackupStateBeforeEntry ==
  \/ saved' = [ledger |-> ledger, round |-> round]
  \/ "disk" \in Faults /\ saved' = saved

\* _backup_state: a failed save leaves the previous file.
BackupState ==
  \/ saved' = [ledger |-> ledger', round |-> round]
  \/ "disk" \in Faults /\ saved' = saved

\* A faulty form of the next definition: the history is taken too early.
NextPromptBeforeEntry(led) ==
  \/ /\ active = Pro
     /\ SendTurnPrompt(Con, round, ledger)
  \/ /\ active = Con /\ round < MaxRounds
     /\ SendTurnPrompt(Pro, round + 1, ledger)

\* _route_next_turn when the debate goes on.
NextPrompt(led) ==
  \/ /\ active = Pro
     /\ SendTurnPrompt(Con, round, led)
  \/ /\ active = Con /\ round < MaxRounds
     /\ SendTurnPrompt(Pro, round + 1, led)

\* A faulty form of the next definition: the children are left running.
ConcludeWithoutClosing ==
  /\ active = Con /\ round >= MaxRounds
  /\ active' = NoAgent
  /\ jpc' = "judging" /\ tries' = 0
  /\ UNCHANGED <<then, truncated, round, prompts>>

\* A faulty form of the next definition: no evaluation.
ConcludeWithoutVerdict ==
  /\ active = Con /\ round >= MaxRounds
  /\ active' = NoAgent
  /\ UNCHANGED <<judgeVars, round, prompts>>

\* _route_next_turn after the last turn.
Conclude ==
  /\ active = Con /\ round >= MaxRounds
  /\ active' = NoAgent
  /\ jpc' = "closing" /\ then' = "judging" /\ tries' = 0
  /\ UNCHANGED <<truncated, round, prompts>>

\* The active agent's argument: stream it, enter it in the ledger, checkpoint,
\* and route.
HandleArgument ==
  /\ Takes("argument") /\ UpdateHeartbeat
  /\ InTurn
  /\ outbound' = Append(outbound, Received)
  /\ ledger' = Append(ledger, [agent |-> Received.agent, round |-> Received.round])
  /\ BackupState
  /\ \/ NextPrompt(ledger') /\ UNCHANGED judgeVars
     \/ Conclude
  /\ UNCHANGED <<childVars, sessionVars>>

\* A faulty form of the next definition: evaluates once more.
HandleAfterShutdownJudges ==
  /\ jpc = "loop" /\ inbound # <<>> /\ dog = "stopped"
  /\ inbound' = Tail(inbound)
  /\ jpc' = "closing" /\ then' = "judging"
  /\ UNCHANGED <<tries, truncated, debateVars, watchVars, childVars, prompts, outbound,
                 sessionVars>>

\* After the verdict the loop is still running, with the watchdog's manager
\* gone: the next message of a child raises, and the judge's loop ends.
HandleAfterShutdown ==
  /\ jpc = "loop" /\ inbound # <<>> /\ dog = "stopped"
  /\ inbound' = Tail(inbound)
  /\ jpc' = "closing" /\ then' = "exited"
  /\ UNCHANGED <<tries, truncated, debateVars, watchVars, childVars, prompts, outbound,
                 sessionVars>>

\* A faulty form of the next definition: the children are left running.
BudgetFailureWithoutClosing ==
  /\ "judge_budget" \in Faults
  /\ Takes("argument")
  /\ active # NoAgent
  /\ active' = NoAgent
  /\ jpc' = "judging" /\ tries' = 0 /\ truncated' = TRUE
  /\ UNCHANGED <<then, round, ledger, saved, watchVars, childVars, prompts, outbound,
                 sessionVars>>

\* The handler raises BudgetExceededException on an argument, and run falls
\* into _handle_budget_failure.
BudgetFailure ==
  /\ "judge_budget" \in Faults
  /\ Takes("argument")
  /\ active # NoAgent
  /\ active' = NoAgent
  /\ jpc' = "closing" /\ then' = "judging" /\ tries' = 0 /\ truncated' = TRUE
  /\ UNCHANGED <<round, ledger, saved, watchVars, childVars, prompts, outbound, sessionVars>>

\* terminate_children: Pro first, then Con, each only if it is alive ...
TerminateChild(a) ==
  /\ jpc = "closing" /\ Alive(a)
  /\ a = Con => ~Alive(Pro)
  /\ child' = [child EXCEPT ![a] = "dead"]
  /\ UNCHANGED <<judgeVars, debateVars, watchVars, turn, queueVars, sessionVars>>

\* ... and then watchdog.stop, which joins the thread.
StopWatchdog ==
  /\ jpc = "closing" /\ \A a \in Agents : ~Alive(a)
  /\ dog' = "stopped"
  /\ jpc' = then
  /\ UNCHANGED <<then, tries, truncated, debateVars, registry, silence, childVars, queueVars,
                 sessionVars>>

\* A faulty form of the next definition: the tries are not counted.
EvaluationFailsForEver ==
  /\ jpc = "judging" /\ "misjudge" \in Faults
  /\ tries' = tries + 1
  /\ UNCHANGED <<jpc, then, truncated, debateVars, watchVars, childVars, queueVars,
                 sessionVars>>

\* evaluate_debate: an attempt fails ...
EvaluationFails ==
  /\ jpc = "judging" /\ "misjudge" \in Faults /\ tries < Attempts
  /\ tries' = tries + 1
  /\ UNCHANGED <<jpc, then, truncated, debateVars, watchVars, childVars, queueVars,
                 sessionVars>>

\* ... or succeeds, or all have failed and the fallback winner is declared.
\* After a truncated judgment run returns and _judge_worker closes; after a
\* final one the loop goes on.
DeclareWinner ==
  /\ jpc = "judging"
  /\ outbound' = Append(outbound, [kind |-> IF truncated THEN "truncated" ELSE "final",
                                   agent |-> NoAgent, round |-> 0])
  /\ IF truncated THEN jpc' = "closing" /\ then' = "exited"
                  ELSE jpc' = "loop" /\ UNCHANGED then
  /\ tries' = 0
  /\ UNCHANGED <<truncated, debateVars, watchVars, childVars, inbound, prompts, sessionVars>>

\* The judge is killed from outside: its threads and what its queue had not
\* yet written are gone, its children live on.
JudgeKilled ==
  /\ "judge_kill" \in Faults /\ jpc # "exited"
  /\ jpc' = "exited"
  /\ dog' = "stopped"
  /\ \E n \in 0 .. Len(outbound) : outbound' = SubSeq(outbound, 1, n)
  /\ UNCHANGED <<then, tries, truncated, debateVars, registry, silence, childVars, inbound,
                 prompts, sessionVars>>

JudgeStep ==
  \/ TopicAttemptFails \/ TopicChosen \/ SpawnChildren \/ StartDebate
  \/ HandleHeartbeat \/ HandleTelemetry \/ HandleOutOfTurn \/ HandleArgument
  \/ HandleAfterShutdown \/ BudgetFailure
  \/ (\E a \in Agents : TerminateChild(a)) \/ StopWatchdog
  \/ EvaluationFails \/ DeclareWinner

-------------------------------------------------------------------------------
(* A child process. *)

\* The event loop takes a prompt.
TakePrompt(a) ==
  /\ child[a] = "idle" /\ prompts[a] # <<>>
  /\ child' = [child EXCEPT ![a] = "thinking"]
  /\ turn' = [turn EXCEPT ![a] = Head(prompts[a])]
  /\ prompts' = [prompts EXCEPT ![a] = Tail(@)]
  /\ UNCHANGED <<judgeVars, debateVars, watchVars, inbound, outbound, sessionVars>>

\* generate_argument comes back, with a reply or (after the retries) with an
\* error that ends the event loop; the gatekeeper sends telemetry either way.
Generate(a) ==
  /\ child[a] = "thinking"
  /\ \/ child' = [child EXCEPT ![a] = "replied"]
     \/ "error" \in Faults /\ child' = [child EXCEPT ![a] = "dead"]
  /\ inbound' = Append(inbound, Message("telemetry", a, 0))
  /\ UNCHANGED <<judgeVars, debateVars, watchVars, turn, prompts, outbound, sessionVars>>

\* reserve_budget raises before the call, and the event loop lets it through.
ExceedBudget(a) ==
  /\ child[a] = "thinking" /\ "budget" \in Faults
  /\ child' = [child EXCEPT ![a] = "dead"]
  /\ UNCHANGED <<judgeVars, debateVars, watchVars, turn, queueVars, sessionVars>>

\* len(prompt.history) // 2 + 1.
RoundOf(p) == (p.hist \div 2) + 1
Argument(a) == Message("argument", a, RoundOf(turn[a]))

\* The reply becomes an argument.
Emit(a) ==
  /\ child[a] = "replied"
  /\ child' = [child EXCEPT ![a] = "idle"]
  /\ \/ inbound' = Append(inbound, Argument(a))
     \/ "repeat" \in Faults /\ inbound' = Append(Append(inbound, Argument(a)), Argument(a))
  /\ UNCHANGED <<judgeVars, debateVars, watchVars, turn, prompts, outbound, sessionVars>>

\* The reply is not JSON, or its text is empty: nothing is sent.
DropReply(a) ==
  /\ child[a] = "replied" /\ "drop" \in Faults
  /\ child' = [child EXCEPT ![a] = "idle"]
  /\ UNCHANGED <<judgeVars, debateVars, watchVars, turn, queueVars, sessionVars>>

\* The reply is JSON but not an object, or its citations do not fit the schema:
\* the exception ends the event loop.
RejectReply(a) ==
  /\ child[a] = "replied" /\ "reject" \in Faults
  /\ child' = [child EXCEPT ![a] = "dead"]
  /\ UNCHANGED <<judgeVars, debateVars, watchVars, turn, queueVars, sessionVars>>

ChildStep(a) ==
  TakePrompt(a) \/ Generate(a) \/ ExceedBudget(a) \/ Emit(a) \/ DropReply(a) \/ RejectReply(a)

\* _heartbeat_loop, on a thread of its own.
Heartbeat(a) ==
  /\ Healthy(a) /\ Cardinality(Beats(a)) < MaxBeats
  /\ inbound' = Append(inbound, Message("heartbeat", a, 0))
  /\ UNCHANGED <<judgeVars, debateVars, watchVars, childVars, prompts, outbound, sessionVars>>

Fail(a, fault, state) ==
  /\ Healthy(a) /\ fault \in Faults
  /\ child' = [child EXCEPT ![a] = state]
  /\ UNCHANGED <<judgeVars, debateVars, watchVars, turn, queueVars, sessionVars>>

Stall(a) == Fail(a, "stall", "stalled")
Crash(a) == Fail(a, "crash", "dead")

-------------------------------------------------------------------------------
(* The watchdog thread. *)

\* Time passes.  Unless "late" is among the faults, the judge handles a beat of
\* every healthy child within the timeout.
Tick ==
  /\ dog = "on"
  /\ \/ \A a \in registry : Healthy(a) => silence[a] < Timeout
     \/ "late" \in Faults
  /\ silence' = [a \in Agents |-> IF a \in registry /\ silence[a] <= Timeout
                                    THEN silence[a] + 1 ELSE silence[a]]
  /\ UNCHANGED <<judgeVars, debateVars, registry, dog, childVars, queueVars, sessionVars>>

\* _on_timeout, with no recovery callback.
ReapSilent(a) ==
  /\ dog = "on" /\ a \in registry /\ silence[a] > Timeout
  /\ child' = [child EXCEPT ![a] = "dead"]
  /\ registry' = registry \ {a}
  /\ UNCHANGED <<judgeVars, debateVars, silence, dog, turn, queueVars, sessionVars>>

-------------------------------------------------------------------------------
(* The session loop of the caller. *)

\* One event off the outbound queue; a judgment ends the loop.
Receive ==
  /\ outcome = "polling" /\ outbound # <<>>
  /\ outbound' = Tail(outbound)
  /\ LET e == Head(outbound) IN
       /\ transcript' = IF e.kind = "argument"
                          THEN Append(transcript, [agent |-> e.agent, round |-> e.round])
                          ELSE transcript
       /\ IF e.kind \in Judgments THEN verdict' = e.kind /\ outcome' = "joining"
                                  ELSE UNCHANGED <<verdict, outcome>>
  /\ UNCHANGED <<judgeVars, debateVars, watchVars, childVars, inbound, prompts>>

\* A faulty form of the next definition: the dead judge is not noticed.
GiveUpNever == outcome = "polling" /\ FALSE /\ UNCHANGED vars

\* The judge is gone and its queue is empty: no judgment, RuntimeError.
GiveUp ==
  /\ outcome = "polling" /\ jpc = "exited" /\ outbound = <<>>
  /\ outcome' = "raised"
  /\ UNCHANGED <<judgeVars, debateVars, watchVars, childVars, queueVars, transcript, verdict>>

\* Join the judge for a while, terminate it if it is still alive, return.
Finish ==
  /\ outcome = "joining"
  /\ outcome' = "returned"
  /\ jpc' = "exited"
  /\ dog' = "stopped"
  /\ UNCHANGED <<then, tries, truncated, debateVars, registry, silence, childVars, queueVars,
                 transcript, verdict>>

\* on_event raises on an event: the judge is terminated, the exception passes on.
HandlerRaises ==
  /\ outcome = "polling" /\ "handler" \in Faults /\ outbound # <<>>
  /\ outbound' = Tail(outbound)
  /\ outcome' = "raised"
  /\ jpc' = "exited"
  /\ dog' = "stopped"
  /\ UNCHANGED <<then, tries, truncated, debateVars, registry, silence, childVars, inbound,
                 prompts, transcript, verdict>>

SessionStep == Receive \/ GiveUp \/ Finish

\* The call is over.
Over ==
  /\ outcome \in {"returned", "raised"}
  /\ UNCHANGED vars

Next ==
  \/ JudgeStep \/ JudgeKilled
  \/ \E a \in Agents :
       ChildStep(a) \/ Heartbeat(a) \/ Stall(a) \/ Crash(a) \/ ReapSilent(a)
  \/ Tick
  \/ SessionStep \/ HandlerRaises
  \/ Over

Spec == Init /\ [][Next]_vars

\* Every process and thread that can take a step takes one: they are scheduled
\* by the operating system, and every wait of theirs is bounded (the LLM
\* client has a timeout, queue reads poll).  Faults need not happen.
Fairness ==
  /\ WF_vars(JudgeStep)
  /\ \A a \in Agents : WF_vars(ChildStep(a)) /\ WF_vars(Heartbeat(a)) /\ WF_vars(ReapSilent(a))
  /\ WF_vars(Tick)
  /\ WF_vars(SessionStep)

FairSpec == Spec /\ Fairness
==============================================================================

----------------------------- MODULE Supervision ------------------------------
(***************************************************************************)
(* The two threads of the judge process that may end a child process: the  *)
(* judge itself, in terminate_children (services/judge_process_mixin.py),  *)
(* and the watchdog (shared/watchdog.py).  Both do it with                 *)
(* terminate_process_tree (shared/process_utils.py), here one step for     *)
(* every call of psutil, because a process that one of them has waited for *)
(* is gone for the other.  Debate has all of this in one step.             *)
(*                                                                         *)
(* A debater has no child processes of its own, so that the tree is the    *)
(* process.                                                                *)
(***************************************************************************)
EXTENDS DebateTurns, FiniteSets

CONSTANTS
  Timeout,   \* ticks of silence the watchdog tolerates
  MaxFaults, \* bound: children that die or freeze by themselves
  Faults     \* what may happen

ASSUME SupervisionAssumption == Timeout \in Nat \ {0} /\ MaxFaults \in Nat
ASSUME SupervisionFaults ==
  Faults \subseteq {"crash",  \* a child process ends
                    "stall",  \* it freezes, and SIGKILL ends it
                    "stuck",  \* it freezes, and nothing ends it
                    "budget", \* the judge's handler raises BudgetExceededException
                    "error"}  \* the judge's handler raises something else

VARIABLES
  jpc,      \* where the judge is
  at,       \* the child it registers or terminates
  path,     \* why it terminates the children, "none" before it does
  verdict,  \* a judgment has been sent
  dpc,      \* where the watchdog thread is
  todo,     \* the children it has still to look at in this pass
  late,     \* the ones whose heartbeat had expired when the pass began
  registry, \* registry
  age,      \* ticks since the entry in heartbeats; one that is absent has expired
  stopping, \* _stop_event
  manager,  \* the manager process with the two dictionaries is up
  tree,     \* where each thread is in terminate_process_tree
  proc,     \* the child processes
  beats,    \* heartbeats of each child on the judge's queue
  faults    \* history: how many children died or froze

judgeVars == <<jpc, at, path, verdict>>
dogVars == <<dpc, todo>>
watchVars == <<late, registry, age>>
childVars == <<proc, beats, faults>>
vars == <<judgeVars, dogVars, watchVars, stopping, manager, tree, childVars>>

Threads == {"judge", "dog"}
Living == {"running", "stalled", "stuck"}
Expired == Timeout + 1
Closing == {"alive", "tree", "stop", "join"}
Watching == {"poll", "scan", "kill"}

Init ==
  /\ jpc = "spawn" /\ at = Pro /\ path = "none" /\ verdict = FALSE
  /\ dpc = "off" /\ todo = <<>>
  /\ late = {} /\ registry = {} /\ age = [a \in Agents |-> Expired]
  /\ stopping = FALSE /\ manager = TRUE
  /\ tree = [t \in Threads |-> "none"]
  /\ proc = [a \in Agents |-> "unborn"] /\ beats = [a \in Agents |-> 0] /\ faults = 0

-------------------------------------------------------------------------------
(* Watchdog's dictionaries. *)

Heartbeat(a) ==
  /\ age' = [age EXCEPT ![a] = 0]
  /\ late' = late \ {a}   \* now - last_hb is negative in the pass under way

-------------------------------------------------------------------------------
(* terminate_process_tree, called by t for the child Target(t). *)

Target(t) == IF t = "judge" THEN at ELSE Head(todo)
Calling(t) == IF t = "judge" THEN jpc = "tree" ELSE dpc = "kill"

Become(a, state) == proc' = [proc EXCEPT ![a] = state]
Goto(t, step) == tree' = [tree EXCEPT ![t] = step]

\* What SIGTERM makes of a process: a frozen one may never handle it.
AfterTerm(state) ==
  CASE state = "running" -> {"zombie"}
    [] state = "stalled" -> {"zombie", "stalled"}
    [] OTHER -> {state}

\* psutil.Process(pid) does not find a process that has been waited for; a
\* zombie it finds.
Find(t) ==
  /\ tree[t] = "find"
  /\ Goto(t, IF proc[Target(t)] = "gone" THEN "true" ELSE "term")
  /\ UNCHANGED proc

\* parent.terminate raises NoSuchProcess if the other thread has waited for the
\* process meanwhile.
Term(t) ==
  LET a == Target(t) IN
  /\ tree[t] = "term"
  /\ \/ proc[a] = "gone" /\ Goto(t, "raised") /\ UNCHANGED proc
     \/ /\ proc[a] # "gone"
        /\ \E s \in AfterTerm(proc[a]) : Become(a, s)
        /\ Goto(t, "wait")

\* A faulty form of the next definition: what refuses to terminate is left.
WaitOnly(t) ==
  LET a == Target(t) IN
  /\ tree[t] = "wait"
  /\ Goto(t, "true")
  /\ IF proc[a] = "zombie" THEN Become(a, "gone") ELSE UNCHANGED proc

\* wait_procs reaps a zombie, and gives up on a living process.
Wait(t) ==
  LET a == Target(t) IN
  /\ tree[t] = "wait"
  /\ Goto(t, IF proc[a] \in Living THEN "kill" ELSE "true")
  /\ IF proc[a] = "zombie" THEN Become(a, "gone") ELSE UNCHANGED proc

\* process.kill, which raises as terminate does.
Kill(t) ==
  LET a == Target(t) IN
  /\ tree[t] = "kill"
  /\ Goto(t, IF proc[a] = "gone" THEN "raised" ELSE "final")
  /\ IF proc[a] \in {"running", "stalled"} THEN Become(a, "zombie") ELSE UNCHANGED proc

FinalCheck(t) ==
  LET a == Target(t) IN
  /\ tree[t] = "final"
  /\ Goto(t, IF proc[a] \in Living THEN "false" ELSE "true")
  /\ IF proc[a] = "zombie" THEN Become(a, "gone") ELSE UNCHANGED proc

TreeStep(t) ==
  /\ Calling(t)
  /\ Find(t) \/ Term(t) \/ Wait(t) \/ Kill(t) \/ FinalCheck(t)
  /\ UNCHANGED <<judgeVars, dogVars, watchVars, stopping, manager, beats, faults>>

-------------------------------------------------------------------------------
(* The judge. *)

\* A faulty form of the next definition: the watchdog is started first.
SpawnWatched ==
  /\ jpc = "spawn"
  /\ proc' = [a \in Agents |-> "running"]
  /\ jpc' = "register"
  /\ dpc' = "poll"
  /\ UNCHANGED <<at, path, verdict, todo, watchVars, stopping, manager, tree, beats, faults>>

\* spawn_children: both processes are started ...
Spawn ==
  /\ jpc = "spawn"
  /\ proc' = [a \in Agents |-> "running"]
  /\ jpc' = "register"
  /\ UNCHANGED <<at, path, verdict, dogVars, watchVars, stopping, manager, tree, beats, faults>>

\* ... each is registered, which puts it into the registry ...
Register ==
  /\ jpc = "register"
  /\ registry' = registry \cup {at}
  /\ jpc' = "heartbeat"
  /\ UNCHANGED <<at, path, verdict, dogVars, late, age, stopping, manager, tree, childVars>>

\* ... and then gives it its first heartbeat ...
FirstHeartbeat ==
  /\ jpc = "heartbeat"
  /\ Heartbeat(at)
  /\ at' = Con
  /\ jpc' = IF at = Pro THEN "register" ELSE "watch"
  /\ UNCHANGED <<path, verdict, dogVars, registry, stopping, manager, tree, childVars>>

\* A faulty form of the next definition: it is not started.
WatchdogForgotten ==
  /\ jpc = "watch"
  /\ jpc' = "loop"
  /\ UNCHANGED <<at, path, verdict, dogVars, watchVars, stopping, manager, tree, childVars>>

\* ... and the watchdog is started, unless it is.
StartWatchdog ==
  /\ jpc = "watch"
  /\ dpc' = IF dpc = "off" THEN "poll" ELSE dpc
  /\ jpc' = "loop"
  /\ UNCHANGED <<at, path, verdict, todo, watchVars, stopping, manager, tree, childVars>>

\* terminate_children is called.
Close(why) == path' = why /\ at' = Pro /\ jpc' = "alive"

\* _update_heartbeat.  Without the manager it raises, and the loop ends.
UpdateHeartbeat(a) ==
  /\ jpc = "loop" /\ beats[a] > 0
  /\ beats' = [beats EXCEPT ![a] = @ - 1]
  /\ \/ manager /\ Heartbeat(a) /\ UNCHANGED <<jpc, at, path>>
     \/ ~manager /\ Close("ending") /\ UNCHANGED <<age, late>>
  /\ UNCHANGED <<verdict, dogVars, registry, stopping, manager, tree, proc, faults>>

\* The debate is over, its budget is, or the handler raises.
LeaveLoop(why) ==
  /\ jpc = "loop" /\ path = "none"
  /\ Close(why)
  /\ UNCHANGED <<verdict, dogVars, watchVars, stopping, manager, tree, childVars>>
Conclude == LeaveLoop("concluded")
ExceedBudget == "budget" \in Faults /\ LeaveLoop("truncated")
HandlerRaises == "error" \in Faults /\ LeaveLoop("ending")

NextChild == IF at = Pro THEN at' = Con /\ jpc' = "alive" ELSE at' = at /\ jpc' = "stop"

\* is_alive reaps a zombie.  A process that psutil has waited for it takes to
\* be alive.
IsAlive ==
  /\ jpc = "alive"
  /\ \/ proc[at] = "zombie" /\ Become(at, "gone") /\ NextChild /\ UNCHANGED tree
     \/ proc[at] # "zombie" /\ jpc' = "tree" /\ Goto("judge", "find") /\ UNCHANGED <<at, proc>>
  /\ UNCHANGED <<path, verdict, dogVars, watchVars, stopping, manager, beats, faults>>

\* The process is joined, for two seconds.
Terminated ==
  /\ jpc = "tree" /\ tree["judge"] \in {"true", "false"}
  /\ Goto("judge", "none")
  /\ NextChild
  /\ UNCHANGED <<path, verdict, dogVars, watchVars, stopping, manager, childVars>>

\* NoSuchProcess leaves terminate_children.  In the handler it ends the loop,
\* after which terminate_children is called again; elsewhere it ends the
\* process.
TerminationRaises ==
  /\ jpc = "tree" /\ tree["judge"] = "raised"
  /\ Goto("judge", "none")
  /\ \/ path = "concluded" /\ Close("ending")
     \/ path # "concluded" /\ jpc' = "exit" /\ UNCHANGED <<at, path>>
  /\ UNCHANGED <<verdict, dogVars, watchVars, stopping, manager, childVars>>

\* A faulty form of the next definition: the event is not set.
StopUnsignalled ==
  /\ jpc = "stop"
  /\ jpc' = "join"
  /\ UNCHANGED <<at, path, verdict, dogVars, watchVars, stopping, manager, tree, childVars>>

\* Watchdog.stop ...
StopWatchdog ==
  /\ jpc = "stop"
  /\ stopping' = TRUE
  /\ jpc' = "join"
  /\ UNCHANGED <<at, path, verdict, dogVars, watchVars, manager, tree, childVars>>

\* A faulty form of the next definition: the thread is not joined.
ShutManagerDown ==
  /\ jpc = "join"
  /\ manager' = FALSE
  /\ jpc' = IF path = "ending" THEN "exit" ELSE "judging"
  /\ UNCHANGED <<at, path, verdict, dogVars, watchVars, stopping, tree, childVars>>

\* ... which joins the thread and then shuts the manager down.
JoinWatchdog ==
  /\ jpc = "join" /\ dpc \notin Watching
  /\ manager' = FALSE
  /\ jpc' = IF path = "ending" THEN "exit" ELSE "judging"
  /\ UNCHANGED <<at, path, verdict, dogVars, watchVars, stopping, tree, childVars>>

\* The judgment is sent.  A truncated one was made outside of the loop.
DeclareWinner ==
  /\ jpc = "judging"
  /\ verdict' = TRUE
  /\ IF path = "truncated" THEN Close("ending") ELSE jpc' = "loop" /\ UNCHANGED <<at, path>>
  /\ UNCHANGED <<dogVars, watchVars, stopping, manager, tree, childVars>>

\* multiprocessing's exit function shuts the manager down, terminates the
\* daemon processes ...
Exit ==
  /\ jpc = "exit"
  /\ manager' = FALSE
  /\ proc' \in [Agents -> {"zombie", "gone"} \cup Living]
  /\ \A a \in Agents : proc'[a] \in AfterTerm(proc[a])
  /\ jpc' = "reap"
  /\ UNCHANGED <<at, path, verdict, dogVars, watchVars, stopping, tree, beats, faults>>

\* ... and joins them, for as long as it takes.
Reap ==
  /\ jpc = "reap" /\ \A a \in Agents : proc[a] \notin Living
  /\ proc' = [a \in Agents |-> "gone"]
  /\ jpc' = "exited"
  /\ UNCHANGED <<at, path, verdict, dogVars, watchVars, stopping, manager, tree, beats, faults>>

JudgeStep ==
  \/ Spawn \/ Register \/ FirstHeartbeat \/ StartWatchdog
  \/ \E a \in Agents : UpdateHeartbeat(a)
  \/ IsAlive \/ TreeStep("judge") \/ Terminated \/ TerminationRaises
  \/ StopWatchdog \/ JoinWatchdog \/ DeclareWinner \/ Exit \/ Reap

-------------------------------------------------------------------------------
(* The watchdog thread, which ends with the process. *)

Up == jpc # "exited"

\* What a pass may have before it: children in the order of their registration.
Orders == {<<>>, <<Pro>>, <<Con>>, <<Pro, Con>>}

\* The top of the loop.
Poll ==
  /\ Up /\ dpc = "poll"
  /\ \/ stopping /\ dpc' = "stopped" /\ UNCHANGED <<todo, late>>
     \/ ~stopping /\ ~manager /\ dpc' = "dead" /\ UNCHANGED <<todo, late>>
     \/ /\ ~stopping /\ manager
        /\ todo' \in Orders /\ {todo'[i] : i \in DOMAIN todo'} = registry
        /\ late' = {a \in Agents : age[a] > Timeout}
        /\ dpc' = "scan"
  /\ UNCHANGED <<judgeVars, registry, age, stopping, manager, tree, childVars>>

Scan ==
  /\ Up /\ dpc = "scan" /\ todo # <<>>
  /\ \/ ~manager /\ dpc' = "dead" /\ UNCHANGED <<todo, tree>>
     \/ manager /\ Head(todo) \in late /\ dpc' = "kill" /\ Goto("dog", "find") /\ UNCHANGED todo
     \/ manager /\ Head(todo) \notin late /\ todo' = Tail(todo) /\ UNCHANGED <<dpc, tree>>
  /\ UNCHANGED <<judgeVars, watchVars, stopping, manager, childVars>>

\* A faulty form of the next definition: the child is still registered.
ReapedKept ==
  /\ Up /\ dpc = "kill" /\ tree["dog"] \in {"true", "false"}
  /\ Goto("dog", "none")
  /\ dpc' = "scan" /\ todo' = Tail(todo)
  /\ UNCHANGED <<judgeVars, watchVars, stopping, manager, childVars>>

\* _on_timeout forgets the child, whether it was terminated or not.
Reaped ==
  /\ Up /\ dpc = "kill" /\ tree["dog"] \in {"true", "false"}
  /\ Goto("dog", "none")
  /\ \/ ~manager /\ dpc' = "dead" /\ UNCHANGED <<todo, registry, age>>
     \/ /\ manager
        /\ registry' = registry \ {Head(todo)}
        /\ age' = [age EXCEPT ![Head(todo)] = Expired]
        /\ todo' = Tail(todo)
        /\ dpc' = "scan"
  /\ UNCHANGED <<judgeVars, late, stopping, manager, childVars>>

\* An exception ends the thread.
ReapingRaises ==
  /\ Up /\ dpc = "kill" /\ tree["dog"] = "raised"
  /\ Goto("dog", "none")
  /\ dpc' = "dead"
  /\ UNCHANGED <<judgeVars, todo, watchVars, stopping, manager, childVars>>

\* A faulty form of the next definition: one pass is all.
EndPassForGood ==
  /\ Up /\ dpc = "scan" /\ todo = <<>>
  /\ dpc' = "stopped"
  /\ UNCHANGED <<judgeVars, todo, watchVars, stopping, manager, tree, childVars>>

EndPass ==
  /\ Up /\ dpc = "scan" /\ todo = <<>>
  /\ dpc' = "poll"
  /\ UNCHANGED <<judgeVars, todo, watchVars, stopping, manager, tree, childVars>>

DogStep ==
  \/ Poll \/ Scan \/ Reaped \/ ReapingRaises \/ EndPass
  \/ Up /\ TreeStep("dog")

-------------------------------------------------------------------------------
(* The children, and time. *)

SendHeartbeat(a) ==
  /\ Up /\ proc[a] = "running" /\ beats[a] = 0
  /\ beats' = [beats EXCEPT ![a] = 1]
  /\ UNCHANGED <<judgeVars, dogVars, watchVars, stopping, manager, tree, proc, faults>>

Fail(a, kind, state) ==
  /\ Up /\ proc[a] = "running" /\ kind \in Faults /\ faults < MaxFaults
  /\ Become(a, state)
  /\ faults' = faults + 1
  /\ UNCHANGED <<judgeVars, dogVars, watchVars, stopping, manager, tree, beats>>
Crash(a) == Fail(a, "crash", "zombie")
Stall(a) == Fail(a, "stall", "stalled")
Jam(a) == Fail(a, "stuck", "stuck")

\* The heartbeats of a child that runs are handled before they expire, and the
\* first ones, as well as the termination of the children, come before they do.
Tick ==
  /\ \A a \in Agents : proc[a] = "running" => age[a] < Timeout
  /\ age' = [a \in Agents |-> IF age[a] = Expired THEN Expired ELSE age[a] + 1]
  /\ UNCHANGED <<judgeVars, dogVars, late, registry, stopping, manager, tree, childVars>>

Next ==
  \/ JudgeStep \/ Conclude \/ ExceedBudget \/ HandlerRaises
  \/ DogStep
  \/ \E a \in Agents : SendHeartbeat(a) \/ Crash(a) \/ Stall(a) \/ Jam(a)
  \/ Tick

Spec == Init /\ [][Next]_vars

\* The threads and the children are scheduled, and time passes.
Fairness ==
  /\ WF_vars(JudgeStep) /\ WF_vars(DogStep) /\ WF_vars(Tick)
  /\ \A a \in Agents : WF_vars(SendHeartbeat(a))
FairSpec == Spec /\ Fairness
==============================================================================

-------------------------- MODULE Supervision_proofs --------------------------
(***************************************************************************)
(* Theorems about the two threads that may end a child process.            *)
(***************************************************************************)
EXTENDS SupervisionProps, SequenceTheorems, TLAPS

USE DEF vars, judgeVars, dogVars, watchVars, childVars

Starting == {"spawn", "register", "heartbeat", "watch"}

\* Until the judge starts the watchdog nobody looks for silent children, and
\* until the judge leaves its loop it is the watchdog alone that ends any.
StartInv ==
  /\ jpc \in Starting => /\ manager /\ dpc = "off" /\ ~verdict /\ late = {}
                         /\ \A a \in Agents : proc[a] # "gone"
  /\ jpc = "spawn" => at = Pro
  /\ jpc # "spawn" => \A a \in Agents : proc[a] # "unborn"
  /\ path = "none" => jpc \in Starting \cup {"loop"}

\* A child that runs has been heard in time, once it is registered.
Fresh(a) == proc[a] = "running" => age[a] <= Timeout
FreshInv ==
  /\ jpc \notin {"spawn", "register", "heartbeat"} => \A a \in Agents : Fresh(a)
  /\ jpc \in {"register", "heartbeat"} /\ at = Con => Fresh(Pro)
  /\ \A a \in late : proc[a] # "running"
  /\ dpc = "kill" => proc[Head(todo)] # "running"

\* A child the watchdog has waited for is no longer among those it watches.
ReapedInv ==
  /\ todo \in Orders
  /\ dpc = "kill" => todo # <<>>
  /\ \A a \in Agents : path = "none" /\ proc[a] = "gone" =>
       \/ a \notin registry /\ \A i \in DOMAIN todo : todo[i] # a
       \/ dpc = "kill" /\ a = Head(todo)
       \/ dpc = "dead"

\* What the judge has gone through is gone, or nothing can kill it.
Done(a) == proc[a] \in {"gone", "stuck"}
ClosedInv ==
  /\ jpc \in Closing /\ at = Con => Done(Pro)
  /\ jpc \in {"stop", "join", "judging"} \/ verdict => \A a \in Agents : Done(a)
  /\ jpc = "judging" \/ verdict => dpc \notin Watching
  /\ jpc = "tree" => CASE tree["judge"] = "final" -> proc[at] \in {"zombie", "gone", "stuck"}
                       [] tree["judge"] = "true" -> proc[at] = "gone"
                       [] tree["judge"] = "false" -> proc[at] = "stuck"
                       [] OTHER -> TRUE

SupervisionInv == StartInv /\ FreshInv /\ ReapedInv /\ ClosedInv

-------------------------------------------------------------------------------
(* The watchdog's pass. *)

\* A pass is a sequence of children ...
LEMMA OrdersType == \A s \in Orders : s \in Seq(Agents)
<1>1. Pro \in Agents /\ Con \in Agents
  BY DEF Agents
<1>2. <<>> \in Seq(Agents) /\ <<Pro>> \in Seq(Agents) /\ <<Con>> \in Seq(Agents)
        /\ <<Pro, Con>> \in Seq(Agents)
  BY <1>1
<1> QED
  BY <1>2 DEF Orders

\* ... and what is left of it after its first child is one without that child.
LEMMA TailOrders ==
  \A s \in Orders : s # <<>> =>
    /\ Tail(s) \in Orders /\ Head(s) \in Agents
    /\ \A i \in DOMAIN Tail(s) : Tail(s)[i] # Head(s) /\ i + 1 \in DOMAIN s /\ Tail(s)[i] = s[i + 1]
<1> SUFFICES ASSUME NEW s \in Orders, s # <<>>
             PROVE  /\ Tail(s) \in Orders /\ Head(s) \in Agents
                    /\ \A i \in DOMAIN Tail(s) :
                         Tail(s)[i] # Head(s) /\ i + 1 \in DOMAIN s /\ Tail(s)[i] = s[i + 1]
  OBVIOUS
<1>1. CASE s = <<Pro>>
  <2>1. Tail(s) = <<>> /\ Head(s) = Pro
    BY <1>1
  <2> QED
    BY <2>1 DEF Orders, Agents
<1>2. CASE s = <<Con>>
  <2>1. Tail(s) = <<>> /\ Head(s) = Con
    BY <1>2
  <2> QED
    BY <2>1 DEF Orders, Agents
<1>3. CASE s = <<Pro, Con>>
  <2>1. Tail(s) = <<Con>> /\ Head(s) = Pro
    BY <1>3
  <2>2. DOMAIN Tail(s) = {1} /\ 2 \in DOMAIN s /\ s[2] = Con /\ Tail(s)[1] = Con
    BY <1>3, <2>1
  <2> QED
    BY <2>1, <2>2 DEF Orders, Agents, Pro, Con
<1> QED
  BY <1>1, <1>2, <1>3 DEF Orders

-------------------------------------------------------------------------------
(* terminate_process_tree. *)

\* SIGTERM leaves nothing running and revives nothing.
LEMMA TermEffect ==
  \A p \in {"unborn", "zombie", "gone"} \cup Living : \A s \in AfterTerm(p) :
    /\ s \in {"unborn", "zombie", "gone"} \cup Living
    /\ s # "running" /\ (s = "unborn" => p = "unborn")
    /\ p \in {"zombie", "gone", "stuck"} => s = p
BY DEF AfterTerm, Living

\* Both threads call it for a child.
LEMMA TargetType ==
  ASSUME TypeOK, ReapedInv, NEW t \in Threads, Calling(t)
  PROVE  Target(t) \in Agents
<1>1. CASE t = "judge"
  BY <1>1 DEF Target, TypeOK
<1>2. CASE t = "dog"
  <2>1. todo \in Seq(Agents) /\ todo # <<>>
    BY <1>2 DEF TypeOK, ReapedInv, Calling
  <2> QED
    BY <1>2, <2>1, HeadTailProperties DEF Target
<1> QED
  BY <1>1, <1>2 DEF Threads

\* The child the watchdog is ending.
LEMMA HeadType == ReapedInv /\ dpc = "kill" => Head(todo) \in Agents
BY TailOrders DEF ReapedInv

\* A call moves one process on, from running towards gone, and none but it.
LEMMA TreeEffect ==
  ASSUME TypeOK, ReapedInv, NEW t \in Threads, TreeStep(t)
  PROVE  LET a == Target(t) IN
         /\ a \in Agents
         /\ \A b \in Agents \ {a} : proc'[b] = proc[b]
         /\ proc' \in [Agents -> {"unborn", "zombie", "gone"} \cup Living]
         /\ proc'[a] \in {"running", "unborn"} => proc'[a] = proc[a]
         /\ proc[a] \in {"gone", "stuck"} => proc'[a] = proc[a]
         /\ proc[a] \in {"zombie", "gone", "stuck"} => proc'[a] \in {"zombie", "gone", "stuck"}
         /\ \A u \in Threads \ {t} : tree'[u] = tree[u]
         /\ tree' \in [Threads -> {"none", "find", "term", "wait", "kill", "final", "true",
                                   "false", "raised"}]
         /\ tree[t] # "none" /\ tree'[t] # "none"
         /\ proc[a] # "unborn" =>
              /\ tree'[t] = "final" => proc'[a] \in {"zombie", "gone", "stuck"}
              /\ tree'[t] = "true" => proc'[a] = "gone"
              /\ tree'[t] = "false" =>
                   (proc[a] \in {"zombie", "gone", "stuck"} => proc'[a] = "stuck")
                   /\ tree[t] = "final"
<1> DEFINE a == Target(t)
<1>1. a \in Agents
  BY TargetType DEF TreeStep
<1> HIDE DEF a
<1>2. CASE Find(t)
  BY <1>1, <1>2 DEF Find, Goto, TypeOK, a
<1>3. CASE Term(t)
  <2>1. CASE proc[a] = "gone"
    BY <1>1, <1>3, <2>1 DEF Term, Goto, TypeOK, a
  <2>2. CASE proc[a] # "gone"
    <3>1. PICK s \in AfterTerm(proc[a]) : Become(a, s) /\ Goto(t, "wait")
      BY <1>3, <2>2 DEF Term, a
    <3>2. /\ s \in {"unborn", "zombie", "gone"} \cup Living
          /\ s \in {"running", "unborn"} => s = proc[a]
          /\ proc[a] \in {"gone", "stuck"} => s = proc[a]
          /\ proc[a] \in {"zombie", "gone", "stuck"} => s \in {"zombie", "gone", "stuck"}
      BY <1>1, <3>1, TermEffect DEF TypeOK
    <3> QED
      BY <1>1, <1>3, <3>1, <3>2 DEF Term, Become, Goto, TypeOK, a
  <2> QED
    BY <2>1, <2>2
<1>4. CASE Wait(t)
  BY <1>1, <1>4 DEF Wait, Become, Goto, Living, TypeOK, a
<1>5. CASE Kill(t)
  BY <1>1, <1>5 DEF Kill, Become, Goto, Living, TypeOK, a
<1>6. CASE FinalCheck(t)
  BY <1>1, <1>6 DEF FinalCheck, Become, Goto, Living, TypeOK, a
<1> QED
  BY <1>2, <1>3, <1>4, <1>5, <1>6 DEF TreeStep
-------------------------------------------------------------------------------
(* Types. *)

LEMMA TypeStep == TypeOK /\ SupervisionInv /\ [Next]_vars => TypeOK'
<1> SUFFICES ASSUME TypeOK, SupervisionInv, [Next]_vars PROVE TypeOK'
  OBVIOUS
<1> USE SupervisionAssumption DEF SupervisionInv, TypeOK, Agents, Pro, Con, Closing, Watching, Threads, Living, Expired, Calling
<1>1. CASE Spawn
  BY <1>1 DEF Spawn
<1>2. CASE Register
  BY <1>2 DEF Register
<1>3. CASE FirstHeartbeat
  BY <1>3 DEF FirstHeartbeat, Heartbeat
<1>4. CASE StartWatchdog
  BY <1>4 DEF StartWatchdog, StartInv, Starting
<1>5. ASSUME NEW a \in Agents, UpdateHeartbeat(a) PROVE TypeOK'
  <2>1. beats' \in [Agents -> 0 .. 1]
    BY <1>5 DEF UpdateHeartbeat
  <2>2. [age EXCEPT ![a] = 0] \in [Agents -> 0 .. Expired] /\ late \ {a} \subseteq Agents
    OBVIOUS
  <2>3. age' \in [Agents -> 0 .. Expired] /\ late' \subseteq Agents
    BY <1>5, <2>2 DEF UpdateHeartbeat, Heartbeat
  <2> QED
    BY <1>5, <2>1, <2>3 DEF UpdateHeartbeat, Close
<1>6. CASE Conclude
  BY <1>6 DEF Conclude, LeaveLoop, Close
<1>7. CASE ExceedBudget
  BY <1>7 DEF ExceedBudget, LeaveLoop, Close
<1>8. CASE HandlerRaises
  BY <1>8 DEF HandlerRaises, LeaveLoop, Close
<1>9. CASE IsAlive
  BY <1>9 DEF IsAlive, NextChild, Become, Goto
<1>10. CASE TreeStep("judge")
  BY <1>10, TreeEffect DEF TreeStep, Calling, Target, Threads
<1>11. CASE Terminated
  BY <1>11 DEF Terminated, NextChild, Goto
<1>12. CASE TerminationRaises
  BY <1>12 DEF TerminationRaises, Goto, Close
<1>13. CASE StopWatchdog
  BY <1>13 DEF StopWatchdog
<1>14. CASE JoinWatchdog
  BY <1>14 DEF JoinWatchdog
<1>15. CASE DeclareWinner
  BY <1>15 DEF DeclareWinner, Close
<1>16. CASE Exit
  BY <1>16 DEF Exit
<1>17. CASE Reap
  BY <1>17 DEF Reap
<1>18. CASE Poll
  <2>1. todo' \in Seq(Agents)
    <3>1. todo \in Seq(Agents)
      OBVIOUS
    <3> HIDE DEF Agents, TypeOK
    <3> QED
      BY <1>18, <3>1, OrdersType DEF Poll
  <2> QED
    BY ZenonT(60), <1>18, <2>1 DEF Poll, Up
<1>19. CASE Scan
  <2>1. todo' \in Seq(Agents)
    <3>1. todo \in Seq(Agents)
      OBVIOUS
    <3> HIDE DEF Agents, TypeOK
    <3> QED
      BY <1>19, <3>1, HeadTailProperties DEF Scan
  <2> QED
    BY <1>19, <2>1 DEF Scan, Up, Goto
<1>20. CASE Reaped
  <2>1. todo # <<>> /\ todo \in Seq(Agents)
    BY <1>20 DEF Reaped, ReapedInv
  <2>2. Head(todo) \in Agents /\ todo' \in Seq(Agents)
    <3> HIDE DEF Agents, TypeOK
    <3> QED
      BY <1>20, <2>1, HeadTailProperties DEF Reaped
  <2> DEFINE h == Head(todo)
  <2>5. h \in Agents
    BY <2>2
  <2> HIDE DEF h
  <2>3. [age EXCEPT ![h] = Expired] \in [Agents -> 0 .. Expired] /\ registry \ {h} \subseteq Agents
    BY <2>5
  <2>4. age' \in [Agents -> 0 .. Expired] /\ registry' \subseteq Agents
    BY <1>20, <2>3 DEF Reaped, h
  <2> QED
    BY <1>20, <2>2, <2>4 DEF Reaped, Up, Goto
<1>21. CASE ReapingRaises
  BY <1>21 DEF ReapingRaises, Up, Goto
<1>22. CASE EndPass
  BY <1>22 DEF EndPass, Up
<1>23. CASE TreeStep("dog")
  BY <1>23, TreeEffect DEF TreeStep, Calling, Target, Threads
<1>24. ASSUME NEW a \in Agents, SendHeartbeat(a) PROVE TypeOK'
  BY <1>24 DEF SendHeartbeat, Up
<1>25. ASSUME NEW a \in Agents, Crash(a) PROVE TypeOK'
  BY <1>25 DEF Crash, Fail, Become, Up
<1>26. ASSUME NEW a \in Agents, Stall(a) PROVE TypeOK'
  BY <1>26 DEF Stall, Fail, Become, Up
<1>27. ASSUME NEW a \in Agents, Jam(a) PROVE TypeOK'
  BY <1>27 DEF Jam, Fail, Become, Up
<1>28. CASE Tick
  BY <1>28 DEF Tick
<1>29. CASE UNCHANGED vars
  BY <1>29
<1> QED
  BY <1>1, <1>2, <1>3, <1>4, <1>5, <1>6, <1>7, <1>8, <1>9, <1>10, <1>11, <1>12, <1>13,
     <1>14, <1>15, <1>16, <1>17, <1>18, <1>19, <1>20, <1>21, <1>22, <1>23, <1>24, <1>25,
     <1>26, <1>27, <1>28, <1>29
  DEF Next, JudgeStep, DogStep

-------------------------------------------------------------------------------
(* The judge's part. *)

\* Before the watchdog is started, and before the judge ends the children.
LEMMA StartStep == TypeOK /\ SupervisionInv /\ [Next]_vars => StartInv'
<1> SUFFICES ASSUME TypeOK, SupervisionInv, [Next]_vars PROVE StartInv'
  OBVIOUS
<1> USE DEF SupervisionInv, TypeOK, StartInv, Starting, Closing, Watching, Living
<1>1. CASE Spawn
  BY <1>1 DEF Spawn
<1>2. CASE Register
  BY <1>2 DEF Register
<1>3. CASE FirstHeartbeat
  BY <1>3 DEF FirstHeartbeat, Heartbeat
<1>4. CASE StartWatchdog
  BY <1>4 DEF StartWatchdog
<1>5. ASSUME NEW a \in Agents, UpdateHeartbeat(a) PROVE StartInv'
  BY <1>5 DEF UpdateHeartbeat, Heartbeat, Close
<1>6. CASE Conclude
  BY <1>6 DEF Conclude, LeaveLoop, Close
<1>7. CASE ExceedBudget
  BY <1>7 DEF ExceedBudget, LeaveLoop, Close
<1>8. CASE HandlerRaises
  BY <1>8 DEF HandlerRaises, LeaveLoop, Close
<1>9. CASE IsAlive
  BY <1>9 DEF IsAlive, NextChild, Become, Goto
<1>10. CASE TreeStep("judge")
  BY <1>10, TreeEffect DEF TreeStep, Calling, Target, Threads
<1>11. CASE Terminated
  BY <1>11 DEF Terminated, NextChild, Goto
<1>12. CASE TerminationRaises
  BY <1>12 DEF TerminationRaises, Goto, Close
<1>13. CASE StopWatchdog
  BY <1>13 DEF StopWatchdog
<1>14. CASE JoinWatchdog
  BY <1>14 DEF JoinWatchdog
<1>15. CASE DeclareWinner
  BY <1>15 DEF DeclareWinner, Close
<1>16. CASE Exit
  BY <1>16 DEF Exit
<1>17. CASE Reap
  BY <1>17 DEF Reap
<1>18. CASE Poll
  BY <1>18 DEF Poll, Up
<1>19. CASE Scan
  BY <1>19 DEF Scan, Up, Goto
<1>20. CASE Reaped
  BY <1>20 DEF Reaped, Up, Goto
<1>21. CASE ReapingRaises
  BY <1>21 DEF ReapingRaises, Up, Goto
<1>22. CASE EndPass
  BY <1>22 DEF EndPass, Up
<1>23. CASE TreeStep("dog")
  BY <1>23, TreeEffect DEF TreeStep, Calling, Target, Threads
<1>24. ASSUME NEW a \in Agents, SendHeartbeat(a) PROVE StartInv'
  BY <1>24 DEF SendHeartbeat, Up
<1>25. ASSUME NEW a \in Agents, Crash(a) PROVE StartInv'
  BY <1>25 DEF Crash, Fail, Become, Up
<1>26. ASSUME NEW a \in Agents, Stall(a) PROVE StartInv'
  BY <1>26 DEF Stall, Fail, Become, Up
<1>27. ASSUME NEW a \in Agents, Jam(a) PROVE StartInv'
  BY <1>27 DEF Jam, Fail, Become, Up
<1>28. CASE Tick
  BY <1>28 DEF Tick
<1>29. CASE UNCHANGED vars
  BY <1>29
<1> QED
  BY <1>1, <1>2, <1>3, <1>4, <1>5, <1>6, <1>7, <1>8, <1>9, <1>10, <1>11, <1>12, <1>13,
     <1>14, <1>15, <1>16, <1>17, <1>18, <1>19, <1>20, <1>21, <1>22, <1>23, <1>24, <1>25,
     <1>26, <1>27, <1>28, <1>29
  DEF Next, JudgeStep, DogStep

\* Only what has ceased to run is found silent.
LEMMA FreshStep == TypeOK /\ SupervisionInv /\ [Next]_vars => FreshInv'
<1> SUFFICES ASSUME TypeOK, SupervisionInv, [Next]_vars PROVE FreshInv'
  OBVIOUS
<1> USE SupervisionAssumption DEF SupervisionInv, TypeOK, StartInv, Starting, FreshInv, Fresh
<1>1. CASE Spawn
  BY <1>1 DEF Spawn, Pro, Con
<1>2. CASE Register
  BY <1>2 DEF Register
<1>3. CASE FirstHeartbeat
  BY <1>3 DEF FirstHeartbeat, Heartbeat, Agents, Pro, Con
<1>4. CASE StartWatchdog
  BY <1>4 DEF StartWatchdog
<1>5. ASSUME NEW a \in Agents, UpdateHeartbeat(a) PROVE FreshInv'
  BY <1>5 DEF UpdateHeartbeat, Heartbeat, Close
<1>6. CASE Conclude
  BY <1>6 DEF Conclude, LeaveLoop, Close
<1>7. CASE ExceedBudget
  BY <1>7 DEF ExceedBudget, LeaveLoop, Close
<1>8. CASE HandlerRaises
  BY <1>8 DEF HandlerRaises, LeaveLoop, Close
<1>9. CASE IsAlive
  BY <1>9, HeadType DEF IsAlive, NextChild, Become, Goto, Agents
<1>10. CASE TreeStep("judge")
  BY <1>10, HeadType, TreeEffect DEF TreeStep, Calling, Target, Threads, Agents
<1>11. CASE Terminated
  BY <1>11 DEF Terminated, NextChild, Goto
<1>12. CASE TerminationRaises
  BY <1>12 DEF TerminationRaises, Goto, Close
<1>13. CASE StopWatchdog
  BY <1>13 DEF StopWatchdog
<1>14. CASE JoinWatchdog
  BY <1>14 DEF JoinWatchdog
<1>15. CASE DeclareWinner
  BY <1>15 DEF DeclareWinner, Close
<1>16. CASE Exit
  <2>1. \A a \in Agents : proc'[a] # "running"
    BY <1>16, TermEffect DEF Exit
  <2> QED
    BY <1>16, <2>1, HeadType DEF Exit, Agents
<1>17. CASE Reap
  BY <1>17, HeadType DEF Reap, Agents
<1>18. CASE Poll
  BY <1>18 DEF Poll, Up
<1>19. CASE Scan
  BY <1>19 DEF Scan, Up, Goto
<1>20. CASE Reaped
  BY <1>20 DEF Reaped, Up, Goto
<1>21. CASE ReapingRaises
  BY <1>21 DEF ReapingRaises, Up, Goto
<1>22. CASE EndPass
  BY <1>22 DEF EndPass, Up
<1>23. CASE TreeStep("dog")
  BY <1>23, TreeEffect DEF TreeStep, Calling, Target, Threads
<1>24. ASSUME NEW a \in Agents, SendHeartbeat(a) PROVE FreshInv'
  BY <1>24 DEF SendHeartbeat, Up
<1>25. ASSUME NEW a \in Agents, Crash(a) PROVE FreshInv'
  BY <1>25 DEF Crash, Fail, Become, Up
<1>26. ASSUME NEW a \in Agents, Stall(a) PROVE FreshInv'
  BY <1>26 DEF Stall, Fail, Become, Up
<1>27. ASSUME NEW a \in Agents, Jam(a) PROVE FreshInv'
  BY <1>27 DEF Jam, Fail, Become, Up
<1>28. CASE Tick
  <2>1. \A a \in Agents : Fresh(a)'
    BY <1>28 DEF Tick, Expired
  <2> QED
    BY <1>28, <2>1 DEF Tick, Agents
<1>29. CASE UNCHANGED vars
  BY <1>29
<1> QED
  BY <1>1, <1>2, <1>3, <1>4, <1>5, <1>6, <1>7, <1>8, <1>9, <1>10, <1>11, <1>12, <1>13,
     <1>14, <1>15, <1>16, <1>17, <1>18, <1>19, <1>20, <1>21, <1>22, <1>23, <1>24, <1>25,
     <1>26, <1>27, <1>28, <1>29
  DEF Next, JudgeStep, DogStep

\* What the watchdog has waited for it forgets.
LEMMA ReapedStep == TypeOK /\ SupervisionInv /\ [Next]_vars => ReapedInv'
<1> SUFFICES ASSUME TypeOK, SupervisionInv, [Next]_vars PROVE ReapedInv'
  OBVIOUS
<1> USE DEF SupervisionInv, TypeOK, StartInv, Starting, ReapedInv
<1>1. CASE Spawn
  BY <1>1 DEF Spawn
<1>2. CASE Register
  BY <1>2 DEF Register
<1>3. CASE FirstHeartbeat
  BY <1>3 DEF FirstHeartbeat, Heartbeat
<1>4. CASE StartWatchdog
  BY <1>4 DEF StartWatchdog
<1>5. ASSUME NEW a \in Agents, UpdateHeartbeat(a) PROVE ReapedInv'
  BY <1>5 DEF UpdateHeartbeat, Heartbeat, Close
<1>6. CASE Conclude
  BY <1>6 DEF Conclude, LeaveLoop, Close
<1>7. CASE ExceedBudget
  BY <1>7 DEF ExceedBudget, LeaveLoop, Close
<1>8. CASE HandlerRaises
  BY <1>8 DEF HandlerRaises, LeaveLoop, Close
<1>9. CASE IsAlive
  BY <1>9 DEF IsAlive, NextChild, Become, Goto
<1>10. CASE TreeStep("judge")
  BY <1>10, TreeEffect DEF TreeStep, Calling, Target, Threads
<1>11. CASE Terminated
  BY <1>11 DEF Terminated, NextChild, Goto
<1>12. CASE TerminationRaises
  BY <1>12 DEF TerminationRaises, Goto, Close
<1>13. CASE StopWatchdog
  BY <1>13 DEF StopWatchdog
<1>14. CASE JoinWatchdog
  BY <1>14 DEF JoinWatchdog
<1>15. CASE DeclareWinner
  BY <1>15 DEF DeclareWinner, Close
<1>16. CASE Exit
  BY <1>16 DEF Exit
<1>17. CASE Reap
  BY <1>17 DEF Reap
<1>18. CASE Poll
  BY <1>18 DEF Poll, Up
<1>19. CASE Scan
  <2>1. /\ Tail(todo) \in Orders
        /\ \A i \in DOMAIN Tail(todo) : i + 1 \in DOMAIN todo /\ Tail(todo)[i] = todo[i + 1]
    BY <1>19, TailOrders DEF Scan
  <2>2. CASE dpc' = "dead"
    BY <1>19, <2>2 DEF Scan
  <2>3. CASE dpc' = "kill"
    BY <1>19, <2>3 DEF Scan
  <2>4. CASE todo' = Tail(todo) /\ UNCHANGED dpc
    BY <1>19, <2>1, <2>4 DEF Scan
  <2> QED
    BY <1>19, <2>2, <2>3, <2>4 DEF Scan
<1>20. CASE Reaped
  <2>1. /\ Tail(todo) \in Orders
        /\ \A i \in DOMAIN Tail(todo) :
             Tail(todo)[i] # Head(todo) /\ i + 1 \in DOMAIN todo /\ Tail(todo)[i] = todo[i + 1]
    BY <1>20, TailOrders DEF Reaped
  <2>2. CASE dpc' = "dead"
    BY <1>20, <2>2 DEF Reaped
  <2>3. CASE dpc' = "scan"
    <3>1. /\ registry' = registry \ {Head(todo)} /\ todo' = Tail(todo)
          /\ UNCHANGED <<path, proc>> /\ dpc = "kill"
      BY <1>20, <2>3 DEF Reaped
    <3> QED
      BY <2>1, <2>3, <3>1
  <2> QED
    BY <1>20, <2>2, <2>3 DEF Reaped
<1>21. CASE ReapingRaises
  BY <1>21 DEF ReapingRaises, Up, Goto
<1>22. CASE EndPass
  BY <1>22 DEF EndPass, Up
<1>23. CASE TreeStep("dog")
  BY <1>23, TreeEffect DEF TreeStep, Calling, Target, Threads
<1>24. ASSUME NEW a \in Agents, SendHeartbeat(a) PROVE ReapedInv'
  BY <1>24 DEF SendHeartbeat, Up
<1>25. ASSUME NEW a \in Agents, Crash(a) PROVE ReapedInv'
  BY <1>25 DEF Crash, Fail, Become, Up
<1>26. ASSUME NEW a \in Agents, Stall(a) PROVE ReapedInv'
  BY <1>26 DEF Stall, Fail, Become, Up
<1>27. ASSUME NEW a \in Agents, Jam(a) PROVE ReapedInv'
  BY <1>27 DEF Jam, Fail, Become, Up
<1>28. CASE Tick
  BY <1>28 DEF Tick
<1>29. CASE UNCHANGED vars
  BY <1>29
<1> QED
  BY <1>1, <1>2, <1>3, <1>4, <1>5, <1>6, <1>7, <1>8, <1>9, <1>10, <1>11, <1>12, <1>13,
     <1>14, <1>15, <1>16, <1>17, <1>18, <1>19, <1>20, <1>21, <1>22, <1>23, <1>24, <1>25,
     <1>26, <1>27, <1>28, <1>29
  DEF Next, JudgeStep, DogStep

\* What the judge has gone through stays gone.
LEMMA ClosedStep == TypeOK /\ SupervisionInv /\ [Next]_vars => ClosedInv'
<1> SUFFICES ASSUME TypeOK, SupervisionInv, [Next]_vars PROVE ClosedInv'
  OBVIOUS
<1> USE DEF SupervisionInv, TypeOK, StartInv, Starting, ClosedInv, Done, Closing, Watching, Agents, Pro, Con, Threads
<1>1. CASE Spawn
  BY <1>1 DEF Spawn
<1>2. CASE Register
  BY <1>2 DEF Register
<1>3. CASE FirstHeartbeat
  BY <1>3 DEF FirstHeartbeat, Heartbeat
<1>4. CASE StartWatchdog
  BY <1>4 DEF StartWatchdog
<1>5. ASSUME NEW a \in Agents, UpdateHeartbeat(a) PROVE ClosedInv'
  BY <1>5 DEF UpdateHeartbeat, Heartbeat, Close
<1>6. CASE Conclude
  BY <1>6 DEF Conclude, LeaveLoop, Close
<1>7. CASE ExceedBudget
  BY <1>7 DEF ExceedBudget, LeaveLoop, Close
<1>8. CASE HandlerRaises
  BY <1>8 DEF HandlerRaises, LeaveLoop, Close
<1>9. CASE IsAlive
  BY <1>9 DEF IsAlive, NextChild, Become, Goto
<1>10. CASE TreeStep("judge")
  BY <1>10, TreeEffect DEF TreeStep, Calling, Target, Threads
<1>11. CASE Terminated
  BY <1>11 DEF Terminated, NextChild, Goto
<1>12. CASE TerminationRaises
  BY <1>12 DEF TerminationRaises, Goto, Close
<1>13. CASE StopWatchdog
  BY <1>13 DEF StopWatchdog
<1>14. CASE JoinWatchdog
  BY <1>14 DEF JoinWatchdog
<1>15. CASE DeclareWinner
  BY <1>15 DEF DeclareWinner, Close
<1>16. CASE Exit
  <2>1. \A a \in Agents : Done(a) => Done(a)'
    BY <1>16, TermEffect DEF Exit
  <2> QED
    BY <1>16, <2>1 DEF Exit
<1>17. CASE Reap
  BY <1>17 DEF Reap
<1>18. CASE Poll
  BY <1>18 DEF Poll, Up
<1>19. CASE Scan
  BY <1>19 DEF Scan, Up, Goto
<1>20. CASE Reaped
  BY <1>20 DEF Reaped, Up, Goto
<1>21. CASE ReapingRaises
  BY <1>21 DEF ReapingRaises, Up, Goto
<1>22. CASE EndPass
  BY <1>22 DEF EndPass, Up
<1>23. CASE TreeStep("dog")
  BY <1>23, TreeEffect DEF TreeStep, Calling, Target, Threads
<1>24. ASSUME NEW a \in Agents, SendHeartbeat(a) PROVE ClosedInv'
  BY <1>24 DEF SendHeartbeat, Up
<1>25. ASSUME NEW a \in Agents, Crash(a) PROVE ClosedInv'
  BY <1>25 DEF Crash, Fail, Become, Up
<1>26. ASSUME NEW a \in Agents, Stall(a) PROVE ClosedInv'
  BY <1>26 DEF Stall, Fail, Become, Up
<1>27. ASSUME NEW a \in Agents, Jam(a) PROVE ClosedInv'
  BY <1>27 DEF Jam, Fail, Become, Up
<1>28. CASE Tick
  BY <1>28 DEF Tick
<1>29. CASE UNCHANGED vars
  BY <1>29
<1> QED
  BY <1>1, <1>2, <1>3, <1>4, <1>5, <1>6, <1>7, <1>8, <1>9, <1>10, <1>11, <1>12, <1>13,
     <1>14, <1>15, <1>16, <1>17, <1>18, <1>19, <1>20, <1>21, <1>22, <1>23, <1>24, <1>25,
     <1>26, <1>27, <1>28, <1>29
  DEF Next, JudgeStep, DogStep

LEMMA SupervisionStep ==
  TypeOK /\ SupervisionInv /\ [Next]_vars => TypeOK' /\ SupervisionInv'
BY TypeStep, StartStep, FreshStep, ReapedStep, ClosedStep DEF SupervisionInv

LEMMA InitSupervision == Init => TypeOK /\ SupervisionInv
<1> SUFFICES ASSUME Init PROVE TypeOK /\ SupervisionInv
  OBVIOUS
<1>1. TypeOK
  <2>1. todo \in Seq(Agents)
    BY EmptySeq DEF Init
  <2>2. age \in [Agents -> 0 .. Expired] /\ faults \in 0 .. MaxFaults
    BY SupervisionAssumption DEF Init, Expired
  <2>3. \A t \in Threads : Calling(t) <=> tree[t] # "none"
    BY DEF Init, Calling, Threads
  <2>4. dpc \notin Watching /\ beats \in [Agents -> 0 .. 1]
    BY DEF Init, Watching
  <2> QED
    BY <2>1, <2>2, <2>3, <2>4 DEF Init, TypeOK, Agents
<1>2. StartInv /\ ReapedInv
  BY DEF Init, StartInv, Starting, ReapedInv, Orders
<1>3. FreshInv /\ ClosedInv
  BY DEF Init, FreshInv, ClosedInv, Closing, Pro, Con
<1> QED
  BY <1>1, <1>2, <1>3 DEF SupervisionInv

-------------------------------------------------------------------------------
\* The types, and what the two threads know of each other: a thread is inside
\* terminate_process_tree just when it has called it, and the watchdog has its
\* manager until the process exits, for any timeout and any faults.
THEOREM SupervisionTypes == Spec => []TypeOK
<1> QED
  BY InitSupervision, SupervisionStep, PTL DEF Spec

\* The inductive invariant of the judge's and the watchdog's terminations.
THEOREM Supervised == Spec => []SupervisionInv
<1> QED
  BY InitSupervision, SupervisionStep, PTL DEF Spec

\* When a judgment is being made or is out, every child is gone, unless nothing
\* can kill it, and the watchdog has ended, however the two threads raced.
THEOREM ChildrenGone == Spec => []ClosedMeansGone
<1>1. SupervisionInv => ClosedMeansGone
  BY DEF SupervisionInv, ClosedInv, ClosedMeansGone, Done
<1> QED
  BY <1>1, Supervised, PTL

\* The watchdog terminates no child that runs and, before the judge terminates
\* them, none that it has already waited for.
THEOREM WatchdogSparesTheLiving == Spec => OnlySilentTerminated
<1>1. TypeOK /\ SupervisionInv /\ [Next]_vars =>
        [dpc = "scan" /\ dpc' = "kill" =>
           /\ proc[Head(todo)] # "running"
           /\ path = "none" => proc[Head(todo)] # "gone"]_vars
  <2> SUFFICES ASSUME TypeOK, SupervisionInv, [Next]_vars, dpc = "scan", dpc' = "kill"
               PROVE  /\ proc[Head(todo)] # "running"
                      /\ path = "none" => proc[Head(todo)] # "gone"
    OBVIOUS
  <2>1. Scan
    BY DEF Next, JudgeStep, DogStep, Spawn, Register, FirstHeartbeat, StartWatchdog,
       UpdateHeartbeat, Conclude, ExceedBudget, HandlerRaises, LeaveLoop, IsAlive, TreeStep,
       Calling, Terminated, TerminationRaises, StopWatchdog, JoinWatchdog, DeclareWinner, Exit,
       Reap, Poll, Reaped, ReapingRaises, EndPass, SendHeartbeat, Crash, Stall, Jam, Fail, Tick
  <2>2. todo # <<>> /\ todo \in Orders /\ Head(todo) \in late
    BY <2>1 DEF Scan, SupervisionInv, ReapedInv
  <2>3. proc[Head(todo)] # "running"
    BY <2>2 DEF SupervisionInv, FreshInv
  <2>4. Head(todo) = todo[1] /\ 1 \in DOMAIN todo /\ Head(todo) \in Agents
    BY <2>2, TailOrders DEF Orders
  <2>5. path = "none" => proc[Head(todo)] # "gone"
    BY <2>4 DEF SupervisionInv, ReapedInv
  <2> QED
    BY <2>3, <2>5
<1> QED
  BY <1>1, SupervisionTypes, Supervised, PTL DEF Spec, OnlySilentTerminated

-------------------------------------------------------------------------------
(* The end of the debate. *)

\* As long as nobody terminates the children, the watchdog has all it needs: it is
\* neither asked to stop nor can another thread take a child from under it.
WatchInv ==
  path = "none" =>
    /\ manager /\ ~stopping
    /\ dpc \in {"off"} \cup Watching
    /\ jpc = "loop" => dpc \in Watching
    /\ dpc = "kill" => /\ tree["dog"] # "raised"
                       /\ tree["dog"] \notin {"true", "false"} => proc[Head(todo)] # "gone"

\* Why the judge terminates the children, and where that can have brought it.
Leaving == {"exit", "reap", "exited"}
PathInv ==
  /\ jpc \in Starting => path = "none"
  /\ jpc = "judging" => path \in {"concluded", "truncated"} /\ ~verdict /\ ~manager
  /\ path \in {"concluded", "truncated"} /\ ~verdict => jpc \in Closing \cup {"judging"} \cup Leaving
  /\ path = "ending" => jpc \in Closing \cup Leaving
  /\ verdict => ~manager /\ (path = "ending" \/ (path = "concluded" /\ jpc = "loop"))

LEMMA WatchStep == TypeOK /\ SupervisionInv /\ PathInv /\ WatchInv /\ [Next]_vars => WatchInv'
<1> SUFFICES ASSUME TypeOK, SupervisionInv, PathInv, WatchInv, [Next]_vars PROVE WatchInv'
  OBVIOUS
<1> USE DEF SupervisionInv, TypeOK, StartInv, PathInv, WatchInv, Starting, Closing, Leaving, Watching
<1>1. CASE Spawn
  BY <1>1 DEF Spawn
<1>2. CASE Register
  BY <1>2 DEF Register
<1>3. CASE FirstHeartbeat
  BY <1>3 DEF FirstHeartbeat, Heartbeat
<1>4. CASE StartWatchdog
  BY <1>4 DEF StartWatchdog
<1>5. ASSUME NEW a \in Agents, UpdateHeartbeat(a) PROVE WatchInv'
  BY <1>5 DEF UpdateHeartbeat, Heartbeat, Close
<1>6. CASE Conclude
  BY <1>6 DEF Conclude, LeaveLoop, Close
<1>7. CASE ExceedBudget
  BY <1>7 DEF ExceedBudget, LeaveLoop, Close
<1>8. CASE HandlerRaises
  BY <1>8 DEF HandlerRaises, LeaveLoop, Close
<1>9. CASE IsAlive
  BY <1>9 DEF IsAlive, NextChild
<1>10. CASE TreeStep("judge")
  BY <1>10 DEF TreeStep, Calling
<1>11. CASE Terminated
  BY <1>11 DEF Terminated, NextChild
<1>12. CASE TerminationRaises
  BY <1>12 DEF TerminationRaises, Close
<1>13. CASE StopWatchdog
  BY <1>13 DEF StopWatchdog
<1>14. CASE JoinWatchdog
  BY <1>14 DEF JoinWatchdog
<1>15. CASE DeclareWinner
  BY <1>15 DEF DeclareWinner, Close
<1>16. CASE Exit
  BY <1>16 DEF Exit
<1>17. CASE Reap
  BY <1>17 DEF Reap
<1>18. CASE Poll
  BY <1>18 DEF Poll
<1>19. CASE Scan
  <2>1. path = "none" /\ dpc' = "kill" => proc[Head(todo)] # "gone"
    <3> SUFFICES ASSUME path = "none", dpc' = "kill" PROVE proc[Head(todo)] # "gone"
      OBVIOUS
    <3>1. todo # <<>> /\ todo \in Orders
      BY <1>19 DEF Scan, ReapedInv
    <3>2. Head(todo) = todo[1] /\ 1 \in DOMAIN todo /\ Head(todo) \in Agents
      BY <3>1, TailOrders DEF Orders
    <3>3. dpc = "scan"
      BY <1>19 DEF Scan
    <3> QED BY <3>2, <3>3 DEF ReapedInv
  <2> QED BY <1>19, <2>1 DEF Scan, Goto, Threads
<1>20. CASE Reaped
  BY <1>20 DEF Reaped
<1>21. CASE ReapingRaises
  BY <1>21 DEF ReapingRaises
<1>22. CASE EndPass
  BY <1>22 DEF EndPass
<1>23. CASE TreeStep("dog")
  <2>1. dpc = "kill" /\ Head(todo) \in Agents /\ "dog" \in Threads
    BY <1>23, HeadType DEF TreeStep, Calling, Threads
  <2>2. path = "none" => /\ tree'["dog"] # "raised"
                         /\ tree'["dog"] \notin {"true", "false"} => proc'[Head(todo)] # "gone"
    <3> SUFFICES ASSUME path = "none"
                 PROVE  /\ tree'["dog"] # "raised"
                        /\ tree'["dog"] \notin {"true", "false"} => proc'[Head(todo)] # "gone"
      OBVIOUS
    <3> DEFINE a == Head(todo)
    <3>1. a \in Agents /\ Target("dog") = a
      BY <2>1 DEF Target
    <3>2. tree["dog"] \notin {"true", "false"} => proc[a] # "gone"
      BY <2>1
    <3> HIDE DEF a
    <3>3. CASE Find("dog")
      BY <2>1, <3>1, <3>2, <3>3 DEF Find, Goto
    <3>4. CASE Term("dog")
      <4>1. PICK s \in AfterTerm(proc[a]) : Become(a, s) /\ Goto("dog", "wait")
        BY <3>1, <3>2, <3>4 DEF Term
      <4>2. s # "gone"
        BY <3>1, <3>2, <3>4, <4>1 DEF AfterTerm, Term
      <4>3. tree'["dog"] = "wait"
        BY <2>1, <4>1 DEF Goto
      <4>4. proc'[a] = s
        BY <3>1, <4>1 DEF Become
      <4> QED BY <4>2, <4>3, <4>4 DEF a
    <3>5. CASE Wait("dog")
      BY <2>1, <3>1, <3>2, <3>5 DEF Wait, Goto, Become, Living
    <3>6. CASE Kill("dog")
      BY <2>1, <3>1, <3>2, <3>6 DEF Kill, Goto, Become, Living
    <3>7. CASE FinalCheck("dog")
      BY <2>1, <3>1, <3>2, <3>7 DEF FinalCheck, Goto, Become, Living
    <3> QED BY <1>23, <3>3, <3>4, <3>5, <3>6, <3>7 DEF TreeStep, a
  <2> QED BY <1>23, <2>1, <2>2 DEF TreeStep
<1>24. ASSUME NEW a \in Agents, SendHeartbeat(a) PROVE WatchInv'
  BY <1>24 DEF SendHeartbeat
<1>25. ASSUME NEW a \in Agents, Crash(a) PROVE WatchInv'
  BY <1>25, HeadType DEF Crash, Fail, Become
<1>26. ASSUME NEW a \in Agents, Stall(a) PROVE WatchInv'
  BY <1>26, HeadType DEF Stall, Fail, Become
<1>27. ASSUME NEW a \in Agents, Jam(a) PROVE WatchInv'
  BY <1>27, HeadType DEF Jam, Fail, Become
<1>28. CASE Tick
  BY <1>28 DEF Tick
<1>29. CASE UNCHANGED vars
  BY <1>29
<1> QED
  BY <1>1, <1>2, <1>3, <1>4, <1>5, <1>6, <1>7, <1>8, <1>9, <1>10, <1>11, <1>12, <1>13,
     <1>14, <1>15, <1>16, <1>17, <1>18, <1>19, <1>20, <1>21, <1>22, <1>23, <1>24, <1>25,
     <1>26, <1>27, <1>28, <1>29
  DEF Next, JudgeStep, DogStep

\* Only the judge itself moves on its way.
LEMMA PathStep == TypeOK /\ SupervisionInv /\ PathInv /\ WatchInv /\ [Next]_vars => PathInv'
<1> SUFFICES ASSUME TypeOK, SupervisionInv, PathInv, WatchInv, [Next]_vars PROVE PathInv'
  OBVIOUS
<1> USE DEF SupervisionInv, StartInv, PathInv, WatchInv, Starting, Closing, Leaving
<1>1. CASE UNCHANGED <<judgeVars, manager>>
  BY <1>1
<1>2. CASE Spawn
  BY <1>2 DEF Spawn
<1>3. CASE Register
  BY <1>3 DEF Register
<1>4. CASE FirstHeartbeat
  BY <1>4 DEF FirstHeartbeat
<1>5. CASE StartWatchdog
  BY <1>5 DEF StartWatchdog
<1>6. ASSUME NEW a \in Agents, UpdateHeartbeat(a) PROVE PathInv'
  BY <1>6 DEF UpdateHeartbeat, Close
<1>7. ASSUME NEW why \in {"concluded", "truncated", "ending"}, LeaveLoop(why) PROVE PathInv'
  BY <1>7 DEF LeaveLoop, Close
<1>8. CASE IsAlive
  BY <1>8 DEF IsAlive, NextChild
<1>9. CASE Terminated
  BY <1>9 DEF Terminated, NextChild
<1>10. CASE TerminationRaises
  BY <1>10 DEF TerminationRaises, Close
<1>11. CASE StopWatchdog
  BY <1>11 DEF StopWatchdog
<1>12. CASE JoinWatchdog
  BY <1>12 DEF JoinWatchdog, TypeOK
<1>13. CASE DeclareWinner
  BY <1>13 DEF DeclareWinner, Close, ClosedInv
<1>14. CASE Exit
  BY <1>14 DEF Exit
<1>15. CASE Reap
  BY <1>15 DEF Reap
<1> QED
  BY <1>1, <1>2, <1>3, <1>4, <1>5, <1>6, <1>7, <1>8, <1>9, <1>10, <1>11, <1>12, <1>13,
     <1>14, <1>15
  DEF Next, JudgeStep, DogStep, Conclude, ExceedBudget, HandlerRaises, TreeStep, Poll, Scan,
      Reaped, ReapingRaises, EndPass, SendHeartbeat, Crash, Stall, Jam, Fail, Tick

LEMMA InitEnd == Init => WatchInv /\ PathInv
BY DEF Init, WatchInv, PathInv, Starting, Closing, Leaving, Watching

\* The variables of DebateEnd, in those of this module.
Killable(a) == proc[a] \in {"running", "stalled"}
Watched == dpc \in Watching

LEMMA EndKept ==
  ASSUME Stage' = Stage, Watched' <=> Watched, \A a \in Agents : Killable(a)' <=> Killable(a)
  PROVE  UNCHANGED End!vars
<1>1. UNCHANGED {a \in Agents : proc[a] \in {"running", "stalled"}}
  BY DEF Killable
<1>2. UNCHANGED (dpc \in Watching)
  BY DEF Watched
<1> QED BY <1>1, <1>2 DEF End!vars

LEMMA EndLoses ==
  ASSUME Stage' = Stage, Watched' <=> Watched, NEW a \in Agents,
         \A b \in Agents \ {a} : proc'[b] = proc[b], Killable(a)' => Killable(a)
  PROVE  [End!Next]_End!vars
<1> DEFINE A == {b \in Agents : proc[b] \in {"running", "stalled"}}
<1>1. \A b \in Agents \ {a} : Killable(b)' <=> Killable(b)
  BY DEF Killable
<1>2. CASE Killable(a)' <=> Killable(a)
  BY <1>1, <1>2, EndKept
<1>3. CASE ~(Killable(a)' <=> Killable(a))
  <2>1. a \in A /\ A' = A \ {a}
    BY <1>1, <1>3 DEF Killable
  <2>2. UNCHANGED (dpc \in Watching)
    BY DEF Watched
  <2>3. End!Lose(a)
    BY <2>1, <2>2 DEF End!Lose
  <2> QED BY <2>1, <2>3 DEF End!Next
<1> QED BY <1>2, <1>3

LEMMA EndOver ==
  ASSUME Stage' = "over", Watched' => Watched, \A a \in Agents : Killable(a)' => Killable(a)
  PROVE  [End!Next]_End!vars
<1>1. {a \in Agents : proc[a] \in {"running", "stalled"}}'
        \subseteq {a \in Agents : proc[a] \in {"running", "stalled"}}
  BY DEF Killable
<1>2. (dpc \in Watching)' \in BOOLEAN /\ ((dpc \in Watching)' => dpc \in Watching)
  BY DEF Watched
<1> QED BY <1>1, <1>2 DEF End!Next, End!End

\* The watchdog ends only when the judge is terminating the children, or later.
LEMMA EndUnwatched ==
  ASSUME SupervisionInv, PathInv, path # "none", Watched, ~Watched', UNCHANGED <<judgeVars, proc>>
  PROVE  [End!Next]_End!vars
<1>1. Stage' = Stage
  BY DEF Stage
<1>2. \A a \in Agents : Killable(a)' <=> Killable(a)
  BY DEF Killable
<1>3. Stage \in {"closing", "over"}
  BY DEF Stage, SupervisionInv, StartInv, ClosedInv, Watched, Watching, Starting
<1>4. CASE Stage = "closing"
  <2>1. (dpc \in Watching)' = FALSE
    BY DEF Watched
  <2>2. UNCHANGED {a \in Agents : proc[a] \in {"running", "stalled"}}
    OBVIOUS
  <2> QED BY <1>1, <1>4, <2>1, <2>2 DEF End!Next, End!Unwatch
<1>5. CASE Stage = "over"
  BY <1>1, <1>2, <1>5, EndOver
<1> QED BY <1>3, <1>4, <1>5

\* What the judge and the watchdog do is what DebateEnd does in one step, or nothing.
LEMMA EndStep ==
  ASSUME TypeOK, SupervisionInv, SupervisionInv', PathInv, WatchInv, [Next]_vars
  PROVE  [End!Next]_End!vars
<1> USE DEF SupervisionInv, StartInv, PathInv, Starting, Closing, Leaving
<1>1. CASE Spawn
  <2>1. Stage = "before" /\ Stage' = "open"
    BY <1>1 DEF Spawn, Stage
  <2>2. {a \in Agents : proc[a] \in {"running", "stalled"}}' = Agents
    BY <1>1 DEF Spawn
  <2>3. (dpc \in Watching)' \in BOOLEAN
    OBVIOUS
  <2> QED BY <2>1, <2>2, <2>3 DEF End!Next, End!Spawn, End!Moves
<1>2. CASE Register \/ FirstHeartbeat
  <2>1. Stage' = Stage
    BY <1>2 DEF Register, FirstHeartbeat, Stage
  <2> QED BY <1>2, <2>1, EndKept DEF Register, FirstHeartbeat, Watched, Killable
<1>3. CASE StartWatchdog
  <2>1. Stage = "open" /\ Stage' = "open"
    BY <1>3 DEF StartWatchdog, Stage
  <2>2. (dpc \in Watching)' = TRUE
    BY <1>3 DEF StartWatchdog, Watching
  <2>3. UNCHANGED {a \in Agents : proc[a] \in {"running", "stalled"}}
    BY <1>3 DEF StartWatchdog
  <2> QED BY <2>1, <2>2, <2>3 DEF End!Next, End!Watch
<1>4. ASSUME NEW a \in Agents, UpdateHeartbeat(a) PROVE [End!Next]_End!vars
  <2>1. Stage' = Stage
    BY <1>4 DEF UpdateHeartbeat, Close, WatchInv, Stage, TypeOK
  <2> QED BY <1>4, <2>1, EndKept DEF UpdateHeartbeat, Watched, Killable
<1>5. ASSUME NEW why \in {"concluded", "truncated"}, LeaveLoop(why) PROVE [End!Next]_End!vars
  <2>1. Stage = "open" /\ Stage' = "closing"
    BY <1>5 DEF LeaveLoop, Close, Stage
  <2>2. (dpc \in Watching) /\ UNCHANGED (dpc \in Watching)
    BY <1>5 DEF LeaveLoop, WatchInv
  <2>3. UNCHANGED {a \in Agents : proc[a] \in {"running", "stalled"}}
    BY <1>5 DEF LeaveLoop
  <2> QED BY <2>1, <2>2, <2>3 DEF End!Next, End!Close, End!Moves
<1>6. CASE LeaveLoop("ending")
  <2>1. Stage' = "over"
    BY <1>6 DEF LeaveLoop, Close, Stage
  <2> QED BY <1>6, <2>1, EndOver DEF LeaveLoop, Watched, Killable
<1>7. CASE IsAlive
  <2>1. Stage' = Stage
    BY <1>7 DEF IsAlive, NextChild, Stage
  <2>2. \A a \in Agents : Killable(a)' <=> Killable(a)
    BY <1>7 DEF IsAlive, Become, Killable, TypeOK
  <2> QED BY <1>7, <2>1, <2>2, EndKept DEF IsAlive, Watched
<1>8. ASSUME NEW t \in Threads, TreeStep(t) PROVE [End!Next]_End!vars
  <2>1. jpc # "spawn" /\ Stage' = Stage
    BY <1>8 DEF TreeStep, Calling, Stage, Threads
  <2>2. PICK a \in Agents : a = Target(t)
    BY <1>8, TreeEffect
  <2>3. /\ \A b \in Agents \ {a} : proc'[b] = proc[b]
        /\ proc'[a] \in {"unborn", "zombie", "gone"} \cup Living
        /\ proc[a] \in {"zombie", "gone", "stuck"} => proc'[a] \in {"zombie", "gone", "stuck"}
    BY <1>8, <2>2, TreeEffect
  <2>4. proc[a] \in {"zombie", "gone"} \cup Living
    BY <2>1 DEF TypeOK
  <2>5. Killable(a)' => Killable(a)
    BY <2>3, <2>4 DEF Killable, Living
  <2> QED BY <1>8, <2>1, <2>3, <2>5, EndLoses DEF TreeStep, Watched
<1>9. CASE Terminated
  <2>1. Stage' = Stage
    BY <1>9 DEF Terminated, NextChild, Stage
  <2> QED BY <1>9, <2>1, EndKept DEF Terminated, Watched, Killable
<1>10. CASE TerminationRaises
  <2>1. Stage' = "over"
    BY <1>10 DEF TerminationRaises, Close, Stage
  <2> QED BY <1>10, <2>1, EndOver DEF TerminationRaises, Watched, Killable
<1>11. CASE StopWatchdog
  <2>1. Stage' = Stage
    BY <1>11 DEF StopWatchdog, Stage
  <2> QED BY <1>11, <2>1, EndKept DEF StopWatchdog, Watched, Killable
<1>12. CASE JoinWatchdog
  <2>1. CASE path = "ending"
    <3>1. Stage' = "over"
      BY <1>12, <2>1 DEF JoinWatchdog, Stage
    <3> QED BY <1>12, <3>1, EndOver DEF JoinWatchdog, Watched, Killable
  <2>2. CASE path # "ending"
    <3>1. Stage = "closing" /\ Stage' = "closed"
      BY <1>12, <2>2 DEF JoinWatchdog, Stage, TypeOK
    <3>2. {a \in Agents : proc[a] \in {"running", "stalled"}} = {}
      BY <1>12 DEF JoinWatchdog, ClosedInv, Done
    <3>3. (dpc \in Watching)' = FALSE
      BY <1>12 DEF JoinWatchdog
    <3>4. UNCHANGED {a \in Agents : proc[a] \in {"running", "stalled"}}
      BY <1>12 DEF JoinWatchdog
    <3> QED BY <3>1, <3>2, <3>3, <3>4 DEF End!Next, End!Closed, End!Moves
  <2> QED BY <2>1, <2>2
<1>13. CASE DeclareWinner
  <2>1. Stage = "closed" /\ Stage' = "judged"
    BY <1>13 DEF DeclareWinner, Close, Stage
  <2>2. UNCHANGED <<{a \in Agents : proc[a] \in {"running", "stalled"}}, dpc \in Watching>>
    BY <1>13 DEF DeclareWinner
  <2> QED BY <2>1, <2>2 DEF End!Next, End!Judge, End!Moves
<1>14. CASE Exit
  <2>1. Stage' = "over"
    BY <1>14 DEF Exit, Stage
  <2>2. \A a \in Agents : Killable(a)' => Killable(a)
    <3> TAKE a \in Agents
    <3>1. proc[a] \in {"zombie", "gone"} \cup Living /\ proc'[a] \in AfterTerm(proc[a])
      BY <1>14 DEF Exit, TypeOK
    <3>2. proc[a] \in {"zombie", "gone", "stuck"} => proc'[a] = proc[a]
      BY <3>1, TermEffect
    <3> QED BY <3>1, <3>2 DEF Killable, Living
  <2> QED BY <1>14, <2>1, <2>2, EndOver DEF Exit, Watched
<1>15. CASE Reap
  <2>1. Stage' = "over"
    BY <1>15 DEF Reap, Stage
  <2> QED BY <1>15, <2>1, EndOver DEF Reap, Watched, Killable
<1>16. CASE UNCHANGED <<judgeVars, proc>> /\ (Watched' <=> Watched)
  <2>1. Stage' = Stage
    BY <1>16 DEF Stage
  <2> QED BY <1>16, <2>1, EndKept DEF Killable
<1>17. CASE UNCHANGED <<judgeVars, proc>> /\ Watched /\ ~Watched' /\ path # "none"
  BY <1>17, EndUnwatched
<1>18. CASE Poll \/ Scan \/ Reaped \/ ReapingRaises \/ EndPass
  <2>1. Watched /\ UNCHANGED <<judgeVars, proc>>
    BY <1>18 DEF Poll, Scan, Reaped, ReapingRaises, EndPass, Watched, Watching
  <2>2. ~Watched' => path # "none"
    BY <1>18 DEF Poll, Scan, Reaped, ReapingRaises, EndPass, Watched, Watching, WatchInv
  <2> QED BY <1>16, <1>17, <2>1, <2>2
<1>19. ASSUME NEW a \in Agents, Crash(a) \/ Stall(a) \/ Jam(a) PROVE [End!Next]_End!vars
  <2>1. PICK s \in {"zombie", "stalled", "stuck"} : proc' = [proc EXCEPT ![a] = s]
    BY <1>19 DEF Crash, Stall, Jam, Fail, Become
  <2>2. proc[a] = "running" /\ UNCHANGED <<judgeVars, dpc>>
    BY <1>19 DEF Crash, Stall, Jam, Fail
  <2>3. \A b \in Agents \ {a} : proc'[b] = proc[b]
    BY <2>1 DEF TypeOK
  <2>4. Stage' = Stage /\ Watched' = Watched /\ Killable(a)
    BY <2>2 DEF Stage, Watched, Killable
  <2> QED BY <2>3, <2>4, EndLoses
<1>20. ASSUME NEW a \in Agents, SendHeartbeat(a) PROVE [End!Next]_End!vars
  BY <1>16, <1>20 DEF SendHeartbeat, Watched
<1>21. CASE Tick
  BY <1>16, <1>21 DEF Tick, Watched
<1>22. CASE UNCHANGED vars
  BY <1>16, <1>22 DEF Watched
<1> QED
  BY <1>1, <1>2, <1>3, <1>4, <1>5, <1>6, <1>7, <1>8, <1>9, <1>10, <1>11, <1>12, <1>13, <1>14,
     <1>15, <1>18, <1>19, <1>20, <1>21, <1>22
  DEF Next, JudgeStep, DogStep, Conclude, ExceedBudget, HandlerRaises, Threads

\* The calls of the two threads, and whatever they raise, implement DebateEnd: closing
\* begins under the watchdog's eyes, and the judge judges once, behind an ended watchdog
\* and children of which none is left that can be killed.
THEOREM SupervisionEndsInOrder == Spec => EndsInOrder
<1>1. Init => WatchInv /\ PathInv /\ End!Init
  <2>1. Init => Stage = "before"
    BY DEF Init, Stage
  <2>2. Init => {a \in Agents : proc[a] \in {"running", "stalled"}} = {}
    BY DEF Init
  <2>3. Init => (dpc \in Watching) = FALSE
    BY DEF Init, Watching
  <2> QED BY <2>1, <2>2, <2>3, InitEnd DEF End!Init
<1>2. TypeOK /\ SupervisionInv /\ WatchInv /\ PathInv /\ [Next]_vars => WatchInv' /\ PathInv'
  BY WatchStep, PathStep
<1>3. TypeOK /\ SupervisionInv /\ SupervisionInv' /\ PathInv /\ WatchInv /\ [Next]_vars
        => [End!Next]_End!vars
  BY EndStep
<1> QED
  BY <1>1, <1>2, <1>3, SupervisionTypes, Supervised, PTL DEF Spec, EndsInOrder, End!Spec
==============================================================================

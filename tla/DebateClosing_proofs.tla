------------------------- MODULE DebateClosing_proofs -------------------------
(***************************************************************************)
(* Theorems about the end of a debate: the verdict, the checkpoint, and the *)
(* children that may be left.                                              *)
(***************************************************************************)
EXTENDS Debate_proofs, FiniteSetTheorems

USE DEF vars, judgeVars, debateVars, watchVars, childVars, queueVars, sessionVars

Closed == \A a \in Agents : ~Alive(a)

\* From the moment the judge has closed the debate nobody is to speak, and once
\* a judgment is out the judge does not close it for another one.
ClosingInv ==
  /\ jpc \in {"topic", "spawn"} => Closed
  /\ jpc = "start" => dog = "on"
  /\ jpc \in {"closing", "judging"} => active = NoAgent
  /\ jpc = "judging" => Closed /\ dog = "stopped" /\ ~Judged
  /\ jpc = "closing" /\ then = "judging" => ~Judged
  /\ jpc = "loop" /\ dog = "stopped" => active = NoAgent
  /\ Judged => Closed /\ dog = "stopped" /\ jpc \in {"loop", "closing", "exited"}
  /\ \A i, j \in SentJudgments : i = j
  /\ verdict # "none" => SentJudgments = {}
  /\ outcome = "polling" => verdict = "none"
  /\ outcome \in {"joining", "returned"} => verdict # "none"

\* If neither the judge nor the caller's handler fails, the judge's process
\* ends only when its children have.
OrphanInv ==
  /\ Ended => jpc = "exited"
  /\ jpc = "exited" => Closed

-------------------------------------------------------------------------------
(* The verdict. *)

\* Queueing an event that is not a judgment leaves the judgments as they are, ...
LEMMA AppendOther ==
  ASSUME TypeOK, NEW e \in Events, e.kind \notin Judgments,
         outbound' = Append(outbound, e)
  PROVE  SentJudgments' = SentJudgments
<1>1. /\ Len(outbound') = Len(outbound) + 1 /\ Len(outbound) \in Nat
      /\ \A i \in 1 .. Len(outbound) : outbound'[i] = outbound[i]
      /\ outbound'[Len(outbound) + 1] = e
  BY AppendTo DEF TypeOK
<1> QED
  BY <1>1 DEF SentJudgments

\* ... receiving one moves them one place up, ...
LEMMA TailJudgments ==
  ASSUME TypeOK, outbound # <<>>, outbound' = Tail(outbound)
  PROVE  \A i : i \in SentJudgments' => i + 1 \in SentJudgments /\ i \in Nat \ {0}
<1>1. /\ Len(outbound') = Len(outbound) - 1 /\ Len(outbound) \in Nat
      /\ \A i \in 1 .. Len(outbound') : outbound'[i] = outbound[i + 1]
  BY HeadTailProperties DEF TypeOK
<1> QED
  BY <1>1 DEF SentJudgments

\* ... and a killed judge leaves some of them.
LEMMA PrefixJudgments ==
  ASSUME TypeOK, NEW n \in 0 .. Len(outbound), outbound' = SubSeq(outbound, 1, n)
  PROVE  SentJudgments' \subseteq SentJudgments
<1>1. /\ Len(outbound') = n /\ n \in Nat /\ Len(outbound) \in Nat /\ n <= Len(outbound)
      /\ \A i \in 1 .. n : outbound'[i] = outbound[i]
  BY SubSeqProperties DEF TypeOK
<1> QED
  BY <1>1 DEF SentJudgments

\* Most steps leave the judge where it is and revive nobody.
LEMMA KeepClosing ==
  ASSUME ClosingInv, UNCHANGED <<jpc, then, active, dog, verdict, outcome>>,
         \A a \in Agents : Alive(a)' => Alive(a),
         SentJudgments' \subseteq SentJudgments
  PROVE  ClosingInv'
BY DEF ClosingInv, Closed, Judged

LEMMA ClosingStep == TypeOK /\ ClosingInv /\ [Next]_vars => ClosingInv'
<1> SUFFICES ASSUME TypeOK, ClosingInv, [Next]_vars PROVE ClosingInv'
  OBVIOUS
<1>a. ASSUME UNCHANGED child PROVE Closed' = Closed /\ \A a \in Agents : Alive(a)' = Alive(a)
  BY <1>a DEF Closed, Alive
<1>b. ASSUME UNCHANGED outbound PROVE SentJudgments' = SentJudgments
  BY <1>b DEF SentJudgments
<1>c. ASSUME UNCHANGED <<outbound, verdict>> PROVE Judged' = Judged
  BY <1>c DEF SentJudgments, Judged
<1>1. CASE TopicAttemptFails
  BY <1>1, <1>a, <1>b, <1>c DEF TopicAttemptFails, ClosingInv
<1>2. CASE TopicChosen
  BY <1>2, <1>a, <1>b, <1>c DEF TopicChosen, ClosingInv
<1>3. CASE SpawnChildren
  BY <1>3, <1>b, <1>c DEF SpawnChildren, ClosingInv
<1>4. CASE StartDebate
  <2>1. [kind |-> "topic", agent |-> NoAgent, round |-> 0] \in Events
    BY DEF Events
  <2>2. SentJudgments' = SentJudgments
    BY <1>4, <2>1, AppendOther DEF StartDebate, Judgments
  <2> QED
    BY <1>4, <1>a, <2>2 DEF StartDebate, ClosingInv, Judged
<1>5. CASE HandleHeartbeat
  BY <1>5, <1>a, <1>b, KeepClosing DEF HandleHeartbeat, UpdateHeartbeat
<1>6. CASE HandleTelemetry
  <2>1. Received \in Events /\ Received.kind \notin Judgments
    BY <1>6, HeadTailProperties, MessageFields DEF HandleTelemetry, Takes, Received,
       TypeOK, Judgments
  <2>2. SentJudgments' = SentJudgments
    BY <1>6, <2>1, AppendOther DEF HandleTelemetry
  <2> QED
    BY <1>6, <1>a, <2>2, KeepClosing DEF HandleTelemetry, UpdateHeartbeat
<1>7. CASE HandleOutOfTurn
  BY <1>7, <1>a, <1>b, KeepClosing DEF HandleOutOfTurn, UpdateHeartbeat
<1>8. CASE HandleArgument
  <2>1. Received \in Events /\ Received.kind \notin Judgments
    BY <1>8, HeadTailProperties, MessageFields DEF HandleArgument, Takes, Received,
       TypeOK, Judgments
  <2>2. SentJudgments' = SentJudgments
    BY <1>8, <2>1, AppendOther DEF HandleArgument
  <2>3. jpc = "loop" /\ dog # "stopped" /\ dog' = dog /\ ~Judged /\ ~Judged'
    BY <1>8, <2>2 DEF HandleArgument, Takes, UpdateHeartbeat, ClosingInv, Judged
  <2>4. CASE UNCHANGED judgeVars
    BY <1>8, <2>2, <2>3, <2>4 DEF HandleArgument, ClosingInv
  <2>5. CASE Conclude
    BY <1>8, <2>2, <2>3, <2>5 DEF HandleArgument, Conclude, ClosingInv
  <2> QED
    BY <1>8, <2>4, <2>5 DEF HandleArgument
<1>9. CASE HandleAfterShutdown
  BY <1>9, <1>a, <1>b, <1>c DEF HandleAfterShutdown, ClosingInv
<1>10. CASE BudgetFailure
  BY <1>10, <1>a, <1>b, <1>c DEF BudgetFailure, Takes, ClosingInv
<1>11. ASSUME NEW a \in Agents, TerminateChild(a) PROVE ClosingInv'
  BY <1>11, <1>b, KeepClosing DEF TerminateChild, Alive, TypeOK, LiveStates
<1>12. CASE StopWatchdog
  BY <1>12, <1>a, <1>b, <1>c DEF StopWatchdog, ClosingInv, Closed, TypeOK
<1>13. CASE EvaluationFails
  BY <1>13, <1>a, <1>b, KeepClosing DEF EvaluationFails
<1>14. CASE DeclareWinner
  <2>1. ~Judged /\ Closed /\ Closed' /\ dog = "stopped" /\ dog' = "stopped" /\ verdict' = "none"
          /\ active' = NoAgent /\ SentJudgments = {} /\ outcome' = outcome
    BY <1>14, <1>a DEF DeclareWinner, ClosingInv, Judged
  <2>2. Len(outbound') = Len(outbound) + 1 /\ Len(outbound) \in Nat
          /\ \A i \in 1 .. Len(outbound) : outbound'[i] = outbound[i]
    BY <1>14 DEF DeclareWinner, TypeOK
  <2>3. SentJudgments' \subseteq {Len(outbound) + 1}
    BY <2>1, <2>2 DEF SentJudgments
  <2>4. jpc' = "loop" \/ (jpc' = "closing" /\ then' = "exited")
    BY <1>14 DEF DeclareWinner
  <2>5. outcome \notin {"joining", "returned"}
    BY <2>1 DEF ClosingInv, Judged
  <2> QED
    BY <2>1, <2>3, <2>4, <2>5 DEF ClosingInv
<1>15. CASE JudgeKilled
  <2>1. SentJudgments' \subseteq SentJudgments
    BY <1>15, PrefixJudgments DEF JudgeKilled
  <2> QED
    BY <1>15, <1>a, <2>1 DEF JudgeKilled, ClosingInv, Judged
<1>16. ASSUME NEW a \in Agents, TakePrompt(a) PROVE ClosingInv'
  BY <1>16, <1>b, KeepClosing DEF TakePrompt, Alive, TypeOK, LiveStates
<1>17. ASSUME NEW a \in Agents, Generate(a) PROVE ClosingInv'
  BY <1>17, <1>b, KeepClosing DEF Generate, Alive, TypeOK, LiveStates
<1>18. ASSUME NEW a \in Agents, ExceedBudget(a) PROVE ClosingInv'
  BY <1>18, <1>b, KeepClosing DEF ExceedBudget, Alive, TypeOK, LiveStates
<1>19. ASSUME NEW a \in Agents, Emit(a) PROVE ClosingInv'
  BY <1>19, <1>b, KeepClosing DEF Emit, Alive, TypeOK, LiveStates
<1>20. ASSUME NEW a \in Agents, DropReply(a) PROVE ClosingInv'
  BY <1>20, <1>b, KeepClosing DEF DropReply, Alive, TypeOK, LiveStates
<1>21. ASSUME NEW a \in Agents, RejectReply(a) PROVE ClosingInv'
  BY <1>21, <1>b, KeepClosing DEF RejectReply, Alive, TypeOK, LiveStates
<1>22. ASSUME NEW a \in Agents, Heartbeat(a) PROVE ClosingInv'
  BY <1>22, <1>a, <1>b, KeepClosing DEF Heartbeat
<1>23. ASSUME NEW a \in Agents, Stall(a) \/ Crash(a) PROVE ClosingInv'
  BY <1>23, <1>b, KeepClosing DEF Stall, Crash, Fail, Healthy, Alive, TypeOK, LiveStates
<1>24. ASSUME NEW a \in Agents, ReapSilent(a) PROVE ClosingInv'
  BY <1>24, <1>b, KeepClosing DEF ReapSilent, Alive, TypeOK, LiveStates
<1>25. CASE Tick
  BY <1>25, <1>a, <1>b, KeepClosing DEF Tick
<1>26. CASE Receive
  <2>1. \A i : i \in SentJudgments' => i + 1 \in SentJudgments /\ i \in Nat \ {0}
    BY <1>26, TailJudgments DEF Receive
  <2>2. verdict = "none" /\ outcome = "polling"
    BY <1>26 DEF Receive, ClosingInv
  <2>3. CASE Head(outbound).kind \in Judgments
    <3>1. 1 \in SentJudgments /\ verdict' # "none" /\ outcome' = "joining" /\ Judged
      BY <1>26, <2>3, HeadTailProperties, EmptySeq DEF Receive, SentJudgments, TypeOK,
         Judgments, Judged
    <3>2. SentJudgments' = {}
      BY <2>1, <3>1 DEF ClosingInv
    <3> QED
      BY <1>26, <1>a, <3>1, <3>2 DEF Receive, ClosingInv, Judged
  <2>4. CASE Head(outbound).kind \notin Judgments
    <3>1. verdict' = verdict /\ outcome' = outcome /\ (Judged' => Judged)
      BY <1>26, <2>1, <2>4 DEF Receive, Judged
    <3>2. \A i, j \in SentJudgments' : i = j
      BY <2>1 DEF ClosingInv
    <3> QED
      BY <1>26, <1>a, <2>2, <3>1, <3>2 DEF Receive, ClosingInv
  <2> QED
    BY <2>3, <2>4
<1>27. CASE GiveUp
  BY <1>27, <1>a, <1>b, <1>c DEF GiveUp, ClosingInv
<1>28. CASE Finish
  BY <1>28, <1>a, <1>b, <1>c DEF Finish, ClosingInv
<1>29. CASE HandlerRaises
  <2>1. \A i : i \in SentJudgments' => i + 1 \in SentJudgments /\ i \in Nat \ {0}
    BY <1>29, TailJudgments DEF HandlerRaises
  <2>2. verdict' = "none" /\ (Judged' => Judged)
    BY <1>29, <2>1 DEF HandlerRaises, ClosingInv, Judged
  <2>3. \A i, j \in SentJudgments' : i = j
    BY <2>1 DEF ClosingInv
  <2> QED
    BY <1>29, <1>a, <2>2, <2>3 DEF HandlerRaises, ClosingInv
<1>30. CASE UNCHANGED vars
  BY <1>30, <1>a, <1>b, KeepClosing
<1> QED
  BY <1>1, <1>2, <1>3, <1>4, <1>5, <1>6, <1>7, <1>8, <1>9, <1>10, <1>11, <1>12, <1>13,
     <1>14, <1>15, <1>16, <1>17, <1>18, <1>19, <1>20, <1>21, <1>22, <1>23, <1>24, <1>25,
     <1>26, <1>27, <1>28, <1>29, <1>30
  DEF Next, JudgeStep, ChildStep, SessionStep, Over

LEMMA InitClosing == Init => ClosingInv
BY DEF Init, ClosingInv, Closed, Alive, LiveStates, SentJudgments, Judged

\* The inductive invariant of the end of a debate.
THEOREM DebateClosing == Spec => []ClosingInv
<1>1. TypeOK /\ ClosingInv /\ [Next]_vars => TypeOK' /\ ClosingInv'
  BY TypeStep, ClosingStep
<1> QED
  BY <1>1, InitType, InitClosing, PTL DEF Spec
-------------------------------------------------------------------------------
(* What the verdict means. *)

\* Who writes the outbound queue.
LEMMA OutboundStep ==
  [Next]_vars =>
    StartDebate \/ HandleTelemetry \/ HandleArgument \/ DeclareWinner \/ JudgeKilled
      \/ Receive \/ HandlerRaises \/ UNCHANGED outbound
BY DEF Next, JudgeStep, ChildStep, SessionStep, Over, TopicAttemptFails, TopicChosen,
   SpawnChildren, HandleHeartbeat, HandleOutOfTurn, HandleAfterShutdown, BudgetFailure,
   TerminateChild, StopWatchdog, EvaluationFails, TakePrompt, Generate, ExceedBudget, Emit,
   DropReply, RejectReply, Heartbeat, Stall, Crash, Fail, Tick, ReapSilent, GiveUp, Finish

\* There is one judgment at most, and when it is out no child is alive: for any
\* number of rounds and any faults, a killed judge or a full queue included.
THEOREM VerdictIsLast == Spec => []VerdictClosesDebate
<1>1. ClosingInv => VerdictClosesDebate
  <2> SUFFICES ASSUME ClosingInv, Judged
               PROVE  /\ \A a \in Agents : ~Alive(a)
                      /\ Cardinality(SentJudgments) + (IF verdict = "none" THEN 0 ELSE 1) = 1
    BY DEF VerdictClosesDebate
  <2>1. CASE verdict # "none"
    <3>1. Cardinality(SentJudgments) = 0
      BY <2>1, FS_EmptySet DEF ClosingInv
    <3> QED
      BY <2>1, <3>1 DEF ClosingInv, Closed
  <2>2. CASE verdict = "none"
    <3>1. PICK i \in SentJudgments : TRUE
      BY <2>2 DEF Judged
    <3>2. SentJudgments = {i}
      BY <3>1 DEF ClosingInv
    <3>3. Cardinality(SentJudgments) = 1
      BY <3>2, FS_Singleton
    <3> QED
      BY <2>2, <3>3 DEF ClosingInv, Closed
  <2> QED
    BY <2>1, <2>2
<1> QED
  BY <1>1, DebateClosing, PTL

\* Once a judgment is out the outbound queue only gets shorter: nothing the
\* children left behind is streamed after it.
THEOREM NothingAfterJudgment == Spec => JudgmentIsLastWord
<1>1. TypeOK /\ ClosingInv /\ [Next]_vars =>
        [Judged => Len(outbound') <= Len(outbound)]_vars
  <2> SUFFICES ASSUME TypeOK, ClosingInv, [Next]_vars, Judged
               PROVE  Len(outbound') <= Len(outbound)
    OBVIOUS
  <2>1. Len(outbound) \in Nat
    BY DEF TypeOK
  <2>2. dog = "stopped" /\ jpc \in {"loop", "closing", "exited"}
    BY DEF ClosingInv
  <2>3. ~StartDebate /\ ~HandleTelemetry /\ ~HandleArgument /\ ~DeclareWinner
    BY <2>2 DEF StartDebate, HandleTelemetry, HandleArgument, DeclareWinner, UpdateHeartbeat
  <2>4. CASE JudgeKilled
    <3>1. PICK n \in 0 .. Len(outbound) : outbound' = SubSeq(outbound, 1, n)
      BY <2>4 DEF JudgeKilled
    <3>2. Len(outbound') = n
      BY <3>1, <2>1, SubSeqProperties DEF TypeOK
    <3> QED
      BY <2>1, <3>2
  <2>5. CASE Receive \/ HandlerRaises
    <3>1. outbound # <<>> /\ outbound' = Tail(outbound)
      BY <2>5 DEF Receive, HandlerRaises
    <3> QED
      BY <2>1, <3>1, HeadTailProperties DEF TypeOK
  <2>6. CASE UNCHANGED outbound
    BY <2>1, <2>6
  <2> QED
    BY <2>3, <2>4, <2>5, <2>6, OutboundStep
<1> QED
  BY <1>1, DebateTypes, DebateClosing, PTL DEF Spec, JudgmentIsLastWord

-------------------------------------------------------------------------------
(* The checkpoint. *)

\* Who writes the ledger and the checkpoint.
LEMMA LedgerStep == [Next]_vars => HandleArgument \/ UNCHANGED <<ledger, saved>>
BY DEF Next, JudgeStep, ChildStep, SessionStep, Over, TopicAttemptFails, TopicChosen,
   SpawnChildren, StartDebate, HandleHeartbeat, HandleTelemetry, HandleOutOfTurn,
   HandleAfterShutdown, BudgetFailure, TerminateChild, StopWatchdog, EvaluationFails,
   DeclareWinner, JudgeKilled, TakePrompt, Generate, ExceedBudget, Emit, DropReply,
   RejectReply, Heartbeat, Stall, Crash, Fail, Tick, ReapSilent, Receive, GiveUp, Finish,
   HandlerRaises

LEMMA PrefixOfAppend ==
  ASSUME NEW S, NEW s \in Seq(S), NEW e \in S, NEW n \in 0 .. Len(s)
  PROVE  SubSeq(Append(s, e), 1, n) = SubSeq(s, 1, n)
<1> DEFINE t == Append(s, e)
<1>1. Len(s) \in Nat /\ n \in Int /\ \A i \in 1 .. n : t[i] = s[i] /\ s[i] \in S
  OBVIOUS
<1> HIDE DEF t
<1>2. /\ SubSeq(t, 1, n) \in Seq(S) /\ SubSeq(s, 1, n) \in Seq(S)
      /\ Len(SubSeq(t, 1, n)) = Len(SubSeq(s, 1, n))
      /\ \A i \in 1 .. n - 1 + 1 : SubSeq(t, 1, n)[i] = SubSeq(s, 1, n)[i]
  BY <1>1, SubSeqProperties
<1>3. Len(SubSeq(s, 1, n)) = n
  BY <1>1, SubSeqProperties
<1> QED
  BY <1>1, <1>2, <1>3, SeqEqual DEF t

LEMMA CheckpointStep ==
  TypeOK /\ TypeOK' /\ TurnInv /\ TurnInv' /\ CheckpointConsistent /\ [Next]_vars
    => CheckpointConsistent'
<1> SUFFICES ASSUME TypeOK, TypeOK', TurnInv, TurnInv', CheckpointConsistent, HandleArgument
             PROVE  CheckpointConsistent'
  BY LedgerStep DEF CheckpointConsistent
<1> DEFINE t == [agent |-> Received.agent, round |-> Received.round]
<1> DEFINE n == Len(saved.ledger)
<1> DEFINE k == Len(ledger)
<1>1. t \in Turns
  BY HeadTailProperties, MessageFields DEF HandleArgument, Takes, Received, TypeOK
<1>2. /\ ledger' = Append(ledger, t) /\ k \in Nat /\ Len(ledger') = k + 1
      /\ ledger'[k + 1] = t
      /\ \A i \in 1 .. k : ledger'[i] = ledger[i]
  <2>1. ledger' = Append(ledger, t)
    BY DEF HandleArgument
  <2>2. ledger \in Seq(Turns)
    BY DEF TypeOK
  <2> HIDE DEF t
  <2> QED
    BY <1>1, <2>1, <2>2, AppendTo
<1>3. CASE saved' = [ledger |-> ledger', round |-> round]
  <2>1. saved'.ledger = ledger' /\ saved'.round = round /\ Len(saved'.ledger) = k + 1
    BY <1>2, <1>3
  <2>2. saved'.ledger = SubSeq(ledger', 1, k + 1)
    BY <1>2, <2>1, SubSeqFull DEF TypeOK
  <2>3. ledger'[k + 1] = TurnAfter(k)
    <3>1. \A i \in 1 .. k + 1 : ledger'[i] = TurnAfter(i - 1)
      BY <1>2 DEF TurnInv, Alternating
    <3>2. k + 1 \in 1 .. k + 1 /\ (k + 1) - 1 = k
      BY <1>2
    <3> QED
      BY <3>1, <3>2
  <2>4. active \in Agents /\ active # NoAgent
    BY <1>1, MessageFields, HeadTailProperties
       DEF HandleArgument, Takes, InTurn, Received, TypeOK, Agents, Pro, Con, NoAgent
  <2>5. round \in 1 .. MaxRounds /\ k = 2 * (round - 1) + (IF active = Pro THEN 0 ELSE 1)
    BY <2>4 DEF TurnInv, Position
  <2>6. TurnAfter(k).round = round
    <3>1. TurnAfter(k).round = k \div 2 + 1
      BY DEF TurnAfter
    <3>2. k \div 2 = round - 1
      <4>1. CASE active = Pro
        BY <2>5, <4>1, BoundsAssumption
      <4>2. CASE active # Pro
        BY <2>5, <4>2, BoundsAssumption
      <4> QED
        BY <4>1, <4>2
    <3> QED
      BY <2>5, <3>1, <3>2, BoundsAssumption
  <2> HIDE DEF k
  <2> QED
    BY <1>2, <2>1, <2>2, <2>3, <2>6 DEF CheckpointConsistent
<1>4. CASE saved' = saved
  <2>3. n \in Nat
    BY DEF TypeOK
  <2>1. n <= k /\ saved.ledger = SubSeq(ledger, 1, n)
          /\ (n > 0 => saved.round = saved.ledger[n].round)
    BY DEF CheckpointConsistent
  <2>2. SubSeq(ledger', 1, n) = SubSeq(ledger, 1, n)
    BY <1>1, <1>2, <2>1, <2>3, PrefixOfAppend DEF TypeOK
  <2> HIDE DEF k, n
  <2> QED
    BY <1>2, <1>4, <2>1, <2>2 DEF CheckpointConsistent, k, n
<1> QED
  BY <1>3, <1>4 DEF HandleArgument, BackupState

\* The checkpoint on disk is a prefix of the debate, saved in the round of its
\* last turn, for any number of rounds and whichever saves fail.
THEOREM CheckpointIsPrefix == Spec => []CheckpointConsistent
<1>1. Init => CheckpointConsistent
  BY DEF Init, CheckpointConsistent
<1>2. TypeOK /\ TurnInv /\ CheckpointConsistent /\ [Next]_vars
        => TypeOK' /\ TurnInv' /\ CheckpointConsistent'
  BY TypeStep, TurnStep, CheckpointStep
<1> QED
  BY <1>1, <1>2, InitType, InitTurn, PTL DEF Spec

-------------------------------------------------------------------------------
(* The children. *)

\* How the judge's process ends, ...
LEMMA ExitStep ==
  [Next]_vars =>
    \/ jpc' = "exited" <=> jpc = "exited"
    \/ jpc # "exited" /\ (TopicAttemptFails \/ StopWatchdog \/ JudgeKilled)
    \/ Finish \/ HandlerRaises
BY DEF Next, JudgeStep, ChildStep, SessionStep, Over, TopicAttemptFails, TopicChosen,
   SpawnChildren, StartDebate, HandleHeartbeat, HandleTelemetry, HandleOutOfTurn,
   HandleArgument, NextPrompt, Conclude, HandleAfterShutdown, BudgetFailure, TerminateChild,
   StopWatchdog, EvaluationFails, DeclareWinner, JudgeKilled, TakePrompt, Generate,
   ExceedBudget, Emit, DropReply, RejectReply, Heartbeat, Stall, Crash, Fail, Tick,
   ReapSilent, Receive, GiveUp, Finish, HandlerRaises, Takes

\* ... how the call ends, ...
LEMMA OutcomeStep ==
  [Next]_vars => UNCHANGED outcome \/ Receive \/ GiveUp \/ Finish \/ HandlerRaises
BY DEF Next, JudgeStep, ChildStep, SessionStep, Over, TopicAttemptFails, TopicChosen,
   SpawnChildren, StartDebate, HandleHeartbeat, HandleTelemetry, HandleOutOfTurn,
   HandleArgument, NextPrompt, Conclude, HandleAfterShutdown, BudgetFailure, TerminateChild,
   StopWatchdog, EvaluationFails, DeclareWinner, JudgeKilled, TakePrompt, Generate,
   ExceedBudget, Emit, DropReply, RejectReply, Heartbeat, Stall, Crash, Fail, Tick,
   ReapSilent, Receive, GiveUp, Finish, HandlerRaises, Takes

\* ... and who comes to life.
LEMMA AliveStep ==
  TypeOK /\ [Next]_vars => SpawnChildren \/ \A a \in Agents : Alive(a)' => Alive(a)
<1> SUFFICES ASSUME TypeOK, [Next]_vars, ~SpawnChildren, NEW a \in Agents, Alive(a)'
             PROVE  Alive(a)
  OBVIOUS
<1> USE DEF Alive, LiveStates, Healthy, TypeOK
<1>1. CASE UNCHANGED child
  BY <1>1
<1>2. CASE \E b \in Agents : TerminateChild(b) \/ ReapSilent(b)
  BY <1>2 DEF TerminateChild, ReapSilent
<1>3. CASE \E b \in Agents : ChildStep(b) \/ Stall(b) \/ Crash(b)
  BY <1>3
  DEF ChildStep, TakePrompt, Generate, ExceedBudget, Emit, DropReply, RejectReply, Stall, Crash,
      Fail
<1>4. CASE \/ \E b \in Agents : Heartbeat(b)
          \/ Tick \/ JudgeKilled \/ SessionStep \/ HandlerRaises \/ Over \/ UNCHANGED vars
  BY <1>1, <1>4
  DEF Heartbeat, Tick, JudgeKilled, SessionStep, Receive, GiveUp, Finish, HandlerRaises, Over,
      vars, childVars
<1>5. CASE JudgeStep /\ ~\E b \in Agents : TerminateChild(b)
  BY <1>1, <1>5
  DEF JudgeStep, TopicAttemptFails, TopicChosen, StartDebate, HandleHeartbeat, HandleTelemetry,
      HandleOutOfTurn, HandleArgument, HandleAfterShutdown, BudgetFailure, StopWatchdog,
      EvaluationFails, DeclareWinner, Takes, childVars
<1> QED
  BY <1>2, <1>3, <1>4, <1>5 DEF Next, JudgeStep

LEMMA OrphanStep ==
  ASSUME {"judge_kill", "handler"} \cap Faults = {}
  PROVE  TypeOK /\ ClosingInv /\ OrphanInv /\ [Next]_vars => OrphanInv'
<1> SUFFICES ASSUME TypeOK, ClosingInv, OrphanInv, [Next]_vars PROVE OrphanInv'
  OBVIOUS
<1>1. ~JudgeKilled /\ ~HandlerRaises
  BY DEF JudgeKilled, HandlerRaises
<1>2. CASE SpawnChildren
  BY <1>2 DEF SpawnChildren, OrphanInv, Ended
<1>3. CASE \A a \in Agents : Alive(a)' => Alive(a)
  <2>1. Closed => Closed'
    BY <1>3 DEF Closed
  <2>2. CASE Finish
    BY <2>1, <2>2 DEF Finish, OrphanInv, ClosingInv, Judged, Ended
  <2>3. CASE TopicAttemptFails \/ StopWatchdog
    BY <2>1, <2>3 DEF TopicAttemptFails, StopWatchdog, OrphanInv, ClosingInv, Closed, Ended
  <2>4. CASE jpc' = "exited" <=> jpc = "exited"
    <3>1. Ended' => Ended \/ jpc = "exited"
      BY <1>1, <2>4, OutcomeStep DEF Ended, Receive, GiveUp, Finish
    <3> QED
      BY <2>1, <2>4, <3>1 DEF OrphanInv
  <2> QED
    BY <1>1, <2>2, <2>3, <2>4, ExitStep
<1> QED
  BY <1>2, <1>3, AliveStep

\* As long as neither the judge is killed from outside nor the caller's handler
\* raises, a call that is over has left no child process, whatever befalls the
\* children, the evaluation and the budget.
THEOREM NoChildLeftBehind ==
  ASSUME {"judge_kill", "handler"} \cap Faults = {}
  PROVE  Spec => []NoOrphans
<1>1. Init => OrphanInv
  BY DEF Init, OrphanInv, Ended
<1>2. TypeOK /\ ClosingInv /\ OrphanInv /\ [Next]_vars => TypeOK' /\ ClosingInv' /\ OrphanInv'
  BY TypeStep, ClosingStep, OrphanStep
<1>3. OrphanInv => NoOrphans
  BY DEF OrphanInv, NoOrphans, Closed
<1> QED
  BY <1>1, <1>2, <1>3, InitType, InitClosing, PTL DEF Spec

-------------------------------------------------------------------------------
(* The end, as DebateEnd has it. *)

\* The watchdog runs for as long as the debate is open, and while the judge closes it.
WatchInv ==
  /\ jpc \in {"start", "loop"} => dog # "off"
  /\ jpc = "closing" => dog = IF then = "judging" THEN "on" ELSE "stopped"

LEMMA WatchStep == TypeOK /\ ClosingInv /\ WatchInv /\ [Next]_vars => WatchInv'
<1> SUFFICES ASSUME TypeOK, ClosingInv, WatchInv, [Next]_vars PROVE WatchInv'
  OBVIOUS
<1> USE DEF WatchInv
<1>1. CASE UNCHANGED <<jpc, then, dog>>
  BY <1>1
<1>2. CASE TopicAttemptFails \/ TopicChosen \/ SpawnChildren \/ StartDebate
  BY <1>2 DEF TopicAttemptFails, TopicChosen, SpawnChildren, StartDebate, ClosingInv
<1>3. CASE HandleArgument
  BY <1>3 DEF HandleArgument, Takes, UpdateHeartbeat, Conclude, TypeOK
<1>4. CASE HandleAfterShutdown
  BY <1>4 DEF HandleAfterShutdown
<1>5. CASE BudgetFailure
  BY <1>5 DEF BudgetFailure, Takes, ClosingInv, TypeOK
<1>6. CASE StopWatchdog
  BY <1>6 DEF StopWatchdog, TypeOK
<1>7. CASE DeclareWinner
  BY <1>7 DEF DeclareWinner, ClosingInv
<1>8. CASE JudgeKilled \/ Finish \/ HandlerRaises
  BY <1>8 DEF JudgeKilled, Finish, HandlerRaises
<1> QED
  BY <1>1, <1>2, <1>3, <1>4, <1>5, <1>6, <1>7, <1>8
  DEF Next, JudgeStep, ChildStep, SessionStep, Over, HandleHeartbeat, HandleTelemetry,
      HandleOutOfTurn, UpdateHeartbeat, TerminateChild, EvaluationFails, TakePrompt, Generate,
      ExceedBudget, Emit, DropReply, RejectReply, Heartbeat, Stall, Crash, Fail, Tick,
      ReapSilent, Receive, GiveUp

LEMMA EndKept ==
  ASSUME Stage' = Stage, dog' = "on" <=> dog = "on", \A a \in Agents : Alive(a)' <=> Alive(a)
  PROVE  UNCHANGED End!vars
<1>1. UNCHANGED {a \in Agents : Alive(a)} /\ UNCHANGED (dog = "on")
  OBVIOUS
<1> QED BY <1>1 DEF End!vars

LEMMA EndLoses ==
  ASSUME UNCHANGED <<jpc, then, dog>>, NEW a \in Agents,
         \A b \in Agents \ {a} : child'[b] = child[b], Alive(a)' => Alive(a)
  PROVE  [End!Next]_End!vars
<1> DEFINE A == {b \in Agents : Alive(b)}
<1>1. Stage' = Stage /\ UNCHANGED (dog = "on")
  BY DEF Stage
<1>2. \A b \in Agents \ {a} : Alive(b)' <=> Alive(b)
  BY DEF Alive
<1>3. CASE Alive(a)' <=> Alive(a)
  BY <1>1, <1>2, <1>3, EndKept
<1>4. CASE ~(Alive(a)' <=> Alive(a))
  <2>1. a \in A /\ A' = A \ {a}
    BY <1>2, <1>4
  <2>2. End!Lose(a)
    BY <1>1, <2>1 DEF End!Lose
  <2> QED BY <2>1, <2>2 DEF End!Next
<1> QED BY <1>3, <1>4

LEMMA EndOver ==
  ASSUME Stage' = "over", dog' = "on" => dog = "on", UNCHANGED child
  PROVE  [End!Next]_End!vars
<1>1. {a \in Agents : Alive(a)}' \subseteq {a \in Agents : Alive(a)}
  BY DEF Alive
<1>2. (dog = "on")' \in BOOLEAN /\ ((dog = "on")' => dog = "on")
  OBVIOUS
<1> QED BY <1>1, <1>2 DEF End!Next, End!End

\* What the processes do is what DebateEnd does in one step, or nothing.
LEMMA EndStep ==
  ASSUME TypeOK, ClosingInv, WatchInv, [Next]_vars
  PROVE  [End!Next]_End!vars
<1>a. ASSUME UNCHANGED child
      PROVE  /\ \A a \in Agents : Alive(a)' <=> Alive(a)
             /\ UNCHANGED {a \in Agents : Alive(a)}
  BY <1>a DEF Alive
<1>1. CASE UNCHANGED <<jpc, then, dog, child>>
  <2>1. Stage' = Stage
    BY <1>1 DEF Stage
  <2> QED BY <1>a, <1>1, <2>1, EndKept
<1>2. CASE TopicAttemptFails
  <2>1. CASE jpc' = "exited"
    <3>1. Stage' = "over"
      BY <2>1 DEF Stage
    <3> QED BY <1>2, <3>1, EndOver DEF TopicAttemptFails
  <2>2. CASE jpc' = "topic"
    BY <1>1, <1>2, <2>2 DEF TopicAttemptFails
  <2> QED BY <1>2, <2>1, <2>2 DEF TopicAttemptFails
<1>3. CASE TopicChosen
  <2>1. Stage' = Stage
    BY <1>3 DEF TopicChosen, Stage
  <2> QED BY <1>a, <1>3, <2>1, EndKept DEF TopicChosen
<1>4. CASE SpawnChildren
  <2>1. Stage = "before" /\ Stage' = "open"
    BY <1>4 DEF SpawnChildren, Stage
  <2>2. {a \in Agents : Alive(a)}' = Agents
    BY <1>4 DEF SpawnChildren, Alive, LiveStates
  <2>3. (dog = "on")' \in BOOLEAN
    OBVIOUS
  <2> QED BY <2>1, <2>2, <2>3 DEF End!Next, End!Spawn, End!Moves
<1>5. CASE StartDebate
  <2>1. dog = "on" /\ dog' = "on"
    BY <1>5 DEF StartDebate, ClosingInv
  <2>2. Stage' = Stage
    BY <1>5, <2>1 DEF StartDebate, Stage
  <2> QED BY <1>a, <1>5, <2>1, <2>2, EndKept DEF StartDebate
<1>6. CASE (HandleArgument /\ Conclude) \/ BudgetFailure
  <2>1. /\ jpc = "loop" /\ jpc' = "closing" /\ then' = "judging" /\ dog = "on" /\ dog' = "on"
        /\ UNCHANGED child
    BY <1>6 DEF HandleArgument, Takes, UpdateHeartbeat, Conclude, BudgetFailure, TypeOK, ClosingInv,
       WatchInv
  <2>2. Stage = "open" /\ Stage' = "closing"
    BY <2>1 DEF Stage
  <2>3. (dog = "on") /\ UNCHANGED (dog = "on")
    BY <2>1
  <2> QED BY <1>a, <2>1, <2>2, <2>3 DEF End!Next, End!Close, End!Moves
<1>7. CASE HandleArgument /\ ~Conclude
  BY <1>1, <1>7 DEF HandleArgument, UpdateHeartbeat
<1>8. CASE HandleAfterShutdown
  <2>1. Stage' = Stage
    BY <1>8 DEF HandleAfterShutdown, Stage
  <2> QED BY <1>a, <1>8, <2>1, EndKept DEF HandleAfterShutdown
<1>9. CASE StopWatchdog
  <2>1. jpc = "closing" /\ dog' = "stopped" /\ jpc' = then /\ UNCHANGED <<then, child>>
    BY <1>9 DEF StopWatchdog
  <2>2. CASE then = "judging"
    <3>1. Stage = "closing" /\ Stage' = "closed"
      BY <2>1, <2>2 DEF Stage
    <3>2. {a \in Agents : Alive(a)} = {}
      BY <1>9 DEF StopWatchdog
    <3>3. (dog = "on")' = FALSE
      BY <2>1
    <3> QED BY <1>a, <2>1, <3>1, <3>2, <3>3 DEF End!Next, End!Closed, End!Moves
  <2>3. CASE then = "exited"
    <3>1. Stage' = "over"
      BY <2>1, <2>3 DEF Stage
    <3> QED BY <2>1, <3>1, EndOver
  <2> QED BY <2>2, <2>3 DEF TypeOK
<1>10. CASE DeclareWinner
  <2>1. dog = "stopped" /\ dog' = "stopped" /\ UNCHANGED child
    BY <1>10 DEF DeclareWinner, ClosingInv
  <2>2. Stage = "closed" /\ Stage' = "judged"
    BY <1>10, <2>1 DEF DeclareWinner, Stage
  <2>3. UNCHANGED (dog = "on")
    BY <2>1
  <2> QED BY <1>a, <2>1, <2>2, <2>3 DEF End!Next, End!Judge, End!Moves
<1>11. CASE JudgeKilled \/ Finish \/ HandlerRaises
  <2>1. Stage' = "over"
    BY <1>11 DEF JudgeKilled, Finish, HandlerRaises, Stage
  <2> QED BY <1>11, <2>1, EndOver DEF JudgeKilled, Finish, HandlerRaises
<1>12. ASSUME NEW a \in Agents,
              TerminateChild(a) \/ ChildStep(a) \/ Stall(a) \/ Crash(a) \/ ReapSilent(a)
       PROVE  [End!Next]_End!vars
  <2>1. UNCHANGED <<jpc, then, dog>> /\ \A b \in Agents \ {a} : child'[b] = child[b]
    BY <1>12 DEF TerminateChild, ChildStep, TakePrompt, Generate, ExceedBudget, Emit, DropReply,
       RejectReply, Stall, Crash, Fail, ReapSilent, TypeOK
  <2>2. Alive(a)' => Alive(a)
    BY <1>12 DEF TerminateChild, ChildStep, TakePrompt, Generate, ExceedBudget, Emit, DropReply,
       RejectReply, Stall, Crash, Fail, ReapSilent, TypeOK, Alive, LiveStates, Healthy
  <2> QED BY <2>1, <2>2, EndLoses
<1>13. CASE \/ HandleHeartbeat \/ HandleTelemetry \/ HandleOutOfTurn \/ EvaluationFails \/ Tick
            \/ Receive \/ GiveUp
  BY <1>1, <1>13 DEF HandleHeartbeat, HandleTelemetry, HandleOutOfTurn, UpdateHeartbeat,
     EvaluationFails, Tick, Receive, GiveUp
<1>14. ASSUME NEW a \in Agents, Heartbeat(a) PROVE [End!Next]_End!vars
  BY <1>1, <1>14 DEF Heartbeat
<1>15. CASE UNCHANGED vars
  BY <1>1, <1>15
<1> QED
  BY <1>2, <1>3, <1>4, <1>5, <1>6, <1>7, <1>8, <1>9, <1>10, <1>11, <1>12, <1>13, <1>14, <1>15
  DEF Next, JudgeStep, SessionStep, Over

\* A debate implements DebateEnd, as the calls of Supervision do: the judge judges once,
\* and only when the watchdog that saw the debate to its end has stopped and every child
\* is dead, whatever befalls the judge, the children and the session.
THEOREM DebateEndsInOrder == Spec => EndsInOrder
<1>1. Init => WatchInv /\ End!Init
  <2>1. Init => WatchInv /\ Stage = "before"
    BY DEF Init, WatchInv, Stage
  <2>2. Init => {a \in Agents : Alive(a)} = {} /\ (dog = "on") = FALSE
    BY DEF Init, Alive, LiveStates
  <2> QED BY <2>1, <2>2 DEF End!Init
<1>2. TypeOK /\ ClosingInv /\ WatchInv /\ [Next]_vars => WatchInv'
  BY WatchStep
<1>3. TypeOK /\ ClosingInv /\ WatchInv /\ [Next]_vars => [End!Next]_End!vars
  BY EndStep
<1> QED
  BY <1>1, <1>2, <1>3, DebateTypes, DebateClosing, PTL DEF Spec, EndsInOrder, End!Spec
==============================================================================

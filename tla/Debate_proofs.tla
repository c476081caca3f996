---------------------------- MODULE Debate_proofs ----------------------------
EXTENDS DebateProps, SequenceTheorems, TLAPS

USE DEF vars, judgeVars, debateVars, watchVars, childVars, queueVars, sessionVars

LEMMA MessageType ==
  \A kind \in {"heartbeat", "telemetry", "argument"}, a \in Agents, r \in Nat :
    Message(kind, a, r) \in Messages
BY DEF Message, Messages

LEMMA MessageFields ==
  ASSUME NEW m \in Messages
  PROVE  /\ m.agent \in Agents /\ m.round \in Nat
         /\ m.kind \in {"telemetry", "argument"} => m \in Events
         /\ [agent |-> m.agent, round |-> m.round] \in Turns
<1>1. m.agent \in Agents /\ m.round \in Nat
  BY DEF Messages
<1>2. m = [kind |-> m.kind, agent |-> m.agent, round |-> m.round]
  BY DEF Messages
<1>3. m.kind \in {"telemetry", "argument"} => m \in Events
  BY <1>1, <1>2 DEF Events
<1> QED
  BY <1>1, <1>3 DEF Turns

LEMMA EventFields ==
  ASSUME NEW e \in Events, e.kind = "argument"
  PROVE  e.agent \in Agents /\ [agent |-> e.agent, round |-> e.round] \in Turns
BY DEF Events, Turns, Judgments

LEMMA PromptType ==
  ASSUME TypeOK
  PROVE  \A a \in Agents, r \in 0 .. MaxRounds, led \in Seq(Turns) :
           SendTurnPrompt(a, r, led) =>
             active' \in Agents /\ round' \in 0 .. MaxRounds
               /\ prompts' \in [Agents -> Seq(Prompts)]
<1> TAKE a \in Agents, r \in 0 .. MaxRounds, led \in Seq(Turns)
<1> HAVE SendTurnPrompt(a, r, led)
<1>1. [hist |-> Len(led), ending |-> IsLast(a, r)] \in Prompts
  BY DEF Prompts, IsLast
<1>2. Append(prompts[a], [hist |-> Len(led), ending |-> IsLast(a, r)]) \in Seq(Prompts)
  BY <1>1 DEF TypeOK
<1> QED
  BY <1>2, BoundsAssumption DEF SendTurnPrompt, TypeOK

LEMMA TypeStep == TypeOK /\ [Next]_vars => TypeOK'
<1> SUFFICES ASSUME TypeOK, [Next]_vars PROVE TypeOK'
  OBVIOUS
<1> USE BoundsAssumption DEF TypeOK, Agents, Pro, Con, NoAgent, LiveStates, Judgments
<1>1. CASE TopicAttemptFails
  BY <1>1 DEF TopicAttemptFails
<1>2. CASE TopicChosen
  BY <1>2 DEF TopicChosen
<1>3. CASE SpawnChildren
  BY <1>3 DEF SpawnChildren
<1>4. CASE StartDebate
  <2>1. active' \in Agents /\ round' \in 0 .. MaxRounds /\ prompts' \in [Agents -> Seq(Prompts)]
    BY <1>4, PromptType DEF StartDebate
  <2> QED
    BY <1>4, <2>1 DEF StartDebate, Events
<1>5. CASE HandleHeartbeat
  <2>1. Received \in Messages /\ inbound' \in Seq(Messages)
    BY <1>5, HeadTailProperties DEF HandleHeartbeat, Takes, Received
  <2>2. Received.agent \in Agents
    BY <2>1, MessageFields
  <2>3. silence' \in [Agents -> 0 .. (Timeout + 1)]
    BY <1>5, <2>2 DEF HandleHeartbeat, UpdateHeartbeat
  <2> QED
    BY <1>5, <2>1, <2>2, <2>3 DEF HandleHeartbeat, UpdateHeartbeat
<1>6. CASE HandleTelemetry
  <2>1. Received \in Messages /\ inbound' \in Seq(Messages)
    BY <1>6, HeadTailProperties DEF HandleTelemetry, Takes, Received
  <2>2. Received.agent \in Agents /\ Received \in Events
    BY <1>6, <2>1, MessageFields DEF HandleTelemetry, Takes
  <2>3. silence' \in [Agents -> 0 .. (Timeout + 1)]
    BY <1>6, <2>2 DEF HandleTelemetry, UpdateHeartbeat
  <2> QED
    BY <1>6, <2>1, <2>2, <2>3 DEF HandleTelemetry, UpdateHeartbeat
<1>7. CASE HandleOutOfTurn
  <2>1. Received \in Messages /\ inbound' \in Seq(Messages)
    BY <1>7, HeadTailProperties DEF HandleOutOfTurn, Takes, Received
  <2>2. Received.agent \in Agents
    BY <2>1, MessageFields
  <2>3. silence' \in [Agents -> 0 .. (Timeout + 1)]
    BY <1>7, <2>2 DEF HandleOutOfTurn, UpdateHeartbeat
  <2> QED
    BY <1>7, <2>1, <2>2, <2>3 DEF HandleOutOfTurn, UpdateHeartbeat
<1>8. CASE HandleArgument
  <2>1. Received \in Messages /\ inbound' \in Seq(Messages)
    BY <1>8, HeadTailProperties DEF HandleArgument, Takes, Received
  <2>2. Received.agent \in Agents /\ Received \in Events
          /\ [agent |-> Received.agent, round |-> Received.round] \in Turns
    BY <1>8, <2>1, MessageFields DEF HandleArgument, Takes
  <2>3. silence' \in [Agents -> 0 .. (Timeout + 1)]
    BY <1>8, <2>2 DEF HandleArgument, UpdateHeartbeat
  <2>4. ledger' \in Seq(Turns) /\ outbound' \in Seq(Events)
    BY <1>8, <2>2 DEF HandleArgument
  <2>5. saved' \in [ledger : Seq(Turns), round : Nat]
    <3>1. round \in Nat
      OBVIOUS
    <3>2. [ledger |-> ledger', round |-> round] \in [ledger : Seq(Turns), round : Nat]
      BY <2>4, <3>1
    <3> QED
      BY <1>8, <3>2 DEF HandleArgument, BackupState
  <2>6. CASE NextPrompt(ledger') /\ UNCHANGED judgeVars
    <3>1. \A a \in Agents, r \in 0 .. MaxRounds : SendTurnPrompt(a, r, ledger') =>
            active' \in Agents /\ round' \in 0 .. MaxRounds /\ prompts' \in [Agents -> Seq(Prompts)]
      BY <2>4, PromptType
    <3>2. active' \in Agents /\ round' \in 0 .. MaxRounds /\ prompts' \in [Agents -> Seq(Prompts)]
      BY <2>4, <2>6, <3>1 DEF NextPrompt
    <3> QED
      BY SMTT(60), <1>8, <2>1, <2>3, <2>4, <2>5, <2>6, <3>2 DEF HandleArgument, UpdateHeartbeat
  <2>7. CASE Conclude
    BY SMTT(60), <1>8, <2>1, <2>3, <2>4, <2>5, <2>7 DEF HandleArgument, UpdateHeartbeat, Conclude
  <2> QED
    BY <1>8, <2>6, <2>7 DEF HandleArgument
<1>9. CASE HandleAfterShutdown
  BY <1>9 DEF HandleAfterShutdown
<1>10. CASE BudgetFailure
  BY <1>10 DEF BudgetFailure, Takes
<1>11. ASSUME NEW a \in Agents, TerminateChild(a) PROVE TypeOK'
  BY <1>11 DEF TerminateChild
<1>12. CASE StopWatchdog
  BY <1>12 DEF StopWatchdog
<1>13. CASE EvaluationFails
  BY <1>13 DEF EvaluationFails
<1>14. CASE DeclareWinner
  BY <1>14 DEF DeclareWinner, Events
<1>15. CASE JudgeKilled
  BY SMTT(60), <1>15 DEF JudgeKilled
<1>16. ASSUME NEW a \in Agents, TakePrompt(a) PROVE TypeOK'
  BY <1>16 DEF TakePrompt
<1>17. ASSUME NEW a \in Agents, Generate(a) PROVE TypeOK'
  BY <1>17, MessageType DEF Generate
<1>18. ASSUME NEW a \in Agents, ExceedBudget(a) PROVE TypeOK'
  BY <1>18 DEF ExceedBudget
<1>19. ASSUME NEW a \in Agents, Emit(a) PROVE TypeOK'
  <2>1. RoundOf(turn[a]) \in Nat
    BY SMTT(60) DEF RoundOf, Prompts
  <2>2. Argument(a) \in Messages
    BY <2>1, MessageType DEF Argument
  <2>3. Append(inbound, Argument(a)) \in Seq(Messages)
    BY <2>2
  <2>4. Append(Append(inbound, Argument(a)), Argument(a)) \in Seq(Messages)
    BY <2>2, <2>3
  <2>5. inbound' \in Seq(Messages)
    BY <1>19, <2>3, <2>4 DEF Emit
  <2> HIDE DEF Agents
  <2> QED
    BY SMTT(60), <1>19, <2>5 DEF Emit
<1>20. ASSUME NEW a \in Agents, DropReply(a) PROVE TypeOK'
  BY <1>20 DEF DropReply
<1>21. ASSUME NEW a \in Agents, RejectReply(a) PROVE TypeOK'
  BY <1>21 DEF RejectReply
<1>22. ASSUME NEW a \in Agents, Heartbeat(a) PROVE TypeOK'
  BY <1>22, MessageType DEF Heartbeat
<1>23. ASSUME NEW a \in Agents, Stall(a) \/ Crash(a) PROVE TypeOK'
  <2>1. child' \in [Agents -> LiveStates \cup {"unborn", "dead"}]
    BY <1>23 DEF Stall, Crash, Fail
  <2>2. UNCHANGED <<judgeVars, debateVars, watchVars, turn, queueVars, sessionVars>>
    BY <1>23 DEF Stall, Crash, Fail
  <2> QED
    BY <2>1, <2>2
<1>24. ASSUME NEW a \in Agents, ReapSilent(a) PROVE TypeOK'
  BY <1>24 DEF ReapSilent
<1>25. CASE Tick
  BY SMTT(60), <1>25 DEF Tick
<1>26. CASE Receive
  <2>1. Head(outbound) \in Events /\ outbound' \in Seq(Events)
    BY <1>26, HeadTailProperties DEF Receive
  <2>2. transcript' \in Seq(Turns)
    <3>1. CASE Head(outbound).kind = "argument"
      <4>1. [agent |-> Head(outbound).agent, round |-> Head(outbound).round] \in Turns
        BY <2>1, <3>1, EventFields
      <4> QED
        BY <1>26, <3>1, <4>1 DEF Receive
    <3>2. CASE Head(outbound).kind # "argument"
      BY <1>26, <3>2 DEF Receive
    <3> QED
      BY <3>1, <3>2
  <2>3. verdict' \in Judgments \cup {"none"}
          /\ outcome' \in {"polling", "joining", "returned", "raised"}
    BY <1>26 DEF Receive
  <2> QED
    BY <1>26, <2>1, <2>2, <2>3 DEF Receive
<1>27. CASE GiveUp
  BY <1>27 DEF GiveUp
<1>28. CASE Finish
  BY <1>28 DEF Finish
<1>29. CASE HandlerRaises
  BY <1>29 DEF HandlerRaises
<1>30. CASE UNCHANGED vars
  BY <1>30
<1> QED
  BY <1>1, <1>2, <1>3, <1>4, <1>5, <1>6, <1>7, <1>8, <1>9, <1>10, <1>11, <1>12, <1>13, <1>14, <1>15, <1>16, <1>17, <1>18, <1>19, <1>20, <1>21, <1>22, <1>23, <1>24, <1>25, <1>26, <1>27, <1>28, <1>29, <1>30
  DEF Next, JudgeStep, ChildStep, SessionStep, Over

-------------------------------------------------------------------------------
(* The wanted turn. *)

PreStart == {"topic", "spawn", "start"}

\* What most steps leave as it is.
Same == UNCHANGED <<active, round, ledger, prompts, turn>>
NoNewWork == \A a \in Agents : Working(a)' => Working(a)
NotBack == jpc' \in PreStart => jpc \in PreStart

LEMMA AppendTo ==
  ASSUME NEW S, NEW s \in Seq(S), NEW e \in S
  PROVE  /\ Append(s, e) \in Seq(S) /\ Len(Append(s, e)) = Len(s) + 1
         /\ \A i \in 1 .. Len(s) : Append(s, e)[i] = s[i]
         /\ Append(s, e)[Len(s) + 1] = e
OBVIOUS

LEMMA LengthOne ==
  ASSUME NEW S, NEW s \in Seq(S), s # <<>>, Len(s) <= 1
  PROVE  Len(s) = 1
<1> DEFINE n == Len(s)
<1>1. n \in Nat /\ n # 0 /\ n <= 1
  BY EmptySeq
<1> HIDE DEF n
<1>2. n = 1
  BY <1>1
<1> QED
  BY <1>2 DEF n

LEMMA KeepQueue ==
  ASSUME TurnInv, Same, NoNewWork, NotBack, UNCHANGED inbound
  PROVE  TurnInv'
<1>1. Alternating(ledger)' /\ Position' /\ EndingIsLast' /\ OnePrompt'
  BY DEF TurnInv, Same, Alternating, Position, EndingIsLast, OnePrompt, NoNewWork
<1>2. NothingBeforeStart'
  BY DEF TurnInv, Same, NothingBeforeStart, ArgumentAt, NoNewWork, NotBack, PreStart
<1>3. WantedTurn'
  BY DEF TurnInv, Same, WantedTurn, ArgumentAt, WantedAt, NoNewWork
<1> QED
  BY <1>1, <1>2, <1>3 DEF TurnInv

LEMMA ShortenQueue ==
  ASSUME TypeOK, TurnInv, Same, NoNewWork, NotBack,
         inbound # <<>>, inbound' = Tail(inbound)
  PROVE  TurnInv'
<1>1. Alternating(ledger)' /\ Position' /\ EndingIsLast' /\ OnePrompt'
  BY DEF TurnInv, Same, Alternating, Position, EndingIsLast, OnePrompt, NoNewWork
<1>2. Len(inbound') = Len(inbound) - 1 /\ Len(inbound) \in Nat
        /\ \A i \in 1 .. Len(inbound') : inbound'[i] = inbound[i + 1]
  BY HeadTailProperties DEF TypeOK
<1>3. \A i \in 1 .. Len(inbound') :
        /\ i + 1 \in 1 .. Len(inbound)
        /\ ArgumentAt(i)' <=> ArgumentAt(i + 1)
        /\ WantedAt(i)' <=> WantedAt(i + 1)
  BY <1>2 DEF Same, ArgumentAt, WantedAt
<1>4. NothingBeforeStart'
  BY <1>3 DEF TurnInv, Same, NothingBeforeStart, NoNewWork, NotBack, PreStart
<1>5. WantedTurn'
  <2> SUFFICES ASSUME active' # NoAgent PROVE WantedTurn'
    BY DEF WantedTurn
  <2>1. active # NoAgent /\ active' = active /\ ledger' = ledger /\ prompts' = prompts
          /\ turn' = turn /\ WantedTurn
    BY DEF Same, TurnInv
  <2>2. \A i \in 1 .. Len(inbound') :
          WantedAt(i)' => inbound'[i].round = TurnAfter(Len(ledger')).round
    BY <1>2, <1>3, <2>1 DEF WantedTurn
  <2>3. \A i, j \in 1 .. Len(inbound') :
          i < j /\ WantedAt(i)' /\ ArgumentAt(j)' => WantedAt(j)'
    <3> SUFFICES ASSUME NEW i \in 1 .. Len(inbound'), NEW j \in 1 .. Len(inbound'),
                        i < j, WantedAt(i)', ArgumentAt(j)'
                 PROVE  WantedAt(j)'
      OBVIOUS
    <3>1. WantedAt(i + 1) /\ ArgumentAt(j + 1) /\ i + 1 < j + 1
      BY <1>3
    <3> QED
      BY <1>3, <2>1, <3>1 DEF WantedTurn
  <2>4. \A a \in Agents :
          prompts'[a] # <<>> \/ Working(a)' =>
            a = active' /\ \A i \in 1 .. Len(inbound') : ~WantedAt(i)'
    BY <1>3, <2>1 DEF WantedTurn, NoNewWork
  <2>5. \A a \in Agents :
          /\ prompts'[a] # <<>> => prompts'[a][1].hist = Len(ledger')
          /\ Working(a)' => turn'[a].hist = Len(ledger')
    BY <2>1 DEF WantedTurn, NoNewWork
  <2> QED
    BY <2>2, <2>3, <2>4, <2>5 DEF WantedTurn
<1> QED
  BY <1>1, <1>4, <1>5 DEF TurnInv

LEMMA LengthenQueue ==
  ASSUME TypeOK, TurnInv, Same, NoNewWork, NotBack,
         NEW m \in Messages, m.kind # "argument", inbound' = Append(inbound, m)
  PROVE  TurnInv'
<1>1. Alternating(ledger)' /\ Position' /\ EndingIsLast' /\ OnePrompt'
  BY DEF TurnInv, Same, Alternating, Position, EndingIsLast, OnePrompt, NoNewWork
<1>2. Len(inbound') = Len(inbound) + 1 /\ Len(inbound) \in Nat
        /\ inbound'[Len(inbound) + 1] = m
        /\ \A i \in 1 .. Len(inbound) : inbound'[i] = inbound[i]
  BY AppendTo DEF TypeOK
<1>3. \A i \in 1 .. Len(inbound') :
        /\ ArgumentAt(i)' => ArgumentAt(i) /\ i \in 1 .. Len(inbound)
        /\ WantedAt(i)' <=> WantedAt(i)
  BY <1>2 DEF Same, ArgumentAt, WantedAt
<1>4. NothingBeforeStart'
  BY <1>3 DEF TurnInv, Same, NothingBeforeStart, NoNewWork, NotBack, PreStart
<1>5. WantedTurn'
  <2> SUFFICES ASSUME active' # NoAgent PROVE WantedTurn'
    BY DEF WantedTurn
  <2>1. active # NoAgent /\ active' = active /\ ledger' = ledger /\ prompts' = prompts
          /\ turn' = turn /\ WantedTurn
    BY DEF Same, TurnInv
  <2>2. \A i \in 1 .. Len(inbound') : WantedAt(i)' => i \in 1 .. Len(inbound) /\ WantedAt(i)
    BY <1>3 DEF WantedAt
  <2>3. \A i \in 1 .. Len(inbound') :
          WantedAt(i)' => inbound'[i].round = TurnAfter(Len(ledger')).round
    BY <1>2, <2>1, <2>2 DEF WantedTurn
  <2>4. \A i, j \in 1 .. Len(inbound') :
          i < j /\ WantedAt(i)' /\ ArgumentAt(j)' => WantedAt(j)'
    BY <1>3, <2>1, <2>2 DEF WantedTurn
  <2>5. \A a \in Agents :
          prompts'[a] # <<>> \/ Working(a)' =>
            a = active' /\ \A i \in 1 .. Len(inbound') : ~WantedAt(i)'
    BY <2>1, <2>2 DEF WantedTurn, NoNewWork
  <2>6. \A a \in Agents :
          /\ prompts'[a] # <<>> => prompts'[a][1].hist = Len(ledger')
          /\ Working(a)' => turn'[a].hist = Len(ledger')
    BY <2>1 DEF WantedTurn, NoNewWork
  <2> QED
    BY <2>3, <2>4, <2>5, <2>6 DEF WantedTurn
<1> QED
  BY <1>1, <1>4, <1>5 DEF TurnInv

\* The first prompt.
LEMMA StartDebateStep == TypeOK /\ TurnInv /\ StartDebate => TurnInv'
<1> SUFFICES ASSUME TypeOK, TurnInv, StartDebate PROVE TurnInv'
  OBVIOUS
<1>1. /\ ledger = <<>> /\ ledger' = <<>> /\ Len(ledger) = 0
      /\ active' = Pro /\ round' = 1 /\ jpc' = "loop"
      /\ inbound' = inbound /\ child' = child /\ turn' = turn
      /\ \A i \in 1 .. Len(inbound) : ~ArgumentAt(i)
      /\ \A a \in Agents : prompts[a] = <<>> /\ ~Working(a)
  BY DEF StartDebate, TurnInv, NothingBeforeStart, SendTurnPrompt
<1> DEFINE p == [hist |-> 0, ending |-> IsLast(Pro, 1)]
<1>2. /\ Len(prompts'[Pro]) = 1 /\ prompts'[Pro] # <<>> /\ prompts'[Pro][1] = p
      /\ prompts'[Con] = <<>> /\ Len(prompts'[Con]) = 0
  <2>1. prompts' = [prompts EXCEPT ![Pro] = Append(prompts[Pro], p)]
    BY <1>1 DEF StartDebate, SendTurnPrompt
  <2>2. Pro \in Agents /\ Con \in Agents /\ Pro # Con
    BY DEF Agents, Pro, Con
  <2>3. prompts[Pro] = <<>> /\ prompts[Con] = <<>>
    BY <1>1, <2>2
  <2>4. prompts'[Pro] = Append(<<>>, p) /\ prompts'[Con] = <<>>
    BY <2>1, <2>2, <2>3 DEF TypeOK
  <2>5. Append(<<>>, p) = <<p>>
    OBVIOUS
  <2> QED
    BY <2>4, <2>5
<1>10. p.hist = 0 /\ p.ending = FALSE
  BY DEF IsLast, Pro, Con
<1> HIDE DEF p
<1>3. \A a \in Agents : ~Working(a)'
  BY <1>1 DEF Working
<1>4. \A i \in 1 .. Len(inbound') : ~ArgumentAt(i)' /\ ~WantedAt(i)'
  BY <1>1 DEF ArgumentAt, WantedAt
<1>5. Alternating(ledger)' /\ NothingBeforeStart'
  BY <1>1 DEF Alternating, NothingBeforeStart
<1>6. Position'
  BY <1>1, BoundsAssumption DEF Position
<1>7. OnePrompt'
  <2>1. \A a \in Agents : a = Pro \/ a = Con
    BY DEF Agents
  <2>2. \A a \in Agents : Len(prompts'[a]) \in 0 .. 1
    BY <1>2, <2>1
  <2>3. \A n \in 0 .. 1 : n <= 1
    OBVIOUS
  <2>4. \A a \in Agents : Len(prompts'[a]) <= 1
    BY <2>2, <2>3
  <2> QED
    BY <1>3, <2>4 DEF OnePrompt
<1>8. WantedTurn'
  BY <1>1, <1>2, <1>3, <1>4, <1>10 DEF WantedTurn, Agents, Pro, Con
<1>9. EndingIsLast'
  <2>1. \A i \in 1 .. Len(prompts'[Pro]) : prompts'[Pro][i] = p
    BY <1>2
  <2>2. 2 * MaxRounds - 1 # 0
    BY BoundsAssumption
  <2>3. \A i \in 1 .. Len(prompts'[Con]) : FALSE
    BY <1>2
  <2>4. \A a \in Agents : a = Pro \/ a = Con
    BY DEF Agents
  <2>5. \A a \in Agents : \A i \in 1 .. Len(prompts'[a]) : prompts'[a][i] = p
    BY <2>1, <2>3, <2>4
  <2> QED
    BY <1>10, <2>2, <2>5 DEF EndingIsLast
<1> QED
  BY <1>5, <1>6, <1>7, <1>8, <1>9 DEF TurnInv

\* A child takes its prompt.
LEMMA TakePromptStep ==
  ASSUME TypeOK, TurnInv, NEW b \in Agents, TakePrompt(b) PROVE TurnInv'
<1>1. /\ UNCHANGED <<jpc, active, round, ledger, inbound>>
      /\ child' = [child EXCEPT ![b] = "thinking"]
      /\ turn' = [turn EXCEPT ![b] = Head(prompts[b])]
      /\ prompts' = [prompts EXCEPT ![b] = Tail(prompts[b])]
      /\ child[b] = "idle" /\ prompts[b] # <<>>
  BY DEF TakePrompt
<1>2. Len(prompts[b]) = 1 /\ Head(prompts[b]) = prompts[b][1] /\ Tail(prompts[b]) = <<>>
  <2>1. prompts[b] \in Seq(Prompts) /\ Len(prompts[b]) <= 1
    BY DEF TypeOK, TurnInv, OnePrompt
  <2>2. \A s \in Seq(Prompts) : s # <<>> => Head(s) = s[1]
    OBVIOUS
  <2>4. Len(prompts[b]) = 1
    BY <1>1, <2>1, LengthOne
  <2>3. Tail(prompts[b]) \in Seq(Prompts) /\ Len(Tail(prompts[b])) = 0
    BY <1>1, <2>1, <2>4, HeadTailProperties
  <2> QED
    BY <1>1, <2>1, <2>2, <2>3, <2>4, EmptySeq
<1>3. /\ prompts'[b] = <<>> /\ turn'[b] = prompts[b][1] /\ Working(b)'
      /\ \A a \in Agents \ {b} : prompts'[a] = prompts[a] /\ turn'[a] = turn[a]
                                 /\ (Working(a)' <=> Working(a))
  BY <1>1, <1>2 DEF TypeOK, Working
<1>4. \A i \in 1 .. Len(inbound') :
        (ArgumentAt(i)' <=> ArgumentAt(i)) /\ (WantedAt(i)' <=> WantedAt(i))
  BY <1>1 DEF ArgumentAt, WantedAt
<1>5. Alternating(ledger)' /\ Position'
  BY <1>1 DEF TurnInv, Alternating, Position
<1>6. NothingBeforeStart'
  BY <1>1, <1>3 DEF TurnInv, NothingBeforeStart
<1>7. OnePrompt'
  BY <1>3 DEF TurnInv, OnePrompt
<1>8. EndingIsLast'
  BY <1>3 DEF TurnInv, EndingIsLast
<1>9. WantedTurn'
  BY <1>1, <1>3, <1>4 DEF TurnInv, WantedTurn
<1> QED
  BY <1>5, <1>6, <1>7, <1>8, <1>9 DEF TurnInv

\* A child answers: what it appends is the wanted turn, and only that.
LEMMA EmitStep ==
  ASSUME TypeOK, TurnInv, NEW b \in Agents, Emit(b) PROVE TurnInv'
<1> DEFINE q == Append(inbound, Argument(b))
<1>1. /\ UNCHANGED <<jpc, active, round, ledger, prompts, turn>>
      /\ child' = [child EXCEPT ![b] = "idle"] /\ Working(b)
      /\ inbound' = q \/ inbound' = Append(q, Argument(b))
  BY DEF Emit, Working
<1>2. /\ RoundOf(turn[b]) \in Nat /\ Argument(b) \in Messages
      /\ Argument(b).kind = "argument" /\ Argument(b).agent = b
      /\ Argument(b).round = RoundOf(turn[b])
  <2>1. RoundOf(turn[b]) \in Nat
    BY SMTT(60) DEF RoundOf, Prompts, TypeOK
  <2> QED
    BY <2>1, MessageType DEF Argument, Message
<1>3. /\ Len(inbound) \in Nat /\ Len(inbound') \in Nat /\ Len(inbound') >= Len(inbound)
      /\ \A i \in 1 .. Len(inbound) : inbound'[i] = inbound[i]
      /\ \A i \in 1 .. Len(inbound') : i > Len(inbound) => inbound'[i] = Argument(b)
  <2>1. inbound \in Seq(Messages) /\ Len(inbound) \in Nat
    BY DEF TypeOK
  <2>2. q \in Seq(Messages) /\ Len(q) = Len(inbound) + 1
          /\ (\A i \in 1 .. Len(inbound) : q[i] = inbound[i])
          /\ q[Len(inbound) + 1] = Argument(b)
    BY <1>2, <2>1, AppendTo
  <2>3. CASE inbound' = q
    BY <2>1, <2>2, <2>3
  <2>4. CASE inbound' = Append(q, Argument(b))
    <3>1. Len(inbound') = Len(q) + 1 /\ (\A i \in 1 .. Len(q) : inbound'[i] = q[i])
            /\ inbound'[Len(q) + 1] = Argument(b)
      BY <1>2, <2>2, <2>4, AppendTo
    <3> QED
      BY <2>1, <2>2, <3>1
  <2> QED
    BY <1>1, <2>3, <2>4
<1> HIDE DEF q
<1>4. ~Working(b)' /\ \A a \in Agents \ {b} : Working(a)' <=> Working(a)
  BY <1>1 DEF TypeOK, Working
<1>5. Alternating(ledger)' /\ Position' /\ EndingIsLast' /\ OnePrompt'
  BY <1>1, <1>4 DEF TurnInv, Alternating, Position, EndingIsLast, OnePrompt
<1>6. NothingBeforeStart'
  BY <1>1 DEF TurnInv, NothingBeforeStart
<1>7. ASSUME active # NoAgent PROVE WantedTurn'
  <2>1. /\ b = active /\ prompts[b] = <<>> /\ turn[b].hist = Len(ledger)
        /\ \A i \in 1 .. Len(inbound) : ~WantedAt(i)
        /\ \A a \in Agents \ {b} : prompts[a] = <<>> /\ ~Working(a)
    BY <1>1, <1>7 DEF TurnInv, WantedTurn, OnePrompt
  <2>2. \A i \in 1 .. Len(inbound') :
          /\ i > Len(inbound) => WantedAt(i)' /\ inbound'[i].round = RoundOf(turn[b])
          /\ i <= Len(inbound) => ~WantedAt(i)'
    <3> SUFFICES ASSUME NEW i \in 1 .. Len(inbound')
                 PROVE /\ i > Len(inbound) => WantedAt(i)' /\ inbound'[i].round = RoundOf(turn[b])
                       /\ i <= Len(inbound) => ~WantedAt(i)'
      OBVIOUS
    <3>1. ASSUME i > Len(inbound)
          PROVE WantedAt(i)' /\ inbound'[i].round = RoundOf(turn[b])
      BY <1>1, <1>2, <1>3, <2>1, <3>1 DEF WantedAt, ArgumentAt
    <3>2. ASSUME i <= Len(inbound) PROVE ~WantedAt(i)'
      <4>1. i \in 1 .. Len(inbound) /\ inbound'[i] = inbound[i]
        BY <1>3, <3>2
      <4> QED
        BY <1>1, <2>1, <4>1 DEF WantedAt, ArgumentAt
    <3> QED
      BY <3>1, <3>2
  <2>3. RoundOf(turn[b]) = TurnAfter(Len(ledger')).round
    BY <1>1, <2>1 DEF RoundOf, TurnAfter
  <2>4. \A i \in 1 .. Len(inbound') : i > Len(inbound) \/ i <= Len(inbound)
    BY <1>3
  <2>5. \A i \in 1 .. Len(inbound') :
          WantedAt(i)' => inbound'[i].round = TurnAfter(Len(ledger')).round
    BY <2>2, <2>3, <2>4
  <2>6. \A i, j \in 1 .. Len(inbound') :
          i < j /\ WantedAt(i)' /\ ArgumentAt(j)' => WantedAt(j)'
    <3> SUFFICES ASSUME NEW i \in 1 .. Len(inbound'), NEW j \in 1 .. Len(inbound'),
                        i < j, WantedAt(i)' PROVE WantedAt(j)'
      OBVIOUS
    <3>1. i > Len(inbound)
      BY <2>2, <2>4
    <3>2. j > Len(inbound)
      BY <1>3, <3>1
    <3> QED
      BY <2>2, <3>2
  <2>7. \A a \in Agents : prompts'[a] = <<>> /\ ~Working(a)'
    BY <1>1, <1>4, <2>1
  <2> QED
    BY <2>5, <2>6, <2>7 DEF WantedTurn
<1>8. ASSUME active = NoAgent PROVE WantedTurn'
  BY <1>1, <1>8 DEF WantedTurn
<1> QED
  BY <1>5, <1>6, <1>7, <1>8 DEF TurnInv

\* A prompt to b when no other work is outstanding and every argument still
\* queued is of the other agent.
LEMMA PromptStep ==
  ASSUME TypeOK, TurnInv, TypeOK',
         NEW b \in Agents, NEW r \in 1 .. MaxRounds,
         SendTurnPrompt(b, r, ledger'),
         \A a \in Agents : prompts[a] = <<>> /\ ~Working(a)',
         \A i \in 1 .. Len(inbound') : ArgumentAt(i)' => inbound'[i].agent # b,
         Alternating(ledger'), jpc' \notin PreStart,
         Len(ledger') = 2 * (r - 1) + (IF b = Pro THEN 0 ELSE 1)
  PROVE  TurnInv'
<1> DEFINE p == [hist |-> Len(ledger'), ending |-> IsLast(b, r)]
<1>1. active' = b /\ round' = r /\ b # NoAgent
  BY DEF SendTurnPrompt, Agents, Pro, Con, NoAgent
<1>2. /\ prompts'[b] = <<p>> /\ Len(prompts'[b]) = 1 /\ prompts'[b][1] = p
      /\ \A a \in Agents \ {b} : prompts'[a] = <<>> /\ Len(prompts'[a]) = 0
  <2>1. prompts' = [prompts EXCEPT ![b] = Append(prompts[b], p)]
    BY DEF SendTurnPrompt
  <2>2. prompts'[b] = Append(<<>>, p) /\ \A a \in Agents \ {b} : prompts'[a] = <<>>
    BY <2>1 DEF TypeOK
  <2>3. Append(<<>>, p) = <<p>>
    OBVIOUS
  <2> QED
    BY <2>2, <2>3
<1>3. p.hist = Len(ledger') /\ p.ending = IsLast(b, r)
  OBVIOUS
<1> HIDE DEF p
<1>4. NothingBeforeStart'
  BY DEF NothingBeforeStart, PreStart
<1>5. Position'
  <2>1. Len(ledger') <= 2 * MaxRounds
    BY BoundsAssumption
  <2> QED
    BY <1>1, <2>1 DEF Position
<1>6. OnePrompt'
  <2>1. ASSUME NEW a \in Agents PROVE Len(prompts'[a]) \in 0 .. 1
    <3>1. CASE a = b
      <4>1. Len(prompts'[a]) = 1
        BY <1>2, <3>1, Zenon
      <4> QED
        BY ONLY <4>1
    <3>2. CASE a # b
      BY <1>2, <3>2
    <3> QED
      BY <3>1, <3>2
  <2>2. \A n \in 0 .. 1 : n <= 1
    OBVIOUS
  <2>3. \A a \in Agents : Len(prompts'[a]) <= 1
    BY <2>1, <2>2
  <2> QED
    BY <2>3 DEF OnePrompt
<1>7. WantedTurn'
  <2>1. \A i \in 1 .. Len(inbound') : ~WantedAt(i)'
    BY <1>1 DEF WantedAt
  <2>2. \A a \in Agents : prompts'[a] # <<>> => a = b /\ prompts'[a][1].hist = Len(ledger')
    BY <1>2, <1>3
  <2> QED
    BY <1>1, <2>1, <2>2 DEF WantedTurn
<1>8. EndingIsLast'
  <2>1. \A a \in Agents : \A i \in 1 .. Len(prompts'[a]) : prompts'[a][i] = p
    BY <1>2
  <2>2. p.ending <=> p.hist = 2 * MaxRounds - 1
    <3>1. CASE b = Pro
      <4>3. IsLast(b, r) = FALSE
        BY <3>1 DEF IsLast, Pro, Con
      <4>1. p.hist = 2 * (r - 1) /\ p.ending = FALSE
        BY <1>3, <3>1, <4>3
      <4>2. 2 * (r - 1) # 2 * MaxRounds - 1
        BY BoundsAssumption
      <4> QED
        BY <4>1, <4>2
    <3>2. CASE b = Con
      <4>1. p.hist = 2 * (r - 1) + 1 /\ p.ending = (r >= MaxRounds)
        BY <1>3, <3>2 DEF IsLast, Pro, Con
      <4>2. r >= MaxRounds <=> 2 * (r - 1) + 1 = 2 * MaxRounds - 1
        BY BoundsAssumption
      <4> QED
        BY <4>1, <4>2
    <3> QED
      BY <3>1, <3>2 DEF Agents
  <2> QED
    BY <2>1, <2>2 DEF EndingIsLast
<1> QED
  BY <1>4, <1>5, <1>6, <1>7, <1>8 DEF TurnInv

\* The judge handles the argument it is waiting for: the wanted turn moves on.
LEMMA HandleArgumentStep == TypeOK /\ TypeOK' /\ TurnInv /\ HandleArgument => TurnInv'
<1> SUFFICES ASSUME TypeOK, TypeOK', TurnInv, HandleArgument PROVE TurnInv'
  OBVIOUS
<1> DEFINE m == inbound[1]
<1> DEFINE n == Len(ledger)
<1>1. /\ jpc = "loop" /\ inbound # <<>> /\ inbound' = Tail(inbound)
      /\ Received = m /\ m.kind = "argument" /\ m.agent = active
      /\ ledger' = Append(ledger, [agent |-> m.agent, round |-> m.round])
      /\ child' = child /\ turn' = turn
      /\ (NextPrompt(ledger') /\ UNCHANGED judgeVars) \/ Conclude
  BY DEF HandleArgument, Takes, InTurn, Received
<1>2. Len(inbound') = Len(inbound) - 1 /\ Len(inbound) \in Nat \ {0}
        /\ \A i \in 1 .. Len(inbound') : inbound'[i] = inbound[i + 1]
  BY <1>1, HeadTailProperties, EmptySeq DEF TypeOK
<1>3. m \in Messages /\ active \in Agents /\ active # NoAgent
  <2>1. m \in Messages
    BY <1>2 DEF TypeOK
  <2> QED
    BY <1>1, <2>1, MessageFields DEF Agents, Pro, Con, NoAgent
<1>4. WantedAt(1) /\ 1 \in 1 .. Len(inbound)
  BY <1>1, <1>2 DEF WantedAt, ArgumentAt
<1>5. /\ m.round = TurnAfter(n).round
      /\ \A a \in Agents : prompts[a] = <<>> /\ ~Working(a)
      /\ \A j \in 1 .. Len(inbound) : 1 < j /\ ArgumentAt(j) => WantedAt(j)
  BY <1>3, <1>4 DEF TurnInv, WantedTurn
<1>6. \A i \in 1 .. Len(inbound') : ArgumentAt(i)' => inbound'[i].agent = active
  <2> SUFFICES ASSUME NEW i \in 1 .. Len(inbound'), ArgumentAt(i)'
               PROVE  inbound'[i].agent = active
    OBVIOUS
  <2>1. i + 1 \in 1 .. Len(inbound) /\ 1 < i + 1 /\ inbound'[i] = inbound[i + 1]
    BY <1>2
  <2>2. ArgumentAt(i + 1)
    BY <2>1 DEF ArgumentAt
  <2> QED
    BY <1>5, <2>1, <2>2 DEF WantedAt
<1>7. \A a \in Agents : ~Working(a)'
  BY <1>1, <1>5 DEF Working
<1>8. n \in Nat /\ round \in 1 .. MaxRounds /\ n = 2 * (round - 1) + (IF active = Pro THEN 0 ELSE 1)
  BY <1>3 DEF TurnInv, Position, TypeOK
<1>9. [agent |-> m.agent, round |-> m.round] = TurnAfter(n)
  <2>1. m.agent = IF n % 2 = 0 THEN Pro ELSE Con
    <3>1. CASE active = Pro
      BY <1>1, <1>8, <3>1
    <3>2. CASE active = Con
      BY <1>1, <1>8, <3>2 DEF Pro, Con
    <3> QED
      BY <1>3, <3>1, <3>2 DEF Agents
  <2> QED
    BY <1>5, <2>1 DEF TurnAfter
<1>10. Len(ledger') = n + 1 /\ Alternating(ledger')
  <2>1. TurnAfter(n) \in Turns
    BY <1>8 DEF TurnAfter, Turns, Agents
  <2>2. ledger' = Append(ledger, TurnAfter(n)) /\ ledger \in Seq(Turns)
    BY <1>1, <1>9 DEF TypeOK
  <2>3. /\ Len(ledger') = n + 1 /\ ledger'[n + 1] = TurnAfter(n)
        /\ \A i \in 1 .. n : ledger'[i] = ledger[i]
    BY <2>1, <2>2, AppendTo
  <2>4. \A i \in 1 .. n : ledger[i] = TurnAfter(i - 1)
    BY DEF TurnInv, Alternating
  <2>5. \A i \in 1 .. n + 1 : ledger'[i] = TurnAfter(i - 1)
    <3> SUFFICES ASSUME NEW i \in 1 .. n + 1 PROVE ledger'[i] = TurnAfter(i - 1)
      OBVIOUS
    <3>1. i \in 1 .. n \/ i = n + 1
      BY <1>8
    <3>2. (n + 1) - 1 = n
      BY <1>8
    <3> QED
      BY <2>3, <2>4, <3>1, <3>2
  <2> QED
    BY <2>3, <2>5 DEF Alternating
<1> HIDE DEF m, n
<1>11. CASE active = Pro /\ SendTurnPrompt(Con, round, ledger') /\ UNCHANGED judgeVars
  <2>1. Con \in Agents /\ Pro # Con
    BY DEF Agents, Pro, Con
  <2>2. Len(ledger') = 2 * (round - 1) + (IF Con = Pro THEN 0 ELSE 1)
    BY <1>8, <1>10, <1>11, <2>1
  <2>3. \A i \in 1 .. Len(inbound') : ArgumentAt(i)' => inbound'[i].agent # Con
    BY <1>6, <1>11, <2>1
  <2>4. jpc' \notin PreStart
    BY <1>1, <1>11 DEF PreStart
  <2> QED
    BY <1>5, <1>7, <1>8, <1>10, <1>11, <2>1, <2>2, <2>3, <2>4, PromptStep
<1>12. CASE /\ active = Con /\ round < MaxRounds
            /\ SendTurnPrompt(Pro, round + 1, ledger') /\ UNCHANGED judgeVars
  <2>1. Pro \in Agents /\ Pro # Con /\ round + 1 \in 1 .. MaxRounds
    BY <1>8, <1>12, BoundsAssumption DEF Agents, Pro, Con
  <2>2. Len(ledger') = 2 * ((round + 1) - 1) + (IF Pro = Pro THEN 0 ELSE 1)
    BY <1>8, <1>10, <1>12, <2>1
  <2>3. \A i \in 1 .. Len(inbound') : ArgumentAt(i)' => inbound'[i].agent # Pro
    BY <1>6, <1>12, <2>1
  <2>4. jpc' \notin PreStart
    BY <1>1, <1>12 DEF PreStart
  <2> QED
    BY <1>5, <1>7, <1>10, <1>12, <2>1, <2>2, <2>3, <2>4, PromptStep
<1>13. CASE Conclude
  <2>1. active = Con /\ round >= MaxRounds /\ active' = NoAgent /\ jpc' = "closing"
          /\ round' = round /\ prompts' = prompts
    BY <1>13 DEF Conclude
  <2>2. Len(ledger') = 2 * MaxRounds
    BY <1>8, <1>10, <2>1, BoundsAssumption DEF Pro, Con
  <2>3. Position' /\ NothingBeforeStart' /\ WantedTurn'
    BY <2>1, <2>2, BoundsAssumption DEF Position, NothingBeforeStart, WantedTurn
  <2>4. OnePrompt' /\ EndingIsLast'
    BY <1>5, <1>7, <2>1 DEF TurnInv, OnePrompt, EndingIsLast
  <2> QED
    BY <1>10, <2>3, <2>4 DEF TurnInv
<1> QED
  BY <1>1, <1>11, <1>12, <1>13 DEF NextPrompt

\* Work that is no longer wanted: the debate is cut short.
LEMMA BudgetFailureStep == TypeOK /\ TurnInv /\ BudgetFailure => TurnInv'
<1> SUFFICES ASSUME TypeOK, TurnInv, BudgetFailure PROVE TurnInv'
  OBVIOUS
<1>1. /\ active' = NoAgent /\ jpc' = "closing"
      /\ UNCHANGED <<round, ledger, prompts, child, turn>>
  BY DEF BudgetFailure
<1>2. Alternating(ledger)' /\ Position' /\ OnePrompt' /\ EndingIsLast'
  BY <1>1 DEF TurnInv, Alternating, Position, OnePrompt, Working, EndingIsLast
<1>3. NothingBeforeStart' /\ WantedTurn'
  BY <1>1 DEF NothingBeforeStart, WantedTurn
<1> QED
  BY <1>2, <1>3 DEF TurnInv

\* Every step keeps the wanted turn in one place.
LEMMA TurnStep == TypeOK /\ TypeOK' /\ TurnInv /\ [Next]_vars => TurnInv'
<1> SUFFICES ASSUME TypeOK, TypeOK', TurnInv, [Next]_vars PROVE TurnInv'
  OBVIOUS
<1> USE DEF Same, NoNewWork, NotBack, PreStart, Working
<1>1. CASE TopicAttemptFails
  BY <1>1, KeepQueue DEF TopicAttemptFails
<1>2. CASE TopicChosen
  BY <1>2, KeepQueue DEF TopicChosen
<1>3. CASE SpawnChildren
  <2>1. \A a \in Agents : ~Working(a)'
    BY <1>3 DEF SpawnChildren
  <2> QED
    BY <1>3, <2>1, KeepQueue DEF SpawnChildren
<1>4. CASE StartDebate
  BY <1>4, StartDebateStep
<1>5. CASE HandleHeartbeat
  BY <1>5, ShortenQueue DEF HandleHeartbeat, Takes
<1>6. CASE HandleTelemetry
  BY <1>6, ShortenQueue DEF HandleTelemetry, Takes
<1>7. CASE HandleOutOfTurn
  BY <1>7, ShortenQueue DEF HandleOutOfTurn, Takes
<1>8. CASE HandleArgument
  BY <1>8, HandleArgumentStep
<1>9. CASE HandleAfterShutdown
  BY <1>9, ShortenQueue DEF HandleAfterShutdown
<1>10. CASE BudgetFailure
  BY <1>10, BudgetFailureStep
<1>11. ASSUME NEW a \in Agents, TerminateChild(a) PROVE TurnInv'
  BY <1>11, KeepQueue DEF TerminateChild, TypeOK
<1>12. CASE StopWatchdog
  BY <1>12, KeepQueue DEF StopWatchdog, TypeOK
<1>13. CASE EvaluationFails
  BY <1>13, KeepQueue DEF EvaluationFails
<1>14. CASE DeclareWinner
  BY <1>14, KeepQueue DEF DeclareWinner
<1>15. CASE JudgeKilled
  BY <1>15, KeepQueue DEF JudgeKilled
<1>16. ASSUME NEW a \in Agents, TakePrompt(a) PROVE TurnInv'
  BY <1>16, TakePromptStep
<1>17. ASSUME NEW a \in Agents, Generate(a) PROVE TurnInv'
  <2> DEFINE m == Message("telemetry", a, 0)
  <2>1. m \in Messages /\ m.kind # "argument"
    BY MessageType DEF Message
  <2>2. inbound' = Append(inbound, m) /\ NoNewWork
    BY <1>17 DEF Generate, TypeOK
  <2>3. Same /\ NotBack
    BY <1>17 DEF Generate
  <2> HIDE DEF m
  <2> QED
    BY <2>1, <2>2, <2>3, LengthenQueue
<1>18. ASSUME NEW a \in Agents, ExceedBudget(a) PROVE TurnInv'
  BY <1>18, KeepQueue DEF ExceedBudget, TypeOK
<1>19. ASSUME NEW a \in Agents, Emit(a) PROVE TurnInv'
  BY <1>19, EmitStep
<1>20. ASSUME NEW a \in Agents, DropReply(a) PROVE TurnInv'
  BY <1>20, KeepQueue DEF DropReply, TypeOK
<1>21. ASSUME NEW a \in Agents, RejectReply(a) PROVE TurnInv'
  BY <1>21, KeepQueue DEF RejectReply, TypeOK
<1>22. ASSUME NEW a \in Agents, Heartbeat(a) PROVE TurnInv'
  <2> DEFINE m == Message("heartbeat", a, 0)
  <2>1. m \in Messages /\ m.kind # "argument"
    BY MessageType DEF Message
  <2>2. inbound' = Append(inbound, m) /\ Same /\ NoNewWork /\ NotBack
    BY <1>22 DEF Heartbeat
  <2> HIDE DEF m
  <2> QED
    BY <2>1, <2>2, LengthenQueue
<1>23. ASSUME NEW a \in Agents, Stall(a) \/ Crash(a) PROVE TurnInv'
  <2>1. NoNewWork
    BY <1>23 DEF Stall, Crash, Fail, TypeOK
  <2> QED
    BY <1>23, <2>1, KeepQueue DEF Stall, Crash, Fail
<1>24. ASSUME NEW a \in Agents, ReapSilent(a) PROVE TurnInv'
  BY <1>24, KeepQueue DEF ReapSilent, TypeOK
<1>25. CASE Tick
  BY <1>25, KeepQueue DEF Tick
<1>26. CASE Receive
  BY <1>26, KeepQueue DEF Receive
<1>27. CASE GiveUp
  BY <1>27, KeepQueue DEF GiveUp
<1>28. CASE Finish
  BY <1>28, KeepQueue DEF Finish
<1>29. CASE HandlerRaises
  BY <1>29, KeepQueue DEF HandlerRaises
<1>30. CASE UNCHANGED vars
  BY <1>30, KeepQueue
<1> QED
  BY <1>1, <1>2, <1>3, <1>4, <1>5, <1>6, <1>7, <1>8, <1>9, <1>10, <1>11, <1>12, <1>13, <1>14, <1>15, <1>16, <1>17, <1>18, <1>19, <1>20, <1>21, <1>22, <1>23, <1>24, <1>25, <1>26, <1>27, <1>28, <1>29, <1>30
  DEF Next, JudgeStep, ChildStep, SessionStep, Over

-------------------------------------------------------------------------------
LEMMA InitType == Init => TypeOK
<1> SUFFICES ASSUME Init PROVE TypeOK
  OBVIOUS
<1>1. /\ prompts \in [Agents -> Seq(Prompts)] /\ turn \in [Agents -> Prompts]
      /\ inbound \in Seq(Messages) /\ outbound \in Seq(Events)
      /\ ledger \in Seq(Turns) /\ transcript \in Seq(Turns)
      /\ saved \in [ledger : Seq(Turns), round : Nat]
  BY EmptySeq DEF Init, Prompts
<1>2. /\ silence \in [Agents -> 0 .. (Timeout + 1)] /\ tries \in 0 .. Attempts
      /\ round \in 0 .. MaxRounds
  BY BoundsAssumption DEF Init
<1> QED
  BY <1>1, <1>2 DEF Init, TypeOK, NoAgent

LEMMA InitTurn == Init => TurnInv
BY BoundsAssumption DEF Init, TurnInv, Alternating, NothingBeforeStart, ArgumentAt, Position,
   OnePrompt, Working, WantedTurn, EndingIsLast, NoAgent

\* Every variable of a session keeps its type, for any number of rounds,
\* tries and ticks and any set of faults: in particular the round the judge
\* counts never passes MaxRounds and no LLM loop passes its attempts.
THEOREM DebateTypes == Spec => []TypeOK
<1> QED
  BY InitType, TypeStep, PTL DEF Spec

\* The wanted turn is in one place at a time: the inductive invariant of the
\* judge's turn taking.
THEOREM DebateTurnTaking == Spec => []TurnInv
<1>1. TypeOK /\ TurnInv /\ [Next]_vars => TypeOK' /\ TurnInv'
  BY TypeStep, TurnStep
<1> QED
  BY <1>1, InitType, InitTurn, PTL DEF Spec

\* The ledger is the debate in strict alternation, each turn with its own
\* round, whatever the children repeat, drop or fail to send.
THEOREM LedgerInOrder == Spec => []LedgerAlternates
<1>1. TurnInv => LedgerAlternates
  BY DEF TurnInv, LedgerAlternates, Position
<1> QED
  BY <1>1, DebateTurnTaking, PTL

\* No child ever argues against a stale history, and no two at once.
THEOREM OneTurnAtATime == Spec => []SingleTurn
<1>1. TypeOK /\ TurnInv => SingleTurn
  <2> SUFFICES ASSUME TypeOK, TurnInv, NEW a \in Agents
               PROVE /\ Len(prompts[a]) + (IF Working(a) THEN 1 ELSE 0) <= 1
                     /\ prompts[a] # <<>> /\ active # NoAgent =>
                          active = a /\ prompts[a][1].hist = Len(ledger)
                     /\ Working(a) /\ active # NoAgent =>
                          active = a /\ turn[a].hist = Len(ledger)
    BY DEF SingleTurn
  <2>1. Len(prompts[a]) + (IF Working(a) THEN 1 ELSE 0) <= 1
    <3>1. CASE Working(a)
      <4>1. Len(prompts[a]) = 0
        BY <3>1 DEF TurnInv, OnePrompt
      <4> QED
        BY <3>1, <4>1
    <3>2. CASE ~Working(a)
      <4>1. Len(prompts[a]) <= 1 /\ Len(prompts[a]) \in Nat
        BY DEF TurnInv, OnePrompt, TypeOK
      <4> QED
        BY <3>2, <4>1
    <3> QED
      BY <3>1, <3>2
  <2> QED
    BY <2>1 DEF TurnInv, WantedTurn
<1> QED
  BY <1>1, DebateTypes, DebateTurnTaking, PTL

\* The prompt marked ENDING is that of the debate's last turn, and no other.
THEOREM EndingInPlace == Spec => []EndingIsLast
<1>1. TurnInv => EndingIsLast
  BY DEF TurnInv
<1> QED
  BY <1>1, DebateTurnTaking, PTL
==============================================================================

------------------------ MODULE DebateProtocol_proofs ------------------------
(***************************************************************************)
(* A debate session implements the abstract protocol: whatever the caller  *)
(* is shown, and however the call ends, is a behaviour of DebateProtocol.  *)
(***************************************************************************)
EXTENDS DebateClosing_proofs, FunctionTheorems

USE DEF vars, judgeVars, debateVars, watchVars, childVars, queueVars, sessionVars

\* How many turns the caller will have been shown before event i.
ArgumentsBefore(i) == {j \in 1 .. i - 1 : outbound[j].kind = "argument"}
ShownBefore(i) == Len(transcript) + Cardinality(ArgumentsBefore(i))

\* While the caller listens: the arguments on the outbound queue go on where the
\* transcript ends, ...
InOrder ==
  \A i \in 1 .. Len(outbound) : outbound[i].kind = "argument" =>
    /\ [agent |-> outbound[i].agent, round |-> outbound[i].round]
         = TurnAfter(ShownBefore(i))
    /\ ShownBefore(i) < 2 * MaxRounds
\* ... a final judgment comes after the last of them, ...
FinalIsLast ==
  \A i \in 1 .. Len(outbound) :
    outbound[i].kind = "final" => ShownBefore(i) = 2 * MaxRounds
\* ... and they are all of the ledger while the judge lives.
AllStreamed == jpc # "exited" => ShownBefore(Len(outbound) + 1) = Len(ledger)
Streamed == outcome = "polling" => InOrder /\ FinalIsLast /\ AllStreamed

\* A debate that was not cut short is judged after its last turn.
Complete ==
  jpc = "judging" \/ (jpc = "closing" /\ then = "judging") =>
    truncated \/ Len(ledger) = 2 * MaxRounds

StreamInv == Streamed /\ Complete

-------------------------------------------------------------------------------
(* Counting the arguments on the outbound queue. *)

LEMMA Lengths ==
  TypeOK => Len(transcript) \in Nat /\ Len(outbound) \in Nat /\ Len(ledger) \in Nat
BY DEF TypeOK

LEMMA ArgumentsFinite ==
  \A i \in Nat : /\ IsFiniteSet(ArgumentsBefore(i))
                 /\ Cardinality(ArgumentsBefore(i)) \in Nat
<1> TAKE i \in Nat
<1>1. IsFiniteSet(1 .. i - 1)
  BY FS_Interval
<1>2. ArgumentsBefore(i) \subseteq 1 .. i - 1
  BY DEF ArgumentsBefore
<1> QED
  BY <1>1, <1>2, FS_Subset, FS_CardinalityType

\* Nothing is before the first event.
LEMMA ShownFirst == TypeOK => ShownBefore(1) = Len(transcript)
<1>1. ArgumentsBefore(1) = {}
  BY DEF ArgumentsBefore
<1>2. Cardinality(ArgumentsBefore(1)) = 0
  BY <1>1, FS_EmptySet
<1> QED
  BY <1>2, Lengths DEF ShownBefore

\* A new event changes nothing before it, ...
LEMMA ShownAppend ==
  ASSUME TypeOK, NEW e \in Events, outbound' = Append(outbound, e), transcript' = transcript,
         NEW n \in Nat, n = Len(outbound)
  PROVE  /\ \A i \in 1 .. n + 1 : ShownBefore(i)' = ShownBefore(i)
         /\ ShownBefore(n + 2)' = ShownBefore(n + 1) + (IF e.kind = "argument" THEN 1 ELSE 0)
<1> DEFINE A == ArgumentsBefore(n + 1)
<1> DEFINE B == {j \in 1 .. n + 1 : outbound'[j].kind = "argument"}
<1>1. /\ Len(outbound') = n + 1 /\ outbound'[n + 1] = e
      /\ \A i \in 1 .. n : outbound'[i] = outbound[i]
  BY AppendTo DEF TypeOK
<1>2. \A i \in 1 .. n + 1 : ArgumentsBefore(i)' = ArgumentsBefore(i)
  BY <1>1 DEF ArgumentsBefore
<1>3. \A i \in 1 .. n + 1 : ShownBefore(i)' = ShownBefore(i)
  BY <1>2 DEF ShownBefore
<1>4. IsFiniteSet(A) /\ Cardinality(A) \in Nat
  BY ArgumentsFinite
<1>5. A = {j \in 1 .. n : outbound[j].kind = "argument"} /\ n + 1 \notin A
  BY DEF ArgumentsBefore
<1>6. ArgumentsBefore(n + 2)' = B
  <2>1. (n + 2) - 1 = n + 1
    OBVIOUS
  <2> QED
    BY <2>1 DEF ArgumentsBefore
<1>7. Len(transcript) \in Nat
  BY Lengths
<1>8. /\ ShownBefore(n + 2)' = Len(transcript) + Cardinality(B)
      /\ ShownBefore(n + 1) = Len(transcript) + Cardinality(A)
  BY <1>6 DEF ShownBefore
<1>9. CASE e.kind = "argument"
  <2>1. B = A \cup {n + 1}
    BY <1>1, <1>5, <1>9
  <2> HIDE DEF A, B
  <2>2. Cardinality(B) = Cardinality(A) + 1
    BY <1>4, <1>5, <2>1, FS_AddElement
  <2> QED
    BY <1>3, <1>4, <1>7, <1>8, <1>9, <2>2
<1>10. CASE e.kind # "argument"
  <2>1. A = B
    BY <1>1, <1>5, <1>10
  <2> HIDE DEF A, B
  <2> QED
    BY <1>3, <1>4, <1>7, <1>8, <1>10, <2>1
<1> QED
  BY <1>9, <1>10

\* ... a cut queue loses only what was after the cut, ...
LEMMA ShownPrefix ==
  ASSUME TypeOK, NEW n \in 0 .. Len(outbound), outbound' = SubSeq(outbound, 1, n),
         transcript' = transcript
  PROVE  /\ Len(outbound') = n
         /\ \A i \in 1 .. n : outbound'[i] = outbound[i]
         /\ \A i \in 1 .. n + 1 : ShownBefore(i)' = ShownBefore(i)
<1>1. /\ Len(outbound') = n /\ n \in Nat
      /\ \A i \in 1 .. n : outbound'[i] = outbound[i]
  BY SubSeqProperties DEF TypeOK
<1>2. \A i \in 1 .. n + 1 : ArgumentsBefore(i)' = ArgumentsBefore(i)
  BY <1>1 DEF ArgumentsBefore
<1> QED
  BY <1>1, <1>2 DEF ShownBefore

\* ... and receiving an event moves the others one place up: an argument goes
\* from the queue to the transcript.
LEMMA ShownReceive ==
  ASSUME TypeOK, outbound # <<>>, outbound' = Tail(outbound),
         Len(transcript') = Len(transcript)
                              + (IF Head(outbound).kind = "argument" THEN 1 ELSE 0)
  PROVE  /\ Len(outbound') = Len(outbound) - 1
         /\ \A i \in 1 .. Len(outbound') : outbound'[i] = outbound[i + 1]
         /\ \A i \in 1 .. Len(outbound') + 1 : ShownBefore(i)' = ShownBefore(i + 1)
<1>1. /\ Len(outbound') = Len(outbound) - 1 /\ Len(outbound) \in Nat \ {0}
      /\ \A i \in 1 .. Len(outbound') : outbound'[i] = outbound[i + 1]
      /\ Head(outbound) = outbound[1]
  BY HeadTailProperties, EmptySeq DEF TypeOK
<1>2. ASSUME NEW i \in 1 .. Len(outbound') + 1 PROVE ShownBefore(i)' = ShownBefore(i + 1)
  <2> DEFINE S == ArgumentsBefore(i + 1)
  <2> DEFINE T == {j \in 1 .. i - 1 : outbound'[j].kind = "argument"}
  <2> DEFINE f == [j \in T |-> j + 1]
  <2>1. i \in Nat /\ i + 1 \in Nat /\ i + 1 <= Len(outbound) + 1 /\ i >= 1
    BY <1>1
  <2>2. ArgumentsBefore(i)' = T
    BY DEF ArgumentsBefore
  <2>3. IsFiniteSet(S) /\ Cardinality(S) \in Nat
    BY <2>1, ArgumentsFinite
  <2>4. f \in Bijection(T, S \ {1})
    <3>1. \A j \in T : j + 1 \in S \ {1}
      BY <1>1, <2>1 DEF ArgumentsBefore
    <3>2. \A j, k \in T : j + 1 = k + 1 => j = k
      BY <2>1
    <3>3. \A k \in S \ {1} : k - 1 \in T /\ (k - 1) + 1 = k
      BY <1>1, <2>1 DEF ArgumentsBefore
    <3> HIDE DEF T, S
    <3> QED
      BY <3>1, <3>2, <3>3, Fun_IsBij
  <2>5. IsFiniteSet(T) /\ Cardinality(T) \in Nat /\ Cardinality(S \ {1}) = Cardinality(T)
    <3>1. i - 1 \in Int /\ T \subseteq 1 .. i - 1
      BY <2>1
    <3>4. IsFiniteSet(1 .. i - 1)
      BY <3>1, FS_Interval
    <3>2. IsFiniteSet(T)
      BY <3>1, <3>4, FS_Subset
    <3>3. ExistsBijection(T, S \ {1})
      BY <2>4 DEF ExistsBijection
    <3> HIDE DEF T, S
    <3> QED
      BY <3>2, <3>3, FS_Bijection, FS_CardinalityType
  <2>6. 1 \in S <=> Head(outbound).kind = "argument"
    BY <1>1, <2>1 DEF ArgumentsBefore
  <2>7. /\ ShownBefore(i)' = Len(transcript') + Cardinality(T)
        /\ ShownBefore(i + 1) = Len(transcript) + Cardinality(S)
    BY <2>2 DEF ShownBefore
  <2>8. Len(transcript) \in Nat
    BY Lengths
  <2> HIDE DEF S, T
  <2>9. CASE 1 \in S
    <3>1. Cardinality(S \ {1}) = Cardinality(S) - 1
      BY <2>3, <2>9, FS_RemoveElement
    <3> QED
      BY <2>3, <2>5, <2>6, <2>7, <2>8, <2>9, <3>1
  <2>10. CASE 1 \notin S
    <3>1. Cardinality(S \ {1}) = Cardinality(S)
      BY <2>3, <2>10, FS_RemoveElement
    <3> QED
      BY <2>3, <2>5, <2>6, <2>7, <2>8, <2>10, <3>1
  <2> QED
    BY <2>9, <2>10
<1> QED
  BY <1>1, <1>2
-------------------------------------------------------------------------------
(* What is streamed. *)

\* What the caller has is changed by its own steps only.
LEMMA SessionChange ==
  [Next]_vars =>
    UNCHANGED <<outcome, transcript, verdict>> \/ Receive \/ GiveUp \/ Finish \/ HandlerRaises
BY DEF Next, JudgeStep, ChildStep, SessionStep, Over, TopicAttemptFails, TopicChosen,
   SpawnChildren, StartDebate, HandleHeartbeat, HandleTelemetry, HandleOutOfTurn,
   HandleArgument, NextPrompt, Conclude, HandleAfterShutdown, BudgetFailure, TerminateChild,
   StopWatchdog, EvaluationFails, DeclareWinner, JudgeKilled, TakePrompt, Generate,
   ExceedBudget, Emit, DropReply, RejectReply, Heartbeat, Stall, Crash, Fail, Tick,
   ReapSilent, Receive, GiveUp, Finish, HandlerRaises, Takes

\* A step that leaves the queue as it is.
LEMMA StreamKept ==
  ASSUME Streamed, UNCHANGED <<outbound, transcript, ledger>>,
         outcome' = "polling" => outcome = "polling",
         jpc' # "exited" => jpc # "exited"
  PROVE  Streamed'
<1> SUFFICES ASSUME outcome' = "polling" PROVE InOrder' /\ FinalIsLast' /\ AllStreamed'
  BY DEF Streamed
<1>1. InOrder /\ FinalIsLast /\ AllStreamed
  BY DEF Streamed
<1>2. \A i : ShownBefore(i)' = ShownBefore(i)
  BY DEF ShownBefore, ArgumentsBefore
<1> QED
  BY <1>1, <1>2 DEF InOrder, FinalIsLast, AllStreamed

\* A step of the judge that queues an event.
LEMMA StreamAppend ==
  ASSUME TypeOK, Streamed, UNCHANGED <<transcript, outcome>>, jpc # "exited",
         NEW e \in Events, outbound' = Append(outbound, e),
         IF e.kind = "argument"
           THEN /\ Len(ledger') = Len(ledger) + 1
                /\ [agent |-> e.agent, round |-> e.round] = TurnAfter(Len(ledger))
                /\ Len(ledger) < 2 * MaxRounds
           ELSE ledger' = ledger,
         e.kind = "final" => Len(ledger) = 2 * MaxRounds
  PROVE  Streamed'
<1> SUFFICES ASSUME outcome' = "polling" PROVE InOrder' /\ FinalIsLast' /\ AllStreamed'
  BY DEF Streamed
<1> DEFINE m == Len(outbound)
<1>1. PICK n \in Nat : n = m
  BY Lengths
<1>2. /\ Len(outbound') = n + 1 /\ outbound'[n + 1] = e
      /\ \A i \in 1 .. n : outbound'[i] = outbound[i]
  BY <1>1, AppendTo DEF TypeOK
<1>3. /\ \A i \in 1 .. n + 1 : ShownBefore(i)' = ShownBefore(i)
      /\ ShownBefore(n + 2)' = ShownBefore(n + 1) + (IF e.kind = "argument" THEN 1 ELSE 0)
  BY <1>1, ShownAppend
<1>4. InOrder /\ FinalIsLast /\ ShownBefore(n + 1) = Len(ledger)
  BY <1>1 DEF Streamed, AllStreamed
<1>5. InOrder'
  <2> SUFFICES ASSUME NEW i \in 1 .. n + 1, outbound'[i].kind = "argument"
               PROVE  /\ [agent |-> outbound'[i].agent, round |-> outbound'[i].round]
                           = TurnAfter(ShownBefore(i)')
                      /\ ShownBefore(i)' < 2 * MaxRounds
    BY <1>2 DEF InOrder
  <2>1. CASE i = n + 1
    BY <1>2, <1>3, <1>4, <2>1
  <2>2. CASE i # n + 1
    <3>1. i \in 1 .. m
      BY <1>1, <2>2
    <3> QED
      BY <1>1, <1>2, <1>3, <1>4, <3>1 DEF InOrder
  <2> QED
    BY <2>1, <2>2
<1>6. FinalIsLast'
  <2> SUFFICES ASSUME NEW i \in 1 .. n + 1, outbound'[i].kind = "final"
               PROVE  ShownBefore(i)' = 2 * MaxRounds
    BY <1>2 DEF FinalIsLast
  <2>1. CASE i = n + 1
    BY <1>2, <1>3, <1>4, <2>1
  <2>2. CASE i # n + 1
    <3>1. i \in 1 .. m
      BY <1>1, <2>2
    <3> QED
      BY <1>1, <1>2, <1>3, <1>4, <3>1 DEF FinalIsLast
  <2> QED
    BY <2>1, <2>2
<1>7. AllStreamed'
  <2>1. Len(outbound') + 1 = n + 2
    BY <1>2
  <2>2. ShownBefore(n + 2)' = Len(ledger')
    BY <1>3, <1>4, Lengths
  <2> QED
    BY <2>1, <2>2 DEF AllStreamed
<1> QED
  BY <1>5, <1>6, <1>7

\* A killed judge: what its queue had not yet written is lost.
LEMMA StreamCut ==
  ASSUME TypeOK, Streamed, UNCHANGED <<transcript, outcome>>, jpc' = "exited",
         NEW n \in 0 .. Len(outbound), outbound' = SubSeq(outbound, 1, n)
  PROVE  Streamed'
<1> SUFFICES ASSUME outcome' = "polling" PROVE InOrder' /\ FinalIsLast' /\ AllStreamed'
  BY DEF Streamed
<1>1. /\ Len(outbound') = n
      /\ \A i \in 1 .. n : outbound'[i] = outbound[i] /\ i \in 1 .. Len(outbound)
      /\ \A i \in 1 .. n : ShownBefore(i)' = ShownBefore(i)
  BY ShownPrefix, Lengths
<1>2. InOrder /\ FinalIsLast
  BY DEF Streamed
<1> QED
  BY <1>1, <1>2 DEF InOrder, FinalIsLast, AllStreamed

\* The caller takes an event.
LEMMA StreamReceive == TypeOK /\ Streamed /\ Receive => Streamed'
<1> SUFFICES ASSUME TypeOK, Streamed, Receive, outcome' = "polling"
             PROVE  InOrder' /\ FinalIsLast' /\ AllStreamed'
  BY DEF Streamed
<1>1. Len(transcript') = Len(transcript) + (IF Head(outbound).kind = "argument" THEN 1 ELSE 0)
  BY Lengths DEF Receive, TypeOK
<1>2. /\ Len(outbound') = Len(outbound) - 1
      /\ \A i \in 1 .. Len(outbound') : outbound'[i] = outbound[i + 1]
      /\ \A i \in 1 .. Len(outbound') + 1 : ShownBefore(i)' = ShownBefore(i + 1)
  BY <1>1, ShownReceive DEF Receive
<1>3. InOrder /\ FinalIsLast /\ AllStreamed /\ jpc' = jpc /\ ledger' = ledger
  BY DEF Receive, Streamed
<1>4. \A i \in 1 .. Len(outbound') : i + 1 \in 1 .. Len(outbound) /\ i \in 1 .. Len(outbound') + 1
  BY <1>2, Lengths
<1>5. InOrder'
  BY <1>2, <1>3, <1>4 DEF InOrder
<1>6. FinalIsLast'
  BY <1>2, <1>3, <1>4 DEF FinalIsLast
<1>7. AllStreamed'
  <2>1. Len(outbound') + 1 \in 1 .. Len(outbound') + 1 /\ (Len(outbound') + 1) + 1 = Len(outbound) + 1
    BY <1>2, Lengths, EmptySeq DEF Receive, TypeOK
  <2>2. \A i : i = Len(outbound') + 1 => ShownBefore(i)' = ShownBefore(Len(outbound) + 1)
    BY <1>2, <2>1
  <2> QED
    BY <1>3, <2>2 DEF AllStreamed
<1> QED
  BY <1>5, <1>6, <1>7
\* The argument that is handled is the next turn of the debate, and the last one
\* concludes it.
LEMMA HandledTurn ==
  ASSUME TypeOK, TypeOK', TurnInv, TurnInv', HandleArgument
  PROVE  /\ Len(ledger') = Len(ledger) + 1 /\ Len(ledger) < 2 * MaxRounds
         /\ [agent |-> Received.agent, round |-> Received.round] = TurnAfter(Len(ledger))
         /\ Conclude => Len(ledger') = 2 * MaxRounds
<1> DEFINE t == [agent |-> Received.agent, round |-> Received.round]
<1>1. t \in Turns /\ Received.agent \in Agents
  BY HeadTailProperties, MessageFields DEF HandleArgument, Takes, Received, TypeOK
<1>2. PICK k \in Nat : k = Len(ledger)
  BY Lengths
<1>3. /\ Len(ledger') = k + 1 /\ ledger'[k + 1] = t
  <2>1. ledger' = Append(ledger, t)
    BY DEF HandleArgument
  <2>2. ledger \in Seq(Turns)
    BY DEF TypeOK
  <2> HIDE DEF t
  <2> QED
    BY <1>1, <1>2, <2>1, <2>2, AppendTo
<1>4. ledger'[k + 1] = TurnAfter(k)
  <2>1. \A i \in 1 .. k + 1 : ledger'[i] = TurnAfter(i - 1)
    BY <1>3 DEF TurnInv, Alternating
  <2>2. (k + 1) - 1 = k
    OBVIOUS
  <2> QED
    BY <2>1, <2>2
<1>5. k + 1 <= 2 * MaxRounds
  BY <1>3 DEF TurnInv, Position
<1>6. ASSUME Conclude PROVE k + 1 = 2 * MaxRounds
  <2>1. active # NoAgent
    BY <1>1 DEF HandleArgument, InTurn, Agents, Pro, Con, NoAgent
  <2>2. round \in 1 .. MaxRounds /\ k = 2 * (round - 1) + 1 /\ round >= MaxRounds
    BY <1>2, <1>6, <2>1 DEF TurnInv, Position, Conclude, Pro, Con
  <2> QED
    BY <2>2, BoundsAssumption
<1> QED
  BY <1>2, <1>3, <1>4, <1>5, <1>6, BoundsAssumption

LEMMA StreamedStep ==
  TypeOK /\ TypeOK' /\ TurnInv /\ TurnInv' /\ ClosingInv /\ Streamed /\ Complete /\ [Next]_vars
    => Streamed'
<1> SUFFICES ASSUME TypeOK, TypeOK', TurnInv, TurnInv', ClosingInv, Streamed, Complete,
                    [Next]_vars
             PROVE  Streamed'
  OBVIOUS
<1>1. CASE StartDebate
  <2> DEFINE e == [kind |-> "topic", agent |-> NoAgent, round |-> 0]
  <2>1. e \in Events /\ e.kind \notin {"argument", "final"}
    BY DEF Events
  <2>2. outbound' = Append(outbound, e) /\ jpc # "exited"
          /\ UNCHANGED <<transcript, outcome, ledger>>
    BY <1>1 DEF StartDebate
  <2> HIDE DEF e
  <2> QED
    BY <2>1, <2>2, StreamAppend
<1>2. CASE HandleTelemetry
  <2>1. Received \in Events /\ Received.kind \notin {"argument", "final"}
    BY <1>2, HeadTailProperties, MessageFields DEF HandleTelemetry, Takes, Received, TypeOK
  <2>2. outbound' = Append(outbound, Received) /\ jpc # "exited"
          /\ UNCHANGED <<transcript, outcome, ledger>>
    BY <1>2 DEF HandleTelemetry, Takes
  <2> QED
    BY <2>1, <2>2, StreamAppend
<1>3. CASE HandleArgument
  <2>1. Received \in Events /\ Received.kind = "argument"
    BY <1>3, HeadTailProperties, MessageFields DEF HandleArgument, Takes, Received, TypeOK
  <2>2. outbound' = Append(outbound, Received) /\ jpc # "exited"
          /\ UNCHANGED <<transcript, outcome>>
    BY <1>3 DEF HandleArgument, Takes
  <2> QED
    BY <1>3, <2>1, <2>2, HandledTurn, StreamAppend
<1>4. CASE DeclareWinner
  <2> DEFINE e == [kind |-> IF truncated THEN "truncated" ELSE "final",
                   agent |-> NoAgent, round |-> 0]
  <2>1. e \in Events /\ e.kind # "argument" /\ (e.kind = "final" => ~truncated)
    BY DEF Events, Judgments
  <2>2. outbound' = Append(outbound, e) /\ jpc = "judging"
          /\ UNCHANGED <<transcript, outcome, ledger>>
    BY <1>4 DEF DeclareWinner
  <2> HIDE DEF e
  <2>3. e.kind = "final" => Len(ledger) = 2 * MaxRounds
    BY <2>1, <2>2 DEF Complete
  <2> QED
    BY <2>1, <2>2, <2>3, StreamAppend
<1>5. CASE JudgeKilled
  BY <1>5, StreamCut DEF JudgeKilled
<1>6. CASE Receive
  BY <1>6, StreamReceive
<1>7. CASE HandlerRaises
  BY <1>7 DEF HandlerRaises, Streamed
<1>8. CASE UNCHANGED outbound /\ UNCHANGED <<outcome, transcript, verdict>>
  <2>1. CASE HandleArgument
    BY <1>3, <2>1
  <2>2. CASE UNCHANGED ledger
    <3>1. jpc' # "exited" => jpc # "exited"
      BY ExitStep DEF Finish, HandlerRaises
    <3> QED
      BY <1>8, <2>2, <3>1, StreamKept
  <2> QED
    BY <2>1, <2>2, LedgerStep
<1>9. CASE GiveUp \/ Finish
  BY <1>9 DEF GiveUp, Finish, Streamed
<1> QED
  BY <1>1, <1>2, <1>3, <1>4, <1>5, <1>6, <1>7, <1>8, <1>9, OutboundStep, SessionChange

LEMMA CompleteStep ==
  TypeOK /\ TypeOK' /\ TurnInv /\ TurnInv' /\ ClosingInv /\ Complete /\ [Next]_vars => Complete'
<1> SUFFICES ASSUME TypeOK, TypeOK', TurnInv, TurnInv', ClosingInv, Complete, [Next]_vars
             PROVE  Complete'
  OBVIOUS
<1>1. CASE HandleArgument
  <2>1. CASE Conclude
    BY <1>1, <2>1, HandledTurn DEF Complete
  <2>2. CASE UNCHANGED judgeVars
    BY <1>1, <2>2 DEF HandleArgument, Takes, Complete
  <2> QED
    BY <1>1, <2>1, <2>2 DEF HandleArgument
<1>2. CASE ~HandleArgument
  BY <1>2 DEF Complete, Next, JudgeStep, ChildStep, SessionStep, Over, TopicAttemptFails,
     TopicChosen,
   SpawnChildren, StartDebate, HandleHeartbeat, HandleTelemetry, HandleOutOfTurn,
   HandleAfterShutdown, BudgetFailure, TerminateChild,
   StopWatchdog, EvaluationFails, DeclareWinner, JudgeKilled, TakePrompt, Generate,
   ExceedBudget, Emit, DropReply, RejectReply, Heartbeat, Stall, Crash, Fail, Tick,
   ReapSilent, Receive, GiveUp, Finish, HandlerRaises
<1> QED
  BY <1>1, <1>2

\* The arguments the caller has been shown and those still on the queue are the
\* debate in order, and a final judgment comes after all of them.
THEOREM DebateStreams == Spec => []StreamInv
<1>1. Init => StreamInv
  <2> SUFFICES ASSUME Init PROVE StreamInv
    OBVIOUS
  <2>1. outbound = <<>> /\ Len(outbound) = 0 /\ ledger = <<>> /\ Len(ledger) = 0
          /\ transcript = <<>> /\ Len(transcript) = 0
    BY DEF Init
  <2>2. ShownBefore(Len(outbound) + 1) = 0
    <3>1. TypeOK
      BY InitType
    <3>2. ShownBefore(1) = 0
      BY <2>1, <3>1, ShownFirst
    <3>3. Len(outbound) + 1 = 1
      BY <2>1
    <3> QED
      BY <3>2, <3>3
  <2>3. InOrder /\ FinalIsLast
    BY <2>1 DEF InOrder, FinalIsLast
  <2> QED
    BY <2>1, <2>2, <2>3 DEF Init, StreamInv, Streamed, AllStreamed, Complete
<1>2. TypeOK /\ TurnInv /\ ClosingInv /\ StreamInv /\ [Next]_vars
        => TypeOK' /\ TurnInv' /\ ClosingInv' /\ StreamInv'
  BY TypeStep, TurnStep, ClosingStep, StreamedStep, CompleteStep DEF StreamInv
<1> QED
  BY <1>1, <1>2, InitType, InitTurn, InitClosing, PTL DEF Spec

-------------------------------------------------------------------------------
(* The refinement. *)

LEMMA ProtocolInit == Init => Protocol!Init
BY DEF Init, Protocol!Init

\* Every step of the session is a step of the protocol, or none.
LEMMA ProtocolStep ==
  TypeOK /\ ClosingInv /\ StreamInv /\ [Next]_vars => [Protocol!Next]_(Protocol!vars)
<1> SUFFICES ASSUME TypeOK, ClosingInv, StreamInv, [Next]_vars
             PROVE  [Protocol!Next]_(Protocol!vars)
  OBVIOUS
<1> DEFINE call == IF outcome \in {"polling", "joining"} THEN "running" ELSE outcome
<1>1. CASE UNCHANGED <<outcome, transcript, verdict>>
  BY <1>1 DEF Protocol!vars
<1>2. CASE Receive
  <2> DEFINE e == Head(outbound)
  <2>1. /\ outcome = "polling" /\ verdict = "none" /\ call = "running" /\ call' = "running"
        /\ InOrder /\ FinalIsLast
    BY <1>2 DEF Receive, ClosingInv, StreamInv, Streamed
  <2>2. e = outbound[1] /\ 1 \in 1 .. Len(outbound) /\ e \in Events
    BY <1>2, HeadTailProperties, EmptySeq DEF Receive, TypeOK
  <2>3. ShownBefore(1) = Len(transcript)
    BY ShownFirst
  <2>4. CASE e.kind = "argument"
    <3>1. /\ [agent |-> e.agent, round |-> e.round] = TurnAfter(Len(transcript))
          /\ Len(transcript) < 2 * MaxRounds
      BY <2>1, <2>2, <2>3, <2>4 DEF InOrder
    <3>2. transcript' = Append(transcript, TurnAfter(Len(transcript))) /\ verdict' = verdict
      BY <1>2, <2>4, <3>1 DEF Receive, Judgments
    <3>3. Protocol!Speak
      BY <2>1, <3>1, <3>2 DEF Protocol!Speak, TurnAfter, Protocol!TurnAfter, Pro, Con,
         Protocol!Pro, Protocol!Con
    <3> QED
      BY <3>3 DEF Protocol!Next
  <2>5. CASE e.kind = "final"
    <3>1. Len(transcript) = 2 * MaxRounds
      BY <2>1, <2>2, <2>3, <2>5 DEF FinalIsLast
    <3>2. transcript' = transcript /\ verdict' = "final"
      BY <1>2, <2>5 DEF Receive, Judgments
    <3>3. Protocol!Decide
      BY <2>1, <3>1, <3>2 DEF Protocol!Decide
    <3> QED
      BY <3>3 DEF Protocol!Next
  <2>6. CASE e.kind = "truncated"
    <3>1. transcript' = transcript /\ verdict' = "truncated"
      BY <1>2, <2>6 DEF Receive, Judgments
    <3>2. Protocol!Truncate
      BY <2>1, <3>1 DEF Protocol!Truncate
    <3> QED
      BY <3>2 DEF Protocol!Next
  <2>7. CASE e.kind \notin {"argument"} \cup Judgments
    BY <1>2, <2>1, <2>7 DEF Receive, Protocol!vars, Judgments
  <2> QED
    BY <2>4, <2>5, <2>6, <2>7 DEF Judgments
<1>3. CASE Finish
  <2>1. call = "running" /\ call' = "returned" /\ verdict # "none"
          /\ UNCHANGED <<transcript, verdict>>
    BY <1>3 DEF Finish, ClosingInv
  <2>2. Protocol!Return
    BY <2>1 DEF Protocol!Return
  <2> QED
    BY <2>2 DEF Protocol!Next
<1>4. CASE GiveUp \/ HandlerRaises
  <2>1. call = "running" /\ call' = "raised" /\ verdict = "none"
          /\ UNCHANGED <<transcript, verdict>>
    BY <1>4 DEF GiveUp, HandlerRaises, ClosingInv
  <2>2. Protocol!Raise
    BY <2>1 DEF Protocol!Raise
  <2> QED
    BY <2>2 DEF Protocol!Next
<1> QED
  BY <1>1, <1>2, <1>3, <1>4, SessionChange

\* A session implements the protocol: for any number of rounds and any set of
\* faults, the caller is shown the debate turn by turn, one verdict in its
\* place, and an end that fits it.
THEOREM SessionImplementsProtocol == Spec => ProtocolSafety
<1>1. Spec => [](TypeOK /\ ClosingInv /\ StreamInv)
  BY DebateTypes, DebateClosing, DebateStreams, PTL
<1> QED
  BY <1>1, ProtocolInit, ProtocolStep, PTL DEF Spec, ProtocolSafety, Protocol!Spec
==============================================================================

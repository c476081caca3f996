--------------------------- MODULE Judgment_proofs ----------------------------
(***************************************************************************)
(* Theorems about Judgment, for any number of attempts and any answers.    *)
(***************************************************************************)
EXTENDS JudgmentProps, NatLemmas, SequenceTheorems

Phases == {"topic", "validate", "debate", "judging", "declared", "failed"}

\* What was heard speaks for no side.
AllUnclear == \A i \in 1 .. Len(heard) : \A a \in Agents : ~SpeaksFor(heard[i], a)

\* While the judge judges, its attempts are the answers it has heard, and none
\* of them was clear; before, it has heard none, and its attempts at a topic are
\* not spent.
LoopInv ==
  /\ phase \in Phases
  /\ tries \in 0 .. Attempts
  /\ heard \in Seq(Evaluations)
  /\ phase \in {"topic", "validate"} => tries < Attempts
  /\ phase = "debate" => tries = 0
  /\ phase \in {"topic", "validate", "debate", "failed"} => heard = <<>>
  /\ phase = "judging" => tries = Len(heard) /\ AllUnclear
  /\ phase # "declared" => judgment = None

-------------------------------------------------------------------------------
(* The verdict of one answer. *)

\* One side is in a field or the other is, or none or both are.
LEMMA SidesOfField ==
  ASSUME NEW S \in SUBSET Agents
  PROVE  \/ S = {} /\ Cardinality(S) # 1
         \/ S = {Pro} /\ Cardinality(S) = 1 /\ The(S) = Pro
         \/ S = {Con} /\ Cardinality(S) = 1 /\ The(S) = Con
         \/ S = Agents /\ Cardinality(S) # 1
<1>1. S = {} \/ S = {Pro} \/ S = {Con} \/ S = Agents
  BY DEF Agents
<1>2. /\ Cardinality({}) = 0
      /\ Cardinality({Pro}) = 1 /\ Cardinality({Con}) = 1
      /\ Cardinality(Agents) = 2
  BY FS_EmptySet, FS_Singleton, FS_AddElement DEF Pro, Con, Agents
<1>3. The({Pro}) = Pro /\ The({Con}) = Con
  BY DEF The
<1> QED
  BY <1>1, <1>2, <1>3

\* _normalize_winner_id finds a winner just when the answer speaks for a side.
LEMMA WinnerIsClear ==
  ASSUME NEW r \in Evaluations
  PROVE  /\ Usable(r) => SpeaksFor(r, Winner(r)) /\ Winner(r) \in Agents
         /\ ~Usable(r) => \A a \in Agents : ~SpeaksFor(r, a)
<1>1. CASE r = Failure
  BY <1>1 DEF Usable, SpeaksFor
<1>2. CASE r # Failure
  <2> DEFINE W == r.winner.has
             M == r.mentions
             Clear(a) == W = {a} \/ (W \in {{}, Agents} /\ M = {a})
  <2>1. W \in SUBSET Agents /\ M \in SUBSET Agents
    BY <1>2, RepliesAssumption DEF Payloads, Words
  <2>2. Winner(r) = IF Cardinality(W) = 1 THEN The(W)
                    ELSE IF Cardinality(M) = 1 THEN The(M) ELSE Nobody
    BY DEF Winner
  <2>3. Agents = {Pro, Con} /\ Pro # Con /\ Pro # Nobody /\ Con # Nobody
    BY DEF Agents, Pro, Con, Nobody
  <2> HIDE DEF W, M
  <2>4. Winner(r) # Nobody => Clear(Winner(r)) /\ Winner(r) \in Agents
    BY <2>1, <2>2, <2>3, SidesOfField, Zenon
  <2>5. Winner(r) = Nobody => \A a \in Agents : ~Clear(a)
    BY <2>1, <2>2, <2>3, SidesOfField
  <2> USE DEF W, M
  <2>6. \A a : SpeaksFor(r, a) <=> r.fits /\ Clear(a)
    BY <1>2, Zenon DEF SpeaksFor
  <2>7. Usable(r) <=> r.fits /\ Winner(r) # Nobody
    BY <1>2, Zenon DEF Usable
  <2> QED
    BY <2>4, <2>5, <2>6, <2>7, Zenon
<1> QED
  BY <1>1, <1>2

-------------------------------------------------------------------------------
(* The loops. *)

\* The judge starts with all its attempts and nothing heard.
LEMMA LoopInit ==
  Init => LoopInv
BY AttemptsAssumption DEF Init, LoopInv, Phases

\* The steps of the topic's loop count towards its attempts.
LEMMA TopicSteps ==
  ASSUME LoopInv,
         \/ \E r \in TopicReplies : AskForTopic(r)
         \/ \E v \in Validations : Validate(v)
         \/ Conclude
  PROVE  LoopInv'
<1>1. Attempts \in Nat \ {0}
  BY AttemptsAssumption
<1>2. CASE \E r \in TopicReplies : AskForTopic(r)
  BY <1>1, <1>2 DEF LoopInv, Phases, AskForTopic, AttemptFails, debateVars
<1>3. CASE \E v \in Validations : Validate(v)
  BY <1>1, <1>3 DEF LoopInv, Phases, Validate, AttemptFails, debateVars
<1>4. CASE Conclude
  BY <1>1, <1>4 DEF LoopInv, Phases, Conclude, debateVars, AllUnclear
<1> QED
  BY <1>2, <1>3, <1>4

\* An answer that is not usable adds an attempt and is not clear; any other ends
\* the loop.
LEMMA EvaluateStep ==
  ASSUME LoopInv, NEW r \in Evaluations, Evaluate(r)
  PROVE  LoopInv' /\ FirstClearAnswer'
<1>1. /\ phase = "judging" /\ tries < Attempts /\ tries = Len(heard) /\ AllUnclear
      /\ heard \in Seq(Evaluations) /\ judgment = None /\ Attempts \in Nat
      /\ tries \in 0 .. Attempts
  BY AttemptsAssumption DEF LoopInv, Evaluate
<1>2. /\ heard' = Append(heard, r) /\ heard' \in Seq(Evaluations)
      /\ Len(heard') = Len(heard) + 1
      /\ heard'[Len(heard')] = r
      /\ \A i \in 1 .. Len(heard) : heard'[i] = heard[i]
  BY <1>1 DEF Evaluate
<1>3. \A i \in 1 .. Len(heard) : \A a \in Agents : ~SpeaksFor(heard'[i], a)
  BY <1>1, <1>2, Zenon DEF AllUnclear
<1>4. CASE Usable(r)
  <2>1. SpeaksFor(r, Winner(r))
    BY <1>4, WinnerIsClear
  <2>2. phase' = "declared" /\ tries' = 0 /\ judgment'.winner = Winner(r)
    BY <1>4 DEF Evaluate, Send
  <2>3. LoopInv'
    BY <1>1, <1>2, <2>2 DEF LoopInv, Phases
  <2>4. Len(heard') > 0 /\ Len(heard') - 1 = Len(heard)
    BY <1>1, <1>2
  <2>5. SpeaksFor(heard'[Len(heard')], judgment'.winner)
    BY <1>2, <2>1, <2>2
  <2>6. \A i \in 1 .. Len(heard') - 1 : \A a \in Agents : ~SpeaksFor(heard'[i], a)
    BY <1>3, <2>4
  <2> QED
    BY <2>3, <2>4, <2>5, <2>6 DEF FirstClearAnswer
<1>5. CASE ~Usable(r)
  <2>1. phase' = "judging" /\ tries' = tries + 1 /\ judgment' = None
    BY <1>1, <1>5 DEF Evaluate
  <2>2. \A a \in Agents : ~SpeaksFor(r, a)
    BY <1>5, WinnerIsClear
  <2>3. \A i \in 1 .. Len(heard') : i \in 1 .. Len(heard) \/ i = Len(heard')
    BY <1>1, <1>2
  <2>4. AllUnclear'
    BY <1>2, <1>3, <2>2, <2>3, Zenon DEF AllUnclear
  <2> QED
    BY <1>1, <1>2, <2>1, <2>4 DEF LoopInv, Phases, FirstClearAnswer
<1> QED
  BY <1>4, <1>5

\* The fallback decides only when all attempts were heard and none was clear.
LEMMA FallBackStep ==
  ASSUME LoopInv, FallBack
  PROVE  LoopInv' /\ FirstClearAnswer'
<1>1. /\ phase = "judging" /\ Len(heard) = Attempts /\ AllUnclear
      /\ heard \in Seq(Evaluations) /\ Attempts \in Nat
  BY AttemptsAssumption DEF LoopInv, FallBack
<1>2. /\ heard' = heard /\ fallback' = fallback /\ judgment'.winner = fallback
      /\ phase' = "declared" /\ tries' = 0
  BY DEF FallBack, Send
<1>3. LoopInv'
  BY <1>1, <1>2 DEF LoopInv, Phases
<1>4. FirstClearAnswer'
  BY <1>1, <1>2 DEF FirstClearAnswer, AllUnclear
<1> QED
  BY <1>3, <1>4

\* Both facts are kept by every step.
LEMMA LoopStep ==
  ASSUME LoopInv, FirstClearAnswer, [Next]_vars
  PROVE  LoopInv' /\ FirstClearAnswer'
<1>1. CASE (\E r \in TopicReplies : AskForTopic(r)) \/ (\E v \in Validations : Validate(v)) \/ Conclude
  <2>1. LoopInv'
    BY <1>1, TopicSteps
  <2>2. phase \in {"topic", "validate", "debate"} /\ UNCHANGED debateVars
    BY <1>1 DEF AskForTopic, Validate, Conclude
  <2>3. judgment' = None
    BY <2>2 DEF LoopInv, debateVars
  <2> QED
    BY <2>1, <2>3 DEF FirstClearAnswer
<1>2. CASE \E r \in Evaluations : Evaluate(r)
  BY <1>2, EvaluateStep
<1>3. CASE FallBack
  BY <1>3, FallBackStep
<1>4. CASE UNCHANGED vars
  <2>1. LoopInv'
    BY <1>4 DEF LoopInv, AllUnclear, vars
  <2> QED
    BY <1>4, <2>1 DEF FirstClearAnswer, vars
<1> QED
  BY <1>1, <1>2, <1>3, <1>4 DEF Next, Step, Settled

\* So both always hold.
LEMMA LoopInvariance ==
  Spec => [](LoopInv /\ FirstClearAnswer)
<1>1. Init => LoopInv /\ FirstClearAnswer
  BY LoopInit DEF Init, FirstClearAnswer
<1> QED
  BY <1>1, LoopStep, PTL DEF Spec

\* The verdict rests on the first answer that speaks for one side, and on the
\* fallback only when all attempts were spent (evaluate_debate), for any number
\* of attempts and any answers of the judge's model.
THEOREM FirstAnswerDecides ==
  Spec => []FirstClearAnswer
BY LoopInvariance, PTL

\* The two loops of the judge take the steps of JudgeLoops and no others
\* (_decide_topic, evaluate_debate): what Debate assumes of them.
THEOREM LoopsImplemented ==
  Spec => Loops!Spec
<1>1. Init => Loops!Init
  BY DEF Init, Loops!Init
<1>2. ASSUME LoopInv, [Next]_vars
      PROVE  [Loops!Next]_Loops!vars
  <2>1. CASE \E r \in TopicReplies : AskForTopic(r)
    BY <1>2, <2>1, AttemptsAssumption
    DEF LoopInv, AskForTopic, AttemptFails, Loops!Next, Loops!TopicAttemptFails, Loops!vars
  <2>2. CASE \E v \in Validations : Validate(v)
    BY <1>2, <2>2, AttemptsAssumption
    DEF LoopInv, Validate, AttemptFails, Loops!Next, Loops!TopicAttemptFails, Loops!TopicChosen
  <2>3. CASE Conclude
    BY <1>2, <2>3 DEF LoopInv, Conclude, Loops!Next, Loops!DebateEnds
  <2>4. CASE \E r \in Evaluations : Evaluate(r)
    BY <1>2, <2>4 DEF Evaluate, Send, Loops!Next, Loops!EvaluationFails, Loops!DeclareWinner
  <2>5. CASE FallBack
    BY <2>5 DEF FallBack, Send, Loops!Next, Loops!DeclareWinner
  <2>6. CASE UNCHANGED vars
    BY <2>6 DEF vars, Loops!vars
  <2> QED
    BY <1>2, <2>1, <2>2, <2>3, <2>4, <2>5, <2>6 DEF Next, Step, Settled
<1> QED
  BY <1>1, <1>2, LoopInvariance, PTL DEF Spec, Loops!Spec

-------------------------------------------------------------------------------
(* The sides, and the score. *)

\* With the sides exchanged in a field, the other one is in it.
LEMMA OtherSidesOfField ==
  ASSUME NEW S \in SUBSET Agents
  PROVE  LET T == {Other(a) : a \in S} IN
           /\ S = {} => T = {}
           /\ S = {Pro} => T = {Con}
           /\ S = {Con} => T = {Pro}
           /\ S = Agents => T = Agents
           /\ T \in SUBSET Agents
BY DEF Other, Agents, Pro, Con

\* _normalize_winner_id treats the sides alike.
LEMMA WinnerOfExchanged ==
  ASSUME NEW r \in Evaluations, r # Failure
  PROVE  Winner(Exchanged(r)) = Other(Winner(r))
<1> DEFINE W == r.winner.has
           M == r.mentions
           X == {Other(a) : a \in W}
           Y == {Other(a) : a \in M}
<1>1. r \in Payloads /\ r.winner \in Words
  BY RepliesAssumption DEF Payloads
<1>2. W \in SUBSET Agents /\ M \in SUBSET Agents
  BY <1>1 DEF Payloads, Words
<1>3. Exchanged(r).winner.has = X /\ Exchanged(r).mentions = Y
  BY <1>1 DEF Exchanged, Payloads, Words
<1>4. /\ Winner(r) = IF Cardinality(W) = 1 THEN The(W)
                      ELSE IF Cardinality(M) = 1 THEN The(M) ELSE Nobody
      /\ Winner(Exchanged(r)) = IF Cardinality(X) = 1 THEN The(X)
                                 ELSE IF Cardinality(Y) = 1 THEN The(Y) ELSE Nobody
  BY <1>3 DEF Winner
<1>5. /\ W = {} => X = {}
      /\ W = {Pro} => X = {Con}
      /\ W = {Con} => X = {Pro}
      /\ W = Agents => X = Agents
      /\ X \in SUBSET Agents
  BY <1>2, OtherSidesOfField
<1>6. /\ M = {} => Y = {}
      /\ M = {Pro} => Y = {Con}
      /\ M = {Con} => Y = {Pro}
      /\ M = Agents => Y = Agents
      /\ Y \in SUBSET Agents
  BY <1>2, OtherSidesOfField
<1>7. Other(Pro) = Con /\ Other(Con) = Pro /\ Other(Nobody) = Nobody
  BY DEF Other, Pro, Con, Nobody
<1>8. {Pro} # {} /\ {Con} # {} /\ {Pro} # {Con} /\ Agents # {} /\ Agents # {Pro} /\ Agents # {Con}
  BY DEF Agents, Pro, Con
<1> HIDE DEF W, M, X, Y
<1>9. /\ W = {} \/ W = {Pro} \/ W = {Con} \/ W = Agents
      /\ M = {} \/ M = {Pro} \/ M = {Con} \/ M = Agents
      /\ Cardinality({}) # 1 /\ Cardinality(Agents) # 1
      /\ Cardinality({Pro}) = 1 /\ The({Pro}) = Pro
      /\ Cardinality({Con}) = 1 /\ The({Con}) = Con
  <2>1. {} \in SUBSET Agents /\ {Pro} \in SUBSET Agents /\ {Con} \in SUBSET Agents /\ Agents \in SUBSET Agents
    BY DEF Agents
  <2> QED
    BY <1>2, <1>8, <2>1, SidesOfField
<1> QED
  BY <1>4, <1>5, <1>6, <1>7, <1>9

\* Neither side is favoured (_normalize_winner_id), whatever the judge's model
\* answers.
THEOREM NeitherSideFavoured ==
  Spec => []SidesAlike
<1>1. LoopInv => SidesAlike
  BY WinnerOfExchanged DEF LoopInv, SidesAlike
<1> QED
  BY <1>1, LoopInvariance, PTL

\* A score that is a number is made positive (evaluate_debate).
LEMMA ScorePositive ==
  ASSUME NEW s \in Scores
  PROVE  Score(s).kind = "nan" \/ Score(s).value > 0
<1>1. CASE s.kind = "number"
  <2>1. Score(s) = [s EXCEPT !.value = IF @ < 0 THEN -@ ELSE IF @ = 0 THEN 1 ELSE @]
    BY <1>1 DEF Score
  <2>2. Score(s).value = IF s.value < 0 THEN -s.value ELSE IF s.value = 0 THEN 1 ELSE s.value
    BY <2>1 DEF Scores
  <2> QED
    BY <2>2 DEF Scores
<1>2. CASE s.kind = "nan"
  BY <1>2 DEF Score
<1>3. CASE s.kind = "unreadable"
  BY <1>3 DEF Score
<1> QED
  BY <1>1, <1>2, <1>3 DEF Scores

\* A verdict is never a tie (evaluate_debate), whatever number the judge's model
\* gives.
THEOREM NoTie ==
  Spec => []NeverTied
<1>1. Init => NeverTied
  BY DEF Init, NeverTied
<1>2. NeverTied /\ [Next]_vars => NeverTied'
  <2> SUFFICES ASSUME NeverTied, [Next]_vars PROVE NeverTied'
    OBVIOUS
  <2>1. CASE \E r \in Evaluations : Evaluate(r)
    <3>1. PICK r \in Evaluations : Evaluate(r)
      BY <2>1
    <3>2. CASE Usable(r)
      <4>1. r.score \in Scores
        BY <3>2, RepliesAssumption DEF Usable, Payloads
      <4>2. judgment'.score = Score(r.score)
        BY <3>1, <3>2 DEF Evaluate, Send
      <4> QED
        BY <4>1, <4>2, ScorePositive DEF NeverTied
    <3>3. CASE ~Usable(r)
      BY <3>1, <3>3 DEF Evaluate, NeverTied
    <3> QED
      BY <3>2, <3>3
  <2>2. CASE FallBack
    BY <2>2 DEF FallBack, Send, NeverTied
  <2>3. CASE UNCHANGED judgment
    BY <2>3 DEF NeverTied
  <2> QED
    BY <2>1, <2>2, <2>3
    DEF Next, Step, Settled, AskForTopic, Validate, Conclude, debateVars, vars
<1> QED
  BY <1>1, <1>2, PTL DEF Spec

\* What an answer is made into has the types of a judgment.
LEMMA ScoreIsNumber ==
  ASSUME NEW s \in Scores
  PROVE  Score(s) \in Numbers
<1>1. s = [kind |-> s.kind, value |-> s.value] /\ s.value \in Int
      /\ s.kind \in {"number", "nan", "unreadable"}
  BY DEF Scores
<1>2. CASE s.kind = "number"
  <2>1. Score(s) = [s EXCEPT !.value = IF @ < 0 THEN -@ ELSE IF @ = 0 THEN 1 ELSE @]
    BY <1>2 DEF Score
  <2>2. Score(s) = [kind |-> "number",
                    value |-> IF s.value < 0 THEN -s.value ELSE IF s.value = 0 THEN 1 ELSE s.value]
    BY <1>1, <1>2, <2>1
  <2> QED BY <1>1, <2>2 DEF Numbers
<1>3. CASE s.kind = "nan"
  BY <1>1, <1>3 DEF Score, Numbers
<1>4. CASE s.kind = "unreadable"
  BY <1>4 DEF Score, Numbers
<1> QED BY <1>1, <1>2, <1>3, <1>4

\* The variables keep their types, and no loop runs past its attempts: an answer is
\* heard for every attempt that failed, and one more at most (_decide_topic,
\* evaluate_debate).
THEOREM JudgmentTypes ==
  Spec => []TypeOK
<1>1. Init => TypeOK
  BY AttemptsAssumption DEF Init, TypeOK
<1>2. ASSUME LoopInv, TypeOK, [Next]_vars
      PROVE  TypeOK'
  <2>0. Attempts \in Nat /\ Attempts # 0
    BY AttemptsAssumption
  <2>1. CASE \E r \in TopicReplies : AskForTopic(r)
    <3>1. PICK r \in TopicReplies : AskForTopic(r)
      BY <2>1
    <3>2. Proper(r) => r \in Topics
      BY RepliesAssumption DEF Proper
    <3> QED BY <1>2, <2>0, <3>1, <3>2 DEF AskForTopic, AttemptFails, debateVars, TypeOK, LoopInv
  <2>2. CASE \E v \in Validations : Validate(v)
    BY <1>2, <2>0, <2>2 DEF Validate, AttemptFails, debateVars, TypeOK, LoopInv
  <2>3. CASE Conclude
    BY <1>2, <2>3 DEF Conclude, debateVars, TypeOK
  <2>4. CASE \E r \in Evaluations : Evaluate(r)
    <3>1. PICK r \in Evaluations : Evaluate(r)
      BY <2>4
    <3>2. tries \in Nat /\ tries < Attempts /\ Len(heard) = tries /\ heard \in Seq(Evaluations)
      BY <1>2, <3>1 DEF Evaluate, LoopInv
    <3>3. Len(heard') <= Attempts /\ tries + 1 \in 0 .. Attempts
      BY <2>0, <3>1, <3>2 DEF Evaluate
    <3>4. CASE Usable(r)
      <4>1. Winner(r) \in Agents /\ Score(r.score) \in Numbers
        BY <3>4, WinnerIsClear, ScoreIsNumber, RepliesAssumption DEF Usable, SpeaksFor, Payloads
      <4>2. judgment'.winner = Winner(r) /\ judgment'.score = Score(r.score)
        BY <3>1, <3>4 DEF Evaluate, Send
      <4>3. phase' = "declared" /\ tries' = 0 /\ UNCHANGED <<topic, fallback, cut>>
        BY <3>1, <3>4 DEF Evaluate, Send
      <4> QED BY <1>2, <2>0, <3>3, <4>1, <4>2, <4>3 DEF TypeOK
    <3>5. CASE ~Usable(r)
      BY <1>2, <3>1, <3>3, <3>5 DEF Evaluate, TypeOK
    <3> QED BY <3>4, <3>5
  <2>5. CASE FallBack
    <3>1. judgment'.winner = fallback /\ judgment'.score = [kind |-> "number", value |-> 1]
      BY <2>5 DEF FallBack, Send
    <3>2. judgment'.score \in Numbers
      BY <3>1 DEF Numbers
    <3> QED BY <1>2, <2>0, <2>5, <3>1, <3>2 DEF FallBack, Send, TypeOK
  <2>6. CASE UNCHANGED vars
    BY <1>2, <2>6 DEF vars, TypeOK
  <2> QED
    BY <1>2, <2>1, <2>2, <2>3, <2>4, <2>5, <2>6 DEF Next, Step, Settled
<1> QED
  BY <1>1, <1>2, LoopInvariance, PTL DEF Spec

-------------------------------------------------------------------------------
(* The reasons. *)

ReasonType ==
  [point : {"said", "blank", "numbered"}, evidence : Fields \cup {"none"}, item : Nat]

\* One turn of the loop over the items: what it makes of the reasons so far.
Turn(items, g, i) ==
  IF i = 0 THEN <<>>
  ELSE IF Kept(items[i]) THEN Append(g[i - 1], Reason(items[i], i))
  ELSE g[i - 1]

\* The reasons after the first m items: each is what is made of one of these items,
\* in their order, and every one that is kept has one.
Account(items, m, k) ==
  /\ k \in Seq(ReasonType)
  /\ \A j \in 1 .. Len(k) : k[j].item \in 1 .. m /\ k[j] = Reason(items[k[j].item], k[j].item)
  /\ \A i, j \in 1 .. Len(k) : i < j => k[i].item < k[j].item
  /\ \A i \in 1 .. m : Kept(items[i]) => \E j \in 1 .. Len(k) : k[j] = Reason(items[i], i)

\* The loop has a result after any number of turns.
LEMMA TurnsExist ==
  ASSUME NEW items, NEW n \in Nat
  PROVE  \E g : g = [i \in 0 .. n |-> Turn(items, g, i)]
<1> DEFINE T == {m \in Nat : \E g : g = [i \in 0 .. m |-> Turn(items, g, i)]}
<1>1. 0 \in T
  <2> DEFINE g == [i \in 0 .. 0 |-> <<>>]
  <2>1. \A i \in 0 .. 0 : Turn(items, g, i) = <<>>
    BY DEF Turn
  <2>2. g = [i \in 0 .. 0 |-> Turn(items, g, i)]
    BY <2>1
  <2> QED BY <2>2
<1>2. \A m \in T : m + 1 \in T
  <2> TAKE m \in T
  <2>1. PICK g : g = [i \in 0 .. m |-> Turn(items, g, i)]
    OBVIOUS
  <2> DEFINE h == [i \in 0 .. m + 1 |-> IF i = m + 1 THEN Turn(items, g, m + 1) ELSE g[i]]
  <2>2. \A i \in 0 .. m + 1 : h[i] = Turn(items, h, i)
    <3> TAKE i \in 0 .. m + 1
    <3>1. CASE i = 0
      <4>1. h[i] = g[0] /\ g[0] = Turn(items, g, 0)
        BY <2>1, <3>1
      <4> QED BY <3>1, <4>1 DEF Turn
    <3>2. CASE i # 0
      <4>1. i - 1 \in 0 .. m /\ h[i - 1] = g[i - 1]
        BY <3>2
      <4>2. h[i] = Turn(items, g, i)
        <5>1. CASE i = m + 1
          BY <5>1
        <5>2. CASE i # m + 1
          <6>1. i \in 0 .. m
            BY <5>2
          <6> QED BY <2>1, <6>1
        <5> QED BY <5>1, <5>2
      <4> HIDE DEF h
      <4> QED BY <4>1, <4>2, <3>2 DEF Turn
    <3> QED BY <3>1, <3>2
  <2>3. h = [i \in 0 .. m + 1 |-> h[i]]
    OBVIOUS
  <2> HIDE DEF h
  <2>4. h = [i \in 0 .. m + 1 |-> Turn(items, h, i)]
    BY <2>2, <2>3
  <2>5. m + 1 \in Nat
    OBVIOUS
  <2> QED BY <2>4, <2>5
<1>3. T = Nat
  <2> HIDE DEF T
  <2>1. T \in SUBSET Nat
    BY DEF T
  <2> QED BY <1>1, <1>2, <2>1, SetInduction
<1> QED BY <1>3

LEMMA ReasonIs ==
  ASSUME NEW it, NEW i \in Nat
  PROVE  Reason(it, i) \in ReasonType /\ Reason(it, i).item = i
<1>1. Evidence(it.says) \in Fields \cup {"none"}
  BY DEF Evidence, Fields
<1> QED
  BY <1>1 DEF Reason, ReasonType

\* What _normalize_justifications makes of the items.
LEMMA ReasonsAccount ==
  ASSUME NEW items, Len(items) \in Nat
  PROVE  Account(items, Len(items), Reasons(items))
<1> DEFINE n == Len(items)
           f == CHOOSE g : g = [i \in 0 .. n |-> Turn(items, g, i)]
           T == {m \in Nat : m <= n => Account(items, m, f[m])}
<1>1. f = [i \in 0 .. n |-> Turn(items, f, i)]
  <2>1. \E g : g = [i \in 0 .. n |-> Turn(items, g, i)]
    BY TurnsExist
  <2> QED BY <2>1
<1>2. Reasons(items) = f[n]
  BY DEF Reasons, Turn
<1> HIDE DEF f
<1>3. 0 \in T
  <2>1. f[0] = <<>>
    BY <1>1 DEF Turn
  <2>2. Account(items, 0, <<>>)
    BY DEF Account
  <2> QED BY <2>1, <2>2
<1>4. \A m \in T : m + 1 \in T
  <2> TAKE m \in T
  <2> SUFFICES ASSUME m + 1 <= n PROVE Account(items, m + 1, f[m + 1])
    OBVIOUS
  <2> DEFINE k == f[m]
             r == Reason(items[m + 1], m + 1)
  <2>1. m \in Nat /\ Account(items, m, k)
    OBVIOUS
  <2>2. f[m + 1] = IF Kept(items[m + 1]) THEN Append(k, r) ELSE k
    <3>1. m + 1 \in 0 .. n /\ m + 1 # 0 /\ (m + 1) - 1 = m
      BY <2>1
    <3>2. f[m + 1] = Turn(items, f, m + 1)
      BY <1>1, <3>1
    <3> QED BY <3>1, <3>2 DEF Turn
  <2>3. r \in ReasonType /\ r.item = m + 1
    BY <2>1, ReasonIs
  <2>4. \A i \in 1 .. m + 1 : i \in 1 .. m \/ i = m + 1
    BY <2>1
  <2> HIDE DEF k, T
  <2>5. CASE ~Kept(items[m + 1])
    BY <2>1, <2>2, <2>4, <2>5 DEF Account
  <2>6. CASE Kept(items[m + 1])
    <3> DEFINE a == Append(k, r)
    <3> HIDE DEF r
    <3>1. k \in Seq(ReasonType) /\ Len(k) \in Nat
      BY <2>1 DEF Account
    <3>2. /\ a \in Seq(ReasonType) /\ Len(a) = Len(k) + 1
          /\ \A j \in 1 .. Len(k) : a[j] = k[j]
          /\ a[Len(k) + 1] = r
      BY <2>3, <3>1, AppendProperties
    <3> HIDE DEF a
    <3>3. \A j \in 1 .. Len(a) : j \in 1 .. Len(k) \/ j = Len(k) + 1
      BY <3>1, <3>2
    <3>4. \A j \in 1 .. Len(k) : a[j].item \in 1 .. m
      BY <2>1, <3>2 DEF Account
    <3>5. \A j \in 1 .. Len(a) :
            a[j].item \in 1 .. m + 1 /\ a[j] = Reason(items[a[j].item], a[j].item)
      <4> TAKE j \in 1 .. Len(a)
      <4>1. CASE j \in 1 .. Len(k)
        <5>1. a[j] = k[j] /\ k[j].item \in 1 .. m /\ k[j] = Reason(items[k[j].item], k[j].item)
          BY <2>1, <3>2, <4>1 DEF Account
        <5> QED BY <2>1, <5>1
      <4>2. CASE j = Len(k) + 1
        <5>1. a[j] = r /\ r = Reason(items[m + 1], m + 1) /\ r.item = m + 1
          BY <2>3, <3>2, <4>2 DEF r
        <5> QED BY <2>1, <5>1
      <4> QED BY <3>3, <4>1, <4>2
    <3>6. \A i, j \in 1 .. Len(a) : i < j => a[i].item < a[j].item
      <4> TAKE i, j \in 1 .. Len(a)
      <4> HAVE i < j
      <4>1. i \in 1 .. Len(k)
        BY <3>1, <3>2
      <4>2. CASE j \in 1 .. Len(k)
        BY <2>1, <3>2, <4>1, <4>2 DEF Account
      <4>3. CASE j = Len(k) + 1
        BY <2>1, <2>3, <3>2, <3>4, <4>1, <4>3
      <4> QED BY <3>3, <4>2, <4>3
    <3>7. \A i \in 1 .. m + 1 :
            Kept(items[i]) => \E j \in 1 .. Len(a) : a[j] = Reason(items[i], i)
      <4> TAKE i \in 1 .. m + 1
      <4> HAVE Kept(items[i])
      <4>1. CASE i \in 1 .. m
        <5>1. PICK j \in 1 .. Len(k) : k[j] = Reason(items[i], i)
          BY <2>1, <4>1 DEF Account
        <5>2. j \in 1 .. Len(a) /\ a[j] = Reason(items[i], i)
          BY <3>1, <3>2, <5>1
        <5> QED BY <5>2
      <4>2. CASE i = m + 1
        <5>1. Len(k) + 1 \in 1 .. Len(a) /\ a[Len(k) + 1] = Reason(items[i], i)
          BY <3>1, <3>2, <4>2 DEF r
        <5> QED BY <5>1
      <4> QED BY <2>4, <4>1, <4>2
    <3>8. Account(items, m + 1, a)
      BY <3>2, <3>5, <3>6, <3>7 DEF Account
    <3> QED BY <2>2, <2>6, <3>8 DEF a, r
  <2> QED BY <2>5, <2>6
<1>5. n \in T
  <2> HIDE DEF T
  <2>1. T \in SUBSET Nat
    BY DEF T
  <2>2. T = Nat
    BY <1>3, <1>4, <2>1, SetInduction
  <2> QED BY <2>2
<1> QED BY <1>2, <1>5

\* The evidence is what the item says in the first of its fields that is not empty.
LEMMA EvidenceSaid ==
  ASSUME NEW it \in Items
  PROVE  \A f \in Fields : SaysIn(it, f) <=> Evidence(it.says) = f
<1> DEFINE s == it.says
<1>1. s \in [evidence : Parts, text : Parts, reason : Parts]
  BY DEF Items, Texts, Parts
<1>2. /\ SaysIn(it, "evidence") <=> s.evidence = "said"
      /\ SaysIn(it, "text") <=> s.text = "said" /\ s.evidence = "absent"
      /\ SaysIn(it, "reason") <=> s.reason = "said" /\ s.evidence = "absent" /\ s.text = "absent"
  BY DEF SaysIn, Before
<1> HIDE DEF s
<1>3. /\ Evidence(s) = "evidence" <=> s.evidence = "said"
      /\ Evidence(s) = "text" <=> s.text = "said" /\ s.evidence = "absent"
      /\ Evidence(s) = "reason" <=> s.reason = "said" /\ s.evidence = "absent" /\ s.text = "absent"
  BY <1>1 DEF Evidence, Parts
<1> QED
  BY <1>2, <1>3 DEF s, Fields

\* An item is kept if its point or its evidence is said, with both.
LEMMA SaidIsKept ==
  ASSUME NEW it \in Items, NEW i \in Nat
  PROVE  /\ it.point = "said" \/ (\E f \in Fields : SaysIn(it, f)) => Kept(it)
         /\ Reason(it, i).point = "said" <=> it.point = "said"
         /\ Reason(it, i).evidence = Evidence(it.says)
<1>1. it.kind \in {"object", "text"}
  BY DEF Items, Texts
<1>2. (\E f \in Fields : SaysIn(it, f)) => Evidence(it.says) # "none"
  BY EvidenceSaid DEF Fields
<1> QED
  BY <1>1, <1>2 DEF Kept, Reason

\* A faithful account of the items holds what they say, and nothing else.
LEMMA AccountIsFaithful ==
  ASSUME NEW items \in Seq(Items), NEW k, Account(items, Len(items), k)
  PROVE  /\ \A j \in 1 .. Len(k) :
              LET i == k[j].item IN
                /\ i \in 1 .. Len(items)
                /\ k[j].point = "said" => items[i].point = "said"
                /\ k[j].evidence # "none" => SaysIn(items[i], k[j].evidence)
         /\ \A i \in 1 .. Len(items) :
              /\ items[i].point = "said" =>
                   \E j \in 1 .. Len(k) : k[j].item = i /\ k[j].point = "said"
              /\ \A f \in Fields : SaysIn(items[i], f) =>
                   \E j \in 1 .. Len(k) : k[j].item = i /\ k[j].evidence = f
<1>1. \A i \in 1 .. Len(items) : items[i] \in Items /\ i \in Nat
  OBVIOUS
<1>2. \A j \in 1 .. Len(k) :
        LET i == k[j].item IN
          /\ i \in 1 .. Len(items)
          /\ k[j].point = "said" => items[i].point = "said"
          /\ k[j].evidence # "none" => SaysIn(items[i], k[j].evidence)
  <2> TAKE j \in 1 .. Len(k)
  <2> DEFINE i == k[j].item
  <2>1. i \in 1 .. Len(items) /\ k[j] = Reason(items[i], i) /\ k[j] \in ReasonType
    BY DEF Account
  <2> HIDE DEF i
  <2>2. items[i] \in Items /\ i \in Nat
    BY <1>1, <2>1
  <2>3. /\ k[j].point = "said" <=> items[i].point = "said"
        /\ k[j].evidence = Evidence(items[i].says)
    BY <2>1, <2>2, SaidIsKept
  <2>4. k[j].evidence \in Fields \cup {"none"}
    BY <2>1 DEF ReasonType
  <2>5. k[j].evidence # "none" => SaysIn(items[i], k[j].evidence)
    BY <2>2, <2>3, <2>4, EvidenceSaid
  <2> QED BY <2>1, <2>3, <2>5 DEF i
<1>3. ASSUME NEW i \in 1 .. Len(items), Kept(items[i])
      PROVE  \E j \in 1 .. Len(k) :
               /\ k[j].item = i
               /\ items[i].point = "said" => k[j].point = "said"
               /\ k[j].evidence = Evidence(items[i].says)
  <2>1. PICK j \in 1 .. Len(k) : k[j] = Reason(items[i], i)
    BY <1>3 DEF Account
  <2> QED BY <1>1, <2>1, ReasonIs, SaidIsKept
<1>4. ASSUME NEW i \in 1 .. Len(items)
      PROVE  /\ items[i].point = "said" =>
                  \E j \in 1 .. Len(k) : k[j].item = i /\ k[j].point = "said"
             /\ \A f \in Fields : SaysIn(items[i], f) =>
                  \E j \in 1 .. Len(k) : k[j].item = i /\ k[j].evidence = f
  <2>1. \A f \in Fields : SaysIn(items[i], f) => Evidence(items[i].says) = f
    BY <1>1, EvidenceSaid
  <2>2. items[i].point = "said" \/ (\E f \in Fields : SaysIn(items[i], f)) => Kept(items[i])
    BY <1>1, SaidIsKept
  <2> QED BY <1>3, <2>1, <2>2
<1> QED BY <1>2, <1>4

\* What is looked at of a justification: all of a list and of the lines of a text.
LEMMA RawItemsRead ==
  ASSUME NEW j \in Justifications
  PROVE  /\ RawItems(j) \in Seq(Items)
         /\ j.form = "other" => RawItems(j) = <<>>
         /\ j.form # "other" => RawItems(j) = j.items
<1>1. j.items \in Seq(Items)
  <2>1. Texts \subseteq Items
    BY DEF Items
  <2>2. j.items \in Seq(Items) \/ j.items \in Seq(Texts)
    BY DEF Justifications
  <2>3. ASSUME j.items \in Seq(Texts) PROVE j.items \in Seq(Items)
    BY <2>1, <2>3
  <2> QED BY <2>2, <2>3
<1>2. j.form \in {"list", "other", "lines"}
  BY DEF Justifications
<1> QED BY <1>1, <1>2 DEF RawItems

\* The judgment that an answer gives accounts for its justification.
LEMMA EvaluateKeepsReasons ==
  ASSUME NEW r \in Evaluations, Usable(r), Evaluate(r), heard \in Seq(Evaluations)
  PROVE  ReasonsKept'
<1> DEFINE j == r.justification
           raw == RawItems(j)
           k == Reasons(raw)
           read == IF j.form = "other" THEN {} ELSE 1 .. Len(j.items)
           given == IF cut' THEN Tail(judgment'.reasons) ELSE judgment'.reasons
<1>1. j \in Justifications
  BY RepliesAssumption DEF Usable, Payloads
<1>2. heard'[Len(heard')] = r
  BY DEF Evaluate
<1>3. judgment'.reasons = (IF cut' THEN <<Added>> \o k ELSE k)
  BY DEF Evaluate, Send, Truncated
<1> HIDE DEF j
<1>4. raw \in Seq(Items) /\ Len(raw) \in Nat
  BY <1>1, RawItemsRead
<1>5. read = 1 .. Len(raw) /\ \A i \in read : raw[i] = j.items[i]
  <2>1. CASE j.form = "other"
    BY <1>1, <2>1, RawItemsRead
  <2>2. CASE j.form # "other"
    BY <1>1, <2>2, RawItemsRead
  <2> QED BY <2>1, <2>2
<1> HIDE DEF raw, read
<1>6. Account(raw, Len(raw), k)
  BY <1>4, ReasonsAccount
<1> HIDE DEF k
<1>7. k \in Seq(ReasonType) /\ \A m, n \in 1 .. Len(k) : m < n => k[m].item < k[n].item
  BY <1>6 DEF Account
<1>8. given = k /\ (cut' => judgment'.reasons # <<>> /\ Head(judgment'.reasons) = Added)
  <2>1. CASE cut'
    <3> DEFINE R == ReasonType \cup {Added}
    <3>1. k \in Seq(R) /\ <<Added>> \in Seq(R) /\ Len(<<Added>>) = 1
      BY <1>7
    <3> HIDE DEF R
    <3>2. <<Added>> \o k # <<>> /\ Head(<<Added>> \o k) = Added /\ Tail(<<Added>> \o k) = k
      BY <3>1
    <3> QED BY <1>3, <2>1, <3>2
  <2>2. CASE ~cut'
    BY <1>3, <2>2
  <2> QED BY <2>1, <2>2
<1>9. Faithful(k, j)
  <2>1. /\ \A n \in 1 .. Len(k) :
             LET i == k[n].item IN
               /\ i \in 1 .. Len(raw)
               /\ k[n].point = "said" => raw[i].point = "said"
               /\ k[n].evidence # "none" => SaysIn(raw[i], k[n].evidence)
        /\ \A i \in 1 .. Len(raw) :
             /\ raw[i].point = "said" =>
                  \E n \in 1 .. Len(k) : k[n].item = i /\ k[n].point = "said"
             /\ \A f \in Fields : SaysIn(raw[i], f) =>
                  \E n \in 1 .. Len(k) : k[n].item = i /\ k[n].evidence = f
    BY <1>4, <1>6, AccountIsFaithful
  <2>2. \A n \in 1 .. Len(k) :
          LET i == k[n].item IN
            /\ i \in read
            /\ k[n].point = "said" => j.items[i].point = "said"
            /\ k[n].evidence # "none" => SaysIn(j.items[i], k[n].evidence)
    BY <1>5, <2>1
  <2>3. \A i \in read :
          /\ j.items[i].point = "said" =>
               \E n \in 1 .. Len(k) : k[n].item = i /\ k[n].point = "said"
          /\ \A f \in Fields : SaysIn(j.items[i], f) =>
               \E n \in 1 .. Len(k) : k[n].item = i /\ k[n].evidence = f
    BY <1>5, <2>1
  <2> QED BY <1>7, <2>2, <2>3, Zenon DEF Faithful, read
<1> HIDE DEF given
<1>10. Faithful(given, j)
  BY <1>8, <1>9
<1> QED BY <1>2, <1>8, <1>10 DEF given, j, ReasonsKept

\* What is read of a justification comes into the judgment, once, in order and with
\* the item it belongs to, and nothing else does (_normalize_justifications,
\* evaluate_debate), for justifications of any form and length.
THEOREM ReasonsAreKept ==
  Spec => []ReasonsKept
<1>1. Init => ReasonsKept
  BY DEF Init, ReasonsKept
<1>2. ASSUME LoopInv, ReasonsKept, [Next]_vars
      PROVE  ReasonsKept'
  <2>1. CASE \E r \in Evaluations : Evaluate(r)
    <3>1. PICK r \in Evaluations : Evaluate(r)
      BY <2>1
    <3>2. CASE Usable(r)
      BY <1>2, <3>1, <3>2, EvaluateKeepsReasons DEF LoopInv
    <3>3. CASE ~Usable(r)
      <4>1. judgment' = None
        BY <1>2, <3>1, <3>3 DEF Evaluate, LoopInv
      <4> QED BY <4>1 DEF ReasonsKept
    <3> QED BY <3>2, <3>3
  <2>2. CASE FallBack
    <3>1. heard' = heard /\ heard \in Seq(Evaluations) /\ AllUnclear
      BY <1>2, <2>2 DEF FallBack, LoopInv
    <3>2. ASSUME heard # <<>> PROVE ~Usable(heard[Len(heard)])
      <4>1. Len(heard) \in 1 .. Len(heard) /\ heard[Len(heard)] \in Evaluations
        BY <3>1, <3>2
      <4>2. \A a \in Agents : ~SpeaksFor(heard[Len(heard)], a)
        BY <3>1, <4>1 DEF AllUnclear
      <4> QED BY <4>1, <4>2, WinnerIsClear
    <3> QED BY <3>1, <3>2 DEF ReasonsKept, Usable, Winner
  <2>3. CASE UNCHANGED debateVars
    BY <1>2, <2>3 DEF debateVars, ReasonsKept
  <2> QED
    BY <1>2, <2>1, <2>2, <2>3
    DEF Next, Step, Settled, AskForTopic, Validate, Conclude, debateVars, vars
<1> QED
  BY <1>1, <1>2, LoopInvariance, PTL DEF Spec
==============================================================================

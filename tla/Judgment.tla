------------------------------ MODULE Judgment -------------------------------
(***************************************************************************)
(* What the judge makes of its model's answers: the topic it settles on    *)
(* before the debate (services/judge_agent.py, _decide_topic) and the      *)
(* verdict it reads out of the evaluation (services/                       *)
(* judge_decision_mixin.py, evaluate_debate).  Both are loops of so many   *)
(* attempts, in which the answers may be anything; Debate has the same two *)
(* loops without the answers.                                              *)
(*                                                                         *)
(* Text is abstracted to what the code looks for in it, and a score is in  *)
(* tenths.                                                                 *)
(***************************************************************************)
EXTENDS DebateTurns, FiniteSets, Functions

CONSTANTS
  Attempts,     \* tries of each loop (range(3))
  TopicReplies, \* answers to the request for a topic
  Validations,  \* answers to the request to validate it
  Evaluations,  \* answers to the request for an evaluation
  Failure,      \* the request raised, or its answer is not a JSON object
  None          \* no topic, no judgment

Nobody == "nobody"

\* A topic begins with one of the six question words, with the letters of one
\* ("Isotopes ..."), with something else, or is blank.
Topics == [start : {"word", "letters", "other", "blank"}, rationale : BOOLEAN]

\* The field "accepted" is JSON true or false, the string "false", or absent.
Validity == [accepted : {"true", "false", "quoted false", "absent"}]

\* A text names a side or nobody, and has the short names of some sides in it:
\* "inconclusive" has Con and names nobody, "affirmative" has none and names
\* Pro.
Words == [has : SUBSET Agents, names : Agents \cup {Nobody}]

\* An item of the justification is an object with a point and up to three fields
\* for its evidence, or a text: what is before its first colon is the point (absent
\* without a colon), what is after it the evidence. A part is absent when it is
\* missing or empty, blank when there is nothing but white space in it.
Parts == {"said", "blank", "absent"}
Fields == {"evidence", "text", "reason"}
Texts ==
  [kind : {"text"}, point : Parts,
   says : [evidence : {"said", "blank"}, text : {"absent"}, reason : {"absent"}]]
Items ==
  [kind : {"object"}, point : Parts, says : [evidence : Parts, text : Parts, reason : Parts]]
    \cup Texts

\* A justification is a list, or a text each line of which is an item, or anything
\* else (an object, say) with what it says.
Justifications ==
  [form : {"list", "other"}, items : Seq(Items)] \cup [form : {"lines"}, items : Seq(Texts)]

\* The score is a number, NaN, or nothing float() reads.
Scores == [kind : {"number", "nan", "unreadable"}, value : Int]

\* An evaluation: the field "type" fits the schema or not (nor does a number too
\* large for float()), the winner field ("winner_id", or "winner" where that is
\* empty), the score, the sides whose long names occur in the justification, and
\* the justification.
Payloads ==
  [fits : BOOLEAN, winner : Words, score : Scores, mentions : SUBSET Agents,
   justification : Justifications]

ASSUME AttemptsAssumption == Attempts \in Nat \ {0}
ASSUME RepliesAssumption ==
  /\ TopicReplies \subseteq Topics \cup {Failure}
  /\ Validations \subseteq Validity \cup {Failure}
  /\ \A r \in Evaluations \ {Failure} : r \in Payloads

VARIABLES
  phase,    \* "topic", "validate", "debate", "judging", "declared" or "failed"
  tries,    \* failed attempts of the loop it is in
  topic,    \* the candidate, later the topic
  heard,    \* history: the answers to the evaluation
  fallback, \* the side _neutral_fallback_winner picks for this debate
  cut,      \* the budget has halted the debate
  judgment  \* the judgment that is sent

vars == <<phase, tries, topic, heard, fallback, cut, judgment>>
debateVars == <<heard, fallback, cut, judgment>>

Init ==
  /\ phase = "topic" /\ tries = 0 /\ topic = None
  /\ heard = <<>>
  /\ fallback \in Agents /\ cut \in BOOLEAN
  /\ judgment = None

-------------------------------------------------------------------------------
(* _decide_topic. *)

\* _normalize_generated_topic takes the beginning for a question word.
Proper(r) == r # Failure /\ r.start \in {"word", "letters"} /\ r.rationale

\* An attempt raises; after the last the constructor does.
AttemptFails ==
  /\ tries' = tries + 1
  /\ phase' = IF tries' = Attempts THEN "failed" ELSE "topic"
  /\ topic' = None

AskForTopic(r) ==
  /\ phase = "topic"
  /\ IF Proper(r) THEN phase' = "validate" /\ topic' = r /\ UNCHANGED tries
                  ELSE AttemptFails
  /\ UNCHANGED debateVars

\* bool() of the field: any string that is not empty is true.
Accepts(v) == v # Failure /\ v.accepted \in {"true", "quoted false"}

\* A faulty form of the next definition: a rejection is not an attempt.
ValidateUncounted(v) ==
  /\ phase = "validate"
  /\ IF Accepts(v) THEN phase' = "debate" /\ tries' = 0 /\ UNCHANGED topic
                   ELSE phase' = "topic" /\ topic' = None /\ UNCHANGED tries
  /\ UNCHANGED debateVars

\* _is_actively_contested_topic asks the model about the candidate.
Validate(v) ==
  /\ phase = "validate"
  /\ IF Accepts(v) THEN phase' = "debate" /\ tries' = 0 /\ UNCHANGED topic
                   ELSE AttemptFails
  /\ UNCHANGED debateVars

\* The debate, until it is over or its budget is.
Conclude ==
  /\ phase = "debate"
  /\ phase' = "judging"
  /\ UNCHANGED <<tries, topic, debateVars>>

-------------------------------------------------------------------------------
(* evaluate_debate. *)

The(s) == CHOOSE x \in s : TRUE

\* A faulty form of the next definition: Con is looked for first.
WinnerConFirst(r) ==
  IF Con \in r.winner.has THEN Con
  ELSE IF Pro \in r.winner.has THEN Pro
  ELSE IF Cardinality(r.mentions) = 1 THEN The(r.mentions)
  ELSE Nobody

\* _normalize_winner_id: the one side that occurs in the winner field, else the
\* one side the justification mentions.
Winner(r) ==
  IF Cardinality(r.winner.has) = 1 THEN The(r.winner.has)
  ELSE IF Cardinality(r.mentions) = 1 THEN The(r.mentions)
  ELSE Nobody

\* A faulty form of the next definition: a tie stays one.
ScoreOfTie(s) ==
  CASE s.kind = "unreadable" -> [kind |-> "number", value |-> 10]
    [] s.kind = "nan" -> s
    [] OTHER -> [s EXCEPT !.value = IF @ < 0 THEN -@ ELSE @]

\* abs(score) or 0.1, where what cannot be read counts as 1.0.
Score(s) ==
  CASE s.kind = "unreadable" -> [kind |-> "number", value |-> 10]
    [] s.kind = "nan" -> s
    [] OTHER -> [s EXCEPT !.value = IF @ < 0 THEN -@ ELSE IF @ = 0 THEN 1 ELSE @]

\* The items that are looked at: none of a justification in another form.
RawItems(j) == IF j.form \in {"list", "lines"} THEN j.items ELSE <<>>

\* The field whose text becomes the evidence: the first that is not empty, which
\* says nothing if it is blank.
Evidence(says) ==
  LET first == IF says.evidence # "absent" THEN "evidence"
               ELSE IF says.text # "absent" THEN "text" ELSE "reason"
  IN  IF says[first] = "said" THEN first ELSE "none"

\* A faulty form of the next definition: what has no evidence is dropped.
KeptWithEvidence(it) == Evidence(it.says) # "none"

\* _normalize_justifications keeps an object unless its point is blank and it
\* has no evidence, and a text unless there is nothing in it ...
Kept(it) ==
  \/ Evidence(it.says) # "none"
  \/ it.kind = "object" /\ it.point # "blank"
  \/ it.kind = "text" /\ it.point # "absent"

\* ... and numbers the points that are missing.
Reason(it, i) ==
  [point |-> IF it.point = "said" \/ (it.kind = "object" /\ it.point = "blank")
               THEN it.point ELSE "numbered",
   evidence |-> Evidence(it.says),
   item |-> i]
Reasons(items) ==
  LET from[i \in 0 .. Len(items)] ==
        IF i = 0 THEN <<>>
        ELSE IF Kept(items[i]) THEN Append(from[i - 1], Reason(items[i], i))
        ELSE from[i - 1]
  IN  from[Len(items)]

\* A faulty form of the next definition: a winner that is not clear is kept.
UsableAnyWinner(r) == r # Failure /\ r.fits

Usable(r) == r # Failure /\ r.fits /\ Winner(r) # Nobody

\* _handle_budget_failure adds a reason; 0 stands for those that no item gave.
Added == [point |-> "said", evidence |-> "evidence", item |-> 0]
Truncated(reasons) == IF cut THEN <<Added>> \o reasons ELSE reasons

\* The judgment is sent.
Send(w, s, reasons) ==
  /\ judgment' = [winner |-> w, score |-> s, reasons |-> Truncated(reasons)]
  /\ phase' = "declared" /\ tries' = 0

Evaluate(r) ==
  /\ phase = "judging" /\ tries < Attempts
  /\ heard' = Append(heard, r)
  /\ IF Usable(r) THEN Send(Winner(r), Score(r.score), Reasons(RawItems(r.justification)))
                  ELSE tries' = tries + 1 /\ UNCHANGED <<phase, judgment>>
  /\ UNCHANGED <<topic, fallback, cut>>

\* A faulty form of the next definition: one attempt too early.
FallBackEarly ==
  /\ phase = "judging" /\ tries >= Attempts - 1
  /\ Send(fallback, [kind |-> "number", value |-> 1], <<Added>>)
  /\ UNCHANGED <<topic, heard, fallback, cut>>

\* All attempts have failed.
FallBack ==
  /\ phase = "judging" /\ tries = Attempts
  /\ Send(fallback, [kind |-> "number", value |-> 1], <<Added>>)
  /\ UNCHANGED <<topic, heard, fallback, cut>>

\* There is a judgment, or there never will be.
Settled ==
  /\ phase \in {"declared", "failed"}
  /\ UNCHANGED vars

Step ==
  \/ \E r \in TopicReplies : AskForTopic(r)
  \/ \E v \in Validations : Validate(v)
  \/ Conclude
  \/ \E r \in Evaluations : Evaluate(r)
  \/ FallBack

Next == Step \/ Settled

Spec == Init /\ [][Next]_vars

\* Every request of the model is answered or fails in time.
FairSpec == Spec /\ WF_vars(Step)
==============================================================================

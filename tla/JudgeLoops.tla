----------------------------- MODULE JudgeLoops ------------------------------
(***************************************************************************)
(* What Debate assumes of the judge's two conversations with its model:    *)
(* each is a loop of at most Attempts failed attempts, of which the first  *)
(* may end the judge and the second always ends in one verdict.            *)
(***************************************************************************)
EXTENDS Integers

CONSTANT Attempts

VARIABLES
  phase,  \* "topic", "debate", "judging", "declared" or "failed"
  tries   \* failed attempts of the loop

vars == <<phase, tries>>

Init == phase = "topic" /\ tries = 0

TopicAttemptFails ==
  /\ phase = "topic" /\ tries < Attempts
  /\ tries' = tries + 1
  /\ phase' = IF tries' = Attempts THEN "failed" ELSE "topic"

TopicChosen == phase = "topic" /\ phase' = "debate" /\ tries' = 0

DebateEnds == phase = "debate" /\ phase' = "judging" /\ tries' = 0

EvaluationFails ==
  /\ phase = "judging" /\ tries < Attempts
  /\ tries' = tries + 1
  /\ UNCHANGED phase

DeclareWinner == phase = "judging" /\ phase' = "declared" /\ tries' = 0

Next == TopicAttemptFails \/ TopicChosen \/ DebateEnds \/ EvaluationFails \/ DeclareWinner

Spec == Init /\ [][Next]_vars
FairSpec == Spec /\ WF_vars(Next)
==============================================================================

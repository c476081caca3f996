--------------------------- MODULE DebateProtocol ----------------------------
(***************************************************************************)
(* What the caller of run_debate_session is promised, with no processes,   *)
(* queues or messages: the arguments it is shown alternate, Pro first, with *)
(* the right round on each; the verdict comes once, after the last turn of *)
(* the last round, unless it is a truncated one; and the call returns only  *)
(* with a verdict and raises only without one.                             *)
(***************************************************************************)
EXTENDS DebateTurns

CONSTANT MaxRounds

VARIABLES
  turns,    \* the arguments shown to the caller, in order
  verdict,  \* the judgment shown to the caller
  outcome   \* how the call stands

vars == <<turns, verdict, outcome>>

Init ==
  /\ turns = <<>>
  /\ verdict = "none"
  /\ outcome = "running"

Speak ==
  /\ outcome = "running" /\ verdict = "none"
  /\ Len(turns) < 2 * MaxRounds
  /\ turns' = Append(turns, TurnAfter(Len(turns)))
  /\ UNCHANGED <<verdict, outcome>>

Decide ==
  /\ outcome = "running" /\ verdict = "none"
  /\ Len(turns) = 2 * MaxRounds
  /\ verdict' = "final"
  /\ UNCHANGED <<turns, outcome>>

Truncate ==
  /\ outcome = "running" /\ verdict = "none"
  /\ verdict' = "truncated"
  /\ UNCHANGED <<turns, outcome>>

Return ==
  /\ outcome = "running" /\ verdict # "none"
  /\ outcome' = "returned"
  /\ UNCHANGED <<turns, verdict>>

Raise ==
  /\ outcome = "running" /\ verdict = "none"
  /\ outcome' = "raised"
  /\ UNCHANGED <<turns, verdict>>

Next == Speak \/ Decide \/ Truncate \/ Return \/ Raise

Spec == Init /\ [][Next]_vars

\* With healthy debaters and a judge that is not cut short, the whole debate
\* is shown and the call returns.
Fairness == WF_vars(Speak) /\ WF_vars(Decide) /\ WF_vars(Return)

FairSpec == Spec /\ Fairness
==============================================================================

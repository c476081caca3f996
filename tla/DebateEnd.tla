------------------------------ MODULE DebateEnd ------------------------------
(***************************************************************************)
(* How a debate ends, whoever kills the children and in however many calls: *)
(* they are watched before the debate is closed, all are dead and the      *)
(* watchdog has ended before the judge judges, and there is one judgment.  *)
(***************************************************************************)
CONSTANT Agents

VARIABLES
  stage,   \* "before" the children are started, "open", "closing", "closed",
           \* "judged", or "over": the judge has given up or is through
  alive,   \* the children that can still be killed
  watching \* the watchdog looks after them

vars == <<stage, alive, watching>>

Init == stage = "before" /\ alive = {} /\ watching = FALSE

Moves(from, to) == stage = from /\ stage' = to

\* Both processes are started; the watchdog may come later.
Spawn == Moves("before", "open") /\ alive' = Agents /\ watching' \in BOOLEAN
Watch == stage = "open" /\ watching' = TRUE /\ UNCHANGED <<stage, alive>>

\* A child ends by itself or is killed.
Lose(a) == a \in alive /\ alive' = alive \ {a} /\ UNCHANGED <<stage, watching>>

\* The debate is over, or its budget is.
Close == Moves("open", "closing") /\ watching /\ UNCHANGED <<alive, watching>>

\* The watchdog ends, or dies of a child that the judge has reaped.
Unwatch == stage = "closing" /\ watching' = FALSE /\ UNCHANGED <<stage, alive>>

Closed == Moves("closing", "closed") /\ alive = {} /\ watching' = FALSE /\ UNCHANGED alive
Judge == Moves("closed", "judged") /\ UNCHANGED <<alive, watching>>

\* The judge gives up, is killed, or is through; it may take the children along.
End ==
  /\ stage' = "over" /\ alive' \subseteq alive
  /\ watching' \in BOOLEAN /\ (watching' => watching)

Next ==
  \/ Spawn \/ Watch \/ (\E a \in alive : Lose(a)) \/ Close \/ Unwatch \/ Closed \/ Judge
  \/ End

Spec == Init /\ [][Next]_vars
==============================================================================

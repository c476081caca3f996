----------------------------- MODULE DebateTurns -----------------------------
(***************************************************************************)
(* The vocabulary the debate modules share: the two debaters and the turns *)
(* they take.  A turn is what the ledger keeps of an argument, without its *)
(* text: who made it and in which round.                                   *)
(***************************************************************************)
EXTENDS Integers, Sequences

Pro == "pro_agent"
Con == "con_agent"
Agents == {Pro, Con}

Turns == [agent : Agents, round : Nat]

\* The turn that follows n turns of a debate in strict alternation, Pro first.
TurnAfter(n) == [agent |-> IF n % 2 = 0 THEN Pro ELSE Con, round |-> (n \div 2) + 1]

\* A sequence of turns in strict alternation.
Alternating(s) == \A i \in 1 .. Len(s) : s[i] = TurnAfter(i - 1)
==============================================================================

----------------------------- MODULE DebateProps -----------------------------
(***************************************************************************)
(* What must be true of Debate, and what the repository says is true of it. *)
(***************************************************************************)
EXTENDS Debate

\* Judgments that have left the judge: on the outbound queue or received.
SentJudgments == {i \in 1 .. Len(outbound) : outbound[i].kind \in Judgments}
Judged == SentJudgments # {} \/ verdict # "none"

\* The ledger alternates, Pro first, whatever is duplicated, dropped or killed,
\* and the round each child computed from its prompt's history is the round
\* the judge was in: out-of-turn arguments never reach the ledger
\* (handle_message's check of active_agent_id).
LedgerAlternates == Alternating(ledger) /\ Len(ledger) <= 2 * MaxRounds

\* At most one turn is outstanding, it is the active agent's, and it answers
\* the ledger as it is: no child ever argues against a stale history.
Working(a) == child[a] \in {"thinking", "replied"}
SingleTurn ==
  \A a \in Agents :
    /\ Len(prompts[a]) + (IF Working(a) THEN 1 ELSE 0) <= 1
    /\ prompts[a] # <<>> /\ active # NoAgent =>
         active = a /\ prompts[a][1].hist = Len(ledger)
    /\ Working(a) /\ active # NoAgent =>
         active = a /\ turn[a].hist = Len(ledger)

\* Exactly the last turn of the debate is prompted as ENDING.
EndingIsLast ==
  \A a \in Agents : \A i \in 1 .. Len(prompts[a]) :
    prompts[a][i].ending <=> prompts[a][i].hist = 2 * MaxRounds - 1

\* Why the three hold: between two steps of the judge the turn that is wanted
\* is in exactly one place, a prompt, a child at work on it, or its argument,
\* perhaps repeated, on the inbound queue behind whatever is out of turn.
ArgumentAt(i) == i \in 1 .. Len(inbound) /\ inbound[i].kind = "argument"
WantedAt(i) == ArgumentAt(i) /\ inbound[i].agent = active

NothingBeforeStart ==
  jpc \in {"topic", "spawn", "start"} =>
    /\ ledger = <<>> /\ active = NoAgent
    /\ \A i \in 1 .. Len(inbound) : ~ArgumentAt(i)
    /\ \A a \in Agents : prompts[a] = <<>> /\ ~Working(a)
Position ==
  /\ Len(ledger) <= 2 * MaxRounds
  /\ active # NoAgent =>
       /\ round \in 1 .. MaxRounds
       /\ Len(ledger) = 2 * (round - 1) + (IF active = Pro THEN 0 ELSE 1)
OnePrompt ==
  \A a \in Agents : Len(prompts[a]) <= 1 /\ (Working(a) => prompts[a] = <<>>)
WantedTurn ==
  active # NoAgent =>
    /\ \A i \in 1 .. Len(inbound) :
         WantedAt(i) => inbound[i].round = TurnAfter(Len(ledger)).round
    /\ \A i, j \in 1 .. Len(inbound) :
         i < j /\ WantedAt(i) /\ ArgumentAt(j) => WantedAt(j)
    /\ \A a \in Agents :
         prompts[a] # <<>> \/ Working(a) =>
           a = active /\ \A i \in 1 .. Len(inbound) : ~WantedAt(i)
    /\ \A a \in Agents :
         /\ prompts[a] # <<>> => prompts[a][1].hist = Len(ledger)
         /\ Working(a) => turn[a].hist = Len(ledger)

TurnInv ==
  /\ Alternating(ledger)
  /\ NothingBeforeStart /\ Position /\ OnePrompt /\ WantedTurn /\ EndingIsLast

\* A checkpoint on disk is a prefix of the ledger, saved in the round of its
\* last turn, even when some saves fail.
CheckpointConsistent ==
  LET n == Len(saved.ledger) IN
    /\ n <= Len(ledger) /\ saved.ledger = SubSeq(ledger, 1, n)
    /\ n > 0 => saved.round = saved.ledger[n].round

\* When a judgment is out, no child is left alive, and it is the only one.
VerdictClosesDebate ==
  Judged => /\ \A a \in Agents : ~Alive(a)
            /\ Cardinality(SentJudgments) + (IF verdict = "none" THEN 0 ELSE 1) = 1

\* Nothing of the children follows a judgment on the outbound queue: what they
\* left on the inbound queue, telemetry and repeated arguments, is not streamed
\* after it, and there is no second judgment.
JudgmentIsLastWord == [][Judged => Len(outbound') <= Len(outbound)]_vars

Ended == outcome \in {"returned", "raised"}

\* A call that is over has left no child process behind.
NoOrphans == Ended => \A a \in Agents : ~Alive(a)

\* What the caller sees is a debate of the abstract protocol.
Protocol ==
  INSTANCE DebateProtocol
    WITH turns <- transcript,
         outcome <- IF outcome \in {"polling", "joining"} THEN "running" ELSE outcome
ProtocolSafety == Protocol!Spec

\* How far its end has come: the judge's loop behind a stopped watchdog, and its way
\* out from there, are after the judgment.
Stage ==
  CASE jpc \in {"topic", "spawn"} -> "before"
    [] jpc = "start" \/ (jpc = "loop" /\ dog = "on") -> "open"
    [] jpc = "closing" /\ then = "judging" -> "closing"
    [] jpc = "judging" -> "closed"
    [] (jpc = "loop" /\ dog # "on") \/ (jpc = "closing" /\ then = "exited") -> "judged"
    [] OTHER -> "over"

\* The debate ends as DebateEnd does, in the same stages as the calls of Supervision
\* of which one step here is made.
End ==
  INSTANCE DebateEnd
    WITH stage <- Stage,
         alive <- {a \in Agents : Alive(a)},
         watching <- dog = "on"
EndsInOrder == End!Spec

\* A turn is lost when the active agent is dead, or waits for a prompt that is
\* not there, and no argument of it is on the way.
TurnLost(a) ==
  /\ active = a
  /\ child[a] = "dead" \/ (child[a] = "idle" /\ prompts[a] = <<>>)
  /\ \A i \in 1 .. Len(inbound) : ~WantedAt(i)
Lost == \E a \in Agents : TurnLost(a)

\* The debate makes the progress of the abstract protocol: as long as no turn
\* is lost every argument is shown, then the verdict, then the call returns,
\* whatever befalls the judge and the caller's handler.
ProtocolLive == []~Lost => Protocol!Fairness

\* The call comes back, with a verdict or an exception; nothing but a lost turn
\* can keep it.
SessionEnds == <>(Ended \/ Lost)

\* A frozen child is killed although its sibling beats, unless the judge, and
\* the watchdog with it, is gone first.
StalledReaped ==
  \A a \in Agents : child[a] = "stalled" ~> child[a] = "dead" \/ jpc = "exited"

-------------------------------------------------------------------------------
(* What the repository says and the code does not do. *)

\* docs/PRD.md:102: the judge handles a child's failure to answer, by forfeiting
\* the turn or retrying it.
FailureHandled == \A a \in Agents : TurnLost(a) ~> ~TurnLost(a) \/ Ended
==============================================================================

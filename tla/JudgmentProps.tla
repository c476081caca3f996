---------------------------- MODULE JudgmentProps -----------------------------
(***************************************************************************)
(* What must be true of Judgment, and what the repository says of it.      *)
(***************************************************************************)
EXTENDS Judgment

Numbers == [kind : {"number", "nan"}, value : Int]

\* The types of the variables: no loop runs past its attempts.
TypeOK ==
  /\ phase \in {"topic", "validate", "debate", "judging", "declared", "failed"}
  /\ tries \in 0 .. Attempts
  /\ topic = None \/ topic \in Topics
  /\ Len(heard) <= Attempts
  /\ fallback \in Agents /\ cut \in BOOLEAN
  /\ judgment # None => judgment.winner \in Agents /\ judgment.score \in Numbers

\* Neither side is favoured: with the sides exchanged in everything an answer
\* says, the other side wins, or still nobody (_normalize_winner_id).
Other(a) == IF a = Pro THEN Con ELSE IF a = Con THEN Pro ELSE a
Exchanged(r) ==
  [r EXCEPT !.winner.has = {Other(a) : a \in @}, !.winner.names = Other(@),
            !.mentions = {Other(a) : a \in @}]
SidesAlike ==
  \A i \in 1 .. Len(heard) :
    heard[i] # Failure => Winner(Exchanged(heard[i])) = Other(Winner(heard[i]))

\* A verdict rests on the first answer that speaks for one side alone, in the
\* winner field or, when that is unclear, in the justification; the fallback is
\* used only when every attempt was spent on answers that do not.
SpeaksFor(r, a) ==
  /\ r # Failure /\ r.fits
  /\ \/ r.winner.has = {a}
     \/ r.winner.has \in {{}, Agents} /\ r.mentions = {a}
FirstClearAnswer ==
  LET n == Len(heard)
      unclear(i) == \A a \in Agents : ~SpeaksFor(heard[i], a)
  IN  judgment # None =>
        \/ n > 0 /\ SpeaksFor(heard[n], judgment.winner) /\ \A i \in 1 .. n - 1 : unclear(i)
        \/ n = Attempts /\ judgment.winner = fallback /\ \A i \in 1 .. n : unclear(i)

\* There is never a tie, whatever number the model gives: the differential is
\* positive, or NaN (which a JSON reader of Python accepts).
NeverTied == judgment # None => judgment.score.kind = "nan" \/ judgment.score.value > 0

\* What an item says in its field f is its evidence if no field before f is filled.
Before == [evidence |-> {}, text |-> {"evidence"}, reason |-> {"evidence", "text"}]
SaysIn(it, f) == it.says[f] = "said" /\ \A g \in Before[f] : it.says[g] = "absent"

\* The reasons given are the points and the evidence of a justification, once and in
\* order, each with the item it belongs to, and nothing else.
Faithful(given, j) ==
  LET read == IF j.form = "other" THEN {} ELSE 1 .. Len(j.items)
  IN  /\ \A k, m \in 1 .. Len(given) : k < m => given[k].item < given[m].item
      /\ \A k \in 1 .. Len(given) :
           LET i == given[k].item IN
             /\ i \in read
             /\ given[k].point = "said" => j.items[i].point = "said"
             /\ given[k].evidence # "none" => SaysIn(j.items[i], given[k].evidence)
      /\ \A i \in read :
           /\ j.items[i].point = "said" =>
                \E k \in 1 .. Len(given) : given[k].item = i /\ given[k].point = "said"
           /\ \A f \in Fields : SaysIn(j.items[i], f) =>
                \E k \in 1 .. Len(given) : given[k].item = i /\ given[k].evidence = f

\* The judgment holds what is read of the justification it rests on, behind the note
\* of a truncation (_normalize_justifications). Read are the items of a list and the
\* lines of a text; lost is a justification in any other form, and what an object says
\* in a field behind one that is filled, even if only with white space.
ReasonsKept ==
  judgment # None /\ heard # <<>> /\ Usable(heard[Len(heard)]) =>
    /\ cut => judgment.reasons # <<>> /\ Head(judgment.reasons) = Added
    /\ Faithful(IF cut THEN Tail(judgment.reasons) ELSE judgment.reasons,
                heard[Len(heard)].justification)

\* The two loops are those of the abstract specification, and they end.
Loops ==
  INSTANCE JudgeLoops WITH phase <- IF phase = "validate" THEN "topic" ELSE phase
LoopsEnd == Loops!FairSpec

-------------------------------------------------------------------------------
(* What the repository says and the code does not do. *)

\* judge_decision_mixin.py:76: a winner field that names nobody is not made
\* into one of the sides.
NobodyStaysNobody ==
  judgment # None /\ heard # <<>> =>
    LET r == heard[Len(heard)] IN
      Usable(r) => r.winner.names # Nobody \/ r.mentions # {}
==============================================================================

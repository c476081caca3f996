----------------------------- MODULE MCJudgment -------------------------------
(* The answers the judge's model may give in the runs of Judgment. *)
EXTENDS JudgmentProps

AllTopicReplies == Topics \cup {Failure}
AllValidations == Validity \cup {Failure}

Number(n) == [kind |-> "number", value |-> n]
SomeScores ==
  {Number(0), Number(-30), Number(50), [kind |-> "nan", value |-> 0],
   [kind |-> "unreadable", value |-> 0]}
ClearWord == [has |-> {Con}, names |-> Con]

\* Every item of a list, by itself and before a text; lines; and an object.
Says(e) == [evidence |-> e, text |-> "absent", reason |-> "absent"]
Text(p, e) == [kind |-> "text", point |-> p, says |-> Says(e)]
Point == [kind |-> "object", point |-> "said", says |-> Says("absent")]
List(its) == [form |-> "list", items |-> its]
SomeJustifications ==
  {List(<<>>)}
    \cup {List(<<it>>) : it \in Items}
    \cup {List(<<it, Text("absent", "said")>>) : it \in Texts \cup {Point}}
    \cup {[form |-> "lines", items |-> <<Text("said", "blank"), it>>] : it \in Texts}
    \cup {[form |-> "other", items |-> <<Point>>]}

\* A justification that has room for names.
Prose == List(<<Text("absent", "said")>>)

Payload(w, s, m, j, fits) ==
  [fits |-> fits, winner |-> w, score |-> s, mentions |-> m, justification |-> j]

SomeWords == {w \in Words : w.names \in w.has \cup {Nobody}}

\* Every winner field with every set of sides mentioned, every score, and every
\* justification.
SomeEvaluations ==
  {Failure, Payload(ClearWord, Number(50), {}, Prose, FALSE)}
    \cup {Payload(w, Number(50), m, Prose, TRUE) : w \in SomeWords, m \in SUBSET Agents}
    \cup {Payload(ClearWord, s, {}, Prose, TRUE) : s \in SomeScores}
    \cup {Payload(ClearWord, Number(50), {}, j, TRUE) : j \in SomeJustifications}
==============================================================================

------------------------------ MODULE LogsProps -------------------------------
(***************************************************************************)
(* What must be true of Logs, and what the repository says of it.          *)
(***************************************************************************)
EXTENDS Logs, SequencesExt

\* The types of the variables.
TypeOK ==
  /\ path \in [Paths -> Files \cup {NoFile}]
  /\ \A f \in Files : \A i \in 1 .. Len(data[f]) : data[f][i] \in 0 .. written
  /\ index \in [Writers -> 0 .. (MaxFiles + 1 + MaxCuts)]
  /\ \A w \in Writers : count[w] \in Nat
  /\ mode \in [Writers -> Modes]
  /\ file \in [Writers -> Files \cup {NoFile}]
  /\ pos \in [Writers \cup {Inheritance} -> Nat]
  /\ pc \in [Writers -> Steps] /\ then \in [Writers -> {"idle", "write"}]
  /\ \A w \in Writers : pc[w] = "open" => index[w] \in Paths
  /\ \A w \in Writers : next[w] = 2 \/ next[w] \in 2 .. MaxFiles
  /\ written \in Nat /\ cuts \in 0 .. MaxCuts /\ purged \in BOOLEAN
  /\ fpc \in {"poll", "read", "dead"} /\ todo \subseteq Paths
  /\ seen \in [Paths -> Nat] /\ Len(shown) \in Nat

\* What the files hold, oldest file first.
TextOf(i) == IF path[i] = NoFile THEN <<>> ELSE data[path[i]]
OnDisk == FlattenSeq([i \in Paths |-> TextOf(i)])

\* The log is first in, first out: read in the order of their names, the files
\* hold the last lines written, in order, with none missing; at every step of a
\* rotation, after a crash in it, and when a step of it failed.
FirstInFirstOut ==
  LET n == Len(OnDisk) IN
    n <= written /\ OnDisk = [i \in 1 .. n |-> written - n + i]

\* No file exceeds its lines, by whatever restarts it was filled.
FilesBounded == \A i \in Paths : Len(TextOf(i)) <= MaxLines

\* A rotation costs one file, and each crash or failure in it at most one more.
Retained ==
  LET kept == (MaxFiles - 1 - cuts) * MaxLines IN
    Len(OnDisk) >= IF written < kept THEN written ELSE kept

\* Until the first file is purged, the follower has shown the lines in order,
\* each once, and nothing ends its thread.
FollowedInOrder ==
  ~purged => /\ fpc # "dead"
             /\ shown = [i \in 1 .. Len(shown) |-> i]

\* Until then it also shows every line, when the handlers fall silent.
FollowedToTheEnd == []<>(Len(shown) = written \/ purged)
==============================================================================

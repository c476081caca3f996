----------------------------- MODULE Logs_proofs ------------------------------
(***************************************************************************)
(* Theorems about the log files: for any number of files, lines, processes, *)
(* crashes and failures.                                                    *)
(***************************************************************************)
EXTENDS LogsProps, NatLemmas, SequenceTheorems

LEMMA Sizes0 ==
  /\ MaxFiles \in Nat /\ MaxFiles > 0 /\ MaxLines \in Nat /\ MaxLines > 0
  /\ MaxWritten \in Nat /\ MaxCuts \in Nat
  /\ IsFiniteSet(Writers) /\ Cardinality(Writers) \in Nat
  /\ Inheritance \notin Writers
BY LogsAssumption, InheritanceAssumption, FS_CardinalityType

\* Handlers with an open stream, and in the middle of a rotation.
Streams == {"own", "appending", "inherited"}
Rotating == {"unlink", "shift", "open"}

\* A handler has a file just when its stream is open; a closed stream is one that
\* is full and is being replaced, or whose replacement failed; and no rotation
\* leaves the index beyond the last file unless it failed.
Handler(w) ==
  /\ mode[w] \in Streams <=> file[w] # NoFile
  /\ pc[w] \in Rotating \cup {"off"} => file[w] = NoFile
  /\ pc[w] = "off" => mode[w] = "none" /\ index[w] = 0
  /\ mode[w] = "closed" => pc[w] \in Rotating \cup {"idle", "rotate"} /\ Full(count[w])
  /\ pc[w] \in Rotating \cup {"rotate"} /\ mode[w] # "none" => Full(count[w])
  /\ pc[w] = "write" /\ mode[w] # "none" => ~Full(count[w])
  /\ pc[w] = "open" => index[w] \in Paths
  /\ pc[w] \in {"unlink", "shift"} => index[w] > MaxFiles
  /\ pc[w] = "shift" => next[w] \in 2 .. MaxFiles
  /\ next[w] = 2 \/ next[w] \in 2 .. MaxFiles
  /\ index[w] <= MaxFiles + cuts + (IF pc[w] \in {"unlink", "shift"} THEN 1 ELSE 0)

LogTypes ==
  /\ path \in [Paths -> Files \cup {NoFile}]
  /\ data \in [Files -> Seq(Nat)]
  /\ index \in [Writers -> Nat] /\ count \in [Writers -> Nat]
  /\ mode \in [Writers -> Modes] /\ file \in [Writers -> Files \cup {NoFile}]
  /\ pos \in [Writers \cup {Inheritance} -> Nat]
  /\ pc \in [Writers -> Steps] /\ then \in [Writers -> {"idle", "write"}]
  /\ next \in [Writers -> Nat]
  /\ written \in Nat /\ cuts \in 0 .. MaxCuts /\ purged \in BOOLEAN

FollowerTypes ==
  /\ fpc \in {"poll", "read", "dead"} /\ todo \subseteq Paths
  /\ seen \in [Paths -> Nat] /\ shown \in Seq(Nat)

LinesKnown == \A f \in Files : \A i \in 1 .. Len(data[f]) : data[f][i] <= written

LogInv == LogTypes /\ FollowerTypes /\ LinesKnown /\ \A w \in Writers : Handler(w)

USE DEF vars, diskVars, handlerVars, stepVars, historyVars, followVars, Goto, At

LEMMA InvTypes == LogInv => TypeOK
<1> SUFFICES ASSUME LogInv PROVE TypeOK
  OBVIOUS
<1>1. index \in [Writers -> 0 .. (MaxFiles + 1 + MaxCuts)]
  <2>1. \A w \in Writers : index[w] \in 0 .. (MaxFiles + 1 + MaxCuts)
    <3> TAKE w \in Writers
    <3>1. index[w] \in Nat /\ cuts \in 0 .. MaxCuts
      BY DEF LogInv, LogTypes
    <3>2. index[w] <= MaxFiles + cuts + (IF pc[w] \in {"unlink", "shift"} THEN 1 ELSE 0)
      BY DEF LogInv, Handler
    <3> QED BY <3>1, <3>2, Sizes0
  <2> QED BY <2>1 DEF LogInv, LogTypes
<1>2. \A f \in Files : \A i \in 1 .. Len(data[f]) : data[f][i] \in 0 .. written
  <2> TAKE f \in Files
  <2> TAKE i \in 1 .. Len(data[f])
  <2>1. data[f] \in Seq(Nat) /\ data[f][i] <= written /\ written \in Nat
    BY DEF LogInv, LogTypes, LinesKnown
  <2>2. data[f][i] \in Nat
    BY <2>1, ElementOfSeq
  <2> QED BY <2>1, <2>2
<1>3. Len(shown) \in Nat
  BY DEF LogInv, FollowerTypes
<1> QED BY <1>1, <1>2, <1>3 DEF LogInv, LogTypes, FollowerTypes, Handler, TypeOK

LEMMA MaxIs ==
  ASSUME NEW S, S \subseteq Paths, S # {}
  PROVE  Max(S) \in S /\ \A y \in S : y <= Max(S)
<1>1. S \subseteq 0 .. MaxFiles
  BY Sizes0 DEF Paths
<1>2. \E m \in S : \A k \in S : k <= m
  BY <1>1, Sizes0, Greatest
<1>3. \E m \in S : \A k \in S : m >= k
  BY <1>1, <1>2
<1>4. Max(S) = CHOOSE x \in S : \A y \in S : x >= y
  BY DEF Max
<1>5. Max(S) \in S /\ \A y \in S : Max(S) >= y
  BY <1>3, <1>4
<1> QED BY <1>1, <1>5

LEMMA MinIs ==
  ASSUME NEW S, S \subseteq Nat, S # {}
  PROVE  Min(S) \in S /\ \A y \in S : Min(S) <= y
<1>1. \E m \in S : \A k \in S : m <= k
  BY Least
<1> QED BY <1>1 DEF Min

\* While a handler opens a file that is not there, there is one to open.
LEMMA FreeThere ==
  ASSUME LogTypes, NEW w \in Writers, Handler(w), pc[w] = "open", path[index[w]] = NoFile
  PROVE  Min(Free) \in Free
<1> DEFINE i == index[w]
           P == Paths \ {i}
           W == Writers \ {w}
           A == {path[x] : x \in P}
           B == {file[v] : v \in W}
<1>1. i \in Paths /\ file[w] = NoFile
  BY DEF Handler, Rotating
<1>2. IsFiniteSet(P) /\ Cardinality(P) = MaxFiles - 1
  <2>1. IsFiniteSet(Paths) /\ Cardinality(Paths) = MaxFiles
    BY Sizes0, FS_Interval DEF Paths
  <2> QED BY <1>1, <2>1, FS_RemoveElement
<1>3. IsFiniteSet(W) /\ Cardinality(W) = Cardinality(Writers) - 1
  BY Sizes0, FS_RemoveElement
<1>4. IsFiniteSet(A) /\ Cardinality(A) \in Nat /\ Cardinality(A) <= MaxFiles - 1
  BY <1>2, ImageSize
<1>5. IsFiniteSet(B) /\ Cardinality(B) \in Nat /\ Cardinality(B) <= Cardinality(Writers) - 1
  BY <1>3, ImageSize
<1> HIDE DEF A, B
<1>6. /\ IsFiniteSet(A \cup B) /\ Cardinality(A \cap B) \in Nat
      /\ Cardinality(A \cup B) = Cardinality(A) + Cardinality(B) - Cardinality(A \cap B)
  <2>1. IsFiniteSet(A \cap B)
    BY <1>4, FS_Subset
  <2> QED BY <1>4, <1>5, <2>1, FS_Union, FS_CardinalityType
<1>7. IsFiniteSet(Files) /\ Cardinality(Files) = MaxFiles + Cardinality(Writers)
  BY SMTT(60), Sizes0, FS_Interval DEF Files
<1>8. Free # {}
  <2> SUFFICES ASSUME Free = {} PROVE FALSE
    OBVIOUS
  <2>1. Files \in SUBSET (A \cup B)
    <3> SUFFICES ASSUME NEW f \in Files PROVE f \in A \cup B
      OBVIOUS
    <3>1. f # NoFile
      BY DEF Files, NoFile
    <3>2. f \in {path[x] : x \in Paths} \cup {file[v] : v \in Writers}
      BY DEF Free
    <3> QED BY <1>1, <3>1, <3>2 DEF A, B
  <2>2. Cardinality(Files) <= Cardinality(A \cup B)
    BY <1>6, <2>1, FS_Subset
  <2> QED BY <1>4, <1>5, <1>6, <1>7, <2>2, Sizes0
<1>9. Free \subseteq Nat
  BY DEF Free, Files
<1> QED BY <1>8, <1>9, MinIs

-------------------------------------------------------------------------------
(* The steps. *)

\* What a handler is does not depend on the others.
LEMMA HandlerKept ==
  ASSUME LogTypes, LogTypes', NEW v \in Writers, Handler(v), cuts <= cuts',
         mode'[v] = mode[v], file'[v] = file[v], pc'[v] = pc[v], index'[v] = index[v],
         count'[v] = count[v], next'[v] = next[v]
  PROVE  Handler(v)'
<1>1. index[v] \in Nat /\ cuts \in Nat /\ cuts' \in Nat
  BY DEF LogTypes
<1>2. index[v] <= MaxFiles + cuts' + (IF pc[v] \in {"unlink", "shift"} THEN 1 ELSE 0)
  BY <1>1, Sizes0 DEF Handler
<1> QED BY <1>2 DEF Handler, Full

LEMMA CountType ==
  ASSUME NEW f, data[f] \in Seq(Nat)
  PROVE  LinesOf(f) \in Nat /\ LinesOf(f) <= Len(data[f])
<1> DEFINE S == {i \in 1 .. Len(data[f]) : data[f][i] # Hole}
<1>1. IsFiniteSet(1 .. Len(data[f])) /\ Cardinality(1 .. Len(data[f])) = Len(data[f])
  BY FS_Interval
<1>2. S \in SUBSET (1 .. Len(data[f]))
  OBVIOUS
<1> HIDE DEF S
<1>3. IsFiniteSet(S) /\ Cardinality(S) <= Len(data[f])
  BY ZenonT(60), <1>1, <1>2, FS_Subset
<1> QED BY <1>3, FS_CardinalityType DEF S, LinesOf

LEMMA StartStep ==
  ASSUME LogTypes, NEW w \in Writers, Handler(w), Start(w)
  PROVE  LogTypes' /\ Handler(w)'
<1>1. pc[w] = "off" /\ file[w] = NoFile /\ mode[w] = "none" /\ index[w] = 0
  BY DEF Start, Handler, Rotating
<1>2. cuts' = cuts /\ cuts \in Nat /\ index[w] \in Nat
  BY DEF Start, LogTypes
<1>3. CASE Existing = {}
  <2>1. LogTypes'
    BY <1>3 DEF Start, LogTypes, Steps
  <2>2. pc'[w] = "rotate" /\ UNCHANGED <<mode, file, index, count, next>>
    BY <1>3 DEF Start, LogTypes
  <2> QED BY <1>1, <1>2, <2>1, <2>2, Sizes0 DEF Handler, Rotating, Streams
<1>4. CASE Existing # {}
  <2> DEFINE i == Max(Existing)
             n == LinesOf(path[i])
  <2>1. i \in Existing /\ Existing \subseteq Paths
    BY <1>4, MaxIs DEF Existing
  <2>2. i \in Paths /\ path[i] \in Files /\ path[i] # NoFile /\ i \in Nat /\ i <= MaxFiles
    BY <2>1, Sizes0 DEF Existing, LogTypes, Paths
  <2>3. n \in Nat
    BY <2>2, CountType DEF LogTypes
  <2> HIDE DEF n, i
  <2>4. /\ index' = [index EXCEPT ![w] = i] /\ count' = [count EXCEPT ![w] = n]
        /\ UNCHANGED <<path, data, pos, then, next, written, cuts, purged>>
        /\ \/ Full(n) /\ pc' = [pc EXCEPT ![w] = "rotate"] /\ UNCHANGED <<mode, file>>
           \/ /\ ~Full(n) /\ pc' = [pc EXCEPT ![w] = "idle"]
              /\ mode' = [mode EXCEPT ![w] = "appending"]
              /\ file' = [file EXCEPT ![w] = path[i]]
    BY <1>4 DEF Start, i, n
  <2>5. LogTypes'
    <3>1. UNCHANGED <<path, data, pos, then, next, written, cuts, purged>>
      BY <2>4
    <3>2. index' \in [Writers -> Nat] /\ count' \in [Writers -> Nat]
      BY <2>2, <2>3, <2>4 DEF LogTypes
    <3>3. mode' \in [Writers -> Modes] /\ pc' \in [Writers -> Steps]
      BY <2>4 DEF LogTypes, Modes, Steps
    <3>4. file' \in [Writers -> Files \cup {NoFile}]
      BY <2>2, <2>4 DEF LogTypes
    <3> QED BY <3>1, <3>2, <3>3, <3>4 DEF LogTypes
  <2>6. index'[w] = i /\ count'[w] = n /\ next'[w] = next[w]
    BY <2>4 DEF LogTypes
  <2>7. \/ pc'[w] = "rotate" /\ mode'[w] = mode[w] /\ file'[w] = file[w]
        \/ pc'[w] = "idle" /\ mode'[w] = "appending" /\ file'[w] = path[i]
    BY <2>4 DEF LogTypes
  <2> QED BY <1>1, <1>2, <2>2, <2>5, <2>6, <2>7, Sizes0 DEF Handler, Rotating, Streams
<1> QED BY <1>3, <1>4

LEMMA EmitStep ==
  ASSUME LogTypes, NEW w \in Writers, Handler(w), Emit(w)
  PROVE  LogTypes' /\ Handler(w)'
<1>1. LogTypes'
  BY DEF Emit, LogTypes, Steps
<1>2. /\ pc[w] = "idle" /\ UNCHANGED <<mode, file, index, count, next, cuts>>
      /\ pc'[w] = IF Full(count[w]) THEN "rotate" ELSE "write"
  BY DEF Emit, LogTypes
<1> QED BY <1>1, <1>2 DEF Handler, Rotating, Full

\* A line more, and no other after what it was.
LEMMA PutIs ==
  ASSUME NEW t \in Seq(Nat), NEW p \in Nat, NEW line \in Nat
  PROVE  /\ PutAt(t, p, line) \in Seq(Nat)
         /\ Len(PutAt(t, p, line)) = IF Len(t) > p THEN Len(t) ELSE p + 1
         /\ \A i \in 1 .. Len(PutAt(t, p, line)) :
              PutAt(t, p, line)[i] = IF i = p + 1 THEN line ELSE IF i <= Len(t) THEN t[i] ELSE Hole
<1> DEFINE n == IF Len(t) > p THEN Len(t) ELSE p + 1
           e(i) == IF i = p + 1 THEN line ELSE IF i <= Len(t) THEN t[i] ELSE Hole
           q == [i \in 1 .. n |-> e(i)]
<1>1. n \in Nat
  OBVIOUS
<1>2. \A i \in 1 .. n : e(i) \in Nat
  BY DEF Hole
<1> HIDE DEF n, e
<1>3. q \in Seq(Nat) /\ Len(q) = n
  BY <1>1, <1>2
<1>4. \A i \in 1 .. n : q[i] = e(i)
  OBVIOUS
<1>5. PutAt(t, p, line) = q
  BY DEF PutAt, n, e
<1> HIDE DEF q
<1> QED BY <1>3, <1>4, <1>5 DEF n, e

\* Where a line goes, and what the file is then.
LEMMA WriteIs ==
  ASSUME LogTypes, NEW w \in Writers, Handler(w), Write(w)
  PROVE  LET f == file[w]
             p == IF mode[w] = "appending" THEN Len(data[f]) ELSE pos[Position(w)]
         IN  /\ f \in Files /\ f # NoFile /\ p \in Nat /\ mode[w] \in Streams
             /\ data' = [data EXCEPT ![f] = PutAt(data[f], p, written + 1)]
             /\ pos' = IF mode[w] = "appending" THEN pos ELSE [pos EXCEPT ![Position(w)] = p + 1]
             /\ Position(w) \in Writers \cup {Inheritance}
<1>1. mode[w] \in Streams /\ file[w] # NoFile /\ file[w] \in Files
  <2>1. mode[w] \in Modes /\ file[w] \in Files \cup {NoFile}
    BY DEF LogTypes
  <2>2. mode[w] # "none" /\ mode[w] # "closed"
    BY DEF Write, Handler, Rotating
  <2>3. mode[w] \in Streams
    BY <2>1, <2>2 DEF Modes, Streams
  <2> QED BY <2>1, <2>3 DEF Handler
<1>2. Position(w) \in Writers \cup {Inheritance}
  BY DEF Position
<1>3. pos[Position(w)] \in Nat /\ Len(data[file[w]]) \in Nat
  BY <1>1, <1>2 DEF LogTypes
<1> QED BY <1>1, <1>2, <1>3 DEF Write

LEMMA WriteStep ==
  ASSUME LogTypes, NEW w \in Writers, Handler(w), Write(w)
  PROVE  LogTypes' /\ Handler(w)'
<1> DEFINE f == file[w]
           p == IF mode[w] = "appending" THEN Len(data[f]) ELSE pos[Position(w)]
<1>1. /\ f \in Files /\ p \in Nat /\ mode[w] \in Streams /\ f # NoFile
      /\ data' = [data EXCEPT ![f] = PutAt(data[f], p, written + 1)]
      /\ pos' = IF mode[w] = "appending" THEN pos ELSE [pos EXCEPT ![Position(w)] = p + 1]
      /\ Position(w) \in Writers \cup {Inheritance}
  BY WriteIs
<1> HIDE DEF f, p
<1>2. /\ count' = [count EXCEPT ![w] = @ + 1] /\ written' = written + 1
      /\ pc' = [pc EXCEPT ![w] = "idle"] /\ then' = [then EXCEPT ![w] = "idle"]
      /\ UNCHANGED <<path, index, mode, file, next, cuts, purged>>
  BY DEF Write
<1>3. data' \in [Files -> Seq(Nat)]
  <2>1. PutAt(data[f], p, written + 1) \in Seq(Nat)
    BY <1>1, PutIs DEF LogTypes
  <2> QED BY <1>1, <2>1 DEF LogTypes
<1>4. pos' \in [Writers \cup {Inheritance} -> Nat]
  BY <1>1 DEF LogTypes
<1>5. LogTypes'
  <2>1. count' \in [Writers -> Nat] /\ written' \in Nat
    BY <1>2 DEF LogTypes
  <2>2. pc' \in [Writers -> Steps] /\ then' \in [Writers -> {"idle", "write"}]
    BY <1>2 DEF LogTypes, Steps
  <2> QED BY <1>2, <1>3, <1>4, <2>1, <2>2 DEF LogTypes
<1>6. pc'[w] = "idle" /\ mode'[w] \in Streams /\ file'[w] = file[w] /\ file[w] # NoFile
  BY <1>1, <1>2 DEF LogTypes, f
<1>7. index'[w] = index[w] /\ next'[w] = next[w] /\ pc[w] = "write"
  BY <1>2 DEF Write
<1>8. index[w] <= MaxFiles + cuts /\ (next[w] = 2 \/ next[w] \in 2 .. MaxFiles)
  BY <1>7, Sizes0 DEF Handler, LogTypes
<1>9. index'[w] <= MaxFiles + cuts' + (IF pc'[w] \in {"unlink", "shift"} THEN 1 ELSE 0)
  BY <1>2, <1>6, <1>7, <1>8, Sizes0 DEF LogTypes
<1> QED BY <1>5, <1>6, <1>7, <1>8, <1>9 DEF Handler, Rotating, Streams

LEMMA DiscardStep ==
  ASSUME LogTypes, NEW w \in Writers, Handler(w), Discard(w)
  PROVE  LogTypes' /\ Handler(w)'
<1>1. LogTypes'
  BY DEF Discard, LogTypes, Steps
<1>2. /\ pc[w] = "write" /\ pc'[w] = "idle" /\ mode[w] = "none"
      /\ UNCHANGED <<mode, file, index, count, next, cuts>>
  BY DEF Discard, LogTypes
<1> QED BY <1>1, <1>2 DEF Handler, Rotating, Full

LEMMA RotateStep ==
  ASSUME LogTypes, NEW w \in Writers, Handler(w), Rotate(w)
  PROVE  LogTypes' /\ Handler(w)'
<1>1. /\ pc[w] = "rotate" /\ UNCHANGED <<path, data, count, pos, then, next, written, cuts, purged>>
      /\ mode' = [mode EXCEPT ![w] = IF @ = "none" THEN @ ELSE "closed"]
      /\ file' = [file EXCEPT ![w] = NoFile]
      /\ index' = [index EXCEPT ![w] = @ + 1]
      /\ pc' = [pc EXCEPT ![w] = IF index'[w] > MaxFiles THEN "unlink" ELSE "open"]
  BY DEF Rotate
<1>2. LogTypes'
  BY <1>1 DEF LogTypes, Steps, Modes
<1>3. /\ index'[w] = index[w] + 1 /\ index[w] \in Nat /\ index[w] <= MaxFiles + cuts
      /\ cuts \in Nat
  BY <1>1, Sizes0 DEF LogTypes, Handler
<1>4. /\ mode'[w] = IF mode[w] = "none" THEN "none" ELSE "closed"
      /\ file'[w] = NoFile
      /\ pc'[w] = IF index'[w] > MaxFiles THEN "unlink" ELSE "open"
  BY <1>1 DEF LogTypes
<1>5. Full(count[w])' <=> Full(count[w])
  BY <1>1 DEF Full
<1> QED BY <1>1, <1>2, <1>3, <1>4, <1>5, Sizes0 DEF Handler, Rotating, Streams, Paths

LEMMA UnlinkStep ==
  ASSUME LogTypes, NEW w \in Writers, Handler(w), Unlink(w)
  PROVE  LogTypes' /\ Handler(w)'
<1>1. /\ pc[w] = "unlink" /\ UNCHANGED <<data, count, mode, file, pos, then, written, cuts>>
      /\ path' = [path EXCEPT ![1] = NoFile] /\ purged' = TRUE
      /\ next' = [next EXCEPT ![w] = 2]
      /\ pc' = [pc EXCEPT ![w] = IF MaxFiles = 1 THEN "open" ELSE "shift"]
      /\ index' = [index EXCEPT ![w] = IF MaxFiles = 1 THEN 1 ELSE @]
  BY DEF Unlink
<1>2. LogTypes'
  BY <1>1 DEF LogTypes, Steps
<1>3. /\ index'[w] = IF MaxFiles = 1 THEN 1 ELSE index[w]
      /\ pc'[w] = IF MaxFiles = 1 THEN "open" ELSE "shift"
      /\ next'[w] = 2
      /\ index[w] \in Nat /\ index[w] <= MaxFiles + cuts + 1 /\ index[w] > MaxFiles /\ cuts \in Nat
  BY <1>1, Sizes0 DEF LogTypes, Handler
<1>4. Full(count[w])' <=> Full(count[w])
  BY <1>1 DEF Full
<1> QED BY <1>1, <1>2, <1>3, <1>4, Sizes0 DEF Handler, Rotating, Streams, Paths

LEMMA ShiftStep ==
  ASSUME LogTypes, NEW w \in Writers, Handler(w), Shift(w)
  PROVE  LogTypes' /\ Handler(w)'
<1> DEFINE k == next[w]
<1>1. /\ pc[w] = "shift" /\ UNCHANGED <<data, count, mode, file, pos, then, written, cuts, purged>>
      /\ path' = IF path[k] = NoFile THEN path
                 ELSE [path EXCEPT ![k - 1] = path[k], ![k] = NoFile]
      /\ next' = [next EXCEPT ![w] = IF k = MaxFiles THEN 2 ELSE k + 1]
      /\ pc' = [pc EXCEPT ![w] = IF k = MaxFiles THEN "open" ELSE "shift"]
      /\ index' = [index EXCEPT ![w] = IF k = MaxFiles THEN MaxFiles ELSE @]
  BY DEF Shift
<1>2. k \in 2 .. MaxFiles /\ k \in Paths /\ k - 1 \in Paths
  <2>1. k \in 2 .. MaxFiles
    BY <1>1 DEF Handler
  <2> HIDE DEF k
  <2> QED BY <2>1, Sizes0 DEF Paths
<1> HIDE DEF k
<1>3. LogTypes'
  <2>1. path' \in [Paths -> Files \cup {NoFile}]
    BY <1>1, <1>2 DEF LogTypes
  <2>2. next' \in [Writers -> Nat] /\ index' \in [Writers -> Nat]
    BY <1>1, <1>2, Sizes0 DEF LogTypes
  <2>3. pc' \in [Writers -> Steps]
    BY <1>1 DEF LogTypes, Steps
  <2> QED BY <1>1, <2>1, <2>2, <2>3 DEF LogTypes
<1>4. /\ index'[w] = IF k = MaxFiles THEN MaxFiles ELSE index[w]
      /\ pc'[w] = IF k = MaxFiles THEN "open" ELSE "shift"
      /\ next'[w] = IF k = MaxFiles THEN 2 ELSE k + 1
      /\ index[w] \in Nat /\ index[w] <= MaxFiles + cuts + 1 /\ index[w] > MaxFiles /\ cuts \in Nat
  BY <1>1, Sizes0 DEF LogTypes, Handler
<1>5. Full(count[w])' <=> Full(count[w])
  BY <1>1 DEF Full
<1> QED BY <1>1, <1>2, <1>3, <1>4, <1>5, Sizes0 DEF Handler, Rotating, Streams, Paths

\* The file that a handler opens.
LEMMA OpenIs ==
  ASSUME LogTypes, NEW w \in Writers, Handler(w), Open(w)
  PROVE  LET i == index[w]
             f == IF path[i] = NoFile THEN Min(Free) ELSE path[i]
         IN  /\ i \in Paths /\ f \in Files /\ f # NoFile
             /\ path[i] = NoFile => f \in Free
             /\ path' = [path EXCEPT ![i] = f] /\ data' = [data EXCEPT ![f] = <<>>]
             /\ file' = [file EXCEPT ![w] = f]
<1>1. pc[w] = "open" /\ index[w] \in Paths
  BY DEF Open, Handler
<1>2. path[index[w]] \in Files \cup {NoFile}
  BY <1>1 DEF LogTypes
<1>3. path[index[w]] = NoFile => Min(Free) \in Free
  BY <1>1, FreeThere
<1>4. \A f \in Files : f # NoFile
  BY DEF Files, NoFile
<1>5. Free \subseteq Files
  BY DEF Free
<1> QED BY <1>1, <1>2, <1>3, <1>4, <1>5 DEF Open

LEMMA OpenStep ==
  ASSUME LogTypes, NEW w \in Writers, Handler(w), Open(w)
  PROVE  LogTypes' /\ Handler(w)'
<1> DEFINE i == index[w]
           f == IF path[i] = NoFile THEN Min(Free) ELSE path[i]
<1>1. /\ i \in Paths /\ f \in Files /\ f # NoFile
      /\ path' = [path EXCEPT ![i] = f] /\ data' = [data EXCEPT ![f] = <<>>]
      /\ file' = [file EXCEPT ![w] = f]
  BY OpenIs
<1> HIDE DEF f, i
<1>2. /\ pc[w] = "open" /\ UNCHANGED <<index, then, next, written, cuts, purged>>
      /\ mode' = [mode EXCEPT ![w] = "own"] /\ pos' = [pos EXCEPT ![w] = 0]
      /\ count' = [count EXCEPT ![w] = 0] /\ pc' = [pc EXCEPT ![w] = then[w]]
  BY DEF Open
<1>3. LogTypes'
  <2>1. path' \in [Paths -> Files \cup {NoFile}] /\ data' \in [Files -> Seq(Nat)]
        /\ file' \in [Writers -> Files \cup {NoFile}]
    BY <1>1 DEF LogTypes
  <2>2. then[w] \in Steps
    BY DEF LogTypes, Steps
  <2>3. /\ mode' \in [Writers -> Modes] /\ pos' \in [Writers \cup {Inheritance} -> Nat]
        /\ count' \in [Writers -> Nat] /\ pc' \in [Writers -> Steps]
    BY <1>2, <2>2 DEF LogTypes, Modes
  <2> QED BY <1>2, <2>1, <2>3 DEF LogTypes
<1>4. /\ mode'[w] = "own" /\ file'[w] # NoFile /\ count'[w] = 0
      /\ pc'[w] \in {"idle", "write"} /\ index'[w] = index[w] /\ next'[w] = next[w]
  BY <1>1, <1>2 DEF LogTypes
<1>5. ~Full(0)
  BY Sizes0 DEF Full
<1>6. index[w] <= MaxFiles + cuts /\ (next[w] = 2 \/ next[w] \in 2 .. MaxFiles)
  BY <1>2, Sizes0 DEF Handler, LogTypes
<1>7. index'[w] <= MaxFiles + cuts' + (IF pc'[w] \in {"unlink", "shift"} THEN 1 ELSE 0)
  BY <1>2, <1>4, <1>6, Sizes0 DEF LogTypes
<1>8. ~Full(count[w])'
  BY <1>4, <1>5 DEF Full
<1> QED BY <1>3, <1>4, <1>6, <1>7, <1>8 DEF Handler, Rotating, Streams

LEMMA FailStep ==
  ASSUME LogTypes, NEW w \in Writers, Handler(w), RotationFails(w)
  PROVE  LogTypes' /\ Handler(w)' /\ cuts <= cuts'
<1>1. /\ pc[w] \in Rotating /\ cuts' = cuts + 1 /\ cuts < MaxCuts
      /\ pc' = [pc EXCEPT ![w] = IF then[w] = "write" THEN "idle" ELSE "off"]
      /\ next' = [next EXCEPT ![w] = 2] /\ then' = [then EXCEPT ![w] = "idle"]
      /\ UNCHANGED <<path, data, written, purged, file, pos>>
  BY DEF RotationFails, Rotating
<1>2. cuts \in Nat /\ cuts' \in 0 .. MaxCuts /\ index[w] \in Nat
  BY <1>1, Sizes0 DEF LogTypes
<1>3. file[w] = NoFile /\ index[w] <= MaxFiles + cuts + 1
  BY <1>1, <1>2, Sizes0 DEF Handler
<1>4. CASE then[w] = "write"
  <2>1. UNCHANGED <<index, count, mode>>
    BY <1>4 DEF RotationFails
  <2>2. LogTypes'
    BY <1>1, <1>2, <2>1 DEF LogTypes, Steps
  <2>3. pc'[w] = "idle" /\ next'[w] = 2 /\ file'[w] = NoFile
    BY <1>1, <1>3, <1>4 DEF LogTypes
  <2>4. mode[w] \notin Streams /\ (mode[w] # "none" => Full(count[w]))
    BY <1>1, <1>3 DEF Handler
  <2>5. Full(count[w])' <=> Full(count[w])
    BY <2>1 DEF Full
  <2> QED BY <1>1, <1>2, <1>3, <2>1, <2>2, <2>3, <2>4, <2>5, Sizes0 DEF Handler, Rotating
<1>5. CASE then[w] # "write"
  <2>1. /\ index' = [index EXCEPT ![w] = 0] /\ count' = [count EXCEPT ![w] = 0]
        /\ mode' = [mode EXCEPT ![w] = "none"]
    BY <1>5 DEF RotationFails
  <2>2. LogTypes'
    BY <1>1, <1>2, <2>1 DEF LogTypes, Steps, Modes
  <2>3. /\ pc'[w] = "off" /\ next'[w] = 2 /\ file'[w] = NoFile /\ mode'[w] = "none"
        /\ index'[w] = 0
    BY <1>1, <1>3, <1>5, <2>1 DEF LogTypes
  <2> QED BY <1>1, <1>2, <2>2, <2>3, Sizes0 DEF Handler, Rotating, Streams
<1> QED BY <1>4, <1>5

LEMMA CrashStep ==
  ASSUME LogTypes, NEW w \in Writers, Handler(w), Crash(w)
  PROVE  LogTypes' /\ Handler(w)' /\ cuts <= cuts'
<1>1. /\ cuts' = cuts + 1 /\ cuts < MaxCuts /\ pc' = [pc EXCEPT ![w] = "off"]
      /\ index' = [index EXCEPT ![w] = 0] /\ count' = [count EXCEPT ![w] = 0]
      /\ mode' = [mode EXCEPT ![w] = "none"] /\ file' = [file EXCEPT ![w] = NoFile]
      /\ pos' = [pos EXCEPT ![w] = 0] /\ next' = [next EXCEPT ![w] = 2]
      /\ then' = [then EXCEPT ![w] = "idle"] /\ UNCHANGED <<path, data, written, purged>>
  BY DEF Crash
<1>2. cuts \in Nat /\ cuts' \in 0 .. MaxCuts
  BY <1>1, Sizes0 DEF LogTypes
<1>3. LogTypes'
  BY <1>1, <1>2 DEF LogTypes, Steps, Modes
<1>4. /\ pc'[w] = "off" /\ next'[w] = 2 /\ file'[w] = NoFile /\ mode'[w] = "none"
      /\ index'[w] = 0
  BY <1>1 DEF LogTypes
<1> QED BY <1>1, <1>2, <1>3, <1>4, Sizes0 DEF Handler, Rotating, Streams

LEMMA CloseStep ==
  ASSUME LogTypes, NEW w \in Writers, Handler(w), Close(w)
  PROVE  LogTypes' /\ Handler(w)'
<1>1. /\ pc[w] = "idle" /\ mode' = [mode EXCEPT ![w] = "none"]
      /\ file' = [file EXCEPT ![w] = NoFile]
      /\ UNCHANGED <<path, data, index, count, pos, pc, then, next, written, cuts, purged>>
  BY DEF Close
<1>2. LogTypes'
  BY <1>1 DEF LogTypes, Modes
<1>3. file'[w] = NoFile /\ mode'[w] = "none"
  BY <1>1 DEF LogTypes
<1> QED BY <1>1, <1>2, <1>3 DEF Handler, Rotating, Streams, Full

-------------------------------------------------------------------------------
(* The invariant. *)

LEMMA HandlersStep ==
  ASSUME LogTypes, \A v \in Writers : Handler(v), NEW w \in Writers,
         HandlerStep(w) \/ RotationFails(w) \/ Crash(w) \/ Close(w)
  PROVE  LogTypes' /\ \A v \in Writers : Handler(v)'
<1>1. Handler(w)
  OBVIOUS
<1>2. LogTypes' /\ Handler(w)'
  BY <1>1, StartStep, EmitStep, WriteStep, DiscardStep, RotateStep, UnlinkStep, ShiftStep,
     OpenStep,
     FailStep, CrashStep, CloseStep DEF HandlerStep
<1>3. cuts <= cuts'
  <2>1. cuts \in Nat
    BY DEF LogTypes
  <2>2. cuts' = cuts \/ cuts' = cuts + 1
    BY DEF HandlerStep, Start, Emit, Write, Discard, Rotate, Unlink, Shift, Open,
       RotationFails, Crash,
           Close
  <2> QED BY <2>1, <2>2
<1>4. \A v \in Writers : v # w =>
        /\ mode'[v] = mode[v] /\ file'[v] = file[v] /\ pc'[v] = pc[v] /\ index'[v] = index[v]
        /\ count'[v] = count[v] /\ next'[v] = next[v]
  <2> TAKE v \in Writers
  <2> HAVE v # w
  <2> USE DEF LogTypes
  <2>1. CASE Start(w)
    BY <2>1 DEF Start
  <2>2. CASE Emit(w) \/ Discard(w)
    BY <2>2 DEF Emit, Discard
  <2>3. CASE Write(w)
    BY <2>3 DEF Write
  <2>4. CASE Rotate(w)
    BY <2>4 DEF Rotate
  <2>5. CASE Unlink(w)
    BY <2>5 DEF Unlink
  <2>6. CASE Shift(w)
    BY <2>6 DEF Shift
  <2>7. CASE Open(w)
    BY <2>7 DEF Open
  <2>8. CASE RotationFails(w)
    BY <2>8 DEF RotationFails
  <2>9. CASE Crash(w)
    BY <2>9 DEF Crash
  <2>10. CASE Close(w)
    BY <2>10 DEF Close
  <2> QED
    BY <2>1, <2>2, <2>3, <2>4, <2>5, <2>6, <2>7, <2>8, <2>9, <2>10 DEF HandlerStep
<1>5. \A v \in Writers : v # w => Handler(v)'
  BY <1>2, <1>3, <1>4, HandlerKept
<1> QED BY <1>2, <1>5

\* A line newer than those of a file is the newest of the file.
LEMMA PutKnown ==
  ASSUME NEW s \in Seq(Nat), NEW p \in Nat, NEW n \in Nat, \A i \in 1 .. Len(s) : s[i] <= n
  PROVE  \A i \in 1 .. Len(PutAt(s, p, n + 1)) : PutAt(s, p, n + 1)[i] <= n + 1
<1> DEFINE t == PutAt(s, p, n + 1)
<1>1. n + 1 \in Nat
  OBVIOUS
<1>2. /\ t \in Seq(Nat)
      /\ \A i \in 1 .. Len(t) :
           t[i] = IF i = p + 1 THEN n + 1 ELSE IF i <= Len(s) THEN s[i] ELSE Hole
  BY <1>1, PutIs
<1> HIDE DEF t
<1> SUFFICES ASSUME NEW i \in 1 .. Len(t) PROVE t[i] <= n + 1
  BY DEF t
<1>3. t[i] = IF i = p + 1 THEN n + 1 ELSE IF i <= Len(s) THEN s[i] ELSE Hole
  BY <1>2
<1>4. i \in Nat /\ i >= 1 /\ Len(s) \in Nat
  BY <1>2
<1>5. CASE i = p + 1
  BY <1>3, <1>5
<1>6. CASE i # p + 1 /\ i <= Len(s)
  <2>1. i \in 1 .. Len(s) /\ s[i] \in Nat /\ s[i] <= n
    BY <1>4, <1>6
  <2> QED BY <1>3, <1>6, <2>1
<1>7. CASE i # p + 1 /\ ~(i <= Len(s))
  BY <1>3, <1>7 DEF Hole
<1> QED BY <1>5, <1>6, <1>7

LEMMA LinesStep ==
  ASSUME LogTypes, LinesKnown, \A v \in Writers : Handler(v), NEW w \in Writers,
         HandlerStep(w) \/ RotationFails(w) \/ Crash(w) \/ Close(w)
  PROVE  LinesKnown'
<1>1. CASE Write(w)
  <2> DEFINE f == file[w]
             p == IF mode[w] = "appending" THEN Len(data[f]) ELSE pos[Position(w)]
             t == PutAt(data[f], p, written + 1)
  <2>1. f \in Files /\ p \in Nat /\ data' = [data EXCEPT ![f] = t]
    BY <1>1, WriteIs
  <2> HIDE DEF f, p
  <2>2. data[f] \in Seq(Nat) /\ written \in Nat /\ written' = written + 1
    BY <1>1, <2>1 DEF LogTypes, Write
  <2>3. \A i \in 1 .. Len(t) : t[i] <= written'
    <3>1. \A i \in 1 .. Len(data[f]) : data[f][i] <= written
      BY <2>1 DEF LinesKnown
    <3> QED BY <2>1, <2>2, <3>1, PutKnown
  <2> HIDE DEF t
  <2>4. \A g \in Files : \A i \in 1 .. Len(data'[g]) : data'[g][i] <= written'
    <3> TAKE g \in Files
    <3>1. CASE g = f
      BY <2>1, <2>3, <3>1 DEF LogTypes
    <3>2. CASE g # f
      <4>1. data'[g] = data[g] /\ data[g] \in Seq(Nat)
        BY <2>1, <3>2 DEF LogTypes
      <4>2. \A i \in 1 .. Len(data[g]) : data[g][i] \in Nat /\ data[g][i] <= written
        BY <4>1 DEF LinesKnown
      <4> QED BY <2>2, <4>1, <4>2
    <3> QED BY <3>1, <3>2
  <2> QED BY <2>4 DEF LinesKnown
<1>2. CASE Open(w)
  <2>1. PICK f \in Files : data' = [data EXCEPT ![f] = <<>>]
    BY <1>2, OpenIs
  <2>2. written' = written
    BY <1>2 DEF Open
  <2> QED BY <2>1, <2>2 DEF LinesKnown, LogTypes
<1>3. CASE UNCHANGED <<data, written>>
  BY <1>3 DEF LinesKnown
<1> QED
  BY <1>1, <1>2, <1>3
  DEF HandlerStep, Start, Emit, Discard, Rotate, Unlink, Shift, RotationFails, Crash, Close

\* What is read in a step of the follower.
LEMMA ReadIs ==
  ASSUME LogTypes, FollowerTypes, Read
  PROVE  LET i == Min(todo)
             text == data[path[i]]
         IN  /\ i \in todo /\ i \in Paths /\ \A j \in todo : i <= j
             /\ path[i] # NoFile =>
                  text \in Seq(Nat) /\ SubSeq(text, seen[i] + 1, Len(text)) \in Seq(Nat)
<1> DEFINE i == Min(todo)
           text == data[path[i]]
<1>1. i \in todo /\ i \in Paths /\ \A j \in todo : i <= j
  <2>1. todo \subseteq Nat /\ todo # {}
    BY DEF Read, FollowerTypes, Paths
  <2> QED BY <2>1, MinIs DEF FollowerTypes
<1>2. ASSUME path[i] # NoFile
      PROVE  text \in Seq(Nat) /\ SubSeq(text, seen[i] + 1, Len(text)) \in Seq(Nat)
  <2> HIDE DEF i
  <2>1. text \in Seq(Nat)
    BY <1>1, <1>2 DEF LogTypes
  <2>2. seen[i] + 1 \in Nat \ {0}
    BY <1>1 DEF FollowerTypes
  <2> HIDE DEF text
  <2>3. \A j \in seen[i] + 1 .. Len(text) : text[j] \in Nat
    BY <2>1, <2>2
  <2> QED BY <2>1, <2>2, <2>3, SubSeqProperties
<1> QED BY <1>1, <1>2

LEMMA FollowerTypesStep ==
  ASSUME LogTypes, FollowerTypes, FollowerStep
  PROVE  FollowerTypes'
<1>1. CASE Poll
  BY <1>1 DEF Poll, FollowerTypes, Existing
<1>2. CASE Read
  <2> DEFINE i == Min(todo)
             text == data[path[i]]
  <2>1. i \in Paths /\ (path[i] # NoFile => text \in Seq(Nat)
                          /\ SubSeq(text, seen[i] + 1, Len(text)) \in Seq(Nat))
    BY <1>2, ReadIs
  <2>2. todo' \subseteq Paths
    BY <1>2 DEF Read, FollowerTypes
  <2>3. CASE path[i] = NoFile
    BY <1>2, <2>2, <2>3 DEF Read, FollowerTypes
  <2>4. CASE path[i] # NoFile
    <3>1. /\ shown' = shown \o SubSeq(text, seen[i] + 1, Len(text))
          /\ seen' = [seen EXCEPT ![i] = Len(text)] /\ UNCHANGED fpc
      BY <1>2, <2>4 DEF Read
    <3> HIDE DEF text, i
    <3>2. shown' \in Seq(Nat)
      BY <2>1, <2>4, <3>1, ConcatProperties DEF FollowerTypes
    <3>3. seen' \in [Paths -> Nat]
      BY <2>1, <2>4, <3>1 DEF FollowerTypes
    <3> QED BY <2>2, <3>1, <3>2, <3>3 DEF FollowerTypes
  <2> QED BY <2>3, <2>4
<1>3. CASE EndPass
  BY <1>3 DEF EndPass, FollowerTypes
<1> QED BY <1>1, <1>2, <1>3 DEF FollowerStep

LEMMA LogStep ==
  ASSUME LogInv, [Next]_vars
  PROVE  LogInv'
<1>1. LogTypes /\ FollowerTypes /\ LinesKnown /\ \A v \in Writers : Handler(v)
  BY DEF LogInv
<1>2. CASE \E w \in Writers : HandlerStep(w) \/ RotationFails(w) \/ Crash(w) \/ Close(w)
  <2>1. PICK w \in Writers : HandlerStep(w) \/ RotationFails(w) \/ Crash(w) \/ Close(w)
    BY <1>2
  <2>2. LogTypes' /\ \A v \in Writers : Handler(v)'
    BY <1>1, <2>1, HandlersStep
  <2>3. LinesKnown'
    BY <1>1, <2>1, LinesStep
  <2>4. UNCHANGED followVars
    BY <2>1 DEF HandlerStep, Start, Emit, Write, Discard, Rotate, Unlink, Shift, Open,
       RotationFails,
                Crash, Close
  <2>5. FollowerTypes'
    BY <1>1, <2>4 DEF FollowerTypes
  <2> QED BY <2>2, <2>3, <2>5 DEF LogInv
<1>3. CASE FollowerStep \/ UNCHANGED vars
  <2>1. UNCHANGED <<diskVars, handlerVars, stepVars, historyVars>>
    BY <1>3 DEF FollowerStep, Poll, Read, EndPass
  <2>2. LogTypes' /\ LinesKnown'
    BY <1>1, <2>1 DEF LogTypes, LinesKnown
  <2>3. \A v \in Writers : Handler(v)'
    BY <1>1, <2>1, Zenon DEF Handler, Full
  <2>4. FollowerTypes'
    <3>1. CASE FollowerStep
      BY <1>1, <3>1, FollowerTypesStep
    <3>2. CASE UNCHANGED vars
      BY <1>1, <3>2 DEF FollowerTypes
    <3> QED BY <1>3, <3>1, <3>2
  <2> QED BY <2>2, <2>3, <2>4 DEF LogInv
<1> QED BY <1>2, <1>3 DEF Next

LEMMA LogInit == Init => LogInv
<1> SUFFICES ASSUME Init PROVE LogInv
  OBVIOUS
<1>1. 1 \in Files /\ 1 \in Paths /\ 1 # NoFile
  BY Sizes0, FS_EmptySet, LogsAssumption DEF Files, Paths, NoFile
<1>2. LogTypes
  <2>1. path \in [Paths -> Files \cup {NoFile}] /\ data \in [Files -> Seq(Nat)]
    BY <1>1 DEF Init
  <2>2. /\ index \in [Writers -> Nat] /\ count \in [Writers -> Nat] /\ next \in [Writers -> Nat]
        /\ pos \in [Writers \cup {Inheritance} -> Nat]
    BY DEF Init
  <2>3. mode \in [Writers -> Modes] /\ file \in [Writers -> Files \cup {NoFile}]
    BY <1>1 DEF Init, Modes
  <2>4. pc \in [Writers -> Steps] /\ then \in [Writers -> {"idle", "write"}]
    BY DEF Init, Steps
  <2>5. written \in Nat /\ cuts \in 0 .. MaxCuts /\ purged \in BOOLEAN
    <3>1. written = 0 /\ cuts = 0 /\ purged = FALSE
      BY DEF Init
    <3>2. 0 \in 0 .. MaxCuts
      BY Sizes0
    <3> QED BY <3>1, <3>2
  <2> QED BY <2>1, <2>2, <2>3, <2>4, <2>5 DEF LogTypes
<1>3. FollowerTypes
  BY DEF Init, FollowerTypes
<1>4. LinesKnown
  BY DEF Init, LinesKnown
<1>5. ASSUME NEW w \in Writers PROVE Handler(w)
  <2>1. ~Full(0)
    BY Sizes0 DEF Full
  <2>2. /\ pc[w] = IF Inherited THEN "idle" ELSE "off"
        /\ mode[w] = IF Inherited THEN "inherited" ELSE "none"
        /\ file[w] = IF Inherited THEN 1 ELSE NoFile
        /\ index[w] = IF Inherited THEN 1 ELSE 0
        /\ count[w] = 0 /\ next[w] = 2 /\ cuts = 0
    BY <1>5 DEF Init
  <2> QED BY <1>1, <2>1, <2>2, Sizes0 DEF Handler, Rotating, Streams
<1> QED BY <1>2, <1>3, <1>4, <1>5 DEF LogInv

\* The invariant holds whatever processes write, fail and start again.
THEOREM Logging == Spec => []LogInv
<1>1. LogInv /\ [Next]_vars => LogInv'
  BY LogStep
<1> QED BY LogInit, <1>1, PTL DEF Spec

\* The variables keep their types: no rotation leads to a file beyond the last.
THEOREM LogTypesHold == Spec => []TypeOK
BY Logging, InvTypes, PTL

-------------------------------------------------------------------------------
(* The texts of the files, oldest first, as one text. *)

\* T[1], T[2], ... hold the lines up to n in order and with none missing, each
\* T[i] those after e[i - 1] up to e[i].
Numbered(T, e, n) ==
  /\ T \in [Paths -> Seq(Nat)] /\ e \in [0 .. MaxFiles -> Nat] /\ e[MaxFiles] = n
  /\ \A i \in Paths : /\ Len(T[i]) = e[i] - e[i - 1]
                      /\ \A j \in 1 .. Len(T[i]) : T[i][j] = e[i - 1] + j

LEMMA Ends ==
  ASSUME NEW T, NEW e, NEW n, Numbered(T, e, n)
  PROVE  /\ n \in Nat /\ e[0] \in Nat
         /\ \A i \in Paths : /\ i \in 0 .. MaxFiles /\ i - 1 \in 0 .. MaxFiles /\ i \in Nat
                             /\ e[i] \in Nat /\ e[i - 1] \in Nat /\ e[i - 1] <= e[i]
                             /\ T[i] \in Seq(Nat) /\ Len(T[i]) \in Nat
<1>1. 0 \in 0 .. MaxFiles /\ MaxFiles \in 0 .. MaxFiles
  BY Sizes0
<1>2. n \in Nat /\ e[0] \in Nat
  BY <1>1 DEF Numbered
<1>3. ASSUME NEW i \in Paths
      PROVE  /\ i \in 0 .. MaxFiles /\ i - 1 \in 0 .. MaxFiles /\ i \in Nat
             /\ e[i] \in Nat /\ e[i - 1] \in Nat /\ e[i - 1] <= e[i]
             /\ T[i] \in Seq(Nat) /\ Len(T[i]) \in Nat
  <2>1. i \in 0 .. MaxFiles /\ i - 1 \in 0 .. MaxFiles /\ i \in Nat
    BY Sizes0 DEF Paths
  <2>2. e[i] \in Nat /\ e[i - 1] \in Nat
    BY <2>1 DEF Numbered
  <2>3. T[i] \in Seq(Nat)
    BY DEF Numbered
  <2>4. Len(T[i]) \in Nat
    BY <2>3
  <2>5. Len(T[i]) = e[i] - e[i - 1]
    BY DEF Numbered
  <2> QED BY <2>1, <2>2, <2>3, <2>4, <2>5
<1> QED BY <1>2, <1>3

\* The last text that holds anything ends with line n.
LEMMA LastEnds ==
  ASSUME NEW T, NEW e, NEW n, Numbered(T, e, n), NEW k \in 0 .. MaxFiles,
         \A j \in Paths : j > k => T[j] = <<>>
  PROVE  \A i \in 0 .. MaxFiles : i >= k => e[i] = n
<1> DEFINE S == {m \in Nat : m <= MaxFiles - k => e[MaxFiles - m] = n}
<1>1. 0 \in S
  BY Sizes0 DEF Numbered
<1>2. \A m \in S : m + 1 \in S
  <2> TAKE m \in S
  <2> SUFFICES ASSUME m + 1 <= MaxFiles - k PROVE e[MaxFiles - (m + 1)] = n
    OBVIOUS
  <2>1. m \in Nat /\ e[MaxFiles - m] = n
    BY Sizes0
  <2> DEFINE j == MaxFiles - m
  <2>2. j \in Paths /\ j > k /\ j - 1 = MaxFiles - (m + 1)
    BY <2>1, Sizes0 DEF Paths
  <2> HIDE DEF j
  <2>3. Len(T[j]) = e[j] - e[j - 1] /\ Len(T[j]) = 0
    BY <2>2 DEF Numbered
  <2>4. e[j] \in Nat /\ e[j - 1] \in Nat
    BY <2>2, Ends
  <2>5. e[j - 1] = e[j]
    BY <2>3, <2>4
  <2>6. e[j] = n
    BY <2>1 DEF j
  <2> QED BY <2>2, <2>5, <2>6
<1> HIDE DEF S
<1>3. S = Nat
  <2>1. S \in SUBSET Nat
    BY DEF S
  <2> QED BY <1>1, <1>2, <2>1, SetInduction
<1> TAKE i \in 0 .. MaxFiles
<1> SUFFICES ASSUME i >= k PROVE e[i] = n
  OBVIOUS
<1>4. MaxFiles - i \in S /\ MaxFiles - i <= MaxFiles - k /\ MaxFiles - (MaxFiles - i) = i
  BY <1>3, Sizes0
<1> QED BY <1>4 DEF S

\* A line more in the last text that holds anything.
LEMMA NumberedMore ==
  ASSUME NEW T, NEW e, NEW n, Numbered(T, e, n), NEW k \in Paths,
         \A j \in Paths : j > k => T[j] = <<>>
  PROVE  Numbered([T EXCEPT ![k] = Append(T[k], n + 1)],
                  [i \in 0 .. MaxFiles |-> IF i >= k THEN n + 1 ELSE e[i]], n + 1)
<1> DEFINE U == [T EXCEPT ![k] = Append(T[k], n + 1)]
           d == [i \in 0 .. MaxFiles |-> IF i >= k THEN n + 1 ELSE e[i]]
<1>1. /\ n \in Nat /\ k \in Nat /\ k \in 0 .. MaxFiles /\ k - 1 \in 0 .. MaxFiles /\ k <= MaxFiles
      /\ MaxFiles \in 0 .. MaxFiles
  BY Ends, Sizes0 DEF Paths
<1>2. \A i \in 0 .. MaxFiles : i >= k => e[i] = n
  BY <1>1, LastEnds
<1>3. Append(T[k], n + 1) \in Seq(Nat)
  BY Ends, AppendProperties
<1>4. U \in [Paths -> Seq(Nat)]
  BY <1>3 DEF Numbered
<1>5. d \in [0 .. MaxFiles -> Nat] /\ d[MaxFiles] = n + 1
  BY <1>1 DEF Numbered
<1>6. ASSUME NEW i \in Paths
      PROVE  Len(U[i]) = d[i] - d[i - 1] /\ \A j \in 1 .. Len(U[i]) : U[i][j] = d[i - 1] + j
  <2>1. /\ i \in 0 .. MaxFiles /\ i - 1 \in 0 .. MaxFiles /\ i \in Nat
        /\ e[i] \in Nat /\ e[i - 1] \in Nat /\ T[i] \in Seq(Nat) /\ Len(T[i]) \in Nat
    BY Ends
  <2>2. Len(T[i]) = e[i] - e[i - 1] /\ \A j \in 1 .. Len(T[i]) : T[i][j] = e[i - 1] + j
    BY DEF Numbered
  <2>3. /\ d[i] = (IF i >= k THEN n + 1 ELSE e[i])
        /\ d[i - 1] = (IF i - 1 >= k THEN n + 1 ELSE e[i - 1])
    BY <2>1
  <2>4. U[i] = IF i = k THEN Append(T[k], n + 1) ELSE T[i]
    BY DEF Numbered
  <2> HIDE DEF U, d
  <2>5. CASE i < k
    BY SMTT(60), <1>1, <2>1, <2>2, <2>3, <2>4, <2>5
  <2>6. CASE i = k
    <3>1. /\ Len(U[i]) = Len(T[k]) + 1 /\ U[i][Len(T[k]) + 1] = n + 1
          /\ \A j \in 1 .. Len(T[k]) : U[i][j] = T[k][j]
      BY <1>1, <2>1, <2>4, <2>6, AppendProperties
    <3>2. e[k] = n /\ d[i] = n + 1 /\ d[i - 1] = e[k - 1]
      BY <1>1, <1>2, <2>1, <2>3, <2>6
    <3> DEFINE a == e[k - 1]
               l == Len(T[k])
    <3>3. a \in Nat /\ l \in Nat /\ l = n - a /\ d[i - 1] = a
      BY <2>1, <2>2, <2>6, <3>2
    <3>4. Len(U[i]) = l + 1
      BY <3>1
    <3>5. U[i][l + 1] = n + 1
      BY <3>1
    <3> HIDE DEF a, l
    <3>6. Len(U[i]) = d[i] - d[i - 1]
      BY <1>1, <3>2, <3>3, <3>4
    <3>7. ASSUME NEW j \in 1 .. Len(U[i]) PROVE U[i][j] = d[i - 1] + j
      <4>1. CASE j = l + 1
        <5>1. n + 1 = a + (l + 1)
          BY <1>1, <3>3
        <5> QED BY <3>3, <3>5, <4>1, <5>1
      <4>2. CASE j # l + 1
        <5>1. j \in 1 .. l
          BY <3>3, <3>4, <4>2
        <5> QED BY <2>2, <2>6, <3>1, <3>3, <5>1 DEF a, l
      <4> QED BY <4>1, <4>2
    <3> QED BY <3>6, <3>7
  <2>7. CASE i > k
    <3>1. U[i] = <<>> /\ Len(U[i]) = 0
      BY <1>1, <2>1, <2>4, <2>7
    <3>2. d[i] = n + 1 /\ d[i - 1] = n + 1
      BY <1>1, <2>1, <2>3, <2>7
    <3> QED BY <1>1, <3>1, <3>2
  <2> QED BY <1>1, <2>1, <2>5, <2>6, <2>7
<1> HIDE DEF U, d
<1>7. Numbered(U, d, n + 1)
  BY <1>4, <1>5, <1>6 DEF Numbered
<1> QED BY <1>7 DEF U, d

\* A text that moves to an empty place before it.
LEMMA NumberedMoved ==
  ASSUME NEW T, NEW e, NEW n, Numbered(T, e, n), NEW k \in 2 .. MaxFiles, T[k - 1] = <<>>
  PROVE  \E d : Numbered([T EXCEPT ![k - 1] = T[k], ![k] = <<>>], d, n)
<1> DEFINE U == [T EXCEPT ![k - 1] = T[k], ![k] = <<>>]
           d == [e EXCEPT ![k - 1] = e[k]]
<1>1. /\ k \in Paths /\ k - 1 \in Paths /\ k \in Nat /\ k # k - 1
      /\ k - 1 # MaxFiles /\ k - 1 \in 0 .. MaxFiles
  BY Sizes0 DEF Paths
<1>2. U \in [Paths -> Seq(Nat)]
  BY <1>1 DEF Numbered
<1>3. d \in [0 .. MaxFiles -> Nat] /\ d[MaxFiles] = n
  BY SMTT(60), <1>1, Ends, Sizes0 DEF Numbered
<1>4. ASSUME NEW i \in Paths
      PROVE  Len(U[i]) = d[i] - d[i - 1] /\ \A j \in 1 .. Len(U[i]) : U[i][j] = d[i - 1] + j
  <2>1. /\ i \in 0 .. MaxFiles /\ i - 1 \in 0 .. MaxFiles /\ i \in Nat
        /\ e[i] \in Nat /\ e[i - 1] \in Nat /\ T[i] \in Seq(Nat) /\ Len(T[i]) \in Nat
    BY Ends
  <2>2. Len(T[i]) = e[i] - e[i - 1] /\ \A j \in 1 .. Len(T[i]) : T[i][j] = e[i - 1] + j
    BY DEF Numbered
  <2>3. d[i] = (IF i = k - 1 THEN e[k] ELSE e[i]) /\ d[i - 1] = (IF i = k THEN e[k] ELSE e[i - 1])
    BY <1>1, <2>1 DEF Numbered
  <2>4. U[i] = IF i = k - 1 THEN T[k] ELSE IF i = k THEN <<>> ELSE T[i]
    BY <1>1 DEF Numbered
  <2> HIDE DEF U, d
  <2>5. CASE i = k
    <3>1. e[k] \in Nat /\ U[i] = <<>> /\ d[i] = e[k] /\ d[i - 1] = e[k]
      BY <1>1, <2>1, <2>3, <2>4, <2>5
    <3> QED BY <3>1
  <2>6. CASE i = k - 1
    <3>1. /\ Len(T[k]) = e[k] - e[k - 1]
          /\ \A j \in 1 .. Len(T[k]) : T[k][j] = e[k - 1] + j
      BY <1>1 DEF Numbered
    <3>2. e[i] = e[i - 1]
      BY <2>1, <2>2, <2>6
    <3>3. U[i] = T[k] /\ d[i] = e[k] /\ d[i - 1] = e[k - 1]
      BY <1>1, <2>1, <2>3, <2>4, <2>6, <3>2
    <3> QED BY <3>1, <3>3
  <2>7. CASE i # k /\ i # k - 1
    BY <2>2, <2>3, <2>4, <2>7
  <2> QED BY <2>5, <2>6, <2>7
<1> HIDE DEF U, d
<1>5. Numbered(U, d, n)
  BY <1>2, <1>3, <1>4 DEF Numbered
<1> QED BY <1>5 DEF U

\* The first text is dropped.
LEMMA NumberedLess ==
  ASSUME NEW T, NEW e, NEW n, Numbered(T, e, n)
  PROVE  \E d : Numbered([T EXCEPT ![1] = <<>>], d, n)
<1> DEFINE U == [T EXCEPT ![1] = <<>>]
           d == [e EXCEPT ![0] = e[1]]
<1>1. 1 \in Paths /\ MaxFiles # 0 /\ 0 \in 0 .. MaxFiles
  BY Sizes0 DEF Paths
<1>2. U \in [Paths -> Seq(Nat)]
  BY <1>1 DEF Numbered
<1>3. d \in [0 .. MaxFiles -> Nat] /\ d[MaxFiles] = n
  BY <1>1, Ends, Sizes0 DEF Numbered
<1>4. ASSUME NEW i \in Paths
      PROVE  Len(U[i]) = d[i] - d[i - 1] /\ \A j \in 1 .. Len(U[i]) : U[i][j] = d[i - 1] + j
  <2>1. /\ i \in 0 .. MaxFiles /\ i - 1 \in 0 .. MaxFiles /\ i \in Nat /\ i # 0
        /\ e[i] \in Nat /\ e[i - 1] \in Nat
    BY Ends DEF Paths
  <2>2. Len(T[i]) = e[i] - e[i - 1] /\ \A j \in 1 .. Len(T[i]) : T[i][j] = e[i - 1] + j
    BY DEF Numbered
  <2>3. d[i] = e[i] /\ d[i - 1] = (IF i = 1 THEN e[1] ELSE e[i - 1])
    BY <1>1, <2>1 DEF Numbered
  <2>4. U[i] = IF i = 1 THEN <<>> ELSE T[i]
    BY <1>1 DEF Numbered
  <2> HIDE DEF U, d
  <2>5. CASE i = 1
    <3>1. e[1] \in Nat /\ U[i] = <<>> /\ d[i] = e[1] /\ d[i - 1] = e[1]
      BY <2>1, <2>3, <2>4, <2>5
    <3> QED BY <3>1
  <2>6. CASE i # 1
    BY <2>2, <2>3, <2>4, <2>6
  <2> QED BY <2>5, <2>6
<1> HIDE DEF U, d
<1>5. Numbered(U, d, n)
  BY <1>2, <1>3, <1>4 DEF Numbered
<1> QED BY <1>5 DEF U

\* What FlattenSeq computes for the first i texts, from what g says of fewer.
Flat(T, g, i) == IF i = 1 THEN T[i] ELSE g[i - 1] \o T[i]

LEMMA FlatExists ==
  ASSUME NEW T, NEW n \in Nat
  PROVE  \E g : g = [i \in 1 .. n |-> Flat(T, g, i)]
<1> DEFINE S == {m \in Nat : \E g : g = [i \in 1 .. m |-> Flat(T, g, i)]}
<1>1. 0 \in S
  <2> DEFINE g == [i \in 1 .. 0 |-> <<>>]
  <2>1. g = [i \in 1 .. 0 |-> Flat(T, g, i)]
    OBVIOUS
  <2> QED BY <2>1
<1>2. \A m \in S : m + 1 \in S
  <2> TAKE m \in S
  <2>1. PICK g : g = [i \in 1 .. m |-> Flat(T, g, i)]
    OBVIOUS
  <2> DEFINE h == [i \in 1 .. m + 1 |-> IF i = m + 1 THEN Flat(T, g, m + 1) ELSE g[i]]
  <2>2. \A i \in 1 .. m + 1 : h[i] = Flat(T, h, i)
    <3> TAKE i \in 1 .. m + 1
    <3>1. CASE i = 1
      <4>1. h[i] = Flat(T, g, 1)
        BY <2>1, <3>1
      <4> QED BY <3>1, <4>1 DEF Flat
    <3>2. CASE i # 1
      <4>1. i - 1 \in 1 .. m /\ h[i - 1] = g[i - 1]
        BY <3>2
      <4>2. h[i] = Flat(T, g, i)
        <5>1. CASE i = m + 1
          BY <5>1
        <5>2. CASE i # m + 1
          <6>1. i \in 1 .. m /\ h[i] = g[i]
            BY <5>2
          <6>2. g[i] = Flat(T, g, i)
            BY <2>1, <6>1
          <6> QED BY <6>1, <6>2
        <5> QED BY <5>1, <5>2
      <4> QED BY <3>2, <4>1, <4>2 DEF Flat
    <3> QED BY <3>1, <3>2
  <2>3. h = [i \in 1 .. m + 1 |-> Flat(T, h, i)]
    BY <2>2
  <2> HIDE DEF h
  <2>4. \E x : x = [i \in 1 .. m + 1 |-> Flat(T, x, i)]
    BY <2>3
  <2> QED BY <2>4
<1>3. S \in SUBSET Nat
  OBVIOUS
<1> HIDE DEF S
<1>4. S = Nat
  BY <1>1, <1>2, <1>3, SetInduction
<1> QED BY <1>4 DEF S

\* Together the texts are the lines from the first to the last.
LEMMA NumberedFlat ==
  ASSUME NEW T, NEW e, NEW n, Numbered(T, e, n)
  PROVE  FlattenSeq(T) = [i \in 1 .. n - e[0] |-> e[0] + i] /\ n - e[0] \in Nat
<1> DEFINE f == CHOOSE g : g = [i \in 1 .. MaxFiles |-> Flat(T, g, i)]
           first == e[0]
           Good(m) == /\ first <= e[m] /\ f[m] \in Seq(Nat) /\ Len(f[m]) = e[m] - first
                      /\ \A i \in 1 .. Len(f[m]) : f[m][i] = first + i
           S == {m \in Nat : m + 1 <= MaxFiles => Good(m + 1)}
<1>1. first \in Nat /\ n \in Nat /\ 1 \in Paths /\ Paths = 1 .. MaxFiles
  BY Ends, Sizes0 DEF Paths
<1>2. T \in [1 .. MaxFiles -> Seq(Nat)]
  BY <1>1 DEF Numbered
<1>3. f = [i \in 1 .. MaxFiles |-> Flat(T, f, i)]
  <2>1. \E g : g = [i \in 1 .. MaxFiles |-> Flat(T, g, i)]
    BY Sizes0, FlatExists
  <2> QED BY <2>1
<1>4. FlattenSeq(T) = f[MaxFiles]
  <2>1. T \in Seq(Seq(Nat)) /\ Len(T) = MaxFiles /\ Len(T) # 0
    BY <1>2, Sizes0
  <2> QED BY <2>1 DEF FlattenSeq, Flat
<1> HIDE DEF f, first
<1>5. 0 \in S
  <2>1. f[1] = T[1]
    BY <1>1, <1>3 DEF Flat
  <2>2. /\ e[0] \in Nat /\ e[1] \in Nat /\ e[0] <= e[1] /\ T[1] \in Seq(Nat)
    <3>1. 1 - 1 = 0
      OBVIOUS
    <3> QED BY <1>1, <3>1, Ends
  <2>3. Len(T[1]) = e[1] - e[0] /\ \A j \in 1 .. Len(T[1]) : T[1][j] = e[0] + j
    <3>1. 1 - 1 = 0
      OBVIOUS
    <3> QED BY <1>1, <3>1 DEF Numbered
  <2>4. Good(1)
    BY <2>1, <2>2, <2>3 DEF first
  <2> QED BY <2>4
<1>6. \A m \in S : m + 1 \in S
  <2> TAKE m \in S
  <2> DEFINE k == m + 1
  <2> SUFFICES ASSUME k + 1 <= MaxFiles PROVE Good(k + 1)
    OBVIOUS
  <2>1. m \in Nat /\ k \in Nat /\ k >= 1 /\ k <= MaxFiles
    BY Sizes0
  <2>2. Good(k)
    BY <2>1
  <2> HIDE DEF k
  <2> DEFINE j == k + 1
             s == f[k]
             t == T[j]
  <2>3. j \in Paths /\ j - 1 = k /\ j # 1 /\ k \in Paths
    BY <2>1, <1>1, Sizes0
  <2>4. f[j] = s \o t
    <3>1. f[j] = Flat(T, f, j)
      BY <1>1, <1>3, <2>3
    <3> QED BY <2>3, <3>1 DEF Flat
  <2> DEFINE a == e[k]
             b == e[j]
  <2>5. a \in Nat /\ b \in Nat /\ a <= b /\ t \in Seq(Nat)
    BY <2>3, Ends
  <2>6. Len(t) = b - a /\ \A i \in 1 .. Len(t) : t[i] = a + i
    BY <2>3 DEF Numbered
  <2>7. /\ first <= a /\ s \in Seq(Nat) /\ Len(s) = a - first
        /\ \A i \in 1 .. Len(s) : s[i] = first + i
    BY <2>2
  <2> HIDE DEF s, t, a, b
  <2>8. /\ s \o t \in Seq(Nat) /\ Len(s \o t) = Len(s) + Len(t)
        /\ \A i \in 1 .. Len(s) + Len(t) :
             (s \o t)[i] = IF i <= Len(s) THEN s[i] ELSE t[i - Len(s)]
    BY <2>5, <2>7, ConcatProperties
  <2>9. first <= b /\ Len(s \o t) = b - first
    BY <1>1, <2>5, <2>6, <2>7, <2>8
  <2>10. ASSUME NEW i \in 1 .. Len(s \o t) PROVE (s \o t)[i] = first + i
    <3>1. i \in Nat /\ i >= 1 /\ i <= Len(s) + Len(t) /\ Len(s) \in Nat /\ Len(t) \in Nat
      BY <2>5, <2>7, <2>8
    <3>2. (s \o t)[i] = IF i <= Len(s) THEN s[i] ELSE t[i - Len(s)]
      BY <2>8
    <3>3. CASE i <= Len(s)
      <4>1. i \in 1 .. Len(s)
        BY <3>1, <3>3
      <4> QED BY <2>7, <3>2, <3>3, <4>1
    <3>4. CASE ~(i <= Len(s))
      <4>1. i - Len(s) \in 1 .. Len(t)
        BY <3>1, <3>4
      <4>2. (s \o t)[i] = a + (i - Len(s))
        BY <2>6, <3>2, <3>4, <4>1
      <4>3. a + (i - Len(s)) = first + i
        BY <1>1, <2>5, <2>7, <3>1
      <4> QED BY <4>2, <4>3
    <3> QED BY <3>3, <3>4
  <2>11. f[j] \in Seq(Nat) /\ Len(f[j]) = b - first /\ first <= b
         /\ \A i \in 1 .. Len(f[j]) : f[j][i] = first + i
    BY <2>4, <2>8, <2>9, <2>10
  <2> QED BY <2>11 DEF b
<1>7. S = Nat
  <2>1. S \in SUBSET Nat
    OBVIOUS
  <2> HIDE DEF S
  <2> QED BY <1>5, <1>6, <2>1, SetInduction
<1>8. Good(MaxFiles)
  <2> DEFINE m == MaxFiles - 1
  <2>1. m \in Nat /\ m + 1 = MaxFiles /\ m + 1 <= MaxFiles
    BY Sizes0
  <2> HIDE DEF m
  <2>2. m + 1 <= MaxFiles => Good(m + 1)
    BY <1>7, <2>1
  <2> QED BY <2>1, <2>2
<1>9. e[MaxFiles] = n
  BY DEF Numbered
<1> DEFINE s == f[MaxFiles]
<1>10. /\ s \in Seq(Nat) /\ Len(s) = n - first /\ first <= n
       /\ \A i \in 1 .. Len(s) : s[i] = first + i
  BY <1>8, <1>9
<1> HIDE DEF s, Good, S
<1>11. n - first \in Nat
  BY <1>1, <1>10
<1>12. s = [i \in 1 .. n - first |-> first + i]
  BY <1>10, <1>11
<1> QED BY <1>4, <1>11, <1>12 DEF s, first

-------------------------------------------------------------------------------
(* A logger of one process. *)

Texts == [i \in Paths |-> TextOf(i)]

\* What the disk holds: each file has one path and no more than its lines, and
\* the texts of the files hold the last lines in order.
Disk ==
  /\ \A i, j \in Paths : path[i] # NoFile /\ path[i] = path[j] => i = j
  /\ \A f \in Files : Len(data[f]) <= MaxLines
  /\ \E e : Numbered(Texts, e, written)

\* Between rotations there is no file beyond the handler's; in a rotation there
\* is an empty place for the next file to move to.
Newest(w) ==
  /\ pc[w] \in {"idle", "write", "rotate"} => \A j \in Paths : j > index[w] => path[j] = NoFile
  /\ pc[w] = "open" => \A j \in Paths : j >= index[w] => path[j] = NoFile
  /\ pc[w] = "shift" => path[next[w] - 1] = NoFile

\* An open stream is on the file of the index, at its end, and the lines of the
\* file are those the handler has counted.
AtTheEnd(w) ==
  file[w] # NoFile =>
    /\ index[w] \in Paths /\ path[index[w]] = file[w]
    /\ Len(data[file[w]]) = count[w]
    /\ mode[w] = "own" => pos[w] = count[w]
    /\ mode[w] # "inherited"

One(w) == Disk /\ Newest(w) /\ AtTheEnd(w)

LEMMA DiskKept ==
  ASSUME Disk, UNCHANGED <<path, data, written>>
  PROVE  Disk'
<1>1. Texts' = Texts
  BY DEF Texts, TextOf
<1>2. PICK e : Numbered(Texts, e, written)
  BY DEF Disk
<1>3. Numbered(Texts', e, written')
  BY <1>1, <1>2
<1> QED BY <1>3 DEF Disk

\* All lines of a file that has a path are lines.
LEMMA NoHoles ==
  ASSUME Disk, NEW i \in Paths, path[i] # NoFile, data[path[i]] \in Seq(Nat)
  PROVE  LinesOf(path[i]) = Len(data[path[i]])
<1> DEFINE t == data[path[i]]
<1>1. PICK e : Numbered(Texts, e, written)
  BY DEF Disk
<1>2. Texts[i] = t
  BY DEF Texts, TextOf
<1>3. e[i - 1] \in Nat
  BY <1>1, Ends
<1>4. \A j \in 1 .. Len(t) : t[j] = e[i - 1] + j
  BY <1>1, <1>2 DEF Numbered
<1>5. Len(t) \in Nat
  OBVIOUS
<1>6. {j \in 1 .. Len(t) : t[j] # Hole} = 1 .. Len(t)
  <2> HIDE DEF t
  <2>1. ASSUME NEW j \in 1 .. Len(t) PROVE t[j] # Hole
    <3>1. e[i - 1] + j # 0
      BY <1>3, <1>5
    <3> QED BY <1>4, <3>1 DEF Hole
  <2> QED BY <2>1
<1> HIDE DEF t
<1>7. Cardinality(1 .. Len(t)) = Len(t)
  <2> DEFINE n == Len(t)
  <2>1. n \in Int /\ 1 \in Int /\ n >= 0
    BY <1>5
  <2> HIDE DEF n
  <2>2. Cardinality(1 .. n) = IF 1 > n THEN 0 ELSE n - 1 + 1
    BY <2>1, FS_Interval
  <2>3. Cardinality(1 .. n) = n
    BY <2>1, <2>2
  <2> QED BY <2>3 DEF n
<1> QED BY <1>6, <1>7 DEF LinesOf, t

LEMMA OneStart ==
  ASSUME LogTypes, NEW w \in Writers, Handler(w), One(w), Start(w)
  PROVE  One(w)'
<1>1. pc[w] = "off" /\ file[w] = NoFile /\ mode[w] = "none" /\ index[w] = 0
  BY DEF Start, Handler, Rotating
<1>2. UNCHANGED <<path, data, written, pos>>
  BY DEF Start
<1>3. Disk'
  BY <1>2, DiskKept DEF One
<1>4. CASE Existing = {}
  <2>1. pc'[w] = "rotate" /\ UNCHANGED <<mode, file, index, count, next>>
    BY <1>4 DEF Start, LogTypes
  <2>2. \A j \in Paths : path'[j] = NoFile
    BY <1>2, <1>4 DEF Existing
  <2> QED BY <1>1, <1>3, <2>1, <2>2 DEF One, Newest, AtTheEnd
<1>5. CASE Existing # {}
  <2> DEFINE i == Max(Existing)
             n == LinesOf(path[i])
  <2>1. i \in Existing /\ \A y \in Existing : y <= i
    BY <1>5, MaxIs DEF Existing
  <2>2. i \in Paths /\ path[i] \in Files /\ path[i] # NoFile
    BY <2>1 DEF Existing, LogTypes
  <2>3. n = Len(data[path[i]])
    <3>1. data[path[i]] \in Seq(Nat)
      BY <2>2 DEF LogTypes
    <3> QED BY <2>2, <3>1, NoHoles DEF One
  <2> HIDE DEF n, i
  <2>4. /\ index' = [index EXCEPT ![w] = i] /\ count' = [count EXCEPT ![w] = n]
        /\ \/ Full(n) /\ pc' = [pc EXCEPT ![w] = "rotate"] /\ UNCHANGED <<mode, file>>
           \/ /\ ~Full(n) /\ pc' = [pc EXCEPT ![w] = "idle"]
              /\ mode' = [mode EXCEPT ![w] = "appending"]
              /\ file' = [file EXCEPT ![w] = path[i]]
    BY <1>5 DEF Start, i, n
  <2>5. /\ index'[w] = i /\ count'[w] = n
        /\ \/ pc'[w] = "rotate" /\ mode'[w] = mode[w] /\ file'[w] = file[w]
           \/ pc'[w] = "idle" /\ mode'[w] = "appending" /\ file'[w] = path[i]
    BY <2>4 DEF LogTypes
  <2>6. ASSUME NEW j \in Paths, j > i PROVE path'[j] = NoFile
    <3>1. j \in Nat /\ i \in Nat
      BY <2>2 DEF Paths
    <3>2. j \notin Existing
      BY <2>1, <2>6, <3>1
    <3> QED BY <1>2, <3>2 DEF Existing
  <2>7. Newest(w)'
    BY <2>5, <2>6 DEF Newest
  <2>8. AtTheEnd(w)'
    BY <1>1, <1>2, <2>2, <2>3, <2>5 DEF AtTheEnd
  <2> QED BY <1>3, <2>7, <2>8 DEF One
<1> QED BY <1>4, <1>5

LEMMA OneEmit ==
  ASSUME LogTypes, NEW w \in Writers, One(w), Emit(w) \/ Discard(w)
  PROVE  One(w)'
<1>1. /\ UNCHANGED <<path, data, written, pos, index, count, mode, file>>
      /\ pc[w] \in {"idle", "write"} /\ pc'[w] \in {"idle", "write", "rotate"}
  BY DEF Emit, Discard, LogTypes
<1>2. Disk'
  BY <1>1, DiskKept DEF One
<1> QED BY <1>1, <1>2 DEF One, Newest, AtTheEnd

LEMMA OneRotate ==
  ASSUME LogTypes, NEW w \in Writers, One(w), Rotate(w)
  PROVE  One(w)'
<1>1. /\ UNCHANGED <<path, data, written>> /\ pc[w] = "rotate" /\ file'[w] = NoFile
      /\ index'[w] = index[w] + 1 /\ index[w] \in Nat
      /\ pc'[w] = IF index'[w] > MaxFiles THEN "unlink" ELSE "open"
  BY DEF Rotate, LogTypes
<1>2. Disk'
  BY <1>1, DiskKept DEF One
<1>3. ASSUME NEW j \in Paths, j >= index'[w] PROVE path'[j] = NoFile
  <2>1. j > index[w]
    BY <1>1, <1>3 DEF Paths
  <2> QED BY <1>1, <2>1 DEF One, Newest
<1> QED BY <1>1, <1>2, <1>3 DEF One, Newest, AtTheEnd

LEMMA OneCut ==
  ASSUME LogTypes, NEW w \in Writers, Handler(w), One(w), RotationFails(w) \/ Crash(w) \/ Close(w)
  PROVE  One(w)'
<1>1. UNCHANGED <<path, data, written>>
  BY DEF RotationFails, Crash, Close
<1>2. Disk'
  BY <1>1, DiskKept DEF One
<1>3. CASE RotationFails(w)
  <2>1. /\ pc[w] \in Rotating /\ file' = file /\ pc'[w] \in {"idle", "off"}
        /\ pc'[w] = "idle" => index' = index
    BY <1>3 DEF RotationFails, LogTypes, Rotating
  <2>2. file[w] = NoFile /\ (pc[w] \in {"unlink", "shift"} => index[w] > MaxFiles)
    BY <2>1 DEF Handler
  <2>3. ASSUME NEW j \in Paths, j > index[w] PROVE path'[j] = NoFile
    <3>1. j \in Nat /\ j <= MaxFiles /\ index[w] \in Nat /\ MaxFiles \in Nat
      BY Sizes0 DEF Paths, LogTypes
    <3>2. pc[w] = "open" /\ j >= index[w]
      BY <2>1, <2>2, <2>3, <3>1 DEF Rotating
    <3> QED BY <1>1, <3>2 DEF One, Newest
  <2> QED BY <1>2, <2>1, <2>2, <2>3 DEF One, Newest, AtTheEnd
<1>4. CASE Crash(w)
  <2>1. pc'[w] = "off" /\ file'[w] = NoFile
    BY <1>4 DEF Crash, LogTypes
  <2> QED BY <1>2, <2>1 DEF One, Newest, AtTheEnd
<1>5. CASE Close(w)
  <2>1. pc[w] = "idle" /\ pc' = pc /\ index' = index /\ file'[w] = NoFile
    BY <1>5 DEF Close, LogTypes
  <2> QED BY <1>1, <1>2, <2>1 DEF One, Newest, AtTheEnd
<1> QED BY <1>3, <1>4, <1>5

LEMMA TextsAre ==
  /\ Texts = [i \in Paths |-> IF path[i] = NoFile THEN <<>> ELSE data[path[i]]]
  /\ Texts' = [i \in Paths |-> IF path'[i] = NoFile THEN <<>> ELSE data'[path'[i]]]
BY DEF Texts, TextOf

LEMMA UnlinkTexts ==
  ASSUME LogTypes, NEW w \in Writers, Unlink(w)
  PROVE  /\ Texts' = [Texts EXCEPT ![1] = <<>>] /\ 1 \in Paths
         /\ \A i \in Paths : path'[i] = IF i = 1 THEN NoFile ELSE path[i]
<1>1. data' = data /\ path' = [path EXCEPT ![1] = NoFile]
  BY DEF Unlink
<1>2. 1 \in Paths
  BY Sizes0 DEF Paths
<1>3. \A i \in Paths : path'[i] = IF i = 1 THEN NoFile ELSE path[i]
  BY <1>1, <1>2 DEF LogTypes
<1>4. Texts' = [Texts EXCEPT ![1] = <<>>]
  BY <1>1, <1>3, TextsAre
<1> QED BY <1>2, <1>3, <1>4

LEMMA OneUnlink ==
  ASSUME LogTypes, NEW w \in Writers, Handler(w), One(w), Unlink(w)
  PROVE  One(w)'
<1>1. /\ UNCHANGED <<data, written, file>> /\ next'[w] = 2 /\ pc[w] = "unlink"
      /\ \/ MaxFiles = 1 /\ pc'[w] = "open" /\ index'[w] = 1
         \/ MaxFiles # 1 /\ pc'[w] = "shift"
  BY DEF Unlink, LogTypes
<1>2. /\ Texts' = [Texts EXCEPT ![1] = <<>>] /\ 1 \in Paths
      /\ \A i \in Paths : path'[i] = IF i = 1 THEN NoFile ELSE path[i]
  BY UnlinkTexts
<1>3. \E d : Numbered(Texts', d, written')
  <2>1. PICK e : Numbered(Texts, e, written)
    BY DEF One, Disk
  <2>2. \E d : Numbered([Texts EXCEPT ![1] = <<>>], d, written)
    BY <2>1, NumberedLess
  <2> QED BY <1>1, <1>2, <2>2
<1>4. Disk'
  BY <1>1, <1>2, <1>3 DEF One, Disk
<1>5. file[w] = NoFile
  BY <1>1 DEF Handler, Rotating
<1>6. AtTheEnd(w)'
  BY <1>1, <1>5 DEF AtTheEnd
<1>7. Newest(w)'
  <2>1. path'[1] = NoFile
    BY <1>2
  <2>2. CASE MaxFiles = 1 /\ pc'[w] = "open" /\ index'[w] = 1
    <3>1. \A j \in Paths : j = 1
      BY <2>2 DEF Paths
    <3> QED BY <2>1, <2>2, <3>1 DEF Newest
  <2>3. CASE pc'[w] = "shift"
    <3>1. next'[w] - 1 = 1
      BY <1>1
    <3> QED BY <2>1, <2>3, <3>1 DEF Newest
  <2> QED BY <1>1, <2>2, <2>3
<1> QED BY <1>4, <1>6, <1>7 DEF One

\* A shift moves a text to the empty place before it, be it empty itself.
LEMMA ShiftTexts ==
  ASSUME LogTypes, NEW w \in Writers, Handler(w), One(w), Shift(w)
  PROVE  LET k == next[w]
         IN  /\ k \in 2 .. MaxFiles /\ k \in Paths /\ k - 1 \in Paths /\ k \in Nat /\ k # k - 1
             /\ Texts[k - 1] = <<>>
             /\ Texts' = [Texts EXCEPT ![k - 1] = Texts[k], ![k] = <<>>]
             /\ \A i \in Paths :
                  path'[i] = IF i = k - 1 THEN path[k] ELSE IF i = k THEN NoFile ELSE path[i]
<1> DEFINE k == next[w]
<1>1. /\ pc[w] = "shift" /\ data' = data
      /\ path' = IF path[k] = NoFile THEN path
                 ELSE [path EXCEPT ![k - 1] = path[k], ![k] = NoFile]
  BY DEF Shift
<1>2. k \in 2 .. MaxFiles
  BY <1>1 DEF Handler
<1>3. path[k - 1] = NoFile
  BY <1>1 DEF One, Newest
<1> HIDE DEF k
<1>4. k \in Paths /\ k - 1 \in Paths /\ k # k - 1 /\ k \in Nat /\ k <= MaxFiles
  BY <1>2, Sizes0 DEF Paths
<1>5. \A i \in Paths : path'[i] = IF i = k - 1 THEN path[k] ELSE IF i = k THEN NoFile ELSE path[i]
  <2>1. CASE path[k] = NoFile
    BY <1>1, <1>3, <2>1
  <2>2. CASE path[k] # NoFile
    BY <1>1, <1>4, <2>2 DEF LogTypes
  <2> QED BY <2>1, <2>2
<1>6. /\ Texts[k] = IF path[k] = NoFile THEN <<>> ELSE data[path[k]]
      /\ Texts[k - 1] = <<>>
  BY <1>3, <1>4 DEF Texts, TextOf
<1>7. Texts' = [Texts EXCEPT ![k - 1] = Texts[k], ![k] = <<>>]
  <2>1. ASSUME NEW i \in Paths
        PROVE  (IF path'[i] = NoFile THEN <<>> ELSE data'[path'[i]])
                 = IF i = k - 1 THEN Texts[k] ELSE IF i = k THEN <<>>
                   ELSE IF path[i] = NoFile THEN <<>> ELSE data[path[i]]
    <3>1. data' = data
      BY <1>1
    <3>2. CASE i = k - 1
      <4>1. path'[i] = path[k]
        BY <1>5, <3>2
      <4> QED BY <1>6, <3>1, <3>2, <4>1
    <3>3. CASE i = k
      BY <1>4, <1>5, <3>3
    <3>4. CASE i # k - 1 /\ i # k
      <4>1. path'[i] = path[i]
        BY <1>5, <3>4
      <4> QED BY <3>1, <3>4, <4>1
    <3> QED BY <3>2, <3>3, <3>4
  <2>2. Texts' = [i \in Paths |-> IF i = k - 1 THEN Texts[k]
                                  ELSE IF i = k THEN <<>> ELSE Texts[i]]
    BY <2>1, TextsAre
  <2>3. Texts = [i \in Paths |-> Texts[i]]
    BY TextsAre
  <2> QED BY <1>4, <2>2, <2>3
<1> QED BY <1>2, <1>4, <1>5, <1>6, <1>7 DEF k

LEMMA OneShift ==
  ASSUME LogTypes, NEW w \in Writers, Handler(w), One(w), Shift(w)
  PROVE  One(w)'
<1> DEFINE k == next[w]
<1>1. /\ pc[w] = "shift" /\ UNCHANGED <<data, file, written>>
      /\ next'[w] = IF k = MaxFiles THEN 2 ELSE k + 1
      /\ pc'[w] = IF k = MaxFiles THEN "open" ELSE "shift"
      /\ k = MaxFiles => index'[w] = MaxFiles
  BY DEF Shift, LogTypes
<1>2. file[w] = NoFile
  BY <1>1 DEF Handler, Rotating
<1>3. /\ k \in 2 .. MaxFiles /\ k \in Paths /\ k - 1 \in Paths /\ k \in Nat /\ k # k - 1
      /\ Texts[k - 1] = <<>>
      /\ Texts' = [Texts EXCEPT ![k - 1] = Texts[k], ![k] = <<>>]
      /\ \A i \in Paths :
           path'[i] = IF i = k - 1 THEN path[k] ELSE IF i = k THEN NoFile ELSE path[i]
  BY ShiftTexts
<1> HIDE DEF k
<1>4. path'[k] = NoFile
  BY <1>3
<1>5. AtTheEnd(w)'
  BY <1>1, <1>2 DEF AtTheEnd
<1>6. Newest(w)'
  <2>1. CASE k = MaxFiles
    <3>1. \A j \in Paths : j >= k => j = k
      BY <1>3, <2>1, Sizes0 DEF Paths
    <3> QED BY <1>1, <1>4, <2>1, <3>1 DEF Newest
  <2>2. CASE k # MaxFiles
    <3>1. next'[w] - 1 = k
      BY <1>1, <1>3, <2>2
    <3> QED BY <1>1, <1>4, <2>2, <3>1 DEF Newest
  <2> QED BY <2>1, <2>2
<1>7. Disk'
  <2>1. PICK e : Numbered(Texts, e, written)
    BY DEF One, Disk
  <2>2. \E d : Numbered([Texts EXCEPT ![k - 1] = Texts[k], ![k] = <<>>], d, written)
    BY <1>3, <2>1, NumberedMoved
  <2>3. \E d : Numbered(Texts', d, written')
    BY <1>1, <1>3, <2>2
  <2>4. \A i, j \in Paths : path'[i] # NoFile /\ path'[i] = path'[j] => i = j
    BY <1>3 DEF One, Disk
  <2> QED BY <1>1, <2>3, <2>4 DEF One, Disk
<1> QED BY <1>5, <1>6, <1>7 DEF One

\* The new file is the newest, and no text changes.
LEMMA OpenTexts ==
  ASSUME LogTypes, NEW w \in Writers, Handler(w), One(w), Open(w)
  PROVE  LET i == index[w]
             f == IF path[i] = NoFile THEN Min(Free) ELSE path[i]
         IN  /\ i \in Paths /\ f \in Files /\ f # NoFile
             /\ Texts' = Texts
             /\ \A j \in Paths : j >= i => path[j] = NoFile
             /\ \A j \in Paths : path[j] # f /\ path'[j] = IF j = i THEN f ELSE path[j]
             /\ \A g \in Files : data'[g] = IF g = f THEN <<>> ELSE data[g]
<1> DEFINE i == index[w]
           f == IF path[i] = NoFile THEN Min(Free) ELSE path[i]
<1>1. /\ i \in Paths /\ f \in Files /\ f # NoFile
      /\ path[i] = NoFile => f \in Free
      /\ path' = [path EXCEPT ![i] = f] /\ data' = [data EXCEPT ![f] = <<>>]
      /\ file' = [file EXCEPT ![w] = f]
  BY OpenIs
<1> HIDE DEF f
<1>2. pc[w] = "open"
  BY DEF Open
<1>3. \A j \in Paths : j >= i => path[j] = NoFile
  BY <1>2 DEF One, Newest
<1> HIDE DEF i
<1>4. \A j \in Paths : path[j] # f
  <2>1. i \in Nat /\ i >= i
    BY <1>1 DEF Paths
  <2>2. f \in Free
    BY <1>1, <1>3, <2>1
  <2> QED BY <2>2 DEF Free
<1>5. \A j \in Paths : path'[j] = IF j = i THEN f ELSE path[j]
  BY <1>1 DEF LogTypes
<1>6. \A g \in Files : data'[g] = IF g = f THEN <<>> ELSE data[g]
  BY <1>1 DEF LogTypes
<1>7. path[i] = NoFile
  <2>1. i \in Nat /\ i >= i
    BY <1>1 DEF Paths
  <2> QED BY <1>1, <1>3, <2>1
<1>8. Texts' = Texts
  <2>1. ASSUME NEW j \in Paths
        PROVE  (IF path'[j] = NoFile THEN <<>> ELSE data'[path'[j]])
                 = (IF path[j] = NoFile THEN <<>> ELSE data[path[j]])
    <3>1. CASE j = i
      BY <1>1, <1>5, <1>6, <1>7, <3>1
    <3>2. CASE j # i
      <4>1. path'[j] = path[j] /\ path[j] # f /\ path[j] \in Files \cup {NoFile}
        BY <1>4, <1>5, <3>2 DEF LogTypes
      <4> QED BY <1>6, <4>1
    <3> QED BY <3>1, <3>2
  <2> QED BY <2>1, TextsAre
<1> QED BY <1>1, <1>3, <1>4, <1>5, <1>6, <1>8 DEF f, i

LEMMA OneOpen ==
  ASSUME LogTypes, NEW w \in Writers, Handler(w), One(w), Open(w)
  PROVE  One(w)'
<1> DEFINE i == index[w]
           f == IF path[i] = NoFile THEN Min(Free) ELSE path[i]
<1>1. /\ i \in Paths /\ f \in Files /\ f # NoFile
      /\ Texts' = Texts
      /\ \A j \in Paths : j >= i => path[j] = NoFile
      /\ \A j \in Paths : path[j] # f /\ path'[j] = IF j = i THEN f ELSE path[j]
      /\ \A g \in Files : data'[g] = IF g = f THEN <<>> ELSE data[g]
  BY OpenTexts
<1>2. file'[w] = f
  <2>1. file' = [file EXCEPT ![w] = f]
    BY OpenIs
  <2> HIDE DEF f
  <2> QED BY <2>1 DEF LogTypes
<1> HIDE DEF f
<1>3. /\ written' = written
      /\ mode'[w] = "own" /\ pos'[w] = 0 /\ count'[w] = 0 /\ pc'[w] \in {"idle", "write"}
      /\ index'[w] = i
  BY DEF Open, LogTypes
<1> HIDE DEF i
<1>4. Disk'
  <2>1. \E d : Numbered(Texts', d, written')
    BY <1>1, <1>3 DEF One, Disk
  <2>2. \A g \in Files : Len(data'[g]) <= MaxLines
    <3>1. Len(<<>>) <= MaxLines
      BY Sizes0
    <3> QED BY <1>1, <3>1 DEF One, Disk
  <2>3. \A j, l \in Paths : path'[j] # NoFile /\ path'[j] = path'[l] => j = l
    BY <1>1 DEF One, Disk
  <2> QED BY <2>1, <2>2, <2>3 DEF Disk
<1>5. Newest(w)'
  <2>1. ASSUME NEW j \in Paths, j > i PROVE path'[j] = NoFile
    <3>1. j # i /\ j >= i
      BY <1>1, <2>1 DEF Paths
    <3> QED BY <1>1, <3>1
  <2> QED BY <1>3, <2>1 DEF Newest
<1>6. AtTheEnd(w)'
  <2>1. path'[i] = f /\ data'[f] = <<>> /\ Len(<<>>) = 0
    BY <1>1
  <2> QED BY <1>1, <1>2, <1>3, <2>1 DEF AtTheEnd
<1> QED BY <1>4, <1>5, <1>6 DEF One

\* A line goes to the end of the newest text, which is not full.
LEMMA WriteTexts ==
  ASSUME LogTypes, NEW w \in Writers, Handler(w), One(w), Write(w)
  PROVE  LET f == file[w]
             i == index[w]
             u == Append(Texts[i], written + 1)
         IN  /\ f \in Files /\ i \in Paths /\ path[i] = f /\ f # NoFile
             /\ Texts[i] \in Seq(Nat) /\ Len(Texts[i]) = count[w] /\ Len(Texts[i]) < MaxLines
             /\ Len(u) = Len(Texts[i]) + 1 /\ u \in Seq(Nat)
             /\ \A j \in Paths : j > i => path[j] = NoFile /\ Texts[j] = <<>>
             /\ Texts' = [Texts EXCEPT ![i] = u]
             /\ \A g \in Files : data'[g] = IF g = f THEN u ELSE data[g]
             /\ mode[w] # "inherited"
             /\ mode[w] = "own" => pos[w] = count[w] /\ pos'[w] = count[w] + 1
<1> DEFINE f == file[w]
           p == IF mode[w] = "appending" THEN Len(data[f]) ELSE pos[Position(w)]
           i == index[w]
           t == data[f]
<1>1. /\ f \in Files /\ f # NoFile /\ mode[w] \in Streams
      /\ data' = [data EXCEPT ![f] = PutAt(data[f], p, written + 1)]
      /\ pos' = IF mode[w] = "appending" THEN pos ELSE [pos EXCEPT ![Position(w)] = p + 1]
  BY WriteIs
<1>2. /\ pc[w] = "write" /\ mode[w] # "none" /\ pc'[w] = "idle"
      /\ UNCHANGED <<path, index, mode, file>>
      /\ count'[w] = count[w] + 1 /\ written' = written + 1
  BY DEF Write, LogTypes
<1>3. /\ i \in Paths /\ path[i] = f /\ Len(t) = count[w] /\ t \in Seq(Nat) /\ written \in Nat
      /\ mode[w] = "own" => pos[w] = count[w]
      /\ mode[w] # "inherited"
  BY <1>1 DEF One, AtTheEnd, LogTypes
<1>4. \A j \in Paths : j > i => path[j] = NoFile
  BY <1>2 DEF One, Newest
<1>5. p = Len(t) /\ Position(w) = w
  BY <1>1, <1>3 DEF Position, Streams
<1> DEFINE u == Append(t, written + 1)
<1>6. u \in Seq(Nat) /\ Len(u) = Len(t) + 1 /\ Len(t) \in Nat
  BY <1>3, AppendProperties
<1>7. data' = [data EXCEPT ![f] = u]
  <2>1. PutAt(t, Len(t), written + 1) = u
    <3> HIDE DEF t
    <3> DEFINE line == written + 1
               l == Len(t)
               v == PutAt(t, l, line)
    <3>1. line \in Nat /\ l \in Nat /\ ~(l > l)
      BY <1>3
    <3> HIDE DEF line, l
    <3>2. /\ v \in Seq(Nat) /\ Len(v) = l + 1
          /\ \A j \in 1 .. Len(v) :
               v[j] = IF j = l + 1 THEN line ELSE IF j <= Len(t) THEN t[j] ELSE Hole
      <4>1. /\ v \in Seq(Nat)
            /\ Len(v) = IF Len(t) > l THEN Len(t) ELSE l + 1
            /\ \A j \in 1 .. Len(v) :
                 v[j] = IF j = l + 1 THEN line ELSE IF j <= Len(t) THEN t[j] ELSE Hole
        BY <1>3, <3>1, PutIs
      <4> HIDE DEF v
      <4> QED BY <3>1, <4>1 DEF l
    <3> HIDE DEF v
    <3>3. u \in Seq(Nat) /\ Len(u) = l + 1 /\ (\A j \in 1 .. l : u[j] = t[j]) /\ u[l + 1] = line
      BY <1>3, <3>1, AppendProperties DEF l, line
    <3> HIDE DEF u
    <3>4. ASSUME NEW j \in 1 .. Len(v) PROVE v[j] = u[j]
      <4>1. v[j] = IF j = l + 1 THEN line ELSE IF j <= l THEN t[j] ELSE Hole
        BY <3>2 DEF l
      <4>2. CASE j = l + 1
        BY <3>3, <4>1, <4>2
      <4>3. CASE j # l + 1
        <5>1. j \in 1 .. l /\ j <= l
          BY <3>1, <3>2, <4>3
        <5> QED BY <3>3, <4>1, <4>3, <5>1
      <4> QED BY <4>2, <4>3
    <3>5. v = u
      BY <3>2, <3>3, <3>4, SeqEqual
    <3> QED BY <3>5 DEF v, line, l
  <2> QED BY <1>1, <1>5, <2>1
<1> HIDE DEF t
<1>8. \A g \in Files : data'[g] = IF g = f THEN u ELSE data[g]
  BY <1>1, <1>7 DEF LogTypes
<1> HIDE DEF u
<1>9. \A j \in Paths : path[j] \in Files \cup {NoFile} /\ (path[j] = f => j = i)
  BY <1>1, <1>3 DEF One, Disk, LogTypes
<1> HIDE DEF f, i
<1>10. Texts' = [Texts EXCEPT ![i] = u]
  <2>1. ASSUME NEW j \in Paths
        PROVE  (IF path'[j] = NoFile THEN <<>> ELSE data'[path'[j]])
                 = IF j = i THEN u ELSE IF path[j] = NoFile THEN <<>> ELSE data[path[j]]
    <3>1. CASE j = i
      BY <1>1, <1>2, <1>3, <1>8, <3>1
    <3>2. CASE j # i
      BY <1>1, <1>2, <1>8, <1>9, <3>2
    <3> QED BY <3>1, <3>2
  <2>2. Texts' = [j \in Paths |-> IF j = i THEN u ELSE Texts[j]]
    BY <2>1, TextsAre
  <2>3. Texts = [j \in Paths |-> Texts[j]]
    BY TextsAre
  <2> QED BY <1>3, <2>2, <2>3
<1>11. Texts[i] = t /\ \A j \in Paths : j > i => path[j] = NoFile /\ Texts[j] = <<>>
  BY <1>1, <1>3, <1>4, TextsAre DEF t, f
<1>12. ~Full(count[w])
  BY <1>2 DEF Handler
<1>13. Len(t) < MaxLines
  <2>1. count[w] \in Nat /\ ~(count[w] >= MaxLines)
    BY <1>12 DEF Full, LogTypes
  <2> QED BY <1>3, <2>1, Sizes0
<1>14. mode[w] = "own" => pos[w] = count[w] /\ pos'[w] = count[w] + 1
  <2> SUFFICES ASSUME mode[w] = "own" PROVE pos[w] = count[w] /\ pos'[w] = count[w] + 1
    OBVIOUS
  <2>1. pos' = [pos EXCEPT ![w] = Len(t) + 1]
    BY <1>1, <1>5
  <2>2. pos'[w] = Len(t) + 1
    BY <2>1 DEF LogTypes
  <2> QED BY <1>3, <2>2
<1>15. /\ Texts[i] \in Seq(Nat) /\ Len(Texts[i]) = count[w] /\ Len(Texts[i]) < MaxLines
       /\ u = Append(Texts[i], written + 1)
  BY <1>3, <1>11, <1>13 DEF u
<1> QED
  BY <1>1, <1>3, <1>6, <1>8, <1>10, <1>11, <1>14, <1>15 DEF f, i

LEMMA OneWrite ==
  ASSUME LogTypes, NEW w \in Writers, Handler(w), One(w), Write(w)
  PROVE  One(w)'
<1> DEFINE f == file[w]
           i == index[w]
           u == Append(Texts[i], written + 1)
<1>1. /\ f \in Files /\ i \in Paths /\ path[i] = f /\ f # NoFile
      /\ Texts[i] \in Seq(Nat) /\ Len(Texts[i]) = count[w] /\ Len(Texts[i]) < MaxLines
      /\ Len(u) = Len(Texts[i]) + 1 /\ u \in Seq(Nat)
      /\ \A j \in Paths : j > i => path[j] = NoFile /\ Texts[j] = <<>>
      /\ Texts' = [Texts EXCEPT ![i] = u]
      /\ \A g \in Files : data'[g] = IF g = f THEN u ELSE data[g]
      /\ mode[w] # "inherited"
      /\ mode[w] = "own" => pos[w] = count[w] /\ pos'[w] = count[w] + 1
  BY WriteTexts
<1>2. /\ pc[w] = "write" /\ pc'[w] = "idle" /\ UNCHANGED <<path, index, mode, file>>
      /\ count'[w] = count[w] + 1 /\ written' = written + 1
  BY DEF Write, LogTypes
<1>3. \E d : Numbered(Texts', d, written')
  <2>1. PICK e : Numbered(Texts, e, written)
    BY DEF One, Disk
  <2>2. Numbered([Texts EXCEPT ![i] = Append(Texts[i], written + 1)],
                 [j \in 0 .. MaxFiles |-> IF j >= i THEN written + 1 ELSE e[j]], written + 1)
    <3> HIDE DEF i
    <3> QED BY <1>1, <2>1, NumberedMore
  <2> QED BY <1>1, <1>2, <2>2
<1> HIDE DEF u
<1>4. Len(u) <= MaxLines
  <2>1. Len(Texts[i]) \in Nat
    BY <1>1
  <2> QED BY <1>1, <2>1, Sizes0
<1>5. Disk'
  <2>1. \A g \in Files : Len(data'[g]) <= MaxLines
    BY <1>1, <1>4 DEF One, Disk
  <2> QED BY <1>2, <1>3, <2>1 DEF One, Disk
<1>6. Newest(w)'
  BY <1>1, <1>2 DEF Newest
<1>7. AtTheEnd(w)'
  <2>1. Len(data'[f]) = count'[w]
    BY <1>1, <1>2
  <2> QED BY <1>1, <1>2, <2>1 DEF AtTheEnd
<1> QED BY <1>5, <1>6, <1>7 DEF One

LEMMA OneStep ==
  ASSUME LogInv, NEW w \in Writers, Writers = {w}, One(w), [Next]_vars
  PROVE  One(w)'
<1>1. LogTypes /\ Handler(w)
  BY DEF LogInv
<1>2. CASE HandlerStep(w) \/ RotationFails(w) \/ Crash(w) \/ Close(w)
  BY <1>1, <1>2, OneStart, OneEmit, OneWrite, OneRotate, OneUnlink, OneShift, OneOpen, OneCut
  DEF HandlerStep
<1>3. CASE FollowerStep \/ UNCHANGED vars
  <2>1. UNCHANGED <<diskVars, handlerVars, stepVars, historyVars>>
    BY <1>3 DEF FollowerStep, Poll, Read, EndPass
  <2>2. Disk'
    BY <2>1, DiskKept DEF One
  <2> QED BY <2>1, <2>2, Zenon DEF One, Newest, AtTheEnd
<1> QED BY <1>2, <1>3 DEF Next

LEMMA OneInit ==
  ASSUME NEW w \in Writers, Inherited = FALSE, Init
  PROVE  One(w)
<1>1. /\ path = [i \in Paths |-> NoFile] /\ data = [f \in Files |-> <<>>]
      /\ pc[w] = "off" /\ file[w] = NoFile /\ written = 0
  BY DEF Init
<1>2. \E e : Numbered(Texts, e, written)
  <2> DEFINE e == [i \in 0 .. MaxFiles |-> 0]
             T == [i \in Paths |-> <<>>]
  <2>1. Texts = T
    BY <1>1, TextsAre
  <2>2. e \in [0 .. MaxFiles -> Nat] /\ e[MaxFiles] = 0
    BY Sizes0
  <2>3. T \in [Paths -> Seq(Nat)]
    OBVIOUS
  <2>4. ASSUME NEW i \in Paths
        PROVE  Len(T[i]) = e[i] - e[i - 1] /\ \A j \in 1 .. Len(T[i]) : T[i][j] = e[i - 1] + j
    <3>1. i \in 0 .. MaxFiles /\ i - 1 \in 0 .. MaxFiles
      BY Sizes0 DEF Paths
    <3>2. e[i] = 0 /\ e[i - 1] = 0
      BY <3>1
    <3> HIDE DEF e
    <3> QED BY <3>2
  <2> HIDE DEF e, T
  <2>5. Numbered(T, e, 0)
    BY <2>2, <2>3, <2>4 DEF Numbered
  <2> QED BY <1>1, <2>1, <2>5
<1>3. \A f \in Files : Len(data[f]) <= MaxLines
  BY <1>1, Sizes0
<1>4. Disk
  BY <1>1, <1>2, <1>3 DEF Disk
<1> QED BY <1>1, <1>4 DEF One, Newest, AtTheEnd

\* In a logger of one process the disk is as One says, whatever crashes, failures
\* and restarts the handler meets.
THEOREM OneProcess ==
  ASSUME NEW w, Writers = {w}, Inherited = FALSE
  PROVE  Spec => []One(w)
<1>1. w \in Writers
  OBVIOUS
<1>2. Init => One(w)
  BY <1>1, OneInit
<1>3. LogInv /\ One(w) /\ [Next]_vars => One(w)'
  BY <1>1, OneStep
<1> QED BY <1>2, <1>3, Logging, PTL DEF Spec

\* No file of such a logger grows beyond its lines, by whatever restarts it was
\* filled.
THEOREM NoFileTooLong ==
  ASSUME NEW w, Writers = {w}, Inherited = FALSE
  PROVE  Spec => []FilesBounded
<1>1. LogInv /\ One(w) => FilesBounded
  <2> SUFFICES ASSUME LogInv, One(w), NEW i \in Paths PROVE Len(TextOf(i)) <= MaxLines
    BY DEF FilesBounded
  <2>1. path[i] \in Files \cup {NoFile}
    BY DEF LogInv, LogTypes
  <2>2. Len(<<>>) <= MaxLines
    BY Sizes0
  <2> QED BY <2>1, <2>2 DEF One, Disk, TextOf
<1>2. Spec => []One(w)
  BY OneProcess
<1> QED BY <1>1, <1>2, Logging, PTL

\* The files of such a logger, read in the order of their names, are the last
\* lines written, in order and with none missing: in every step of a rotation,
\* after a crash in it, and when a step of it failed.
THEOREM LogIsFirstInFirstOut ==
  ASSUME NEW w, Writers = {w}, Inherited = FALSE
  PROVE  Spec => []FirstInFirstOut
<1>1. One(w) => FirstInFirstOut
  <2> SUFFICES ASSUME One(w) PROVE FirstInFirstOut
    OBVIOUS
  <2>1. PICK e : Numbered(Texts, e, written)
    BY DEF One, Disk
  <2> DEFINE l == written - e[0]
  <2>2. written \in Nat /\ e[0] \in Nat
    BY <2>1, Ends
  <2>3. OnDisk = [i \in 1 .. l |-> e[0] + i] /\ l \in Nat
    BY <2>1, NumberedFlat DEF OnDisk, Texts
  <2>4. Len(OnDisk) = l
    <3> HIDE DEF l
    <3> QED BY <2>3
  <2>5. l <= written /\ \A i \in 1 .. l : written - l + i = e[0] + i
    BY <2>2, <2>3
  <2> HIDE DEF l
  <2>6. OnDisk = [i \in 1 .. l |-> written - l + i]
    BY <2>3, <2>5
  <2> QED BY <2>4, <2>5, <2>6 DEF FirstInFirstOut
<1>2. Spec => []One(w)
  BY OneProcess
<1> QED BY <1>1, <1>2, PTL

-------------------------------------------------------------------------------
(* The follower of a logger of one process. *)

\* x, but not less than nothing and not more than l.
Clamp(x, l) == IF x <= 0 THEN 0 ELSE IF x <= l THEN x ELSE l

\* The follower has shown the first n lines and none other: of each text it has
\* seen what these lines are of it; and before a text it has still to read in its
\* pass, it has seen all that is not still to be read.
Shows(e) ==
  LET n == Len(shown) IN
  /\ e[0] = 0 /\ n <= written
  /\ shown = [i \in 1 .. n |-> i]
  /\ \A i \in Paths : seen[i] = Clamp(n - e[i - 1], Len(Texts[i]))
  /\ fpc # "dead"
  /\ fpc = "read" =>
       \A i \in todo : /\ path[i] # NoFile
                       /\ \A j \in Paths : j < i /\ j \notin todo => path[j] = NoFile \/ e[j] <= n

\* Files move only once one has been purged; until then the follower keeps up.
KeepsUp(w) ==
  /\ pc[w] = "shift" => purged
  /\ ~purged => \E e : Numbered(Texts, e, written) /\ Shows(e)

\* Later texts hold later lines.
LEMMA Rising ==
  ASSUME NEW T, NEW e, NEW n, Numbered(T, e, n), NEW i \in 0 .. MaxFiles
  PROVE  \A j \in 0 .. MaxFiles : i <= j => e[i] <= e[j]
<1> DEFINE S == {m \in Nat : i + m <= MaxFiles => e[i] <= e[i + m]}
<1>1. i \in Nat /\ e[i] \in Nat /\ MaxFiles \in Nat
  BY Sizes0 DEF Numbered
<1>2. 0 \in S
  BY <1>1
<1>3. \A m \in S : m + 1 \in S
  <2> TAKE m \in S
  <2> DEFINE k == i + m
             l == i + (m + 1)
  <2> SUFFICES ASSUME l <= MaxFiles PROVE e[i] <= e[l]
    OBVIOUS
  <2>1. m \in Nat /\ k \in Nat /\ k <= MaxFiles /\ l \in Paths /\ l - 1 = k
    BY <1>1 DEF Paths
  <2>2. e[i] <= e[k]
    BY <2>1
  <2> HIDE DEF k, l
  <2>3. e[l - 1] <= e[l] /\ e[l] \in Nat /\ e[l - 1] \in Nat
    BY <2>1, Ends
  <2> QED BY <1>1, <2>1, <2>2, <2>3
<1>4. S = Nat
  <2>1. S \in SUBSET Nat
    OBVIOUS
  <2> HIDE DEF S
  <2> QED BY <1>2, <1>3, <2>1, SetInduction
<1> TAKE j \in 0 .. MaxFiles
<1> SUFFICES ASSUME i <= j PROVE e[i] <= e[j]
  OBVIOUS
<1> HIDE DEF S
<1>5. j - i \in Nat /\ i + (j - i) = j
  BY <1>1
<1>6. j - i \in S /\ i + (j - i) = j
  BY <1>4, <1>5
<1>7. i + (j - i) <= MaxFiles
  BY <1>1
<1>8. i + (j - i) <= MaxFiles => e[i] <= e[i + (j - i)]
  BY <1>6 DEF S
<1> QED BY <1>6, <1>7, <1>8

\* When every text before i is empty or ends before line n, so does what is
\* before i.
LEMMA AllBefore ==
  ASSUME NEW T, NEW e, NEW n, Numbered(T, e, n), e[0] = 0, NEW i \in Paths, NEW l \in Nat,
         \A j \in Paths : j < i => T[j] = <<>> \/ e[j] <= l
  PROVE  e[i - 1] <= l
<1> DEFINE S == {m \in Nat : m < i => e[m] <= l}
<1>1. i \in Nat /\ i <= MaxFiles /\ MaxFiles \in Nat /\ i >= 1
  BY Sizes0 DEF Paths
<1>2. 0 \in S
  OBVIOUS
<1>3. \A m \in S : m + 1 \in S
  <2> TAKE m \in S
  <2> DEFINE k == m + 1
  <2> SUFFICES ASSUME k < i PROVE e[k] <= l
    OBVIOUS
  <2>1. k \in Paths /\ k - 1 = m /\ e[m] <= l
    BY <1>1 DEF Paths
  <2> HIDE DEF k
  <2>2. e[k] \in Nat /\ e[k - 1] \in Nat /\ Len(T[k]) = e[k] - e[k - 1]
    <3>1. Len(T[k]) = e[k] - e[k - 1]
      BY <2>1 DEF Numbered
    <3> QED BY <2>1, <3>1, Ends
  <2>3. CASE T[k] = <<>>
    <3>1. Len(T[k]) = 0
      BY <2>3
    <3> QED BY <2>1, <2>2, <3>1
  <2>4. CASE e[k] <= l
    BY <2>4
  <2> QED BY <2>1, <2>3, <2>4
<1>4. S = Nat
  <2>1. S \in SUBSET Nat
    OBVIOUS
  <2> HIDE DEF S
  <2> QED BY <1>2, <1>3, <2>1, SetInduction
<1>5. i - 1 \in S /\ i - 1 < i
  BY <1>1, <1>4
<1> QED BY <1>5

\* Nothing that the follower sees changes.
LEMMA ShowsKept ==
  ASSUME NEW w, KeepsUp(w), Texts' = Texts, path' = path, written' = written,
         purged' = purged, UNCHANGED followVars, pc'[w] # "shift"
  PROVE  KeepsUp(w)'
<1>1. CASE purged
  BY <1>1 DEF KeepsUp
<1>2. CASE ~purged
  <2>1. PICK e : Numbered(Texts, e, written) /\ Shows(e)
    BY <1>2 DEF KeepsUp
  <2>2. Numbered(Texts', e, written')
    BY <2>1
  <2>3. Shows(e)'
    BY <2>1 DEF Shows
  <2> QED BY <1>2, <2>2, <2>3 DEF KeepsUp
<1> QED BY <1>1, <1>2

LEMMA FollowedOpen ==
  ASSUME LogTypes, FollowerTypes, NEW w \in Writers, Handler(w), One(w), KeepsUp(w), Open(w)
  PROVE  KeepsUp(w)'
<1> DEFINE i == index[w]
           f == IF path[i] = NoFile THEN Min(Free) ELSE path[i]
<1>1. /\ i \in Paths /\ f # NoFile /\ Texts' = Texts
      /\ \A j \in Paths : j >= i => path[j] = NoFile
      /\ \A j \in Paths : path'[j] = IF j = i THEN f ELSE path[j]
  BY OpenTexts
<1> HIDE DEF f, i
<1>2. pc'[w] # "shift" /\ UNCHANGED <<written, purged, followVars>>
  BY DEF Open, LogTypes
<1>3. CASE purged
  BY <1>2, <1>3 DEF KeepsUp
<1>4. CASE ~purged
  <2>1. PICK e : Numbered(Texts, e, written) /\ Shows(e)
    BY <1>4 DEF KeepsUp
  <2>2. Numbered(Texts', e, written')
    BY <1>1, <1>2, <2>1
  <2>3. ASSUME fpc = "read", NEW k \in todo
        PROVE  /\ path'[k] # NoFile
               /\ \A j \in Paths : j < k /\ j \notin todo => path'[j] = NoFile \/ e[j] <= Len(shown)
    <3>1. /\ k \in Paths /\ path[k] # NoFile
          /\ \A j \in Paths : j < k /\ j \notin todo => path[j] = NoFile \/ e[j] <= Len(shown)
      BY <2>1, <2>3 DEF Shows, FollowerTypes
    <3>2. k < i
      <4>1. ~(k >= i)
        BY <1>1, <3>1
      <4> QED BY <1>1, <3>1, <4>1 DEF Paths
    <3>3. \A j \in Paths : j < k => j # i
      BY <1>1, <3>1, <3>2 DEF Paths
    <3> QED BY <1>1, <3>1, <3>3
  <2>4. Shows(e)'
    BY <1>1, <1>2, <2>1, <2>3 DEF Shows
  <2> QED BY <1>2, <2>2, <2>4 DEF KeepsUp
<1> QED BY <1>3, <1>4

LEMMA FollowedWrite ==
  ASSUME LogTypes, FollowerTypes, NEW w \in Writers, Handler(w), One(w), KeepsUp(w), Write(w)
  PROVE  KeepsUp(w)'
<1> DEFINE i == index[w]
           u == Append(Texts[i], written + 1)
<1>1. /\ i \in Paths /\ path[i] # NoFile
      /\ Texts[i] \in Seq(Nat) /\ Len(u) = Len(Texts[i]) + 1
      /\ \A j \in Paths : j > i => path[j] = NoFile /\ Texts[j] = <<>>
      /\ Texts' = [Texts EXCEPT ![i] = u]
  BY WriteTexts
<1>2. /\ pc'[w] # "shift" /\ UNCHANGED <<path, purged, followVars>>
      /\ written' = written + 1 /\ written \in Nat
  BY DEF Write, LogTypes
<1>3. CASE purged
  BY <1>2, <1>3 DEF KeepsUp
<1>4. CASE ~purged
  <2>1. PICK e : Numbered(Texts, e, written) /\ Shows(e)
    BY <1>4 DEF KeepsUp
  <2>2. PICK d : d = [j \in 0 .. MaxFiles |-> IF j >= i THEN written + 1 ELSE e[j]]
    OBVIOUS
  <2> DEFINE n == Len(shown)
  <2>3. Numbered(Texts', d, written')
    <3> HIDE DEF i
    <3>1. Numbered([Texts EXCEPT ![i] = Append(Texts[i], written + 1)], d, written + 1)
      BY <1>1, <2>1, <2>2, NumberedMore
    <3> QED BY <1>1, <1>2, <3>1
  <2> HIDE DEF i, u
  <2>4. n \in Nat /\ n <= written /\ i \in Nat /\ i >= 1 /\ i <= MaxFiles /\ MaxFiles \in Nat
    BY <1>1, <2>1, Sizes0 DEF FollowerTypes, Shows, Paths
  <2> HIDE DEF n
  <2>5. \A j \in 0 .. MaxFiles : d[j] = IF j >= i THEN written + 1 ELSE e[j]
    BY <2>2
  <2>6. e[i] = written
    <3>1. i \in 0 .. MaxFiles /\ i >= i
      BY <2>4
    <3>2. \A j \in Paths : j > i => Texts[j] = <<>>
      BY <1>1
    <3>3. \A j \in 0 .. MaxFiles : j >= i => e[j] = written
      BY <2>1, <3>1, <3>2, LastEnds
    <3> QED BY <3>1, <3>3
  <2>7. ASSUME NEW j \in Paths
        PROVE  seen[j] = Clamp(n - d[j - 1], Len(Texts'[j]))
    <3>1. /\ seen[j] = Clamp(n - e[j - 1], Len(Texts[j]))
          /\ j \in Nat /\ e[j - 1] \in Nat /\ e[j] \in Nat
          /\ Len(Texts[j]) = e[j] - e[j - 1]
          /\ d[j - 1] = IF j - 1 >= i THEN written + 1 ELSE e[j - 1]
      <4>1. seen[j] = Clamp(n - e[j - 1], Len(Texts[j]))
        BY <2>1 DEF Shows, n
      <4>2. j \in Nat /\ e[j - 1] \in Nat /\ e[j] \in Nat /\ j - 1 \in 0 .. MaxFiles
        BY <2>1, Ends
      <4>3. Len(Texts[j]) = e[j] - e[j - 1]
        BY <2>1 DEF Numbered
      <4> QED BY <2>5, <4>1, <4>2, <4>3
    <3>2. Texts'[j] = IF j = i THEN u ELSE Texts[j]
      <4>1. Texts = [k \in Paths |-> Texts[k]]
        BY TextsAre
      <4> QED BY <1>1, <4>1
    <3>3. CASE j < i
      <4>1. j - 1 < i /\ j # i
        BY <2>4, <3>1, <3>3
      <4> QED BY <2>4, <3>1, <3>2, <4>1
    <3>4. CASE j = i
      <4>1. d[j - 1] = e[j - 1] /\ Len(Texts'[j]) = Len(Texts[j]) + 1
        BY <1>1, <2>4, <3>1, <3>2, <3>4
      <4>2. n - e[j - 1] <= Len(Texts[j])
        BY <1>2, <2>4, <2>6, <3>1, <3>4
      <4> QED BY <2>4, <3>1, <4>1, <4>2 DEF Clamp
    <3>5. CASE j > i
      <4>1. Texts'[j] = <<>> /\ Texts[j] = <<>> /\ Len(<<>>) = 0
        BY <1>1, <2>4, <3>1, <3>2, <3>5
      <4>2. d[j - 1] \in Nat
        BY <1>2, <3>1
      <4> QED BY <2>4, <3>1, <4>1, <4>2 DEF Clamp
    <3> QED BY <2>4, <3>1, <3>3, <3>4, <3>5
  <2>8. ASSUME fpc = "read", NEW k \in todo
        PROVE  /\ path[k] # NoFile
               /\ \A j \in Paths : j < k /\ j \notin todo => path[j] = NoFile \/ d[j] <= n
    <3>1. /\ k \in Paths /\ path[k] # NoFile
          /\ \A j \in Paths : j < k /\ j \notin todo => path[j] = NoFile \/ e[j] <= n
      BY <2>1, <2>8 DEF Shows, FollowerTypes, n
    <3>2. k <= i
      <4>1. ~(k > i)
        BY <1>1, <3>1
      <4> QED BY <2>4, <3>1, <4>1 DEF Paths
    <3>3. \A j \in Paths : j < k => d[j] = e[j]
      <4> TAKE j \in Paths
      <4>1. j \in 0 .. MaxFiles /\ k \in Nat /\ j \in Nat
        BY <2>1, <3>1, Ends DEF Paths
      <4> QED BY <2>4, <2>5, <3>2, <4>1
    <3> QED BY <3>1, <3>3
  <2>9. d[0] = 0 /\ n <= written'
    <3>1. 0 \in 0 .. MaxFiles
      BY <2>4
    <3>2. e[0] = 0
      BY <2>1 DEF Shows
    <3> QED BY <1>2, <2>4, <2>5, <3>1, <3>2
  <2>10. Shows(d)'
    <3>1. shown = [j \in 1 .. n |-> j] /\ fpc # "dead"
      BY <2>1 DEF Shows, n
    <3>2. shown' = shown /\ seen' = seen /\ fpc' = fpc /\ todo' = todo /\ path' = path
      BY <1>2
    <3> QED BY <2>7, <2>8, <2>9, <3>1, <3>2 DEF Shows, n
  <2> QED BY <1>2, <2>3, <2>10 DEF KeepsUp
<1> QED BY <1>3, <1>4

\* What is left of a text to read, and what has then been shown.
LEMMA ShowMore ==
  ASSUME NEW n \in Nat, NEW a \in Nat, NEW t \in Seq(Nat), NEW s \in Nat,
         \A j \in 1 .. Len(t) : t[j] = a + j,
         a <= n, s = Clamp(n - a, Len(t))
  PROVE  LET m == IF n <= a + Len(t) THEN a + Len(t) ELSE n
         IN  [i \in 1 .. n |-> i] \o SubSeq(t, s + 1, Len(t)) = [i \in 1 .. m |-> i]
<1> DEFINE l == Len(t)
           m == IF n <= a + l THEN a + l ELSE n
           b == SubSeq(t, s + 1, l)
           c == [i \in 1 .. n |-> i]
           d == [i \in 1 .. m |-> i]
<1>1. l \in Nat
  OBVIOUS
<1> HIDE DEF l
<1>2. s = Clamp(n - a, l)
  BY DEF l
<1>3. s <= l /\ m \in Nat /\ m = n + (l - s)
  <2>1. CASE n <= a + l
    <3>1. s = n - a
      BY <1>1, <1>2, <2>1 DEF Clamp
    <3>2. m = a + l
      BY <2>1
    <3> HIDE DEF m
    <3> QED BY <1>1, <2>1, <3>1, <3>2
  <2>2. CASE ~(n <= a + l)
    <3>1. s = l
      BY <1>1, <1>2, <2>2 DEF Clamp
    <3>2. m = n
      BY <2>2
    <3> HIDE DEF m
    <3> QED BY <1>1, <3>1, <3>2
  <2> QED BY <2>1, <2>2
<1>4. l - s > 0 => s = n - a
  BY <1>1, <1>2 DEF Clamp
<1>5. /\ b \in Seq(Nat) /\ Len(b) = l - s
      /\ \A i \in 1 .. l - s : b[i] = t[s + i]
  <2> DEFINE q == s + 1
  <2>1. \A i \in q .. l : t[i] \in Nat
    BY <1>1 DEF l
  <2>2. q \in Int /\ l \in Int /\ l - q + 1 = l - s
    BY <1>1
  <2> HIDE DEF q, l
  <2>3. /\ SubSeq(t, q, l) \in Seq(Nat)
        /\ Len(SubSeq(t, q, l)) = IF q <= l THEN l - q + 1 ELSE 0
        /\ \A i \in 1 .. l - q + 1 : SubSeq(t, q, l)[i] = t[q + i - 1]
    <3>1. \A i \in q .. l : t[i] \in Nat
      BY <2>1
    <3> QED BY <2>2, <3>1, SubSeqProperties
  <2>4. b = SubSeq(t, q, l)
    BY DEF q
  <2> HIDE DEF b
  <2>5. Len(b) = l - s
    BY <1>1, <1>3, <2>3, <2>4 DEF q
  <2>6. ASSUME NEW i \in 1 .. l - s PROVE b[i] = t[s + i]
    <3>1. b[i] = t[q + i - 1]
      BY <2>2, <2>3, <2>4
    <3>2. q + i - 1 = s + i
      BY <1>1 DEF q
    <3> QED BY <3>1, <3>2
  <2> QED BY <2>3, <2>4, <2>5, <2>6
<1>6. c \in Seq(Nat) /\ Len(c) = n /\ d \in Seq(Nat) /\ Len(d) = m
  <2> HIDE DEF m
  <2> QED BY <1>3
<1> HIDE DEF b, c, m, d
<1>7. /\ c \o b \in Seq(Nat) /\ Len(c \o b) = n + (l - s)
      /\ \A i \in 1 .. n + (l - s) : (c \o b)[i] = IF i <= n THEN c[i] ELSE b[i - n]
  <2> DEFINE k == Len(b)
  <2>1. k = l - s
    BY <1>5
  <2>2. /\ c \o b \in Seq(Nat) /\ Len(c \o b) = n + k
        /\ \A i \in 1 .. n + k : (c \o b)[i] = IF i <= n THEN c[i] ELSE b[i - n]
    BY <1>5, <1>6, ConcatProperties
  <2> QED BY <2>1, <2>2
<1>8. ASSUME NEW i \in 1 .. m PROVE (c \o b)[i] = i
  <2>1. (c \o b)[i] = IF i <= n THEN c[i] ELSE b[i - n]
    BY <1>3, <1>7
  <2>2. i \in Nat /\ i >= 1 /\ i <= n + (l - s)
    BY <1>1, <1>3
  <2>3. CASE i <= n
    <3>1. i \in 1 .. n
      BY <2>2, <2>3
    <3> QED BY <2>1, <2>3, <3>1 DEF c
  <2>4. CASE ~(i <= n)
    <3>1. i - n \in 1 .. l - s /\ l - s > 0
      BY <1>1, <2>2, <2>4
    <3>2. s + (i - n) \in 1 .. l
      BY <1>1, <3>1
    <3>3. (c \o b)[i] = a + (s + (i - n))
      BY <1>5, <2>1, <2>4, <3>1, <3>2 DEF l
    <3> QED BY <1>1, <1>4, <2>2, <3>1, <3>3
  <2> QED BY <2>3, <2>4
<1>9. c \o b = d
  <2>1. \A i \in 1 .. m : d[i] = i
    BY DEF d
  <2> QED BY <1>3, <1>6, <1>7, <1>8, <2>1, SeqEqual
<1> QED BY <1>9 DEF b, c, d, l, m

LEMMA FollowedRead ==
  ASSUME LogTypes, FollowerTypes, NEW w \in Writers, KeepsUp(w), Read
  PROVE  KeepsUp(w)'
<1>1. UNCHANGED <<path, data, written, purged, pc>> /\ fpc = "read"
  BY DEF Read
<1>2. Texts' = Texts
  BY <1>1, TextsAre
<1>3. CASE purged
  BY <1>1, <1>3 DEF KeepsUp
<1>4. CASE ~purged
  <2>1. PICK e : Numbered(Texts, e, written) /\ Shows(e)
    BY <1>4 DEF KeepsUp
  <2> DEFINE i == Min(todo)
             n == Len(shown)
             t == Texts[i]
             m == IF n <= e[i] THEN e[i] ELSE n
  <2>2. i \in todo /\ i \in Paths /\ \A j \in todo : i <= j
    BY ReadIs
  <2>3. path[i] # NoFile
    BY <1>1, <2>1, <2>2 DEF Shows
  <2>4. /\ shown' = shown \o SubSeq(t, seen[i] + 1, Len(t))
        /\ seen' = [seen EXCEPT ![i] = Len(t)] /\ fpc' = "read"
        /\ todo' = todo \ {i}
    <3>1. t = data[path[i]]
      BY <2>2, <2>3 DEF Texts, TextOf
    <3> HIDE DEF t
    <3> QED BY <1>1, <2>3, <3>1 DEF Read
  <2> HIDE DEF i
  <2>5. /\ e[i] \in Nat /\ e[i - 1] \in Nat /\ t \in Seq(Nat) /\ i \in Nat
        /\ i \in 0 .. MaxFiles /\ i - 1 \in 0 .. MaxFiles
    BY <2>1, <2>2, Ends
  <2>6. Len(t) = e[i] - e[i - 1] /\ \A j \in 1 .. Len(t) : t[j] = e[i - 1] + j
    BY <2>1, <2>2 DEF Numbered
  <2>7. n \in Nat /\ seen[i] \in Nat /\ seen[i] = Clamp(n - e[i - 1], Len(t)) /\ n <= written
        /\ shown = [j \in 1 .. n |-> j] /\ e[0] = 0
    BY <2>1, <2>2 DEF FollowerTypes, Shows
  <2>8. e[i - 1] <= n
    <3>1. ASSUME NEW j \in Paths, j < i PROVE Texts[j] = <<>> \/ e[j] <= n
      <4>1. j \notin todo
        <5>1. j \in Nat /\ ~(i <= j)
          BY <2>5, <3>1 DEF Paths
        <5> QED BY <2>2, <5>1
      <4>2. path[j] = NoFile \/ e[j] <= n
        BY <1>1, <2>1, <2>2, <3>1, <4>1 DEF Shows
      <4>3. path[j] = NoFile => Texts[j] = <<>>
        BY DEF Texts, TextOf
      <4> QED BY <4>2, <4>3
    <3> HIDE DEF n
    <3> QED BY <2>1, <2>2, <2>7, <3>1, AllBefore
  <2> HIDE DEF t, n
  <2>9. m = IF n <= e[i - 1] + Len(t) THEN e[i - 1] + Len(t) ELSE n
    <3>1. e[i - 1] + Len(t) = e[i]
      BY <2>5, <2>6
    <3> QED BY <3>1
  <2>10. shown' = [j \in 1 .. m |-> j]
    <3>1. [j \in 1 .. n |-> j] \o SubSeq(t, seen[i] + 1, Len(t))
            = [j \in 1 .. (IF n <= e[i - 1] + Len(t) THEN e[i - 1] + Len(t) ELSE n) |-> j]
      BY <2>5, <2>6, <2>7, <2>8, ShowMore
    <3> QED BY <2>4, <2>7, <2>9, <3>1
  <2>11. m \in Nat /\ n <= m /\ e[i] <= m /\ (m # n => m = e[i] /\ n < e[i])
    BY <2>5, <2>7
  <2>12. m <= written
    <3>1. e[i] <= e[MaxFiles] /\ e[MaxFiles] = written
      <4>1. MaxFiles \in 0 .. MaxFiles /\ i <= MaxFiles
        BY <2>5, Sizes0
      <4>2. e[MaxFiles] = written
        BY <2>1 DEF Numbered
      <4> QED BY <2>1, <2>5, <4>1, <4>2, Rising
    <3> QED BY <2>7, <3>1
  <2>13. PICK v : v = m
    OBVIOUS
  <2> HIDE DEF m
  <2>14. Len(shown') = v
    BY <2>10, <2>11, <2>13
  <2>15. ASSUME NEW j \in Paths
         PROVE  seen'[j] = Clamp(v - e[j - 1], Len(Texts[j]))
    <3>1. /\ j \in Nat /\ e[j] \in Nat /\ e[j - 1] \in Nat
          /\ j \in 0 .. MaxFiles /\ j - 1 \in 0 .. MaxFiles
      BY <2>1, Ends
    <3>2. Len(Texts[j]) = e[j] - e[j - 1] /\ e[j - 1] <= e[j]
      <4>1. Len(Texts[j]) = e[j] - e[j - 1]
        BY <2>1 DEF Numbered
      <4> QED BY <2>1, <4>1, Ends
    <3>3. seen'[j] = IF j = i THEN Len(t) ELSE seen[j]
      BY <2>4 DEF FollowerTypes
    <3>4. seen[j] = Clamp(n - e[j - 1], Len(Texts[j]))
      BY <2>1 DEF Shows, n
    <3>5. CASE j = i
      <4>1. seen'[j] = e[j] - e[j - 1]
        BY <2>6, <3>3, <3>5
      <4>2. v - e[j - 1] >= e[j] - e[j - 1]
        BY <2>11, <2>13, <3>1, <3>5
      <4> QED BY <2>11, <2>13, <3>1, <3>2, <4>1, <4>2 DEF Clamp
    <3>6. CASE v = n /\ j # i
      BY <3>3, <3>4, <3>6
    <3>7. CASE v # n /\ j < i
      <4>1. e[j] <= n /\ e[j] <= v
        <5>1. j <= i - 1
          BY <2>5, <3>1, <3>7
        <5>2. e[j] <= e[i - 1]
          BY <2>1, <2>5, <3>1, <5>1, Rising
        <5> QED BY <2>5, <2>7, <2>8, <2>11, <2>13, <3>1, <5>2
      <4>2. Clamp(n - e[j - 1], e[j] - e[j - 1]) = e[j] - e[j - 1]
        BY <2>7, <3>1, <3>2, <4>1 DEF Clamp
      <4>3. Clamp(v - e[j - 1], e[j] - e[j - 1]) = e[j] - e[j - 1]
        BY <2>11, <2>13, <3>1, <3>2, <4>1 DEF Clamp
      <4>4. j # i
        BY <2>5, <3>1, <3>7
      <4> QED BY <3>2, <3>3, <3>4, <4>2, <4>3, <4>4
    <3>8. CASE v # n /\ j > i
      <4>1. n <= e[j - 1] /\ v <= e[j - 1]
        <5>1. i <= j - 1
          BY <2>5, <3>1, <3>8
        <5>2. e[i] <= e[j - 1]
          BY <2>1, <2>5, <3>1, <5>1, Rising
        <5> QED BY <2>5, <2>7, <2>11, <2>13, <3>1, <3>8, <5>2
      <4>2. Clamp(n - e[j - 1], e[j] - e[j - 1]) = 0 /\ Clamp(v - e[j - 1], e[j] - e[j - 1]) = 0
        BY <2>7, <2>11, <2>13, <3>1, <4>1 DEF Clamp
      <4>3. j # i
        BY <2>5, <3>1, <3>8
      <4> QED BY <3>2, <3>3, <3>4, <4>2, <4>3
    <3> QED BY <2>5, <3>1, <3>5, <3>6, <3>7, <3>8
  <2>16. ASSUME NEW k \in todo'
         PROVE  /\ path[k] # NoFile
                /\ \A j \in Paths : j < k /\ j \notin todo' => path[j] = NoFile \/ e[j] <= v
    <3>1. k \in todo /\ path[k] # NoFile
          /\ \A j \in Paths : j < k /\ j \notin todo => path[j] = NoFile \/ e[j] <= n
      BY <1>1, <2>1, <2>4, <2>16 DEF Shows, n
    <3>2. ASSUME NEW j \in Paths, j < k, j \notin todo' PROVE path[j] = NoFile \/ e[j] <= v
      <4>1. CASE j = i
        BY <2>11, <2>13, <4>1
      <4>2. CASE j # i
        <5>1. j \notin todo
          BY <2>4, <3>2, <4>2
        <5>2. path[j] = NoFile \/ e[j] <= n
          BY <3>1, <3>2, <5>1
        <5>3. e[j] \in Nat
          BY <2>1, Ends
        <5> QED BY <2>7, <2>11, <2>13, <5>2, <5>3
      <4> QED BY <4>1, <4>2
    <3> QED BY <3>1, <3>2
  <2>17. Shows(e)'
    <3>1. e[0] = 0 /\ v <= written'
      BY <1>1, <2>7, <2>12, <2>13
    <3>2. shown' = [j \in 1 .. v |-> j]
      BY <2>10, <2>13
    <3> QED BY <1>1, <1>2, <2>4, <2>14, <2>15, <2>16, <3>1, <3>2 DEF Shows
  <2>18. Numbered(Texts', e, written')
    BY <1>1, <1>2, <2>1
  <2> QED BY <1>1, <1>4, <2>17, <2>18 DEF KeepsUp
<1> QED BY <1>3, <1>4

LEMMA FollowedPass ==
  ASSUME LogTypes, FollowerTypes, NEW w \in Writers, KeepsUp(w), Poll \/ EndPass
  PROVE  KeepsUp(w)'
<1>1. UNCHANGED <<path, data, written, purged, pc, seen, shown>>
  BY DEF Poll, EndPass
<1>2. Texts' = Texts
  BY <1>1, TextsAre
<1>3. CASE purged
  BY <1>1, <1>3 DEF KeepsUp
<1>4. CASE ~purged
  <2>1. PICK e : Numbered(Texts, e, written) /\ Shows(e)
    BY <1>4 DEF KeepsUp
  <2>2. \/ fpc' = "poll"
        \/ fpc' = "read" /\ todo' = Existing
    BY DEF Poll, EndPass
  <2>3. \A j \in Paths : j \notin Existing <=> path[j] = NoFile
    BY DEF Existing
  <2>4. Existing \subseteq Paths
    BY DEF Existing
  <2>5. Shows(e)'
    <3>1. CASE fpc' = "poll"
      BY <1>1, <1>2, <2>1, <3>1 DEF Shows
    <3>2. CASE fpc' = "read" /\ todo' = Existing
      <4>1. \A i \in todo' : /\ path[i] # NoFile
                             /\ \A j \in Paths : j < i /\ j \notin todo' => path[j] = NoFile
        BY <2>3, <2>4, <3>2
      <4> QED BY <1>1, <1>2, <2>1, <3>2, <4>1 DEF Shows
    <3> QED BY <2>2, <3>1, <3>2
  <2>6. Numbered(Texts', e, written')
    BY <1>1, <1>2, <2>1
  <2> QED BY <1>1, <1>4, <2>5, <2>6 DEF KeepsUp
<1> QED BY <1>3, <1>4

LEMMA FollowedStep ==
  ASSUME LogInv, NEW w \in Writers, Writers = {w}, One(w), KeepsUp(w), [Next]_vars
  PROVE  KeepsUp(w)'
<1>1. LogTypes /\ FollowerTypes /\ Handler(w)
  BY DEF LogInv
<1>2. CASE \/ Start(w) \/ Emit(w) \/ Discard(w) \/ Rotate(w)
           \/ RotationFails(w) \/ Crash(w) \/ Close(w)
  <2>1. UNCHANGED <<path, data, written, purged, followVars>>
    BY <1>2 DEF Start, Emit, Discard, Rotate, RotationFails, Crash, Close
  <2>2. pc'[w] # "shift"
    BY <1>1, <1>2 DEF Start, Emit, Discard, Rotate, RotationFails, Crash, Close, LogTypes
  <2>3. Texts' = Texts
    BY <2>1, TextsAre
  <2> QED BY <2>1, <2>2, <2>3, ShowsKept
<1>3. CASE Write(w)
  BY <1>1, <1>3, FollowedWrite
<1>4. CASE Open(w)
  BY <1>1, <1>4, FollowedOpen
<1>5. CASE Unlink(w)
  BY <1>5 DEF Unlink, KeepsUp
<1>6. CASE Shift(w)
  BY <1>6 DEF Shift, KeepsUp
<1>7. CASE Read
  BY <1>1, <1>7, FollowedRead
<1>8. CASE Poll \/ EndPass
  BY <1>1, <1>8, FollowedPass
<1>9. CASE UNCHANGED vars
  <2>1. Texts' = Texts
    BY <1>9, TextsAre
  <2> QED BY <1>9, <2>1 DEF KeepsUp, Shows
<1> QED
  BY <1>2, <1>3, <1>4, <1>5, <1>6, <1>7, <1>8, <1>9 DEF Next, HandlerStep, FollowerStep

LEMMA FollowedInit ==
  ASSUME NEW w \in Writers, Inherited = FALSE, Init
  PROVE  KeepsUp(w)
<1>1. /\ pc[w] = "off" /\ fpc = "poll" /\ seen = [i \in Paths |-> 0] /\ shown = <<>> /\ written = 0
      /\ path = [i \in Paths |-> NoFile]
  BY DEF Init
<1>2. PICK e : e = [i \in 0 .. MaxFiles |-> 0]
  OBVIOUS
<1>3. Texts = [i \in Paths |-> <<>>]
  BY <1>1, TextsAre
<1>4. ASSUME NEW i \in Paths
      PROVE  Texts[i] = <<>> /\ i \in 0 .. MaxFiles /\ i - 1 \in 0 .. MaxFiles
  BY <1>3, Sizes0 DEF Paths
<1>5. 0 \in 0 .. MaxFiles /\ MaxFiles \in 0 .. MaxFiles
  BY Sizes0
<1>6. Numbered(Texts, e, written)
  <2>1. Texts \in [Paths -> Seq(Nat)] /\ e \in [0 .. MaxFiles -> Nat] /\ e[MaxFiles] = written
    BY <1>1, <1>2, <1>3, <1>5
  <2>2. ASSUME NEW i \in Paths
        PROVE  /\ Len(Texts[i]) = e[i] - e[i - 1]
               /\ \A j \in 1 .. Len(Texts[i]) : Texts[i][j] = e[i - 1] + j
    <3>1. Len(Texts[i]) = 0 /\ e[i] = 0 /\ e[i - 1] = 0
      BY <1>2, <1>4
    <3> QED BY <3>1
  <2> QED BY <2>1, <2>2 DEF Numbered
<1>7. Shows(e)
  <2>1. Len(shown) = 0 /\ shown = [i \in 1 .. 0 |-> i] /\ e[0] = 0
    BY <1>1, <1>2, <1>5
  <2>2. ASSUME NEW i \in Paths PROVE seen[i] = Clamp(Len(shown) - e[i - 1], Len(Texts[i]))
    <3>1. seen[i] = 0 /\ e[i - 1] = 0
      BY <1>1, <1>2, <1>4
    <3> QED BY <2>1, <3>1 DEF Clamp
  <2> QED BY <1>1, <2>1, <2>2 DEF Shows
<1> QED BY <1>1, <1>6, <1>7 DEF KeepsUp

\* Until a file of a logger of one process is purged, the follower shows its
\* lines in order, each once, and nothing ends its thread.
THEOREM FollowerKeepsUp ==
  ASSUME NEW w, Writers = {w}, Inherited = FALSE
  PROVE  Spec => []FollowedInOrder
<1>1. w \in Writers
  OBVIOUS
<1>2. Init => KeepsUp(w)
  BY <1>1, FollowedInit
<1>3. LogInv /\ One(w) /\ KeepsUp(w) /\ [Next]_vars => KeepsUp(w)'
  BY <1>1, FollowedStep
<1>4. KeepsUp(w) => FollowedInOrder
  BY DEF KeepsUp, Shows, FollowedInOrder
<1>5. Spec => []One(w)
  BY OneProcess
<1> QED BY <1>2, <1>3, <1>4, <1>5, Logging, PTL DEF Spec

-------------------------------------------------------------------------------
(* What a logger of one process keeps. *)

\* The elements of N before k.
Before(N, k) == Cardinality(N \cap (1 .. k - 1))

LEMMA BeforeIs ==
  ASSUME NEW N \in SUBSET Paths, NEW k \in Nat
  PROVE  /\ IsFiniteSet(N) /\ Cardinality(N) \in Nat /\ Before(N, k) \in Nat
         /\ Before(N, k) <= Cardinality(N)
         /\ k > MaxFiles => Before(N, k) = Cardinality(N)
         /\ \A M \in SUBSET N : Before(M, k) <= Before(N, k) /\ Cardinality(M) <= Cardinality(N)
<1>1. IsFiniteSet(N) /\ Cardinality(N) \in Nat
  <2>1. IsFiniteSet(Paths)
    BY Sizes0, FS_Interval DEF Paths
  <2> QED BY <2>1, FS_Subset, FS_CardinalityType
<1> DEFINE B == N \cap (1 .. k - 1)
<1>2. IsFiniteSet(B) /\ Cardinality(B) <= Cardinality(N)
  <2>1. B \in SUBSET N
    OBVIOUS
  <2> QED BY <1>1, <2>1, FS_Subset
<1>3. Cardinality(B) \in Nat
  BY <1>2, FS_CardinalityType
<1>4. k > MaxFiles => B = N
  <2>1. ASSUME k > MaxFiles, NEW x \in N PROVE x \in 1 .. k - 1
    <3>1. x \in 1 .. MaxFiles
      BY DEF Paths
    <3> QED BY <2>1, <3>1, Sizes0
  <2> QED BY <2>1
<1>5. ASSUME NEW M \in SUBSET N
      PROVE  Before(M, k) <= Before(N, k) /\ Cardinality(M) <= Cardinality(N)
  <2>1. M \cap (1 .. k - 1) \in SUBSET B
    OBVIOUS
  <2> HIDE DEF B
  <2>2. Cardinality(M \cap (1 .. k - 1)) <= Cardinality(B)
    BY <1>2, <2>1, FS_Subset
  <2>3. Cardinality(M) <= Cardinality(N)
    BY <1>1, FS_Subset
  <2> QED BY <2>2, <2>3 DEF Before, B
<1> QED BY <1>1, <1>2, <1>3, <1>4, <1>5 DEF Before

LEMMA BeforeNext ==
  ASSUME NEW N \in SUBSET Paths, NEW k \in Nat, k >= 1
  PROVE  Before(N, k + 1) = IF k \in N THEN Before(N, k) + 1 ELSE Before(N, k)
<1> DEFINE B == N \cap (1 .. k - 1)
           C == N \cap (1 .. (k + 1) - 1)
<1>1. IsFiniteSet(B)
  <2>1. IsFiniteSet(N)
    BY BeforeIs
  <2>2. B \in SUBSET N
    OBVIOUS
  <2> QED BY <2>1, <2>2, FS_Subset
<1>2. CASE k \in N
  <2>1. C = B \cup {k}
    BY <1>2
  <2>2. k \notin B
    OBVIOUS
  <2> HIDE DEF B, C
  <2>3. Cardinality(C) = Cardinality(B) + 1
    BY <1>1, <2>1, <2>2, FS_AddElement
  <2> QED BY <1>2, <2>3 DEF Before, B, C
<1>3. CASE k \notin N
  <2>1. C = B
    BY <1>3 DEF Paths
  <2> QED BY <1>3, <2>1 DEF Before
<1> QED BY <1>2, <1>3

\* Products with a natural.
LEMMA Products ==
  ASSUME NEW x \in Int, NEW y \in Int, NEW m \in Nat
  PROVE  /\ x * m \in Int /\ (x + 1) * m = x * m + m
         /\ x <= y => x * m <= y * m
<1>1. x * m \in Int /\ (x + 1) * m = x * m + m
  OBVIOUS
<1>2. ASSUME x <= y PROVE x * m <= y * m
  <2> DEFINE d == y - x
  <2>1. d \in Nat /\ y = x + d
    BY <1>2
  <2> HIDE DEF d
  <2>2. (x + d) * m = x * m + d * m /\ d * m >= 0
    BY <2>1
  <2> QED BY <2>1, <2>2
<1> QED BY <1>1, <1>2

\* The texts that are full hold their lines.
LEMMA FullTexts ==
  ASSUME NEW T, NEW e, NEW n, Numbered(T, e, n), NEW m \in Nat,
         NEW N, N = {i \in Paths : Len(T[i]) # m}
  PROVE  n - e[0] >= (MaxFiles - Cardinality(N)) * m
<1> DEFINE Good(k) == e[k] - e[0] >= (k - Before(N, k + 1)) * m
           S == {k \in Nat : k <= MaxFiles => Good(k)}
<1>1. N \in SUBSET Paths /\ e[0] \in Nat
  BY Ends
<1>2. 0 \in S
  <2>1. N \cap (1 .. (0 + 1) - 1) = {}
    OBVIOUS
  <2>2. Before(N, 0 + 1) = 0
    BY <2>1, FS_EmptySet DEF Before
  <2>3. (0 - 0) * m = 0
    OBVIOUS
  <2> QED BY <1>1, <2>2, <2>3
<1>3. \A k \in S : k + 1 \in S
  <2> TAKE k \in S
  <2> DEFINE l == k + 1
             b == Before(N, l)
             c == Before(N, l + 1)
  <2> SUFFICES ASSUME l <= MaxFiles PROVE Good(l)
    OBVIOUS
  <2>1. k \in Nat /\ l \in Nat /\ l >= 1 /\ l \in Paths /\ l - 1 = k
    BY DEF Paths
  <2>2. e[k] - e[0] >= (k - b) * m
    BY <2>1, Sizes0
  <2>3. b \in Nat
    BY <1>1, <2>1, BeforeIs
  <2>4. c = IF l \in N THEN b + 1 ELSE b
    <3> HIDE DEF l
    <3> QED BY <1>1, <2>1, BeforeNext
  <2>5. e[l] \in Nat /\ e[k] \in Nat /\ e[k] <= e[l] /\ Len(T[l]) = e[l] - e[k]
    <3> HIDE DEF l
    <3>1. e[l] \in Nat /\ e[l - 1] \in Nat /\ e[l - 1] <= e[l]
      BY <2>1, Ends
    <3>2. Len(T[l]) = e[l] - e[l - 1]
      BY <2>1 DEF Numbered
    <3> QED BY <2>1, <3>1, <3>2
  <2>6. l \notin N => e[l] - e[k] = m
    BY <2>1, <2>5
  <2>7. l = k + 1
    OBVIOUS
  <2> HIDE DEF b, c, l
  <2>8. e[l] - e[0] >= (l - c) * m
    <3>1. CASE l \in N
      <4>1. l - c = k - b
        BY <2>1, <2>3, <2>4, <2>7, <3>1
      <4>2. (k - b) * m \in Int
        BY <2>1, <2>3, Products
      <4> QED BY <1>1, <2>2, <2>5, <4>1, <4>2
    <3>2. CASE l \notin N
      <4> DEFINE x == k - b
      <4>1. x \in Int /\ l - c = x + 1
        BY <2>1, <2>3, <2>4, <2>7, <3>2
      <4>2. e[k] - e[0] >= x * m
        BY <2>2
      <4> HIDE DEF x
      <4>3. (x + 1) * m = x * m + m /\ x * m \in Int
        BY <4>1, Products
      <4> QED BY <1>1, <2>5, <2>6, <3>2, <4>1, <4>2, <4>3
    <3> QED BY <3>1, <3>2
  <2> QED BY <2>8 DEF c
<1>4. S = Nat
  <2>1. S \in SUBSET Nat
    OBVIOUS
  <2> HIDE DEF S
  <2> QED BY <1>2, <1>3, <2>1, SetInduction
<1>5. Good(MaxFiles)
  <2> HIDE DEF Good
  <2>1. MaxFiles \in S /\ MaxFiles <= MaxFiles
    <3>1. MaxFiles \in Nat
      BY Sizes0
    <3> HIDE DEF S
    <3> QED BY <1>4, <3>1
  <2> QED BY <2>1
<1>6. Before(N, MaxFiles + 1) = Cardinality(N)
  BY <1>1, Sizes0, BeforeIs
<1>7. e[MaxFiles] = n
  BY DEF Numbered
<1> QED BY <1>5, <1>6, <1>7

NotFull == {i \in Paths : Len(Texts[i]) # MaxLines}

\* Files that are not full are few: at most one for each crash or failure below
\* any file that is there, and one more that a rotation makes room for.
Room(w) ==
  LET i == index[w] IN
  /\ purged => Cardinality(NotFull) <= cuts + 1
  /\ pc[w] # "shift" => \A k \in Existing : Before(NotFull, k) <= cuts
  /\ pc[w] \in {"idle", "write"} =>
       \/ i \in Paths /\ path[i] # NoFile /\ Len(Texts[i]) = count[w]
       \/ Before(NotFull, i + 1) <= cuts
  /\ pc[w] \in {"rotate", "unlink"} => Before(NotFull, i + 1) <= cuts
  /\ pc[w] = "shift" => Cardinality(NotFull) <= cuts + 1
  /\ pc[w] = "open" => Before(NotFull, i) <= cuts

\* The facts about counts that every step uses.
LEMMA Counts ==
  ASSUME LogTypes
  PROVE  /\ NotFull \in SUBSET Paths /\ cuts \in Nat /\ index \in [Writers -> Nat]
         /\ Cardinality(NotFull) \in Nat /\ Existing \subseteq Nat
         /\ \A k \in Nat : /\ Before(NotFull, k) \in Nat
                           /\ Before(NotFull, k) <= Cardinality(NotFull)
                           /\ k > MaxFiles => Before(NotFull, k) = Cardinality(NotFull)
<1>1. NotFull \in SUBSET Paths
  BY DEF NotFull
<1>2. cuts \in Nat /\ index \in [Writers -> Nat]
  BY Sizes0 DEF LogTypes
<1>3. 0 \in Nat /\ Existing \subseteq Nat
  BY DEF Existing, Paths
<1> QED BY <1>1, <1>2, <1>3, BeforeIs

\* In a full newest file nothing is missing.
LEMMA FullIndex ==
  ASSUME LogTypes, NEW i \in Paths, path[i] # NoFile, Len(Texts[i]) = MaxLines,
         \A k \in Existing : Before(NotFull, k) <= cuts
  PROVE  Before(NotFull, i + 1) <= cuts
<1>1. i \notin NotFull /\ i \in Existing /\ i \in Nat /\ i >= 1
  BY DEF NotFull, Existing, Paths
<1>2. Before(NotFull, i + 1) = Before(NotFull, i)
  BY <1>1, Counts, BeforeNext
<1> QED BY <1>1, <1>2

LEMMA RoomStart ==
  ASSUME LogTypes, NEW w \in Writers, Handler(w), One(w), Room(w), Start(w)
  PROVE  Room(w)'
<1>1. pc[w] = "off" /\ UNCHANGED <<path, data, cuts, purged>>
  BY DEF Start
<1>2. Texts' = Texts /\ Existing' = Existing
  BY <1>1, TextsAre DEF Existing
<1>3. NotFull' = NotFull
  BY <1>2 DEF NotFull
<1>4. \A k \in Existing : Before(NotFull, k) <= cuts
  BY <1>1 DEF Room
<1>5. CASE Existing = {}
  <2>1. pc'[w] = "rotate" /\ index'[w] = 0
    BY <1>1, <1>5 DEF Start, Handler, LogTypes
  <2>2. NotFull \cap (1 .. (0 + 1) - 1) = {}
    OBVIOUS
  <2>3. Before(NotFull, 0 + 1) = 0 /\ 0 <= cuts
    BY <2>2, Counts, FS_EmptySet DEF Before
  <2> QED BY <1>1, <1>2, <1>3, <1>4, <2>1, <2>3 DEF Room
<1>6. CASE Existing # {}
  <2> DEFINE i == Max(Existing)
             n == LinesOf(path[i])
  <2>1. i \in Existing
    BY <1>6, MaxIs DEF Existing
  <2>2. i \in Paths /\ path[i] \in Files /\ path[i] # NoFile
    BY <2>1 DEF Existing, LogTypes
  <2>3. n = Len(Texts[i]) /\ Texts[i] = data[path[i]] /\ n <= MaxLines /\ n \in Nat
    <3>1. data[path[i]] \in Seq(Nat)
      BY <2>2 DEF LogTypes
    <3>2. n = Len(data[path[i]])
      BY <2>2, <3>1, NoHoles DEF One
    <3>3. Texts[i] = data[path[i]]
      BY <2>2 DEF Texts, TextOf
    <3> HIDE DEF i
    <3> QED BY <2>2, <3>1, <3>2, <3>3 DEF One, Disk
  <2> HIDE DEF n, i
  <2>4. /\ index' = [index EXCEPT ![w] = i] /\ count' = [count EXCEPT ![w] = n]
        /\ \/ Full(n) /\ pc' = [pc EXCEPT ![w] = "rotate"]
           \/ ~Full(n) /\ pc' = [pc EXCEPT ![w] = "idle"]
    BY <1>6 DEF Start, i, n
  <2>5. /\ index'[w] = i /\ count'[w] = n
        /\ \/ Full(n) /\ pc'[w] = "rotate"
           \/ pc'[w] = "idle"
    BY <2>4 DEF LogTypes
  <2>6. Full(n) => Before(NotFull, i + 1) <= cuts
    <3> SUFFICES ASSUME Full(n) PROVE Before(NotFull, i + 1) <= cuts
      OBVIOUS
    <3>1. Len(Texts[i]) = MaxLines
      BY <2>3, Sizes0 DEF Full
    <3> QED BY <1>4, <2>2, <3>1, FullIndex
  <2> QED BY <1>1, <1>2, <1>3, <1>4, <2>2, <2>3, <2>5, <2>6 DEF Room
<1> QED BY <1>5, <1>6

LEMMA RoomEmit ==
  ASSUME LogTypes, NEW w \in Writers, One(w), Room(w), Emit(w) \/ Discard(w) \/ Close(w)
  PROVE  Room(w)'
<1>1. /\ UNCHANGED <<path, data, cuts, purged, index, count>>
      /\ pc[w] \in {"idle", "write"}
      /\ \/ pc'[w] \in {"idle", "write"}
         \/ pc'[w] = "rotate" /\ Full(count[w])
  BY DEF Emit, Discard, Close, LogTypes
<1>2. Texts' = Texts /\ Existing' = Existing
  BY <1>1, TextsAre DEF Existing
<1>3. NotFull' = NotFull
  BY <1>2 DEF NotFull
<1>4. \A k \in Existing : Before(NotFull, k) <= cuts
  BY <1>1 DEF Room
<1>5. CASE pc'[w] \in {"idle", "write"}
  BY <1>1, <1>2, <1>3, <1>5 DEF Room
<1>6. CASE pc'[w] = "rotate" /\ Full(count[w])
  <2> DEFINE i == index[w]
  <2>1. Before(NotFull, i + 1) <= cuts
    <3>1. CASE i \in Paths /\ path[i] # NoFile /\ Len(Texts[i]) = count[w]
      <4>1. Texts[i] = data[path[i]] /\ path[i] \in Files
        BY <3>1 DEF Texts, TextOf, LogTypes
      <4>2. Len(Texts[i]) <= MaxLines
        BY <4>1 DEF One, Disk
      <4>3. Len(Texts[i]) = MaxLines
        BY <1>6, <3>1, <4>2, Sizes0 DEF Full, LogTypes
      <4> HIDE DEF i
      <4> QED BY <1>4, <3>1, <4>3, FullIndex
    <3> QED BY <1>1, <3>1 DEF Room
  <2> QED BY <1>1, <1>2, <1>3, <1>4, <1>6, <2>1 DEF Room
<1> QED BY <1>1, <1>5, <1>6

LEMMA RoomCut ==
  ASSUME LogTypes, NEW w \in Writers, Handler(w), Room(w), RotationFails(w) \/ Crash(w)
  PROVE  Room(w)'
<1> DEFINE i == index[w]
<1>1. /\ UNCHANGED <<path, data, purged>> /\ cuts' = cuts + 1
      /\ \/ pc'[w] = "off"
         \/ pc'[w] = "idle" /\ index'[w] = i /\ pc[w] \in Rotating
  BY DEF RotationFails, Crash, LogTypes, Rotating
<1>2. Texts' = Texts /\ Existing' = Existing
  BY <1>1, TextsAre DEF Existing
<1>3. NotFull' = NotFull
  BY <1>2 DEF NotFull
<1>4. \A k \in Existing : Before(NotFull, k) <= cuts + 1
  <2> TAKE k \in Existing
  <2>1. k \in Nat /\ Before(NotFull, k) \in Nat /\ cuts \in Nat
        /\ Before(NotFull, k) <= Cardinality(NotFull) /\ Cardinality(NotFull) \in Nat
    BY Counts
  <2>2. Before(NotFull, k) <= cuts \/ Cardinality(NotFull) <= cuts + 1
    BY DEF Room
  <2> QED BY <2>1, <2>2
<1>5. purged => Cardinality(NotFull) <= cuts + 1 + 1
  BY Counts DEF Room
<1>6. pc[w] \in Rotating => Before(NotFull, i + 1) <= cuts + 1
  <2> SUFFICES ASSUME pc[w] \in Rotating PROVE Before(NotFull, i + 1) <= cuts + 1
    OBVIOUS
  <2>1. i \in Nat /\ cuts \in Nat
    BY Counts
  <2> HIDE DEF i
  <2>2. i + 1 \in Nat
    BY <2>1
  <2> DEFINE b == Before(NotFull, i + 1)
             c == Before(NotFull, i)
             n == Cardinality(NotFull)
  <2>3. b \in Nat /\ c \in Nat /\ n \in Nat /\ b <= n
    BY <2>1, <2>2, Counts
  <2> SUFFICES b <= cuts + 1
    OBVIOUS
  <2>4. CASE pc[w] = "unlink"
    <3>1. b <= cuts
      BY <2>4 DEF Room, i
    <3> HIDE DEF b
    <3> QED BY <2>1, <2>3, <3>1
  <2>5. CASE pc[w] = "shift"
    <3>1. n <= cuts + 1
      BY <2>5 DEF Room
    <3> HIDE DEF b, n
    <3> QED BY <2>1, <2>3, <3>1
  <2>6. CASE pc[w] = "open"
    <3>1. c <= cuts
      BY <2>6 DEF Room, i
    <3>2. i >= 1
      BY <2>6 DEF Handler, Paths, i
    <3>3. b <= c + 1
      <4>1. b = IF i \in NotFull THEN c + 1 ELSE c
        BY <2>1, <3>2, Counts, BeforeNext
      <4> HIDE DEF b, c
      <4> QED BY <2>3, <4>1
    <3> HIDE DEF b, c
    <3> QED BY <2>1, <2>3, <3>1, <3>3
  <2> QED BY <2>4, <2>5, <2>6 DEF Rotating
<1> HIDE DEF i
<1> QED BY <1>1, <1>2, <1>3, <1>4, <1>5, <1>6 DEF Room

LEMMA RoomRotate ==
  ASSUME LogTypes, NEW w \in Writers, Room(w), Rotate(w)
  PROVE  Room(w)'
<1>1. /\ UNCHANGED <<path, data, cuts, purged>> /\ pc[w] = "rotate"
      /\ index'[w] = index[w] + 1 /\ index[w] \in Nat
      /\ pc'[w] = IF index'[w] > MaxFiles THEN "unlink" ELSE "open"
  BY DEF Rotate, LogTypes
<1>2. Texts' = Texts /\ Existing' = Existing
  BY <1>1, TextsAre DEF Existing
<1>3. NotFull' = NotFull
  BY <1>2 DEF NotFull
<1>4. Before(NotFull, index'[w]) <= cuts
  BY <1>1 DEF Room
<1>5. index'[w] > MaxFiles => Before(NotFull, index'[w] + 1) <= cuts
  <2> DEFINE i == index'[w]
  <2> SUFFICES ASSUME i > MaxFiles PROVE Before(NotFull, i + 1) <= cuts
    OBVIOUS
  <2>1. i \in Nat /\ i + 1 \in Nat /\ i + 1 > MaxFiles
    BY <1>1, Sizes0
  <2> HIDE DEF i
  <2>2. Before(NotFull, i) = Cardinality(NotFull) /\ Before(NotFull, i + 1) = Cardinality(NotFull)
    BY <2>1, Counts
  <2> QED BY <1>4, <2>2 DEF i
<1> QED BY <1>1, <1>2, <1>3, <1>4, <1>5 DEF Room

LEMMA RoomUnlink ==
  ASSUME LogTypes, LogTypes', NEW w \in Writers, Handler(w), Room(w), Unlink(w)
  PROVE  Room(w)'
<1>1. /\ pc[w] = "unlink" /\ cuts' = cuts
      /\ \/ MaxFiles = 1 /\ pc'[w] = "open" /\ index'[w] = 1
         \/ pc'[w] = "shift"
  BY DEF Unlink, LogTypes
<1>2. Texts' = [Texts EXCEPT ![1] = <<>>]
  BY UnlinkTexts
<1>3. NotFull' \subseteq NotFull \cup {1}
  <2>1. Texts = [k \in Paths |-> Texts[k]]
    BY TextsAre
  <2>2. \A k \in Paths : k # 1 => Texts'[k] = Texts[k]
    BY <1>2, <2>1
  <2> QED BY <2>2 DEF NotFull
<1>4. Cardinality(NotFull) <= cuts
  <2>1. index[w] > MaxFiles /\ index[w] \in Nat
    BY <1>1 DEF Handler, LogTypes
  <2>2. index[w] + 1 \in Nat /\ index[w] + 1 > MaxFiles
    BY <2>1, Sizes0
  <2>3. Before(NotFull, index[w] + 1) = Cardinality(NotFull)
    BY <2>2, Counts
  <2> QED BY <1>1, <2>3 DEF Room
<1>5. Cardinality(NotFull') <= cuts + 1
  <2>1. IsFiniteSet(NotFull) /\ Cardinality(NotFull) \in Nat
    <3>1. 0 \in Nat
      OBVIOUS
    <3> QED BY <3>1, Counts, BeforeIs
  <2>2. /\ IsFiniteSet(NotFull \cup {1})
        /\ Cardinality(NotFull \cup {1}) = IF 1 \in NotFull THEN Cardinality(NotFull)
                                           ELSE Cardinality(NotFull) + 1
    BY <2>1, FS_AddElement
  <2>3. Cardinality(NotFull \cup {1}) <= Cardinality(NotFull) + 1
    BY <2>1, <2>2
  <2>4. Cardinality(NotFull') <= Cardinality(NotFull \cup {1}) /\ Cardinality(NotFull') \in Nat
    BY <1>3, <2>2, FS_Subset, FS_CardinalityType
  <2>5. cuts \in Nat
    BY Counts
  <2> DEFINE a == Cardinality(NotFull')
             b == Cardinality(NotFull \cup {1})
             c == Cardinality(NotFull)
  <2>6. a \in Nat /\ a <= b /\ b <= c + 1 /\ c <= cuts /\ c \in Nat /\ b \in Nat
    BY <1>4, <2>1, <2>2, <2>3, <2>4, FS_CardinalityType
  <2> HIDE DEF a, b, c
  <2>7. a <= cuts + 1
    BY <2>5, <2>6
  <2> QED BY <2>7 DEF a
<1>6. CASE pc'[w] = "shift"
  BY <1>1, <1>5, <1>6 DEF Room
<1>7. CASE MaxFiles = 1 /\ pc'[w] = "open" /\ index'[w] = 1
  <2>1. NotFull' \cap (1 .. 1 - 1) = {}
    OBVIOUS
  <2>2. Before(NotFull', 1) = 0
    BY <2>1, FS_EmptySet DEF Before
  <2>3. \A k \in Existing' : k = 1
    BY <1>7 DEF Existing, Paths
  <2>4. 0 <= cuts'
    BY <1>1, Counts
  <2> QED BY <1>1, <1>5, <1>7, <2>2, <2>3, <2>4 DEF Room
<1> QED BY <1>1, <1>6, <1>7

LEMMA RoomShift ==
  ASSUME LogTypes, LogTypes', NEW w \in Writers, Handler(w), One(w), Room(w), Shift(w)
  PROVE  Room(w)'
<1> DEFINE k == next[w]
<1>1. /\ pc[w] = "shift" /\ UNCHANGED <<cuts, purged>>
      /\ pc'[w] = IF k = MaxFiles THEN "open" ELSE "shift"
      /\ k = MaxFiles => index'[w] = MaxFiles
  BY DEF Shift, LogTypes
<1>2. /\ k \in 2 .. MaxFiles /\ k \in Paths /\ k - 1 \in Paths /\ k \in Nat /\ k # k - 1
      /\ Texts[k - 1] = <<>>
      /\ Texts' = [Texts EXCEPT ![k - 1] = Texts[k], ![k] = <<>>]
  BY ShiftTexts
<1> HIDE DEF k
<1>3. Len(<<>>) # MaxLines
  BY Sizes0
<1>4. \A i \in Paths : Texts'[i] = IF i = k THEN <<>> ELSE IF i = k - 1 THEN Texts[k] ELSE Texts[i]
  <2>1. Texts = [i \in Paths |-> Texts[i]]
    BY TextsAre
  <2> QED BY <1>2, <2>1
<1>5. k \in NotFull' /\ k - 1 \in NotFull
  BY <1>2, <1>3, <1>4 DEF NotFull
<1>6. \A i \in Paths : i # k /\ i # k - 1 => (i \in NotFull' <=> i \in NotFull)
  BY <1>4 DEF NotFull
<1>7. k - 1 \in NotFull' <=> k \in NotFull
  BY <1>2, <1>4 DEF NotFull
<1>8. NotFull \subseteq Paths /\ NotFull' \subseteq Paths
  BY DEF NotFull
<1>9. IsFiniteSet(NotFull) /\ Cardinality(NotFull) \in Nat /\ cuts \in Nat
  <2>1. 0 \in Nat
    OBVIOUS
  <2> QED BY <2>1, Counts, BeforeIs
<1>10. Cardinality(NotFull') = Cardinality(NotFull)
  <2>1. CASE k \in NotFull
    <3>1. NotFull' = NotFull
      BY <1>5, <1>6, <1>7, <1>8, <2>1
    <3> QED BY <3>1
  <2>2. CASE k \notin NotFull
    <3> DEFINE R == NotFull \ {k - 1}
    <3>1. NotFull' = R \cup {k} /\ k \notin R
      BY <1>5, <1>6, <1>7, <1>8, <1>2, <2>2
    <3>2. IsFiniteSet(R) /\ Cardinality(R) = Cardinality(NotFull) - 1
      BY <1>5, <1>9, FS_RemoveElement
    <3> HIDE DEF R
    <3>3. Cardinality(R \cup {k}) = Cardinality(R) + 1
      BY <3>1, <3>2, FS_AddElement
    <3> QED BY <1>9, <3>1, <3>2, <3>3
  <2> QED BY <2>1, <2>2
<1>11. Cardinality(NotFull') <= cuts + 1
  BY <1>1, <1>10 DEF Room
<1>12. CASE k # MaxFiles
  BY <1>1, <1>11, <1>12 DEF Room
<1>13. CASE k = MaxFiles
  <2> DEFINE b == Before(NotFull', MaxFiles)
             c == Before(NotFull', MaxFiles + 1)
  <2>1. MaxFiles \in Nat /\ MaxFiles >= 1 /\ MaxFiles + 1 \in Nat /\ MaxFiles + 1 > MaxFiles
    BY Sizes0
  <2>2. c = b + 1
    BY <1>5, <1>8, <1>13, <2>1, BeforeNext
  <2>3. c = Cardinality(NotFull') /\ b \in Nat
    BY <1>8, <2>1, BeforeIs
  <2> HIDE DEF c
  <2>4. b <= cuts
    <3> HIDE DEF b
    <3> QED BY <1>9, <1>11, <2>2, <2>3
  <2>5. ASSUME NEW i \in Existing' PROVE Before(NotFull', i) <= cuts
    <3>1. i \in Paths /\ i \in Nat /\ i <= MaxFiles
      BY Sizes0 DEF Existing, Paths
    <3>2. NotFull' \cap (1 .. i - 1) \subseteq NotFull' \cap (1 .. MaxFiles - 1)
      BY <2>1, <3>1
    <3>3. IsFiniteSet(NotFull')
      BY <1>8, <2>1, BeforeIs
    <3>4. IsFiniteSet(NotFull' \cap (1 .. MaxFiles - 1))
      BY <3>3, FS_Subset
    <3>5. Before(NotFull', i) <= b
      BY <3>2, <3>4, FS_Subset DEF Before
    <3>6. Before(NotFull', i) \in Nat
      BY <1>8, <3>1, BeforeIs
    <3> HIDE DEF b
    <3> QED BY <1>9, <2>3, <2>4, <3>5, <3>6
  <2> QED BY <1>1, <1>11, <1>13, <2>4, <2>5 DEF Room
<1> QED BY <1>12, <1>13

LEMMA RoomOpen ==
  ASSUME LogTypes, NEW w \in Writers, Handler(w), One(w), Room(w), Open(w)
  PROVE  Room(w)'
<1> DEFINE i == index[w]
           f == IF path[i] = NoFile THEN Min(Free) ELSE path[i]
<1>1. /\ i \in Paths /\ f # NoFile /\ Texts' = Texts
      /\ \A j \in Paths : j >= i => path[j] = NoFile
      /\ \A j \in Paths : path'[j] = IF j = i THEN f ELSE path[j]
  BY OpenTexts
<1> HIDE DEF f
<1>2. /\ pc[w] = "open" /\ UNCHANGED <<cuts, purged>>
      /\ count'[w] = 0 /\ pc'[w] \in {"idle", "write"} /\ index'[w] = i
  BY DEF Open, LogTypes
<1> HIDE DEF i
<1>3. NotFull' = NotFull
  BY <1>1 DEF NotFull
<1>4. Texts[i] = <<>> /\ Len(<<>>) = 0
  <2>1. i >= i
    BY <1>1 DEF Paths
  <2> QED BY <1>1, <2>1 DEF Texts, TextOf
<1>5. Existing' = Existing \cup {i}
  BY <1>1 DEF Existing
<1>6. \A k \in Existing' : Before(NotFull, k) <= cuts
  BY <1>2, <1>5 DEF Room, i
<1>7. purged => Cardinality(NotFull) <= cuts + 1
  BY DEF Room
<1> QED BY <1>1, <1>2, <1>3, <1>4, <1>6, <1>7 DEF Room

LEMMA RoomWrite ==
  ASSUME LogTypes, NEW w \in Writers, Handler(w), One(w), Room(w), Write(w)
  PROVE  Room(w)'
<1> DEFINE i == index[w]
           u == Append(Texts[i], written + 1)
<1>1. /\ i \in Paths /\ path[i] # NoFile
      /\ Len(Texts[i]) = count[w] /\ Len(Texts[i]) < MaxLines
      /\ Len(u) = Len(Texts[i]) + 1
      /\ Texts' = [Texts EXCEPT ![i] = u]
  BY WriteTexts
<1> HIDE DEF u
<1>2. /\ pc[w] = "write" /\ pc'[w] = "idle" /\ UNCHANGED <<path, cuts, purged>>
      /\ index'[w] = i /\ count'[w] = count[w] + 1
  BY DEF Write, LogTypes
<1> HIDE DEF i
<1>3. \A k \in Paths : Texts'[k] = IF k = i THEN u ELSE Texts[k]
  <2>1. Texts = [k \in Paths |-> Texts[k]]
    BY TextsAre
  <2> QED BY <1>1, <2>1
<1>4. i \in NotFull
  <2>1. count[w] \in Nat
    BY DEF LogTypes
  <2> QED BY <1>1, <2>1, Sizes0 DEF NotFull
<1>5. NotFull' \in SUBSET NotFull
  BY <1>3, <1>4 DEF NotFull
<1>6. \A k \in Existing' : Before(NotFull', k) <= cuts
  <2> TAKE k \in Existing'
  <2>1. k \in Existing /\ k \in Nat
    BY <1>2 DEF Existing, Paths
  <2>2. Before(NotFull', k) <= Before(NotFull, k)
    BY <1>5, <2>1, Counts, BeforeIs
  <2>3. Before(NotFull, k) <= cuts
    BY <1>2, <2>1 DEF Room
  <2>4. NotFull' \in SUBSET Paths /\ cuts \in Nat /\ Before(NotFull, k) \in Nat
    BY <1>5, <2>1, Counts
  <2>5. Before(NotFull', k) \in Nat
    BY <2>1, <2>4, BeforeIs
  <2> QED BY <2>2, <2>3, <2>4, <2>5
<1>7. purged => Cardinality(NotFull') <= cuts + 1
  <2>1. 0 \in Nat
    OBVIOUS
  <2>2. Cardinality(NotFull') <= Cardinality(NotFull) /\ Cardinality(NotFull) \in Nat
    BY <1>5, <2>1, Counts, BeforeIs
  <2>3. NotFull' \in SUBSET Paths /\ cuts \in Nat
    BY <1>5, Counts
  <2>4. Cardinality(NotFull') \in Nat
    BY <2>1, <2>3, BeforeIs
  <2> QED BY <2>2, <2>3, <2>4 DEF Room
<1>8. i \in Paths /\ path'[i] # NoFile /\ Len(Texts'[i]) = count'[w]
  BY <1>1, <1>2, <1>3
<1> QED BY <1>2, <1>6, <1>7, <1>8 DEF Room

LEMMA RoomStep ==
  ASSUME LogInv, LogInv', NEW w \in Writers, Writers = {w}, One(w), Room(w), [Next]_vars
  PROVE  Room(w)'
<1>1. LogTypes /\ Handler(w) /\ LogTypes'
  BY DEF LogInv
<1>2. CASE FollowerStep \/ UNCHANGED vars
  <2>1. UNCHANGED <<path, data, cuts, purged, index, count, pc>>
    BY <1>2 DEF FollowerStep, Poll, Read, EndPass
  <2>2. Texts' = Texts /\ Existing' = Existing
    BY <2>1, TextsAre DEF Existing
  <2>3. NotFull' = NotFull
    BY <2>2 DEF NotFull
  <2> QED BY <2>1, <2>2, <2>3 DEF Room
<1>3. CASE HandlerStep(w) \/ RotationFails(w) \/ Crash(w) \/ Close(w)
  BY <1>1, <1>3, RoomStart, RoomEmit, RoomWrite, RoomRotate, RoomUnlink, RoomShift, RoomOpen,
     RoomCut
  DEF HandlerStep
<1> QED BY <1>2, <1>3 DEF Next

LEMMA RoomInit ==
  ASSUME NEW w \in Writers, Inherited = FALSE, Init
  PROVE  Room(w)
<1>1. pc[w] = "off" /\ purged = FALSE /\ path = [i \in Paths |-> NoFile]
  BY DEF Init
<1>2. Existing = {}
  BY <1>1 DEF Existing
<1> QED BY <1>1, <1>2 DEF Room

\* A logger of one process keeps the lines of all its files but one, and but one
\* more for each crash and failure, or all that were ever written.
THEOREM LogRetains ==
  ASSUME NEW w, Writers = {w}, Inherited = FALSE
  PROVE  Spec => []Retained
<1>1. w \in Writers
  OBVIOUS
<1>2. Init => Room(w)
  BY <1>1, RoomInit
<1>3. LogInv /\ LogInv' /\ One(w) /\ Room(w) /\ [Next]_vars => Room(w)'
  BY <1>1, RoomStep
<1>4. Init => KeepsUp(w)
  BY <1>1, FollowedInit
<1>5. LogInv /\ One(w) /\ KeepsUp(w) /\ [Next]_vars => KeepsUp(w)'
  BY <1>1, FollowedStep
<1>6. LogInv /\ One(w) /\ Room(w) /\ KeepsUp(w) => Retained
  <2> SUFFICES ASSUME LogInv, One(w), Room(w), KeepsUp(w) PROVE Retained
    OBVIOUS
  <2> DEFINE kept == (MaxFiles - 1 - cuts) * MaxLines
  <2>1. PICK e : Numbered(Texts, e, written) /\ (~purged => e[0] = 0)
    <3>1. CASE purged
      BY <3>1 DEF One, Disk
    <3>2. CASE ~purged
      BY <3>2 DEF KeepsUp, Shows
    <3> QED BY <3>1, <3>2
  <2> DEFINE l == written - e[0]
             k == Cardinality(NotFull)
  <2>2. written \in Nat /\ e[0] \in Nat /\ cuts \in Nat
    BY <2>1, Ends, Sizes0 DEF LogInv, LogTypes
  <2>3. l \in Nat /\ Len(OnDisk) = l
    <3>1. OnDisk = [i \in 1 .. l |-> e[0] + i] /\ l \in Nat
      BY <2>1, NumberedFlat DEF OnDisk, Texts
    <3> HIDE DEF l
    <3> QED BY <3>1
  <2>4. CASE ~purged
    <3>1. l = written
      BY <2>1, <2>2, <2>4
    <3>2. kept \in Int
      BY <2>2, Sizes0
    <3> HIDE DEF l, kept
    <3>3. l >= IF written < kept THEN written ELSE kept
      BY <2>2, <3>1, <3>2
    <3> QED BY <2>3, <3>3 DEF Retained, kept
  <2>5. CASE purged
    <3>1. l >= (MaxFiles - k) * MaxLines
      BY <2>1, Sizes0, FullTexts DEF NotFull
    <3>2. k \in Nat /\ k <= cuts + 1
      BY <2>5, Counts DEF Room, LogInv
    <3> DEFINE x == MaxFiles - 1 - cuts
               y == MaxFiles - k
    <3>3. x \in Int /\ y \in Int /\ x <= y
      <4> HIDE DEF k
      <4> QED BY <2>2, <3>2, Sizes0
    <3>4. l >= y * MaxLines
      BY <3>1
    <3> HIDE DEF x, y, l, k
    <3>5. x * MaxLines <= y * MaxLines /\ x * MaxLines \in Int /\ y * MaxLines \in Int
      BY <3>3, Sizes0, Products
    <3>6. kept = x * MaxLines
      BY DEF x
    <3> HIDE DEF kept
    <3>7. l >= kept
      BY <2>3, <3>4, <3>5, <3>6
    <3>8. kept \in Int
      BY <3>5, <3>6
    <3>9. l >= IF written < kept THEN written ELSE kept
      BY <2>2, <2>3, <3>7, <3>8
    <3> QED BY <2>3, <3>9 DEF Retained, kept
  <2> QED BY <2>4, <2>5
<1>7. Spec => []One(w)
  BY OneProcess
<1> QED BY <1>2, <1>3, <1>4, <1>5, <1>6, <1>7, Logging, PTL DEF Spec
==============================================================================

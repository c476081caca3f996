------------------------------ MODULE NatLemmas ------------------------------
(***************************************************************************)
(* Least and greatest elements, induction over the naturals in the form of *)
(* a set, what the sum of a function's values over a finite set is, and how *)
(* many arguments and values a function has: the facts that proofs in this *)
(* project need and the library's theorems do not give in a form the provers *)
(* can use.                                                                *)
(***************************************************************************)
EXTENDS Integers, Sequences, FiniteSets, Functions, FiniteSetTheorems,
        WellFoundedInduction, TLAPS

\* The order of the naturals is well-founded.
LEMMA LessWF == IsWellFoundedOn({x \in Nat \X Nat : x[1] < x[2]}, Nat)
<1>1. OpToRel(<, Nat) = {x \in Nat \X Nat : x[1] < x[2]}
  BY DEF OpToRel
<1> QED BY <1>1, NatLessThanWellFounded

\* A set of naturals that is not empty has a least element.
LEMMA Least ==
  ASSUME NEW T \in SUBSET Nat, T # {}
  PROVE  \E m \in T : \A k \in T : m <= k
<1> DEFINE R == {x \in Nat \X Nat : x[1] < x[2]}
<1>1. IsWellFoundedOn(R, Nat)
  BY LessWF
<1>2. \A k, m \in T : k < m => <<k, m>> \in R
  <2> TAKE k, m \in T
  <2> HAVE k < m
  <2>1. <<k, m>> \in Nat \X Nat /\ <<k, m>>[1] = k /\ <<k, m>>[2] = m
    OBVIOUS
  <2> QED BY <2>1
<1> HIDE DEF R
<1>3. PICK m \in T : \A k \in T : ~ (<<k, m>> \in R)
  BY <1>1, WFMin
<1>4. \A k \in T : ~(k < m)
  BY <1>2, <1>3
<1> QED BY <1>4

LEMMA Cancel ==
  ASSUME NEW n \in Int, NEW k \in Int, NEW m \in Int, n - m <= n - k
  PROVE  k <= m
OBVIOUS

\* ... and one that is bounded has a greatest.
LEMMA Greatest ==
  ASSUME NEW n \in Nat, NEW T, T \subseteq 0 .. n, T # {}
  PROVE  \E m \in T : \A k \in T : k <= m
<1> DEFINE R == {n - k : k \in T}
<1>1. R \in SUBSET Nat /\ R # {}
  <2>1. \A k \in T : k \in 0 .. n /\ n - k \in Nat
    OBVIOUS
  <2> QED BY <2>1
<1>2. PICK l \in R : \A k \in R : l <= k
  <2> HIDE DEF R
  <2> QED BY <1>1, Least
<1>3. PICK m \in T : l = n - m
  OBVIOUS
<1>4. \A k \in T : k <= m
  <2> TAKE k \in T
  <2>1. n - k \in R
    OBVIOUS
  <2>2. n - m <= n - k
    BY <1>2, <1>3, <2>1
  <2>3. k \in Int /\ m \in Int
    OBVIOUS
  <2> HIDE DEF R
  <2> QED BY <2>2, <2>3, Cancel
<1> QED BY <1>4

\* A set of naturals with zero and the successor of each of its elements is all
\* of them.
LEMMA SetInduction ==
  ASSUME NEW T \in SUBSET Nat, 0 \in T, \A n \in T : n + 1 \in T
  PROVE  T = Nat
<1> SUFFICES ASSUME T # Nat PROVE FALSE
  OBVIOUS
<1> DEFINE C == Nat \ T
<1>1. PICK m \in C : \A k \in C : m <= k
  BY Least
<1>2. m # 0 /\ m - 1 \in Nat /\ m - 1 < m
  BY <1>1
<1>3. m - 1 \in T
  BY <1>1, <1>2
<1>4. (m - 1) + 1 \in T
  BY <1>3
<1> QED BY <1>1, <1>4

-------------------------------------------------------------------------------
(* SumFunctionOnSet is defined by a function on the subsets of its set. *)

Member(s) == CHOOSE x \in s : TRUE

SumsOf(h, f, U) ==
  h = [s \in SUBSET U |-> IF s = {} THEN 0 ELSE f[Member(s)] + h[s \ {Member(s)}]]

LEMMA MemberIn == \A s : s # {} => Member(s) \in s
BY DEF Member

\* Sizes of subsets, and of what is left without an element.
LEMMA Sizes ==
  ASSUME NEW U, IsFiniteSet(U)
  PROVE  \A s \in SUBSET U :
           /\ IsFiniteSet(s) /\ Cardinality(s) \in Nat
           /\ Cardinality(s) <= Cardinality(U)
           /\ Cardinality(s) = 0 <=> s = {}
           /\ \A x \in s : Cardinality(s \ {x}) = Cardinality(s) - 1
<1> TAKE s \in SUBSET U
<1>1. IsFiniteSet(s) /\ Cardinality(s) <= Cardinality(U)
  BY FS_Subset
<1>2. Cardinality(s) \in Nat
  BY <1>1, FS_CardinalityType
<1>3. Cardinality(s) = 0 <=> s = {}
  BY <1>1, FS_EmptySet
<1>4. \A x \in s : Cardinality(s \ {x}) = Cardinality(s) - 1
  BY <1>1, FS_RemoveElement
<1> QED BY <1>1, <1>2, <1>3, <1>4

\* That function exists, with natural values.
LEMMA SumsExist ==
  ASSUME NEW U, IsFiniteSet(U), NEW f, \A x \in U : f[x] \in Nat
  PROVE  \E h \in [SUBSET U -> Nat] : SumsOf(h, f, U)
<1> DEFINE Next(g, s) == IF s = {} THEN 0 ELSE f[Member(s)] + g[s \ {Member(s)}]
           Good(g, n) == \A s \in SUBSET U : Cardinality(s) <= n => g[s] = Next(g, s)
           T == {n \in Nat : \E g \in [SUBSET U -> Nat] : Good(g, n)}
<1>1. \A s \in SUBSET U : \A g \in [SUBSET U -> Nat] :
        Next(g, s) \in Nat
  BY MemberIn
<1>2. 0 \in T
  <2> DEFINE g == [s \in SUBSET U |-> 0]
  <2>1. g \in [SUBSET U -> Nat]
    OBVIOUS
  <2>2. \A s \in SUBSET U : Cardinality(s) <= 0 => s = {}
    BY Sizes
  <2>3. Good(g, 0)
    BY <2>2
  <2> QED BY <2>1, <2>3
<1>3. \A n \in T : n + 1 \in T
  <2> TAKE n \in T
  <2>1. PICK g \in [SUBSET U -> Nat] : Good(g, n)
    OBVIOUS
  <2> DEFINE k == [s \in SUBSET U |-> Next(g, s)]
  <2>2. k \in [SUBSET U -> Nat]
    BY <1>1
  <2>3. Good(k, n + 1)
    <3> SUFFICES ASSUME NEW s \in SUBSET U, Cardinality(s) <= n + 1, s # {}
                 PROVE  k[s] = f[Member(s)] + k[s \ {Member(s)}]
      OBVIOUS
    <3> DEFINE t == s \ {Member(s)}
    <3>1. t \in SUBSET U /\ Cardinality(t) <= n
      BY MemberIn, Sizes
    <3>2. g[t] = Next(g, t)
      BY <2>1, <3>1
    <3>3. k[t] = g[t]
      BY <3>1, <3>2
    <3> QED BY <3>3
  <2> HIDE DEF Good, k
  <2>4. \E h \in [SUBSET U -> Nat] : Good(h, n + 1)
    BY <2>2, <2>3
  <2>5. n + 1 \in Nat
    OBVIOUS
  <2> HIDE DEF Next
  <2> QED BY <2>4, <2>5, Zenon
<1>4. Cardinality(U) \in T
  <2>1. T = Nat
    <3> HIDE DEF T
    <3>1. T \in SUBSET Nat
      BY DEF T
    <3> QED BY <1>2, <1>3, <3>1, SetInduction
  <2> QED BY <2>1, FS_CardinalityType
<1>5. PICK h \in [SUBSET U -> Nat] : Good(h, Cardinality(U))
  BY <1>4
<1>6. \A s \in SUBSET U : h[s] = Next(h, s)
  BY <1>5, Sizes
<1>7. SumsOf(h, f, U)
  BY <1>6 DEF SumsOf
<1> QED BY <1>7

\* And the sum is its value.
LEMMA SumIs ==
  ASSUME NEW U, IsFiniteSet(U), NEW f, \A x \in U : f[x] \in Nat
  PROVE  \E h : SumsOf(h, f, U) /\ SumFunctionOnSet(f, U) = h[U]
<1> DEFINE h == CHOOSE g : SumsOf(g, f, U)
<1>1. SumFunctionOnSet(f, U) = h[U]
  BY DEF SumFunctionOnSet, FoldFunctionOnSet, MapThenFoldSet, SumsOf, Member
<1>2. SumsOf(h, f, U)
  BY SumsExist
<1> QED BY <1>1, <1>2

\* Two such functions agree where the two functions summed do.
LEMMA SumsAgree ==
  ASSUME NEW U, NEW V, NEW S, IsFiniteSet(S), S \subseteq U, S \subseteq V,
         NEW f, NEW g, \A x \in S : f[x] = g[x],
         NEW h, SumsOf(h, f, U), NEW k, SumsOf(k, g, V)
  PROVE  h[S] = k[S]
<1> DEFINE T == {n \in Nat : \A s \in SUBSET S : Cardinality(s) = n => h[s] = k[s]}
<1>1. \A s \in SUBSET S :
        /\ h[s] = IF s = {} THEN 0 ELSE f[Member(s)] + h[s \ {Member(s)}]
        /\ k[s] = IF s = {} THEN 0 ELSE g[Member(s)] + k[s \ {Member(s)}]
  BY DEF SumsOf
<1>2. 0 \in T
  BY <1>1, Sizes
<1>3. \A n \in T : n + 1 \in T
  <2> TAKE n \in T
  <2> SUFFICES ASSUME NEW s \in SUBSET S, Cardinality(s) = n + 1 PROVE h[s] = k[s]
    OBVIOUS
  <2>1. s # {} /\ Member(s) \in s
    BY Sizes, MemberIn
  <2>2. Cardinality(s \ {Member(s)}) = n
    BY SMTT(60), <2>1, Sizes
  <2>3. h[s \ {Member(s)}] = k[s \ {Member(s)}]
    BY <2>2
  <2> QED BY <1>1, <2>1, <2>3
<1>4. T = Nat
  <2> HIDE DEF T
  <2>1. T \in SUBSET Nat
    BY DEF T
  <2> QED BY <1>2, <1>3, <2>1, SetInduction
<1> QED BY <1>4, FS_CardinalityType

-------------------------------------------------------------------------------
(* What the other modules cite. *)

\* The sum over no element.
LEMMA SumEmpty == ASSUME NEW f PROVE SumFunctionOnSet(f, {}) = 0
<1>1. PICK h : SumsOf(h, f, {}) /\ SumFunctionOnSet(f, {}) = h[{}]
  BY SumIs, FS_EmptySet
<1> QED BY <1>1 DEF SumsOf

\* The sum depends on the values only.
LEMMA SumSame ==
  ASSUME NEW S, IsFiniteSet(S), NEW f, NEW g, \A x \in S : f[x] \in Nat /\ f[x] = g[x]
  PROVE  SumFunctionOnSet(f, S) = SumFunctionOnSet(g, S)
<1>1. PICK h : SumsOf(h, f, S) /\ SumFunctionOnSet(f, S) = h[S]
  BY SumIs
<1>2. PICK k : SumsOf(k, g, S) /\ SumFunctionOnSet(g, S) = k[S]
  BY SumIs
<1> QED BY <1>1, <1>2, SumsAgree

\* The sum is a natural number, and any element may be taken from it.
LEMMA SumTake ==
  ASSUME NEW S, IsFiniteSet(S), NEW f, \A x \in S : f[x] \in Nat
  PROVE  /\ SumFunctionOnSet(f, S) \in Nat
         /\ \A x \in S : SumFunctionOnSet(f, S) = f[x] + SumFunctionOnSet(f, S \ {x})
<1>1. PICK h \in [SUBSET S -> Nat] : SumsOf(h, f, S)
  BY SumsExist
<1>2. \A s \in SUBSET S : SumFunctionOnSet(f, s) = h[s]
  <2> TAKE s \in SUBSET S
  <2>1. IsFiniteSet(s)
    BY FS_Subset
  <2>2. PICK k : SumsOf(k, f, s) /\ SumFunctionOnSet(f, s) = k[s]
    BY <2>1, SumIs
  <2> QED BY <1>1, <2>1, <2>2, SumsAgree
<1>3. \A s \in SUBSET S : \A x \in s : h[s] = f[x] + h[s \ {x}]
  <2> DEFINE P(s) == \A x \in s : h[s] = f[x] + h[s \ {x}]
             T == {n \in Nat : \A s \in SUBSET S : Cardinality(s) = n => P(s)}
  <2>1. \A s \in SUBSET S : s # {} => h[s] = f[Member(s)] + h[s \ {Member(s)}]
    BY <1>1 DEF SumsOf
  <2>2. 0 \in T
    BY Sizes
  <2>3. \A n \in T : n + 1 \in T
    <3> TAKE n \in T
    <3> SUFFICES ASSUME NEW s \in SUBSET S, Cardinality(s) = n + 1, NEW x \in s
                 PROVE  h[s] = f[x] + h[s \ {x}]
      OBVIOUS
    <3> DEFINE m == Member(s)
    <3>1. m \in s /\ h[s] = f[m] + h[s \ {m}]
      BY <2>1, MemberIn
    <3>2. CASE x = m
      BY <3>1, <3>2
    <3>3. CASE x # m
      <4>1. x \in s \ {m} /\ m \in s \ {x}
        BY <3>1, <3>3
      <4>2. Cardinality(s \ {m}) = n /\ Cardinality(s \ {x}) = n
        BY <3>1, Sizes
      <4>3. h[s \ {m}] = f[x] + h[(s \ {m}) \ {x}]
        BY <4>1, <4>2
      <4>4. h[s \ {x}] = f[m] + h[(s \ {x}) \ {m}]
        BY <4>1, <4>2
      <4>5. (s \ {m}) \ {x} = (s \ {x}) \ {m}
        OBVIOUS
      <4>6. f[x] \in Nat /\ f[m] \in Nat /\ h[(s \ {m}) \ {x}] \in Nat
        BY <3>1
      <4>7. h[s] = f[m] + (f[x] + h[(s \ {m}) \ {x}])
        BY <3>1, <4>3
      <4>8. h[s \ {x}] = f[m] + h[(s \ {m}) \ {x}]
        BY <4>4, <4>5
      <4>9. \A a, b, c \in Nat : a + (b + c) = b + (a + c)
        OBVIOUS
      <4> HIDE DEF m, T, P
      <4>10. f[m] + (f[x] + h[(s \ {m}) \ {x}]) = f[x] + (f[m] + h[(s \ {m}) \ {x}])
        BY <4>6, <4>9, Zenon
      <4> QED BY <4>7, <4>8, <4>10, Zenon
    <3> QED BY <3>2, <3>3
  <2>4. T = Nat
    <3> HIDE DEF T
    <3>1. T \in SUBSET Nat
      BY DEF T
    <3> QED BY <2>2, <2>3, <3>1, SetInduction
  <2> QED BY <2>4, Sizes
<1> QED BY <1>1, <1>2, <1>3

\* The sum with one more element.
LEMMA SumAdd ==
  ASSUME NEW S, IsFiniteSet(S), NEW f, \A y \in S : f[y] \in Nat,
         NEW x, x \notin S, f[x] \in Nat
  PROVE  SumFunctionOnSet(f, S \cup {x}) = f[x] + SumFunctionOnSet(f, S)
<1>1. IsFiniteSet(S \cup {x})
  BY FS_AddElement
<1>2. (S \cup {x}) \ {x} = S
  OBVIOUS
<1> QED BY <1>1, <1>2, SumTake

LEMMA SameAdded ==
  ASSUME NEW a \in Nat, NEW b \in Nat, NEW x \in Nat, b <= a
  PROVE  x + b <= x + a
OBVIOUS

\* The sum over fewer elements is no larger.
LEMMA SumSubset ==
  ASSUME NEW U, IsFiniteSet(U), NEW f, \A x \in U : f[x] \in Nat, NEW S, S \subseteq U
  PROVE  SumFunctionOnSet(f, S) <= SumFunctionOnSet(f, U)
<1> DEFINE Sum(s) == SumFunctionOnSet(f, s)
           T == {n \in Nat : \A s \in SUBSET U : Cardinality(s) = n => Sum(s \cap S) <= Sum(s)}
<1>1. \A s \in SUBSET U :
        IsFiniteSet(s) /\ Sum(s) \in Nat /\ \A x \in s : Sum(s) = f[x] + Sum(s \ {x})
  BY FS_Subset, SumTake
<1>2. 0 \in T
  <2> SUFFICES ASSUME NEW s \in SUBSET U, Cardinality(s) = 0 PROVE Sum(s \cap S) <= Sum(s)
    OBVIOUS
  <2>1. s = {} /\ s \cap S = {}
    BY Sizes
  <2> QED BY <1>1, <2>1
<1>3. \A n \in T : n + 1 \in T
  <2> TAKE n \in T
  <2> SUFFICES ASSUME NEW s \in SUBSET U, Cardinality(s) = n + 1
               PROVE  Sum(s \cap S) <= Sum(s)
    OBVIOUS
  <2>1. PICK x \in s : TRUE
    BY Sizes
  <2>2. Cardinality(s \ {x}) = n
    BY <2>1, Sizes
  <2>3. Sum((s \ {x}) \cap S) <= Sum(s \ {x})
    BY <2>2
  <2>4. Sum(s) = f[x] + Sum(s \ {x})
    BY <1>1, <2>1
  <2>5. /\ f[x] \in Nat /\ Sum(s) \in Nat /\ Sum(s \ {x}) \in Nat
        /\ Sum(s \cap S) \in Nat /\ Sum((s \ {x}) \cap S) \in Nat
    BY <1>1, <2>1
  <2>6. CASE x \in S
    <3>1. (s \cap S) \ {x} = (s \ {x}) \cap S
      OBVIOUS
    <3>2. Sum(s \cap S) = f[x] + Sum((s \cap S) \ {x})
      BY <1>1, <2>1, <2>6
    <3>3. Sum(s \cap S) = f[x] + Sum((s \ {x}) \cap S)
      BY <3>1, <3>2
    <3> HIDE DEF Sum, T
    <3> QED BY <2>3, <2>4, <2>5, <3>3, SameAdded
  <2>7. CASE x \notin S
    <3>1. Sum(s \cap S) <= Sum(s \ {x})
      <4>1. s \cap S = (s \ {x}) \cap S
        BY <2>7
      <4> QED BY <2>3, <4>1
    <3> HIDE DEF Sum, T
    <3> QED BY <2>4, <2>5, <3>1
  <2> QED BY <2>6, <2>7
<1>4. T = Nat
  <2> HIDE DEF T
  <2>1. T \in SUBSET Nat
    BY DEF T
  <2> QED BY <1>2, <1>3, <2>1, SetInduction
<1>5. Cardinality(U) \in Nat /\ U \cap S = S
  BY FS_CardinalityType
<1> QED BY <1>4, <1>5

\* The sum over one more natural.
LEMMA SumInterval ==
  ASSUME NEW n \in Nat, NEW f, \A i \in 1 .. n + 1 : f[i] \in Nat
  PROVE  /\ SumFunctionOnSet(f, 1 .. n) \in Nat
         /\ SumFunctionOnSet(f, 1 .. n + 1) = f[n + 1] + SumFunctionOnSet(f, 1 .. n)
<1>1. IsFiniteSet(1 .. n)
  BY FS_Interval
<1>2. 1 .. n + 1 = (1 .. n) \cup {n + 1} /\ n + 1 \notin 1 .. n
  OBVIOUS
<1>3. \A i \in 1 .. n : f[i] \in Nat
  OBVIOUS
<1>4. f[n + 1] \in Nat
  OBVIOUS
<1>5. SumFunctionOnSet(f, 1 .. n) \in Nat
  BY <1>1, <1>3, SumTake
<1>6. SumFunctionOnSet(f, (1 .. n) \cup {n + 1}) = f[n + 1] + SumFunctionOnSet(f, 1 .. n)
  <2>1. n + 1 \notin 1 .. n
    BY <1>2
  <2> QED BY <1>1, <1>3, <1>4, <2>1, SumAdd
<1> QED BY <1>2, <1>5, <1>6

\* The sum of the values of a sequence is that of the first and that of the rest.
LEMMA SumSplit ==
  ASSUME NEW k \in Nat, NEW n \in Nat, NEW l, l = k + n, NEW f, NEW g,
         \A i \in 1 .. l : f[i] \in Nat, \A i \in 1 .. n : g[i] = f[k + i]
  PROVE  SumFunctionOnSet(f, 1 .. l)
           = SumFunctionOnSet(f, 1 .. k) + SumFunctionOnSet(g, 1 .. n)
<1> DEFINE F(m) == SumFunctionOnSet(f, 1 .. m)
           G(m) == SumFunctionOnSet(g, 1 .. m)
           T == {m \in Nat : m <= n => G(m) \in Nat /\ F(k + m) = F(k) + G(m)}
<1>1. F(k) \in Nat
  <2>1. IsFiniteSet(1 .. k)
    BY FS_Interval
  <2>2. \A i \in 1 .. k : f[i] \in Nat
    OBVIOUS
  <2> QED BY <2>1, <2>2, SumTake
<1>2. 0 \in T
  <2>1. 1 .. 0 = {} /\ k + 0 = k
    OBVIOUS
  <2>2. G(0) = 0
    BY <2>1, SumEmpty
  <2> HIDE DEF F, G
  <2> QED BY <1>1, <2>1, <2>2
<1>3. \A m \in T : m + 1 \in T
  <2> TAKE m \in T
  <2> SUFFICES ASSUME m + 1 <= n
               PROVE  G(m + 1) \in Nat /\ F(k + (m + 1)) = F(k) + G(m + 1)
    OBVIOUS
  <2>1. m \in Nat /\ m + 1 \in Nat /\ k + m \in Nat /\ (k + m) + 1 = k + (m + 1)
    OBVIOUS
  <2>2. F(k + m) = F(k) + G(m)
    BY <2>1
  <2>3. \A i \in 1 .. m + 1 : g[i] \in Nat
    OBVIOUS
  <2>4. G(m) \in Nat /\ G(m + 1) = g[m + 1] + G(m)
    BY <2>1, <2>3, SumInterval
  <2>5. \A i \in 1 .. (k + m) + 1 : f[i] \in Nat
    OBVIOUS
  <2>6. F(k + m) \in Nat /\ F((k + m) + 1) = f[(k + m) + 1] + F(k + m)
    BY <2>1, <2>5, SumInterval
  <2>7. g[m + 1] = f[k + (m + 1)] /\ g[m + 1] \in Nat
    BY <2>1, <2>3
  <2> HIDE DEF F, G
  <2>8. F(k + (m + 1)) = g[m + 1] + F(k + m)
    BY <2>1, <2>6, <2>7
  <2> QED BY <1>1, <2>2, <2>4, <2>6, <2>7, <2>8
<1>4. T = Nat
  <2> HIDE DEF T
  <2>1. T \in SUBSET Nat
    BY DEF T
  <2> QED BY <1>2, <1>3, <2>1, SetInduction
<1>5. n \in T
  BY <1>4
<1> QED BY <1>1, <1>5

-------------------------------------------------------------------------------
(* Sizes. *)

\* A set and what is left of it without a part.
LEMMA SizesSplit ==
  ASSUME NEW A, IsFiniteSet(A), NEW V \in SUBSET A
  PROVE  Cardinality(A) = Cardinality(A \ V) + Cardinality(V)
<1>1. IsFiniteSet(V) /\ IsFiniteSet(A \ V) /\ Cardinality(V) \in Nat /\ Cardinality(A \ V) \in Nat
  BY Sizes
<1>2. A \cap V = V
  OBVIOUS
<1>3. Cardinality(A \ V) = Cardinality(A) - Cardinality(A \cap V)
  BY FS_Difference
<1>4. Cardinality(A) \in Nat
  BY FS_CardinalityType
<1>5. Cardinality(A \cap V) = Cardinality(V)
  BY <1>2, Zenon
<1> DEFINE a == Cardinality(A)  v == Cardinality(V)  d == Cardinality(A \ V)
<1>6. a \in Nat /\ v \in Nat /\ d \in Nat /\ d = a - v
  BY <1>1, <1>3, <1>4, <1>5
<1> HIDE DEF a, v, d
<1>7. a = d + v
  BY <1>6
<1> QED BY <1>7 DEF a, v, d

\* A function that takes no value more than m times has at most m arguments for each
\* of its values.
LEMMA Fibers ==
  ASSUME NEW S, IsFiniteSet(S), NEW U, IsFiniteSet(U), NEW f, NEW m \in Nat,
         \A x \in S : f[x] \in U,
         \A u \in U : Cardinality({x \in S : f[x] = u}) <= m
  PROVE  Cardinality(S) <= Cardinality(U) * m
<1> DEFINE Over(A, u) == {x \in A : f[x] = u}
           Fine(c) == \A A \in SUBSET S, B \in SUBSET U :
                        Cardinality(B) = c /\ (\A x \in A : f[x] \in B)
                          => Cardinality(A) <= c * m
           T == {c \in Nat : Fine(c)}
<1>1. \A A \in SUBSET S : \A u \in U :
        /\ IsFiniteSet(A) /\ IsFiniteSet(Over(A, u))
        /\ Cardinality(Over(A, u)) \in Nat /\ Cardinality(Over(A, u)) <= m
  <2> TAKE A \in SUBSET S
  <2> TAKE u \in U
  <2>1. Over(A, u) \in SUBSET Over(S, u) /\ Over(S, u) \in SUBSET S /\ Over(A, u) \in SUBSET S
    OBVIOUS
  <2>2. IsFiniteSet(Over(S, u)) /\ IsFiniteSet(A) /\ Cardinality(Over(S, u)) \in Nat
    BY <2>1, Sizes
  <2>3. /\ IsFiniteSet(Over(A, u)) /\ Cardinality(Over(A, u)) \in Nat
        /\ Cardinality(Over(A, u)) <= Cardinality(Over(S, u))
    BY <2>1, <2>2, Sizes
  <2> QED BY <2>2, <2>3
<1>2. 0 \in T
  <2> SUFFICES ASSUME NEW A \in SUBSET S, NEW B \in SUBSET U, Cardinality(B) = 0,
                      \A x \in A : f[x] \in B
               PROVE  Cardinality(A) <= 0 * m
    OBVIOUS
  <2>1. B = {}
    BY Sizes
  <2>2. A = {}
    BY <2>1
  <2> QED BY <2>2, FS_EmptySet
<1>3. ASSUME NEW c \in T PROVE c + 1 \in T
  <2>1. c \in Nat /\ c + 1 \in Nat
    OBVIOUS
  <2> SUFFICES ASSUME NEW A \in SUBSET S, NEW B \in SUBSET U, Cardinality(B) = c + 1,
                      \A x \in A : f[x] \in B
               PROVE  Cardinality(A) <= (c + 1) * m
    BY <2>1
  <2>2. PICK u \in B : TRUE
    <3>1. Cardinality(B) # 0
      BY <2>1
    <3> QED BY <3>1, Sizes
  <2> DEFINE R == A \ Over(A, u)
             D == B \ {u}
  <2>3. D \in SUBSET U /\ Cardinality(D) = c
    <3>1. Cardinality(D) = Cardinality(B) - 1
      BY <2>2, Sizes
    <3> QED BY <2>1, <3>1
  <2>4. R \in SUBSET S /\ \A x \in R : f[x] \in D
    OBVIOUS
  <2>5. Cardinality(R) <= c * m
    <3> HIDE DEF R, D
    <3> QED BY <2>3, <2>4
  <2>6. /\ Cardinality(Over(A, u)) \in Nat /\ Cardinality(Over(A, u)) <= m
        /\ IsFiniteSet(Over(A, u))
    BY <1>1, <2>2
  <2>7. IsFiniteSet(R) /\ Cardinality(R) \in Nat
    BY <2>4, Sizes
  <2>8. Cardinality(A) = Cardinality(R) + Cardinality(Over(A, u))
    <3> DEFINE V == Over(A, u)
    <3>1. V \in SUBSET A /\ IsFiniteSet(A) /\ R = A \ V
      BY <1>1, <2>2
    <3> HIDE DEF V, R
    <3>2. Cardinality(A) = Cardinality(A \ V) + Cardinality(V)
      BY <3>1, SizesSplit
    <3> QED BY <3>1, <3>2 DEF V
  <2>9. (c + 1) * m = c * m + m /\ c * m \in Nat
    BY <2>1
  <2> HIDE DEF R, Over
  <2> QED BY <2>5, <2>6, <2>7, <2>8, <2>9
<1> HIDE DEF Fine
<1>4. T = Nat
  <2>1. T \in SUBSET Nat
    OBVIOUS
  <2> HIDE DEF T
  <2> QED BY <1>2, <1>3, <2>1, SetInduction
<1>5. Cardinality(U) \in Nat
  BY FS_CardinalityType
<1>6. Fine(Cardinality(U))
  BY <1>4, <1>5
<1> QED BY <1>6 DEF Fine

\* The values of a function on a finite set are no more than its elements.
LEMMA ImageSize ==
  ASSUME NEW P, IsFiniteSet(P), NEW g
  PROVE  LET A == {g[x] : x \in P}
         IN  /\ IsFiniteSet(A) /\ Cardinality(A) \in Nat
             /\ Cardinality(P) \in Nat /\ Cardinality(A) <= Cardinality(P)
<1> DEFINE A == {g[x] : x \in P}
           f == [x \in P |-> g[x]]
<1>1. f \in Surjection(P, A)
  BY DEF Surjection
<1>2. IsFiniteSet(A) /\ Cardinality(A) <= Cardinality(P)
  BY <1>1, FS_Surjection
<1> QED BY <1>2, FS_CardinalityType
==============================================================================

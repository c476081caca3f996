-------------------------- MODULE Gatekeeper_proofs --------------------------
(***************************************************************************)
(* Theorems about the API gatekeeper.                                      *)
(***************************************************************************)
EXTENDS GatekeeperProps, NatLemmas, SequenceTheorems

LEMMA Limits ==
  /\ IsFiniteSet(Callers)
  /\ Window \in Nat /\ Window > 0 /\ RequestsPerMinute \in Nat /\ RequestsPerMinute > 0
  /\ TokensPerMinute \in Nat /\ ConcurrentMax \in Nat /\ ConcurrentMax > 0
  /\ QueueMaxSize \in Nat /\ MaxRetries \in Nat /\ MaxBudget \in Nat
  /\ Costs \subseteq Nat
BY LimitsAssumption

LEMMA Names == Dispatcher \notin Callers /\ NoTask \notin Callers
BY DispatcherAssumption, NoTaskAssumption

\* Oldest first.
Ordered(w) == \A i, j \in 1 .. Len(w) : i <= j => w[j].age <= w[i].age
Young(w, n) == \A i \in 1 .. Len(w) : w[i].age < n

Entries(w) == Len(w) \in Nat /\ \A i \in 1 .. Len(w) : w[i].age \in Nat

\* A function on the first naturals is a sequence.
LEMMA FunctionIsSeq ==
  ASSUME NEW S, NEW n \in Nat, NEW f \in [1 .. n -> S]
  PROVE  f \in Seq(S) /\ Len(f) = n
OBVIOUS

LEMMA SlotsAre ==
  ASSUME NEW w \in Seq(Slots)
  PROVE  /\ Entries(w)
         /\ \A i \in 1 .. Len(w) : /\ w[i] \in Slots /\ w[i] = [age |-> w[i].age, cost |-> w[i].cost]
                                   /\ w[i].age \in 0 .. Window /\ w[i].cost \in Costs
<1>1. Len(w) \in Nat /\ \A i \in 1 .. Len(w) : w[i] \in Slots
  BY ElementOfSeq
<1>2. \A s \in Slots : /\ s = [age |-> s.age, cost |-> s.cost]
                       /\ s.age \in 0 .. Window /\ s.cost \in Costs /\ s.age \in Nat
  BY Limits DEF Slots
<1> QED BY <1>1, <1>2 DEF Entries

-------------------------------------------------------------------------------
(* What pruning leaves of a window. *)

\* Pruning stops at one place: before the first young entry.
LEMMA LeadingIs ==
  ASSUME NEW w, Entries(w), NEW n \in Nat
  PROVE  /\ Leading(w, n) \in 0 .. Len(w)
         /\ \A i \in 1 .. Leading(w, n) : w[i].age >= n
         /\ Leading(w, n) < Len(w) => w[Leading(w, n) + 1].age < n
<1> DEFINE P(k) == /\ \A i \in 1 .. k : w[i].age >= n
                   /\ k < Len(w) => w[k + 1].age < n
           T == {k \in 0 .. Len(w) : k < Len(w) => w[k + 1].age < n}
<1>1. T \in SUBSET Nat /\ Len(w) \in T
  BY DEF Entries
<1>2. PICK m \in T : \A k \in T : m <= k
  <2> HIDE DEF T
  <2> QED BY <1>1, Least
<1>3. \A i \in 1 .. m : w[i].age >= n
  <2> TAKE i \in 1 .. m
  <2>1. i - 1 \notin T
    <3>1. m \in Nat /\ i \in Nat /\ i <= m
      BY <1>1
    <3> HIDE DEF T
    <3> QED BY <1>2, <3>1
  <2>2. i \in 1 .. Len(w) /\ i - 1 \in 0 .. Len(w) /\ i - 1 < Len(w) /\ (i - 1) + 1 = i
    BY <1>2 DEF Entries
  <2>3. ~(w[i].age < n)
    BY <2>1, <2>2
  <2> QED BY <2>2, <2>3 DEF Entries
<1>4. m \in 0 .. Len(w) /\ P(m)
  BY <1>2, <1>3
<1>5. Leading(w, n) = CHOOSE k \in 0 .. Len(w) : P(k)
  BY DEF Leading
<1> HIDE DEF P
<1>6. Leading(w, n) \in 0 .. Len(w) /\ P(Leading(w, n))
  BY <1>4, <1>5
<1> QED BY <1>6 DEF P

LEMMA LeadingUnique ==
  ASSUME NEW w, Entries(w), NEW n \in Nat, NEW k \in 0 .. Len(w),
         \A i \in 1 .. k : w[i].age >= n, k < Len(w) => w[k + 1].age < n
  PROVE  Leading(w, n) = k
<1> DEFINE l == Leading(w, n)
<1>1. /\ l \in 0 .. Len(w)
      /\ \A i \in 1 .. l : w[i].age >= n
      /\ l < Len(w) => w[l + 1].age < n
  BY LeadingIs
<1> HIDE DEF l
<1>2. ~(l < k)
  <2> SUFFICES ASSUME l < k PROVE FALSE
    OBVIOUS
  <2>1. l + 1 \in 1 .. k /\ l + 1 \in 1 .. Len(w) /\ l < Len(w)
    BY <1>1 DEF Entries
  <2> QED BY <1>1, <2>1 DEF Entries
<1>3. ~(k < l)
  <2> SUFFICES ASSUME k < l PROVE FALSE
    OBVIOUS
  <2>1. k + 1 \in 1 .. l /\ k + 1 \in 1 .. Len(w) /\ k < Len(w)
    BY <1>1 DEF Entries
  <2> QED BY <1>1, <2>1 DEF Entries
<1> QED BY <1>1, <1>2, <1>3 DEF l, Entries

\* What it leaves.
LEMMA YoungerIs ==
  ASSUME NEW S, NEW w \in Seq(S), Entries(w), NEW n \in Nat
  PROVE  /\ Younger(w, n) \in Seq(S)
         /\ Len(Younger(w, n)) = Len(w) - Leading(w, n)
         /\ \A i \in 1 .. Len(w) - Leading(w, n) :
              Younger(w, n)[i] = w[Leading(w, n) + i]
<1> DEFINE k == Leading(w, n)
<1>1. k \in 0 .. Len(w) /\ Len(w) \in Nat
  BY LeadingIs
<1> HIDE DEF k
<1>2. \A i \in k + 1 .. Len(w) : w[i] \in S
  BY <1>1, ElementOfSeq
<1>3. /\ SubSeq(w, k + 1, Len(w)) \in Seq(S)
      /\ Len(SubSeq(w, k + 1, Len(w)))
           = IF k + 1 <= Len(w) THEN Len(w) - (k + 1) + 1 ELSE 0
      /\ \A i \in 1 .. Len(w) - (k + 1) + 1 :
           SubSeq(w, k + 1, Len(w))[i] = w[(k + 1) + i - 1]
  <2>1. k + 1 \in Int /\ Len(w) \in Int
    BY <1>1
  <2> QED BY <1>2, <2>1, SubSeqProperties
<1>4. Len(SubSeq(w, k + 1, Len(w))) = Len(w) - k
  BY <1>1, <1>3
<1>5. \A i \in 1 .. Len(w) - k : SubSeq(w, k + 1, Len(w))[i] = w[k + i]
  <2> TAKE i \in 1 .. Len(w) - k
  <2>1. Len(w) - (k + 1) + 1 = Len(w) - k /\ (k + 1) + i - 1 = k + i
    BY <1>1
  <2> QED BY <1>3, <2>1
<1> QED BY <1>3, <1>4, <1>5 DEF k, Younger

LEMMA YoungerOrdered ==
  ASSUME NEW S, NEW w \in Seq(S), Entries(w), NEW n \in Nat, Ordered(w)
  PROVE  Ordered(Younger(w, n)) /\ Young(Younger(w, n), n)
<1> DEFINE k == Leading(w, n)
           y == Younger(w, n)
<1>1. k \in 0 .. Len(w) /\ Len(w) \in Nat /\ (k < Len(w) => w[k + 1].age < n)
  BY LeadingIs
<1>2. Len(y) = Len(w) - k /\ \A i \in 1 .. Len(w) - k : y[i] = w[k + i]
  BY YoungerIs
<1> HIDE DEF k, y
<1>3. \A i \in 1 .. Len(y) : k + i \in 1 .. Len(w) /\ y[i] = w[k + i]
  BY <1>1, <1>2
<1>4. Ordered(y)
  <2> SUFFICES ASSUME NEW i \in 1 .. Len(y), NEW j \in 1 .. Len(y), i <= j
               PROVE  y[j].age <= y[i].age
    BY DEF Ordered
  <2>1. k + i <= k + j
    BY <1>1, <1>2
  <2> QED BY <1>3, <2>1 DEF Ordered
<1>5. Young(y, n)
  <2> SUFFICES ASSUME NEW i \in 1 .. Len(y) PROVE y[i].age < n
    BY DEF Young
  <2>1. k + 1 \in 1 .. Len(w) /\ k + 1 <= k + i /\ k < Len(w)
    BY <1>1, <1>2
  <2>2. y[i].age <= w[k + 1].age
    BY <1>3, <2>1 DEF Ordered
  <2>3. y[i].age \in Nat /\ w[k + 1].age \in Nat
    BY <1>3, <2>1 DEF Entries
  <2> QED BY <1>1, <2>1, <2>2, <2>3
<1> QED BY <1>4, <1>5 DEF y

LEMMA YoungerSame ==
  ASSUME NEW S, NEW w \in Seq(S), Entries(w), NEW n \in Nat, Young(w, n)
  PROVE  Younger(w, n) = w
<1>1. Leading(w, n) = 0
  <2>1. 0 \in 0 .. Len(w)
    BY DEF Entries
  <2>2. 0 < Len(w) => w[0 + 1].age < n
    BY DEF Young, Entries
  <2> QED BY <2>1, <2>2, LeadingUnique
<1>2. /\ Younger(w, n) \in Seq(S)
      /\ Len(Younger(w, n)) = Len(w)
      /\ \A i \in 1 .. Len(w) : Younger(w, n)[i] = w[i]
  <2>1. Len(w) - 0 = Len(w) /\ \A i \in 1 .. Len(w) : 0 + i = i
    BY DEF Entries
  <2>2. /\ Younger(w, n) \in Seq(S)
        /\ Len(Younger(w, n)) = Len(w) - Leading(w, n)
        /\ \A i \in 1 .. Len(w) - Leading(w, n) :
             Younger(w, n)[i] = w[Leading(w, n) + i]
    BY YoungerIs
  <2> QED BY <1>1, <2>1, <2>2
<1> QED BY <1>2, SeqEqual

\* Entries that age, and those that stop at the window's length.
LEMMA AgedIs ==
  ASSUME NEW w, Entries(w), NEW n \in Nat
  PROVE  /\ Len(Aged(w, n)) = Len(w)
         /\ \A i \in 1 .. Len(w) : Aged(w, n)[i] = [w[i] EXCEPT !.age = @ + n]
BY DEF Aged, Entries

\* What a tick leaves of the slots granted is what pruning leaves of the window
\* after it.
LEMMA TickPrunes ==
  ASSUME NEW w \in Seq(Slots), Ordered(w),
         NEW v, v = [i \in 1 .. Len(w) |-> Older(w[i])]
  PROVE  /\ v \in Seq(Slots) /\ Ordered(v)
         /\ Younger(Aged(Younger(w, Window), 1), Window) = Younger(v, Window)
<1> DEFINE k == Leading(w, Window)
           g == Younger(w, Window)
           a == Aged(g, 1)
           j == Leading(a, Window)
<1>0. Window \in Nat
  BY Limits
<1>1. Len(w) \in Nat /\ \A i \in 1 .. Len(w) : w[i] \in Slots
  BY ElementOfSeq
<1>2. Entries(w)
  BY SlotsAre
<1>3. /\ k \in 0 .. Len(w)
      /\ \A i \in 1 .. k : w[i].age >= Window
      /\ k < Len(w) => w[k + 1].age < Window
  BY <1>0, <1>2, LeadingIs
<1>4. /\ g \in Seq(Slots)
      /\ Len(g) = Len(w) - k
      /\ \A i \in 1 .. Len(w) - k : g[i] = w[k + i]
  BY <1>0, <1>2, YoungerIs
<1>5. Young(g, Window)
  BY <1>0, <1>2, YoungerOrdered
<1>6. \A s \in Slots : Older(s) \in Slots
  BY SMTT(60), <1>0 DEF Older, Slots
<1>7. Len(v) = Len(w) /\ v \in Seq(Slots) /\ \A i \in 1 .. Len(w) : v[i] = Older(w[i])
  BY <1>1, <1>6
<1>8. Ordered(v)
  <2> SUFFICES ASSUME NEW i \in 1 .. Len(v), NEW l \in 1 .. Len(v), i <= l
               PROVE  v[l].age <= v[i].age
    BY DEF Ordered
  <2>1. w[i] \in Slots /\ w[l] \in Slots /\ w[l].age <= w[i].age
    BY <1>1, <1>7 DEF Ordered
  <2> QED BY <1>0, <1>7, <2>1 DEF Older, Slots
<1>9. Entries(v)
  BY <1>7, SlotsAre
<1> HIDE DEF g, k
<1>10. Entries(g)
  BY <1>4, SlotsAre
<1>11. /\ Len(a) = Len(g)
       /\ \A i \in 1 .. Len(g) : a[i] = [g[i] EXCEPT !.age = @ + 1]
  BY <1>10, AgedIs
<1>12. \A i \in 1 .. Len(g) : k + i \in 1 .. Len(w) /\ a[i] = v[k + i] /\ a[i] \in Slots
  <2> TAKE i \in 1 .. Len(g)
  <2>1. k + i \in 1 .. Len(w) /\ g[i] = w[k + i] /\ g[i] \in Slots /\ g[i].age < Window
    BY <1>1, <1>3, <1>4, <1>5 DEF Young
  <2>2. v[k + i] = [w[k + i] EXCEPT !.age = @ + 1]
    BY <1>7, <2>1 DEF Older
  <2>3. v[k + i] \in Slots
    BY <1>6, <1>7, <2>1
  <2> QED BY <1>11, <2>1, <2>2, <2>3
<1>13. a \in Seq(Slots)
  <2>1. a \in [1 .. Len(g) -> Slots]
    BY <1>12 DEF Aged
  <2> QED BY <1>10, <2>1, FunctionIsSeq DEF Entries
<1>1a. Entries(a)
  BY <1>13, SlotsAre
<1>15. /\ j \in 0 .. Len(a)
       /\ \A i \in 1 .. j : a[i].age >= Window
       /\ j < Len(a) => a[j + 1].age < Window
  BY <1>0, <1>1a, LeadingIs
<1>16. /\ Younger(a, Window) \in Seq(Slots)
       /\ Len(Younger(a, Window)) = Len(a) - j
       /\ \A i \in 1 .. Len(a) - j : Younger(a, Window)[i] = a[j + i]
  BY <1>0, <1>13, <1>1a, YoungerIs
<1> HIDE DEF a, j
<1>16b. /\ Len(w) \in Nat /\ k \in Nat /\ j \in Nat
      /\ Len(g) = Len(w) - k /\ Len(a) = Len(w) - k /\ Len(v) = Len(w) /\ j <= Len(a)
  BY <1>1, <1>3, <1>4, <1>7, <1>11, <1>15
<1>17. Leading(v, Window) = k + j
  <2>1. k + j \in 0 .. Len(v)
    BY <1>3, <1>16b
  <2>2. \A i \in 1 .. k + j : v[i].age >= Window
    <3> TAKE i \in 1 .. k + j
    <3>1. CASE i <= k
      <4>1. i \in 1 .. k /\ i \in 1 .. Len(w)
        BY <1>1, <1>3, <3>1
      <4>2. w[i].age >= Window /\ v[i] = Older(w[i])
        BY <1>3, <1>7, <4>1
      <4>3. w[i].age \in Nat
        BY <1>2, <4>1 DEF Entries
      <4> QED BY <1>0, <4>2, <4>3 DEF Older
    <3>2. CASE ~(i <= k)
      <4>1. i - k \in 1 .. j /\ i - k \in 1 .. Len(g) /\ k + (i - k) = i
        BY <1>16b, <3>2
      <4> QED BY <1>12, <1>15, <4>1
    <3> QED BY <3>1, <3>2
  <2>3. k + j < Len(v) => v[k + j + 1].age < Window
    <3> SUFFICES ASSUME k + j < Len(v) PROVE v[k + j + 1].age < Window
      OBVIOUS
    <3>1. j < Len(a) /\ j + 1 \in 1 .. Len(g) /\ k + (j + 1) = k + j + 1
      BY <1>16b
    <3> QED BY <1>12, <1>15, <3>1
  <2> QED BY <1>0, <1>9, <2>1, <2>2, <2>3, LeadingUnique
<1>18. /\ Younger(v, Window) \in Seq(Slots)
       /\ Len(Younger(v, Window)) = Len(v) - (k + j)
       /\ \A i \in 1 .. Len(v) - (k + j) : Younger(v, Window)[i] = v[(k + j) + i]
  <2>1. /\ Younger(v, Window) \in Seq(Slots)
        /\ Len(Younger(v, Window)) = Len(v) - Leading(v, Window)
        /\ \A i \in 1 .. Len(v) - Leading(v, Window) :
             Younger(v, Window)[i] = v[Leading(v, Window) + i]
    <3>1. v \in Seq(Slots)
      BY <1>7
    <3>2. \A u \in Seq(Slots) :
            /\ Younger(u, Window) \in Seq(Slots)
            /\ Len(Younger(u, Window)) = Len(u) - Leading(u, Window)
            /\ \A i \in 1 .. Len(u) - Leading(u, Window) :
                 Younger(u, Window)[i] = u[Leading(u, Window) + i]
      BY ZenonT(60), <1>0, SlotsAre, YoungerIs
    <3> QED BY <3>1, <3>2, Zenon
  <2> QED BY <1>17, <2>1
<1>19. Len(Younger(a, Window)) = Len(Younger(v, Window))
    <2>1. \A x, y, z \in Int : x - y - z = x - (y + z)
    OBVIOUS
  <2>2. Len(Younger(a, Window)) = Len(w) - k - j
    BY <1>16b, <1>16
  <2>3. Len(Younger(v, Window)) = Len(w) - (k + j)
    BY <1>16b, <1>18
  <2> QED BY <1>16b, <2>1, <2>2, <2>3
<1>20. \A i \in 1 .. Len(Younger(a, Window)) : Younger(a, Window)[i] = Younger(v, Window)[i]
  <2> TAKE i \in 1 .. Len(Younger(a, Window))
  <2>1. /\ i \in 1 .. Len(a) - j /\ i \in 1 .. Len(v) - (k + j)
        /\ j + i \in 1 .. Len(g) /\ (k + j) + i = k + (j + i)
    BY <1>16b, <1>16
  <2> QED BY ZenonT(60), <1>12, <1>16, <1>18, <2>1
<1>21. Younger(a, Window) = Younger(v, Window)
  BY <1>16, <1>18, <1>19, <1>20, SeqEqual
<1> QED BY <1>7, <1>8, <1>21 DEF a, g

-------------------------------------------------------------------------------
(* The tokens of a window. *)

Timed == [age : Nat, cost : Nat]

LEMMA TimedAre ==
  /\ \A w \in Seq(Slots) : w \in Seq(Timed)
  /\ Slots \subseteq Timed
  /\ \A w \in Seq(Timed) : Entries(w) /\ \A i \in 1 .. Len(w) : w[i].cost \in Nat
<1>1. Slots \subseteq Timed
  <2>1. 0 .. Window \subseteq Nat /\ Costs \subseteq Nat
    BY Limits
  <2>2. \A s \in Slots : s \in Timed
    BY <2>1 DEF Slots, Timed
  <2> QED BY <2>2
<1>2. \A w \in Seq(Slots) : w \in Seq(Timed)
  <2> TAKE w \in Seq(Slots)
  <2>1. \A i \in 1 .. Len(w) : w[i] \in Timed
    BY <1>1, ElementOfSeq
  <2>2. w = [i \in 1 .. Len(w) |-> w[i]] /\ Len(w) \in Nat
    OBVIOUS
  <2> QED BY <2>1, <2>2, FunctionIsSeq
<1>3. \A w \in Seq(Timed) : Entries(w) /\ \A i \in 1 .. Len(w) : w[i].cost \in Nat
  <2> TAKE w \in Seq(Timed)
  <2>1. \A i \in 1 .. Len(w) : w[i] \in Timed
    BY ElementOfSeq
  <2>2. \A i \in 1 .. Len(w) : w[i].age \in Nat /\ w[i].cost \in Nat
    BY <2>1 DEF Timed
  <2> QED BY <2>2 DEF Entries
<1> QED BY <1>1, <1>2, <1>3

CostsOf(w) == [i \in 1 .. Len(w) |-> w[i].cost]

LEMMA TokensIs ==
  ASSUME NEW w \in Seq(Timed)
  PROVE  /\ Tokens(w) = SumFunctionOnSet(CostsOf(w), 1 .. Len(w)) /\ Tokens(w) \in Nat
         /\ \A i \in 1 .. Len(w) : CostsOf(w)[i] = w[i].cost /\ w[i].cost \in Nat
<1>1. Tokens(w) = SumFunctionOnSet(CostsOf(w), 1 .. Len(w))
  BY DEF Tokens, SumFunction, CostsOf
<1>2. \A i \in 1 .. Len(w) : CostsOf(w)[i] = w[i].cost /\ w[i].cost \in Nat
  BY TimedAre DEF CostsOf
<1>3. IsFiniteSet(1 .. Len(w))
  BY FS_Interval, TimedAre DEF Entries
<1>4. \A i \in 1 .. Len(w) : CostsOf(w)[i] \in Nat
  BY <1>2
<1>5. SumFunctionOnSet(CostsOf(w), 1 .. Len(w)) \in Nat
  BY <1>3, <1>4, SumTake
<1> QED BY <1>1, <1>2, <1>5

\* They depend on the costs only ...
LEMMA TokensSame ==
  ASSUME NEW w \in Seq(Timed), NEW v \in Seq(Timed), Len(v) = Len(w),
         \A i \in 1 .. Len(w) : v[i].cost = w[i].cost
  PROVE  Tokens(v) = Tokens(w)
<1>1. CostsOf(v) = CostsOf(w)
  BY DEF CostsOf
<1> QED BY <1>1, TokensIs

\* ... an entry adds its own ...
LEMMA TokensAppend ==
  ASSUME NEW w \in Seq(Timed), NEW s \in Timed
  PROVE  Tokens(Append(w, s)) = Tokens(w) + s.cost
<1> DEFINE n == Len(w)
           f == CostsOf(Append(w, s))
<1>1. /\ Append(w, s) \in Seq(Timed) /\ n \in Nat /\ Len(Append(w, s)) = n + 1
      /\ \A i \in 1 .. n : Append(w, s)[i] = w[i]
      /\ Append(w, s)[n + 1] = s
  BY AppendProperties
<1>2. \A i \in 1 .. n + 1 : f[i] = Append(w, s)[i].cost /\ f[i] \in Nat
  BY <1>1, TokensIs
<1>3. Tokens(Append(w, s)) = SumFunctionOnSet(f, 1 .. n + 1)
  BY <1>1, TokensIs
<1> HIDE DEF f
<1>4. SumFunctionOnSet(f, 1 .. n) \in Nat
        /\ SumFunctionOnSet(f, 1 .. n + 1) = f[n + 1] + SumFunctionOnSet(f, 1 .. n)
  BY <1>1, <1>2, SumInterval
<1>5. Tokens(w) = SumFunctionOnSet(CostsOf(w), 1 .. n)
  BY TokensIs
<1>6. SumFunctionOnSet(f, 1 .. n) = SumFunctionOnSet(CostsOf(w), 1 .. n)
  <2>1. IsFiniteSet(1 .. n)
    BY <1>1, FS_Interval
  <2>2. \A i \in 1 .. n : f[i] \in Nat /\ f[i] = CostsOf(w)[i]
    BY <1>1, <1>2, TokensIs
  <2> QED BY <2>1, <2>2, SumSame
<1>7. f[n + 1] = s.cost /\ s.cost \in Nat
  BY <1>1, <1>2
<1> QED BY <1>3, <1>4, <1>5, <1>6, <1>7

\* ... and pruning takes away those of the entries it drops.
Prefix(w, k) == SumFunctionOnSet(CostsOf(w), 1 .. k)

LEMMA TokensYounger ==
  ASSUME NEW w \in Seq(Timed), NEW n \in Nat
  PROVE  /\ Prefix(w, Leading(w, n)) \in Nat /\ Tokens(Younger(w, n)) \in Nat
         /\ Tokens(w) = Prefix(w, Leading(w, n)) + Tokens(Younger(w, n))
<1> DEFINE k == Leading(w, n)
           y == Younger(w, n)
<1>1. Entries(w) /\ k \in 0 .. Len(w)
  BY TimedAre, LeadingIs
<1>2. /\ y \in Seq(Timed) /\ Len(y) = Len(w) - k
      /\ \A i \in 1 .. Len(w) - k : y[i] = w[k + i]
  BY <1>1, YoungerIs
<1> HIDE DEF k, y
<1>3. Len(w) \in Nat /\ Len(y) \in Nat /\ k \in Nat /\ k + Len(y) = Len(w)
  BY <1>1, <1>2 DEF Entries
<1>4. Tokens(y) = SumFunctionOnSet(CostsOf(y), 1 .. Len(y))
        /\ Tokens(w) = SumFunctionOnSet(CostsOf(w), 1 .. Len(w))
  BY <1>2, TokensIs
<1>5. \A i \in 1 .. Len(w) : CostsOf(w)[i] \in Nat
  BY TokensIs
<1>6. \A i \in 1 .. Len(y) : CostsOf(y)[i] = CostsOf(w)[k + i]
  <2> TAKE i \in 1 .. Len(y)
  <2>1. k + i \in 1 .. Len(w) /\ y[i] = w[k + i]
    BY <1>2, <1>3
  <2> QED BY <1>2, <2>1, TokensIs
<1>7. SumFunctionOnSet(CostsOf(w), 1 .. Len(w))
        = SumFunctionOnSet(CostsOf(w), 1 .. k) + SumFunctionOnSet(CostsOf(y), 1 .. Len(y))
  BY <1>3, <1>5, <1>6, SumSplit
<1>8. SumFunctionOnSet(CostsOf(w), 1 .. k) \in Nat
  <2>1. IsFiniteSet(1 .. k)
    BY <1>3, FS_Interval
  <2>2. \A i \in 1 .. k : CostsOf(w)[i] \in Nat
    BY <1>3, <1>5
  <2> QED BY <2>1, <2>2, SumTake
<1>9. Tokens(y) \in Nat
  BY <1>2, TokensIs
<1> QED BY <1>4, <1>7, <1>8, <1>9 DEF y, k, Prefix

-------------------------------------------------------------------------------
(* How long the dispatcher sleeps: never longer than the window. *)

LEMMA RetryAfterType ==
  ASSUME NEW w \in Seq(Slots), NEW c
  PROVE  RetryAfter(w, c) \in 0 .. Window
<1> DEFINE toFree == Tokens(w) + c - TokensPerMinute
           forRequests == IF Len(w) >= RequestsPerMinute THEN {Window - w[1].age} ELSE {}
           forTokens == {Window - w[i].age :
                           i \in {j \in 1 .. Len(w) : Tokens(SubSeq(w, 1, j - 1)) < toFree}}
           waits == forRequests \cup forTokens \cup {0}
<1>1. \A i \in 1 .. Len(w) : Window - w[i].age \in 0 .. Window
  <2>1. \A a \in 0 .. Window : Window - a \in 0 .. Window
    BY Limits
  <2> QED BY <2>1, SlotsAre
<1>2. forTokens \subseteq 0 .. Window
  BY <1>1
<1>3. forRequests \subseteq 0 .. Window
  <2>1. Len(w) >= RequestsPerMinute => 1 \in 1 .. Len(w)
    BY Limits
  <2> QED BY <1>1, <2>1
<1>4. waits \subseteq 0 .. Window /\ waits # {}
  BY <1>2, <1>3, Limits
<1>5. RetryAfter(w, c) = CHOOSE m \in waits : \A n \in waits : n <= m
  BY DEF RetryAfter
<1> HIDE DEF waits
<1>6. \E m \in waits : \A n \in waits : n <= m
  BY <1>4, Limits, Greatest
<1> QED BY <1>4, <1>5, <1>6

-------------------------------------------------------------------------------
(* The inductive invariant. *)

Working == {"acquire", "window", "giveback", "refused", "enqueue", "calling", "record"}
Busy == {"check", "acquire", "window", "giveback", "refused", "sleep", "calling", "record"}

\* The dispatcher has a task exactly while it is busy, and it is the task of a
\* caller that waits for it.
DispatchInv ==
  /\ dtask # NoTask <=> pc[Dispatcher] \in Busy
  /\ dtask # NoTask => pc[dtask] = "waiting" /\ ~done[dtask]

\* So is every task in the queue; none is there twice, or in the dispatcher's
\* hands too.
QueueInv ==
  /\ \A i \in 1 .. Len(queue) :
       pc[queue[i]] = "waiting" /\ ~done[queue[i]] /\ queue[i] # dtask
  /\ \A i, j \in 1 .. Len(queue) : queue[i] = queue[j] => i = j

\* A caller that waits does so for the queue, for the dispatcher, or for nothing
\* any more; one that is at work has a task that is not done.
CallsInv ==
  \A t \in Callers :
    /\ pc[t] = "waiting" /\ ~done[t] => dtask = t \/ InQueue(t)
    /\ pc[t] \in Working \cup {"idle"} => ~done[t]
    /\ pc[t] = "release" => done[t]
    /\ pc[t] # "idle" => cost[t] \in Costs

\* Time: the windows are in order, and the slots granted in the last Window ticks
\* are what pruning leaves of the code's window.
AgesInv ==
  /\ Ordered(window)
  /\ Ordered(wire) /\ Young(wire, Window)
  /\ grants = Pruned(window)

USE DEF vars, taskVars, historyVars, Task, Goto, At

\* The steps, with what callers and the dispatcher share taken together.
LEMMA StepCases ==
  ASSUME [Next]_vars
  PROVE  \/ \E t \in Threads : SharedStep(t)
         \/ \E t \in Callers : Reserve(t) \/ Enqueue(t) \/ Return(t)
         \/ Poll \/ Dequeue \/ Check \/ Wake
         \/ ShutDown \/ Tick \/ UNCHANGED vars
BY DEF Next, CallerStep, DispatcherStep, Threads

\* The thread that moves, and the others.
LEMMA Moved ==
  ASSUME TypeOK, NEW t \in Threads, NEW step, Goto(t, step)
  PROVE  /\ pc'[t] = step /\ \A u \in Threads \ {t} : pc'[u] = pc[u]
         /\ DOMAIN pc' = Threads
BY DEF TypeOK

LEMMA MovedType ==
  ASSUME TypeOK, NEW t \in Threads, NEW step, Goto(t, step),
         t \in Callers => step \in CallerSteps,
         t = Dispatcher => step \in DispatcherSteps
  PROVE  /\ pc' \in [Threads -> CallerSteps \cup DispatcherSteps]
         /\ \A u \in Callers : pc'[u] \in CallerSteps
         /\ pc'[Dispatcher] \in DispatcherSteps
<1>1. step \in CallerSteps \cup DispatcherSteps
  BY DEF Threads
<1>2. pc' \in [Threads -> CallerSteps \cup DispatcherSteps]
  BY <1>1 DEF TypeOK
<1>3. \A u \in Callers : pc'[u] \in CallerSteps
  BY Names, Moved DEF TypeOK, Threads
<1>4. pc'[Dispatcher] \in DispatcherSteps
  BY Names, Moved DEF TypeOK, Threads
<1> QED BY <1>2, <1>3, <1>4

\* A thread at work has a task, of a caller that has paid for it.
LEMMA HasTask ==
  ASSUME TypeOK, DispatchInv, CallsInv, NEW t \in Threads,
         pc[t] \in SharedSteps \ {"release"}
  PROVE  /\ Task(t) \in Callers /\ cost[Task(t)] \in Costs /\ ~done[Task(t)]
         /\ t = Dispatcher => dtask # NoTask /\ pc[dtask] = "waiting"
<1>1. CASE t = Dispatcher
  <2>1. dtask # NoTask /\ dtask \in Callers /\ pc[dtask] = "waiting" /\ ~done[dtask]
    BY <1>1 DEF DispatchInv, Busy, SharedSteps, TypeOK
  <2>2. cost[dtask] \in Costs
    BY <2>1 DEF CallsInv
  <2> QED BY <1>1, <2>1, <2>2
<1>2. CASE t # Dispatcher
  <2>1. t \in Callers /\ pc[t] # "idle" /\ pc[t] \in Working
    BY <1>2 DEF Threads, SharedSteps, Working
  <2> QED BY <1>2, <2>1 DEF CallsInv
<1> QED BY <1>1, <1>2

-------------------------------------------------------------------------------
(* Permits. *)

Holding == {"window", "giveback", "calling", "record", "release"}

LEMMA HoldersAre ==
  /\ IsFiniteSet(Threads) /\ IsFiniteSet(Holders) /\ Cardinality(Holders) \in Nat
  /\ \A t \in Threads :
       /\ t \notin Holders =>
            IsFiniteSet(Holders \cup {t})
              /\ Cardinality(Holders \cup {t}) = Cardinality(Holders) + 1
       /\ t \in Holders =>
            IsFiniteSet(Holders \ {t})
              /\ Cardinality(Holders \ {t}) = Cardinality(Holders) - 1
              /\ Cardinality(Holders \ {t}) \in Nat
<1>1. IsFiniteSet(Threads)
  BY Limits, FS_AddElement DEF Threads
<1>2. Holders \subseteq Threads
  BY DEF Holders
<1>3. IsFiniteSet(Holders) /\ Cardinality(Holders) \in Nat
  BY <1>1, <1>2, FS_Subset, FS_CardinalityType
<1>4. \A t : t \notin Holders =>
        IsFiniteSet(Holders \cup {t}) /\ Cardinality(Holders \cup {t}) = Cardinality(Holders) + 1
  BY <1>3, FS_AddElement
<1>5. \A t \in Holders :
        IsFiniteSet(Holders \ {t}) /\ Cardinality(Holders \ {t}) = Cardinality(Holders) - 1
  BY <1>3, FS_RemoveElement
<1>6. \A t \in Holders : Cardinality(Holders \ {t}) \in Nat
  BY <1>5, FS_CardinalityType
<1> QED BY <1>1, <1>3, <1>4, <1>5, <1>6

LEMMA HoldersMoved ==
  ASSUME TypeOK, NEW t \in Threads, NEW step, Goto(t, step)
  PROVE  /\ step \in Holding => Holders' = Holders \cup {t}
         /\ step \notin Holding => Holders' = Holders \ {t}
         /\ t \in Holders <=> pc[t] \in Holding
<1>1. pc'[t] = step /\ \A u \in Threads \ {t} : pc'[u] = pc[u]
  BY Moved
<1>2. Holders' = {u \in Threads : pc'[u] \in Holding}
  BY DEF Holders, Holding
<1>3. Holders = {u \in Threads : pc[u] \in Holding}
  BY DEF Holders, Holding
<1> HIDE DEF Goto
<1> QED BY <1>1, <1>2, <1>3

\* A step takes a permit and comes to hold it, gives one back that it held, or
\* does neither.
LEMMA SlotsKept ==
  ASSUME TypeOK, SlotsConserved, NEW t \in Threads, NEW step, Goto(t, step),
         \/ permits' = permits /\ (step \in Holding <=> pc[t] \in Holding)
         \/ permits > 0 /\ permits' = permits - 1 /\ step \in Holding /\ pc[t] \notin Holding
         \/ permits' = permits + 1 /\ step \notin Holding /\ pc[t] \in Holding
  PROVE  SlotsConserved' /\ permits' \in 0 .. ConcurrentMax
<1>1. /\ step \in Holding => Holders' = Holders \cup {t}
      /\ step \notin Holding => Holders' = Holders \ {t}
      /\ t \in Holders <=> pc[t] \in Holding
  BY HoldersMoved
<1>2. /\ permits \in 0 .. ConcurrentMax /\ ConcurrentMax \in Nat
      /\ permits + Cardinality(Holders) = ConcurrentMax
      /\ Cardinality(Holders) \in Nat
  BY HoldersAre, Limits DEF TypeOK, SlotsConserved
<1> HIDE DEF Goto
<1>3. CASE permits' = permits /\ (step \in Holding <=> pc[t] \in Holding)
  <2>1. Holders' = Holders
    BY <1>1, <1>3
  <2>2. Cardinality(Holders)' = Cardinality(Holders)
    BY <2>1
  <2> QED BY <1>2, <1>3, <2>2 DEF SlotsConserved
<1>4. CASE permits > 0 /\ permits' = permits - 1 /\ step \in Holding /\ pc[t] \notin Holding
  <2>1. Holders' = Holders \cup {t} /\ t \notin Holders
    BY <1>1, <1>4
  <2>2. Cardinality(Holders)' = Cardinality(Holders) + 1
    BY <2>1, HoldersAre
  <2> QED BY <1>2, <1>4, <2>2 DEF SlotsConserved
<1>5. CASE permits' = permits + 1 /\ step \notin Holding /\ pc[t] \in Holding
  <2>1. Holders' = Holders \ {t} /\ t \in Holders
    BY <1>1, <1>5
  <2>2. Cardinality(Holders)' = Cardinality(Holders) - 1 /\ Cardinality(Holders)' \in Nat
    BY <2>1, HoldersAre
  <2> QED BY <1>2, <1>5, <2>2 DEF SlotsConserved
<1> QED BY <1>3, <1>4, <1>5

LEMMA SlotsStep ==
  ASSUME TypeOK, SlotsConserved, [Next]_vars
  PROVE  SlotsConserved' /\ permits' \in 0 .. ConcurrentMax
<1> USE DEF Holding
<1>1. ASSUME NEW t \in Threads, SharedStep(t) PROVE SlotsConserved' /\ permits' \in 0 .. ConcurrentMax
  <2>1. CASE TryAcquire(t)
    <3>1. CASE permits > 0 /\ permits' = permits - 1 /\ Goto(t, "window")
      BY <2>1, <3>1, SlotsKept DEF TryAcquire
    <3>2. CASE permits = 0 /\ UNCHANGED permits /\ Goto(t, "refused")
      BY <2>1, <3>2, SlotsKept DEF TryAcquire
    <3> QED BY <2>1, <3>1, <3>2 DEF TryAcquire
  <2>2. CASE Grant(t)
    BY <2>2, SlotsKept DEF Grant
  <2>3. CASE Deny(t)
    BY <2>3, SlotsKept DEF Deny
  <2>4. CASE GiveBack(t)
    BY <2>4, SlotsKept DEF GiveBack
  <2>5. CASE Refused(t)
    BY <2>5, SlotsKept DEF Refused
  <2>6. CASE Request(t)
    <3>1. CASE Goto(t, "record")
      BY <2>6, <3>1, SlotsKept DEF Request
    <3>2. CASE UNCHANGED pc
      BY <2>6, <3>2 DEF Request, SlotsConserved, TypeOK, Holders
    <3> QED BY <2>6, <3>1, <3>2 DEF Request
  <2>7. CASE Record(t)
    BY <2>7, SlotsKept DEF Record
  <2>8. CASE Release(t)
    <3>1. PICK step \in {"loop", "waiting"} : Goto(t, step)
      BY <2>8 DEF Release
    <3> QED BY <2>8, <3>1, SlotsKept DEF Release
  <2> QED BY <1>1, <2>1, <2>2, <2>3, <2>4, <2>5, <2>6, <2>7, <2>8 DEF SharedStep
<1>2. ASSUME NEW t \in Callers, Reserve(t) \/ Enqueue(t) \/ Return(t)
      PROVE  SlotsConserved' /\ permits' \in 0 .. ConcurrentMax
  <2>0. t \in Threads
    BY DEF Threads
  <2>1. CASE Reserve(t)
    BY <2>0, <2>1, SlotsKept DEF Reserve
  <2>2. CASE Enqueue(t)
    <3>1. CASE Goto(t, "waiting")
      BY <2>0, <2>2, <3>1, SlotsKept DEF Enqueue
    <3>2. CASE Goto(t, "idle")
      BY <2>0, <2>2, <3>2, SlotsKept DEF Enqueue
    <3> QED BY <2>2, <3>1, <3>2 DEF Enqueue
  <2>3. CASE Return(t)
    BY <2>0, <2>3, SlotsKept DEF Return
  <2> QED BY <1>2, <2>1, <2>2, <2>3
<1>3. Dispatcher \in Threads
  BY DEF Threads
<1>4. CASE Poll
  <2>1. PICK step \in {"exited", "get"} : Goto(Dispatcher, step)
    BY <1>4 DEF Poll
  <2> QED BY <1>3, <1>4, <2>1, SlotsKept DEF Poll
<1>5. CASE Dequeue
  <2>1. PICK step \in {"loop", "check"} : Goto(Dispatcher, step)
    BY <1>5 DEF Dequeue
  <2> QED BY <1>3, <1>5, <2>1, SlotsKept DEF Dequeue
<1>6. CASE Check
  <2>1. PICK step \in {"loop", "acquire"} : Goto(Dispatcher, step)
    BY <1>6 DEF Check
  <2> QED BY <1>3, <1>6, <2>1, SlotsKept DEF Check
<1>7. CASE Wake
  BY <1>3, <1>7, SlotsKept DEF Wake
<1>8. CASE ShutDown \/ Tick \/ UNCHANGED vars
  BY <1>8 DEF ShutDown, Tick, SlotsConserved, TypeOK, Holders
<1> QED BY <1>1, <1>2, <1>4, <1>5, <1>6, <1>7, <1>8, StepCases

-------------------------------------------------------------------------------
(* Time. *)

\* A new entry keeps the order, and the window young.
LEMMA AppendOrdered ==
  ASSUME NEW S, NEW w \in Seq(S), Entries(w), Ordered(w), NEW s \in S, s.age = 0
  PROVE  Ordered(Append(w, s)) /\ Entries(Append(w, s))
<1> DEFINE v == Append(w, s)
<1>1. /\ Len(w) \in Nat /\ Len(v) = Len(w) + 1
      /\ \A i \in 1 .. Len(w) : v[i] = w[i]
      /\ v[Len(w) + 1] = s
  BY AppendProperties DEF Entries
<1> HIDE DEF v
<1>2. \A i \in 1 .. Len(v) : v[i].age \in Nat
  BY <1>1 DEF Entries
<1>3. Ordered(v)
  <2> SUFFICES ASSUME NEW i \in 1 .. Len(v), NEW j \in 1 .. Len(v), i <= j
               PROVE  v[j].age <= v[i].age
    BY DEF Ordered
  <2>1. CASE j = Len(w) + 1
    BY <1>1, <1>2, <2>1
  <2>2. CASE j # Len(w) + 1
    <3>1. i \in 1 .. Len(w) /\ j \in 1 .. Len(w)
      BY <1>1, <2>2
    <3> QED BY <1>1, <3>1 DEF Ordered
  <2> QED BY <2>1, <2>2
<1> QED BY <1>1, <1>2, <1>3 DEF v, Entries

LEMMA AppendYoung ==
  ASSUME NEW S, NEW w \in Seq(S), Young(w, Window), NEW s \in S, s.age = 0
  PROVE  Young(Append(w, s), Window)
<1>1. /\ Len(w) \in Nat /\ Len(Append(w, s)) = Len(w) + 1
      /\ \A i \in 1 .. Len(w) : Append(w, s)[i] = w[i]
      /\ Append(w, s)[Len(w) + 1] = s
  BY AppendProperties
<1> QED BY <1>1, Limits DEF Young

\* What pruning leaves is young and in order, and pruning it again leaves it so.
LEMMA PrunedIs ==
  ASSUME NEW w \in Seq(Slots), Ordered(w)
  PROVE  /\ Pruned(w) \in Seq(Slots) /\ Ordered(Pruned(w)) /\ Young(Pruned(w), Window)
         /\ Pruned(Pruned(w)) = Pruned(w)
<1>1. /\ Younger(w, Window) \in Seq(Slots) /\ Ordered(Younger(w, Window))
      /\ Young(Younger(w, Window), Window)
  BY SlotsAre, Limits, YoungerIs, YoungerOrdered
<1>2. Younger(Younger(w, Window), Window) = Younger(w, Window)
  BY <1>1, SlotsAre, Limits, YoungerSame
<1> QED BY <1>1, <1>2 DEF Pruned

\* The wire, whose entries are ages only.
Sent == [age : 0 .. Window]

LEMMA WireTick ==
  ASSUME NEW w \in Seq(Sent), Ordered(w), Young(w, Window)
  PROVE  LET v == Younger(Aged(w, 1), Window)
         IN  v \in Seq(Sent) /\ Ordered(v) /\ Young(v, Window)
<1> DEFINE a == Aged(w, 1)
<1>1. Len(w) \in Nat /\ \A i \in 1 .. Len(w) : w[i] \in Sent
  BY ElementOfSeq
<1>2. Entries(w)
  BY <1>1, Limits DEF Entries, Sent
<1>3. /\ Len(a) = Len(w)
      /\ \A i \in 1 .. Len(w) : a[i] = [w[i] EXCEPT !.age = @ + 1]
  BY <1>2, AgedIs
<1>4. \A i \in 1 .. Len(w) : a[i] \in Sent /\ a[i].age = w[i].age + 1
  <2> TAKE i \in 1 .. Len(w)
  <2>1. w[i] \in Sent /\ w[i].age < Window
    BY <1>1 DEF Young
  <2>2. w[i] = [age |-> w[i].age] /\ w[i].age \in 0 .. Window
    BY <2>1 DEF Sent
  <2>3. a[i] = [age |-> w[i].age + 1]
    BY <1>3, <2>2
  <2>4. w[i].age + 1 \in 0 .. Window
    BY <2>1, <2>2, Limits
  <2> QED BY <2>3, <2>4 DEF Sent
<1>5. a \in Seq(Sent)
  <2>1. a \in [1 .. Len(w) -> Sent]
    BY <1>4 DEF Aged
  <2> QED BY <1>1, <2>1, FunctionIsSeq
<1>6. Entries(a)
  BY <1>1, <1>2, <1>3, <1>4 DEF Entries
<1>7. Ordered(a)
  BY <1>2, <1>3, <1>4 DEF Ordered, Entries
<1> HIDE DEF a
<1>8. Younger(a, Window) \in Seq(Sent) /\ Ordered(Younger(a, Window))
        /\ Young(Younger(a, Window), Window)
  BY <1>5, <1>6, <1>7, Limits, YoungerIs, YoungerOrdered
<1> QED BY <1>8 DEF a

LEMMA AgesStep ==
  ASSUME TypeOK, DispatchInv, CallsInv, AgesInv, [Next]_vars
  PROVE  /\ AgesInv'
         /\ window' \in Seq(Slots) /\ grants' \in Seq(Slots) /\ wire' \in Seq(Sent)
<1>1. /\ window \in Seq(Slots) /\ Ordered(window) /\ grants = Pruned(window)
      /\ wire \in Seq(Sent) /\ Ordered(wire) /\ Young(wire, Window)
  BY DEF TypeOK, AgesInv, Sent
<1> DEFINE p == Pruned(window)
<1>2. p \in Seq(Slots) /\ Ordered(p) /\ Young(p, Window) /\ Pruned(p) = p
  BY <1>1, PrunedIs
<1> HIDE DEF p
<1>3. CASE UNCHANGED <<window, grants, wire>>
  BY <1>1, <1>2, <1>3 DEF AgesInv, p
<1>4. CASE window' = p /\ UNCHANGED <<grants, wire>>
  BY <1>1, <1>2, <1>4 DEF AgesInv, p
<1>5. ASSUME NEW t \in Threads, Grant(t)
      PROVE  AgesInv' /\ window' \in Seq(Slots) /\ grants' \in Seq(Slots) /\ wire' \in Seq(Sent)
  <2> DEFINE slot == [age |-> 0, cost |-> cost[Task(t)]]
  <2>1. window' = Append(p, slot) /\ grants' = Append(grants, slot) /\ wire' = wire
    BY <1>5 DEF Grant, p
  <2>2. cost[Task(t)] \in Costs
    BY <1>5, HasTask DEF Grant, SharedSteps
  <2>3. slot \in Slots /\ slot.age = 0
    BY <2>2, Limits DEF Slots
  <2> HIDE DEF slot
  <2>4. window' \in Seq(Slots) /\ grants' = window'
    BY <1>1, <1>2, <2>1, <2>3 DEF p
  <2>5. Entries(p)
    BY <1>2, SlotsAre
  <2>6. Ordered(Append(p, slot)) /\ Entries(Append(p, slot))
    BY <1>2, <2>3, <2>5, AppendOrdered
  <2>7. Young(Append(p, slot), Window)
    BY <1>2, <2>3, AppendYoung
  <2>8. Pruned(Append(p, slot)) = Append(p, slot)
    BY <2>1, <2>4, <2>6, <2>7, YoungerSame, Limits DEF Pruned
  <2> QED BY <1>1, <2>1, <2>4, <2>6, <2>8 DEF AgesInv
<1>6. ASSUME NEW t \in Threads, Request(t)
      PROVE  AgesInv' /\ window' \in Seq(Slots) /\ grants' \in Seq(Slots) /\ wire' \in Seq(Sent)
  <2> DEFINE sent == [age |-> 0]
  <2>1. wire' = Append(wire, sent) /\ UNCHANGED <<window, grants>>
    BY <1>6 DEF Request
  <2>2. sent \in Sent /\ sent.age = 0
    BY Limits DEF Sent
  <2> HIDE DEF sent
  <2>3. Entries(wire)
    <3>1. \A s \in Sent : s.age \in Nat
      BY Limits DEF Sent
    <3>2. Len(wire) \in Nat /\ \A i \in 1 .. Len(wire) : wire[i] \in Sent
      BY <1>1, ElementOfSeq
    <3> QED BY <3>1, <3>2 DEF Entries
  <2>4. wire' \in Seq(Sent) /\ Ordered(wire') /\ Young(wire', Window)
    BY <1>1, <2>1, <2>2, <2>3, AppendOrdered, AppendYoung
  <2> QED BY <1>1, <1>2, <2>1, <2>4 DEF AgesInv, p
<1>7. CASE Tick
  <2>1. /\ window' = [i \in 1 .. Len(window) |-> Older(window[i])]
        /\ grants' = Younger(Aged(Younger(window, Window), 1), Window)
        /\ wire' = Younger(Aged(wire, 1), Window)
    BY <1>1, <1>7 DEF Tick, Pruned
  <2>2. window' \in Seq(Slots) /\ Ordered(window') /\ grants' = Younger(window', Window)
    BY <1>1, <2>1, TickPrunes
  <2>3. grants' \in Seq(Slots)
    BY <2>2, SlotsAre, Limits, YoungerIs
  <2>4. wire' \in Seq(Sent) /\ Ordered(wire') /\ Young(wire', Window)
    BY <1>1, <2>1, WireTick
  <2> QED BY <2>2, <2>3, <2>4 DEF AgesInv, Pruned
<1>8. ASSUME NEW t \in Threads, SharedStep(t)
      PROVE  AgesInv' /\ window' \in Seq(Slots) /\ grants' \in Seq(Slots) /\ wire' \in Seq(Sent)
  <2>1. CASE TryAcquire(t) \/ GiveBack(t) \/ Record(t) \/ Release(t)
    BY <1>3, <2>1 DEF TryAcquire, GiveBack, Record, Release
  <2>2. CASE Deny(t) \/ Refused(t)
    BY <1>4, <2>2 DEF Deny, Refused, p
  <2> QED BY <1>5, <1>6, <1>8, <2>1, <2>2 DEF SharedStep
<1>9. ASSUME NEW t \in Callers, Reserve(t) \/ Enqueue(t) \/ Return(t)
      PROVE  UNCHANGED <<window, grants, wire>>
  BY <1>9 DEF Reserve, Enqueue, Return
<1>10. CASE Poll \/ Dequeue \/ Check \/ Wake \/ ShutDown \/ UNCHANGED vars
  BY <1>3, <1>10 DEF Poll, Dequeue, Check, Wake, ShutDown
<1> QED BY <1>3, <1>7, <1>8, <1>9, <1>10, StepCases

-------------------------------------------------------------------------------
(* Tasks. *)

PlaceInv == DispatchInv /\ QueueInv /\ CallsInv

LEMMA Waiters ==
  ASSUME TypeOK
  PROVE  /\ Len(queue) \in Nat /\ \A i \in 1 .. Len(queue) : queue[i] \in Callers
         /\ pc \in [Threads -> CallerSteps \cup DispatcherSteps]
         /\ done \in [Callers -> BOOLEAN] /\ cost \in [Callers -> Costs \cup {0}]
         /\ dtask \in Callers \cup {NoTask}
BY ElementOfSeq DEF TypeOK

\* A thread that goes on with the task it has leaves all tasks where they are.
LEMMA PlaceKept ==
  ASSUME TypeOK, PlaceInv, NEW t \in Threads, NEW step, Goto(t, step),
         UNCHANGED <<cost, done, dtask, queue>>,
         t \in Callers => pc[t] \in Working /\ step \in Working,
         t = Dispatcher => (pc[t] \in Busy <=> step \in Busy)
  PROVE  PlaceInv'
<1>1. pc'[t] = step /\ \A u \in Threads \ {t} : pc'[u] = pc[u]
  BY Moved
<1> HIDE DEF Goto
<1>2. \A u \in Callers : \/ pc'[u] = pc[u]
                         \/ u = t /\ pc[u] \in Working /\ pc'[u] \in Working
  BY <1>1 DEF Threads
<1>3. \A s \in Working : s \notin {"waiting", "idle", "release"}
  BY DEF Working
<1>4. \A u \in Callers : pc[u] = "waiting" => pc'[u] = "waiting"
  BY <1>2, <1>3
<1>5. DispatchInv'
  <2>1. pc'[Dispatcher] \in Busy <=> pc[Dispatcher] \in Busy
    BY <1>1 DEF Threads
  <2> QED BY <1>4, <2>1, Waiters DEF PlaceInv, DispatchInv
<1>6. QueueInv'
  BY <1>4, Waiters DEF PlaceInv, QueueInv
<1>7. CallsInv'
  <2>1. \A u \in Callers : InQueue(u) => InQueue(u)'
    BY DEF InQueue
  <2> QED BY <1>2, <1>3, <2>1 DEF PlaceInv, CallsInv
<1> QED BY <1>5, <1>6, <1>7 DEF PlaceInv

\* A task that is done is in nobody's hands any more.
LEMMA RecordPlace ==
  ASSUME TypeOK, PlaceInv, NEW t \in Threads, Record(t)
  PROVE  PlaceInv'
<1>1. /\ Goto(t, "release") /\ pc[t] = "record"
      /\ done' = [done EXCEPT ![Task(t)] = TRUE]
      /\ dtask' = IF t = Dispatcher THEN NoTask ELSE dtask
      /\ UNCHANGED <<cost, queue>>
  BY DEF Record
<1>2. pc'[t] = "release" /\ \A u \in Threads \ {t} : pc'[u] = pc[u]
  BY <1>1, Moved
<1>3. Task(t) \in Callers /\ ~done[Task(t)]
        /\ (t = Dispatcher => dtask # NoTask /\ pc[dtask] = "waiting")
  BY <1>1, HasTask DEF PlaceInv, SharedSteps
<1>4. done'[Task(t)] = TRUE /\ \A u \in Callers \ {Task(t)} : done'[u] = done[u]
  BY <1>1, <1>3, Waiters
<1>5. CASE t = Dispatcher
  <2>1. \A u \in Callers : pc'[u] = pc[u]
    BY <1>2, <1>5, Names DEF Threads
  <2>2. dtask' = NoTask /\ Task(t) = dtask
    BY <1>1, <1>5
  <2> HIDE DEF Task, Goto
  <2>3. DispatchInv'
    BY <1>2, <1>5, <2>2 DEF DispatchInv, Busy
  <2>4. QueueInv'
    <3>1. \A i \in 1 .. Len(queue) : queue[i] \in Callers /\ queue[i] # NoTask /\ queue[i] # dtask
      BY Waiters, Names DEF PlaceInv, QueueInv
    <3> QED BY <1>1, <1>4, <2>1, <2>2, <3>1 DEF PlaceInv, QueueInv
  <2>5. CallsInv'
    <3>1. \A u \in Callers : InQueue(u) => InQueue(u)'
      BY <1>1 DEF InQueue
    <3>2. \A u \in Callers \ {dtask} :
            /\ pc'[u] = pc[u] /\ done'[u] = done[u] /\ cost'[u] = cost[u]
            /\ dtask # u
      BY <1>1, <1>4, <2>1, <2>2
    <3>3. pc'[dtask] = "waiting" /\ done'[dtask] = TRUE /\ cost'[dtask] = cost[dtask]
      BY <1>1, <1>3, <1>4, <1>5, <2>1, <2>2
    <3> DEFINE Fine(u) == /\ pc[u] = "waiting" /\ ~done[u] => dtask = u \/ InQueue(u)
                          /\ pc[u] \in Working \cup {"idle"} => ~done[u]
                          /\ pc[u] = "release" => done[u]
                          /\ pc[u] # "idle" => cost[u] \in Costs
    <3>4. \A u \in Callers : Fine(u)
      BY DEF PlaceInv, CallsInv
    <3>5. \A u \in Callers \ {dtask} : Fine(u)'
      BY <3>1, <3>2, <3>4
    <3>6. Fine(dtask)
      BY <1>3, <1>5, <2>2, <3>4
    <3>7. dtask \in Callers => /\ pc'[dtask] \notin Working \cup {"idle", "release"}
                               /\ cost'[dtask] \in Costs
      BY <1>3, <1>5, <3>3, <3>6 DEF Working
    <3> QED BY <3>3, <3>5, <3>7 DEF CallsInv
  <2> QED BY <2>3, <2>4, <2>5 DEF PlaceInv
<1>6. CASE t # Dispatcher
  <2>1. t \in Callers /\ Task(t) = t /\ dtask' = dtask /\ pc'[Dispatcher] = pc[Dispatcher]
    BY <1>1, <1>2, <1>6 DEF Threads
  <2> HIDE DEF Task, Goto
  <2>2. \A u \in Callers \ {t} : pc'[u] = pc[u] /\ done'[u] = done[u] /\ cost'[u] = cost[u]
    BY <1>1, <1>2, <1>4, <2>1 DEF Threads
  <2>3. dtask # t /\ \A i \in 1 .. Len(queue) : queue[i] # t
    BY <1>1, <2>1, Names DEF PlaceInv, DispatchInv, QueueInv
  <2>4. DispatchInv'
    BY <2>1, <2>2, <2>3, Waiters DEF PlaceInv, DispatchInv
  <2>5. QueueInv'
    BY <1>1, <2>1, <2>2, <2>3, Waiters DEF PlaceInv, QueueInv
  <2>6. CallsInv'
    <3>1. \A u \in Callers : InQueue(u) => InQueue(u)'
      BY <1>1 DEF InQueue
    <3>2. pc'[t] = "release" /\ done'[t] = TRUE /\ cost'[t] = cost[t] /\ cost[t] \in Costs
      BY <1>1, <1>2, <1>4, <2>1 DEF PlaceInv, CallsInv
    <3> QED BY <2>1, <2>2, <3>1, <3>2 DEF PlaceInv, CallsInv, Working
  <2> QED BY <2>4, <2>5, <2>6 DEF PlaceInv
<1> QED BY <1>5, <1>6

LEMMA ReleasePlace ==
  ASSUME TypeOK, PlaceInv, NEW t \in Threads, Release(t)
  PROVE  PlaceInv'
<1>1. /\ Goto(t, IF t = Dispatcher THEN "loop" ELSE "waiting") /\ pc[t] = "release"
      /\ UNCHANGED <<cost, done, dtask, queue>>
  BY DEF Release
<1>2. /\ pc'[t] = IF t = Dispatcher THEN "loop" ELSE "waiting"
      /\ \A u \in Threads \ {t} : pc'[u] = pc[u]
  BY <1>1, Moved
<1> HIDE DEF Goto
<1>3. \A u \in Callers : InQueue(u) => InQueue(u)'
  BY <1>1 DEF InQueue
<1>4. \A u \in Callers : \/ pc'[u] = pc[u]
                         \/ u = t /\ pc[u] = "release" /\ pc'[u] = "waiting" /\ t # Dispatcher
  BY <1>1, <1>2, Names DEF Threads
<1>5. DispatchInv'
  <2>1. pc'[Dispatcher] \in Busy <=> pc[Dispatcher] \in Busy
    BY <1>1, <1>2 DEF Threads, Busy
  <2> QED BY <1>1, <1>4, <2>1, Waiters DEF PlaceInv, DispatchInv
<1>6. QueueInv'
  BY <1>1, <1>4, Waiters DEF PlaceInv, QueueInv
<1>7. CallsInv'
  BY <1>1, <1>3, <1>4 DEF PlaceInv, CallsInv, Working
<1> QED BY <1>5, <1>6, <1>7 DEF PlaceInv

\* A caller that is not waiting is known to nobody else.
LEMMA Unknown ==
  ASSUME TypeOK, PlaceInv, NEW t \in Callers, pc[t] # "waiting" \/ done[t]
  PROVE  dtask # t /\ ~InQueue(t) /\ \A i \in 1 .. Len(queue) : queue[i] # t
BY Names DEF PlaceInv, DispatchInv, QueueInv, InQueue

\* The task of a call, when only its caller's variables change.
LEMMA OwnPlace ==
  ASSUME TypeOK, PlaceInv, NEW t \in Callers, pc[t] # "waiting" \/ done[t],
         UNCHANGED <<dtask, queue>>,
         \A u \in Threads \ {t} : pc'[u] = pc[u],
         \A u \in Callers \ {t} : done'[u] = done[u] /\ cost'[u] = cost[u],
         pc'[t] \in Working \cup {"idle"}, ~done'[t], pc'[t] # "idle" => cost'[t] \in Costs
  PROVE  PlaceInv'
<1>1. dtask # t /\ \A i \in 1 .. Len(queue) : queue[i] # t
  BY Unknown
<1>2. \A u \in Callers \ {t} : u \in Threads \ {t}
  BY DEF Threads
<1>3. Dispatcher \in Threads \ {t}
  BY Names DEF Threads
<1>4. DispatchInv'
  BY <1>1, <1>2, <1>3, Waiters DEF PlaceInv, DispatchInv
<1>5. QueueInv'
  BY <1>1, <1>2, Waiters DEF PlaceInv, QueueInv
<1>6. CallsInv'
  <2>1. \A u \in Callers : InQueue(u) => InQueue(u)'
    BY DEF InQueue
  <2>2. pc'[t] # "waiting" /\ pc'[t] # "release"
    BY DEF Working
  <2> QED BY <1>2, <2>1, <2>2 DEF PlaceInv, CallsInv
<1> QED BY <1>4, <1>5, <1>6 DEF PlaceInv

LEMMA ReservePlace ==
  ASSUME TypeOK, PlaceInv, NEW t \in Callers, Reserve(t)
  PROVE  PlaceInv'
<1>1. PICK c \in Costs : /\ pc[t] = "idle" /\ cost' = [cost EXCEPT ![t] = c]
                         /\ Goto(t, "acquire")
                         /\ UNCHANGED <<attempt, done, dtask, queue>>
  BY DEF Reserve
<1>2. pc'[t] = "acquire" /\ \A u \in Threads \ {t} : pc'[u] = pc[u]
  BY <1>1, Moved DEF Threads
<1>3. cost'[t] = c /\ \A u \in Callers \ {t} : cost'[u] = cost[u]
  BY <1>1, Waiters
<1>4. ~done'[t]
  BY <1>1 DEF PlaceInv, CallsInv
<1> HIDE DEF Goto
<1>5. pc[t] # "waiting"
  BY <1>1
<1>6. UNCHANGED <<dtask, queue>> /\ \A u \in Callers \ {t} : done'[u] = done[u]
  BY <1>1
<1>7. pc'[t] \in Working
  BY <1>2 DEF Working
<1> QED BY <1>2, <1>3, <1>4, <1>5, <1>6, <1>7, OwnPlace

\* What a call that is over leaves behind.
LEMMA ForgetPlace ==
  ASSUME TypeOK, PlaceInv, NEW t \in Callers, pc[t] # "waiting" \/ done[t],
         Forget(t), Goto(t, "idle"), UNCHANGED <<dtask, queue>>
  PROVE  PlaceInv'
<1>1. pc'[t] = "idle" /\ \A u \in Threads \ {t} : pc'[u] = pc[u]
  BY Moved DEF Threads
<1>2. ~done'[t] /\ \A u \in Callers \ {t} : done'[u] = done[u] /\ cost'[u] = cost[u]
  BY Waiters DEF Forget
<1> HIDE DEF Goto
<1> QED BY <1>1, <1>2, OwnPlace

LEMMA EnqueuePlace ==
  ASSUME TypeOK, PlaceInv, NEW t \in Callers, Enqueue(t)
  PROVE  PlaceInv'
<1>1. pc[t] = "enqueue" /\ UNCHANGED dtask
  BY DEF Enqueue
<1>2. CASE UNCHANGED queue /\ Goto(t, "idle") /\ Forget(t)
  BY <1>1, <1>2, ForgetPlace
<1>3. CASE queue' = Append(queue, t) /\ Goto(t, "waiting") /\ UNCHANGED taskVars
  <2>1. pc'[t] = "waiting" /\ \A u \in Threads \ {t} : pc'[u] = pc[u]
    BY <1>3, Moved DEF Threads
  <2>2. /\ Len(queue) \in Nat /\ Len(queue') = Len(queue) + 1
        /\ \A i \in 1 .. Len(queue) : queue'[i] = queue[i] /\ queue[i] \in Callers
        /\ queue'[Len(queue) + 1] = t
    BY <1>3, Waiters, AppendProperties DEF TypeOK
  <2>3. UNCHANGED <<cost, done, dtask>>
    BY <1>1, <1>3
  <2>4. dtask # t /\ \A i \in 1 .. Len(queue) : queue[i] # t
    BY <1>1, Unknown
  <2>5. ~done[t] /\ cost[t] \in Costs
    BY <1>1 DEF PlaceInv, CallsInv, Working
  <2> HIDE DEF Goto
  <2>6. \A u \in Callers \ {t} : pc'[u] = pc[u]
    BY <2>1 DEF Threads
  <2>7. pc'[Dispatcher] = pc[Dispatcher]
    BY <2>1, Names DEF Threads
  <2>8. DispatchInv'
    BY <2>3, <2>4, <2>6, <2>7, Waiters DEF PlaceInv, DispatchInv
  <2>9. QueueInv'
    <3>1. \A i \in 1 .. Len(queue') :
            \/ i \in 1 .. Len(queue) /\ queue'[i] = queue[i] /\ queue[i] \in Callers \ {t}
            \/ i = Len(queue) + 1 /\ queue'[i] = t
      BY <2>2, <2>4
    <3>2. \A i \in 1 .. Len(queue') :
            pc'[queue'[i]] = "waiting" /\ ~done'[queue'[i]] /\ queue'[i] # dtask'
      BY <2>1, <2>3, <2>4, <2>5, <2>6, <3>1 DEF PlaceInv, QueueInv
    <3>3. \A i, j \in 1 .. Len(queue') : queue'[i] = queue'[j] => i = j
      BY <3>1 DEF PlaceInv, QueueInv
    <3> QED BY <3>2, <3>3 DEF QueueInv
  <2>10. CallsInv'
    <3>1. InQueue(t)'
      BY <2>2 DEF InQueue
    <3>2. \A u \in Callers : InQueue(u) => InQueue(u)'
      BY <2>2 DEF InQueue
    <3> QED BY <2>1, <2>3, <2>5, <2>6, <3>1, <3>2 DEF PlaceInv, CallsInv, Working
  <2> QED BY <2>8, <2>9, <2>10 DEF PlaceInv
<1> QED BY <1>2, <1>3 DEF Enqueue

LEMMA ReturnPlace ==
  ASSUME TypeOK, PlaceInv, NEW t \in Callers, Return(t)
  PROVE  PlaceInv'
BY ForgetPlace DEF Return

LEMMA DequeuePlace ==
  ASSUME TypeOK, PlaceInv, Dequeue
  PROVE  PlaceInv'
<1>0. Dispatcher \in Threads /\ Dispatcher \notin Callers
  BY Names DEF Threads
<1>1. pc[Dispatcher] = "get" /\ UNCHANGED <<cost, done>>
  BY DEF Dequeue
<1>2. dtask = NoTask
  BY <1>1 DEF PlaceInv, DispatchInv, Busy
<1>3. CASE queue = <<>>
  <2>1. Goto(Dispatcher, "loop") /\ UNCHANGED <<dtask, queue>>
    BY <1>3 DEF Dequeue
  <2> QED BY <1>0, <1>1, <2>1, PlaceKept DEF Busy
<1>4. CASE queue # <<>>
  <2>1. dtask' = Head(queue) /\ queue' = Tail(queue) /\ Goto(Dispatcher, "check")
    BY <1>4 DEF Dequeue
  <2>2. pc'[Dispatcher] = "check" /\ \A u \in Threads \ {Dispatcher} : pc'[u] = pc[u]
    BY <1>0, <2>1, Moved
  <2>3. /\ Len(queue) \in Nat /\ Len(queue) > 0 /\ Len(queue') = Len(queue) - 1
        /\ \A i \in 1 .. Len(queue') : queue'[i] = queue[i + 1]
        /\ dtask' = queue[1]
    BY <1>4, <2>1, Waiters DEF TypeOK
  <2> HIDE DEF Goto
  <2>4. \A u \in Callers : pc'[u] = pc[u]
    BY <1>0, <2>2 DEF Threads
  <2>5. 1 \in 1 .. Len(queue) /\ \A i \in 1 .. Len(queue') : i + 1 \in 1 .. Len(queue)
    BY <2>3
  <2>6. queue[1] \in Callers /\ queue[1] # NoTask
    BY <2>5, Waiters, Names
  <2>7. DispatchInv'
    BY <1>1, <2>2, <2>3, <2>4, <2>5, <2>6 DEF PlaceInv, DispatchInv, QueueInv, Busy
  <2>8. QueueInv'
    <3>1. \A i \in 1 .. Len(queue') : queue'[i] \in Callers /\ queue'[i] # dtask'
      BY SMTT(60), <2>3, <2>5, Waiters DEF PlaceInv, QueueInv
    <3>2. \A i, j \in 1 .. Len(queue') : queue'[i] = queue'[j] => i = j
      BY <2>3, <2>5 DEF PlaceInv, QueueInv
    <3> QED BY <1>1, <2>3, <2>4, <2>5, <3>1, <3>2 DEF PlaceInv, QueueInv
  <2>9. CallsInv'
    <3>1. \A u \in Callers : InQueue(u) => u = dtask' \/ InQueue(u)'
      <4> SUFFICES ASSUME NEW u \in Callers, InQueue(u) PROVE u = dtask' \/ InQueue(u)'
        OBVIOUS
      <4>1. PICK i \in 1 .. Len(queue) : queue[i] = u
        BY DEF InQueue
      <4>2. CASE i = 1
        BY <2>3, <4>1, <4>2
      <4>3. CASE i # 1
        <5>1. i - 1 \in 1 .. Len(queue') /\ (i - 1) + 1 = i
          BY <2>3, <4>3
        <5> QED BY <2>3, <4>1, <5>1 DEF InQueue
      <4> QED BY <4>2, <4>3
    <3> QED BY <1>1, <1>2, <2>4, <3>1, Names DEF PlaceInv, CallsInv
  <2> QED BY <2>7, <2>8, <2>9 DEF PlaceInv
<1> QED BY <1>3, <1>4

LEMMA CheckPlace ==
  ASSUME TypeOK, PlaceInv, Check
  PROVE  PlaceInv'
<1>0. Dispatcher \in Threads /\ Dispatcher \notin Callers
  BY Names DEF Threads
<1>1. pc[Dispatcher] = "check" /\ UNCHANGED <<cost, queue>>
  BY DEF Check
<1>2. dtask # NoTask /\ dtask \in Callers /\ pc[dtask] = "waiting" /\ ~done[dtask]
  BY <1>1, Waiters DEF PlaceInv, DispatchInv, Busy
<1>3. CASE ~shutdown
  <2>1. Goto(Dispatcher, "acquire") /\ UNCHANGED <<dtask, done>>
    BY <1>3 DEF Check
  <2> QED BY <1>0, <1>1, <2>1, PlaceKept DEF Busy
<1>4. CASE shutdown
  <2>1. /\ done' = [done EXCEPT ![dtask] = TRUE] /\ dtask' = NoTask
        /\ Goto(Dispatcher, "loop")
    BY <1>4 DEF Check
  <2>2. pc'[Dispatcher] = "loop" /\ \A u \in Threads \ {Dispatcher} : pc'[u] = pc[u]
    BY <1>0, <2>1, Moved
  <2> HIDE DEF Goto
  <2>3. \A u \in Callers : pc'[u] = pc[u]
    BY <1>0, <2>2 DEF Threads
  <2>4. done'[dtask] = TRUE /\ \A u \in Callers \ {dtask} : done'[u] = done[u]
    BY <1>2, <2>1, Waiters
  <2>5. DispatchInv'
    BY <2>1, <2>2 DEF DispatchInv, Busy
  <2>6. QueueInv'
    <3>1. \A i \in 1 .. Len(queue) : queue[i] \in Callers /\ queue[i] # NoTask /\ queue[i] # dtask
      BY Waiters, Names DEF PlaceInv, QueueInv
    <3> QED BY <1>1, <2>1, <2>3, <2>4, <3>1 DEF PlaceInv, QueueInv
  <2>7. CallsInv'
    <3>1. \A u \in Callers : InQueue(u) => InQueue(u)'
      BY <1>1 DEF InQueue
    <3>2. dtask' = NoTask /\ NoTask \notin Callers
      BY <2>1, Names
    <3>3. pc[dtask] \notin Working \cup {"idle", "release"}
      BY <1>2 DEF Working
    <3> QED BY <1>1, <1>2, <2>3, <2>4, <3>1, <3>2, <3>3 DEF PlaceInv, CallsInv
  <2> QED BY <2>5, <2>6, <2>7 DEF PlaceInv
<1> QED BY <1>3, <1>4

LEMMA PlaceStep ==
  ASSUME TypeOK, PlaceInv, [Next]_vars
  PROVE  PlaceInv'
<1>0. Dispatcher \in Threads /\ Dispatcher \notin Callers
  BY Names DEF Threads
<1>1. ASSUME NEW t \in Threads, SharedStep(t) PROVE PlaceInv'
  <2> USE DEF Working, Busy
  <2>1. CASE TryAcquire(t)
    <3>1. PICK step \in {"window", "refused"} : Goto(t, step)
      BY <2>1 DEF TryAcquire
    <3> QED BY <2>1, <3>1, PlaceKept DEF TryAcquire
  <2>2. CASE Grant(t)
    BY <2>2, PlaceKept DEF Grant
  <2>3. CASE Deny(t)
    BY <2>3, PlaceKept DEF Deny
  <2>4. CASE GiveBack(t)
    BY <2>4, PlaceKept DEF GiveBack
  <2>5. CASE Refused(t)
    <3>1. PICK step \in {"sleep", "enqueue"} :
            Goto(t, step) /\ (t = Dispatcher <=> step = "sleep")
      BY <2>5 DEF Refused
    <3> QED BY <1>0, <2>5, <3>1, PlaceKept DEF Refused
  <2>6. CASE Request(t)
    <3>1. CASE Goto(t, "record")
      BY <2>6, <3>1, PlaceKept DEF Request
    <3>2. CASE UNCHANGED pc
      BY <2>6, <3>2 DEF Request, PlaceInv, DispatchInv, QueueInv, CallsInv, InQueue
    <3> QED BY <2>6, <3>1, <3>2 DEF Request
  <2>7. CASE Record(t)
    BY <2>7, RecordPlace
  <2>8. CASE Release(t)
    BY <2>8, ReleasePlace
  <2> QED BY <1>1, <2>1, <2>2, <2>3, <2>4, <2>5, <2>6, <2>7, <2>8 DEF SharedStep
<1>2. ASSUME NEW t \in Callers, Reserve(t) \/ Enqueue(t) \/ Return(t) PROVE PlaceInv'
  BY <1>2, ReservePlace, EnqueuePlace, ReturnPlace
<1>3. CASE Poll
  <2>1. PICK step \in {"exited", "get"} : Goto(Dispatcher, step)
    BY <1>3 DEF Poll
  <2> QED BY <1>0, <1>3, <2>1, PlaceKept DEF Poll, Busy
<1>4. CASE Wake
  BY <1>0, <1>4, PlaceKept DEF Wake, Busy
<1>5. CASE ShutDown \/ Tick \/ UNCHANGED vars
  BY <1>5 DEF ShutDown, Tick, PlaceInv, DispatchInv, QueueInv, CallsInv, InQueue
<1> QED BY <1>1, <1>2, <1>3, <1>4, <1>5, DequeuePlace, CheckPlace, StepCases

-------------------------------------------------------------------------------
(* The invariant. *)

GateInv == TypeOK /\ SlotsConserved /\ PlaceInv /\ AgesInv

\* What is left of the types once the permits and the windows are in theirs.
LEMMA TypeStep ==
  ASSUME TypeOK, PlaceInv, [Next]_vars,
         permits' \in 0 .. ConcurrentMax,
         window' \in Seq(Slots), grants' \in Seq(Slots), wire' \in Seq(Sent)
  PROVE  TypeOK'
<1>0. Dispatcher \in Threads /\ Dispatcher \notin Callers
  BY Names DEF Threads
<1> DEFINE Steps == /\ pc' \in [Threads -> CallerSteps \cup DispatcherSteps]
                    /\ \A u \in Callers : pc'[u] \in CallerSteps
                    /\ pc'[Dispatcher] \in DispatcherSteps
           Others == /\ cost' \in [Callers -> Costs \cup {0}]
                     /\ attempt' \in [Callers -> 0 .. MaxRetries]
                     /\ done' \in [Callers -> BOOLEAN]
                     /\ dtask' \in Callers \cup {NoTask}
                     /\ wait' \in 0 .. Window
                     /\ tracked' \in 0 .. MaxBudget
                     /\ queue' \in Seq(Callers) /\ Len(queue') <= QueueMaxSize
                     /\ shutdown' \in BOOLEAN
                     /\ spent' \in Nat
<1>1. Steps /\ Others => TypeOK'
  BY DEF TypeOK, Sent
<1>2. UNCHANGED pc => Steps
  BY DEF TypeOK
<1>3. /\ UNCHANGED cost => cost' \in [Callers -> Costs \cup {0}]
      /\ UNCHANGED attempt => attempt' \in [Callers -> 0 .. MaxRetries]
      /\ UNCHANGED done => done' \in [Callers -> BOOLEAN]
      /\ UNCHANGED dtask => dtask' \in Callers \cup {NoTask}
      /\ UNCHANGED wait => wait' \in 0 .. Window
      /\ UNCHANGED tracked => tracked' \in 0 .. MaxBudget
      /\ UNCHANGED queue => queue' \in Seq(Callers) /\ Len(queue') <= QueueMaxSize
      /\ UNCHANGED shutdown => shutdown' \in BOOLEAN
      /\ UNCHANGED spent => spent' \in Nat
  BY DEF TypeOK
<1>4. ASSUME NEW t \in Threads, NEW step, Goto(t, step),
             t \in Callers => step \in CallerSteps, t = Dispatcher => step \in DispatcherSteps
      PROVE  Steps
  BY <1>4, MovedType
<1> HIDE DEF Steps
<1>5. ASSUME NEW t \in Threads, SharedStep(t) PROVE Steps /\ Others
  <2> USE DEF CallerSteps, DispatcherSteps, SharedSteps
  <2>1. CASE TryAcquire(t)
    <3>1. PICK step \in {"window", "refused"} : Goto(t, step)
      BY <2>1 DEF TryAcquire
    <3> QED BY <1>3, <1>4, <2>1, <3>1 DEF TryAcquire
  <2>2. CASE Grant(t)
    <3>1. Steps
      BY <1>4, <2>2 DEF Grant
    <3>2. cost[Task(t)] \in Nat
      BY <2>2, HasTask, Limits DEF Grant, PlaceInv
    <3>3. spent' \in Nat
      <4>1. spent' = spent + cost[Task(t)] /\ spent \in Nat
        BY <2>2 DEF Grant, TypeOK
      <4> HIDE DEF Task
      <4> QED BY <3>2, <4>1
    <3> QED BY <1>3, <2>2, <3>1, <3>3 DEF Grant
  <2>3. CASE Deny(t)
    BY <1>3, <1>4, <2>3 DEF Deny
  <2>4. CASE GiveBack(t)
    BY <1>3, <1>4, <2>4 DEF GiveBack
  <2>5. CASE Refused(t)
    <3>1. PICK step \in {"sleep", "enqueue"} :
            Goto(t, step) /\ (t = Dispatcher <=> step = "sleep")
      BY <2>5 DEF Refused
    <3>2. Steps
      BY <1>0, <1>4, <3>1 DEF Threads
    <3>3. wait' \in 0 .. Window
      <4>1. CASE wait' = RetryAfter(window', cost[dtask])
        BY <4>1, RetryAfterType
      <4>2. CASE wait' = wait
        BY <4>2 DEF TypeOK
      <4> QED BY <2>5, <4>1, <4>2 DEF Refused
    <3> QED BY <1>3, <2>5, <3>2, <3>3 DEF Refused
  <2>6. CASE Request(t)
    <3>1. Task(t) \in Callers
      BY <2>6, HasTask DEF Request, PlaceInv
    <3>2. Steps
      <4>1. CASE Goto(t, "record")
        BY <1>4, <4>1
      <4> QED BY <1>2, <2>6, <4>1 DEF Request
    <3>3. attempt' \in [Callers -> 0 .. MaxRetries]
      <4>1. attempt \in [Callers -> 0 .. MaxRetries] /\ 0 \in 0 .. MaxRetries
        BY Limits DEF TypeOK
      <4>2. CASE attempt' = [attempt EXCEPT ![Task(t)] = 0]
        BY <4>1, <4>2
      <4>3. CASE attempt[Task(t)] < MaxRetries /\ attempt' = [attempt EXCEPT ![Task(t)] = @ + 1]
        <5>1. attempt[Task(t)] + 1 \in 0 .. MaxRetries
          BY <3>1, <4>1, <4>3, Limits
        <5> HIDE DEF Task
        <5> QED BY <4>1, <4>3, <5>1
      <4> QED BY <2>6, <4>2, <4>3 DEF Request
    <3> QED BY <1>3, <2>6, <3>2, <3>3 DEF Request
  <2>7. CASE Record(t)
    <3>1. Steps
      BY <1>4, <2>7 DEF Record
    <3>2. done' \in [Callers -> BOOLEAN]
      BY <2>7 DEF Record, TypeOK
    <3>3. dtask' \in Callers \cup {NoTask}
      BY <2>7 DEF Record, TypeOK
    <3> QED BY <1>3, <2>7, <3>1, <3>2, <3>3 DEF Record
  <2>8. CASE Release(t)
    <3>1. PICK step \in {"loop", "waiting"} :
            Goto(t, step) /\ (t = Dispatcher <=> step = "loop")
      BY <2>8 DEF Release
    <3>2. Steps
      BY <1>0, <1>4, <3>1 DEF Threads
    <3> QED BY <1>3, <2>8, <3>2 DEF Release
  <2> QED BY <1>5, <2>1, <2>2, <2>3, <2>4, <2>5, <2>6, <2>7, <2>8 DEF SharedStep
<1>6. ASSUME NEW t \in Callers, Reserve(t) \/ Enqueue(t) \/ Return(t) PROVE Steps /\ Others
  <2> USE DEF CallerSteps
  <2>0. t \in Threads /\ t # Dispatcher
    BY Names DEF Threads
  <2>1. CASE Reserve(t)
    <3>1. Steps
      <4>1. Goto(t, "acquire") /\ "acquire" \in CallerSteps
        BY <2>1 DEF Reserve, SharedSteps
      <4> QED BY <1>4, <2>0, <4>1
    <3>2. PICK c \in Costs : /\ tracked + c <= MaxBudget /\ tracked' = tracked + c
                             /\ cost' = [cost EXCEPT ![t] = c]
      BY <2>1 DEF Reserve
    <3>3. tracked' \in 0 .. MaxBudget /\ cost' \in [Callers -> Costs \cup {0}]
      BY <3>2, Limits DEF TypeOK
    <3> QED BY <1>3, <2>1, <3>1, <3>3 DEF Reserve
  <2>2. CASE Enqueue(t)
    <3>1. CASE Len(queue) < QueueMaxSize
      <4>1. queue' = Append(queue, t) /\ Goto(t, "waiting") /\ UNCHANGED taskVars
        BY <2>2, <3>1 DEF Enqueue
      <4>2. Steps
        BY <1>4, <2>0, <4>1
      <4>3. queue' \in Seq(Callers) /\ Len(queue') <= QueueMaxSize
        BY SMTT(60), <3>1, <4>1, AppendProperties, Limits DEF TypeOK
      <4> QED BY <1>3, <2>2, <4>1, <4>2, <4>3 DEF Enqueue
    <3>2. CASE ~(Len(queue) < QueueMaxSize)
      <4>1. UNCHANGED queue /\ Goto(t, "idle") /\ Forget(t)
        BY <2>2, <3>2 DEF Enqueue
      <4>2. Steps
        BY <1>4, <2>0, <4>1
      <4>3. cost' \in [Callers -> Costs \cup {0}] /\ done' \in [Callers -> BOOLEAN]
        BY <4>1 DEF Forget, TypeOK
      <4> QED BY <1>3, <2>2, <4>1, <4>2, <4>3 DEF Enqueue, Forget
    <3> QED BY <3>1, <3>2
  <2>3. CASE Return(t)
    <3>1. Steps
      BY <1>4, <2>0, <2>3 DEF Return
    <3>2. cost' \in [Callers -> Costs \cup {0}] /\ done' \in [Callers -> BOOLEAN]
      BY <2>3 DEF Return, Forget, TypeOK
    <3> QED BY <1>3, <2>3, <3>1, <3>2 DEF Return, Forget
  <2> QED BY <1>6, <2>1, <2>2, <2>3
<1>7. ASSUME Poll \/ Wake PROVE Steps /\ Others
  <2> USE DEF DispatcherSteps, SharedSteps
  <2>1. PICK step \in {"exited", "get", "check"} : Goto(Dispatcher, step)
    BY <1>7 DEF Poll, Wake
  <2>2. Steps
    BY <1>0, <1>4, <2>1
  <2> QED BY <1>3, <1>7, <2>2 DEF Poll, Wake
<1>8. ASSUME Dequeue PROVE Steps /\ Others
  <2> USE DEF DispatcherSteps, SharedSteps
  <2>1. PICK step \in {"loop", "check"} : Goto(Dispatcher, step)
    BY <1>8 DEF Dequeue
  <2>2. Steps
    BY <1>0, <1>4, <2>1
  <2>3. CASE queue = <<>>
    BY <1>3, <1>8, <2>2, <2>3 DEF Dequeue
  <2>4. CASE queue # <<>>
    <3>1. dtask' = Head(queue) /\ queue' = Tail(queue)
      BY <1>8, <2>4 DEF Dequeue
    <3>2. Head(queue) \in Callers /\ Tail(queue) \in Seq(Callers)
            /\ Len(Tail(queue)) = Len(queue) - 1 /\ Len(queue) \in Nat
      BY <2>4, HeadTailProperties DEF TypeOK
    <3>3. Len(queue') <= QueueMaxSize
      <4>1. Len(queue) <= QueueMaxSize /\ QueueMaxSize \in Nat
        BY Limits DEF TypeOK
      <4>2. Len(queue') = Len(queue) - 1
        BY <3>1, <3>2
      <4> QED BY <3>2, <4>1, <4>2
    <3> QED BY <1>3, <1>8, <2>2, <3>1, <3>2, <3>3 DEF Dequeue
  <2> QED BY <2>3, <2>4
<1>9. ASSUME Check PROVE Steps /\ Others
  <2> USE DEF DispatcherSteps, SharedSteps
  <2>1. PICK step \in {"loop", "acquire"} : Goto(Dispatcher, step)
    BY <1>9 DEF Check
  <2>2. Steps
    BY <1>0, <1>4, <2>1
  <2>3. done' \in [Callers -> BOOLEAN]
    BY <1>9 DEF Check, TypeOK
  <2>4. dtask' \in Callers \cup {NoTask}
    BY <1>9 DEF Check, TypeOK
  <2> QED BY <1>3, <1>9, <2>2, <2>3, <2>4 DEF Check
<1>10. ASSUME Tick PROVE Steps /\ Others
  <2>1. wait' \in 0 .. Window
    BY <1>10, Limits DEF Tick, TypeOK
  <2> QED BY <1>2, <1>3, <1>10, <2>1 DEF Tick
<1>11. ASSUME ShutDown \/ UNCHANGED vars PROVE Steps /\ Others
  BY <1>2, <1>3, <1>11 DEF ShutDown
<1> QED BY <1>1, <1>5, <1>6, <1>7, <1>8, <1>9, <1>10, <1>11, StepCases

LEMMA GateInit == ASSUME Init PROVE GateInv
<1> USE DEF Init
<1>1. <<>> \in Seq(Slots) /\ <<>> \in Seq([age : 0 .. Window]) /\ <<>> \in Seq(Callers)
        /\ Len(<<>>) = 0
  OBVIOUS
<1>2. TypeOK
  <2>1. pc \in [Threads -> CallerSteps \cup DispatcherSteps]
          /\ (\A t \in Callers : pc[t] = "idle") /\ pc[Dispatcher] = "loop"
    BY Names DEF Threads, CallerSteps, DispatcherSteps
  <2>2. /\ cost \in [Callers -> Costs \cup {0}] /\ attempt \in [Callers -> 0 .. MaxRetries]
        /\ done \in [Callers -> BOOLEAN]
    BY Limits
  <2>3. /\ wait \in 0 .. Window /\ tracked \in 0 .. MaxBudget /\ permits \in 0 .. ConcurrentMax
        /\ spent \in Nat /\ 0 <= QueueMaxSize
    BY Limits
  <2>4. \A t \in Callers : pc[t] \in CallerSteps
    BY <2>1 DEF CallerSteps
  <2>5. pc[Dispatcher] \in DispatcherSteps
    BY <2>1 DEF DispatcherSteps
  <2>6. dtask \in Callers \cup {NoTask} /\ shutdown \in BOOLEAN
    OBVIOUS
  <2>7. /\ window \in Seq(Slots) /\ grants \in Seq(Slots) /\ wire \in Seq([age : 0 .. Window])
        /\ queue \in Seq(Callers) /\ Len(queue) = 0
    BY <1>1
  <2> HIDE DEF Init
  <2> QED BY <2>1, <2>2, <2>3, <2>4, <2>5, <2>6, <2>7 DEF TypeOK
<1>3. SlotsConserved
  <2>1. Holders = {}
    BY DEF Holders, Threads
  <2>2. Cardinality(Holders) = 0
    BY <2>1, FS_EmptySet
  <2> QED BY <2>2, Limits DEF SlotsConserved
<1>4. PlaceInv
  <2>1. (\A t \in Callers : pc[t] = "idle") /\ pc[Dispatcher] = "loop"
    BY Names DEF Threads
  <2>2. dtask = NoTask /\ Len(queue) = 0 /\ 1 .. Len(queue) = {}
    BY <1>1
  <2>3. \A t \in Callers : ~done[t]
    OBVIOUS
  <2>4. DispatchInv
    BY <2>1, <2>2 DEF DispatchInv, Busy
  <2>5. QueueInv
    BY <2>2 DEF QueueInv
  <2>6. CallsInv
    BY <2>1, <2>3 DEF CallsInv
  <2> QED BY <2>4, <2>5, <2>6 DEF PlaceInv
<1>5. AgesInv
  <2>1. Len(window) = 0 /\ Len(wire) = 0 /\ 1 .. 0 = {}
    BY <1>1
  <2>2. Ordered(window) /\ Ordered(wire) /\ Young(wire, Window) /\ Young(window, Window)
    BY <2>1 DEF Ordered, Young
  <2>3. window \in Seq(Slots)
    BY <1>1
  <2>4. Younger(window, Window) = window
    BY <2>2, <2>3, SlotsAre, Limits, YoungerSame
  <2> QED BY <2>2, <2>4 DEF AgesInv, Pruned
<1> QED BY <1>2, <1>3, <1>4, <1>5 DEF GateInv

LEMMA GateStep == ASSUME GateInv, [Next]_vars PROVE GateInv'
<1>1. TypeOK /\ SlotsConserved /\ PlaceInv /\ AgesInv
  BY DEF GateInv
<1>2. SlotsConserved' /\ permits' \in 0 .. ConcurrentMax
  BY <1>1, SlotsStep
<1>3. /\ AgesInv'
      /\ window' \in Seq(Slots) /\ grants' \in Seq(Slots) /\ wire' \in Seq(Sent)
  BY <1>1, AgesStep DEF PlaceInv
<1>4. PlaceInv'
  BY <1>1, PlaceStep
<1>5. TypeOK'
  BY <1>1, <1>2, <1>3, TypeStep
<1> QED BY <1>2, <1>3, <1>4, <1>5 DEF GateInv

\* The inductive invariant: permits, tasks and time are accounted for, whatever
\* the threads calling execute do.
THEOREM Gatekeeping == Spec => []GateInv
<1>1. Init => GateInv
  BY GateInit
<1>2. GateInv /\ [Next]_vars => GateInv'
  BY GateStep
<1> QED BY <1>1, <1>2, PTL DEF Spec

\* No counter of the gatekeeper leaves its range: never more permits than the
\* semaphore was made with, no reservation over the budget, no queue over its size.
THEOREM GatekeeperTypes == Spec => []TypeOK
<1>1. GateInv => TypeOK
  BY DEF GateInv
<1> QED BY <1>1, Gatekeeping, PTL

\* No permit of the semaphore is lost or made up on any path through a call.
THEOREM NoSlotLeaks == Spec => []SlotsConserved
<1>1. GateInv => SlotsConserved
  BY DEF GateInv
<1> QED BY <1>1, Gatekeeping, PTL

\* Of a task that waits, the queue holds one copy and no thread holds it, or the
\* other way round.
LEMMA PlacesIs ==
  ASSUME TypeOK, PlaceInv, NEW t \in Callers, pc[t] # "idle"
  PROVE  Places(t) = 1
<1> DEFINE C == {i \in 1 .. Len(queue) : queue[i] = t}
           d == IF dtask = t THEN 1 ELSE 0
           w == IF pc[t] \in Working THEN 1 ELSE 0
           n == IF done[t] THEN 1 ELSE 0
<1>1. Places(t) = Cardinality(C) + d + w + n
  BY DEF Places, Working
<1>2. InQueue(t) => Cardinality(C) = 1
  <2> SUFFICES ASSUME InQueue(t) PROVE Cardinality(C) = 1
    OBVIOUS
  <2>1. PICK i \in 1 .. Len(queue) : queue[i] = t
    BY DEF InQueue
  <2>2. C = {i}
    BY <2>1 DEF PlaceInv, QueueInv
  <2> QED BY <2>2, FS_Singleton
<1>3. ~InQueue(t) => Cardinality(C) = 0
  <2> SUFFICES ASSUME ~InQueue(t) PROVE Cardinality(C) = 0
    OBVIOUS
  <2>1. C = {}
    BY DEF InQueue
  <2> QED BY <2>1, FS_EmptySet
<1>4. t # NoTask /\ pc[t] \in CallerSteps
  BY Names DEF TypeOK
<1>5. InQueue(t) => pc[t] = "waiting" /\ ~done[t] /\ dtask # t
  BY DEF PlaceInv, QueueInv, InQueue
<1>6. dtask = t => pc[t] = "waiting" /\ ~done[t]
  BY <1>4 DEF PlaceInv, DispatchInv
<1>7. /\ pc[t] = "waiting" /\ ~done[t] => dtask = t \/ InQueue(t)
      /\ pc[t] \in Working => ~done[t]
      /\ pc[t] = "release" => done[t]
  BY DEF PlaceInv, CallsInv
<1>8. pc[t] = "waiting" \/ pc[t] = "release" \/ pc[t] \in Working
  BY <1>4 DEF CallerSteps, SharedSteps, Working
<1>9. pc[t] \in Working => pc[t] # "waiting" /\ pc[t] # "release"
  BY DEF Working
<1>10. CASE InQueue(t)
  <2>1. d = 0 /\ w = 0 /\ n = 0
    BY <1>5, <1>9, <1>10
  <2> HIDE DEF C, d, w, n
  <2> QED BY <1>1, <1>2, <1>10, <2>1
<1>11. CASE dtask = t
  <2>1. d = 1 /\ w = 0 /\ n = 0 /\ ~InQueue(t)
    BY <1>5, <1>6, <1>9, <1>11
  <2> HIDE DEF C, d, w, n
  <2> QED BY <1>1, <1>3, <2>1
<1>12. CASE pc[t] \in Working
  <2>1. d = 0 /\ w = 1 /\ n = 0 /\ ~InQueue(t)
    BY <1>5, <1>6, <1>7, <1>9, <1>12
  <2> HIDE DEF C, d, w, n
  <2> QED BY <1>1, <1>3, <2>1
<1>13. CASE done[t]
  <2>1. d = 0 /\ w = 0 /\ n = 1 /\ ~InQueue(t)
    BY <1>5, <1>6, <1>7, <1>13
  <2> HIDE DEF C, d, w, n
  <2> QED BY <1>1, <1>3, <2>1
<1> QED BY <1>7, <1>8, <1>10, <1>11, <1>12, <1>13

\* A task in the overflow queue is never lost, queued twice, or run by two threads.
THEOREM TaskInOnePlace == Spec => []OnePlace
<1>1. GateInv => OnePlace
  BY PlacesIs DEF GateInv, OnePlace
<1> QED BY <1>1, Gatekeeping, PTL

-------------------------------------------------------------------------------
(* Rates. *)

LEMMA RatesStep ==
  ASSUME GateInv, GrantsWithinRates, [Next]_vars
  PROVE  GrantsWithinRates'
<1>1. /\ window \in Seq(Slots) /\ grants \in Seq(Slots) /\ Ordered(window)
      /\ grants = Pruned(window)
  BY DEF GateInv, TypeOK, AgesInv
<1>2. CASE UNCHANGED grants
  BY <1>2 DEF GrantsWithinRates
<1>3. ASSUME NEW t \in Threads, Grant(t) PROVE GrantsWithinRates'
  <2> DEFINE slot == [age |-> 0, cost |-> cost[Task(t)]]
  <2>1. cost[Task(t)] \in Costs
    BY <1>3, HasTask DEF Grant, GateInv, PlaceInv, SharedSteps
  <2>2. slot \in Slots /\ slot.cost = cost[Task(t)] /\ slot.cost \in Nat
    <3> HIDE DEF Task
    <3>1. 0 \in 0 .. Window
      BY Limits
    <3>2. cost[Task(t)] \in Nat
      BY <2>1, Limits
    <3> QED BY <2>1, <3>1, <3>2 DEF Slots
  <2>3. grants' = Append(grants, slot) /\ Fits(grants, slot.cost)
    BY <1>1, <1>3 DEF Grant
  <2> HIDE DEF slot
  <2>4. Tokens(grants') = Tokens(grants) + slot.cost /\ Len(grants') = Len(grants) + 1
    BY <1>1, <2>2, <2>3, TimedAre, TokensAppend, AppendProperties
  <2>5. Len(grants) \in Nat /\ RequestsPerMinute \in Nat
    BY <1>1, Limits
  <2> QED BY <2>3, <2>4, <2>5 DEF Fits, GrantsWithinRates
<1>4. CASE Tick
  <2>1. grants' = Younger(Aged(grants, 1), Window)
    BY <1>4 DEF Tick
  <2> DEFINE a == Aged(grants, 1)
  <2>2. /\ Len(a) = Len(grants)
        /\ \A i \in 1 .. Len(grants) : a[i] = [grants[i] EXCEPT !.age = @ + 1]
    BY <1>1, SlotsAre, AgedIs
  <2>3. Young(grants, Window)
    BY <1>1, PrunedIs
  <2>4. \A i \in 1 .. Len(grants) : a[i] \in Slots /\ a[i].cost = grants[i].cost
    <3> TAKE i \in 1 .. Len(grants)
    <3>1. /\ grants[i] = [age |-> grants[i].age, cost |-> grants[i].cost]
          /\ grants[i].age \in 0 .. Window /\ grants[i].cost \in Costs
          /\ grants[i].age < Window
      BY <1>1, <2>3, SlotsAre DEF Young
    <3>2. a[i] = [age |-> grants[i].age + 1, cost |-> grants[i].cost]
      BY <2>2, <3>1
    <3>3. grants[i].age + 1 \in 0 .. Window
      BY <3>1, Limits
    <3> QED BY <3>1, <3>2, <3>3 DEF Slots
  <2>5. a \in Seq(Slots)
    <3>1. a \in [1 .. Len(grants) -> Slots]
      BY <2>4 DEF Aged
    <3>2. Len(grants) \in Nat
      BY <1>1
    <3> QED BY <3>1, <3>2, FunctionIsSeq
  <2> HIDE DEF a
  <2>6. Tokens(a) = Tokens(grants)
    BY <1>1, <2>2, <2>4, <2>5, TimedAre, TokensSame
  <2>7. /\ Younger(a, Window) \in Seq(Slots) /\ Len(Younger(a, Window)) <= Len(a)
        /\ Tokens(Younger(a, Window)) <= Tokens(a)
    <3>1. a \in Seq(Timed) /\ Entries(a)
      BY <2>5, TimedAre
    <3>2. /\ Prefix(a, Leading(a, Window)) \in Nat /\ Tokens(Younger(a, Window)) \in Nat
          /\ Tokens(a) = Prefix(a, Leading(a, Window)) + Tokens(Younger(a, Window))
      BY <3>1, Limits, TokensYounger
    <3>3. /\ Younger(a, Window) \in Seq(Slots)
          /\ Len(Younger(a, Window)) = Len(a) - Leading(a, Window)
          /\ Leading(a, Window) \in 0 .. Len(a) /\ Len(a) \in Nat
      BY <2>5, <3>1, Limits, YoungerIs, LeadingIs DEF Entries
    <3> QED BY <3>2, <3>3
  <2>8. grants' = Younger(a, Window) /\ grants' \in Seq(Slots)
    BY <2>1, <2>7 DEF a
  <2>9. Tokens(grants') \in Nat /\ Tokens(grants) \in Nat /\ Len(grants') \in Nat /\ Len(grants) \in Nat
    BY <1>1, <2>8, TimedAre, TokensIs
  <2>10. Len(grants') <= Len(grants) /\ Tokens(grants') <= Tokens(grants)
    BY <2>2, <2>6, <2>7, <2>8
  <2> QED BY <2>9, <2>10, Limits DEF GrantsWithinRates
<1>5. ASSUME NEW t \in Threads, SharedStep(t) PROVE GrantsWithinRates'
  <2>1. CASE ~Grant(t)
    BY <1>2, <1>5, <2>1 DEF SharedStep, TryAcquire, Deny, GiveBack, Refused, Request, Record, Release
  <2> QED BY <1>3, <2>1
<1>6. ASSUME NEW t \in Callers, Reserve(t) \/ Enqueue(t) \/ Return(t) PROVE UNCHANGED grants
  BY <1>6 DEF Reserve, Enqueue, Return
<1>7. CASE Poll \/ Dequeue \/ Check \/ Wake \/ ShutDown \/ UNCHANGED vars
  BY <1>2, <1>7 DEF Poll, Dequeue, Check, Wake, ShutDown
<1> QED BY <1>2, <1>4, <1>5, <1>6, <1>7, StepCases

\* In any stretch of one window all threads together are granted no more slots and
\* no more tokens than the configured rates.
THEOREM RatesHold == Spec => []GrantsWithinRates
<1>1. Init => GrantsWithinRates
  <2> SUFFICES ASSUME Init PROVE GrantsWithinRates
    OBVIOUS
  <2>1. grants = <<>> /\ grants \in Seq(Slots) /\ Len(grants) = 0 /\ 1 .. 0 = {}
    BY DEF Init
  <2>2. Tokens(grants) = 0
    BY <2>1, TimedAre, TokensIs, SumEmpty
  <2> QED BY <2>1, <2>2, Limits DEF GrantsWithinRates
<1>2. GateInv /\ GrantsWithinRates /\ [Next]_vars => GrantsWithinRates'
  BY RatesStep
<1> QED BY <1>1, <1>2, Gatekeeping, PTL DEF Spec

-------------------------------------------------------------------------------
(* The time to retry. *)

\* The tokens of the first entries, as the source's loop adds them up.
LEMMA TokensPrefix ==
  ASSUME NEW w \in Seq(Slots), NEW k \in 0 .. Len(w)
  PROVE  Tokens(SubSeq(w, 1, k)) = Prefix(w, k) /\ Prefix(w, k) \in Nat
<1> DEFINE v == SubSeq(w, 1, k)
<1>1. w \in Seq(Timed) /\ Len(w) \in Nat
  BY TimedAre
<1>2. v \in Seq(Timed) /\ Len(v) = k /\ \A i \in 1 .. k : v[i] = w[i]
  <2>1. \A i \in 1 .. k : w[i] \in Timed
    BY <1>1, ElementOfSeq
  <2>2. /\ v \in Seq(Timed) /\ Len(v) = IF 1 <= k THEN k - 1 + 1 ELSE 0
        /\ \A i \in 1 .. k - 1 + 1 : v[i] = w[1 + i - 1]
    BY <2>1, SubSeqProperties
  <2>3. k - 1 + 1 = k /\ \A i \in 1 .. k : 1 + i - 1 = i
    OBVIOUS
  <2> HIDE DEF v
  <2> QED BY <2>2, <2>3
<1> HIDE DEF v
<1>3. Tokens(v) = SumFunctionOnSet(CostsOf(v), 1 .. k)
  BY <1>2, TokensIs
<1>4. \A i \in 1 .. k : CostsOf(w)[i] = w[i].cost /\ w[i].cost \in Nat
  BY <1>1, TokensIs
<1>5. \A i \in 1 .. k : CostsOf(v)[i] = v[i].cost
  BY <1>2, TokensIs
<1>6. \A i \in 1 .. k : CostsOf(v)[i] \in Nat /\ CostsOf(v)[i] = CostsOf(w)[i]
  BY <1>2, <1>4, <1>5
<1>7. IsFiniteSet(1 .. k)
  BY FS_Interval
<1>8. SumFunctionOnSet(CostsOf(v), 1 .. k) = SumFunctionOnSet(CostsOf(w), 1 .. k)
  BY <1>6, <1>7, SumSame
<1>9. SumFunctionOnSet(CostsOf(w), 1 .. k) \in Nat
  <2>1. \A i \in 1 .. k : CostsOf(w)[i] \in Nat
    BY <1>4
  <2> QED BY <1>7, <2>1, SumTake
<1> QED BY <1>3, <1>8, <1>9 DEF v, Prefix

LEMMA PrefixGrows ==
  ASSUME NEW w \in Seq(Slots), NEW l \in 0 .. Len(w), NEW k \in 0 .. l
  PROVE  Prefix(w, k) <= Prefix(w, l)
<1>1. w \in Seq(Timed) /\ Len(w) \in Nat
  BY TimedAre
<1>2. IsFiniteSet(1 .. l) /\ 1 .. k \subseteq 1 .. l
  BY FS_Interval
<1>3. \A i \in 1 .. l : CostsOf(w)[i] \in Nat
  BY <1>1, TokensIs
<1> QED BY <1>2, <1>3, SumSubset DEF Prefix

\* What is left of a window after e ticks in which nothing is granted, and whether
\* a task fits then.
LEMMA FitsLater ==
  ASSUME NEW w \in Seq(Slots), NEW e \in 0 .. Window, NEW c \in Nat
  PROVE  LET k == Leading(w, Window - e)
         IN  Fits(Pruned(Aged(w, e)), c)
               <=> /\ Len(w) - k < RequestsPerMinute
                   /\ Tokens(w) + c - TokensPerMinute <= Prefix(w, k)
<1> DEFINE a == Aged(w, e)
           k == Leading(w, Window - e)
           y == Younger(a, Window)
<1>1. e \in Nat /\ Window - e \in Nat /\ Window \in Nat /\ w \in Seq(Timed) /\ Entries(w)
  BY Limits, TimedAre
<1>2. Len(a) = Len(w) /\ \A i \in 1 .. Len(w) : a[i] = [w[i] EXCEPT !.age = @ + e]
  BY <1>1, AgedIs
<1>3. \A i \in 1 .. Len(w) : a[i] \in Timed /\ a[i].age = w[i].age + e /\ a[i].cost = w[i].cost
  <2>1. \A i \in 1 .. Len(w) : w[i] \in Timed
    BY <1>1, ElementOfSeq
  <2>2. \A t \in Timed : /\ [t EXCEPT !.age = @ + e] \in Timed
                         /\ [t EXCEPT !.age = @ + e].age = t.age + e
                         /\ [t EXCEPT !.age = @ + e].cost = t.cost
    <3> TAKE t \in Timed
    <3>1. t = [age |-> t.age, cost |-> t.cost] /\ t.age + e \in Nat /\ t.cost \in Nat
      BY <1>1 DEF Timed
    <3>2. [t EXCEPT !.age = @ + e] = [age |-> t.age + e, cost |-> t.cost]
      BY <3>1
    <3>3. [age |-> t.age + e, cost |-> t.cost] \in Timed
      BY <3>1 DEF Timed
    <3> QED BY <3>2, <3>3
  <2> HIDE DEF a
  <2> QED BY <1>2, <2>1, <2>2
<1>4. a \in Seq(Timed)
  <2>1. a = [i \in 1 .. Len(w) |-> a[i]] /\ Len(w) \in Nat
    BY <1>1 DEF Aged, Entries
  <2> HIDE DEF a
  <2> QED BY <1>3, <2>1, FunctionIsSeq
<1> HIDE DEF a
<1>5. /\ k \in 0 .. Len(w)
      /\ \A i \in 1 .. k : w[i].age >= Window - e
      /\ k < Len(w) => w[k + 1].age < Window - e
  BY <1>1, LeadingIs
<1> HIDE DEF k
<1>6. Leading(a, Window) = k
  <2>1. Entries(a)
    BY <1>4, TimedAre
  <2>2. \A i \in 1 .. Len(w) : w[i].age \in Nat
    BY <1>1 DEF Entries
  <2>3. \A i \in 1 .. k : a[i].age >= Window
    BY <1>1, <1>3, <1>5, <2>2
  <2>4. k < Len(a) => a[k + 1].age < Window
    <3> SUFFICES ASSUME k < Len(w) PROVE a[k + 1].age < Window
      BY <1>2
    <3>1. k + 1 \in 1 .. Len(w)
      BY <1>1, <1>5 DEF Entries
    <3> QED BY <1>1, <1>3, <1>5, <2>2, <3>1
  <2> QED BY <1>1, <1>2, <1>5, <2>1, <2>3, <2>4, LeadingUnique
<1>7. Len(y) = Len(w) - k
  BY <1>1, <1>2, <1>4, <1>6, TimedAre, YoungerIs
<1>8. Tokens(w) = Prefix(w, k) + Tokens(y) /\ Prefix(w, k) \in Nat /\ Tokens(y) \in Nat
  <2>1. Tokens(a) = Prefix(a, k) + Tokens(y) /\ Prefix(a, k) \in Nat /\ Tokens(y) \in Nat
    BY <1>1, <1>4, <1>6, TokensYounger
  <2>2. CostsOf(a) = CostsOf(w)
    BY <1>2, <1>3 DEF CostsOf
  <2>3. Tokens(a) = Tokens(w)
    BY <1>1, <1>2, <1>3, <1>4, TokensSame
  <2> QED BY <2>1, <2>2, <2>3 DEF Prefix
<1>9. Fits(Pruned(a), c) <=> Len(y) < RequestsPerMinute /\ Tokens(y) + c <= TokensPerMinute
  BY DEF Fits, Pruned
<1> HIDE DEF y
<1>10. Tokens(y) + c <= TokensPerMinute <=> Tokens(w) + c - TokensPerMinute <= Prefix(w, k)
  BY <1>8, Limits
<1> QED BY <1>7, <1>9, <1>10 DEF a, k

\* The greatest of the waits: until the window has room, and until each entry that
\* must go has gone.
LEMMA RetryAfterIs ==
  ASSUME NEW w \in Seq(Slots), NEW c \in Nat
  PROVE  LET d == RetryAfter(w, c)
             toFree == Tokens(w) + c - TokensPerMinute
         IN  /\ Len(w) >= RequestsPerMinute => Window - w[1].age <= d
             /\ \A i \in 1 .. Len(w) : Prefix(w, i - 1) < toFree => Window - w[i].age <= d
             /\ \/ d = 0
                \/ Len(w) >= RequestsPerMinute /\ d = Window - w[1].age
                \/ \E i \in 1 .. Len(w) : Prefix(w, i - 1) < toFree /\ d = Window - w[i].age
<1> DEFINE toFree == Tokens(w) + c - TokensPerMinute
           forRequests == IF Len(w) >= RequestsPerMinute THEN {Window - w[1].age} ELSE {}
           forTokens == {Window - w[i].age :
                           i \in {j \in 1 .. Len(w) : Tokens(SubSeq(w, 1, j - 1)) < toFree}}
           waits == forRequests \cup forTokens \cup {0}
           d == RetryAfter(w, c)
<1>1. \A i \in 1 .. Len(w) : Tokens(SubSeq(w, 1, i - 1)) = Prefix(w, i - 1)
  <2> TAKE i \in 1 .. Len(w)
  <2>1. i - 1 \in 0 .. Len(w)
    BY SlotsAre DEF Entries
  <2> QED BY <2>1, TokensPrefix
<1>2. waits \subseteq 0 .. Window /\ waits # {}
  <2>1. \A i \in 1 .. Len(w) : Window - w[i].age \in 0 .. Window
    <3>1. \A a \in 0 .. Window : Window - a \in 0 .. Window
      BY Limits
    <3> QED BY <3>1, SlotsAre
  <2>2. Len(w) >= RequestsPerMinute => 1 \in 1 .. Len(w)
    BY Limits, SlotsAre DEF Entries
  <2> QED BY <2>1, <2>2, Limits
<1>3. d \in waits /\ \A n \in waits : n <= d
  <2>1. d = CHOOSE m \in waits : \A n \in waits : n <= m
    BY DEF RetryAfter
  <2> HIDE DEF waits, d
  <2>2. \E m \in waits : \A n \in waits : n <= m
    BY <1>2, Limits, Greatest
  <2> QED BY <2>1, <2>2
<1>4. Len(w) >= RequestsPerMinute => Window - w[1].age \in waits
  OBVIOUS
<1>5. \A i \in 1 .. Len(w) : Prefix(w, i - 1) < toFree => Window - w[i].age \in waits
  <2> HIDE DEF toFree
  <2> QED BY <1>1
<1>6. \/ d = 0
      \/ Len(w) >= RequestsPerMinute /\ d = Window - w[1].age
      \/ \E i \in 1 .. Len(w) : Prefix(w, i - 1) < toFree /\ d = Window - w[i].age
  <2> HIDE DEF toFree, d
  <2> QED BY <1>1, <1>3
<1> HIDE DEF waits, d, toFree
<1>7. \A i \in 1 .. Len(w) : Prefix(w, i - 1) < toFree => Window - w[i].age <= d
  BY <1>3, <1>5
<1>8. Len(w) >= RequestsPerMinute => Window - w[1].age <= d
  BY <1>3, <1>4
<1> QED BY <1>6, <1>7, <1>8 DEF d, toFree

LEMMA RetryIsExact ==
  ASSUME NEW w \in Seq(Slots), Len(w) <= RequestsPerMinute, NEW c \in 1 .. TokensPerMinute
  PROVE  LET d == RetryAfter(w, c)
         IN  /\ Fits(Pruned(Aged(w, d)), c)
             /\ d > 0 => ~Fits(Pruned(Aged(w, d - 1)), c)
<1> DEFINE d == RetryAfter(w, c)
           toFree == Tokens(w) + c - TokensPerMinute
<1>0. /\ c \in Nat /\ c <= TokensPerMinute /\ TokensPerMinute \in Nat
      /\ Window \in Nat /\ Window > 0 /\ RequestsPerMinute \in Nat /\ RequestsPerMinute > 0
      /\ w \in Seq(Timed) /\ Entries(w) /\ Len(w) \in Nat
  BY Limits, TimedAre DEF Entries
<1>1. d \in 0 .. Window
  BY RetryAfterType
<1>2. /\ Len(w) >= RequestsPerMinute => Window - w[1].age <= d
      /\ \A i \in 1 .. Len(w) : Prefix(w, i - 1) < toFree => Window - w[i].age <= d
      /\ \/ d = 0
         \/ Len(w) >= RequestsPerMinute /\ d = Window - w[1].age
         \/ \E i \in 1 .. Len(w) : Prefix(w, i - 1) < toFree /\ d = Window - w[i].age
  BY <1>0, RetryAfterIs
<1> HIDE DEF d
<1>3. \A i \in 1 .. Len(w) : w[i].age \in Nat
  BY <1>0 DEF Entries
<1>4. \A l \in 0 .. Len(w) : Prefix(w, l) \in Nat
  BY TokensPrefix
<1>5. Tokens(w) \in Nat /\ toFree \in Int /\ toFree <= Tokens(w)
  BY <1>0, TokensIs
<1>6. Fits(Pruned(Aged(w, d)), c)
  <2> DEFINE k == Leading(w, Window - d)
  <2>1. /\ k \in 0 .. Len(w)
        /\ k < Len(w) => w[k + 1].age < Window - d
    <3>1. Window - d \in Nat
      BY <1>0, <1>1
    <3> QED BY <1>0, <3>1, LeadingIs
  <2>2. Fits(Pruned(Aged(w, d)), c)
          <=> Len(w) - k < RequestsPerMinute /\ toFree <= Prefix(w, k)
    BY <1>0, <1>1, FitsLater
  <2> HIDE DEF k, toFree
  <2>3. Len(w) - k < RequestsPerMinute
    <3> SUFFICES ASSUME Len(w) >= RequestsPerMinute, k = 0 PROVE FALSE
      BY <1>0, <2>1
    <3>1. 1 \in 1 .. Len(w) /\ k < Len(w) /\ k + 1 = 1
      BY <1>0
    <3> QED BY <1>0, <1>1, <1>2, <1>3, <2>1, <3>1
  <2>4. toFree <= Prefix(w, k)
    <3>1. CASE k < Len(w)
      <4>1. k + 1 \in 1 .. Len(w) /\ (k + 1) - 1 = k
        BY <1>0, <2>1, <3>1
      <4>2. ~(Window - w[k + 1].age <= d)
        BY <1>0, <1>1, <1>3, <2>1, <3>1, <4>1
      <4>3. ~(Prefix(w, k) < toFree)
        BY <1>2, <4>1, <4>2
      <4> QED BY <1>4, <1>5, <2>1, <4>3
    <3>2. CASE k = Len(w)
      <4>1. Prefix(w, Len(w)) = Tokens(w)
        BY <1>0, TokensIs DEF Prefix
      <4> QED BY <1>5, <3>2, <4>1
    <3> QED BY <1>0, <2>1, <3>1, <3>2
  <2> QED BY <2>2, <2>3, <2>4
<1>7. ASSUME d > 0 PROVE ~Fits(Pruned(Aged(w, d - 1)), c)
  <2> DEFINE k == Leading(w, Window - (d - 1))
  <2>0. d - 1 \in 0 .. Window /\ Window - (d - 1) \in Nat
    BY <1>0, <1>1, <1>7
  <2>1. k \in 0 .. Len(w) /\ \A i \in 1 .. k : w[i].age >= Window - (d - 1)
    BY <1>0, <2>0, LeadingIs
  <2>2. Fits(Pruned(Aged(w, d - 1)), c)
          <=> Len(w) - k < RequestsPerMinute /\ toFree <= Prefix(w, k)
    BY <1>0, <2>0, FitsLater
  <2> HIDE DEF k, toFree
  <2>3. CASE Len(w) >= RequestsPerMinute /\ d = Window - w[1].age
    <3>1. 1 \in 1 .. Len(w) /\ ~(w[1].age >= Window - (d - 1))
      BY <1>0, <1>3, <2>3
    <3>2. k = 0
      BY <2>1, <3>1
    <3> QED BY <1>0, <2>2, <2>3, <3>2
  <2>4. CASE \E i \in 1 .. Len(w) : Prefix(w, i - 1) < toFree /\ d = Window - w[i].age
    <3>1. PICK i \in 1 .. Len(w) : Prefix(w, i - 1) < toFree /\ d = Window - w[i].age
      BY <2>4
    <3>2. ~(w[i].age >= Window - (d - 1))
      BY <1>0, <1>3, <3>1
    <3>3. i - 1 \in 0 .. Len(w) /\ k \in 0 .. i - 1
      BY <1>0, <2>1, <3>2
    <3>4. Prefix(w, k) <= Prefix(w, i - 1)
      BY <3>3, PrefixGrows
    <3>5. Prefix(w, k) \in Nat /\ Prefix(w, i - 1) \in Nat
      BY <1>4, <2>1, <3>3
    <3>6. ~(toFree <= Prefix(w, k))
      BY <1>5, <3>1, <3>4, <3>5
    <3> QED BY <2>2, <3>6
  <2> QED BY <1>2, <1>7, <2>3, <2>4
<1> QED BY <1>6, <1>7 DEF d

\* retry_after_seconds is exact: when it has passed the task fits, if nobody else is
\* granted a slot, and a tick earlier it does not.
THEOREM RetryExact == Spec => []RetryAfterExact
<1>1. GateInv /\ GrantsWithinRates => RetryAfterExact
  <2> SUFFICES ASSUME GateInv, GrantsWithinRates PROVE RetryAfterExact
    OBVIOUS
  <2>1. Pruned(window) \in Seq(Slots) /\ Len(Pruned(window)) <= RequestsPerMinute
    BY DEF GateInv, AgesInv, TypeOK, GrantsWithinRates
  <2> QED BY <2>1, RetryIsExact DEF RetryAfterExact
<1> QED BY <1>1, Gatekeeping, RatesHold, PTL

-------------------------------------------------------------------------------
(* The budget. *)

Wants == {"acquire", "window", "giveback", "refused", "enqueue"}
Granted == {"calling", "record"}

LEMMA UngrantedIs ==
  /\ Ungranted = {u \in Callers : \/ pc[u] \in Wants
                                  \/ InQueue(u)
                                  \/ dtask = u /\ pc[Dispatcher] \notin Granted}
  /\ Ungranted' = {u \in Callers : \/ pc'[u] \in Wants
                                   \/ InQueue(u)'
                                   \/ dtask' = u /\ pc'[Dispatcher] \notin Granted}
BY DEF Ungranted, Wants, Granted

LEMMA CostsAre ==
  ASSUME TypeOK
  PROVE  /\ IsFiniteSet(Ungranted)
         /\ \A u \in Callers : cost[u] \in Nat
         /\ spent \in Nat /\ tracked \in Nat /\ tracked <= MaxBudget
         /\ SumFunctionOnSet(cost, Ungranted) \in Nat
<1>1. Ungranted \subseteq Callers
  BY DEF Ungranted
<1>2. IsFiniteSet(Ungranted)
  BY <1>1, Limits, FS_Subset
<1>3. \A u \in Callers : cost[u] \in Nat
  <2>1. Costs \cup {0} \subseteq Nat
    BY Limits
  <2> QED BY <2>1 DEF TypeOK
<1>4. SumFunctionOnSet(cost, Ungranted) \in Nat
  BY <1>1, <1>2, <1>3, SumTake
<1> QED BY <1>2, <1>3, <1>4, Limits DEF TypeOK

\* A step by which nobody comes to wait for a slot leaves the budget as it is.
LEMMA PaidKept ==
  ASSUME TypeOK, TypeOK', PaidBeforeGranted, UNCHANGED <<spent, tracked>>,
         Ungranted' \subseteq Ungranted, \A u \in Ungranted' : cost'[u] = cost[u]
  PROVE  PaidBeforeGranted'
<1>1. Ungranted \subseteq Callers
  BY DEF Ungranted
<1>2. IsFiniteSet(Ungranted) /\ \A u \in Ungranted : cost[u] \in Nat
  BY <1>1, CostsAre
<1>3. IsFiniteSet(Ungranted')
  BY <1>2, FS_Subset
<1>4. SumFunctionOnSet(cost, Ungranted') <= SumFunctionOnSet(cost, Ungranted)
  BY <1>2, SumSubset
<1>5. \A u \in Ungranted' : cost'[u] \in Nat /\ cost'[u] = cost[u]
  BY <1>2
<1>6. SumFunctionOnSet(cost', Ungranted') = SumFunctionOnSet(cost, Ungranted')
  BY <1>3, <1>5, SumSame
<1>7. SumFunctionOnSet(cost', Ungranted') \in Nat
  BY <1>3, <1>5, SumTake
<1> QED BY <1>4, <1>6, <1>7, CostsAre, Limits DEF PaidBeforeGranted

\* So does a thread that goes on, unless it is granted a slot or gives it back.
LEMMA UngrantedKept ==
  ASSUME TypeOK, NEW t \in Threads, NEW step, Goto(t, step), UNCHANGED <<dtask, queue>>,
         t \in Callers /\ step \in Wants => pc[t] \in Wants,
         t = Dispatcher /\ dtask # NoTask /\ step \notin Granted => pc[t] \notin Granted
  PROVE  Ungranted' \subseteq Ungranted
<1>1. pc'[t] = step /\ \A u \in Threads \ {t} : pc'[u] = pc[u]
  BY Moved
<1> HIDE DEF Goto
<1>2. \A u \in Callers : pc'[u] \in Wants => pc[u] \in Wants
  BY <1>1 DEF Threads
<1>3. dtask # NoTask /\ pc'[Dispatcher] \notin Granted => pc[Dispatcher] \notin Granted
  BY <1>1 DEF Threads
<1>4. \A u \in Callers : InQueue(u)' => InQueue(u)
  BY DEF InQueue
<1>5. \A u \in Callers : u # NoTask
  BY Names
<1> QED BY <1>2, <1>3, <1>4, <1>5, UngrantedIs

\* A reservation pays for the one call that comes to wait.
LEMMA ReservePaid ==
  ASSUME GateInv, TypeOK', PaidBeforeGranted, NEW t \in Callers, Reserve(t)
  PROVE  PaidBeforeGranted'
<1>0. TypeOK /\ PlaceInv
  BY DEF GateInv
<1>1. PICK c \in Costs : /\ pc[t] = "idle" /\ Goto(t, "acquire")
                         /\ tracked' = tracked + c /\ cost' = [cost EXCEPT ![t] = c]
                         /\ UNCHANGED <<dtask, queue, spent>>
  BY DEF Reserve
<1>2. pc'[t] = "acquire" /\ \A u \in Threads \ {t} : pc'[u] = pc[u]
  BY <1>0, <1>1, Moved DEF Threads
<1>3. cost'[t] = c /\ c \in Nat /\ \A u \in Callers \ {t} : cost'[u] = cost[u]
  BY <1>0, <1>1, Waiters, Limits
<1> HIDE DEF Goto
<1>4. dtask # t /\ ~InQueue(t)
  BY <1>0, <1>1, Unknown
<1>5. t \notin Ungranted
  BY <1>1, <1>4 DEF Ungranted
<1>6. Ungranted' = Ungranted \cup {t}
  <2>1. \A u \in Callers \ {t} : pc'[u] = pc[u]
    BY <1>2 DEF Threads
  <2>2. pc'[Dispatcher] = pc[Dispatcher]
    BY <1>2, Names DEF Threads
  <2>3. \A u \in Callers : InQueue(u)' <=> InQueue(u)
    BY <1>1 DEF InQueue
  <2> QED BY <1>1, <1>2, <2>1, <2>2, <2>3, UngrantedIs DEF Wants
<1>7. Ungranted \subseteq Callers \ {t} /\ IsFiniteSet(Ungranted)
  BY <1>0, <1>5, CostsAre DEF Ungranted
<1>8. \A u \in Ungranted : cost'[u] \in Nat /\ cost'[u] = cost[u]
  BY <1>0, <1>3, <1>7, CostsAre
<1>9. SumFunctionOnSet(cost', Ungranted) = SumFunctionOnSet(cost, Ungranted)
  BY <1>7, <1>8, SumSame
<1>10. SumFunctionOnSet(cost', Ungranted \cup {t})
         = cost'[t] + SumFunctionOnSet(cost', Ungranted)
  BY <1>3, <1>5, <1>7, <1>8, SumAdd
<1>11. SumFunctionOnSet(cost', Ungranted') = c + SumFunctionOnSet(cost, Ungranted)
  BY <1>3, <1>6, <1>9, <1>10
<1>12. tracked' <= MaxBudget
  BY Limits DEF TypeOK
<1>13. /\ spent \in Nat /\ tracked \in Nat /\ SumFunctionOnSet(cost, Ungranted) \in Nat
       /\ spent + SumFunctionOnSet(cost, Ungranted) <= tracked
  BY <1>0, CostsAre DEF PaidBeforeGranted
<1> QED BY <1>1, <1>3, <1>11, <1>12, <1>13 DEF PaidBeforeGranted

\* A slot granted was waited for.
LEMMA GrantPaid ==
  ASSUME GateInv, PaidBeforeGranted, NEW t \in Threads, Grant(t)
  PROVE  PaidBeforeGranted'
<1>0. TypeOK /\ PlaceInv
  BY DEF GateInv
<1>1. /\ pc[t] = "window" /\ Goto(t, "calling") /\ spent' = spent + cost[Task(t)]
      /\ UNCHANGED <<cost, dtask, queue, tracked, done>>
  BY DEF Grant
<1>1a. PICK k \in Callers : k = Task(t)
  BY <1>0, <1>1, HasTask DEF PlaceInv, SharedSteps
<1>2. /\ spent' = spent + cost[k] /\ (t = Dispatcher => dtask # NoTask /\ pc[dtask] = "waiting")
      /\ (t = Dispatcher => dtask = k) /\ (t # Dispatcher => t = k)
      /\ ~done[k]
  BY <1>0, <1>1, <1>1a, HasTask DEF PlaceInv, SharedSteps
<1>3. pc'[t] = "calling" /\ \A u \in Threads \ {t} : pc'[u] = pc[u]
  BY <1>0, <1>1, Moved
<1>4. k \in Ungranted
  <2>1. CASE t = Dispatcher
    BY <1>1, <1>2, <2>1 DEF Ungranted
  <2>2. CASE t # Dispatcher
    BY <1>1, <1>2, <2>2 DEF Ungranted
  <2> QED BY <2>1, <2>2
<1>5. Ungranted' \subseteq Ungranted
  BY <1>0, <1>1, UngrantedKept DEF Wants, Granted
<1>6. k \notin Ungranted'
  <2>1. CASE t = Dispatcher
    <3>1. k = dtask /\ pc'[k] = "waiting" /\ pc'[Dispatcher] = "calling"
      BY <1>2, <1>3, <2>1, Names DEF Threads
    <3>2. ~InQueue(k)'
      BY <1>0, <1>1, <3>1 DEF PlaceInv, QueueInv, InQueue
    <3> QED BY <3>1, <3>2, <1>1, UngrantedIs DEF Wants, Granted
  <2>2. CASE t # Dispatcher
    <3>1. k = t /\ pc'[k] = "calling" /\ t \in Callers /\ pc[t] # "waiting"
      BY <1>1, <1>2, <1>3, <2>2 DEF Threads
    <3>2. dtask # t /\ ~InQueue(t)
      BY <1>0, <3>1, Unknown
    <3>3. ~InQueue(k)'
      BY <1>1, <3>1, <3>2 DEF InQueue
    <3> QED BY <1>1, <3>1, <3>2, <3>3, UngrantedIs DEF Wants
  <2> QED BY <2>1, <2>2
<1>7. IsFiniteSet(Ungranted) /\ \A u \in Ungranted : cost[u] \in Nat
  BY <1>0, CostsAre DEF Ungranted
<1>8. SumFunctionOnSet(cost, Ungranted) = cost[k] + SumFunctionOnSet(cost, Ungranted \ {k})
  BY <1>4, <1>7, SumTake
<1>9. IsFiniteSet(Ungranted \ {k}) /\ Ungranted' \subseteq Ungranted \ {k}
  BY <1>5, <1>6, <1>7, FS_Subset
<1>10. SumFunctionOnSet(cost, Ungranted') <= SumFunctionOnSet(cost, Ungranted \ {k})
  BY <1>7, <1>9, SumSubset
<1>11. IsFiniteSet(Ungranted') /\ \A u \in Ungranted' : cost[u] \in Nat
  BY <1>5, <1>7, FS_Subset
<1>12. SumFunctionOnSet(cost, Ungranted') \in Nat
         /\ SumFunctionOnSet(cost, Ungranted \ {k}) \in Nat
  BY <1>7, <1>9, <1>11, SumTake
<1>13. /\ spent \in Nat /\ tracked \in Nat /\ cost[k] \in Nat /\ MaxBudget \in Nat
       /\ spent + SumFunctionOnSet(cost, Ungranted) <= tracked /\ tracked <= MaxBudget
  BY <1>0, <1>4, <1>7, CostsAre, Limits DEF PaidBeforeGranted
<1> QED BY <1>1, <1>2, <1>8, <1>10, <1>12, <1>13 DEF PaidBeforeGranted

LEMMA PaidStep ==
  ASSUME GateInv, TypeOK', PaidBeforeGranted, [Next]_vars
  PROVE  PaidBeforeGranted'
<1>0. TypeOK /\ PlaceInv /\ Dispatcher \in Threads /\ Dispatcher \notin Callers
  BY Names DEF GateInv, Threads
<1>1. ASSUME UNCHANGED <<pc, cost, dtask, queue, spent, tracked>> PROVE PaidBeforeGranted'
  <2>1. Ungranted' = Ungranted
    BY <1>1 DEF Ungranted, InQueue
  <2> QED BY <1>0, <1>1, <2>1, PaidKept
<1>2. ASSUME NEW t \in Threads, SharedStep(t) PROVE PaidBeforeGranted'
  <2> USE DEF Wants, Granted
  <2>1. CASE TryAcquire(t)
    <3>1. PICK step \in {"window", "refused"} : Goto(t, step)
      BY <2>1 DEF TryAcquire
    <3>2. Ungranted' \subseteq Ungranted
      BY <1>0, <2>1, <3>1, UngrantedKept DEF TryAcquire
    <3> QED BY <1>0, <2>1, <3>2, PaidKept DEF TryAcquire
  <2>2. CASE Grant(t)
    BY <2>2, GrantPaid
  <2>3. CASE Deny(t)
    <3>1. Ungranted' \subseteq Ungranted
      BY <1>0, <2>3, UngrantedKept DEF Deny
    <3> QED BY <1>0, <2>3, <3>1, PaidKept DEF Deny
  <2>4. CASE GiveBack(t)
    <3>1. Ungranted' \subseteq Ungranted
      BY <1>0, <2>4, UngrantedKept DEF GiveBack
    <3> QED BY <1>0, <2>4, <3>1, PaidKept DEF GiveBack
  <2>5. CASE Refused(t)
    <3>1. PICK step \in {"sleep", "enqueue"} : Goto(t, step)
      BY <2>5 DEF Refused
    <3>2. Ungranted' \subseteq Ungranted
      BY <1>0, <2>5, <3>1, UngrantedKept DEF Refused
    <3> QED BY <1>0, <2>5, <3>2, PaidKept DEF Refused
  <2>6. CASE Request(t)
    <3>1. CASE Goto(t, "record")
      <4>1. Ungranted' \subseteq Ungranted
        BY <1>0, <2>6, <3>1, UngrantedKept DEF Request
      <4> QED BY <1>0, <2>6, <4>1, PaidKept DEF Request
    <3>2. CASE UNCHANGED pc
      BY <1>1, <2>6, <3>2 DEF Request
    <3> QED BY <2>6, <3>1, <3>2 DEF Request
  <2>7. CASE Record(t)
    <3>1. pc'[t] = "release" /\ \A u \in Threads \ {t} : pc'[u] = pc[u]
      BY <1>0, <2>7, Moved DEF Record
    <3>2. /\ UNCHANGED <<cost, queue, spent, tracked>> /\ pc[t] = "record"
          /\ dtask' = IF t = Dispatcher THEN NoTask ELSE dtask
      BY <2>7 DEF Record
    <3>3. \A u \in Callers : pc'[u] \in Wants => pc[u] \in Wants
      BY <1>0, <3>1 DEF Threads
    <3>4. \A u \in Callers : InQueue(u)' => InQueue(u)
      BY <3>2 DEF InQueue
    <3>5. \A u \in Callers : dtask' = u /\ pc'[Dispatcher] \notin Granted
            => dtask = u /\ pc[Dispatcher] \notin Granted
      BY <1>0, <3>1, <3>2, Names DEF Threads
    <3>6. Ungranted' \subseteq Ungranted
      BY <3>3, <3>4, <3>5, UngrantedIs
    <3> QED BY <1>0, <3>2, <3>6, PaidKept
  <2>8. CASE Release(t)
    <3>1. PICK step \in {"loop", "waiting"} : Goto(t, step)
      BY <2>8 DEF Release
    <3>2. t = Dispatcher => dtask = NoTask
      BY <1>0, <2>8 DEF Release, PlaceInv, DispatchInv, Busy
    <3>3. Ungranted' \subseteq Ungranted
      BY <1>0, <2>8, <3>1, <3>2, UngrantedKept DEF Release
    <3> QED BY <1>0, <2>8, <3>3, PaidKept DEF Release
  <2> QED BY <1>2, <2>1, <2>2, <2>3, <2>4, <2>5, <2>6, <2>7, <2>8 DEF SharedStep
\* A call that is over, its task known to nobody.
<1>3. ASSUME NEW t \in Callers, pc[t] # "waiting" \/ done[t], Goto(t, "idle"), Forget(t),
             UNCHANGED <<dtask, queue, spent, tracked>>
      PROVE  PaidBeforeGranted'
  <2>1. Ungranted' \subseteq Ungranted
    BY <1>0, <1>3, UngrantedKept DEF Threads, Wants
  <2>2. pc'[t] = "idle"
    BY <1>0, <1>3, Moved DEF Threads
  <2>3. ~InQueue(t)'
    <3>1. \A i \in 1 .. Len(queue) : queue[i] # t
      BY <1>0, <1>3, Unknown
    <3> QED BY <1>3, <3>1 DEF InQueue
  <2>4. dtask' # t
    BY <1>0, <1>3, Unknown
  <2>5. t \notin Ungranted'
    BY <2>2, <2>3, <2>4, UngrantedIs DEF Wants
  <2>6. \A u \in Ungranted' : u \in Callers /\ u # t
    BY <2>5, UngrantedIs
  <2>7. \A u \in Ungranted' : cost'[u] = cost[u]
    BY <1>0, <1>3, <2>6, Waiters DEF Forget
  <2> QED BY <1>0, <1>3, <2>1, <2>7, PaidKept
<1>4. ASSUME NEW t \in Callers, Enqueue(t) PROVE PaidBeforeGranted'
  <2>1. pc[t] = "enqueue" /\ UNCHANGED <<dtask, spent, tracked>>
    BY <1>4 DEF Enqueue
  <2>2. CASE UNCHANGED queue /\ Goto(t, "idle") /\ Forget(t)
    BY <1>3, <2>1, <2>2
  <2>3. CASE queue' = Append(queue, t) /\ Goto(t, "waiting") /\ UNCHANGED taskVars
    <3>1. pc'[t] = "waiting" /\ \A u \in Threads \ {t} : pc'[u] = pc[u]
      BY <1>0, <2>3, Moved DEF Threads
    <3>2. /\ Len(queue) \in Nat /\ Len(queue') = Len(queue) + 1
          /\ \A i \in 1 .. Len(queue) : queue'[i] = queue[i]
          /\ queue'[Len(queue) + 1] = t
      BY SMTT(60), <1>0, <2>3, AppendProperties DEF TypeOK
    <3>3. \A u \in Callers : InQueue(u)' => InQueue(u) \/ u = t
      BY <3>2 DEF InQueue
    <3>4. \A u \in Callers : pc'[u] \in Wants => pc[u] \in Wants
      BY <3>1 DEF Threads, Wants
    <3>5. pc'[Dispatcher] = pc[Dispatcher]
      BY <1>0, <3>1
    <3>6. t \in Ungranted
      BY <2>1, UngrantedIs DEF Wants
    <3>7. Ungranted' \subseteq Ungranted
      BY <2>1, <3>3, <3>4, <3>5, <3>6, UngrantedIs
    <3> QED BY <1>0, <2>1, <2>3, <3>7, PaidKept
  <2> QED BY <1>4, <2>2, <2>3 DEF Enqueue
<1>5. ASSUME NEW t \in Callers, Return(t) PROVE PaidBeforeGranted'
  BY <1>3, <1>5 DEF Return
<1>6. CASE Poll
  <2>1. PICK step \in {"exited", "get"} : Goto(Dispatcher, step)
    BY <1>6 DEF Poll
  <2>2. Ungranted' \subseteq Ungranted
    BY <1>0, <1>6, <2>1, UngrantedKept DEF Poll, Granted
  <2> QED BY <1>0, <1>6, <2>2, PaidKept DEF Poll
<1>7. CASE Wake
  <2>1. Ungranted' \subseteq Ungranted
    BY <1>0, <1>7, UngrantedKept DEF Wake, Granted
  <2> QED BY <1>0, <1>7, <2>1, PaidKept DEF Wake
<1>8. CASE Dequeue
  <2>1. pc[Dispatcher] = "get" /\ UNCHANGED <<cost, spent, tracked>>
    BY <1>8 DEF Dequeue
  <2>2. CASE queue = <<>>
    <3>1. Goto(Dispatcher, "loop") /\ UNCHANGED <<dtask, queue>>
      BY <1>8, <2>2 DEF Dequeue
    <3>2. Ungranted' \subseteq Ungranted
      BY <1>0, <2>1, <3>1, UngrantedKept DEF Granted
    <3> QED BY <1>0, <2>1, <3>2, PaidKept
  <2>3. CASE queue # <<>>
    <3>1. dtask' = Head(queue) /\ queue' = Tail(queue) /\ Goto(Dispatcher, "check")
      BY <1>8, <2>3 DEF Dequeue
    <3>2. \A u \in Threads \ {Dispatcher} : pc'[u] = pc[u]
      BY <1>0, <3>1, Moved
    <3>3. /\ Len(queue) \in Nat /\ Len(queue) > 0 /\ Len(queue') = Len(queue) - 1
          /\ \A i \in 1 .. Len(queue') : queue'[i] = queue[i + 1]
          /\ dtask' = queue[1]
      <4>1. queue \in Seq(Callers)
        BY <1>0 DEF TypeOK
      <4> HIDE DEF Goto
      <4> QED BY <2>3, <3>1, <4>1
    <3>4. \A u \in Callers : pc'[u] = pc[u]
      BY <1>0, <3>2 DEF Threads
    <3>5. 1 \in 1 .. Len(queue) /\ \A i \in 1 .. Len(queue') : i + 1 \in 1 .. Len(queue)
      BY <3>3
    <3>6. \A u \in Callers : InQueue(u)' \/ dtask' = u => InQueue(u)
      BY <3>3, <3>5 DEF InQueue
    <3>7. Ungranted' \subseteq Ungranted
      BY <3>4, <3>6, UngrantedIs
    <3> QED BY <1>0, <2>1, <3>7, PaidKept
  <2> QED BY <2>2, <2>3
<1>9. CASE Check
  <2>1. pc[Dispatcher] = "check" /\ UNCHANGED <<cost, queue, spent, tracked>>
          /\ (dtask' = NoTask \/ dtask' = dtask)
    BY <1>9 DEF Check
  <2>2. PICK step \in {"loop", "acquire"} : Goto(Dispatcher, step)
    BY <1>9 DEF Check
  <2>3. \A u \in Callers : pc'[u] = pc[u]
    BY <1>0, <2>2, Moved DEF Threads
  <2>4. \A u \in Callers : InQueue(u)' => InQueue(u)
    BY <2>1 DEF InQueue
  <2>5. \A u \in Callers : dtask' = u => dtask = u /\ pc[Dispatcher] \notin Granted
    BY <2>1, Names DEF Granted
  <2>6. Ungranted' \subseteq Ungranted
    BY <2>3, <2>4, <2>5, UngrantedIs
  <2> QED BY <1>0, <2>1, <2>6, PaidKept
<1>10. CASE ShutDown \/ Tick \/ UNCHANGED vars
  BY <1>1, <1>10 DEF ShutDown, Tick
<1> QED BY <1>2, <1>4, <1>5, <1>6, <1>7, <1>8, <1>9, <1>10, ReservePaid, StepCases

\* No slot is granted that was not paid for: what was granted and what still waits
\* for a slot is within the reservations, and they within the budget.
THEOREM NothingUnpaid == Spec => []PaidBeforeGranted
<1>1. Init => PaidBeforeGranted
  <2> SUFFICES ASSUME Init PROVE PaidBeforeGranted
    OBVIOUS
  <2>1. Ungranted = {}
    <3>1. (\A u \in Callers : pc[u] = "idle") /\ Len(queue) = 0 /\ dtask = NoTask
      BY Names DEF Init, Threads
    <3>2. \A u \in Callers : ~InQueue(u) /\ dtask # u
      BY <3>1, Names DEF InQueue
    <3> QED BY <3>1, <3>2 DEF Ungranted
  <2>2. SumFunctionOnSet(cost, Ungranted) = 0
    BY <2>1, SumEmpty
  <2> QED BY <2>2, Limits DEF Init, PaidBeforeGranted
<1>2. GateInv /\ PaidBeforeGranted /\ [Next]_vars => PaidBeforeGranted'
  <2>1. GateInv /\ [Next]_vars => TypeOK'
    BY GateStep DEF GateInv
  <2> QED BY <2>1, PaidStep
<1> QED BY <1>1, <1>2, Gatekeeping, PTL DEF Spec

-------------------------------------------------------------------------------
(* Requests.  The state no longer knows which call sent a request once that  *)
(* call has left "calling", nor of a call once its slot is out of the window.*)
(* The bound is about both, so the invariant says that the state is the      *)
(* outcome of some story: n calls have been granted, the i-th of them        *)
(* born[i] ticks ago; m requests have been sent, the j-th sent[j] ticks ago  *)
(* and by call own[j]; and thread t runs call cur[t].                        *)

Running == {t \in Threads : pc[t] = "calling"}

\* The requests of one call.
SentBy(i, m, own) == {j \in 1 .. m : own[j] = i}

\* The calls granted at least k ticks ago that have sent a request since, or may
\* yet send one.
Crossing(k, n, born, m, sent, own, cur) ==
  {i \in 1 .. n : /\ born[i] >= k
                  /\ \/ \E t \in Running : cur[t] = i
                     \/ \E j \in 1 .. m : own[j] = i /\ sent[j] < k}

\* The slots in the window are those of the last calls, and the others are old; the
\* requests in the window are the last ones, and young.
WindowsTold(n, born, m, sent) ==
  /\ Len(grants) <= n /\ Len(wire) <= m
  /\ \A c \in 1 .. n : c + Len(grants) <= n => born[c] >= Window
  /\ \A c \in 1 .. n, i \in 1 .. Len(grants) : c + Len(grants) = n + i => born[c] >= grants[i].age
  /\ \A r \in 1 .. m, j \in 1 .. Len(wire) : r + Len(wire) = m + j => sent[r] <= wire[j].age

\* No call sends more than its retries allow, a running one at most one request for
\* each retry it has used; every running call has a thread of its own.
CallsTold(n, m, own, cur) ==
  /\ \A i \in 1 .. n : Cardinality(SentBy(i, m, own)) <= 1 + MaxRetries
  /\ \A t \in Running : /\ cur[t] \in 1 .. n
                        /\ Cardinality(SentBy(cur[t], m, own)) <= attempt[Task(t)]
  /\ \A t, u \in Running : cur[t] = cur[u] => t = u

\* A tick boundary was crossed by no more calls than there are permits.
BoundariesTold(n, born, m, sent, own, cur) ==
  \A k \in 1 .. Window : Cardinality(Crossing(k, n, born, m, sent, own, cur)) <= ConcurrentMax

Story(n, born, m, sent, own, cur) ==
  /\ n \in Nat /\ born \in [1 .. n -> Nat]
  /\ m \in Nat /\ sent \in [1 .. m -> Nat] /\ own \in [1 .. m -> 1 .. n]
  /\ cur \in [Threads -> 0 .. n]
  /\ WindowsTold(n, born, m, sent)
  /\ CallsTold(n, m, own, cur)
  /\ BoundariesTold(n, born, m, sent, own, cur)

RequestsInv == \E n, born, m, sent, own, cur : Story(n, born, m, sent, own, cur)

LEMMA StoryInit == ASSUME Init PROVE RequestsInv
<1> DEFINE none == [x \in {} |-> 0]
           cur == [t \in Threads |-> 0]
<1>1. Story(0, none, 0, none, none, cur)
  <2>1. 1 .. 0 = {} /\ Len(grants) = 0 /\ Len(wire) = 0
    BY DEF Init
  <2>2. /\ none \in [1 .. 0 -> Nat] /\ none \in [1 .. 0 -> 1 .. 0]
        /\ cur \in [Threads -> 0 .. 0]
    BY <2>1
  <2>3. Running = {}
    BY DEF Init, Running
  <2>4. WindowsTold(0, none, 0, none)
    BY <2>1 DEF WindowsTold
  <2>5. CallsTold(0, 0, none, cur)
    BY <2>1, <2>3 DEF CallsTold
  <2>6. BoundariesTold(0, none, 0, none, none, cur)
    <3>1. \A k : Crossing(k, 0, none, 0, none, none, cur) = {}
      BY <2>1 DEF Crossing
    <3>2. 0 <= ConcurrentMax /\ Cardinality({}) = 0
      BY Limits, FS_EmptySet
    <3> QED BY <3>1, <3>2 DEF BoundariesTold
  <2> HIDE DEF none, cur
  <2> QED BY <2>2, <2>4, <2>5, <2>6 DEF Story
<1> QED BY <1>1 DEF RequestsInv

\* A step that grants no slot, sends no request and takes no time leaves the story
\* as it is.
LEMMA StoryKept ==
  ASSUME NEW n, NEW born, NEW m, NEW sent, NEW own, NEW cur,
         Story(n, born, m, sent, own, cur),
         UNCHANGED <<grants, wire, attempt>>, Running' = Running,
         \A t \in Running : Task(t)' = Task(t)
  PROVE  Story(n, born, m, sent, own, cur)'
<1> HIDE DEF Task
<1>1. WindowsTold(n, born, m, sent)'
  BY DEF Story, WindowsTold
<1>2. CallsTold(n, m, own, cur)'
  BY DEF Story, CallsTold
<1>3. BoundariesTold(n, born, m, sent, own, cur)'
  <2>1. \A k : Crossing(k, n, born, m, sent, own, cur)' = Crossing(k, n, born, m, sent, own, cur)
    BY DEF Crossing
  <2> QED BY <2>1 DEF Story, BoundariesTold
<1> QED BY <1>1, <1>2, <1>3 DEF Story

\* Two running calls are calls of two tasks.
LEMMA TasksDiffer ==
  ASSUME GateInv, NEW t \in Running, NEW u \in Running, t # u
  PROVE  Task(t) # Task(u)
<1>1. \A x \in Running : /\ x # Dispatcher => x \in Callers /\ Task(x) = x
                         /\ x = Dispatcher => Task(x) = dtask /\ pc[dtask] = "waiting"
  BY HasTask DEF GateInv, PlaceInv, Running, SharedSteps, Threads
<1>2. \A x \in Running : pc[x] = "calling"
  BY DEF Running
<1> HIDE DEF Task
<1> QED BY <1>1, <1>2

LEMMA WindowsAre ==
  ASSUME GateInv
  PROVE  /\ grants \in Seq(Slots) /\ wire \in Seq(Sent)
         /\ Entries(grants) /\ Entries(wire)
         /\ attempt \in [Callers -> 0 .. MaxRetries]
         /\ \A t \in Running : t \in Threads /\ Task(t) \in Callers
<1>1. /\ grants \in Seq(Slots) /\ wire \in Seq(Sent)
      /\ attempt \in [Callers -> 0 .. MaxRetries]
  BY DEF GateInv, TypeOK, Sent
<1>2. Entries(wire)
  <2>1. Len(wire) \in Nat /\ \A i \in 1 .. Len(wire) : wire[i] \in Sent
    BY <1>1, ElementOfSeq
  <2>2. \A s \in Sent : s.age \in Nat
    BY Limits DEF Sent
  <2> QED BY <2>1, <2>2 DEF Entries
<1>3. \A t \in Running : t \in Threads /\ Task(t) \in Callers
  BY HasTask DEF GateInv, PlaceInv, Running, SharedSteps
<1> QED BY <1>1, <1>2, <1>3, SlotsAre

\* The last of one entry more, and the others.
LEMMA LastOf ==
  ASSUME NEW n \in Nat, NEW l \in Nat, NEW k, k = l + 1,
         NEW c \in 1 .. n + 1, NEW i \in 1 .. k, c + k = n + 1 + i
  PROVE  /\ c = n + 1 => i = l + 1
         /\ c # n + 1 => c \in 1 .. n /\ i \in 1 .. l /\ c + l = n + i
OBVIOUS

\* A slot granted is a call more, that runs and has sent nothing.
LEMMA StoryGrant ==
  ASSUME NEW n, NEW born, NEW m, NEW sent, NEW own, NEW cur,
         Story(n, born, m, sent, own, cur), GateInv, NEW t \in Threads, Grant(t)
  PROVE  RequestsInv'
<1> DEFINE slot == [age |-> 0, cost |-> cost[Task(t)]]
<1>1. /\ n \in Nat /\ m \in Nat /\ born \in [1 .. n -> Nat] /\ sent \in [1 .. m -> Nat]
      /\ own \in [1 .. m -> 1 .. n] /\ cur \in [Threads -> 0 .. n]
  BY DEF Story
<1>2. /\ grants' = Append(grants, slot) /\ slot.age = 0
      /\ UNCHANGED <<wire, attempt, dtask>> /\ pc[t] = "window"
      /\ pc'[t] = "calling" /\ \A u \in Threads \ {t} : pc'[u] = pc[u]
  BY Moved DEF GateInv, Grant
<1> HIDE DEF slot
<1>3. /\ Len(grants) \in Nat /\ Len(grants') = Len(grants) + 1
      /\ \A i \in 1 .. Len(grants) : grants'[i] = grants[i] /\ grants[i].age \in Nat
      /\ grants'[Len(grants) + 1].age = 0
  BY <1>2, WindowsAre, AppendProperties DEF Entries
<1>4. /\ t \notin Running /\ Running' = Running \cup {t}
      /\ \A u \in Running' : Task(u)' = Task(u)
  BY <1>2 DEF Running
<1>5. PICK born1 \in [1 .. n + 1 -> Nat] : born1[n + 1] = 0 /\ \A i \in 1 .. n : born1[i] = born[i]
  <2> DEFINE b == [i \in 1 .. n + 1 |-> IF i = n + 1 THEN 0 ELSE born[i]]
  <2>1. b \in [1 .. n + 1 -> Nat] /\ b[n + 1] = 0 /\ \A i \in 1 .. n : b[i] = born[i]
    BY <1>1
  <2> QED BY <2>1
<1>6. PICK cur1 \in [Threads -> 0 .. n + 1] :
        cur1[t] = n + 1 /\ \A u \in Threads \ {t} : cur1[u] = cur[u]
  <2> DEFINE c == [cur EXCEPT ![t] = n + 1]
  <2>1. c \in [Threads -> 0 .. n + 1] /\ c[t] = n + 1 /\ \A u \in Threads \ {t} : c[u] = cur[u]
    BY <1>1
  <2> QED BY <2>1
<1> HIDE DEF Task, Grant
<1>7. \A i \in 1 .. n + 1 : i \in 1 .. n \/ i = n + 1
  BY <1>1
<1>8. WindowsTold(n + 1, born1, m, sent)'
  <2>1. WindowsTold(n, born, m, sent)
    BY DEF Story
  <2>0. n \in Nat /\ Len(grants) \in Nat /\ Len(grants') = Len(grants) + 1
    BY <1>1, <1>3
  <2>2. Len(grants') <= n + 1
    BY <1>1, <1>3, <2>1 DEF WindowsTold
  <2>3. ASSUME NEW c \in 1 .. n + 1, c + Len(grants') <= n + 1 PROVE born1[c] >= Window
    <3>1. c \in 1 .. n /\ c + Len(grants) <= n
      BY <1>1, <1>3, <2>3
    <3> QED BY <1>5, <2>1, <3>1 DEF WindowsTold
  <2>4. ASSUME NEW c \in 1 .. n + 1, NEW i \in 1 .. Len(grants'), c + Len(grants') = n + 1 + i
        PROVE  born1[c] >= grants'[i].age
    <3> DEFINE l == Len(grants)
               k == Len(grants')
    <3>0. l \in Nat /\ k = l + 1 /\ i \in 1 .. k /\ c + k = n + 1 + i
      BY <2>0, <2>4
    <3> HIDE DEF l, k
    <3>a. /\ c = n + 1 => i = l + 1
          /\ c # n + 1 => c \in 1 .. n /\ i \in 1 .. l /\ c + l = n + i
      BY <2>0, <3>0, LastOf
    <3>1. CASE c = n + 1
      <4>1. i = Len(grants) + 1
        BY <3>1, <3>a DEF l
      <4> QED BY <1>3, <1>5, <3>1, <4>1
    <3>2. CASE c # n + 1
      <4>1. c \in 1 .. n /\ i \in 1 .. Len(grants) /\ c + Len(grants) = n + i
        BY <3>2, <3>a DEF l
      <4> QED BY <1>3, <1>5, <2>1, <4>1 DEF WindowsTold
    <3> QED BY <3>1, <3>2
  <2> QED BY <1>2, <2>1, <2>2, <2>3, <2>4 DEF WindowsTold
<1>9. CallsTold(n + 1, m, own, cur1)'
  <2>1. CallsTold(n, m, own, cur)
    BY DEF Story
  <2>2. SentBy(n + 1, m, own) = {} /\ Cardinality(SentBy(n + 1, m, own)) = 0
    <3>1. SentBy(n + 1, m, own) = {}
      BY <1>1 DEF SentBy
    <3> QED BY <3>1, FS_EmptySet
  <2>3. \A i \in 1 .. n + 1 : Cardinality(SentBy(i, m, own)) <= 1 + MaxRetries
    BY <1>7, <2>1, <2>2, Limits DEF CallsTold
  <2>4. \A u \in Running' : /\ cur1[u] \in 1 .. n + 1
                            /\ Cardinality(SentBy(cur1[u], m, own)) <= attempt'[Task(u)']
    <3> TAKE u \in Running'
    <3>1. CASE u = t
      <4>1. Task(t) \in Callers
        BY <1>2, HasTask DEF GateInv, PlaceInv, SharedSteps
      <4>2. attempt[Task(t)] \in Nat
        BY <4>1, WindowsAre
      <4> QED BY <1>1, <1>2, <1>4, <1>6, <2>2, <3>1, <4>2
    <3>2. CASE u # t
      <4>1. u \in Running /\ cur1[u] = cur[u] /\ cur[u] \in 1 .. n
        BY <1>4, <1>6, <2>1, <3>2 DEF CallsTold, Running
      <4> QED BY <1>1, <1>2, <1>4, <2>1, <4>1 DEF CallsTold
    <3> QED BY <3>1, <3>2
  <2>5. \A u, v \in Running' : cur1[u] = cur1[v] => u = v
    <3>1. \A u \in Running : cur1[u] = cur[u] /\ cur[u] # n + 1
      BY <1>1, <1>4, <1>6, <2>1 DEF CallsTold, Running
    <3> QED BY <1>4, <1>6, <2>1, <3>1 DEF CallsTold
  <2> QED BY <2>3, <2>4, <2>5 DEF CallsTold
<1>10. BoundariesTold(n + 1, born1, m, sent, own, cur1)'
  <2>1. ASSUME NEW k \in 1 .. Window
        PROVE  Crossing(k, n + 1, born1, m, sent, own, cur1)' = Crossing(k, n, born, m, sent, own, cur)
    <3>1. \A u \in Running : cur1[u] = cur[u]
      BY <1>4, <1>6 DEF Running
    <3>2. ~(born1[n + 1] >= k)
      BY <1>5
    <3>3. \A i \in 1 .. n : (\E u \in Running' : cur1[u] = i) <=> (\E u \in Running : cur[u] = i)
      BY SMTT(60), <1>1, <1>4, <1>6, <3>1
    <3>4. Crossing(k, n + 1, born1, m, sent, own, cur1)'
            = {i \in 1 .. n + 1 : /\ born1[i] >= k
                                  /\ \/ \E u \in Running' : cur1[u] = i
                                     \/ \E j \in 1 .. m : own[j] = i /\ sent[j] < k}
      BY DEF Crossing
    <3>5. 1 .. n + 1 = 1 .. n \cup {n + 1}
      BY <1>1
    <3> QED BY <1>5, <3>2, <3>3, <3>4, <3>5 DEF Crossing
  <2> QED BY <2>1 DEF Story, BoundariesTold
<1>11. Story(n + 1, born1, m, sent, own, cur1)'
  <2>1. n + 1 \in Nat /\ 1 .. n \subseteq 1 .. n + 1
    BY <1>1
  <2>2. own \in [1 .. m -> 1 .. n + 1]
    BY <1>1, <2>1
  <2> QED BY <1>1, <1>5, <1>6, <1>8, <1>9, <1>10, <2>1, <2>2 DEF Story
<1> QED BY <1>11 DEF RequestsInv

\* A request sent is one more of the call its thread runs.
LEMMA StoryRequest ==
  ASSUME NEW n, NEW born, NEW m, NEW sent, NEW own, NEW cur,
         Story(n, born, m, sent, own, cur), GateInv, NEW t \in Threads, Request(t)
  PROVE  RequestsInv'
<1> DEFINE now == [age |-> 0]
           a == attempt[Task(t)]
<1>1. /\ n \in Nat /\ m \in Nat /\ born \in [1 .. n -> Nat] /\ sent \in [1 .. m -> Nat]
      /\ own \in [1 .. m -> 1 .. n] /\ cur \in [Threads -> 0 .. n]
      /\ WindowsTold(n, born, m, sent) /\ CallsTold(n, m, own, cur)
      /\ BoundariesTold(n, born, m, sent, own, cur)
  BY DEF Story
<1>2. t \in Running /\ Task(t) \in Callers /\ a \in 0 .. MaxRetries /\ cur[t] \in 1 .. n
  <2>1. t \in Running
    BY DEF Request, Running
  <2> QED BY <1>1, <2>1, WindowsAre DEF CallsTold
<1>3. wire' = Append(wire, now) /\ now.age = 0 /\ UNCHANGED <<grants, dtask>>
  BY DEF Request
<1>4. \/ Running' = Running \ {t}
      \/ /\ Running' = Running /\ a < MaxRetries
         /\ attempt' = [attempt EXCEPT ![Task(t)] = @ + 1]
  <2>1. CASE Goto(t, "record")
    <3>1. pc'[t] = "record" /\ \A u \in Threads \ {t} : pc'[u] = pc[u]
      BY <2>1, Moved DEF GateInv
    <3> QED BY <3>1 DEF Running
  <2> QED BY <2>1 DEF Request, Running
<1>5. \A u \in Running : Task(u)' = Task(u)
  BY <1>3
<1>6. \A u \in Running \ {t} : attempt'[Task(u)] = attempt[Task(u)] /\ cur[u] # cur[t]
  <2> TAKE u \in Running \ {t}
  <2>1. Task(u) # Task(t)
    BY <1>2, TasksDiffer
  <2>2. attempt'[Task(u)] = attempt[Task(u)]
    <3>1. Task(u) \in Callers
      BY WindowsAre
    <3>2. \E v : attempt' = [attempt EXCEPT ![Task(t)] = v]
      BY DEF Request
    <3> HIDE DEF Task
    <3> QED BY <2>1, <3>1, <3>2, WindowsAre
  <2> QED BY <1>1, <1>2, <2>2 DEF CallsTold
<1> HIDE DEF now, Task, Request
<1>7. /\ Len(wire) \in Nat /\ Len(wire') = Len(wire) + 1
      /\ \A j \in 1 .. Len(wire) : wire'[j] = wire[j] /\ wire[j].age \in Nat
      /\ wire'[Len(wire) + 1].age = 0
  BY <1>3, WindowsAre, AppendProperties DEF Entries
<1>8. PICK sent1 \in [1 .. m + 1 -> Nat] : sent1[m + 1] = 0 /\ \A j \in 1 .. m : sent1[j] = sent[j]
  <2> DEFINE b == [j \in 1 .. m + 1 |-> IF j = m + 1 THEN 0 ELSE sent[j]]
  <2>1. b \in [1 .. m + 1 -> Nat] /\ b[m + 1] = 0 /\ \A j \in 1 .. m : b[j] = sent[j]
    BY <1>1
  <2> QED BY <2>1
<1>9. PICK own1 \in [1 .. m + 1 -> 1 .. n] :
        own1[m + 1] = cur[t] /\ \A j \in 1 .. m : own1[j] = own[j]
  <2> DEFINE b == [j \in 1 .. m + 1 |-> IF j = m + 1 THEN cur[t] ELSE own[j]]
  <2>1. \A j \in 1 .. m + 1 : j = m + 1 \/ j \in 1 .. m
    BY <1>1
  <2>2. b \in [1 .. m + 1 -> 1 .. n]
    BY <1>1, <1>2, <2>1
  <2>3. m + 1 \in 1 .. m + 1 /\ \A j \in 1 .. m : j \in 1 .. m + 1 /\ j # m + 1
    BY <1>1
  <2> QED BY <2>2, <2>3
<1>10. 1 .. m + 1 = 1 .. m \cup {m + 1} /\ m + 1 \notin 1 .. m
  BY <1>1
<1>11. WindowsTold(n, born, m + 1, sent1)'
  <2>0. m \in Nat /\ Len(wire) \in Nat /\ Len(wire') = Len(wire) + 1
    BY <1>1, <1>7
  <2>1. Len(wire') <= m + 1
    BY <1>1, <2>0 DEF WindowsTold
  <2>2. ASSUME NEW r \in 1 .. m + 1, NEW j \in 1 .. Len(wire'), r + Len(wire') = m + 1 + j
        PROVE  sent1[r] <= wire'[j].age
    <3> DEFINE l == Len(wire)
               k == Len(wire')
    <3>0. l \in Nat /\ k = l + 1 /\ j \in 1 .. k /\ r + k = m + 1 + j
      BY <2>0, <2>2
    <3> HIDE DEF l, k
    <3>a. /\ r = m + 1 => j = l + 1
          /\ r # m + 1 => r \in 1 .. m /\ j \in 1 .. l /\ r + l = m + j
      BY <2>0, <3>0, LastOf
    <3>1. CASE r = m + 1
      <4>1. j = Len(wire) + 1
        BY <3>1, <3>a DEF l
      <4> QED BY <1>7, <1>8, <3>1, <4>1
    <3>2. CASE r # m + 1
      <4>1. r \in 1 .. m /\ j \in 1 .. Len(wire) /\ r + Len(wire) = m + j
        BY <3>2, <3>a DEF l
      <4> QED BY <1>1, <1>7, <1>8, <4>1 DEF WindowsTold
    <3> QED BY <3>1, <3>2
  <2> QED BY <1>1, <1>3, <2>1, <2>2 DEF WindowsTold
<1>12. /\ \A i \in 1 .. n : i # cur[t] => SentBy(i, m + 1, own1) = SentBy(i, m, own)
       /\ Cardinality(SentBy(cur[t], m + 1, own1)) <= a + 1
  <2>1. \A i \in 1 .. n : i # cur[t] => SentBy(i, m + 1, own1) = SentBy(i, m, own)
    BY <1>9, <1>10 DEF SentBy
  <2>2. SentBy(cur[t], m + 1, own1) = SentBy(cur[t], m, own) \cup {m + 1}
    BY <1>9, <1>10 DEF SentBy
  <2>3. /\ IsFiniteSet(SentBy(cur[t], m, own)) /\ m + 1 \notin SentBy(cur[t], m, own)
        /\ Cardinality(SentBy(cur[t], m, own)) \in Nat
    <3>1. SentBy(cur[t], m, own) \in SUBSET (1 .. m)
      BY DEF SentBy
    <3>2. IsFiniteSet(1 .. m)
      BY <1>1, FS_Interval
    <3> QED BY <1>10, <3>1, <3>2, Sizes
  <2>4. Cardinality(SentBy(cur[t], m + 1, own1)) = Cardinality(SentBy(cur[t], m, own)) + 1
    BY <2>2, <2>3, FS_AddElement
  <2>5. Cardinality(SentBy(cur[t], m, own)) <= a
    BY <1>1, <1>2 DEF CallsTold
  <2> QED BY <1>2, <2>1, <2>3, <2>4, <2>5, Limits
<1>13. CallsTold(n, m + 1, own1, cur)'
  <2>1. \A i \in 1 .. n : Cardinality(SentBy(i, m + 1, own1)) <= 1 + MaxRetries
    <3> TAKE i \in 1 .. n
    <3>1. CASE i = cur[t]
      <4>1. Cardinality(SentBy(i, m + 1, own1)) \in Nat
        <5>1. SentBy(i, m + 1, own1) \in SUBSET (1 .. m + 1) /\ IsFiniteSet(1 .. m + 1)
          BY <1>1, FS_Interval DEF SentBy
        <5> QED BY <5>1, Sizes
      <4> QED BY <1>2, <1>12, <3>1, <4>1, Limits
    <3>2. CASE i # cur[t]
      BY <1>1, <1>12, <3>2 DEF CallsTold
    <3> QED BY <3>1, <3>2
  <2>2. ASSUME NEW u \in Running'
        PROVE  /\ cur[u] \in 1 .. n
               /\ Cardinality(SentBy(cur[u], m + 1, own1)) <= attempt'[Task(u)']
    <3>1. u \in Running /\ cur[u] \in 1 .. n
      BY <1>1, <1>4 DEF CallsTold
    <3>2. CASE u = t
      <4>1. attempt'[Task(t)] = a + 1
        <5>1. attempt' = [attempt EXCEPT ![Task(t)] = @ + 1]
          BY <1>4, <2>2, <3>2
        <5> QED BY <1>2, <5>1, WindowsAre
      <4> QED BY <1>5, <1>12, <3>1, <3>2, <4>1
    <3>3. CASE u # t
      BY <1>1, <1>5, <1>6, <1>12, <3>1, <3>3 DEF CallsTold
    <3> QED BY <3>2, <3>3
  <2>3. \A u, v \in Running' : cur[u] = cur[v] => u = v
    BY <1>1, <1>4 DEF CallsTold
  <2> QED BY <2>1, <2>2, <2>3 DEF CallsTold
<1>14. BoundariesTold(n, born, m + 1, sent1, own1, cur)'
  <2> SUFFICES ASSUME NEW k \in 1 .. Window
               PROVE  Cardinality(Crossing(k, n, born, m + 1, sent1, own1, cur)') <= ConcurrentMax
    BY DEF BoundariesTold
  <2> DEFINE C == Crossing(k, n, born, m, sent, own, cur)
             D == Crossing(k, n, born, m + 1, sent1, own1, cur)'
  <2>1. D \in SUBSET C
    <3> SUFFICES ASSUME NEW i \in D PROVE i \in C
      OBVIOUS
    <3>1. /\ i \in 1 .. n /\ born[i] >= k
          /\ \/ \E u \in Running' : cur[u] = i
             \/ \E j \in 1 .. m + 1 : own1[j] = i /\ sent1[j] < k
      BY DEF Crossing
    <3>2. \/ \E u \in Running : cur[u] = i
          \/ \E j \in 1 .. m : own[j] = i /\ sent[j] < k
      BY <1>2, <1>4, <1>8, <1>9, <1>10, <3>1
    <3> QED BY <3>1, <3>2 DEF Crossing
  <2>2. IsFiniteSet(C) /\ Cardinality(C) \in Nat
    <3>1. C \in SUBSET (1 .. n) /\ IsFiniteSet(1 .. n)
      BY <1>1, FS_Interval DEF Crossing
    <3> QED BY <3>1, Sizes
  <2>3. Cardinality(C) <= ConcurrentMax
    BY <1>1 DEF BoundariesTold
  <2> HIDE DEF C, D
  <2>4. Cardinality(D) \in Nat /\ Cardinality(D) <= Cardinality(C)
    BY <2>1, <2>2, Sizes
  <2>5. Cardinality(D) <= ConcurrentMax
    BY <2>2, <2>3, <2>4, Limits
  <2> QED BY <2>5 DEF D
<1>15. Story(n, born, m + 1, sent1, own1, cur)'
  BY SMTT(60), <1>1, <1>11, <1>13, <1>14 DEF Story
<1> QED BY <1>15 DEF RequestsInv

\* There are no more running calls than permits.
LEMMA RunningFew ==
  ASSUME GateInv
  PROVE  IsFiniteSet(Running) /\ Cardinality(Running) \in Nat /\ Cardinality(Running) <= ConcurrentMax
<1>1. Running \in SUBSET Holders
  BY DEF Running, Holders
<1>2. IsFiniteSet(Holders) /\ Cardinality(Holders) \in Nat
  BY HoldersAre
<1>3. /\ IsFiniteSet(Running) /\ Cardinality(Running) \in Nat
      /\ Cardinality(Running) <= Cardinality(Holders)
  BY <1>1, <1>2, Sizes
<1>4. permits \in Nat /\ permits + Cardinality(Holders) = ConcurrentMax
  BY Limits DEF GateInv, TypeOK, SlotsConserved
<1> QED BY <1>2, <1>3, <1>4, Limits

\* What a tick leaves of the entries of a window: the last ones, older by one, and
\* the ones it drops are old.
LEMMA TickLeaves ==
  ASSUME NEW w, Entries(w), \A i \in 1 .. Len(w) : w[i] \in Slots \cup Sent
  PROVE  LET v == Younger(Aged(w, 1), Window) IN
         \E k \in 0 .. Len(w) :
           /\ Len(v) = Len(w) - k
           /\ \A i \in 1 .. k : w[i].age + 1 >= Window
           /\ \A i \in 1 .. Len(w) - k :
                /\ k + i \in 1 .. Len(w) /\ v[i].age = w[k + i].age + 1
                /\ v[i] = Aged(w, 1)[k + i]
<1> DEFINE a == Aged(w, 1)
           v == Younger(a, Window)
           S == {a[i] : i \in 1 .. Len(w)}
           k == Leading(a, Window)
<1>1. /\ Len(w) \in Nat /\ Len(a) = Len(w)
      /\ \A i \in 1 .. Len(w) : a[i].age = w[i].age + 1
  <2>1. /\ Len(a) = Len(w)
        /\ \A i \in 1 .. Len(w) : a[i] = [w[i] EXCEPT !.age = @ + 1]
    BY AgedIs
  <2>2. \A x \in Slots \cup Sent : [x EXCEPT !.age = @ + 1].age = x.age + 1
    BY DEF Slots, Sent
  <2> QED BY <2>1, <2>2 DEF Entries
<1>0. a \in Seq(S)
  <2>1. a \in [1 .. Len(w) -> S]
    BY DEF Aged
  <2> QED BY <1>1, <2>1, FunctionIsSeq
<1> HIDE DEF a, S
<1>2. Entries(a) /\ a \in Seq(S)
  BY <1>0, <1>1 DEF Entries
<1>3. /\ k \in 0 .. Len(a)
      /\ \A i \in 1 .. k : a[i].age >= Window
  BY <1>2, LeadingIs, Limits
<1>4. Len(v) = Len(a) - k /\ \A i \in 1 .. Len(a) - k : v[i] = a[k + i]
  <2>1. Window \in Nat
    BY Limits
  <2> QED BY <1>2, <2>1, YoungerIs
<1> HIDE DEF k, v
<1>5. \A i \in 1 .. k : w[i].age + 1 >= Window
  <2> TAKE i \in 1 .. k
  <2>1. i \in 1 .. Len(w)
    BY <1>1, <1>3
  <2> QED BY <1>1, <1>3, <2>1
<1>6. \A i \in 1 .. Len(w) - k :
        /\ k + i \in 1 .. Len(w) /\ v[i].age = w[k + i].age + 1
        /\ v[i] = a[k + i]
  <2> TAKE i \in 1 .. Len(w) - k
  <2>1. k + i \in 1 .. Len(w)
    BY <1>1, <1>3
  <2> QED BY <1>1, <1>4, <2>1
<1>7. \E l \in 0 .. Len(w) :
        /\ Len(v) = Len(w) - l
        /\ \A i \in 1 .. l : w[i].age + 1 >= Window
        /\ \A i \in 1 .. Len(w) - l :
             /\ l + i \in 1 .. Len(w) /\ v[i].age = w[l + i].age + 1
             /\ v[i] = a[l + i]
  BY <1>1, <1>3, <1>4, <1>5, <1>6
<1> QED BY <1>7 DEF v, a

\* A tick later every call and every request is one tick older.
LEMMA StoryTick ==
  ASSUME NEW n, NEW born, NEW m, NEW sent, NEW own, NEW cur,
         Story(n, born, m, sent, own, cur), GateInv, Tick
  PROVE  RequestsInv'
<1>1. /\ n \in Nat /\ m \in Nat /\ born \in [1 .. n -> Nat] /\ sent \in [1 .. m -> Nat]
      /\ own \in [1 .. m -> 1 .. n] /\ cur \in [Threads -> 0 .. n]
      /\ WindowsTold(n, born, m, sent) /\ CallsTold(n, m, own, cur)
      /\ BoundariesTold(n, born, m, sent, own, cur)
  BY DEF Story
<1>2. /\ grants' = Younger(Aged(grants, 1), Window) /\ wire' = Younger(Aged(wire, 1), Window)
      /\ UNCHANGED <<pc, attempt, dtask>>
  BY DEF Tick
<1>3. Running' = Running /\ \A u \in Running : Task(u)' = Task(u)
  BY <1>2 DEF Running
<1> HIDE DEF Tick, Task
<1>4. PICK born1 \in [1 .. n -> Nat] : \A i \in 1 .. n : born1[i] = born[i] + 1
  <2> DEFINE b == [i \in 1 .. n |-> born[i] + 1]
  <2>1. b \in [1 .. n -> Nat] /\ \A i \in 1 .. n : b[i] = born[i] + 1
    BY <1>1
  <2> QED BY <2>1
<1>5. PICK sent1 \in [1 .. m -> Nat] : \A j \in 1 .. m : sent1[j] = sent[j] + 1
  <2> DEFINE b == [j \in 1 .. m |-> sent[j] + 1]
  <2>1. b \in [1 .. m -> Nat] /\ \A j \in 1 .. m : b[j] = sent[j] + 1
    BY <1>1
  <2> QED BY <2>1
<1>6. /\ \A i \in 1 .. n : born[i] \in Nat
      /\ \A j \in 1 .. m : sent[j] \in Nat /\ own[j] \in 1 .. n
  BY <1>1
<1>7. /\ Entries(grants) /\ \A i \in 1 .. Len(grants) : grants[i] \in Slots \cup Sent
      /\ Entries(wire) /\ \A j \in 1 .. Len(wire) : wire[j] \in Slots \cup Sent
  BY WindowsAre, ElementOfSeq
<1>8. WindowsTold(n, born1, m, sent1)'
  <2>0. \A g, x, c \in Nat : \A h \in 0 .. g : \A i \in 1 .. g - h :
          c + (g - h) = x + i => h + i \in 1 .. g /\ c + g = x + (h + i)
    OBVIOUS
  <2>9. \A x, y \in Nat : (x >= y => x + 1 >= y + 1) /\ (x <= y => x + 1 <= y + 1)
    OBVIOUS
  <2>1. PICK k \in 0 .. Len(grants) :
          /\ Len(grants') = Len(grants) - k
          /\ \A i \in 1 .. k : grants[i].age + 1 >= Window
          /\ \A i \in 1 .. Len(grants) - k :
               k + i \in 1 .. Len(grants) /\ grants'[i].age = grants[k + i].age + 1
    <3>1. LET v == Younger(Aged(grants, 1), Window) IN
          \E x \in 0 .. Len(grants) :
            /\ Len(v) = Len(grants) - x
            /\ \A i \in 1 .. x : grants[i].age + 1 >= Window
            /\ \A i \in 1 .. Len(grants) - x :
                 /\ x + i \in 1 .. Len(grants) /\ v[i].age = grants[x + i].age + 1
                 /\ v[i] = Aged(grants, 1)[x + i]
      BY <1>7, TickLeaves
    <3> QED BY <1>2, <3>1
  <2>2. PICK l \in 0 .. Len(wire) :
          /\ Len(wire') = Len(wire) - l
          /\ \A j \in 1 .. l : wire[j].age + 1 >= Window
          /\ \A j \in 1 .. Len(wire) - l :
               l + j \in 1 .. Len(wire) /\ wire'[j].age = wire[l + j].age + 1
    <3>1. LET v == Younger(Aged(wire, 1), Window) IN
          \E x \in 0 .. Len(wire) :
            /\ Len(v) = Len(wire) - x
            /\ \A i \in 1 .. x : wire[i].age + 1 >= Window
            /\ \A i \in 1 .. Len(wire) - x :
                 /\ x + i \in 1 .. Len(wire) /\ v[i].age = wire[x + i].age + 1
                 /\ v[i] = Aged(wire, 1)[x + i]
      BY <1>7, TickLeaves
    <3> QED BY <1>2, <3>1
  <2>3. Len(grants) \in Nat /\ Len(wire) \in Nat
    BY <1>7 DEF Entries
  <2>4. Len(grants) <= n /\ Len(wire) <= m
    BY <1>1 DEF WindowsTold
  <2>5. Len(grants') <= n /\ Len(wire') <= m
    BY <1>1, <2>1, <2>2, <2>3, <2>4
  <2>6. ASSUME NEW c \in 1 .. n, c + Len(grants') <= n PROVE born1[c] >= Window
    <3>1. CASE c + Len(grants) <= n
      <4>1. born[c] >= Window
        BY <1>1, <3>1 DEF WindowsTold
      <4> QED BY <1>4, <1>6, <4>1, Limits
    <3>2. CASE ~(c + Len(grants) <= n)
      <4> DEFINE i == (c + Len(grants)) - n
      <4>1. i \in 1 .. k /\ i \in 1 .. Len(grants) /\ c + Len(grants) = n + i
        BY <1>1, <2>1, <2>3, <2>4, <2>6, <3>2
      <4> HIDE DEF i
      <4>2. born[c] >= grants[i].age /\ grants[i].age + 1 >= Window /\ grants[i].age \in Nat
        BY <1>1, <1>7, <2>1, <4>1 DEF WindowsTold, Entries
      <4>3. born1[c] = born[c] + 1 /\ born[c] \in Nat
        BY <1>4, <1>6
      <4>4. Window \in Nat
        BY Limits
      <4> QED BY <4>2, <4>3, <4>4
    <3> QED BY <3>1, <3>2
  <2>7. ASSUME NEW c \in 1 .. n, NEW i \in 1 .. Len(grants'), c + Len(grants') = n + i
        PROVE  born1[c] >= grants'[i].age
    <3>1. i \in 1 .. Len(grants) - k /\ k + i \in 1 .. Len(grants) /\ c + Len(grants) = n + (k + i)
      <4>1. /\ Len(grants) \in Nat /\ k \in 0 .. Len(grants) /\ n \in Nat /\ c \in Nat
            /\ i \in 1 .. Len(grants) - k /\ c + (Len(grants) - k) = n + i
        BY <1>1, <2>1, <2>3, <2>7
      <4> QED BY <4>1, <2>0
    <3>2. born[c] >= grants[k + i].age /\ grants'[i].age = grants[k + i].age + 1
            /\ grants[k + i].age \in Nat
      <4>1. born[c] >= grants[k + i].age
        BY <1>1, <3>1 DEF WindowsTold
      <4>2. grants'[i].age = grants[k + i].age + 1
        BY <2>1, <3>1
      <4>3. grants[k + i].age \in Nat
        BY <1>7, <3>1 DEF Entries
      <4> QED BY <4>1, <4>2, <4>3
    <3>3. born1[c] = born[c] + 1 /\ born[c] \in Nat
      BY <1>4, <1>6
    <3> QED BY ZenonT(30), <2>9, <3>2, <3>3
  <2>8. ASSUME NEW r \in 1 .. m, NEW j \in 1 .. Len(wire'), r + Len(wire') = m + j
        PROVE  sent1[r] <= wire'[j].age
    <3>0. j \in 1 .. Len(wire) - l
      BY <2>2
    <3>1. l + j \in 1 .. Len(wire) /\ r + Len(wire) = m + (l + j)
      <4>1. /\ Len(wire) \in Nat /\ l \in 0 .. Len(wire) /\ m \in Nat /\ r \in Nat
            /\ r + (Len(wire) - l) = m + j
        BY <1>1, <2>2, <2>3, <2>8
      <4> QED BY <3>0, <4>1, <2>0
    <3>2. sent[r] <= wire[l + j].age /\ wire'[j].age = wire[l + j].age + 1
            /\ wire[l + j].age \in Nat
      <4>1. sent[r] <= wire[l + j].age
        BY <1>1, <3>1 DEF WindowsTold
      <4>2. wire'[j].age = wire[l + j].age + 1
        BY <2>2, <3>0
      <4>3. wire[l + j].age \in Nat
        BY <1>7, <3>1 DEF Entries
      <4> QED BY <4>1, <4>2, <4>3
    <3>3. sent1[r] = sent[r] + 1 /\ sent[r] \in Nat
      BY <1>5, <1>6
    <3> QED BY ZenonT(30), <2>9, <3>2, <3>3
  <2> QED BY SMTT(60), <2>5, <2>6, <2>7, <2>8 DEF WindowsTold
<1>9. CallsTold(n, m, own, cur)'
  BY <1>1, <1>2, <1>3 DEF CallsTold
<1>10. BoundariesTold(n, born1, m, sent1, own, cur)'
  <2> SUFFICES ASSUME NEW k \in 1 .. Window
               PROVE  Cardinality(Crossing(k, n, born1, m, sent1, own, cur)') <= ConcurrentMax
    BY DEF BoundariesTold
  <2>1. Crossing(k, n, born1, m, sent1, own, cur)'
          = {i \in 1 .. n : /\ born1[i] >= k
                            /\ \/ \E t \in Running : cur[t] = i
                               \/ \E j \in 1 .. m : own[j] = i /\ sent1[j] < k}
    BY <1>3 DEF Crossing
  <2>2. CASE k = 1
    <3> DEFINE R == {cur[t] : t \in Running}
               D == Crossing(k, n, born1, m, sent1, own, cur)'
    <3>1. \A j \in 1 .. m : ~(sent1[j] < k)
      BY <1>5, <1>6, <2>2
    <3>2. D \in SUBSET R
      BY <2>1, <3>1
    <3>3. IsFiniteSet(R) /\ Cardinality(R) \in Nat /\ Cardinality(R) <= Cardinality(Running)
      BY RunningFew, ImageSize
    <3> HIDE DEF D, R
    <3>4. Cardinality(D) \in Nat /\ Cardinality(D) <= Cardinality(R)
      BY <3>2, <3>3, Sizes
    <3>5. Cardinality(D) <= ConcurrentMax
      BY <3>3, <3>4, RunningFew, Limits
    <3> QED BY <3>5 DEF D
  <2>3. CASE k # 1
    <3>1. k - 1 \in 1 .. Window /\ k \in Nat
      BY <2>3, Limits
    <3>2. /\ \A i \in 1 .. n : born1[i] >= k <=> born[i] >= k - 1
          /\ \A j \in 1 .. m : sent1[j] < k <=> sent[j] < k - 1
      BY <1>4, <1>5, <1>6, <3>1
    <3>3. Crossing(k, n, born1, m, sent1, own, cur)' = Crossing(k - 1, n, born, m, sent, own, cur)
      BY <2>1, <3>2 DEF Crossing
    <3>4. Cardinality(Crossing(k - 1, n, born, m, sent, own, cur)) <= ConcurrentMax
      BY <1>1, <3>1 DEF BoundariesTold
    <3> QED BY <3>3, <3>4
  <2> QED BY <2>2, <2>3
<1>11. Story(n, born1, m, sent1, own, cur)'
  BY <1>1, <1>8, <1>9, <1>10 DEF Story
<1> QED BY <1>11 DEF RequestsInv

\* A thread that neither comes to "calling" nor leaves it.
LEMMA RunningKept ==
  ASSUME GateInv, NEW t \in Threads, NEW step, Goto(t, step),
         pc[t] # "calling", step # "calling"
  PROVE  Running' = Running
<1>1. pc'[t] = step /\ \A u \in Threads \ {t} : pc'[u] = pc[u]
  BY Moved DEF GateInv
<1> HIDE DEF Goto
<1> QED BY <1>1 DEF Running

LEMMA RequestsStep ==
  ASSUME GateInv, RequestsInv, [Next]_vars
  PROVE  RequestsInv'
<1>1. PICK n, born, m, sent, own, cur : Story(n, born, m, sent, own, cur)
  BY DEF RequestsInv
<1>2. ASSUME UNCHANGED <<grants, wire, attempt>>, Running' = Running,
             UNCHANGED dtask \/ pc[Dispatcher] # "calling"
      PROVE  RequestsInv'
  <2>1. \A t \in Running : Task(t)' = Task(t)
    BY <1>2 DEF Running
  <2>2. Story(n, born, m, sent, own, cur)'
    BY <1>1, <1>2, <2>1, StoryKept
  <2> QED BY <2>2 DEF RequestsInv
<1>3. ASSUME NEW t \in Threads, SharedStep(t) PROVE RequestsInv'
  <2>1. CASE Grant(t)
    BY <1>1, <2>1, StoryGrant
  <2>2. CASE Request(t)
    BY <1>1, <2>2, StoryRequest
  <2>3. CASE TryAcquire(t) \/ Deny(t) \/ GiveBack(t) \/ Refused(t) \/ Release(t)
    <3>1. UNCHANGED <<grants, wire, attempt, dtask>> /\ pc[t] # "calling"
      BY <2>3 DEF TryAcquire, Deny, GiveBack, Refused, Release
    <3>2. \E step : Goto(t, step) /\ step # "calling"
      BY <2>3 DEF TryAcquire, Deny, GiveBack, Refused, Release
    <3>3. Running' = Running
      BY <3>1, <3>2, RunningKept
    <3> QED BY <1>2, <3>1, <3>3
  <2>4. CASE Record(t)
    <3>1. /\ UNCHANGED <<grants, wire, attempt>> /\ pc[t] = "record" /\ Goto(t, "release")
          /\ UNCHANGED dtask \/ t = Dispatcher
      BY <2>4 DEF Record
    <3>2. Running' = Running
      BY <3>1, RunningKept
    <3> QED BY <1>2, <3>1, <3>2
  <2> QED BY <1>3, <2>1, <2>2, <2>3, <2>4 DEF SharedStep
<1>4. ASSUME NEW t \in Callers, Reserve(t) \/ Enqueue(t) \/ Return(t) PROVE RequestsInv'
  <2>1. UNCHANGED <<grants, wire, attempt, dtask>> /\ pc[t] # "calling" /\ t \in Threads
    BY <1>4 DEF Reserve, Enqueue, Return, Forget, Threads
  <2>2. \E step : Goto(t, step) /\ step # "calling"
    BY <1>4 DEF Reserve, Enqueue, Return
  <2>3. Running' = Running
    BY <2>1, <2>2, RunningKept
  <2> QED BY <1>2, <2>1, <2>3
<1>5. CASE Poll \/ Dequeue \/ Check \/ Wake
  <2>1. /\ UNCHANGED <<grants, wire, attempt>> /\ pc[Dispatcher] # "calling"
        /\ Dispatcher \in Threads
    BY <1>5 DEF Poll, Dequeue, Check, Wake, Threads
  <2>2. \E step : Goto(Dispatcher, step) /\ step # "calling"
    BY <1>5 DEF Poll, Dequeue, Check, Wake
  <2>3. Running' = Running
    BY <2>1, <2>2, RunningKept
  <2> QED BY <1>2, <2>1, <2>3
<1>6. CASE ShutDown \/ UNCHANGED vars
  BY <1>2, <1>6 DEF ShutDown, Running
<1>7. CASE Tick
  BY <1>1, <1>7, StoryTick
<1> QED BY <1>3, <1>4, <1>5, <1>6, <1>7, StepCases

\* The last l of n.
LEMMA LastOnes ==
  ASSUME NEW n \in Nat, NEW l \in Nat, l <= n
  PROVE  LET S == {c \in 1 .. n : c + l > n} IN IsFiniteSet(S) /\ Cardinality(S) = l
<1> DEFINE S == {c \in 1 .. n : c + l > n}
           k == (n - l) + 1
<1>1. k \in Nat /\ (n - k) + 1 = l /\ (k > n => l = 0) /\ \A c \in 1 .. n : c + l > n <=> c >= k
  OBVIOUS
<1>2. S = k .. n
  BY <1>1
<1>3. k \in Int /\ n \in Int /\ n - k + 1 = l
  BY <1>1
<1> HIDE DEF S, k
<1>4. IsFiniteSet(S) /\ Cardinality(S) = l
  BY <1>1, <1>2, <1>3, FS_Interval
<1> QED BY <1>4 DEF S

\* The requests in the window are of calls granted in it, or of calls that crossed
\* the start of the window.
LEMMA StoryBounds ==
  ASSUME GateInv, GrantsWithinRates,
         NEW n, NEW born, NEW m, NEW sent, NEW own, NEW cur,
         Story(n, born, m, sent, own, cur)
  PROVE  RequestsBounded
<1> DEFINE Recent == {r \in 1 .. m : r + Len(wire) > m}
           Late == {c \in 1 .. n : c + Len(grants) > n}
           Old == Crossing(Window, n, born, m, sent, own, cur)
           U == Late \cup Old
           M == 1 + MaxRetries
<1>1. /\ n \in Nat /\ m \in Nat /\ born \in [1 .. n -> Nat] /\ sent \in [1 .. m -> Nat]
      /\ own \in [1 .. m -> 1 .. n]
      /\ WindowsTold(n, born, m, sent) /\ CallsTold(n, m, own, cur)
      /\ BoundariesTold(n, born, m, sent, own, cur)
  BY DEF Story
<1>2. /\ Len(grants) \in Nat /\ Len(wire) \in Nat /\ Len(grants) <= n /\ Len(wire) <= m
      /\ \A j \in 1 .. Len(wire) : wire[j].age \in Nat /\ wire[j].age < Window
  BY <1>1, WindowsAre DEF WindowsTold, Entries, GateInv, AgesInv, Young
<1>3. IsFiniteSet(Recent) /\ Cardinality(Recent) = Len(wire)
  BY <1>1, <1>2, LastOnes
<1>4. IsFiniteSet(Late) /\ Cardinality(Late) = Len(grants)
  BY <1>1, <1>2, LastOnes
<1>5. IsFiniteSet(Old) /\ Cardinality(Old) \in Nat /\ Cardinality(Old) <= ConcurrentMax
  <2>1. Old \in SUBSET (1 .. n) /\ IsFiniteSet(1 .. n)
    BY <1>1, FS_Interval DEF Crossing
  <2>2. Window \in 1 .. Window
    BY Limits
  <2>3. Cardinality(Old) <= ConcurrentMax
    BY <1>1, <2>2 DEF BoundariesTold
  <2> HIDE DEF Old
  <2> QED BY <2>1, <2>3, Sizes
<1>6. \A r \in Recent : own[r] \in U
  <2> TAKE r \in Recent
  <2>1. r \in 1 .. m /\ own[r] \in 1 .. n /\ sent[r] \in Nat
    BY <1>1
  <2>2. sent[r] < Window
    <3> DEFINE j == (r + Len(wire)) - m
    <3>1. j \in 1 .. Len(wire) /\ r + Len(wire) = m + j
      BY <1>1, <1>2
    <3> HIDE DEF j
    <3>2. sent[r] <= wire[j].age
      BY <1>1, <2>1, <3>1 DEF WindowsTold
    <3> QED BY <1>2, <2>1, <3>1, <3>2, Limits
  <2>3. CASE own[r] + Len(grants) > n
    BY <2>1, <2>3
  <2>4. CASE ~(own[r] + Len(grants) > n)
    <3>1. own[r] + Len(grants) <= n
      BY <1>1, <1>2, <2>1, <2>4
    <3>2. born[own[r]] >= Window
      BY <1>1, <2>1, <3>1 DEF WindowsTold
    <3>3. own[r] \in Old
      BY <2>1, <2>2, <3>2 DEF Crossing
    <3> QED BY <3>3
  <2> QED BY <2>3, <2>4
<1>7. \A u \in U : Cardinality({r \in Recent : own[r] = u}) <= M
  <2> TAKE u \in U
  <2>1. u \in 1 .. n
    BY DEF Crossing
  <2>2. {r \in Recent : own[r] = u} \in SUBSET SentBy(u, m, own)
    BY DEF SentBy
  <2>3. IsFiniteSet(SentBy(u, m, own))
    <3>1. SentBy(u, m, own) \in SUBSET (1 .. m) /\ IsFiniteSet(1 .. m)
      BY <1>1, FS_Interval DEF SentBy
    <3> QED BY <3>1, Sizes
  <2>4. Cardinality(SentBy(u, m, own)) <= M
    BY <1>1, <2>1 DEF CallsTold
  <2> DEFINE F == {r \in Recent : own[r] = u}
  <2> HIDE DEF F
  <2>5. /\ Cardinality(F) \in Nat /\ Cardinality(SentBy(u, m, own)) \in Nat
        /\ Cardinality(F) <= Cardinality(SentBy(u, m, own))
    <3>1. F \in SUBSET SentBy(u, m, own) /\ SentBy(u, m, own) \in SUBSET SentBy(u, m, own)
      BY <2>2 DEF F
    <3> QED BY <2>3, <3>1, Sizes
  <2>6. Cardinality(F) <= M
    BY <2>4, <2>5, Limits
  <2> QED BY <2>6 DEF F
<1> HIDE DEF Recent, Late, Old, M
<1>8. /\ IsFiniteSet(U) /\ Cardinality(U) \in Nat
      /\ Cardinality(U) <= RequestsPerMinute + ConcurrentMax
  <2>1. /\ IsFiniteSet(Late \cup Old)
        /\ Cardinality(Late \cup Old) = Cardinality(Late) + Cardinality(Old) - Cardinality(Late \cap Old)
    BY <1>4, <1>5, FS_Union
  <2>2. Cardinality(Late \cap Old) \in Nat
    BY <1>4, FS_Subset, FS_CardinalityType
  <2>3. Cardinality(Late \cup Old) \in Nat
    BY <2>1, FS_CardinalityType
  <2>4. Len(grants) <= RequestsPerMinute
    BY DEF GrantsWithinRates
  <2> QED BY <1>2, <1>4, <1>5, <2>1, <2>2, <2>3, <2>4, Limits
<1> HIDE DEF U
<1>9. M \in Nat
  BY Limits DEF M
<1>10. Cardinality(Recent) <= Cardinality(U) * M
  BY <1>3, <1>6, <1>7, <1>8, <1>9, Fibers
<1>11. Cardinality(U) * M <= (RequestsPerMinute + ConcurrentMax) * M
  <2>1. \A x, y, z \in Nat : x <= y => x * z <= y * z
    OBVIOUS
  <2>2. RequestsPerMinute + ConcurrentMax \in Nat
    BY Limits
  <2> QED BY <1>8, <1>9, <2>1, <2>2
<1>12. Len(wire) <= (RequestsPerMinute + ConcurrentMax) * M
  <2>1. Cardinality(U) * M \in Nat /\ (RequestsPerMinute + ConcurrentMax) * M \in Nat
    BY <1>8, <1>9, Limits
  <2> QED BY <1>2, <1>3, <1>10, <1>11, <2>1
<1> QED BY <1>12 DEF M, RequestsBounded

\* The excess over requests_per_minute that retries make is bounded: in any stretch of
\* one window no more requests go out than the calls granted in it, and the calls
\* that were running when it began, may send with all their retries.
THEOREM RetriesBounded == Spec => []RequestsBounded
<1>2. Init => RequestsInv
  BY StoryInit
<1>3. GateInv /\ RequestsInv /\ [Next]_vars => RequestsInv'
  BY RequestsStep
<1>4. GateInv /\ GrantsWithinRates /\ RequestsInv => RequestsBounded
  BY StoryBounds DEF RequestsInv
<1> QED BY <1>2, <1>3, <1>4, Gatekeeping, RatesHold, PTL DEF Spec

-------------------------------------------------------------------------------
(* Admission.  The steps of a call that Admission knows are Reserve, Grant,  *)
(* Record, the failures and Return; every other step leaves all calls where  *)
(* they stand.                                                               *)

\* Admission counts and adds as this module does.
LEMMA AdmissionCounts ==
  /\ \A S : Admission!Cardinality(S) = Cardinality(S)
  /\ \A f : Admission!SumFunction(f) = SumFunction(f)
<1>1. \A S : Admission!Cardinality(S) = Cardinality(S)
  BY DEF Admission!Cardinality, Cardinality
<1>2. \A f : Admission!SumFunction(f) = SumFunction(f)
  BY Zenon DEF Admission!SumFunction, SumFunction, Admission!SumFunctionOnSet, SumFunctionOnSet,
               Admission!FoldFunctionOnSet, FoldFunctionOnSet, Admission!MapThenFoldSet,
               MapThenFoldSet
<1> QED BY <1>1, <1>2

\* Who runs a call: its caller, or the dispatcher.
LEMMA RunsIs ==
  ASSUME NEW c \in Callers
  PROVE  Runs(c) <=> pc[c] \in Granted \/ (dtask = c /\ pc[Dispatcher] \in Granted)
BY Names DEF Runs, Granted, Threads

LEMMA CallIs ==
  ASSUME GateInv, NEW c \in Callers
  PROVE  /\ CallOf(c) = "idle" <=> pc[c] = "idle"
         /\ pc[c] # "idle" /\ done[c] => CallOf(c) = "answered"
         /\ CallOf(c) = "running" <=> Runs(c)
         /\ CallOf(c) = "waiting" <=> pc[c] # "idle" /\ ~done[c] /\ ~Runs(c)
<1>1. pc[c] \in Granted => pc[c] # "idle" /\ ~done[c]
  BY DEF GateInv, PlaceInv, CallsInv, Working, Granted
<1>2. dtask = c /\ pc[Dispatcher] \in Granted => pc[c] # "idle" /\ ~done[c]
  BY Names DEF GateInv, PlaceInv, DispatchInv
<1>3. Runs(c) => pc[c] # "idle" /\ ~done[c]
  BY <1>1, <1>2, RunsIs
<1> QED BY <1>3 DEF CallOf

LEMMA CallMoves ==
  ASSUME NEW k \in Callers, NEW from, NEW to, CallOf(k) = from, CallOf(k)' = to,
         \A c \in Callers \ {k} : CallOf(c)' = CallOf(c)
  PROVE  Admission!Moves(k, from, to)
<1>1. Call' = [Call EXCEPT ![k] = to]
  BY DEF Call
<1>2. Call[k] = from
  BY DEF Call
<1> QED BY <1>1, <1>2 DEF Admission!Moves

\* A call stands where it stood when it is not over and done as before and is run as
\* before.
LEMMA CallKept ==
  ASSUME NEW c \in Callers, pc'[c] = "idle" <=> pc[c] = "idle",
         done'[c] = done[c], Runs(c)' <=> Runs(c)
  PROVE  CallOf(c)' = CallOf(c)
BY DEF CallOf

\* A thread that neither begins nor ends to run its task, nor the call it made.
LEMMA CallsKept ==
  ASSUME TypeOK, NEW t \in Threads, NEW step, Goto(t, step), UNCHANGED done,
         step \in Granted <=> pc[t] \in Granted,
         step = "idle" <=> pc[t] = "idle",
         UNCHANGED dtask \/ (t = Dispatcher /\ step \notin Granted)
  PROVE  UNCHANGED Call
<1>1. pc'[t] = step /\ \A u \in Threads \ {t} : pc'[u] = pc[u]
  BY Moved
<1> HIDE DEF Goto
<1>2. \A u \in Threads : /\ pc'[u] \in Granted <=> pc[u] \in Granted
                         /\ pc'[u] = "idle" <=> pc[u] = "idle"
  BY <1>1
<1>3. \A c \in Callers : c \in Threads /\ (Runs(c)' <=> Runs(c))
  <2> TAKE c \in Callers
  <2>1. Runs(c) <=> pc[c] \in Granted \/ (dtask = c /\ pc[Dispatcher] \in Granted)
    BY RunsIs
  <2>2. Runs(c)' <=> pc'[c] \in Granted \/ (dtask' = c /\ pc'[Dispatcher] \in Granted)
    BY Names DEF Runs, Granted, Threads
  <2>3. c \in Threads /\ Dispatcher \in Threads
    BY DEF Threads
  <2> QED BY <1>1, <1>2, <2>1, <2>2, <2>3
<1>4. \A c \in Callers : CallOf(c)' = CallOf(c)
  BY <1>2, <1>3 DEF CallOf
<1> QED BY <1>4 DEF Call

LEMMA AdmissionInit == ASSUME Init PROVE Admission!Init
<1>1. \A c \in Callers : pc[c] = "idle"
  BY Names DEF Init, Threads
<1>2. Call = [c \in Callers |-> "idle"]
  BY <1>1 DEF Call, CallOf
<1> QED BY <1>2 DEF Init, Admission!Init

\* The call of a thread that begins to run its task is admitted: its thread has a
\* permit, which leaves fewer for the calls that run.
LEMMA AdmitStep ==
  ASSUME GateInv, GateInv', NEW t \in Threads, Grant(t)
  PROVE  Task(t) \in Callers /\ Admission!Admit(Task(t))
<1>1. /\ pc[t] = "window" /\ Goto(t, "calling") /\ Fits(Pruned(window), cost[Task(t)])
      /\ grants' = Append(grants, [age |-> 0, cost |-> cost[Task(t)]])
      /\ UNCHANGED <<cost, done, dtask, tracked, shutdown>>
  BY DEF Grant
<1>2. PICK k \in Callers : /\ k = Task(t) /\ ~done[k]
                           /\ t = Dispatcher => dtask # NoTask /\ pc[dtask] = "waiting"
  BY <1>1, HasTask DEF GateInv, PlaceInv, SharedSteps
<1>3. pc'[t] = "calling" /\ \A u \in Threads \ {t} : pc'[u] = pc[u]
  BY <1>1, Moved DEF GateInv
<1>4. pc[k] # "idle" /\ (t # Dispatcher => k = t) /\ (t = Dispatcher => dtask = k)
  BY <1>1, <1>2 DEF Threads
<1>5. ~Runs(k)
  <2>1. CASE t = Dispatcher
    BY <1>1, <1>2, <1>4, <2>1, RunsIs DEF Granted
  <2>2. CASE t # Dispatcher
    <3>1. dtask # k
      BY <1>1, <1>2, <1>4, <2>2, Names DEF GateInv, PlaceInv, DispatchInv
    <3> QED BY <1>1, <1>2, <1>4, <2>2, <3>1, RunsIs DEF Granted
  <2> QED BY <2>1, <2>2
<1>6. Runs(k)'
  <2>1. t \in Threads /\ Task(t)' = k /\ pc'[t] \in {"calling", "record"}
    BY <1>1, <1>2, <1>3
  <2> QED BY <2>1 DEF Runs
<1> HIDE DEF Task
<1>12. /\ Task(t) = k /\ Fits(Pruned(window), cost[k])
       /\ grants' = Append(grants, [age |-> 0, cost |-> cost[k]])
  BY <1>1, <1>2
<1>7. CallOf(k) = "waiting" /\ CallOf(k)' = "running"
  <2>1. CallOf(k) = "waiting"
    BY <1>2, <1>4, <1>5, CallIs
  <2>2. CallOf(k)' = "running"
    <3>1. pc'[k] # "idle" /\ ~done'[k]
      BY <1>1, <1>2, <1>3, <1>4 DEF Threads
    <3> QED BY <1>6, <3>1 DEF CallOf
  <2> QED BY <2>1, <2>2
<1>8. \A c \in Callers \ {k} : CallOf(c)' = CallOf(c)
  <2> TAKE c \in Callers \ {k}
  <2>1. c \in Threads /\ c # Dispatcher /\ c # t /\ pc'[c] = pc[c]
    BY <1>3, <1>4, Names DEF Threads
  <2>2. dtask = c => pc'[Dispatcher] = pc[Dispatcher]
    BY <1>3, <1>4 DEF Threads
  <2>3. Runs(c)' <=> Runs(c)
    BY <1>1, <2>1, <2>2, Names DEF Runs, Granted, Threads, Task
  <2> QED BY <1>1, <2>1, <2>3, CallKept
<1>9. Cardinality(Admission!Calls("running")) < ConcurrentMax
  <2> DEFINE H == Holders \ {t}
             g == [u \in Threads |-> Task(u)]
             A == {g[u] : u \in H}
             R == Admission!Calls("running")
  <2>1. /\ t \in Holders /\ IsFiniteSet(H) /\ Cardinality(H) = Cardinality(Holders) - 1
        /\ Cardinality(Holders) \in Nat /\ Cardinality(H) \in Nat
    BY <1>1, HoldersAre DEF Holders
  <2>2. R \in SUBSET A
    <3> SUFFICES ASSUME NEW c \in R PROVE c \in A
      OBVIOUS
    <3>1. c \in Callers /\ CallOf(c) = "running"
      BY DEF Admission!Calls, Call
    <3>2. Runs(c)
      BY <3>1, CallIs
    <3>3. PICK u \in Threads : Task(u) = c /\ pc[u] \in {"calling", "record"}
      BY <3>2 DEF Runs
    <3>4. u \in H /\ g[u] = c
      BY <1>1, <3>3 DEF Holders
    <3> QED BY <3>4
  <2> HIDE DEF g, H, R
  <2>3. IsFiniteSet(A) /\ Cardinality(A) \in Nat /\ Cardinality(A) <= Cardinality(H)
    BY <2>1, ImageSize
  <2> HIDE DEF A
  <2>4. Cardinality(R) \in Nat /\ Cardinality(R) <= Cardinality(A)
    BY <2>2, <2>3, Sizes
  <2>5. permits \in Nat /\ permits + Cardinality(Holders) = ConcurrentMax
    BY Limits DEF GateInv, TypeOK, SlotsConserved
  <2>6. Cardinality(R) < ConcurrentMax
    BY <2>1, <2>3, <2>4, <2>5, Limits
  <2> QED BY <2>6 DEF R
<1>10. Len(grants) < RequestsPerMinute /\ Admission!LogCost + cost[k] <= TokensPerMinute
  <2>1. grants = Pruned(window)
    BY DEF GateInv, AgesInv
  <2>2. Fits(grants, cost[k])
    BY <1>12, <2>1
  <2>3. Admission!LogCost = Tokens(grants)
    BY AdmissionCounts DEF Tokens, Admission!LogCost
  <2> QED BY <2>2, <2>3 DEF Fits
<1>11. Admission!Moves(k, "waiting", "running")
  BY <1>2, <1>7, <1>8, CallMoves
<1>13. Admission!Cardinality(Admission!Calls("running")) < ConcurrentMax
  BY <1>9, AdmissionCounts
<1> QED BY <1>1, <1>10, <1>11, <1>12, <1>13 DEF Admission!Admit

\* A caller moves and changes only its own call, which no other thread runs.
LEMMA CallerMoves ==
  ASSUME GateInv, NEW t \in Callers, NEW step, Goto(t, step), UNCHANGED dtask,
         pc[t] # "waiting" \/ done[t],
         \A c \in Callers \ {t} : done'[c] = done[c]
  PROVE  /\ pc'[t] = step /\ (Runs(t)' <=> step \in Granted)
         /\ \A c \in Callers \ {t} : CallOf(c)' = CallOf(c)
<1>1. t \in Threads /\ pc'[t] = step /\ \A u \in Threads \ {t} : pc'[u] = pc[u]
  BY Moved DEF GateInv, Threads
<1>2. dtask # t
  BY Names DEF GateInv, PlaceInv, DispatchInv
<1>3. Runs(t)' <=> step \in Granted
  BY <1>1, <1>2, Names DEF Runs, Granted, Threads
<1>4. \A c \in Callers \ {t} : CallOf(c)' = CallOf(c)
  <2> TAKE c \in Callers \ {t}
  <2>1. pc'[c] = pc[c] /\ pc'[Dispatcher] = pc[Dispatcher]
    BY <1>1, Names DEF Threads
  <2>2. Runs(c)' <=> Runs(c)
    BY <2>1, Names DEF Runs, Granted, Threads
  <2> QED BY <2>1, <2>2, CallKept
<1> QED BY <1>1, <1>3, <1>4

LEMMA ArriveStep ==
  ASSUME GateInv, NEW t \in Callers, Reserve(t)
  PROVE  Admission!Arrive(t)
<1>1. PICK c \in Costs :
        /\ pc[t] = "idle" /\ Goto(t, "acquire") /\ tracked + c <= MaxBudget
        /\ tracked' = tracked + c /\ cost' = [cost EXCEPT ![t] = c]
        /\ UNCHANGED <<done, dtask, grants, shutdown>>
  BY DEF Reserve
<1>2. pc'[t] = "acquire" /\ ~Runs(t)' /\ \A u \in Callers \ {t} : CallOf(u)' = CallOf(u)
  BY <1>1, CallerMoves DEF Granted
<1>3. CallOf(t) = "idle" /\ CallOf(t)' = "waiting"
  <2>1. ~done[t]
    BY <1>1 DEF GateInv, PlaceInv, CallsInv
  <2> QED BY <1>1, <1>2, <2>1 DEF CallOf
<1>4. Admission!Moves(t, "idle", "waiting")
  BY <1>2, <1>3, CallMoves
<1> QED BY <1>1, <1>4 DEF Admission!Arrive

LEMMA ReturnStep ==
  ASSUME GateInv, NEW t \in Callers, Return(t)
  PROVE  Admission!Return(t)
<1>1. /\ pc[t] = "waiting" /\ done[t] /\ Goto(t, "idle")
      /\ cost' = [cost EXCEPT ![t] = 0] /\ done' = [done EXCEPT ![t] = FALSE]
      /\ UNCHANGED <<dtask, tracked, grants, shutdown>>
  BY DEF Return, Forget
<1>2. \A c \in Callers \ {t} : done'[c] = done[c]
  BY <1>1 DEF GateInv, TypeOK
<1>3. pc'[t] = "idle" /\ \A u \in Callers \ {t} : CallOf(u)' = CallOf(u)
  BY <1>1, <1>2, CallerMoves
<1>4. CallOf(t) = "answered" /\ CallOf(t)' = "idle"
  BY <1>1, <1>3 DEF CallOf
<1>5. Admission!Moves(t, "answered", "idle")
  BY <1>3, <1>4, CallMoves
<1> QED BY <1>1, <1>5 DEF Admission!Return

\* A full queue holds QueueMaxSize calls that wait, and none of them is the caller's.
LEMMA RefuseStep ==
  ASSUME GateInv, NEW t \in Callers, Enqueue(t), ~(Len(queue) < QueueMaxSize)
  PROVE  Admission!Refuse(t)
<1>1. /\ pc[t] = "enqueue" /\ Goto(t, "idle")
      /\ cost' = [cost EXCEPT ![t] = 0] /\ done' = [done EXCEPT ![t] = FALSE]
      /\ UNCHANGED <<dtask, tracked, grants, shutdown>>
  BY DEF Enqueue, Forget
<1>2. \A c \in Callers \ {t} : done'[c] = done[c]
  BY <1>1 DEF GateInv, TypeOK
<1>3. pc'[t] = "idle" /\ \A u \in Callers \ {t} : CallOf(u)' = CallOf(u)
  BY <1>1, <1>2, CallerMoves
<1>4. CallOf(t) = "waiting" /\ CallOf(t)' = "idle"
  <2>1. ~done[t] /\ dtask # t
    BY <1>1, Names DEF GateInv, PlaceInv, CallsInv, DispatchInv, Working
  <2>2. ~Runs(t)
    BY <1>1, <2>1, RunsIs DEF Granted
  <2> QED BY <1>1, <1>3, <2>1, <2>2 DEF CallOf
<1>5. Admission!Moves(t, "waiting", "idle")
  BY <1>3, <1>4, CallMoves
<1>6. Cardinality(Admission!Calls("waiting") \ {t}) >= QueueMaxSize
  <2> DEFINE W == Admission!Calls("waiting") \ {t}
             I == 1 .. Len(queue)
  <2>1. Len(queue) \in Nat /\ \A i \in I : queue[i] \in Callers
    BY Waiters DEF GateInv
  <2>2. ASSUME NEW i \in I PROVE queue[i] \in W
    <3>1. pc[queue[i]] = "waiting" /\ ~done[queue[i]] /\ queue[i] # dtask /\ queue[i] \in Callers
      BY <2>1 DEF GateInv, PlaceInv, QueueInv
    <3>2. ~Runs(queue[i])
      BY <3>1, RunsIs DEF Granted
    <3>3. CallOf(queue[i]) = "waiting" /\ queue[i] # t
      BY <1>1, <3>1, <3>2 DEF CallOf
    <3> QED BY <3>1, <3>3 DEF Admission!Calls, Call
  <2>3. IsFiniteSet(W) /\ Cardinality(W) \in Nat
    <3>1. W \in SUBSET Callers
      BY DEF Admission!Calls
    <3> HIDE DEF W
    <3> QED BY <3>1, Limits, Sizes
  <2>4. IsFiniteSet(I) /\ Cardinality(I) = Len(queue)
    BY <2>1, FS_Interval
  <2>5. \A u \in W : Cardinality({i \in I : queue[i] = u}) <= 1
    <3> TAKE u \in W
    <3>1. \A i, j \in I : queue[i] = u /\ queue[j] = u => i = j
      BY DEF GateInv, PlaceInv, QueueInv
    <3> DEFINE F == {i \in I : queue[i] = u}
    <3>2. F = {} \/ \E i \in I : F = {i}
      BY <3>1
    <3> HIDE DEF F
    <3>3. Cardinality(F) = 0 \/ Cardinality(F) = 1
      <4>1. CASE F = {}
        BY <4>1, FS_EmptySet
      <4>2. CASE \E i \in I : F = {i}
        BY <4>2, FS_Singleton
      <4> QED BY <3>2, <4>1, <4>2
    <3>4. Cardinality(F) <= 1
      BY <3>3
    <3> QED BY <3>4 DEF F
  <2> HIDE DEF W, I
  <2>6. Cardinality(I) <= Cardinality(W) * 1
    BY <2>2, <2>3, <2>4, <2>5, Fibers
  <2>7. Cardinality(W) >= QueueMaxSize
    BY <2>1, <2>3, <2>4, <2>6, Limits
  <2> QED BY <2>7 DEF W
<1>7. Admission!Cardinality(Admission!Calls("waiting") \ {t}) >= QueueMaxSize
  BY <1>6, AdmissionCounts
<1> QED BY <1>1, <1>5, <1>7 DEF Admission!Refuse

LEMMA AnswerStep ==
  ASSUME GateInv, NEW t \in Threads, Record(t)
  PROVE  \E k \in Callers : Admission!Answer(k)
<1>1. /\ pc[t] = "record" /\ Goto(t, "release") /\ done' = [done EXCEPT ![Task(t)] = TRUE]
      /\ dtask' = IF t = Dispatcher THEN NoTask ELSE dtask
      /\ UNCHANGED <<cost, tracked, grants, shutdown>>
  BY DEF Record
<1>2. PICK k \in Callers : k = Task(t)
  BY <1>1, HasTask DEF GateInv, PlaceInv, SharedSteps
<1>3. pc'[t] = "release" /\ \A u \in Threads \ {t} : pc'[u] = pc[u]
  BY <1>1, Moved DEF GateInv
<1>4. (t # Dispatcher => k = t) /\ (t = Dispatcher => dtask = k /\ pc[k] = "waiting")
  BY <1>1, <1>2, HasTask DEF GateInv, PlaceInv, SharedSteps
<1>5. done'[k] = TRUE /\ \A c \in Callers \ {k} : done'[c] = done[c]
  BY <1>1, <1>2 DEF GateInv, TypeOK
<1>6. CallOf(k) = "running"
  <2>1. pc[k] \in Granted \/ (dtask = k /\ pc[Dispatcher] \in Granted)
    BY <1>1, <1>4 DEF Granted
  <2>2. Runs(k)
    BY <2>1, RunsIs
  <2> QED BY <2>2, CallIs
<1>7. CallOf(k)' = "answered"
  <2>1. pc'[k] # "idle"
    BY <1>3, <1>4, Names DEF Threads
  <2> QED BY <1>5, <2>1 DEF CallOf
<1> HIDE DEF Goto
<1>8. \A c \in Callers \ {k} : CallOf(c)' = CallOf(c)
  <2> TAKE c \in Callers \ {k}
  <2>1. pc'[c] = pc[c]
    BY <1>3, <1>4, Names DEF Threads
  <2>2. t # Dispatcher => dtask' = dtask /\ pc'[Dispatcher] = pc[Dispatcher]
    BY <1>1, <1>3 DEF Threads
  <2>3. t = Dispatcher => dtask' # c /\ dtask # c
    BY <1>1, <1>4, Names
  <2>4. Runs(c)' <=> Runs(c)
    BY <2>1, <2>2, <2>3, Names DEF Runs, Granted, Threads
  <2> QED BY <1>5, <2>1, <2>4, CallKept
<1>9. Admission!Moves(k, "running", "answered")
  BY <1>6, <1>7, <1>8, CallMoves
<1> QED BY <1>1, <1>9 DEF Admission!Answer

LEMMA FailStep ==
  ASSUME GateInv, Check, shutdown
  PROVE  \E k \in Callers : Admission!Fail(k)
<1>1. /\ pc[Dispatcher] = "check" /\ Goto(Dispatcher, "loop")
      /\ done' = [done EXCEPT ![dtask] = TRUE] /\ dtask' = NoTask
      /\ UNCHANGED <<cost, tracked, grants, shutdown>>
  BY DEF Check
<1>2. dtask \in Callers /\ pc[dtask] = "waiting" /\ ~done[dtask]
  BY <1>1 DEF GateInv, TypeOK, PlaceInv, DispatchInv, Busy
<1>3. PICK k \in Callers : k = dtask
  BY <1>2
<1>4. pc'[Dispatcher] = "loop" /\ \A c \in Callers : pc'[c] = pc[c]
  <2>1. Dispatcher \in Threads
    BY DEF Threads
  <2> QED BY <1>1, <2>1, Moved, Names DEF GateInv, Threads
<1>5. done'[k] = TRUE /\ \A c \in Callers \ {k} : done'[c] = done[c]
  BY <1>1, <1>3 DEF GateInv, TypeOK
<1>6. CallOf(k) = "waiting" /\ CallOf(k)' = "answered"
  <2>1. ~Runs(k)
    BY <1>1, <1>2, <1>3, RunsIs DEF Granted
  <2> QED BY <1>2, <1>3, <1>4, <1>5, <2>1 DEF CallOf
<1> HIDE DEF Goto
<1>7. \A c \in Callers \ {k} : CallOf(c)' = CallOf(c)
  <2> TAKE c \in Callers \ {k}
  <2>1. Runs(c)' <=> Runs(c)
    BY <1>1, <1>3, <1>4, Names DEF Runs, Granted, Threads
  <2> QED BY <1>4, <1>5, <2>1, CallKept
<1>8. Admission!Moves(k, "waiting", "answered")
  BY <1>6, <1>7, CallMoves
<1> QED BY <1>1, <1>8 DEF Admission!Fail

LEMMA PassStep ==
  ASSUME GateInv, GateInv', Tick
  PROVE  Admission!Pass
<1>1. grants' = Younger(Aged(grants, 1), Window) /\ UNCHANGED <<pc, cost, done, dtask, tracked, shutdown>>
  BY DEF Tick
<1>2. UNCHANGED Call
  BY <1>1 DEF Call, CallOf, Runs
<1>3. /\ Entries(grants) /\ grants \in Seq(Slots) /\ \A i \in 1 .. Len(grants) : grants[i] \in Slots \cup Sent
      /\ Ordered(grants)
  BY WindowsAre, ElementOfSeq, PrunedIs DEF GateInv, TypeOK, AgesInv
<1>4. grants' \in Seq(Slots) /\ Young(grants', Window)
  BY PrunedIs DEF GateInv, TypeOK, AgesInv
<1>5. LET v == Younger(Aged(grants, 1), Window) IN
      \E k \in 0 .. Len(grants) :
        /\ Len(v) = Len(grants) - k
        /\ \A i \in 1 .. k : grants[i].age + 1 >= Window
        /\ \A i \in 1 .. Len(grants) - k :
             /\ k + i \in 1 .. Len(grants) /\ v[i].age = grants[k + i].age + 1
             /\ v[i] = Aged(grants, 1)[k + i]
  BY <1>3, TickLeaves
<1>6. PICK k \in 0 .. Len(grants) :
        /\ Len(grants') = Len(grants) - k
        /\ \A i \in 1 .. k : grants[i].age + 1 >= Window
        /\ \A i \in 1 .. Len(grants) - k :
             /\ k + i \in 1 .. Len(grants) /\ grants'[i].age = grants[k + i].age + 1
             /\ grants'[i] = Aged(grants, 1)[k + i]
  BY <1>1, <1>5
<1>7. \A i \in 1 .. Len(grants) : i <= k <=> grants[i].age + 1 >= Window
  <2> TAKE i \in 1 .. Len(grants)
  <2>0. Len(grants) \in Nat /\ k \in Nat /\ i \in Nat /\ Window \in Nat
    BY <1>3, Limits DEF Entries
  <2>1. CASE i <= k
    <3>1. i \in 1 .. k
      BY <2>0, <2>1
    <3> QED BY <1>6, <2>1, <3>1
  <2>2. CASE ~(i <= k)
    <3>1. i - k \in 1 .. Len(grants) - k /\ k + (i - k) = i
      BY <2>0, <2>2
    <3>2. grants'[i - k].age = grants[i].age + 1 /\ i - k \in 1 .. Len(grants')
      BY <1>6, <3>1
    <3>3. grants'[i - k].age < Window
      BY <1>4, <3>2 DEF Young
    <3>4. grants[i].age \in Nat
      BY <1>3 DEF Entries
    <3> QED BY <2>0, <2>2, <3>2, <3>3, <3>4
  <2> QED BY <2>1, <2>2
<1>8. grants' = [i \in 1 .. Len(grants) - k |-> [grants[k + i] EXCEPT !.age = @ + 1]]
  <2>1. \A i \in 1 .. Len(grants) : Aged(grants, 1)[i] = [grants[i] EXCEPT !.age = @ + 1]
    BY <1>3, AgedIs
  <2>2. \A i \in 1 .. Len(grants) - k : grants'[i] = [grants[k + i] EXCEPT !.age = @ + 1]
    BY <1>6, <2>1
  <2>3. \E S : grants' \in [1 .. Len(grants) - k -> S]
    <3>1. grants' \in [1 .. Len(grants') -> Slots]
      BY <1>4
    <3> QED BY <1>6, <3>1
  <2> QED BY <2>2, <2>3
<1> QED BY <1>1, <1>2, <1>7, <1>8 DEF Admission!Pass

\* What the threads do together is what Admission does in one step, or nothing.
LEMMA AdmissionStep ==
  ASSUME GateInv, GateInv', [Next]_vars
  PROVE  [Admission!Next]_Admission!vars
<1> DEFINE Kept == UNCHANGED <<Call, cost, tracked, grants, shutdown>>
<1>1. Kept => UNCHANGED Admission!vars
  BY DEF Admission!vars
<1> HIDE DEF Kept
<1>2. ASSUME NEW t \in Threads, SharedStep(t) PROVE [Admission!Next]_Admission!vars
  <2>1. CASE TryAcquire(t) \/ Deny(t) \/ GiveBack(t) \/ Refused(t) \/ Release(t)
    <3>1. PICK step \in {"window", "refused", "giveback", "sleep", "enqueue", "loop", "waiting"} :
            Goto(t, step)
      BY <2>1 DEF TryAcquire, Deny, GiveBack, Refused, Release
    <3>2. /\ pc[t] \in {"acquire", "window", "giveback", "refused", "release"}
          /\ UNCHANGED <<done, dtask, cost, tracked, grants, shutdown>>
      BY <2>1 DEF TryAcquire, Deny, GiveBack, Refused, Release
    <3>3. UNCHANGED Call
      BY <3>1, <3>2, CallsKept DEF Granted, GateInv
    <3> QED BY <1>1, <3>2, <3>3 DEF Kept
  <2>2. CASE Request(t)
    <3>1. UNCHANGED <<done, dtask, cost, tracked, grants, shutdown>> /\ pc[t] = "calling"
      BY <2>2 DEF Request
    <3>2. CASE Goto(t, "record")
      BY <1>1, <3>1, <3>2, CallsKept DEF Kept, Granted, GateInv
    <3>3. CASE UNCHANGED pc
      <4>1. UNCHANGED Call
        BY <3>1, <3>3 DEF Call, CallOf, Runs
      <4> QED BY <1>1, <3>1, <4>1 DEF Kept
    <3> QED BY <2>2, <3>2, <3>3 DEF Request
  <2>3. CASE Grant(t)
    BY <2>3, AdmitStep DEF Admission!Next
  <2>4. CASE Record(t)
    BY <2>4, AnswerStep DEF Admission!Next
  <2> QED BY <1>2, <2>1, <2>2, <2>3, <2>4 DEF SharedStep
<1>3. ASSUME NEW t \in Callers, Reserve(t) \/ Enqueue(t) \/ Return(t)
      PROVE  [Admission!Next]_Admission!vars
  <2>1. CASE Reserve(t)
    BY <2>1, ArriveStep DEF Admission!Next
  <2>2. CASE Enqueue(t) /\ Len(queue) < QueueMaxSize
    <3>1. /\ pc[t] = "enqueue" /\ Goto(t, "waiting") /\ t \in Threads
          /\ UNCHANGED <<done, dtask, cost, tracked, grants, shutdown>>
      BY <2>2 DEF Enqueue, Threads
    <3>2. UNCHANGED Call
      BY <3>1, CallsKept DEF Granted, GateInv
    <3> QED BY <1>1, <3>1, <3>2 DEF Kept
  <2>3. CASE Enqueue(t) /\ ~(Len(queue) < QueueMaxSize)
    BY <2>3, RefuseStep DEF Admission!Next
  <2>4. CASE Return(t)
    BY <2>4, ReturnStep DEF Admission!Next
  <2> QED BY <1>3, <2>1, <2>2, <2>3, <2>4
<1>4. CASE Poll \/ Dequeue \/ Wake \/ (Check /\ ~shutdown)
  <2>1. PICK step \in {"exited", "get", "loop", "check", "acquire"} : Goto(Dispatcher, step)
    BY <1>4 DEF Poll, Dequeue, Wake, Check
  <2>2. /\ pc[Dispatcher] \in {"loop", "get", "sleep", "check"} /\ Dispatcher \in Threads
        /\ UNCHANGED <<done, cost, tracked, grants, shutdown>>
    BY <1>4 DEF Poll, Dequeue, Wake, Check, Threads
  <2>3. UNCHANGED Call
    BY <2>1, <2>2, CallsKept DEF Granted, GateInv
  <2> QED BY <1>1, <2>2, <2>3 DEF Kept
<1>5. CASE Check /\ shutdown
  BY <1>5, FailStep DEF Admission!Next
<1>6. CASE ShutDown
  <2>1. UNCHANGED Call
    BY <1>6 DEF ShutDown, Call, CallOf, Runs
  <2> QED BY <1>6, <2>1 DEF ShutDown, Admission!Next, Admission!Close
<1>7. CASE Tick
  BY <1>7, PassStep DEF Admission!Next
<1>8. CASE UNCHANGED vars
  <2>1. UNCHANGED Call
    BY <1>8 DEF Call, CallOf, Runs
  <2> QED BY <1>1, <1>8, <2>1 DEF Kept
<1> QED BY <1>2, <1>3, <1>4, <1>5, <1>6, <1>7, <1>8, StepCases

\* Semaphore, window, overflow queue and dispatcher together behave as one admission
\* (execute): a call runs once, when its budget is reserved, fewer than ConcurrentMax
\* calls run and both rates allow it, and is turned away only when QueueMaxSize others
\* wait.
THEOREM AdmissionImplemented == Spec => CallsAdmitted
<1>1. Init => Admission!Init
  BY AdmissionInit
<1>2. GateInv /\ GateInv' /\ [Next]_vars => [Admission!Next]_Admission!vars
  BY AdmissionStep
<1> QED BY <1>1, <1>2, Gatekeeping, PTL DEF Spec, CallsAdmitted, Admission!Spec
==============================================================================

------------------------------ MODULE FiniteLemmas ------------------------------
(***************************************************************************)
(* Extrema of finite sets, folds over them and ranks in an order, for the  *)
(* modules that prove something about a Max, a Min, a MapThenSumSet, a     *)
(* FoldLeft or a sorted sequence.  The operators are CHOOSE or recursion over a set;     *)
(* what holds of them is shown by a counterexample that has none below it, *)
(* from the well-foundedness of the order.                                 *)
(***************************************************************************)
EXTENDS Integers, FiniteSetsExt, FiniteSetTheorems, WellFoundedInduction, TLAPS

LEMMA SmallestNumber ==
    ASSUME NEW T \in SUBSET Nat, T # {}
    PROVE  \E n \in T : \A m \in T : n <= m
<1>1. \E n \in T : \A m \in T : ~(<<m, n>> \in OpToRel(<, Nat))
  BY NatLessThanWellFounded, WFMin, Zenon
<1>2. \A m, n \in Nat : m < n => <<m, n>> \in OpToRel(<, Nat)
  BY DEF OpToRel
<1>3. \E n \in T : \A m \in T : ~(m < n)
  BY <1>1, <1>2, Zenon
<1> QED BY <1>3

\* Of a set of subsets of a finite set, one has no other below it.
Lowest(U, C) == U \in C /\ \A V \in C : V \subseteq U => V = U

LEMMA SmallestSubset ==
    ASSUME NEW S, IsFiniteSet(S), NEW C \in SUBSET (SUBSET S), C # {}
    PROVE  \E U : Lowest(U, C)
<1>1. IsWellFoundedOn(StrictSubsetOrdering(S), SUBSET S)
  BY FS_StrictSubsetOrderingWellFounded, FS_FiniteSubsetsOfFinite
<1>2. \E U \in C : \A V \in C : ~(<<V, U>> \in StrictSubsetOrdering(S))
  BY <1>1, WFMin
<1>3. \A U, V \in SUBSET S : V \subseteq U /\ V # U => <<V, U>> \in StrictSubsetOrdering(S)
  BY DEF StrictSubsetOrdering
<1>4. PICK U \in C : \A V \in C : ~(<<V, U>> \in StrictSubsetOrdering(S))
  BY <1>2
<1>5. ASSUME NEW V \in C PROVE V \subseteq U => V = U
  BY <1>3, <1>4
<1> QED BY <1>5 DEF Lowest

LEMMA LargestNumber ==
    ASSUME NEW S \in SUBSET Int, IsFiniteSet(S), S # {}
    PROVE  Max(S) \in S /\ \A y \in S : Max(S) >= y
<1> DEFINE HasLargest(U) == \E x \in U : \A y \in U : x >= y
           C == {U \in SUBSET S : U # {} /\ ~HasLargest(U)}
<1>1. CASE C = {}
  <2>1. \E x \in S : \A y \in S : x >= y
    BY <1>1
  <2> QED BY <2>1 DEF Max
<1>2. CASE C # {}
  <2>1. PICK U : U \in C /\ Lowest(U, C)
    <3>1. C \in SUBSET (SUBSET S)
      OBVIOUS
    <3> HIDE DEF C
    <3>2. \E U : Lowest(U, C)
      BY <1>2, <3>1, SmallestSubset
    <3> QED BY <3>2 DEF Lowest
  <2> U \in C
    BY <2>1
  <2>2. PICK x \in U : TRUE
    OBVIOUS
  <2> DEFINE V == U \ {x}
  <2>3. V \in SUBSET S /\ V # U /\ V \subseteq U
    OBVIOUS
  <2>4. V = {} \/ HasLargest(V)
    BY <2>1, <2>3 DEF Lowest
  <2>5. CASE V = {}
    <3>1. U = {x} /\ x \in Int
      BY <2>5
    <3>2. HasLargest(U)
      BY <3>1
    <3> QED BY <3>2
  <2>6. CASE HasLargest(V)
    <3>1. PICK m \in V : \A y \in V : m >= y
      BY <2>6
    <3>2. m \in Int /\ x \in Int /\ \A y \in U : y \in Int /\ (y = x \/ y \in V)
      OBVIOUS
    <3>3. CASE m >= x
      <4>1. m \in U /\ \A y \in U : m >= y
        BY <3>1, <3>2, <3>3
      <4> QED BY <4>1
    <3>4. CASE ~(m >= x)
      <4>1. x \in U /\ \A y \in U : x >= y
        BY <3>1, <3>2, <3>4
      <4> QED BY <4>1
    <3> QED BY <3>3, <3>4
  <2> QED BY <2>4, <2>5, <2>6
<1> QED BY <1>1, <1>2

\* The least is likewise a member below all the others.
LEMMA LeastNumber ==
    ASSUME NEW T \in SUBSET Nat, T # {}
    PROVE  Min(T) \in T /\ \A y \in T : Min(T) <= y
<1>1. \E n \in T : \A m \in T : n <= m
  BY SmallestNumber
<1> QED BY <1>1 DEF Min

-------------------------------------------------------------------------------
(* Folds.                                                                  *)

\* A fold over subsets, as the library defines it: pick takes one member out at a time.
FoldsUp(h, add, g, pick, S) ==
    h = [s \in SUBSET S |-> IF s = {} THEN 0 ELSE add[g[pick[s]]][h[s \ {pick[s]}]]]

Foldable(S, D, add, g, pick) ==
    /\ IsFiniteSet(S) /\ 0 \in D /\ add \in [D -> [D -> D]] /\ g \in [S -> D]
    /\ \A s \in SUBSET S : s # {} => pick[s] \in s

\* Such a fold exists: the sets of at most k members have one, for every k.
LEMMA FoldExists ==
    ASSUME NEW S, NEW D, NEW add, NEW g, NEW pick, Foldable(S, D, add, g, pick)
    PROVE  \E h \in [SUBSET S -> D] : FoldsUp(h, add, g, pick, S)
<1> USE DEF Foldable
<1> DEFINE Small(k) == {s \in SUBSET S : Cardinality(s) <= k}
           Value(h, s) == IF s = {} THEN 0 ELSE add[g[pick[s]]][h[s \ {pick[s]}]]
           Summed(k) == \E h \in [Small(k) -> D] : \A s \in Small(k) : h[s] = Value(h, s)
           C == {k \in Nat : ~Summed(k)}
<1>1. IsFiniteSet(S) /\ Cardinality(S) \in Nat
  BY FS_CardinalityType
<1>2. ASSUME NEW s \in SUBSET S, s # {}
      PROVE  /\ pick[s] \in s /\ g[pick[s]] \in D
             /\ s \ {pick[s]} \in SUBSET S
             /\ Cardinality(s) \in Nat /\ Cardinality(s \ {pick[s]}) = Cardinality(s) - 1
             /\ Cardinality(s) > 0
  <2>1. pick[s] \in s
    BY <1>2
  <2>2. IsFiniteSet(s)
    BY <1>1, FS_Subset
  <2>3. Cardinality(s) \in Nat /\ Cardinality(s) # 0
    BY <1>2, <2>2, FS_CardinalityType, FS_EmptySet
  <2>4. Cardinality(s \ {pick[s]}) = Cardinality(s) - 1
    BY <2>1, <2>2, FS_RemoveElement
  <2>5. g[pick[s]] \in D
    BY <2>1
  <2> QED BY <2>1, <2>3, <2>4, <2>5
<1>3. Summed(0)
  <2> DEFINE h == [s \in Small(0) |-> 0]
  <2>1. ASSUME NEW s \in Small(0) PROVE s = {}
    <3>1. s \in SUBSET S /\ Cardinality(s) <= 0
      OBVIOUS
    <3>2. ~(Cardinality(s) \in Nat /\ Cardinality(s) > 0)
      BY <3>1
    <3> QED BY <1>2, <3>1, <3>2
  <2>2. h \in [Small(0) -> D] /\ \A s \in Small(0) : h[s] = Value(h, s)
    BY <2>1
  <2> QED BY <2>2
<1>4. ASSUME NEW k \in Nat, Summed(k) PROVE Summed(k + 1)
  <2>1. PICK h \in [Small(k) -> D] : \A s \in Small(k) : h[s] = Value(h, s)
    BY <1>4
  <2> DEFINE i == [s \in Small(k + 1) |-> Value(h, s)]
  <2>2. ASSUME NEW s \in Small(k + 1), s # {} PROVE s \ {pick[s]} \in Small(k)
    BY <1>2, <2>2
  <2>3. \A s \in Small(k) : s \in Small(k + 1)
    <3>1. ASSUME NEW s \in Small(k) PROVE Cardinality(s) \in Nat
      BY <1>1, FS_Subset, FS_CardinalityType
    <3> QED BY <3>1
  <2>4. ASSUME NEW s \in Small(k + 1) PROVE Value(h, s) \in D
    <3>1. CASE s = {}
      BY <3>1
    <3>2. CASE s # {}
      <4>1. h[s \ {pick[s]}] \in D /\ g[pick[s]] \in D
        BY <1>2, <2>2, <3>2
      <4>2. add[g[pick[s]]] \in [D -> D]
        BY <4>1
      <4>3. add[g[pick[s]]][h[s \ {pick[s]}]] \in D
        BY <4>1, <4>2
      <4> QED BY <3>2, <4>3
    <3> QED BY <3>1, <3>2
  <2>5. i \in [Small(k + 1) -> D]
    BY <2>4
  <2>6. \A s \in Small(k) : i[s] = h[s]
    BY <2>1, <2>3
  <2>7. ASSUME NEW s \in Small(k + 1) PROVE i[s] = Value(i, s)
    <3>1. CASE s = {}
      BY <3>1
    <3>2. CASE s # {}
      <4>1. i[s \ {pick[s]}] = h[s \ {pick[s]}]
        BY <2>2, <2>6, <3>2
      <4> QED BY <3>2, <4>1
    <3> QED BY <3>1, <3>2
  <2> HIDE DEF i
  <2> QED BY <2>5, <2>7
<1>5. \A k \in Nat : Summed(k)
  <2> SUFFICES ASSUME C # {} PROVE FALSE
    OBVIOUS
  <2> HIDE DEF Summed
  <2>1. PICK k \in C : \A m \in C : k <= m
    <3>1. C \in SUBSET Nat
      OBVIOUS
    <3> QED BY <3>1, SmallestNumber
  <2>2. k # 0 /\ k \in Nat /\ ~Summed(k)
    BY <1>3
  <2>3. k - 1 \in Nat /\ Summed(k - 1) /\ (k - 1) + 1 = k
    BY <2>1, <2>2
  <2> QED BY <1>4, <2>2, <2>3
<1>6. Small(Cardinality(S)) = SUBSET S
  BY <1>1, FS_Subset
<1>7. PICK h \in [SUBSET S -> D] : \A s \in SUBSET S : h[s] = Value(h, s)
  <2>1. Summed(Cardinality(S))
    <3> HIDE DEF Summed
    <3> QED BY <1>1, <1>5
  <2> HIDE DEF Small, Value
  <2>2. \E h \in [Small(Cardinality(S)) -> D] :
            \A s \in Small(Cardinality(S)) : h[s] = Value(h, s)
    BY <2>1
  <2> QED BY <1>6, <2>2
<1>8. FoldsUp(h, add, g, pick, S)
  <2>1. h = [s \in SUBSET S |-> Value(h, s)]
    BY <1>7
  <2> QED BY <2>1 DEF FoldsUp
<1> QED BY <1>8

\* The values of a function are in D if that of the empty set is, and that of every other set
\* when the set without some member of its own has one in D.
LEMMA ValuesBySubsets ==
    ASSUME NEW S, IsFiniteSet(S), NEW D, NEW h, h[{}] \in D,
           \A s \in SUBSET S : s # {} => \E x \in s : h[s \ {x}] \in D => h[s] \in D
    PROVE  \A s \in SUBSET S : h[s] \in D
<1> DEFINE C == {s \in SUBSET S : h[s] \notin D}
<1>1. ASSUME C # {} PROVE FALSE
  <2>1. PICK U : Lowest(U, C)
    <3>1. C \in SUBSET (SUBSET S)
      OBVIOUS
    <3> HIDE DEF C
    <3> QED BY <1>1, <3>1, SmallestSubset
  <2>2. U \in SUBSET S /\ h[U] \notin D /\ U # {}
    BY <2>1 DEF Lowest
  <2>3. PICK x \in U : h[U \ {x}] \in D => h[U] \in D
    BY <2>2
  <2>4. U \ {x} \in SUBSET S /\ U \ {x} \subseteq U /\ U \ {x} # U
    BY <2>2
  <2>5. h[U \ {x}] \in D
    BY <2>1, <2>4 DEF Lowest
  <2> QED BY <2>2, <2>3, <2>5
<1> QED BY <1>1

-------------------------------------------------------------------------------
(* Sums.                                                                   *)

Taken(s) == CHOOSE x \in s : TRUE

SumsUp(h, g, S) ==
    h = [s \in SUBSET S |-> IF s = {} THEN 0 ELSE g[Taken(s)] + h[s \ {Taken(s)}]]

LEMMA SumExists ==
    ASSUME NEW S, IsFiniteSet(S), NEW g \in [S -> Int]
    PROVE  \E h \in [SUBSET S -> Int] : SumsUp(h, g, S)
<1> DEFINE pick == [s \in SUBSET S |-> Taken(s)]
           add == [x \in Int |-> [y \in Int |-> x + y]]
<1>1. add \in [Int -> [Int -> Int]]
  OBVIOUS
<1>2. ASSUME NEW s \in SUBSET S, s # {} PROVE pick[s] = Taken(s) /\ pick[s] \in s
  BY <1>2 DEF Taken
<1>3. \A x, y \in Int : add[x][y] = x + y
  OBVIOUS
<1> HIDE DEF pick, add
<1>4. PICK h \in [SUBSET S -> Int] : FoldsUp(h, add, g, pick, S)
  <2>1. \A s \in SUBSET S : s # {} => pick[s] \in s
    BY <1>2
  <2>2. 0 \in Int
    OBVIOUS
  <2>3. Foldable(S, Int, add, g, pick)
    BY <1>1, <2>1, <2>2 DEF Foldable
  <2> QED BY <2>3, FoldExists
<1>5. ASSUME NEW s \in SUBSET S
      PROVE  h[s] = IF s = {} THEN 0 ELSE g[Taken(s)] + h[s \ {Taken(s)}]
  <2>1. CASE s = {}
    BY <1>4, <2>1 DEF FoldsUp
  <2>2. CASE s # {}
    <3>1. h[s] = add[g[pick[s]]][h[s \ {pick[s]}]]
      BY <1>4, <2>2 DEF FoldsUp
    <3>2. g[pick[s]] \in Int /\ h[s \ {pick[s]}] \in Int
      BY <1>2, <2>2
    <3> QED BY <1>2, <1>3, <2>2, <3>1, <3>2
  <2> QED BY <2>1, <2>2
<1>6. SumsUp(h, g, S)
  <2> DEFINE Value(s) == IF s = {} THEN 0 ELSE g[Taken(s)] + h[s \ {Taken(s)}]
  <2>1. \A s \in SUBSET S : h[s] = Value(s)
    BY <1>5
  <2> HIDE DEF Value
  <2>2. h = [s \in SUBSET S |-> Value(s)]
    BY <2>1
  <2> QED BY <2>2 DEF SumsUp, Value
<1> QED BY <1>6

\* A sum of natural numbers is one, and one of integers is an integer.
LEMMA SumType ==
    ASSUME NEW D, 0 \in D, \A x, y \in D : x + y \in D,
           NEW S, IsFiniteSet(S), NEW g \in [S -> D], NEW h, SumsUp(h, g, S)
    PROVE  h \in [SUBSET S -> D]
<1> DEFINE Value(s) == IF s = {} THEN 0 ELSE g[Taken(s)] + h[s \ {Taken(s)}]
<1>1. h = [s \in SUBSET S |-> Value(s)]
  BY DEF SumsUp
<1>2. h[{}] \in D
  BY <1>1
<1>3. ASSUME NEW s \in SUBSET S, s # {}
      PROVE  \E x \in s : h[s \ {x}] \in D => h[s] \in D
  <2>1. Taken(s) \in s /\ h[s] = g[Taken(s)] + h[s \ {Taken(s)}]
    BY <1>1, <1>3 DEF Taken
  <2>2. g[Taken(s)] \in D
    BY <2>1
  <2> QED BY <2>1, <2>2
<1>4. \A s \in SUBSET S : h[s] \in D
  BY <1>2, <1>3, ValuesBySubsets
<1> HIDE DEF Value
<1>5. \A s \in SUBSET S : h[s] = Value(s)
  BY <1>1
<1> QED BY <1>1, <1>4, <1>5

Splits(h, g, S) == \A s \in SUBSET S : \A x \in s : h[s] = g[x] + h[s \ {x}]

\* It does not matter which member is taken out first.
LEMMA SumSplits ==
    ASSUME NEW S, IsFiniteSet(S), NEW g \in [S -> Int], NEW h \in [SUBSET S -> Int],
           SumsUp(h, g, S)
    PROVE  Splits(h, g, S)
<1> DEFINE SplitsAt(t) == \A y \in t : h[t] = g[y] + h[t \ {y}]
           C == {t \in SUBSET S : ~SplitsAt(t)}
<1>1. ASSUME NEW t \in SUBSET S, t # {}
      PROVE  h[t] = g[Taken(t)] + h[t \ {Taken(t)}] /\ Taken(t) \in t
  BY <1>1 DEF SumsUp, Taken
<1>2. ASSUME C # {} PROVE FALSE
  <2>1. PICK t : Lowest(t, C)
    <3>1. C \in SUBSET (SUBSET S)
      OBVIOUS
    <3> HIDE DEF C
    <3> QED BY <1>2, <3>1, SmallestSubset
  <2>2. t \in SUBSET S /\ ~SplitsAt(t)
    BY <2>1 DEF Lowest
  <2>3. PICK y \in t : h[t] # g[y] + h[t \ {y}]
    BY <2>2
  <2> DEFINE z == Taken(t)
  <2>4. h[t] = g[z] + h[t \ {z}] /\ z \in t
    BY <1>1, <2>2, <2>3
  <2> HIDE DEF z
  <2>5. y # z
    BY <2>3, <2>4
  <2>6. ASSUME NEW u \in SUBSET S, u \subseteq t, u # t PROVE SplitsAt(u)
    BY <2>1, <2>6 DEF Lowest
  <2>7. h[t \ {z}] = g[y] + h[(t \ {z}) \ {y}]
    BY <2>2, <2>3, <2>4, <2>5, <2>6
  <2>8. h[t \ {y}] = g[z] + h[(t \ {y}) \ {z}]
    BY <2>2, <2>3, <2>4, <2>5, <2>6
  <2> DEFINE rest == h[(t \ {y}) \ {z}]
  <2>9. (t \ {z}) \ {y} = (t \ {y}) \ {z}
    OBVIOUS
  <2>10. g[y] \in Int /\ g[z] \in Int /\ rest \in Int
    BY <2>2, <2>3, <2>4
  <2>11. h[t \ {z}] = g[y] + rest /\ h[t \ {y}] = g[z] + rest
    BY <2>7, <2>8, <2>9
  <2> HIDE DEF rest
  <2>12. g[z] + (g[y] + rest) = g[y] + (g[z] + rest)
    BY <2>10
  <2> QED BY <2>3, <2>4, <2>11, <2>12, Zenon
<1> QED BY <1>2 DEF Splits

SumOfIntegers(h, g, S) ==
    /\ IsFiniteSet(S) /\ g \in [S -> Int]
    /\ h \in [SUBSET S -> Int] /\ SumsUp(h, g, S)

\* Where no summand grows by more than n, no sum grows by more than n for each summand.
LEMMA SumShifts ==
    ASSUME NEW S, NEW g, NEW h, SumOfIntegers(h, g, S), NEW f, NEW k, SumOfIntegers(k, f, S),
           NEW n \in Int, \A x \in S : g[x] <= f[x] + n
    PROVE  \A s \in SUBSET S : h[s] <= k[s] + Cardinality(s) * n
<1> USE DEF SumOfIntegers
<1> DEFINE C == {s \in SUBSET S : ~(h[s] <= k[s] + Cardinality(s) * n)}
<1>0. Splits(h, g, S) /\ Splits(k, f, S)
  BY SumSplits
<1>1. ASSUME C # {} PROVE FALSE
  <2>1. PICK s : Lowest(s, C)
    <3>1. C \in SUBSET (SUBSET S)
      OBVIOUS
    <3> HIDE DEF C
    <3> QED BY <1>1, <3>1, SmallestSubset
  <2>2. s \in SUBSET S /\ ~(h[s] <= k[s] + Cardinality(s) * n) /\ IsFiniteSet(s)
    BY <2>1, FS_Subset DEF Lowest
  <2>3. s # {}
    <3>1. h[{}] = 0 /\ k[{}] = 0
      BY DEF SumsUp
    <3>2. 0 <= 0 + 0 * n
      OBVIOUS
    <3>3. Cardinality({}) = 0
      BY FS_EmptySet
    <3>4. h[{}] <= k[{}] + Cardinality({}) * n
      BY <3>1, <3>2, <3>3
    <3> QED BY <2>2, <3>4
  <2>4. PICK x \in s : TRUE
    BY <2>3
  <2> DEFINE t == s \ {x}
  <2>5. t \in SUBSET S /\ t \subseteq s /\ t # s
    BY <2>2, <2>4
  <2>6. h[t] <= k[t] + Cardinality(t) * n
    BY <2>1, <2>5 DEF Lowest
  <2>7. h[s] = g[x] + h[t] /\ k[s] = f[x] + k[t]
    BY <1>0, <2>2, <2>4 DEF Splits
  <2>8. Cardinality(s) \in Nat /\ Cardinality(t) = Cardinality(s) - 1
    BY <2>2, <2>4, FS_CardinalityType, FS_RemoveElement
  <2>9. x \in S /\ g[x] \in Int /\ f[x] \in Int /\ h[t] \in Int /\ k[t] \in Int
    BY <2>2, <2>4, <2>5
  <2> DEFINE p == Cardinality(t) * n
  <2>10. p \in Int /\ Cardinality(s) * n = p + n
    <3> DEFINE m == Cardinality(t)
    <3>1. m \in Int /\ Cardinality(s) = m + 1
      BY <2>8
    <3> HIDE DEF m
    <3>2. m * n \in Int /\ (m + 1) * n = m * n + n
      BY <3>1
    <3> QED BY <3>1, <3>2 DEF m
  <2> HIDE DEF t, p
  <2>11. h[t] <= k[t] + p
    BY <2>6 DEF p
  <2>12. g[x] <= f[x] + n
    BY <2>9
  <2>13. g[x] + h[t] <= f[x] + k[t] + (p + n)
    BY <2>9, <2>10, <2>11, <2>12
  <2> QED BY <2>2, <2>7, <2>10, <2>13
<1> QED BY <1>1
-------------------------------------------------------------------------------
(* Orders.                                                                 *)

\* The pairs of a strict total order of S, and how many members come before one.
IsOrder(S, before) ==
    /\ \A x \in S : <<x, x>> \notin before
    /\ \A x, y \in S : x # y => <<x, y>> \in before \/ <<y, x>> \in before
    /\ \A x, y, z \in S : <<x, y>> \in before /\ <<y, z>> \in before => <<x, z>> \in before

AheadOf(S, before, x) == {y \in S : <<y, x>> \in before}
RankIn(S, before, x) == Cardinality(AheadOf(S, before, x))

LEMMA RankInType ==
    ASSUME NEW S, IsFiniteSet(S), NEW before, IsOrder(S, before), NEW x \in S
    PROVE  /\ IsFiniteSet(AheadOf(S, before, x))
           /\ RankIn(S, before, x) \in Nat /\ RankIn(S, before, x) < Cardinality(S)
<1> DEFINE A == AheadOf(S, before, x)
<1>1. A \in SUBSET S /\ x \notin A
  BY DEF AheadOf, IsOrder
<1> HIDE DEF A
<1>2. IsFiniteSet(A) /\ Cardinality(A) <= Cardinality(S) /\ Cardinality(A) # Cardinality(S)
  BY <1>1, FS_Subset
<1>3. Cardinality(A) \in Nat /\ Cardinality(S) \in Nat
  BY <1>2, FS_CardinalityType
<1>4. Cardinality(A) < Cardinality(S)
  BY <1>2, <1>3
<1> QED BY <1>2, <1>3, <1>4 DEF RankIn, A

\* Whoever comes later has more before it.
LEMMA RankInGrows ==
    ASSUME NEW S, IsFiniteSet(S), NEW before, IsOrder(S, before),
           NEW x \in S, NEW y \in S, <<x, y>> \in before
    PROVE  RankIn(S, before, x) < RankIn(S, before, y)
<1> DEFINE A == AheadOf(S, before, x)
           B == AheadOf(S, before, y)
<1>1. A \in SUBSET B /\ x \in B /\ x \notin A
  BY DEF AheadOf, IsOrder
<1>2. IsFiniteSet(A) /\ IsFiniteSet(B)
  BY RankInType
<1> HIDE DEF A, B
<1>3. Cardinality(A) <= Cardinality(B) /\ Cardinality(A) # Cardinality(B)
  BY <1>1, <1>2, FS_Subset
<1>4. Cardinality(A) \in Nat /\ Cardinality(B) \in Nat
  BY <1>2, FS_CardinalityType
<1>5. Cardinality(A) < Cardinality(B)
  BY <1>3, <1>4
<1> QED BY <1>5 DEF RankIn, A, B

\* So the order can be read off the ranks.
LEMMA RankInOrders ==
    ASSUME NEW S, IsFiniteSet(S), NEW before, IsOrder(S, before), NEW x \in S, NEW y \in S
    PROVE  /\ RankIn(S, before, x) < RankIn(S, before, y) <=> <<x, y>> \in before
           /\ RankIn(S, before, x) = RankIn(S, before, y) => x = y
<1>1. RankIn(S, before, x) \in Nat /\ RankIn(S, before, y) \in Nat
  BY RankInType
<1>2. CASE x = y
  <2>1. <<x, y>> \notin before
    BY <1>2 DEF IsOrder
  <2>2. ~(RankIn(S, before, x) < RankIn(S, before, y))
    BY <1>1, <1>2
  <2> QED BY <1>2, <2>1, <2>2
<1>3. CASE <<x, y>> \in before
  <2>1. RankIn(S, before, x) < RankIn(S, before, y)
    BY <1>3, RankInGrows
  <2> QED BY <1>1, <1>3, <2>1
<1>4. CASE <<y, x>> \in before
  <2>1. RankIn(S, before, y) < RankIn(S, before, x)
    BY <1>4, RankInGrows
  <2>2. ~(RankIn(S, before, x) < RankIn(S, before, y))
        /\ RankIn(S, before, x) # RankIn(S, before, y)
    BY <1>1, <2>1
  <2>3. <<x, y>> \notin before
    BY <2>2, RankInGrows
  <2> QED BY <2>2, <2>3
<1> QED BY <1>2, <1>3, <1>4 DEF IsOrder

\* The ranks are the numbers from zero, each taken once.
LEMMA RanksInTaken ==
    ASSUME NEW S, IsFiniteSet(S), NEW before, IsOrder(S, before)
    PROVE  \A n \in 0..(Cardinality(S) - 1) : \E x \in S : RankIn(S, before, x) = n
<1> DEFINE N == Cardinality(S)
           T == 0..(N - 1)
           f == [x \in S |-> RankIn(S, before, x)]
<1>1. N \in Nat
  BY FS_CardinalityType
<1>2. IsFiniteSet(T) /\ Cardinality(T) = N
  BY <1>1, FS_Interval
<1>3. ASSUME NEW x \in S PROVE f[x] \in T
  BY <1>1, RankInType
<1> HIDE DEF T
<1>4. f \in [S -> T]
  BY <1>3
<1>5. ASSUME NEW x \in S, NEW y \in S, f[x] = f[y] PROVE x = y
  BY <1>5, RankInOrders
<1>6. f \in Injection(S, T)
  BY <1>4, <1>5 DEF Injection, IsInjective
<1>7. f \in Surjection(S, T)
  <2> HIDE DEF f
  <2> QED BY <1>2, <1>6, FS_Injection
<1>8. \A n \in T : \E x \in S : f[x] = n
  <2> HIDE DEF f
  <2> QED BY <1>7 DEF Surjection
<1> QED BY <1>8 DEF T, N

===============================================================================

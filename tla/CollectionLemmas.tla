--------------------------- MODULE CollectionLemmas ---------------------------
(***************************************************************************)
(* What the proofs about pure computations rest on: induction and extremes *)
(* of sets of numbers, arrangements of finite sets, sums over them.        *)
(***************************************************************************)
EXTENDS Arrangement, FiniteSetsExt, FiniteSetTheorems, FunctionTheorems, SequenceTheorems, TLAPS

----------------------------------------------------------------------------
(* Every set of naturals has a least element; hence induction, stated for  *)
(* the set of the numbers that have the property.                          *)
LEMMA LeastNatural ==
    ASSUME NEW T, T \subseteq Nat, T # {}
    PROVE  \E x \in T : \A y \in T : x <= y
  <1> DEFINE R == OpToRel(<, Nat)
  <1>1. IsWellFoundedOn(R, Nat)
    BY NatLessThanWellFounded
  <1>2. \A x, y \in Nat : y < x => <<y, x>> \in R
    BY DEF OpToRel
  <1> HIDE DEF R
  <1>3. PICK x \in T : \A y \in T : ~(<<y, x>> \in R)
    BY <1>1, WFMin
  <1>4. ASSUME NEW y \in T
        PROVE  x <= y
    <2>1. ~(y < x)
      BY <1>2, <1>3
    <2> QED
      BY <2>1
  <1> QED
    BY <1>4

LEMMA Induction ==
    ASSUME NEW T, 0 \in T, \A n \in Nat : n \in T => n + 1 \in T
    PROVE  Nat \subseteq T
  <1> SUFFICES ASSUME NEW k \in Nat, k \notin T
               PROVE  FALSE
    OBVIOUS
  <1>1. PICK x \in Nat \ T : \A y \in Nat \ T : x <= y
    BY LeastNatural
  <1>2. x # 0 /\ x - 1 \in Nat /\ x - 1 \in T
    BY <1>1
  <1> QED
    BY <1>1, <1>2

LEMMA MinFacts ==
    ASSUME NEW T, T \subseteq Nat, T # {}
    PROVE  Min(T) \in T /\ \A y \in T : Min(T) <= y
  BY LeastNatural DEF Min

LEMMA MaxFacts ==
    ASSUME NEW T, T \subseteq Nat, T # {}, NEW n \in Nat, \A x \in T : x <= n
    PROVE  Max(T) \in T /\ \A y \in T : Max(T) >= y
  <1> DEFINE U == {n - x : x \in T}
  <1>1. U \subseteq Nat /\ U # {}
    <2>1. \A x \in T : n - x \in Nat
      OBVIOUS
    <2> QED
      BY <2>1
  <1>2. PICK u \in U : \A v \in U : u <= v
    BY <1>1, LeastNatural
  <1>3. PICK x \in T : u = n - x
    BY <1>2
  <1>4. ASSUME NEW y \in T
        PROVE  x >= y
    <2>1. n - x <= n - y
      BY <1>2, <1>3
    <2> QED
      BY <2>1
  <1> QED
    BY <1>4 DEF Max

(* Of two numbers.                                                         *)
LEMMA PairFacts ==
    ASSUME NEW a \in Int, NEW b \in Int
    PROVE  /\ Max({a, b}) = IF a >= b THEN a ELSE b
           /\ Min({a, b}) = IF a <= b THEN a ELSE b
  BY DEF Max, Min

----------------------------------------------------------------------------
(* Arrangements.                                                           *)

StrictOrder(S, before) ==
    /\ \A x \in S : <<x, x>> \notin before
    /\ \A x, y, z \in S : <<x, y>> \in before /\ <<y, z>> \in before => <<x, z>> \in before
    /\ \A x, y \in S : x = y \/ <<x, y>> \in before \/ <<y, x>> \in before

(* Each element has as many before it as places before its own.            *)
LEMMA ArrangedFacts ==
    ASSUME NEW S, IsFiniteSet(S), NEW before, StrictOrder(S, before)
    PROVE  LET o == Arranged(S, before)
               n == Cardinality(S)
           IN  /\ n \in Nat /\ o \in [1 .. n -> S]
               /\ \A i, j \in 1 .. n : i < j => <<o[i], o[j]>> \in before
               /\ \A i, j \in 1 .. n : <<o[i], o[j]>> \in before => i < j
               /\ \A i, j \in 1 .. n : o[i] = o[j] => i = j
               /\ \A x \in S : \E i \in 1 .. n : o[i] = x
  <1> DEFINE n == Cardinality(S)
             below(x) == {y \in S : <<y, x>> \in before}
             rank(x) == Cardinality(below(x))
             o == Arranged(S, before)
  <1>1. n \in Nat
    BY FS_CardinalityType
  <1>2. ASSUME NEW x \in S
        PROVE  IsFiniteSet(below(x)) /\ rank(x) \in Nat /\ rank(x) < n
    <2>1. IsFiniteSet(below(x)) /\ rank(x) \in Nat
      BY FS_Subset, FS_CardinalityType
    <2>2. x \notin below(x) /\ below(x) \union {x} \subseteq S
      BY DEF StrictOrder
    <2>3. Cardinality(below(x) \union {x}) = rank(x) + 1
      BY <2>1, <2>2, FS_AddElement
    <2>4. Cardinality(below(x) \union {x}) <= n
      BY <2>2, FS_Subset
    <2> QED
      BY <1>1, <2>1, <2>3, <2>4
  <1>3. ASSUME NEW x \in S, NEW y \in S, <<y, x>> \in before
        PROVE  rank(y) < rank(x)
    <2>1. y \notin below(y) /\ below(y) \union {y} \subseteq below(x)
      BY <1>3 DEF StrictOrder
    <2>2. Cardinality(below(y) \union {y}) = rank(y) + 1
      BY <1>2, <2>1, FS_AddElement
    <2>3. Cardinality(below(y) \union {y}) <= rank(x)
      BY <1>2, <2>1, FS_Subset
    <2>4. rank(x) \in Nat /\ rank(y) \in Nat
      BY <1>2
    <2> HIDE DEF rank
    <2> QED
      BY <2>2, <2>3, <2>4
  <1> DEFINE f == [x \in S |-> rank(x)]
  <1> HIDE DEF n, rank
  <1>4. f \in [S -> 0 .. n - 1]
    <2>1. \A x \in S : rank(x) \in Nat /\ rank(x) < n
      BY <1>2 DEF n
    <2> QED
      BY <1>1, <2>1
  <1>5. ASSUME NEW x \in S, NEW y \in S, f[x] = f[y]
        PROVE  x = y
    <2>1. rank(x) = rank(y) /\ rank(x) \in Nat /\ rank(y) \in Nat
      BY <1>2, <1>5
    <2>2. ~(rank(x) < rank(y)) /\ ~(rank(y) < rank(x))
      BY <2>1
    <2> QED
      BY <1>3, <2>2 DEF StrictOrder
  <1>6. f \in Injection(S, 0 .. n - 1)
    BY <1>4, <1>5, Fun_IsInj
  <1>7. IsFiniteSet(0 .. n - 1) /\ Cardinality(0 .. n - 1) = n
    BY <1>1, FS_Interval
  <1>8. f \in Surjection(S, 0 .. n - 1)
    BY <1>6, <1>7, FS_Injection DEF n
  <1>9. \A k \in 0 .. n - 1 : \E x \in S : rank(x) = k
    <2>1. \A k \in 0 .. n - 1 : \E x \in S : f[x] = k
      <3> HIDE DEF f
      <3> QED
        BY <1>8, Fun_SurjectionProperties
    <2> QED
      BY <2>1
  <1>10. \A k \in 1 .. n : o[k] = CHOOSE x \in S : rank(x) = k - 1
    BY DEF Arranged, n, rank
  <1>11. DOMAIN o = 1 .. n
    BY DEF Arranged, n
  <1>12. ASSUME NEW k \in 1 .. n
         PROVE  o[k] \in S /\ rank(o[k]) = k - 1
    <2>1. k - 1 \in 0 .. n - 1
      BY <1>1
    <2>2. \E x \in S : rank(x) = k - 1
      BY <1>9, <2>1
    <2> QED
      BY <1>10, <2>2
  <1>13. o = [k \in 1 .. n |-> CHOOSE x \in S : rank(x) = k - 1]
    BY DEF Arranged, n, rank
  <1>14. o \in [1 .. n -> S]
    BY <1>10, <1>12, <1>13
  <1> HIDE DEF o, f
  <1>15. ASSUME NEW i \in 1 .. n, NEW j \in 1 .. n, <<o[i], o[j]>> \in before
         PROVE  i < j
    <2>1. rank(o[i]) < rank(o[j])
      BY <1>3, <1>12, <1>15
    <2> QED
      BY <1>12, <2>1
  <1>16. \A i, j \in 1 .. n : o[i] = o[j] => i = j
    BY <1>12
  <1>17. ASSUME NEW i \in 1 .. n, NEW j \in 1 .. n, i < j
         PROVE  <<o[i], o[j]>> \in before
    <2>1. o[i] # o[j] /\ ~(j < i)
      BY <1>16, <1>17
    <2> QED
      BY <1>12, <1>15, <2>1 DEF StrictOrder
  <1>18. ASSUME NEW x \in S
         PROVE  \E i \in 1 .. n : o[i] = x
    <2>1. rank(x) + 1 \in 1 .. n /\ rank(x) \in Nat
      BY <1>1, <1>2 DEF rank, n
    <2>2. rank(o[rank(x) + 1]) = rank(x) /\ o[rank(x) + 1] \in S
      BY <1>12, <2>1
    <2> QED
      BY <1>5, <2>1, <2>2 DEF f
  <1> QED
    BY <1>1, <1>14, <1>15, <1>16, <1>17, <1>18 DEF n, o

LEMMA RisingFacts ==
    ASSUME NEW S, S \subseteq Int, IsFiniteSet(S)
    PROVE  LET o == Rising(S)
               n == Cardinality(S)
           IN  /\ n \in Nat /\ o \in [1 .. n -> S] /\ o \in Seq(S) /\ Len(o) = n
               /\ \A i, j \in 1 .. n : i < j => o[i] < o[j]
               /\ \A x \in S : \E i \in 1 .. n : o[i] = x
  <1> DEFINE before == {p \in S \X S : p[1] < p[2]}
             n == Cardinality(S)
             o == Arranged(S, before)
  <1>1. \A x, y \in S : <<x, y>> \in before <=> x < y
    OBVIOUS
  <1> HIDE DEF before
  <1>2. StrictOrder(S, before)
    BY <1>1 DEF StrictOrder
  <1>3. /\ n \in Nat /\ o \in [1 .. n -> S]
        /\ \A i, j \in 1 .. n : i < j => <<o[i], o[j]>> \in before
        /\ \A x \in S : \E i \in 1 .. n : o[i] = x
    BY <1>2, ArrangedFacts
  <1> HIDE DEF o, n
  <1>4. o \in Seq(S) /\ Len(o) = n
    BY <1>3, SeqDef
  <1>5. \A i, j \in 1 .. n : i < j => o[i] < o[j]
    BY <1>1, <1>3
  <1>6. Rising(S) = o
    BY DEF Rising, o, before
  <1> QED
    BY <1>3, <1>4, <1>5, <1>6 DEF n

(* What is picked from a list comes from it, in its order, and is all that *)
(* stands at the places picked.                                            *)
LEMMA PickedFacts ==
    ASSUME NEW T, NEW list \in Seq(T), NEW places \in SUBSET DOMAIN list
    PROVE  LET s == Picked(list, places)
               o == Rising(places)
           IN  /\ s \in Seq(T) /\ Len(s) = Cardinality(places) /\ Len(s) <= Len(list) /\ Len(s) = Len(o)
               /\ o \in [1 .. Len(s) -> places]
               /\ \A i \in 1 .. Len(s) : s[i] = list[o[i]]
               /\ \A i, j \in 1 .. Len(s) : i < j => o[i] < o[j]
               /\ \A x \in places : \E i \in 1 .. Len(s) : o[i] = x
  <1> DEFINE o == Rising(places)
             s == Picked(list, places)
             n == Cardinality(places)
  <1>1. DOMAIN list = 1 .. Len(list) /\ Len(list) \in Nat /\ \A i \in DOMAIN list : list[i] \in T
    BY LenProperties
  <1>2. IsFiniteSet(places) /\ n <= Len(list)
    <2> DEFINE m == Len(list)
    <2>1. m \in Nat /\ places \subseteq 1 .. m
      BY <1>1
    <2> HIDE DEF m
    <2>2. IsFiniteSet(1 .. m) /\ Cardinality(1 .. m) = m
      BY <2>1, FS_Interval
    <2>3. IsFiniteSet(places) /\ n <= m
      BY <2>1, <2>2, FS_Subset
    <2> QED
      BY <2>3 DEF m
  <1>3. /\ n \in Nat /\ o \in [1 .. n -> places] /\ Len(o) = n
        /\ \A i, j \in 1 .. n : i < j => o[i] < o[j]
        /\ \A x \in places : \E i \in 1 .. n : o[i] = x
    <2>1. places \subseteq Int
      BY <1>1
    <2> QED
      BY <1>2, <2>1, RisingFacts
  <1>4. s = [k \in DOMAIN o |-> list[o[k]]]
    BY DEF Picked
  <1> HIDE DEF s, o, n
  <1>5. s \in [1 .. n -> T] /\ \A i \in 1 .. n : s[i] = list[o[i]]
    BY <1>1, <1>3, <1>4
  <1>6. s \in Seq(T) /\ Len(s) = n
    BY <1>3, <1>5, SeqDef
  <1> QED
    BY <1>2, <1>3, <1>5, <1>6 DEF s, o, n
----------------------------------------------------------------------------
(* Sums.  SumFunctionOnSet adds the values in the order in which CHOOSE    *)
(* takes the indices; for a finite set any other order gives the same.     *)

FirstOf(s) == CHOOSE x \in s : TRUE

IsSumTable(g, f, S) ==
    g = [s \in SUBSET S |-> IF s = {} THEN 0 ELSE f[FirstOf(s)] + g[s \ {FirstOf(s)}]]

LEMMA SumByTable ==
    ASSUME NEW f, NEW S
    PROVE  SumFunctionOnSet(f, S) = (CHOOSE g : IsSumTable(g, f, S))[S]
  BY DEF SumFunctionOnSet, FoldFunctionOnSet, MapThenFoldSet, IsSumTable, FirstOf

LEMMA FirstFacts ==
    ASSUME NEW s, IsFiniteSet(s), s # {}
    PROVE  /\ FirstOf(s) \in s /\ IsFiniteSet(s \ {FirstOf(s)})
           /\ Cardinality(s) \in Nat /\ Cardinality(s) > 0
           /\ Cardinality(s \ {FirstOf(s)}) = Cardinality(s) - 1
  <1>1. FirstOf(s) \in s
    BY DEF FirstOf
  <1>2. Cardinality(s) \in Nat /\ Cardinality(s) # 0
    BY FS_CardinalityType, FS_EmptySet
  <1> QED
    BY <1>1, <1>2, FS_RemoveElement

(* A table exists: it is filled in by the size of the sets.                *)
LEMMA SumTableExists ==
    ASSUME NEW f, NEW S, IsFiniteSet(S)
    PROVE  \E g : IsSumTable(g, f, S)
  <1> DEFINE Small(n) == {s \in SUBSET S : Cardinality(s) <= n}
             Next(g, s) == IF s = {} THEN 0 ELSE f[FirstOf(s)] + g[s \ {FirstOf(s)}]
             T == {n \in Nat : \E g : g = [s \in Small(n) |-> Next(g, s)]}
  <1>1. \A s \in SUBSET S : IsFiniteSet(s) /\ Cardinality(s) \in Nat /\ Cardinality(s) <= Cardinality(S)
    BY FS_Subset, FS_CardinalityType
  <1>2. \A s \in SUBSET S : s # {} =>
           /\ FirstOf(s) \in s /\ s \ {FirstOf(s)} \in SUBSET S
           /\ Cardinality(s \ {FirstOf(s)}) = Cardinality(s) - 1
    BY <1>1, FirstFacts
  <1>3. 0 \in T
    <2> DEFINE g == [s \in Small(0) |-> 0]
    <2>1. \A s \in Small(0) : s = {}
      BY <1>1, FS_EmptySet
    <2>2. g = [s \in Small(0) |-> Next(g, s)]
      BY <2>1
    <2> QED
      BY <2>2
  <1>4. ASSUME NEW n \in Nat, n \in T
        PROVE  n + 1 \in T
    <2>1. PICK g : g = [s \in Small(n) |-> Next(g, s)]
      BY <1>4
    <2> DEFINE h == [s \in Small(n + 1) |-> IF s \in Small(n) THEN g[s] ELSE Next(g, s)]
    <2>2. \A s \in Small(n + 1) : s # {} => s \ {FirstOf(s)} \in Small(n) /\ s \ {FirstOf(s)} \in Small(n + 1)
      BY <1>1, <1>2
    <2>3. \A s \in Small(n) : g[s] = Next(g, s)
      <3> HIDE DEF Small, Next
      <3> QED
        BY <2>1
    <2> HIDE DEF Small
    <2>4. ASSUME NEW s \in Small(n + 1)
          PROVE  h[s] = Next(h, s)
      <3>1. h[s] = Next(g, s)
        BY <2>3
      <3>2. s # {} => h[s \ {FirstOf(s)}] = g[s \ {FirstOf(s)}]
        BY <2>2
      <3> QED
        BY <3>1, <3>2
    <2>5. h = [s \in Small(n + 1) |-> Next(h, s)]
      <3> HIDE DEF Next
      <3> QED
        BY <2>4
    <2> HIDE DEF h, Next
    <2>6. \E k : k = [s \in Small(n + 1) |-> Next(k, s)]
      BY <2>5
    <2> QED
      BY <2>6
  <1> HIDE DEF T
  <1>5. Cardinality(S) \in T
    BY <1>1, <1>3, <1>4, Induction
  <1>6. Small(Cardinality(S)) = SUBSET S
    BY <1>1
  <1> QED
    <2> HIDE DEF Small
    <2>1. \E g : g = [s \in SUBSET S |-> Next(g, s)]
      BY <1>5, <1>6 DEF T
    <2> QED
      BY <2>1 DEF IsSumTable

(* Tables agree where they overlap.                                        *)
LEMMA SumTablesAgree ==
    ASSUME NEW f, NEW S, NEW R, R \subseteq S, IsFiniteSet(S),
           NEW g, IsSumTable(g, f, S), NEW h, IsSumTable(h, f, R)
    PROVE  \A s \in SUBSET R : g[s] = h[s]
  <1> DEFINE T == {n \in Nat : \A s \in SUBSET R : Cardinality(s) = n => g[s] = h[s]}
  <1>1. \A s \in SUBSET S : g[s] = IF s = {} THEN 0 ELSE f[FirstOf(s)] + g[s \ {FirstOf(s)}]
    BY DEF IsSumTable
  <1>2. \A s \in SUBSET R : h[s] = IF s = {} THEN 0 ELSE f[FirstOf(s)] + h[s \ {FirstOf(s)}]
    BY DEF IsSumTable
  <1>3. \A s \in SUBSET R : s \in SUBSET S /\ IsFiniteSet(s) /\ Cardinality(s) \in Nat
    BY FS_Subset, FS_CardinalityType
  <1>4. 0 \in T
    BY <1>1, <1>2, <1>3, FS_EmptySet
  <1>5. ASSUME NEW n \in Nat, n \in T
        PROVE  n + 1 \in T
    <2> SUFFICES ASSUME NEW s \in SUBSET R, Cardinality(s) = n + 1
                 PROVE  g[s] = h[s]
      OBVIOUS
    <2>1. s # {}
      BY FS_EmptySet
    <2>2. s \ {FirstOf(s)} \in SUBSET R /\ Cardinality(s \ {FirstOf(s)}) = n
      BY <1>3, <2>1, FirstFacts
    <2>3. g[s \ {FirstOf(s)}] = h[s \ {FirstOf(s)}]
      BY <1>5, <2>2
    <2> QED
      BY <1>1, <1>2, <1>3, <2>1, <2>3
  <1> HIDE DEF T
  <1>6. Nat \subseteq T
    BY <1>4, <1>5, Induction
  <1> QED
    BY <1>3, <1>6 DEF T

LEMMA SumFirst ==
    ASSUME NEW f, NEW S, IsFiniteSet(S)
    PROVE  /\ S = {} => SumFunctionOnSet(f, S) = 0
           /\ S # {} => SumFunctionOnSet(f, S) = f[FirstOf(S)] + SumFunctionOnSet(f, S \ {FirstOf(S)})
  <1> DEFINE table(R) == CHOOSE g : IsSumTable(g, f, R)
  <1>1. \A R \in SUBSET S : IsFiniteSet(R)
    BY FS_Subset
  <1>2. \A R \in SUBSET S : IsSumTable(table(R), f, R)
    BY <1>1, SumTableExists
  <1>3. \A R \in SUBSET S : SumFunctionOnSet(f, R) = table(R)[R]
    BY SumByTable
  <1> HIDE DEF table
  <1>4. \A R \in SUBSET S : table(S)[R] = table(R)[R]
    BY <1>2, SumTablesAgree
  <1>5. table(S)[S] = IF S = {} THEN 0 ELSE f[FirstOf(S)] + table(S)[S \ {FirstOf(S)}]
    BY <1>2 DEF IsSumTable
  <1> QED
    BY <1>3, <1>4, <1>5

LEMMA SumType ==
    ASSUME NEW S, IsFiniteSet(S), NEW f, \A x \in S : f[x] \in Int
    PROVE  SumFunctionOnSet(f, S) \in Int
  <1> DEFINE T == {n \in Nat : \A R \in SUBSET S : Cardinality(R) = n => SumFunctionOnSet(f, R) \in Int}
  <1>1. \A R \in SUBSET S : IsFiniteSet(R) /\ Cardinality(R) \in Nat
    BY FS_Subset, FS_CardinalityType
  <1>2. 0 \in T
    <2>1. SumFunctionOnSet(f, {}) = 0
      BY SumFirst, FS_EmptySet
    <2>2. \A R \in SUBSET S : Cardinality(R) = 0 => R = {}
      BY <1>1, FS_EmptySet
    <2> QED
      BY <2>1, <2>2
  <1>3. ASSUME NEW n \in Nat, n \in T
        PROVE  n + 1 \in T
    <2> SUFFICES ASSUME NEW R \in SUBSET S, Cardinality(R) = n + 1
                 PROVE  SumFunctionOnSet(f, R) \in Int
      OBVIOUS
    <2>1. R # {} /\ IsFiniteSet(R)
      BY <1>1, FS_EmptySet
    <2>2. FirstOf(R) \in R /\ R \ {FirstOf(R)} \in SUBSET S /\ Cardinality(R \ {FirstOf(R)}) = n
      BY <1>1, <2>1, FirstFacts
    <2>3. SumFunctionOnSet(f, R \ {FirstOf(R)}) \in Int /\ f[FirstOf(R)] \in Int
      BY <1>3, <2>2
    <2> QED
      BY <2>1, <2>3, SumFirst
  <1> HIDE DEF T
  <1>4. Nat \subseteq T
    BY <1>2, <1>3, Induction
  <1> QED
    BY <1>1, <1>4 DEF T

LEMMA SumStep ==
    ASSUME NEW S, IsFiniteSet(S), NEW f, \A x \in S : f[x] \in Int, NEW x \in S
    PROVE  SumFunctionOnSet(f, S) = f[x] + SumFunctionOnSet(f, S \ {x})
  <1> DEFINE Sum(R) == SumFunctionOnSet(f, R)
             T == {n \in Nat : \A R \in SUBSET S : Cardinality(R) = n => \A y \in R : Sum(R) = f[y] + Sum(R \ {y})}
  <1>1. \A R \in SUBSET S : IsFiniteSet(R) /\ Cardinality(R) \in Nat
    BY FS_Subset, FS_CardinalityType
  <1>2. 0 \in T
    BY <1>1, FS_EmptySet
  <1>3. \A R \in SUBSET S : Sum(R) \in Int
    BY <1>1, SumType
  <1>4. \A R \in SUBSET S : R # {} => FirstOf(R) \in R /\ Sum(R) = f[FirstOf(R)] + Sum(R \ {FirstOf(R)})
    BY <1>1, SumFirst, FirstFacts
  <1> HIDE DEF Sum
  <1>5. ASSUME NEW n \in Nat, n \in T
        PROVE  n + 1 \in T
    <2> SUFFICES ASSUME NEW R \in SUBSET S, Cardinality(R) = n + 1, NEW y \in R
                 PROVE  Sum(R) = f[y] + Sum(R \ {y})
      OBVIOUS
    <2> DEFINE c == FirstOf(R)
    <2>1. c \in R /\ Sum(R) = f[c] + Sum(R \ {c})
      BY <1>4
    <2> HIDE DEF c
    <2>2. CASE y = c
      BY <2>1, <2>2
    <2>3. CASE y # c
      <3>1. /\ R \ {c} \in SUBSET S /\ R \ {y} \in SUBSET S
            /\ Cardinality(R \ {c}) = n /\ Cardinality(R \ {y}) = n
        <4>1. IsFiniteSet(R) /\ Cardinality(R) = n + 1 /\ c \in R /\ y \in R
          BY <1>1, <2>1
        <4>2. Cardinality(R \ {c}) = Cardinality(R) - 1 /\ Cardinality(R \ {y}) = Cardinality(R) - 1
          BY <4>1, FS_RemoveElement
        <4> QED
          BY <4>1, <4>2
      <3>2. y \in R \ {c} /\ c \in R \ {y}
        BY <2>1, <2>3
      <3>3. Sum(R \ {c}) = f[y] + Sum((R \ {c}) \ {y}) /\ Sum(R \ {y}) = f[c] + Sum((R \ {y}) \ {c})
        BY <1>5, <3>1, <3>2
      <3>4. (R \ {c}) \ {y} = (R \ {y}) \ {c} /\ (R \ {c}) \ {y} \in SUBSET S
        OBVIOUS
      <3>5. f[c] \in Int /\ f[y] \in Int /\ Sum((R \ {c}) \ {y}) \in Int
        BY <1>3, <2>1, <3>4
      <3> DEFINE u == Sum((R \ {c}) \ {y})
      <3>6. Sum(R \ {c}) = f[y] + u /\ Sum(R \ {y}) = f[c] + u /\ u \in Int
        BY <3>3, <3>4, <3>5
      <3> HIDE DEF u
      <3> QED
        BY <2>1, <3>5, <3>6
    <2> QED
      BY <2>2, <2>3
  <1> HIDE DEF T
  <1>6. Nat \subseteq T
    BY <1>2, <1>5, Induction
  <1>7. S \in SUBSET S /\ Cardinality(S) \in T
    BY <1>1, <1>6
  <1> QED
    BY <1>7 DEF T, Sum

(* Sums grow with what is added.                                           *)
LEMMA SumGrows ==
    ASSUME NEW S, IsFiniteSet(S), NEW f, NEW g,
           \A x \in S : f[x] \in Int /\ g[x] \in Int /\ f[x] <= g[x]
    PROVE  SumFunctionOnSet(f, S) <= SumFunctionOnSet(g, S)
  <1> DEFINE F(R) == SumFunctionOnSet(f, R)
             G(R) == SumFunctionOnSet(g, R)
             T == {n \in Nat : \A R \in SUBSET S : Cardinality(R) = n => F(R) <= G(R)}
  <1>1. \A R \in SUBSET S : IsFiniteSet(R) /\ Cardinality(R) \in Nat
    BY FS_Subset, FS_CardinalityType
  <1>2. 0 \in T
    <2>1. F({}) = 0 /\ G({}) = 0
      BY SumFirst, FS_EmptySet
    <2>2. \A R \in SUBSET S : Cardinality(R) = 0 => R = {}
      BY <1>1, FS_EmptySet
    <2> HIDE DEF F, G
    <2> QED
      BY <2>1, <2>2
  <1>3. \A R \in SUBSET S : F(R) \in Int /\ G(R) \in Int
    BY <1>1, SumType
  <1>4. \A R \in SUBSET S : \A x \in R : F(R) = f[x] + F(R \ {x}) /\ G(R) = g[x] + G(R \ {x})
    BY <1>1, SumStep
  <1> HIDE DEF F, G
  <1>5. ASSUME NEW n \in Nat, n \in T
        PROVE  n + 1 \in T
    <2> SUFFICES ASSUME NEW R \in SUBSET S, Cardinality(R) = n + 1
                 PROVE  F(R) <= G(R)
      OBVIOUS
    <2>1. PICK x \in R : TRUE
      BY FS_EmptySet
    <2>2. R \ {x} \in SUBSET S /\ Cardinality(R \ {x}) = n
      BY <1>1, FS_RemoveElement
    <2>3. F(R \ {x}) <= G(R \ {x}) /\ F(R \ {x}) \in Int /\ G(R \ {x}) \in Int
      BY <1>3, <1>5, <2>2
    <2>4. F(R) = f[x] + F(R \ {x}) /\ G(R) = g[x] + G(R \ {x}) /\ f[x] \in Int /\ g[x] \in Int /\ f[x] <= g[x]
      BY <1>4
    <2> QED
      BY <2>3, <2>4
  <1> HIDE DEF T
  <1>6. Nat \subseteq T
    BY <1>2, <1>5, Induction
  <1> QED
    BY <1>1, <1>6 DEF T, F, G

LEMMA SumGrowsStrictly ==
    ASSUME NEW S, IsFiniteSet(S), NEW f, NEW g,
           \A x \in S : f[x] \in Int /\ g[x] \in Int /\ f[x] <= g[x],
           NEW y \in S, f[y] < g[y]
    PROVE  SumFunctionOnSet(f, S) < SumFunctionOnSet(g, S)
  <1>1. IsFiniteSet(S \ {y})
    BY FS_Subset
  <1>2. /\ SumFunctionOnSet(f, S) = f[y] + SumFunctionOnSet(f, S \ {y})
        /\ SumFunctionOnSet(g, S) = g[y] + SumFunctionOnSet(g, S \ {y})
    BY SumStep
  <1>3. /\ SumFunctionOnSet(f, S \ {y}) \in Int /\ SumFunctionOnSet(g, S \ {y}) \in Int
        /\ SumFunctionOnSet(f, S \ {y}) <= SumFunctionOnSet(g, S \ {y})
    BY <1>1, SumType, SumGrows
  <1> QED
    BY <1>2, <1>3

LEMMA SumOfZeros ==
    ASSUME NEW S, IsFiniteSet(S), NEW f, \A x \in S : f[x] = 0
    PROVE  SumFunctionOnSet(f, S) = 0
  <1> DEFINE F(R) == SumFunctionOnSet(f, R)
             T == {n \in Nat : \A R \in SUBSET S : Cardinality(R) = n => F(R) = 0}
  <1>1. \A R \in SUBSET S : IsFiniteSet(R) /\ Cardinality(R) \in Nat
    BY FS_Subset, FS_CardinalityType
  <1>2. 0 \in T
    <2>1. F({}) = 0
      BY SumFirst, FS_EmptySet
    <2>2. \A R \in SUBSET S : Cardinality(R) = 0 => R = {}
      BY <1>1, FS_EmptySet
    <2> HIDE DEF F
    <2> QED
      BY <2>1, <2>2
  <1>3. \A R \in SUBSET S : \A x \in R : F(R) = f[x] + F(R \ {x})
    BY <1>1, SumStep
  <1> HIDE DEF F
  <1>4. ASSUME NEW n \in Nat, n \in T
        PROVE  n + 1 \in T
    <2> SUFFICES ASSUME NEW R \in SUBSET S, Cardinality(R) = n + 1
                 PROVE  F(R) = 0
      OBVIOUS
    <2>1. PICK x \in R : TRUE
      BY FS_EmptySet
    <2>2. R \ {x} \in SUBSET S /\ Cardinality(R \ {x}) = n
      <3>1. IsFiniteSet(R) /\ x \in R
        BY <1>1
      <3>2. Cardinality(R \ {x}) = Cardinality(R) - 1
        BY <3>1, FS_RemoveElement
      <3> QED
        BY <3>2
    <2>3. F(R \ {x}) = 0
      BY <1>4, <2>2
    <2> QED
      BY <1>3, <2>3
  <1> HIDE DEF T
  <1>5. Nat \subseteq T
    BY <1>2, <1>4, Induction
  <1> QED
    BY <1>1, <1>5 DEF T, F

(* Only one index adds anything.                                           *)
LEMMA SumOfOne ==
    ASSUME NEW S, IsFiniteSet(S), NEW f, NEW y \in S, f[y] \in Int, \A x \in S \ {y} : f[x] = 0
    PROVE  SumFunctionOnSet(f, S) = f[y]
  <1>1. IsFiniteSet(S \ {y}) /\ \A x \in S : f[x] \in Int
    BY FS_Subset
  <1>2. SumFunctionOnSet(f, S) = f[y] + SumFunctionOnSet(f, S \ {y})
    BY <1>1, SumStep
  <1>3. SumFunctionOnSet(f, S \ {y}) = 0
    BY <1>1, SumOfZeros
  <1> QED
    BY <1>2, <1>3

----------------------------------------------------------------------------
(* Algebra of sums.                                                        *)

(* What holds of the empty set and passes from a set to the set with one   *)
(* more element holds of every finite set.                                 *)
LEMMA SetInduction ==
    ASSUME NEW S, IsFiniteSet(S), NEW G, {} \in G,
           \A R \in SUBSET S : \A x \in R : R \ {x} \in G => R \in G
    PROVE  S \in G
  <1> DEFINE T == {n \in Nat : \A R \in SUBSET S : Cardinality(R) = n => R \in G}
  <1>1. \A R \in SUBSET S : IsFiniteSet(R) /\ Cardinality(R) \in Nat
    BY FS_Subset, FS_CardinalityType
  <1>2. 0 \in T
    BY <1>1, FS_EmptySet
  <1>3. ASSUME NEW n \in Nat, n \in T
        PROVE  n + 1 \in T
    <2> SUFFICES ASSUME NEW R \in SUBSET S, Cardinality(R) = n + 1
                 PROVE  R \in G
      OBVIOUS
    <2>0. R # {}
      <3>1. IsFiniteSet(R) /\ Cardinality(R) # 0
        BY <1>1
      <3> QED
        BY <3>1, FS_EmptySet
    <2>1. PICK x \in R : TRUE
      BY <2>0
    <2>2. IsFiniteSet(R) /\ x \in R
      BY <1>1
    <2>3. Cardinality(R \ {x}) = Cardinality(R) - 1
      BY <2>2, FS_RemoveElement
    <2>4. R \ {x} \in SUBSET S /\ Cardinality(R \ {x}) = n
      BY <2>3
    <2> QED
      BY <1>3, <2>2, <2>4
  <1> HIDE DEF T
  <1>4. Nat \subseteq T
    BY <1>2, <1>3, Induction
  <1> QED
    BY <1>1, <1>4 DEF T

LEMMA SumEmpty ==
    ASSUME NEW f
    PROVE  SumFunctionOnSet(f, {}) = 0
  BY SumFirst, FS_EmptySet

LEMMA SumParts ==
    ASSUME NEW S, IsFiniteSet(S), NEW f, \A x \in S : f[x] \in Int, NEW R \in SUBSET S
    PROVE  /\ IsFiniteSet(R) /\ SumFunctionOnSet(f, R) \in Int
           /\ \A x \in R : SumFunctionOnSet(f, R) = f[x] + SumFunctionOnSet(f, R \ {x})
                          /\ SumFunctionOnSet(f, R \ {x}) \in Int
  <1>1. IsFiniteSet(R) /\ \A x \in R : f[x] \in Int
    BY FS_Subset
  <1>2. SumFunctionOnSet(f, R) \in Int
    BY <1>1, SumType
  <1>3. ASSUME NEW x \in R
        PROVE  SumFunctionOnSet(f, R) = f[x] + SumFunctionOnSet(f, R \ {x}) /\ SumFunctionOnSet(f, R \ {x}) \in Int
    <2>1. IsFiniteSet(R \ {x}) /\ \A y \in R \ {x} : f[y] \in Int
      BY <1>1, FS_Subset
    <2> QED
      BY <1>1, <2>1, SumStep, SumType
  <1> QED
    BY <1>1, <1>2, <1>3

LEMMA SumEqual ==
    ASSUME NEW S, IsFiniteSet(S), NEW f, NEW g, \A x \in S : f[x] \in Int /\ g[x] = f[x]
    PROVE  SumFunctionOnSet(f, S) = SumFunctionOnSet(g, S)
  <1>1. SumFunctionOnSet(f, S) \in Int /\ SumFunctionOnSet(g, S) \in Int
    BY SumType
  <1>2. SumFunctionOnSet(f, S) <= SumFunctionOnSet(g, S) /\ SumFunctionOnSet(g, S) <= SumFunctionOnSet(f, S)
    BY SumGrows
  <1> QED
    BY <1>1, <1>2

LEMMA SumAdds ==
    ASSUME NEW S, IsFiniteSet(S), NEW f, NEW g, NEW h,
           \A x \in S : f[x] \in Int /\ g[x] \in Int /\ h[x] = f[x] + g[x]
    PROVE  SumFunctionOnSet(h, S) = SumFunctionOnSet(f, S) + SumFunctionOnSet(g, S)
  <1> DEFINE F(R) == SumFunctionOnSet(f, R)
             L(R) == SumFunctionOnSet(g, R)
             H(R) == SumFunctionOnSet(h, R)
             G == {R \in SUBSET S : H(R) = F(R) + L(R)}
  <1>1. \A x \in S : h[x] \in Int
    OBVIOUS
  <1>2. \A R \in SUBSET S : \A x \in R :
            /\ F(R) = f[x] + F(R \ {x}) /\ F(R \ {x}) \in Int
            /\ L(R) = g[x] + L(R \ {x}) /\ L(R \ {x}) \in Int
            /\ H(R) = h[x] + H(R \ {x}) /\ H(R \ {x}) \in Int
    <2>1. \A R \in SUBSET S : \A x \in R : F(R) = f[x] + F(R \ {x}) /\ F(R \ {x}) \in Int
      BY SumParts
    <2>2. \A R \in SUBSET S : \A x \in R : L(R) = g[x] + L(R \ {x}) /\ L(R \ {x}) \in Int
      BY SumParts
    <2>3. \A R \in SUBSET S : \A x \in R : H(R) = h[x] + H(R \ {x}) /\ H(R \ {x}) \in Int
      BY <1>1, SumParts
    <2> HIDE DEF F, L, H
    <2> QED
      BY <2>1, <2>2, <2>3
  <1>3. F({}) = 0 /\ L({}) = 0 /\ H({}) = 0
    BY SumEmpty
  <1> HIDE DEF F, L, H
  <1>4. {} \in G
    BY <1>3
  <1>5. ASSUME NEW R \in SUBSET S, NEW x \in R, R \ {x} \in G
        PROVE  R \in G
    <2>1. H(R \ {x}) = F(R \ {x}) + L(R \ {x})
      BY <1>5
    <2>2. f[x] \in Int /\ g[x] \in Int /\ h[x] = f[x] + g[x]
      OBVIOUS
    <2> QED
      BY <1>2, <2>1, <2>2
  <1> HIDE DEF G
  <1>6. S \in G
    BY <1>4, <1>5, SetInduction
  <1> QED
    BY <1>6 DEF G, F, L, H

LEMMA SumScales ==
    ASSUME NEW S, IsFiniteSet(S), NEW f, NEW h, NEW c \in Int,
           \A x \in S : f[x] \in Int /\ h[x] = c * f[x]
    PROVE  SumFunctionOnSet(h, S) = c * SumFunctionOnSet(f, S)
  <1> DEFINE F(R) == SumFunctionOnSet(f, R)
             H(R) == SumFunctionOnSet(h, R)
             G == {R \in SUBSET S : H(R) = c * F(R)}
  <1>1. \A x \in S : h[x] \in Int
    OBVIOUS
  <1>2. \A R \in SUBSET S : \A x \in R :
            /\ F(R) = f[x] + F(R \ {x}) /\ F(R \ {x}) \in Int
            /\ H(R) = h[x] + H(R \ {x}) /\ H(R \ {x}) \in Int
    <2>1. \A R \in SUBSET S : \A x \in R : F(R) = f[x] + F(R \ {x}) /\ F(R \ {x}) \in Int
      BY SumParts
    <2>2. \A R \in SUBSET S : \A x \in R : H(R) = h[x] + H(R \ {x}) /\ H(R \ {x}) \in Int
      BY <1>1, SumParts
    <2> HIDE DEF F, H
    <2> QED
      BY <2>1, <2>2
  <1>3. F({}) = 0 /\ H({}) = 0
    BY SumEmpty
  <1> HIDE DEF F, H
  <1>4. {} \in G
    BY <1>3
  <1>5. ASSUME NEW R \in SUBSET S, NEW x \in R, R \ {x} \in G
        PROVE  R \in G
    <2>1. H(R \ {x}) = c * F(R \ {x})
      BY <1>5
    <2>2. f[x] \in Int /\ h[x] = c * f[x] /\ F(R \ {x}) \in Int
      BY <1>2
    <2>3. \A a, b \in Int : c * (a + b) = c * a + c * b
      OBVIOUS
    <2>4. H(R) = c * F(R)
      BY <1>2, <2>1, <2>2, <2>3
    <2> QED
      BY <2>4
  <1> HIDE DEF G
  <1>6. S \in G
    BY <1>4, <1>5, SetInduction
  <1> QED
    BY <1>6 DEF G, F, H

(* A sum over a part is a sum of zeros elsewhere.                          *)
LEMMA SumOverPart ==
    ASSUME NEW S, IsFiniteSet(S), NEW P \in SUBSET S, NEW f, NEW h,
           \A x \in P : f[x] \in Int /\ h[x] = f[x], \A x \in S \ P : h[x] = 0
    PROVE  SumFunctionOnSet(f, P) = SumFunctionOnSet(h, S)
  <1> DEFINE F(R) == SumFunctionOnSet(f, R)
             H(R) == SumFunctionOnSet(h, R)
             G == {R \in SUBSET S : H(R) = F(R \cap P)}
  <1>1. /\ \A x \in S : h[x] \in Int
        /\ IsFiniteSet(P) /\ \A x \in P : f[x] \in Int
    BY FS_Subset
  <1>2. \A R \in SUBSET S : \A x \in R : H(R) = h[x] + H(R \ {x}) /\ H(R \ {x}) \in Int
    BY <1>1, SumParts
  <1>3. \A R \in SUBSET P : \A x \in R : F(R) = f[x] + F(R \ {x}) /\ F(R \ {x}) \in Int
    BY ONLY <1>1, SumParts
  <1>4. F({}) = 0 /\ H({}) = 0
    BY SumEmpty
  <1> HIDE DEF F, H
  <1>5. {} \in G
    <2>1. {} \cap P = {}
      OBVIOUS
    <2> QED
      BY <1>4, <2>1
  <1>6. ASSUME NEW R \in SUBSET S, NEW x \in R, R \ {x} \in G
        PROVE  R \in G
    <2>1. H(R \ {x}) = F((R \ {x}) \cap P) /\ H(R) = h[x] + H(R \ {x}) /\ H(R \ {x}) \in Int
      BY <1>2, <1>6
    <2>2. CASE x \in P
      <3>1. (R \ {x}) \cap P = (R \cap P) \ {x} /\ R \cap P \in SUBSET P /\ x \in R \cap P
        BY <2>2
      <3>2. F(R \cap P) = f[x] + F((R \cap P) \ {x})
        BY <1>3, <3>1
      <3>3. h[x] = f[x]
        BY <2>2
      <3>4. H(R) = F(R \cap P)
        BY <2>1, <3>1, <3>2, <3>3
      <3> QED
        BY <3>4
    <2>3. CASE x \notin P
      <3>1. (R \ {x}) \cap P = R \cap P
        BY <2>3
      <3>2. h[x] = 0
        BY <2>3
      <3>3. H(R) = F(R \cap P)
        <4>1. H(R) = H(R \ {x})
          BY <2>1, <3>2
        <4> QED
          BY <2>1, <3>1, <4>1, Zenon
      <3> QED
        BY <3>3
    <2> QED
      BY <2>2, <2>3
  <1> HIDE DEF G
  <1>7. S \in G
    BY <1>5, <1>6, SetInduction
  <1>8. S \cap P = P
    OBVIOUS
  <1> QED
    BY <1>7, <1>8 DEF G, F, H

LEMMA SumOfConstant ==
    ASSUME NEW S, IsFiniteSet(S), NEW f, NEW c \in Int, \A x \in S : f[x] = c
    PROVE  SumFunctionOnSet(f, S) = c * Cardinality(S)
  <1> DEFINE F(R) == SumFunctionOnSet(f, R)
             G == {R \in SUBSET S : F(R) = c * Cardinality(R)}
  <1>1. \A R \in SUBSET S : \A x \in R : F(R) = f[x] + F(R \ {x}) /\ F(R \ {x}) \in Int
    <2>1. \A x \in S : f[x] \in Int
      OBVIOUS
    <2> QED
      BY <2>1, SumParts
  <1>2. F({}) = 0
    BY SumEmpty
  <1> HIDE DEF F
  <1>3. {} \in G
    BY <1>2, FS_EmptySet
  <1>4. ASSUME NEW R \in SUBSET S, NEW x \in R, R \ {x} \in G
        PROVE  R \in G
    <2>1. IsFiniteSet(R) /\ x \in R
      BY FS_Subset
    <2>2. Cardinality(R \ {x}) = Cardinality(R) - 1 /\ Cardinality(R) \in Nat
      BY <2>1, FS_RemoveElement, FS_CardinalityType
    <2>3. F(R) = c + c * Cardinality(R \ {x})
      BY <1>1, <1>4
    <2>4. \A n \in Nat : c + c * (n - 1) = c * n
      OBVIOUS
    <2>5. F(R) = c * Cardinality(R)
      BY <2>2, <2>3, <2>4
    <2> QED
      BY <2>5
  <1> HIDE DEF G
  <1>5. S \in G
    BY <1>3, <1>4, SetInduction
  <1> QED
    BY <1>5 DEF G, F

----------------------------------------------------------------------------
(* Sums of sums.                                                           *)

Fibre(S, k, t) == {x \in S : k[x] = t}
Weighty(S, w)  == {x \in S : w[x] > 0}

(* Summing in groups.                                                      *)
LEMMA SumByKey ==
    ASSUME NEW S, IsFiniteSet(S), NEW T, IsFiniteSet(T), NEW f, \A x \in S : f[x] \in Int,
           NEW k, \A x \in S : k[x] \in T,
           NEW g, \A t \in T : g[t] = SumFunctionOnSet(f, Fibre(S, k, t))
    PROVE  SumFunctionOnSet(f, S) = SumFunctionOnSet(g, T)
  <1> DEFINE F(R) == SumFunctionOnSet(f, R)
             col(R) == [t \in T |-> F(Fibre(R, k, t))]
             G == {R \in SUBSET S : F(R) = SumFunctionOnSet(col(R), T)}
  <1>1. \A R \in SUBSET S : F(R) \in Int
    BY SumParts
  <1>2. \A R \in SUBSET S : \A x \in R : F(R) = f[x] + F(R \ {x}) /\ F(R \ {x}) \in Int
    BY SumParts
  <1>3. F({}) = 0
    BY SumEmpty
  <1> HIDE DEF F
  <1>4. \A R \in SUBSET S : \A t \in T : col(R)[t] = F(Fibre(R, k, t)) /\ col(R)[t] \in Int
    BY <1>1 DEF Fibre
  <1>5. {} \in G
    <2>1. \A t \in T : Fibre({}, k, t) = {}
      BY DEF Fibre
    <2>2. \A t \in T : col({})[t] = 0
      BY <1>3, <2>1
    <2> DEFINE c == col({})
    <2> HIDE DEF c
    <2>3. SumFunctionOnSet(c, T) = 0
      BY <2>2, SumOfZeros DEF c
    <2> QED
      BY <1>3, <2>3 DEF c
  <1>6. ASSUME NEW R \in SUBSET S, NEW x \in R, R \ {x} \in G
        PROVE  R \in G
    <2> DEFINE t0 == k[x]
               a == col(R)
               b == col(R \ {x})
    <2>1. t0 \in T /\ R \ {x} \in SUBSET S
      OBVIOUS
    <2>2. F(R \ {x}) = SumFunctionOnSet(b, T)
      BY <1>6
    <2>3. \A t \in T : a[t] = F(Fibre(R, k, t)) /\ a[t] \in Int
      BY <1>4
    <2>4. \A t \in T : b[t] = F(Fibre(R \ {x}, k, t)) /\ b[t] \in Int
      BY <1>4, <2>1
    <2> HIDE DEF a, b
    <2>5. a[t0] = f[x] + b[t0]
      <3>1. /\ Fibre(R, k, t0) \in SUBSET S /\ x \in Fibre(R, k, t0)
            /\ Fibre(R \ {x}, k, t0) = Fibre(R, k, t0) \ {x}
        BY DEF Fibre
      <3> HIDE DEF t0
      <3>2. F(Fibre(R, k, t0)) = f[x] + F(Fibre(R, k, t0) \ {x})
        BY <1>2, <3>1
      <3> QED
        BY <2>1, <2>3, <2>4, <3>1, <3>2
    <2>6. \A t \in T \ {t0} : b[t] = a[t]
      <3> SUFFICES ASSUME NEW t \in T \ {t0}
                   PROVE  b[t] = a[t]
        OBVIOUS
      <3>1. Fibre(R \ {x}, k, t) = Fibre(R, k, t)
        BY DEF Fibre
      <3> QED
        BY <2>3, <2>4, <3>1
    <2> HIDE DEF t0
    <2>7. SumFunctionOnSet(a, T) = a[t0] + SumFunctionOnSet(a, T \ {t0}) /\ SumFunctionOnSet(a, T \ {t0}) \in Int
      BY <2>1, <2>3, SumParts
    <2>8. SumFunctionOnSet(b, T) = b[t0] + SumFunctionOnSet(b, T \ {t0})
      BY <2>1, <2>4, SumParts
    <2>9. SumFunctionOnSet(a, T \ {t0}) = SumFunctionOnSet(b, T \ {t0})
      <3>1. IsFiniteSet(T \ {t0}) /\ \A t \in T \ {t0} : a[t] \in Int /\ b[t] = a[t]
        BY <2>3, <2>6, FS_Subset
      <3> QED
        BY <3>1, SumEqual
    <2> DEFINE rest == SumFunctionOnSet(a, T \ {t0})
               Sa == SumFunctionOnSet(a, T)
               Sb == SumFunctionOnSet(b, T)
    <2>10. Sa = a[t0] + rest /\ Sb = b[t0] + rest /\ rest \in Int /\ b[t0] \in Int /\ F(R \ {x}) = Sb
      BY <2>1, <2>2, <2>4, <2>7, <2>8, <2>9
    <2>11. f[x] \in Int /\ F(R) = f[x] + F(R \ {x})
      BY <1>2
    <2> HIDE DEF rest, Sa, Sb
    <2>12. F(R) = Sa
      BY <2>5, <2>10, <2>11
    <2> QED
      BY <2>12 DEF Sa, a
  <1> HIDE DEF G
  <1>7. S \in G
    BY <1>5, <1>6, SetInduction
  <1>8. F(S) = SumFunctionOnSet(col(S), T)
    BY <1>7 DEF G
  <1>9. \A t \in T : col(S)[t] \in Int /\ g[t] = col(S)[t]
    BY <1>4 DEF F
  <1> DEFINE c == col(S)
  <1> HIDE DEF c
  <1>10. SumFunctionOnSet(c, T) = SumFunctionOnSet(g, T)
    BY <1>9, SumEqual DEF c
  <1> QED
    BY <1>8, <1>10 DEF F, c

(* Summing in another order.                                               *)
LEMMA SumAlong ==
    ASSUME NEW S, IsFiniteSet(S), NEW T, IsFiniteSet(T), NEW f, \A t \in T : f[t] \in Int,
           NEW h, \A x \in S : h[x] \in T, \A x, y \in S : h[x] = h[y] => x = y,
           \A t \in T : \E x \in S : h[x] = t,
           NEW g, \A x \in S : g[x] = f[h[x]]
    PROVE  SumFunctionOnSet(g, S) = SumFunctionOnSet(f, T)
  <1>1. ASSUME NEW t \in T
        PROVE  f[t] = SumFunctionOnSet(g, Fibre(S, h, t))
    <2>1. PICK x \in S : h[x] = t
      OBVIOUS
    <2>2. Fibre(S, h, t) = {x}
      BY <2>1 DEF Fibre
    <2>3. g[x] \in Int /\ g[x] = f[t] /\ IsFiniteSet({x}) /\ x \in {x}
      BY <2>1, FS_Singleton
    <2>4. SumFunctionOnSet(g, {x}) = g[x]
      BY <2>3, SumOfOne
    <2> QED
      BY <2>2, <2>3, <2>4
  <1>2. \A x \in S : g[x] \in Int
    OBVIOUS
  <1> QED
    BY <1>1, <1>2, SumByKey

LEMMA SumOfUnion ==
    ASSUME NEW P, NEW Q, IsFiniteSet(P), IsFiniteSet(Q), P \cap Q = {}, NEW f, \A x \in P \union Q : f[x] \in Int
    PROVE  SumFunctionOnSet(f, P \union Q) = SumFunctionOnSet(f, P) + SumFunctionOnSet(f, Q)
  <1> DEFINE S == P \union Q
             p == [x \in S |-> IF x \in P THEN f[x] ELSE 0]
             q == [x \in S |-> IF x \in Q THEN f[x] ELSE 0]
  <1>1. IsFiniteSet(S) /\ P \in SUBSET S /\ Q \in SUBSET S
    BY FS_Union
  <1>2. /\ \A x \in P : f[x] \in Int /\ p[x] = f[x]
        /\ \A x \in S \ P : p[x] = 0
        /\ \A x \in Q : f[x] \in Int /\ q[x] = f[x]
        /\ \A x \in S \ Q : q[x] = 0
        /\ \A x \in S : p[x] \in Int /\ q[x] \in Int /\ f[x] = p[x] + q[x]
    OBVIOUS
  <1> HIDE DEF S, p, q
  <1>3. SumFunctionOnSet(f, P) = SumFunctionOnSet(p, S)
    BY <1>1, <1>2, SumOverPart
  <1>4. SumFunctionOnSet(f, Q) = SumFunctionOnSet(q, S)
    BY <1>1, <1>2, SumOverPart
  <1>5. SumFunctionOnSet(f, S) = SumFunctionOnSet(p, S) + SumFunctionOnSet(q, S)
    BY <1>1, <1>2, SumAdds
  <1> QED
    BY <1>3, <1>4, <1>5 DEF S

LEMMA SumOfProducts ==
    ASSUME NEW A, NEW B, IsFiniteSet(A), IsFiniteSet(B),
           NEW f, \A a \in A : f[a] \in Int, NEW g, \A b \in B : g[b] \in Int,
           NEW h, \A a \in A : \A b \in B : h[<<a, b>>] = f[a] * g[b]
    PROVE  SumFunctionOnSet(h, A \X B) = SumFunctionOnSet(f, A) * SumFunctionOnSet(g, B)
  <1> DEFINE S == A \X B
             k == [p \in S |-> p[1]]
             total == SumFunctionOnSet(g, B)
             row == [a \in A |-> SumFunctionOnSet(h, Fibre(S, k, a))]
  <1>1. IsFiniteSet(S) /\ total \in Int
    BY FS_Product, SumType
  <1>2. /\ \A p \in S : h[p] \in Int /\ k[p] \in A
    <2>1. \A a \in A : \A b \in B : f[a] * g[b] \in Int
      OBVIOUS
    <2> QED
      BY <2>1
  <1>3. ASSUME NEW a \in A
        PROVE  SumFunctionOnSet(h, Fibre(S, k, a)) = f[a] * total
    <2> DEFINE R == Fibre(S, k, a)
               to == [b \in B |-> <<a, b>>]
               part == [b \in B |-> h[<<a, b>>]]
    <2>1. /\ IsFiniteSet(R) /\ \A p \in R : h[p] \in Int
          /\ \A b \in B : to[b] \in R
          /\ \A p \in R : \E b \in B : to[b] = p
          /\ \A b, c \in B : to[b] = to[c] => b = c
          /\ \A b \in B : part[b] = h[to[b]]
      <3>1. R \subseteq S /\ \A p : p \in R <=> \E b \in B : p = <<a, b>>
        BY DEF Fibre
      <3>2. IsFiniteSet(R)
        BY <1>1, <3>1, FS_Subset
      <3> HIDE DEF R, S
      <3> QED
        BY <1>2, <3>1, <3>2
    <2>2. \A b \in B : part[b] = f[a] * g[b]
      OBVIOUS
    <2> HIDE DEF R, to, part
    <2>3. SumFunctionOnSet(part, B) = SumFunctionOnSet(h, R)
      BY <2>1, SumAlong
    <2>4. SumFunctionOnSet(part, B) = f[a] * SumFunctionOnSet(g, B)
      BY <2>2, SumScales
    <2> QED
      BY <2>3, <2>4 DEF R
  <1>4. \A a \in A : row[a] = SumFunctionOnSet(h, Fibre(S, k, a)) /\ row[a] = total * f[a]
    <2>1. \A a \in A : f[a] * total = total * f[a]
      <3> HIDE DEF total
      <3> QED
        BY <1>1
    <2> QED
      BY <1>3, <2>1
  <1> HIDE DEF S, k, row, total
  <1>5. SumFunctionOnSet(h, S) = SumFunctionOnSet(row, A)
    BY <1>1, <1>2, <1>4, SumByKey
  <1>6. SumFunctionOnSet(row, A) = total * SumFunctionOnSet(f, A)
    BY <1>1, <1>4, SumScales
  <1>7. SumFunctionOnSet(f, A) \in Int
    BY SumType
  <1>8. total * SumFunctionOnSet(f, A) = SumFunctionOnSet(f, A) * total
    BY <1>1, <1>7
  <1> QED
    BY <1>5, <1>6, <1>8 DEF S, total

(* m counts the weights of S by the key k: it has the keys of what weighs  *)
(* anything, each with the weight it stands for.                           *)
Counted(m, S, w, k) ==
    /\ \A d : d \in DOMAIN m <=> \E x \in Weighty(S, w) : k[x] = d
    /\ \A d \in DOMAIN m : m[d] = SumFunctionOnSet(w, Fibre(Weighty(S, w), k, d))

(* h and j charge c for every unit of weight, by thing and by key.         *)
Charged(S, w, k, m, c, h, j) ==
    /\ IsFiniteSet(S) /\ \A x \in S : w[x] \in Nat
    /\ Counted(m, S, w, k)
    /\ \A x \in S : c[k[x]] \in Int /\ h[x] = c[k[x]] * w[x]
    /\ \A d \in DOMAIN m : j[d] = c[d] * m[d]

(* What is charged is the same for the counts and for the things counted.  *)
LEMMA SumOverCounts ==
    ASSUME NEW S, NEW w, NEW k, NEW m, NEW c, NEW h, NEW j, Charged(S, w, k, m, c, h, j)
    PROVE  SumFunctionOnSet(j, DOMAIN m) = SumFunctionOnSet(h, S)
  <1> DEFINE D == DOMAIN m
  <1>a. /\ IsFiniteSet(S) /\ \A x \in S : w[x] \in Nat
        /\ \A d : d \in D <=> \E x \in Weighty(S, w) : k[x] = d
        /\ \A d \in D : m[d] = SumFunctionOnSet(w, Fibre(Weighty(S, w), k, d))
        /\ \A x \in S : c[k[x]] \in Int /\ h[x] = c[k[x]] * w[x]
        /\ \A d \in D : j[d] = c[d] * m[d]
    BY DEF Charged, Counted
  <1> HIDE DEF D
  <1> DEFINE P == Weighty(S, w)
  <1>1. P \in SUBSET S /\ (\A x \in P : w[x] > 0) /\ \A x \in S \ P : w[x] = 0
    BY <1>a DEF Weighty
  <1>2. IsFiniteSet(P)
    BY <1>a, <1>1, FS_Subset
  <1> HIDE DEF P
  <1>3. IsFiniteSet(D)
    <2> DEFINE keys == [x \in P |-> k[x]]
    <2>1. keys \in Surjection(P, D)
      <3>1. keys \in [P -> D] /\ \A d \in D : \E x \in P : keys[x] = d
        BY <1>a DEF P
      <3> QED
        BY <3>1, Fun_IsSurj
    <2> QED
      BY <1>2, <2>1, FS_Surjection
  <1>4. \A x \in S : h[x] \in Int
    BY <1>a, <1>1
  <1>5. SumFunctionOnSet(h, P) = SumFunctionOnSet(h, S)
    <2>1. \A x \in P : h[x] \in Int /\ h[x] = h[x]
      BY <1>1, <1>4
    <2>2. \A x \in S \ P : h[x] = 0
      BY <1>a, <1>1
    <2> QED
      BY <1>a, <1>1, <2>1, <2>2, SumOverPart
  <1>6. ASSUME NEW d \in D
        PROVE  j[d] = SumFunctionOnSet(h, Fibre(P, k, d))
    <2> DEFINE R == Fibre(P, k, d)
    <2>1. R \subseteq P /\ \A x \in R : k[x] = d
      BY DEF Fibre
    <2> HIDE DEF R
    <2>2. IsFiniteSet(R) /\ \A x \in R : w[x] \in Int /\ h[x] = c[d] * w[x]
      BY <1>a, <1>1, <1>2, <2>1, FS_Subset
    <2>3. c[d] \in Int
      <3>1. PICK x \in P : k[x] = d
        BY <1>a DEF P
      <3> QED
        BY <1>a, <1>1, <3>1
    <2>4. SumFunctionOnSet(h, R) = c[d] * SumFunctionOnSet(w, R)
      BY <2>2, <2>3, SumScales
    <2> QED
      BY <1>a, <2>4 DEF R, P
  <1>7. \A x \in P : h[x] \in Int /\ k[x] \in D
    BY <1>a, <1>1, <1>4 DEF P
  <1>8. SumFunctionOnSet(h, P) = SumFunctionOnSet(j, D)
    BY <1>2, <1>3, <1>6, <1>7, SumByKey
  <1> QED
    BY <1>5, <1>8 DEF D
=============================================================================

---------------------------- MODULE SimulatorProofs ----------------------------
(***************************************************************************)
(* What is proved of the SSR pilot's judgement, family by family: safe     *)
(* orders of the Banker's algorithm, interleavings of threads, and         *)
(* schedules of processes with and without preemption.                     *)
(***************************************************************************)
EXTENDS SemanticOracle, Benchmark, CollectionLemmas, TLAPS

----------------------------------------------------------------------------
(* Sequences.                                                              *)

(* What the first n entries name.                                          *)
Named(s, n) == {s[i] : i \in 1 .. n}
Distinct(s) == \A i, j \in DOMAIN s : s[i] = s[j] => i = j

LEMMA NamedFacts ==
    ASSUME NEW T, NEW s \in Seq(T)
    PROVE  /\ Len(s) \in Nat /\ DOMAIN s = 1 .. Len(s) /\ \A i \in 1 .. Len(s) : s[i] \in T
           /\ Named(s, 0) = {} /\ Named(s, Len(s)) = ToSet(s) /\ ToSet(s) \subseteq T
           /\ \A n \in 0 .. Len(s) : Named(s, n) \subseteq ToSet(s) /\ Named(s, n) \subseteq T
           /\ \A n \in 1 .. Len(s) : n - 1 \in 0 .. Len(s) /\ Named(s, n) = Named(s, n - 1) \union {s[n]}
  <1>1. Len(s) \in Nat /\ DOMAIN s = 1 .. Len(s) /\ \A i \in 1 .. Len(s) : s[i] \in T
    BY LenProperties, ElementOfSeq
  <1>2. ASSUME NEW n \in 1 .. Len(s)
        PROVE  n - 1 \in 0 .. Len(s) /\ Named(s, n) = Named(s, n - 1) \union {s[n]}
    <2>1. 1 .. n = (1 .. n - 1) \union {n}
      BY <1>1
    <2> QED
      BY <1>1, <2>1 DEF Named
  <1> QED
    BY <1>1, <1>2 DEF Named, ToSet

(* A sequence has as many entries as it names things when it names none    *)
(* of them twice.                                                          *)
LEMMA DistinctCount ==
    ASSUME NEW T, NEW s \in Seq(T)
    PROVE  /\ IsFiniteSet(ToSet(s)) /\ Cardinality(ToSet(s)) \in Nat
           /\ Cardinality(ToSet(s)) = Len(s) <=> Distinct(s)
  <1>1. Len(s) \in Nat /\ DOMAIN s = 1 .. Len(s) /\ s \in [1 .. Len(s) -> ToSet(s)]
    BY NamedFacts, LenProperties DEF ToSet
  <1> DEFINE n == Len(s)
  <1>2. IsFiniteSet(1 .. n) /\ Cardinality(1 .. n) = n
    BY <1>1, FS_Interval
  <1>3. s \in Surjection(1 .. n, ToSet(s))
    <2>1. \A t \in ToSet(s) : \E i \in 1 .. n : s[i] = t
      BY <1>1 DEF ToSet
    <2> QED
      BY <1>1, <2>1, Fun_IsSurj
  <1>4. s \in Injection(1 .. n, ToSet(s)) <=> Distinct(s)
    <2>1. s \in Injection(1 .. n, ToSet(s)) <=> \A i, j \in 1 .. n : s[i] = s[j] => i = j
      BY <1>1 DEF Injection, IsInjective
    <2> QED
      BY <1>1, <2>1 DEF Distinct
  <1> QED
    BY <1>2, <1>3, <1>4, FS_Surjection, FS_CardinalityType

----------------------------------------------------------------------------
(* The banker.                                                             *)

(* What the processes hold of a resource, and what there is to work with   *)
(* when those of done have finished, in whatever order they did.           *)
Held(problem, r) == [p \in Clients(problem) |-> problem.alloc[p][r]]
WorkAfter(problem, done) ==
    [r \in Resources(problem) |-> problem.available[r] + SumFunctionOnSet(Held(problem, r), done)]

LEMMA HeldFacts ==
    ASSUME NEW problem, BankProblem(problem), NEW D \in SUBSET Clients(problem), NEW r \in Resources(problem)
    PROVE  /\ IsFiniteSet(D) /\ SumFunctionOnSet(Held(problem, r), D) \in Int
           /\ \A p \in Clients(problem) : Held(problem, r)[p] \in Nat /\ Held(problem, r)[p] = problem.alloc[p][r]
           /\ WorkAfter(problem, D)[r] = problem.available[r] + SumFunctionOnSet(Held(problem, r), D)
           /\ problem.available[r] \in Int /\ WorkAfter(problem, D)[r] \in Int
  <1>1. IsFiniteSet(D)
    BY FS_Subset DEF BankProblem
  <1>2. \A p \in Clients(problem) : Held(problem, r)[p] \in Nat /\ Held(problem, r)[p] = problem.alloc[p][r]
    BY DEF BankProblem, Held
  <1>3. SumFunctionOnSet(Held(problem, r), D) \in Int
    <2>1. \A p \in D : Held(problem, r)[p] \in Int
      BY <1>2
    <2> QED
      BY <1>1, <2>1, SumType
  <1>4. problem.available[r] \in Int
    BY DEF BankProblem
  <1> QED
    BY <1>1, <1>2, <1>3, <1>4 DEF WorkAfter

LEMMA WorkSteps ==
    ASSUME NEW problem, BankProblem(problem), NEW D \in SUBSET Clients(problem), NEW p \in Clients(problem) \ D
    PROVE  WorkAfter(problem, D \union {p}) = Freed(problem, WorkAfter(problem, D), p)
  <1> DEFINE more == D \union {p}
  <1>1. more \in SUBSET Clients(problem) /\ p \in more /\ more \ {p} = D
    OBVIOUS
  <1> HIDE DEF more
  <1>2. ASSUME NEW r \in Resources(problem)
        PROVE  WorkAfter(problem, more)[r] = WorkAfter(problem, D)[r] + problem.alloc[p][r]
    <2> DEFINE h == Held(problem, r)
    <2>1. IsFiniteSet(more) /\ \A q \in more : h[q] \in Int
      <3>1. IsFiniteSet(more) /\ \A q \in Clients(problem) : Held(problem, r)[q] \in Nat
        BY <1>1, HeldFacts
      <3> QED
        BY <1>1, <3>1
    <2>2. h[p] = problem.alloc[p][r] /\ problem.alloc[p][r] \in Int
      BY HeldFacts
    <2> HIDE DEF h
    <2>3. SumFunctionOnSet(h, more) = h[p] + SumFunctionOnSet(h, D)
      BY <1>1, <2>1, SumStep
    <2>4. /\ WorkAfter(problem, more)[r] = problem.available[r] + SumFunctionOnSet(h, more)
          /\ WorkAfter(problem, D)[r] = problem.available[r] + SumFunctionOnSet(h, D)
          /\ problem.available[r] \in Int /\ SumFunctionOnSet(h, D) \in Int
      BY <1>1, HeldFacts DEF h
    <2> QED
      BY <2>2, <2>3, <2>4
  <1>3. DOMAIN WorkAfter(problem, D) = Resources(problem)
    BY DEF WorkAfter
  <1>4. WorkAfter(problem, more) = [r \in Resources(problem) |-> WorkAfter(problem, more)[r]]
    BY DEF WorkAfter
  <1> QED
    BY <1>2, <1>3, <1>4 DEF Freed, more

LEMMA WorkGrows ==
    ASSUME NEW problem, BankProblem(problem), NEW E \in SUBSET Clients(problem), NEW D \in SUBSET E,
           NEW p, p \in Clients(problem), Fits(problem, WorkAfter(problem, D), p)
    PROVE  Fits(problem, WorkAfter(problem, E), p)
  <1> SUFFICES ASSUME NEW r \in Resources(problem)
               PROVE  problem.max[p][r] - problem.alloc[p][r] <= WorkAfter(problem, E)[r]
    BY DEF Fits, WorkAfter
  <1> DEFINE h == Held(problem, r)
  <1>1. D \in SUBSET Clients(problem) /\ E \ D \in SUBSET Clients(problem) /\ E = D \union (E \ D) /\ D \cap (E \ D) = {}
    OBVIOUS
  <1>2. /\ IsFiniteSet(D) /\ IsFiniteSet(E \ D) /\ \A q \in E : h[q] \in Int
        /\ SumFunctionOnSet(h, D) \in Int /\ SumFunctionOnSet(h, E \ D) \in Int
    <2>1. \A q \in Clients(problem) : Held(problem, r)[q] \in Nat
      BY <1>1, HeldFacts
    <2>2. IsFiniteSet(D) /\ SumFunctionOnSet(Held(problem, r), D) \in Int
      BY <1>1, HeldFacts
    <2>3. IsFiniteSet(E \ D) /\ SumFunctionOnSet(Held(problem, r), E \ D) \in Int
      BY <1>1, HeldFacts
    <2> QED
      BY <2>1, <2>2, <2>3
  <1>3. SumFunctionOnSet(h, E \ D) >= 0
    <2> DEFINE zero == [q \in E \ D |-> 0]
    <2>1. \A q \in E \ D : zero[q] \in Int /\ h[q] \in Int /\ zero[q] <= h[q]
      BY <1>1, HeldFacts
    <2>2. \A q \in E \ D : zero[q] = 0
      OBVIOUS
    <2> HIDE DEF zero, h
    <2>3. SumFunctionOnSet(zero, E \ D) = 0
      BY <1>2, <2>2, SumOfZeros
    <2>4. SumFunctionOnSet(zero, E \ D) <= SumFunctionOnSet(h, E \ D)
      BY <1>2, <2>1, SumGrows
    <2> QED
      BY <1>2, <2>3, <2>4
  <1>4. /\ WorkAfter(problem, E)[r] = problem.available[r] + SumFunctionOnSet(h, E)
        /\ WorkAfter(problem, D)[r] = problem.available[r] + SumFunctionOnSet(h, D)
        /\ problem.available[r] \in Int
    BY <1>1, HeldFacts
  <1>5. problem.max[p][r] - problem.alloc[p][r] <= WorkAfter(problem, D)[r]
    BY DEF Fits, WorkAfter
  <1>6. problem.max[p][r] - problem.alloc[p][r] \in Int
    BY DEF BankProblem
  <1> HIDE DEF h
  <1>7. SumFunctionOnSet(h, E) = SumFunctionOnSet(h, D) + SumFunctionOnSet(h, E \ D)
    <2> DEFINE F == E \ D
    <2>1. IsFiniteSet(D) /\ IsFiniteSet(F) /\ D \cap F = {} /\ \A q \in D \union F : h[q] \in Int
      BY <1>1, <1>2
    <2>2. D \union F = E
      BY <1>1
    <2> HIDE DEF F
    <2>3. SumFunctionOnSet(h, D \union F) = SumFunctionOnSet(h, D) + SumFunctionOnSet(h, F)
      BY <2>1, SumOfUnion
    <2> QED
      BY <2>2, <2>3 DEF F
  <1> QED
    BY <1>2, <1>3, <1>4, <1>5, <1>6, <1>7

(* The table of what there is to work with before each process of an order *)
(* that is walked through.                                                 *)
IsWork(f, problem, order, m) ==
    f = [n \in 0 .. m |-> IF n = 0 THEN problem.available ELSE Freed(problem, f[n - 1], order[n])]

LEMMA WorkExists ==
    ASSUME NEW problem, NEW order, NEW m \in Nat
    PROVE  \E f : IsWork(f, problem, order, m)
  <1> DEFINE Next(g, n) == IF n = 0 THEN problem.available ELSE Freed(problem, g[n - 1], order[n])
             T == {k \in Nat : \E f : f = [n \in 0 .. k |-> Next(f, n)]}
  <1>1. 0 \in T
    <2> DEFINE f == [n \in 0 .. 0 |-> problem.available]
    <2>1. f = [n \in 0 .. 0 |-> Next(f, n)]
      OBVIOUS
    <2> HIDE DEF f
    <2> QED
      BY <2>1
  <1>2. ASSUME NEW k \in Nat, k \in T
        PROVE  k + 1 \in T
    <2>1. PICK f : f = [n \in 0 .. k |-> Next(f, n)]
      BY <1>2
    <2> DEFINE g == [n \in 0 .. k + 1 |-> IF n = k + 1 THEN Next(f, n) ELSE f[n]]
    <2>2. \A n \in 0 .. k : f[n] = Next(f, n)
      <3> HIDE DEF Next
      <3> QED
        BY <2>1
    <2>3. ASSUME NEW n \in 0 .. k + 1
          PROVE  g[n] = Next(g, n)
      <3>1. g[n] = Next(f, n)
        <4> HIDE DEF Next
        <4> QED
          BY <2>2
      <3>2. n # 0 => g[n - 1] = f[n - 1]
        OBVIOUS
      <3> HIDE DEF g
      <3> QED
        BY <3>1, <3>2
    <2>4. g = [n \in 0 .. k + 1 |-> Next(g, n)]
      <3> HIDE DEF Next
      <3> QED
        BY <2>3
    <2> HIDE DEF g, Next
    <2>5. \E h : h = [n \in 0 .. k + 1 |-> Next(h, n)]
      BY <2>4
    <2> QED
      BY <2>5
  <1> HIDE DEF T
  <1>3. m \in T
    BY <1>1, <1>2, Induction
  <1> QED
    BY <1>3 DEF T, IsWork

(* At first there is what is available.                                    *)
LEMMA WorkAtFirst ==
    ASSUME NEW problem, BankProblem(problem)
    PROVE  WorkAfter(problem, {}) = problem.available
  <1>1. \A r \in Resources(problem) : WorkAfter(problem, {})[r] = problem.available[r]
    <2> SUFFICES ASSUME NEW r \in Resources(problem)
                 PROVE  WorkAfter(problem, {})[r] = problem.available[r]
      OBVIOUS
    <2>1. SumFunctionOnSet(Held(problem, r), {}) = 0
      BY SumEmpty
    <2>2. WorkAfter(problem, {})[r] = problem.available[r] + 0 /\ problem.available[r] \in Int
      BY <2>1 DEF WorkAfter, BankProblem
    <2> QED
      BY <2>2
  <1>2. WorkAfter(problem, {}) = [r \in Resources(problem) |-> WorkAfter(problem, {})[r]]
    BY DEF WorkAfter
  <1>3. problem.available = [r \in Resources(problem) |-> problem.available[r]]
    BY DEF BankProblem
  <1> QED
    BY <1>1, <1>2, <1>3

(* As long as no process is named twice, it is the work after those named. *)
LEMMA WorkIs ==
    ASSUME NEW problem, BankProblem(problem), NEW order \in Seq(Clients(problem)),
           NEW f, IsWork(f, problem, order, Len(order)),
           NEW m \in 0 .. Len(order), \A i, j \in 1 .. m : order[i] = order[j] => i = j
    PROVE  f[m] = WorkAfter(problem, Named(order, m))
  <1>1. Len(order) \in Nat /\ \A i \in 1 .. Len(order) : order[i] \in Clients(problem)
    BY NamedFacts
  <1>2. \A n \in 0 .. Len(order) : f[n] = IF n = 0 THEN problem.available ELSE Freed(problem, f[n - 1], order[n])
    BY DEF IsWork
  <1> DEFINE T == {n \in Nat : n <= m => f[n] = WorkAfter(problem, Named(order, n))}
  <1>3. 0 \in T
    <2>4. WorkAfter(problem, {}) = problem.available
      BY WorkAtFirst
    <2>5. Named(order, 0) = {}
      BY NamedFacts
    <2>6. 0 \in 0 .. Len(order) /\ f[0] = problem.available
      BY <1>1, <1>2
    <2> QED
      BY <2>4, <2>5, <2>6
  <1>4. ASSUME NEW n \in Nat, n \in T
        PROVE  n + 1 \in T
    <2> SUFFICES ASSUME n + 1 <= m
                 PROVE  f[n + 1] = WorkAfter(problem, Named(order, n + 1))
      OBVIOUS
    <2>1. n + 1 \in 1 .. Len(order) /\ n \in 0 .. Len(order) /\ f[n] = WorkAfter(problem, Named(order, n))
      BY <1>1, <1>4
    <2>2. f[n + 1] = Freed(problem, f[n], order[n + 1])
      BY <1>1, <1>2, <2>1
    <2>3. Named(order, n + 1) = Named(order, n) \union {order[n + 1]} /\ Named(order, n) \in SUBSET Clients(problem)
      BY <2>1, NamedFacts
    <2>4. order[n + 1] \in Clients(problem) \ Named(order, n)
      BY <1>1, <2>1 DEF Named
    <2>5. WorkAfter(problem, Named(order, n) \union {order[n + 1]})
              = Freed(problem, WorkAfter(problem, Named(order, n)), order[n + 1])
      BY <2>3, <2>4, WorkSteps
    <2> QED
      BY <2>1, <2>2, <2>3, <2>5
  <1> HIDE DEF T
  <1>5. m \in T
    BY <1>1, <1>3, <1>4, Induction
  <1> QED
    BY <1>1, <1>5 DEF T

(* An order that breaks no rule: each process once, when its need fits.    *)
Orderly(problem, order) ==
    \A n \in DOMAIN order : /\ order[n] \notin Named(order, n - 1)
                            /\ Fits(problem, WorkAfter(problem, Named(order, n - 1)), order[n])

NoneTwice(order) == \A n \in DOMAIN order : order[n] \notin Named(order, n - 1)

LEMMA NoneTwiceIsDistinct ==
    ASSUME NEW T, NEW order \in Seq(T)
    PROVE  NoneTwice(order) <=> Distinct(order)
  <1>1. Len(order) \in Nat /\ DOMAIN order = 1 .. Len(order)
    BY NamedFacts
  <1>2. ASSUME NoneTwice(order), NEW i \in DOMAIN order, NEW j \in DOMAIN order, i < j
        PROVE  order[i] # order[j]
    <2>1. i \in 1 .. j - 1
      BY <1>1, <1>2
    <2> QED
      BY <1>2, <2>1 DEF NoneTwice, Named
  <1>3. ASSUME NoneTwice(order)
        PROVE  Distinct(order)
    BY <1>1, <1>2, <1>3 DEF Distinct
  <1>4. ASSUME Distinct(order)
        PROVE  NoneTwice(order)
    BY <1>1, <1>4 DEF Distinct, NoneTwice, Named
  <1> QED
    BY <1>3, <1>4

(* The table of an order in which nobody is named twice.                   *)
LEMMA WorkOfDistinct ==
    ASSUME NEW problem, BankProblem(problem), NEW order \in Seq(Clients(problem)), NoneTwice(order),
           NEW f, IsWork(f, problem, order, Len(order))
    PROVE  \A n \in DOMAIN order : f[n - 1] = WorkAfter(problem, Named(order, n - 1))
  <1> SUFFICES ASSUME NEW n \in DOMAIN order
               PROVE  f[n - 1] = WorkAfter(problem, Named(order, n - 1))
    OBVIOUS
  <1>1. Len(order) \in Nat /\ DOMAIN order = 1 .. Len(order) /\ n - 1 \in 0 .. Len(order)
    BY NamedFacts
  <1>2. \A i, j \in 1 .. n - 1 : order[i] = order[j] => i = j
    BY <1>1, NoneTwiceIsDistinct DEF Distinct
  <1> QED
    BY <1>1, <1>2, WorkIs

(* The validator.                                                          *)
LEMMA JudgedOrder ==
    ASSUME NEW problem, BankProblem(problem), NEW order \in Seq(Clients(problem))
    PROVE  /\ JudgeOrder(problem, order) # "broken" <=> Orderly(problem, order)
           /\ JudgeOrder(problem, order) = "ok" <=> Orderly(problem, order) /\ ToSet(order) = Clients(problem)
  <1> DEFINE need(p) == [r \in DOMAIN problem.available |-> problem.max[p][r] - problem.alloc[p][r]]
             work == CHOOSE f : IsWork(f, problem, order, Len(order))
             breaks == \E n \in DOMAIN order : order[n] \in {order[i] : i \in 1 .. n - 1}
                                               \/ ~NeedMet(need(order[n]), work[n - 1])
  <1>1. Len(order) \in Nat
    BY NamedFacts
  <1>2. IsWork(work, problem, order, Len(order))
    BY <1>1, WorkExists
  <1>3. JudgeOrder(problem, order) = IF breaks THEN "broken"
                                     ELSE IF ToSet(order) # Clients(problem) THEN "incomplete" ELSE "ok"
    BY DEF JudgeOrder, IsWork, Freed
  <1> HIDE DEF work
  <1>4. ~breaks => NoneTwice(order)
    BY DEF NoneTwice, Named
  <1>5. Orderly(problem, order) => NoneTwice(order)
    BY DEF NoneTwice, Orderly
  <1>6. ASSUME NoneTwice(order), NEW n \in DOMAIN order
        PROVE  NeedMet(need(order[n]), work[n - 1])
                   <=> Fits(problem, WorkAfter(problem, Named(order, n - 1)), order[n])
    <2>1. work[n - 1] = WorkAfter(problem, Named(order, n - 1))
      BY <1>2, <1>6, WorkOfDistinct
    <2>2. DOMAIN WorkAfter(problem, Named(order, n - 1)) = DOMAIN problem.available
      BY DEF WorkAfter, Resources
    <2> QED
      BY <2>1, <2>2 DEF NeedMet, Fits
  <1>7. ~breaks <=> Orderly(problem, order)
    <2>1. ASSUME NoneTwice(order)
          PROVE  ~breaks <=> Orderly(problem, order)
      <3> HIDE DEF need
      <3>1. \A n \in DOMAIN order : order[n] \notin Named(order, n - 1)
        BY <2>1 DEF NoneTwice
      <3> QED
        BY <1>6, <2>1, <3>1 DEF Orderly, Named
    <2> HIDE DEF breaks
    <2> QED
      BY <1>4, <1>5, <2>1
  <1> HIDE DEF breaks
  <1> QED
    BY <1>3, <1>7

(* The transition system.                                                  *)
LEMMA AcceptedOrder ==
    ASSUME NEW problem, BankProblem(problem), NEW order \in Seq(Clients(problem))
    PROVE  AcceptsOrder(problem, order) <=> Orderly(problem, order) /\ ToSet(order) = Clients(problem)
  <1> DEFINE work == CHOOSE f : IsWork(f, problem, order, Len(order))
             all == Len(order) = Cardinality(Clients(problem)) /\ ToSet(order) = Clients(problem)
             fit == \A n \in DOMAIN order : Fits(problem, work[n - 1], order[n])
  <1>1. Len(order) \in Nat
    BY NamedFacts
  <1>2. IsWork(work, problem, order, Len(order))
    BY <1>1, WorkExists
  <1>3. AcceptsOrder(problem, order) <=> all /\ fit
    BY DEF AcceptsOrder, IsWork
  <1> HIDE DEF work
  <1>4. all <=> ToSet(order) = Clients(problem) /\ NoneTwice(order)
    BY DistinctCount, NoneTwiceIsDistinct
  <1>5. ASSUME NoneTwice(order)
        PROVE  fit <=> Orderly(problem, order)
    <2>1. \A n \in DOMAIN order : work[n - 1] = WorkAfter(problem, Named(order, n - 1))
      BY <1>2, <1>5, WorkOfDistinct
    <2> QED
      BY <1>5, <2>1 DEF NoneTwice, Orderly
  <1>6. Orderly(problem, order) => NoneTwice(order)
    BY DEF NoneTwice, Orderly
  <1> HIDE DEF all, fit
  <1> QED
    BY <1>3, <1>4, <1>5, <1>6

(* The enumerator: after n steps it stands at every order of n processes   *)
(* that breaks no rule.                                                    *)
IsWays(f, problem, m) ==
    f = [n \in 0 .. m |-> IF n = 0 THEN {BankStart(problem)}
                          ELSE UNION {{Finished(problem, x, p) : p \in Enabled(problem, x)} : x \in f[n - 1]}]

LEMMA WaysExist ==
    ASSUME NEW problem, NEW m \in Nat
    PROVE  \E f : IsWays(f, problem, m)
  <1> DEFINE Next(g, n) == IF n = 0 THEN {BankStart(problem)}
                           ELSE UNION {{Finished(problem, x, p) : p \in Enabled(problem, x)} : x \in g[n - 1]}
             T == {k \in Nat : \E f : f = [n \in 0 .. k |-> Next(f, n)]}
  <1>1. 0 \in T
    <2> DEFINE f == [n \in 0 .. 0 |-> {BankStart(problem)}]
    <2>1. f = [n \in 0 .. 0 |-> Next(f, n)]
      OBVIOUS
    <2> HIDE DEF f
    <2> QED
      BY <2>1
  <1>2. ASSUME NEW k \in Nat, k \in T
        PROVE  k + 1 \in T
    <2>1. PICK f : f = [n \in 0 .. k |-> Next(f, n)]
      BY <1>2
    <2> DEFINE g == [n \in 0 .. k + 1 |-> IF n = k + 1 THEN Next(f, n) ELSE f[n]]
    <2>2. \A n \in 0 .. k : f[n] = Next(f, n)
      <3> HIDE DEF Next
      <3> QED
        BY <2>1
    <2>3. ASSUME NEW n \in 0 .. k + 1
          PROVE  g[n] = Next(g, n)
      <3>1. g[n] = Next(f, n)
        <4> HIDE DEF Next
        <4> QED
          BY <2>2
      <3>2. n # 0 => g[n - 1] = f[n - 1]
        OBVIOUS
      <3> HIDE DEF g
      <3> QED
        BY <3>1, <3>2
    <2>4. g = [n \in 0 .. k + 1 |-> Next(g, n)]
      <3> HIDE DEF Next
      <3> QED
        BY <2>3
    <2> HIDE DEF g, Next
    <2>5. \E h : h = [n \in 0 .. k + 1 |-> Next(h, n)]
      BY <2>4
    <2> QED
      BY <2>5
  <1> HIDE DEF T
  <1>3. m \in T
    BY <1>1, <1>2, Induction
  <1> QED
    BY <1>3 DEF T, IsWays

(* The state after an order.                                               *)
BankAfter(problem, order) ==
    [work |-> WorkAfter(problem, ToSet(order)), left |-> Clients(problem) \ ToSet(order), order |-> order]

OrderlyOf(problem, n) == {order \in Seq(Clients(problem)) : Len(order) = n /\ Orderly(problem, order)}

(* A step appends a process whose need fits.                               *)
LEMMA OrderlyGrows ==
    ASSUME NEW problem, BankProblem(problem), NEW order \in Seq(Clients(problem)), NEW p \in Clients(problem)
    PROVE  /\ Append(order, p) \in Seq(Clients(problem)) /\ Len(Append(order, p)) = Len(order) + 1
           /\ ToSet(Append(order, p)) = ToSet(order) \union {p}
           /\ Orderly(problem, Append(order, p)) <=>
                 Orderly(problem, order) /\ p \notin ToSet(order) /\ Fits(problem, WorkAfter(problem, ToSet(order)), p)
           /\ Append(order, p)[Len(order) + 1] = p
           /\ \A i \in 1 .. Len(order) : Append(order, p)[i] = order[i]
  <1> DEFINE more == Append(order, p)
             m == Len(order)
  <1>1. /\ more \in Seq(Clients(problem)) /\ Len(more) = m + 1 /\ more[m + 1] = p
        /\ \A i \in 1 .. m : more[i] = order[i]
    BY AppendProperties
  <1>2. m \in Nat /\ DOMAIN order = 1 .. m /\ DOMAIN more = 1 .. m + 1
    BY <1>1, NamedFacts
  <1> HIDE DEF more, m
  <1>3. \A n \in 1 .. m + 1 : Named(more, n - 1) = Named(order, n - 1)
    <2> SUFFICES ASSUME NEW n \in 1 .. m + 1
                 PROVE  Named(more, n - 1) = Named(order, n - 1)
      OBVIOUS
    <2>1. \A i \in 1 .. n - 1 : i \in 1 .. m
      BY <1>2
    <2>2. \A i \in 1 .. n - 1 : more[i] = order[i]
      BY <1>1, <2>1
    <2> QED
      BY <2>2 DEF Named
  <1>4. Named(order, m) = ToSet(order) /\ m + 1 - 1 = m
    BY <1>2, NamedFacts DEF m
  <1>5. ToSet(more) = ToSet(order) \union {p}
    <2>1. 1 .. m + 1 = (1 .. m) \union {m + 1}
      BY <1>2
    <2> QED
      BY <1>1, <1>2, <2>1 DEF ToSet
  <1> DEFINE Fine(o, n) == /\ o[n] \notin Named(o, n - 1)
                           /\ Fits(problem, WorkAfter(problem, Named(o, n - 1)), o[n])
  <1>6. Orderly(problem, more) <=> \A n \in 1 .. m + 1 : Fine(more, n)
    BY <1>2 DEF Orderly
  <1>7. Orderly(problem, order) <=> \A n \in 1 .. m : Fine(order, n)
    BY <1>2 DEF Orderly
  <1>8. \A n \in 1 .. m : n \in 1 .. m + 1 /\ (Fine(more, n) <=> Fine(order, n))
    BY <1>1, <1>2, <1>3
  <1>9. Fine(more, m + 1) <=> p \notin ToSet(order) /\ Fits(problem, WorkAfter(problem, ToSet(order)), p)
    <2>1. m + 1 \in 1 .. m + 1
      BY <1>2
    <2>2. Named(more, m + 1 - 1) = Named(order, m + 1 - 1)
      BY <1>2, <1>3, <2>1
    <2>3. Named(more, m + 1 - 1) = ToSet(order)
      BY <1>4, <2>2
    <2> QED
      BY <1>1, <1>2, <2>3
  <1>10. \A n \in 1 .. m + 1 : n \in 1 .. m \/ n = m + 1
    BY <1>2
  <1>11. m + 1 \in 1 .. m + 1
    BY <1>2
  <1> HIDE DEF Fine
  <1>12. Orderly(problem, more) <=> Orderly(problem, order) /\ Fine(more, m + 1)
    BY <1>6, <1>7, <1>8, <1>10, <1>11
  <1> QED
    BY <1>1, <1>5, <1>9, <1>12 DEF more, m

LEMMA WaysStep ==
    ASSUME NEW problem, BankProblem(problem), NEW order \in Seq(Clients(problem)), Orderly(problem, order),
           NEW p
    PROVE  /\ p \in Enabled(problem, BankAfter(problem, order)) <=>
                 p \in Clients(problem) /\ Orderly(problem, Append(order, p))
           /\ p \in Enabled(problem, BankAfter(problem, order)) =>
                 Finished(problem, BankAfter(problem, order), p) = BankAfter(problem, Append(order, p))
  <1> DEFINE s == BankAfter(problem, order)
  <1>1. /\ s.work = WorkAfter(problem, ToSet(order)) /\ s.left = Clients(problem) \ ToSet(order)
        /\ s.order = order /\ ToSet(order) \in SUBSET Clients(problem)
    BY NamedFacts DEF BankAfter
  <1> HIDE DEF s
  <1>2. p \in Enabled(problem, s) <=> p \in Clients(problem) /\ Orderly(problem, Append(order, p))
    BY <1>1, OrderlyGrows DEF Enabled
  <1>3. ASSUME p \in Enabled(problem, s)
        PROVE  Finished(problem, s, p) = BankAfter(problem, Append(order, p))
    <2>1. p \in Clients(problem) \ ToSet(order)
      BY <1>1, <1>3 DEF Enabled
    <2>2. ToSet(Append(order, p)) = ToSet(order) \union {p}
      BY <2>1, OrderlyGrows
    <2>3. WorkAfter(problem, ToSet(order) \union {p}) = Freed(problem, WorkAfter(problem, ToSet(order)), p)
      BY <1>1, <2>1, WorkSteps
    <2> QED
      BY <1>1, <2>2, <2>3 DEF Finished, BankAfter
  <1> QED
    BY <1>2, <1>3 DEF s

LEMMA WaysAre ==
    ASSUME NEW problem, BankProblem(problem), NEW m \in Nat, NEW f, IsWays(f, problem, m), NEW k \in 0 .. m
    PROVE  f[k] = {BankAfter(problem, order) : order \in OrderlyOf(problem, k)}
  <1> DEFINE Steps(X) == UNION {{Finished(problem, x, p) : p \in Enabled(problem, x)} : x \in X}
             first == {BankStart(problem)}
  <1>1. \A n \in 0 .. m : f[n] = IF n = 0 THEN first ELSE Steps(f[n - 1])
    <2>1. f = [n \in 0 .. m |-> IF n = 0 THEN first ELSE Steps(f[n - 1])]
      BY DEF IsWays
    <2> HIDE DEF Steps, first
    <2> QED
      BY <2>1
  <1> DEFINE After(n) == {BankAfter(problem, order) : order \in OrderlyOf(problem, n)}
             T == {n \in Nat : n <= m => f[n] = After(n)}
  <1>2. 0 \in T
    <2>1. OrderlyOf(problem, 0) = {<<>>}
      <3>1. \A order \in Seq(Clients(problem)) : Len(order) = 0 => order = <<>>
        BY EmptySeq
      <3>2. <<>> \in Seq(Clients(problem)) /\ Len(<<>>) = 0 /\ Orderly(problem, <<>>)
        BY EmptySeq DEF Orderly
      <3> QED
        BY <3>1, <3>2 DEF OrderlyOf
    <2>2. BankAfter(problem, <<>>) = BankStart(problem)
      <3>1. <<>> \in Seq(Clients(problem)) /\ Len(<<>>) = 0 /\ ToSet(<<>>) = {} /\ Named(<<>>, 0) = {}
        BY EmptySeq DEF ToSet, Named
      <3> QED
        BY <3>1, WorkAtFirst DEF BankAfter, BankStart
    <2>3. f[0] = {BankStart(problem)}
      <3>1. 0 \in 0 .. m
        OBVIOUS
      <3> HIDE DEF Steps
      <3> QED
        BY <1>1, <3>1
    <2>4. After(0) = {BankAfter(problem, <<>>)}
      BY <2>1
    <2> QED
      BY <2>2, <2>3, <2>4
  <1>3. ASSUME NEW n \in Nat, n \in T
        PROVE  n + 1 \in T
    <2> SUFFICES ASSUME n + 1 <= m
                 PROVE  f[n + 1] = After(n + 1)
      OBVIOUS
    <2>1. f[n] = After(n)
      BY <1>3
    <2>2. f[n + 1] = Steps(After(n))
      <3>1. n + 1 \in 0 .. m /\ n + 1 # 0 /\ n + 1 - 1 = n
        OBVIOUS
      <3> HIDE DEF After, Steps
      <3> QED
        BY <1>1, <2>1, <3>1
    <2>3. ASSUME NEW s \in f[n + 1]
          PROVE  s \in After(n + 1)
      <3>1. PICK order \in OrderlyOf(problem, n) : \E p \in Enabled(problem, BankAfter(problem, order)) :
                s = Finished(problem, BankAfter(problem, order), p)
        BY <2>2, <2>3
      <3>2. PICK p \in Enabled(problem, BankAfter(problem, order)) :
                s = Finished(problem, BankAfter(problem, order), p)
        BY <3>1
      <3>3. order \in Seq(Clients(problem)) /\ Len(order) = n /\ Orderly(problem, order)
        BY DEF OrderlyOf
      <3>4. p \in Clients(problem) /\ Orderly(problem, Append(order, p)) /\ s = BankAfter(problem, Append(order, p))
        BY <3>2, <3>3, WaysStep
      <3>5. Append(order, p) \in OrderlyOf(problem, n + 1)
        BY <3>3, <3>4, OrderlyGrows DEF OrderlyOf
      <3> QED
        BY <3>4, <3>5
    <2>4. ASSUME NEW order \in OrderlyOf(problem, n + 1)
          PROVE  BankAfter(problem, order) \in f[n + 1]
      <3>1. order \in Seq(Clients(problem)) /\ Len(order) = n + 1 /\ Orderly(problem, order)
        BY DEF OrderlyOf
      <3>2. PICK front \in Seq(Clients(problem)), p \in Clients(problem) : order = Append(front, p)
        <4>1. order # <<>>
          BY <3>1
        <4> QED
          BY <3>1, <4>1, SequenceEmptyOrAppend
      <3>3. Len(front) = n /\ Orderly(problem, front)
        <4>1. Len(front) \in Nat /\ Len(front) + 1 = n + 1 /\ Orderly(problem, front)
          BY <3>1, <3>2, OrderlyGrows, LenProperties
        <4> QED
          BY <4>1
      <3>4. /\ p \in Enabled(problem, BankAfter(problem, front))
            /\ Finished(problem, BankAfter(problem, front), p) = BankAfter(problem, order)
        BY <3>1, <3>2, <3>3, WaysStep
      <3>5. BankAfter(problem, front) \in After(n)
        BY <3>3 DEF OrderlyOf
      <3> HIDE DEF After
      <3> QED
        BY <2>2, <3>4, <3>5
    <2> QED
      BY <2>3, <2>4
  <1> HIDE DEF T
  <1>4. k \in T
    BY <1>2, <1>3, Induction
  <1> QED
    BY <1>4 DEF T

LEMMA SafeOrders ==
    ASSUME NEW problem, BankProblem(problem), NEW order
    PROVE  order \in SafeSequences(problem) <=>
               order \in Seq(Clients(problem)) /\ Orderly(problem, order) /\ ToSet(order) = Clients(problem)
  <1> DEFINE m == Cardinality(Clients(problem))
             f == CHOOSE g : IsWays(g, problem, m)
  <1>1. m \in Nat /\ IsFiniteSet(Clients(problem))
    BY FS_CardinalityType DEF BankProblem
  <1>2. IsWays(f, problem, m)
    BY <1>1, WaysExist
  <1>3. WaysFrom(problem, BankStart(problem)) = f[m]
    BY DEF WaysFrom, BankStart, IsWays
  <1> HIDE DEF f, m
  <1>4. f[m] = {BankAfter(problem, o) : o \in OrderlyOf(problem, m)}
    BY <1>1, <1>2, WaysAre
  <1>5. order \in SafeSequences(problem) <=> order \in OrderlyOf(problem, m)
    <2>1. order \in SafeSequences(problem) <=> \E s \in f[m] : order = s.order
      BY <1>3 DEF SafeSequences
    <2>2. \A o : BankAfter(problem, o).order = o
      BY DEF BankAfter
    <2> QED
      BY <1>4, <2>1, <2>2
  <1>6. ASSUME order \in Seq(Clients(problem)), Orderly(problem, order)
        PROVE  Len(order) = m <=> ToSet(order) = Clients(problem)
    <2>1. Distinct(order)
      BY <1>6, NoneTwiceIsDistinct DEF NoneTwice, Orderly
    <2>2. Cardinality(ToSet(order)) = Len(order) /\ ToSet(order) \subseteq Clients(problem)
      BY <1>6, <2>1, DistinctCount, NamedFacts
    <2> QED
      BY <1>1, <2>2, FS_Subset DEF m
  <1> QED
    BY <1>5, <1>6 DEF OrderlyOf

(* No choice is regretted: where a safe order exists, an order that breaks *)
(* no rule goes on with the first process of the safe one it lacks, for    *)
(* which there is at least as much to work with as there was then.         *)
LEMMA GoesOnSafely ==
    ASSUME NEW problem, BankProblem(problem), NEW safe \in SafeSequences(problem),
           NEW order \in Seq(Clients(problem)), Orderly(problem, order), ToSet(order) # Clients(problem)
    PROVE  \E p \in Clients(problem) : Orderly(problem, Append(order, p))
  <1>1. safe \in Seq(Clients(problem)) /\ Orderly(problem, safe) /\ ToSet(safe) = Clients(problem)
    BY SafeOrders
  <1>2. /\ Len(safe) \in Nat /\ DOMAIN safe = 1 .. Len(safe) /\ \A i \in 1 .. Len(safe) : safe[i] \in Clients(problem)
        /\ ToSet(order) \in SUBSET Clients(problem)
    BY <1>1, NamedFacts
  <1> DEFINE lacking == {i \in DOMAIN safe : safe[i] \notin ToSet(order)}
  <1>3. lacking \subseteq Nat /\ lacking # {}
    <2>1. PICK p \in Clients(problem) : p \notin ToSet(order)
      BY <1>2
    <2>2. PICK i \in DOMAIN safe : safe[i] = p
      BY <1>1 DEF ToSet
    <2> QED
      BY <1>2, <2>1, <2>2
  <1>4. PICK n \in lacking : \A i \in lacking : n <= i
    BY <1>3, LeastNatural
  <1>5. n \in 1 .. Len(safe) /\ safe[n] \in Clients(problem) /\ safe[n] \notin ToSet(order)
    BY <1>2
  <1>6. Named(safe, n - 1) \in SUBSET ToSet(order)
    <2>1. ASSUME NEW i \in 1 .. n - 1
          PROVE  safe[i] \in ToSet(order)
      <3>1. i \in DOMAIN safe /\ ~(n <= i)
        BY <1>2, <1>5
      <3> QED
        BY <1>4, <3>1
    <2> QED
      BY <2>1 DEF Named
  <1>7. Fits(problem, WorkAfter(problem, Named(safe, n - 1)), safe[n])
    BY <1>1, <1>2, <1>5 DEF Orderly
  <1>8. Fits(problem, WorkAfter(problem, ToSet(order)), safe[n])
    BY <1>2, <1>5, <1>6, <1>7, WorkGrows
  <1> QED
    BY <1>5, <1>8, OrderlyGrows

LEMMA Completed ==
    ASSUME NEW problem, BankProblem(problem), NEW safe \in SafeSequences(problem),
           NEW order \in Seq(Clients(problem)), Orderly(problem, order)
    PROVE  \E whole \in SafeSequences(problem) : IsPrefix(order, whole)
  <1> DEFINE C == Clients(problem)
             m == Cardinality(C)
             Begins(o, w) == Len(o) <= Len(w) /\ \A i \in 1 .. Len(o) : o[i] = w[i]
             T == {k \in Nat : \A o \in Seq(C) : Orderly(problem, o) /\ Len(o) + k = m
                                   => \E w \in SafeSequences(problem) : Begins(o, w)}
  <1>1. m \in Nat /\ IsFiniteSet(C)
    BY FS_CardinalityType DEF BankProblem
  <1>2. ASSUME NEW o \in Seq(C), Orderly(problem, o)
        PROVE  /\ Len(o) \in Nat /\ Len(o) <= m
               /\ Len(o) = m => ToSet(o) = C
    <2>1. Distinct(o)
      BY <1>2, NoneTwiceIsDistinct DEF NoneTwice, Orderly
    <2>2. Cardinality(ToSet(o)) = Len(o) /\ ToSet(o) \subseteq C /\ Len(o) \in Nat
      BY <1>2, <2>1, DistinctCount, NamedFacts
    <2> QED
      BY <1>1, <2>2, FS_Subset
  <1> HIDE DEF m
  <1>3. 0 \in T
    <2> SUFFICES ASSUME NEW o \in Seq(C), Orderly(problem, o), Len(o) + 0 = m
                 PROVE  \E w \in SafeSequences(problem) : Begins(o, w)
      OBVIOUS
    <2>1. ToSet(o) = C /\ Len(o) \in Nat
      BY <1>1, <1>2
    <2>2. o \in SafeSequences(problem)
      BY <2>1, SafeOrders
    <2>3. Begins(o, o)
      BY <2>1
    <2> QED
      BY <2>2, <2>3
  <1>4. ASSUME NEW k \in Nat, k \in T
        PROVE  k + 1 \in T
    <2> SUFFICES ASSUME NEW o \in Seq(C), Orderly(problem, o), Len(o) + (k + 1) = m
                 PROVE  \E w \in SafeSequences(problem) : Begins(o, w)
      OBVIOUS
    <2>1. Len(o) \in Nat /\ Cardinality(ToSet(o)) = Len(o)
      <3>1. Distinct(o)
        BY NoneTwiceIsDistinct DEF NoneTwice, Orderly
      <3> QED
        BY <1>2, <3>1, DistinctCount
    <2>2. ToSet(o) # C
      BY <1>1, <2>1 DEF m
    <2>3. PICK p \in C : Orderly(problem, Append(o, p))
      BY <2>2, GoesOnSafely
    <2>4. /\ Append(o, p) \in Seq(C) /\ Len(Append(o, p)) = Len(o) + 1
          /\ \A i \in 1 .. Len(o) : Append(o, p)[i] = o[i]
      BY <2>3, OrderlyGrows
    <2>5. Len(Append(o, p)) + k = m
      BY <1>1, <2>1, <2>4
    <2>6. PICK w \in SafeSequences(problem) : Begins(Append(o, p), w)
      BY <1>4, <2>3, <2>4, <2>5
    <2>7. Len(w) \in Nat
      BY SafeOrders, LenProperties
    <2>8. Begins(o, w)
      BY <2>1, <2>4, <2>6, <2>7
    <2> QED
      BY <2>8
  <1> HIDE DEF T
  <1>5. m - Len(order) \in T /\ Len(order) + (m - Len(order)) = m
    <2>1. m - Len(order) \in Nat /\ Len(order) + (m - Len(order)) = m
      BY <1>1, <1>2
    <2> QED
      BY <1>3, <1>4, <2>1, Induction
  <1>6. PICK whole \in SafeSequences(problem) : Begins(order, whole)
    BY <1>5 DEF T
  <1>7. whole \in Seq(C)
    BY SafeOrders
  <1>8. IsPrefix(order, whole)
    <2>1. Len(order) \in Nat /\ Len(whole) \in Nat /\ Len(order) <= Len(whole)
      BY <1>6, <1>7, LenProperties
    <2>2. /\ SubSeq(order, 1, Len(order)) \in Seq(C) /\ Len(SubSeq(order, 1, Len(order))) = Len(order)
          /\ \A i \in 1 .. Len(order) : SubSeq(order, 1, Len(order))[i] = order[i]
      BY <2>1, LenProperties
    <2>3. /\ SubSeq(whole, 1, Len(order)) \in Seq(C) /\ Len(SubSeq(whole, 1, Len(order))) = Len(order)
          /\ \A i \in 1 .. Len(order) : SubSeq(whole, 1, Len(order))[i] = whole[i]
      BY <1>7, <2>1, LenProperties
    <2>4. SubSeq(order, 1, Len(order)) = SubSeq(whole, 1, Len(order))
      BY <1>6, <2>2, <2>3, SeqEqual
    <2> QED
      BY <2>1, <2>4 DEF IsPrefix
  <1> QED
    BY <1>8

----------------------------------------------------------------------------
(* Threads.                                                                *)

EventsOf(problem) == {ThreadEvent(t, o) : t \in DOMAIN problem.prog, o \in Instructions(problem)}

ConfigOK(problem, c) ==
    /\ c = [rest |-> c.rest, owner |-> c.owner, sems |-> c.sems]
    /\ c.rest \in [DOMAIN problem.prog -> Seq(Instructions(problem))]

RestAfter(c, t) == [c.rest EXCEPT ![t] = Tail(@)]

(* The transition system goes from c to d by e.                            *)
Stepped(c, e, d) ==
    LET t == e.thread IN
    /\ t \in NotFinished(c) /\ e = ThreadEvent(t, Head(c.rest[t]))
    /\ OpAllowed(c, t, Head(c.rest[t]))
    /\ d = Moved(c, t, Head(c.rest[t]))

LEMMA StepsAre ==
    ASSUME NEW c
    PROVE  /\ \A x \in ThreadSteps(c) : Stepped(c, x.event, x.state)
           /\ \A e, d : Stepped(c, e, d) => [event |-> e, state |-> d] \in ThreadSteps(c)
  <1>1. ASSUME NEW x \in ThreadSteps(c)
        PROVE  Stepped(c, x.event, x.state)
    <2>1. PICK t \in NotFinished(c) : /\ OpAllowed(c, t, Head(c.rest[t]))
                                    /\ x = [event |-> ThreadEvent(t, Head(c.rest[t])), state |-> Moved(c, t, Head(c.rest[t]))]
      BY DEF ThreadSteps
    <2>2. x.event = ThreadEvent(t, Head(c.rest[t])) /\ x.state = Moved(c, t, Head(c.rest[t]))
      BY <2>1
    <2>3. x.event.thread = t
      BY <2>2 DEF ThreadEvent
    <2> QED
      BY <2>1, <2>2, <2>3 DEF Stepped
  <1>2. ASSUME NEW e, NEW d, Stepped(c, e, d)
        PROVE  [event |-> e, state |-> d] \in ThreadSteps(c)
    BY <1>2 DEF Stepped, ThreadSteps
  <1> QED
    BY <1>1, <1>2

LEMMA FirstConfig ==
    ASSUME NEW problem, ThreadProblem(problem)
    PROVE  ConfigOK(problem, InitialConfig(problem))
  BY DEF ThreadProblem, ConfigOK, InitialConfig

LEMMA SteppedFacts ==
    ASSUME NEW problem, ThreadProblem(problem), NEW c, ConfigOK(problem, c), NEW e, NEW d, Stepped(c, e, d)
    PROVE  /\ e \in EventsOf(problem) /\ ConfigOK(problem, d)
           /\ d.rest = RestAfter(c, e.thread)
           /\ e.thread \in DOMAIN problem.prog /\ c.rest[e.thread] # <<>>
  <1> DEFINE t == e.thread
             o == Head(c.rest[t])
  <1>1. /\ t \in DOMAIN problem.prog /\ c.rest[t] # <<>> /\ c.rest[t] \in Seq(Instructions(problem))
        /\ DOMAIN c.rest = DOMAIN problem.prog
    BY DEF Stepped, NotFinished, ConfigOK
  <1>2. o \in Instructions(problem) /\ Tail(c.rest[t]) \in Seq(Instructions(problem))
    BY <1>1, HeadTailProperties
  <1>3. e \in EventsOf(problem)
    BY <1>1, <1>2 DEF Stepped, EventsOf
  <1>4. d = Moved(c, t, o)
    BY DEF Stepped
  <1>5. d.rest = RestAfter(c, t) /\ d = [rest |-> d.rest, owner |-> d.owner, sems |-> d.sems]
    BY <1>4 DEF Moved, RestAfter
  <1>6. d.rest \in [DOMAIN problem.prog -> Seq(Instructions(problem))]
    BY <1>1, <1>2, <1>5 DEF ConfigOK, RestAfter
  <1> QED
    BY <1>1, <1>3, <1>5, <1>6 DEF ConfigOK

(* Every step takes an operation from what is left.                        *)
LEMMA StepTakesOne ==
    ASSUME NEW problem, ThreadProblem(problem), NEW c, ConfigOK(problem, c), NEW e, NEW d, Stepped(c, e, d)
    PROVE  OpsLeft(c) \in Nat /\ OpsLeft(d) \in Int /\ OpsLeft(d) = OpsLeft(c) - 1
  <1> DEFINE C == DOMAIN problem.prog
             t == e.thread
             f == [u \in C |-> Len(c.rest[u])]
             g == [u \in C |-> Len(d.rest[u])]
  <1>1. /\ ConfigOK(problem, d) /\ d.rest = RestAfter(c, t) /\ t \in C /\ c.rest[t] # <<>>
    BY SteppedFacts
  <1>2. /\ IsFiniteSet(C) /\ DOMAIN c.rest = C /\ DOMAIN d.rest = C
        /\ \A u \in C : c.rest[u] \in Seq(Instructions(problem)) /\ d.rest[u] \in Seq(Instructions(problem))
    BY <1>1 DEF ThreadProblem, ConfigOK
  <1>3. \A u \in C : f[u] \in Int /\ g[u] \in Int /\ f[u] >= 0
    BY <1>2, LenProperties
  <1>4. g[t] = f[t] - 1 /\ \A u \in C \ {t} : f[u] = g[u]
    <2>1. d.rest[t] = Tail(c.rest[t]) /\ \A u \in C \ {t} : d.rest[u] = c.rest[u]
      BY <1>1, <1>2 DEF RestAfter
    <2>2. Len(Tail(c.rest[t])) = Len(c.rest[t]) - 1
      BY <1>1, <1>2, HeadTailProperties
    <2> QED
      BY <1>1, <2>1, <2>2
  <1>5. OpsLeft(c) = SumFunctionOnSet(f, C) /\ OpsLeft(d) = SumFunctionOnSet(g, C)
    <2>1. OpsLeft(c) = SumFunction(f) /\ OpsLeft(d) = SumFunction(g)
      BY <1>2 DEF OpsLeft
    <2>2. DOMAIN f = C /\ DOMAIN g = C
      OBVIOUS
    <2> HIDE DEF f, g
    <2> QED
      BY <2>1, <2>2 DEF SumFunction
  <1> HIDE DEF f, g, C
  <1>6. /\ SumFunctionOnSet(f, C) \in Int /\ SumFunctionOnSet(g, C) \in Int
        /\ SumFunctionOnSet(f, C) = f[t] + SumFunctionOnSet(f, C \ {t})
        /\ SumFunctionOnSet(g, C) = g[t] + SumFunctionOnSet(g, C \ {t})
    BY <1>1, <1>2, <1>3, SumType, SumStep
  <1>7. SumFunctionOnSet(f, C \ {t}) = SumFunctionOnSet(g, C \ {t}) /\ SumFunctionOnSet(f, C \ {t}) \in Int
    <2> DEFINE D == C \ {t}
    <2>1. IsFiniteSet(D) /\ \A u \in D : f[u] \in Int /\ g[u] = f[u]
      BY <1>2, <1>3, <1>4, FS_Subset
    <2> HIDE DEF D
    <2>2. SumFunctionOnSet(f, D) = SumFunctionOnSet(g, D) /\ SumFunctionOnSet(f, D) \in Int
      BY <2>1, SumEqual, SumType
    <2> QED
      BY <2>2 DEF D
  <1>8. SumFunctionOnSet(f, C) >= 0
    <2> DEFINE zero == [u \in C |-> 0]
    <2>1. \A u \in C : zero[u] = 0 /\ zero[u] \in Int /\ f[u] \in Int /\ zero[u] <= f[u]
      BY <1>3
    <2> HIDE DEF zero
    <2>2. SumFunctionOnSet(zero, C) = 0 /\ SumFunctionOnSet(zero, C) <= SumFunctionOnSet(f, C)
      BY <1>2, <2>1, SumOfZeros, SumGrows
    <2> QED
      BY <1>6, <2>2
  <1>9. f[t] \in Int /\ g[t] \in Int
    BY <1>1, <1>3
  <1> QED
    BY <1>4, <1>5, <1>6, <1>7, <1>8, <1>9

(* The validator.                                                          *)
AsVerdict(c) == [ok |-> TRUE, rest |-> c.rest, owner |-> c.owner, sems |-> c.sems]

JudgedEntry(v, e) ==
    LET m == e.arg
        next == [v EXCEPT !.rest[e.thread] = Tail(@)]
    IN  IF ~v.ok \/ v.rest[e.thread] = <<>> \/ Head(v.rest[e.thread]) # Op(e.op, m) THEN [v EXCEPT !.ok = FALSE]
        ELSE CASE e.op = "lock"   -> [next EXCEPT !.ok = m \notin DOMAIN v.owner, !.owner = Taken(@, m, e.thread)]
               [] e.op = "unlock" -> [next EXCEPT !.ok = Owns(v.owner, e.thread, m), !.owner = Released(@, m)]
               [] e.op = "wait"   -> [next EXCEPT !.ok = v.sems[m] > 0, !.sems[m] = @ - 1]
               [] e.op = "signal" -> [next EXCEPT !.sems[m] = @ + 1]
               [] OTHER           -> next

(* It follows the transition system as far as that goes.                   *)
LEMMA JudgedStep ==
    ASSUME NEW problem, ThreadProblem(problem), NEW c, ConfigOK(problem, c), NEW e, NEW d, Stepped(c, e, d)
    PROVE  JudgedEntry(AsVerdict(c), e) = AsVerdict(d)
  <1> DEFINE t == e.thread
             v == AsVerdict(c)
             next == [ok |-> TRUE, rest |-> d.rest, owner |-> c.owner, sems |-> c.sems]
  <1>1. t \in DOMAIN c.rest /\ c.rest[t] # <<>> /\ d.rest = RestAfter(c, t)
    <2>1. t \in DOMAIN problem.prog /\ c.rest[t] # <<>> /\ d.rest = RestAfter(c, t)
      BY SteppedFacts
    <2>2. DOMAIN c.rest = DOMAIN problem.prog
      BY DEF ConfigOK
    <2> QED
      BY <2>1, <2>2
  <1>2. /\ Head(c.rest[t]) = Op(e.op, e.arg) /\ Head(c.rest[t]).op = e.op /\ Head(c.rest[t]).arg = e.arg
        /\ e.thread = t
    <2>1. Head(c.rest[t]) \in Instructions(problem)
      BY <1>1, HeadTailProperties DEF ConfigOK
    <2>2. e = ThreadEvent(t, Head(c.rest[t]))
      BY DEF Stepped
    <2>3. e.op = Head(c.rest[t]).op /\ e.arg = Head(c.rest[t]).arg
      BY <2>2 DEF ThreadEvent
    <2> QED
      BY <2>1, <2>3 DEF ThreadProblem
  <1>3. [v EXCEPT !.rest[t] = Tail(@)] = next
    <2>1. v.rest = c.rest
      BY DEF AsVerdict
    <2>2. [v EXCEPT !.rest[t] = Tail(@)] = [v EXCEPT !.rest = [c.rest EXCEPT ![t] = Tail(@)]]
      BY <2>1
    <2>3. [v EXCEPT !.rest[t] = Tail(@)] = [v EXCEPT !.rest = d.rest]
      BY <1>1, <2>2 DEF RestAfter
    <2>4. PICK yes : yes = TRUE
      OBVIOUS
    <2>5. v = [ok |-> yes, rest |-> c.rest, owner |-> c.owner, sems |-> c.sems]
      BY <2>4 DEF AsVerdict
    <2>6. [[ok |-> yes, rest |-> c.rest, owner |-> c.owner, sems |-> c.sems] EXCEPT !.rest = d.rest]
              = [ok |-> yes, rest |-> d.rest, owner |-> c.owner, sems |-> c.sems]
      OBVIOUS
    <2>7. next = [ok |-> yes, rest |-> d.rest, owner |-> c.owner, sems |-> c.sems]
      BY <2>4
    <2> HIDE DEF v, next
    <2> QED
      BY <2>3, <2>5, <2>6, <2>7
  <1>4. v.ok /\ v.rest = c.rest /\ v.owner = c.owner /\ v.sems = c.sems
    BY DEF AsVerdict
  <1> DEFINE o == Head(c.rest[t])
             allowed == OpAllowed(c, t, o)
             a == e.arg
  <1>5. allowed /\ d = Moved(c, t, o)
    BY DEF Stepped
  <1>6. JudgedEntry(v, e) =
          CASE e.op = "lock"   -> [next EXCEPT !.ok = a \notin DOMAIN v.owner, !.owner = Taken(@, a, t)]
            [] e.op = "unlock" -> [next EXCEPT !.ok = Owns(v.owner, t, a), !.owner = Released(@, a)]
            [] e.op = "wait"   -> [next EXCEPT !.ok = v.sems[a] > 0, !.sems[a] = @ - 1]
            [] e.op = "signal" -> [next EXCEPT !.sems[a] = @ + 1]
            [] OTHER           -> next
    BY <1>1, <1>2, <1>3, <1>4 DEF JudgedEntry
  <1>7. d = [rest |-> d.rest, owner |-> d.owner, sems |-> d.sems]
    BY SteppedFacts DEF ConfigOK
  <1> HIDE DEF v
  <1>8. CASE e.op = "lock"
    <2>1. a \notin DOMAIN c.owner /\ d.owner = Taken(c.owner, a, t) /\ d.sems = c.sems
      BY <1>2, <1>5, <1>8 DEF OpAllowed, Moved
    <2>2. JudgedEntry(v, e) = [next EXCEPT !.ok = TRUE, !.owner = Taken(c.owner, a, t)]
      BY <1>4, <1>6, <1>8, <2>1
    <2> QED
      BY <2>1, <2>2 DEF AsVerdict, v
  <1>9. CASE e.op = "unlock"
    <2>1. Owns(c.owner, t, a) /\ d.owner = Released(c.owner, a) /\ d.sems = c.sems
      BY <1>2, <1>5, <1>9 DEF OpAllowed, Moved
    <2>2. JudgedEntry(v, e) = [next EXCEPT !.ok = Owns(v.owner, t, a), !.owner = Released(@, a)]
      BY <1>6, <1>9
    <2>3. Owns(v.owner, t, a) = TRUE
      BY <1>4, <2>1 DEF Owns
    <2>4. JudgedEntry(v, e) = [next EXCEPT !.ok = TRUE, !.owner = Released(@, a)]
      BY <2>2, <2>3
    <2>5. JudgedEntry(v, e) = [next EXCEPT !.ok = TRUE, !.owner = Released(c.owner, a)]
      BY <2>4
    <2> QED
      BY <2>1, <2>5 DEF AsVerdict, v
  <1>10. CASE e.op = "wait"
    <2>1. c.sems[a] > 0 /\ d.owner = c.owner /\ d.sems = [c.sems EXCEPT ![a] = @ - 1]
      BY <1>2, <1>5, <1>10 DEF OpAllowed, Moved
    <2>2. JudgedEntry(v, e) = [next EXCEPT !.ok = v.sems[a] > 0, !.sems[a] = @ - 1]
      BY <1>6, <1>10
    <2>3. (v.sems[a] > 0) = TRUE
      BY <1>4, <2>1
    <2>4. JudgedEntry(v, e) = [next EXCEPT !.ok = TRUE, !.sems[a] = @ - 1]
      BY <2>2, <2>3
    <2>5. JudgedEntry(v, e) = [next EXCEPT !.ok = TRUE, !.sems = [c.sems EXCEPT ![a] = @ - 1]]
      BY <2>4
    <2> QED
      BY <2>1, <2>5 DEF AsVerdict, v
  <1>11. CASE e.op = "signal"
    <2>1. d.owner = c.owner /\ d.sems = [c.sems EXCEPT ![a] = @ + 1]
      BY <1>2, <1>5, <1>11 DEF OpAllowed, Moved
    <2>2. JudgedEntry(v, e) = [next EXCEPT !.sems[a] = @ + 1]
      BY <1>6, <1>11
    <2> QED
      BY <2>1, <2>2 DEF AsVerdict, v
  <1>12. CASE e.op \notin {"lock", "unlock", "wait", "signal"}
    <2>1. d.owner = c.owner /\ d.sems = c.sems
      BY <1>2, <1>5, <1>12 DEF OpAllowed, Moved
    <2>2. JudgedEntry(v, e) = next
      BY <1>6, <1>12
    <2> QED
      BY <2>1, <2>2 DEF AsVerdict, v
  <1> QED
    BY <1>8, <1>9, <1>10, <1>11, <1>12 DEF v

(* Where that does not go on, it finds a broken rule, and keeps to that.   *)
Broken(v) == "ok" \in DOMAIN v /\ v.ok = FALSE

LEMMA JudgedBroken ==
    ASSUME NEW e
    PROVE  /\ \A v : Broken(v) => Broken(JudgedEntry(v, e))
           /\ \A problem, c : /\ ThreadProblem(problem) /\ ConfigOK(problem, c) /\ e \in EventsOf(problem)
                              /\ \A d : ~Stepped(c, e, d)
                              => Broken(JudgedEntry(AsVerdict(c), e))
  <1>1. ASSUME NEW v, Broken(v)
        PROVE  Broken(JudgedEntry(v, e))
    BY <1>1 DEF Broken, JudgedEntry
  <1>2. ASSUME NEW problem, NEW c, ThreadProblem(problem), ConfigOK(problem, c), e \in EventsOf(problem), \A d : ~Stepped(c, e, d)
        PROVE  Broken(JudgedEntry(AsVerdict(c), e))
    <2> DEFINE t == e.thread
               a == e.arg
               v == AsVerdict(c)
               next == [v EXCEPT !.rest[t] = Tail(@)]
    <2>1. t \in DOMAIN c.rest /\ e = [thread |-> t, op |-> e.op, arg |-> a]
      BY <1>2 DEF EventsOf, ThreadEvent, ConfigOK
    <2>2. DOMAIN v = {"ok", "rest", "owner", "sems"} /\ v.rest = c.rest /\ v.owner = c.owner /\ v.sems = c.sems
      BY DEF AsVerdict
    <2>3. "ok" \in DOMAIN next
      BY <2>2
    <2> HIDE DEF v, next
    <2>4. CASE v.rest[t] = <<>> \/ Head(v.rest[t]) # Op(e.op, a)
      <3>1. JudgedEntry(v, e) = [v EXCEPT !.ok = FALSE]
        BY <2>4 DEF JudgedEntry
      <3> QED
        BY <2>2, <3>1 DEF Broken, v
    <2>5. CASE ~(v.rest[t] = <<>> \/ Head(v.rest[t]) # Op(e.op, a))
      <3> DEFINE o == Head(c.rest[t])
      <3>1. c.rest[t] # <<>> /\ o = Op(e.op, a) /\ o.op = e.op /\ o.arg = a
        BY <2>2, <2>5 DEF Op
      <3>2. e = ThreadEvent(t, o)
        BY <2>1, <3>1 DEF ThreadEvent
      <3>3. ~OpAllowed(c, t, o)
        <4>1. ~Stepped(c, e, Moved(c, t, o))
          BY <1>2
        <4> QED
          BY <2>1, <3>1, <3>2, <4>1 DEF Stepped, NotFinished
      <3>4. v.ok
        BY DEF v, AsVerdict
      <3>5. CASE e.op = "lock"
        <4>1. a \in DOMAIN v.owner
          BY <2>2, <3>1, <3>3, <3>5 DEF OpAllowed
        <4>2. JudgedEntry(v, e) = [next EXCEPT !.ok = a \notin DOMAIN v.owner, !.owner = Taken(@, a, t)]
          BY <2>5, <3>4, <3>5 DEF JudgedEntry, next
        <4>3. JudgedEntry(v, e) = [next EXCEPT !.ok = FALSE, !.owner = Taken(@, a, t)]
          BY <4>1, <4>2
        <4> QED
          BY <2>3, <4>3 DEF Broken, v
      <3>6. CASE e.op = "unlock"
        <4>1. ~Owns(v.owner, t, a)
          BY <2>2, <3>1, <3>3, <3>6 DEF OpAllowed
        <4>2. JudgedEntry(v, e) = [next EXCEPT !.ok = Owns(v.owner, t, a), !.owner = Released(@, a)]
          BY <2>5, <3>4, <3>6 DEF JudgedEntry, next
        <4>3. JudgedEntry(v, e) = [next EXCEPT !.ok = FALSE, !.owner = Released(@, a)]
          BY <4>1, <4>2 DEF Owns
        <4> QED
          BY <2>3, <4>3 DEF Broken, v
      <3>7. CASE e.op = "wait"
        <4>1. ~(v.sems[a] > 0)
          BY <2>2, <3>1, <3>3, <3>7 DEF OpAllowed
        <4>2. JudgedEntry(v, e) = [next EXCEPT !.ok = v.sems[a] > 0, !.sems[a] = @ - 1]
          BY <2>5, <3>4, <3>7 DEF JudgedEntry, next
        <4>3. (v.sems[a] > 0) = FALSE
          BY <4>1
        <4>4. JudgedEntry(v, e) = [next EXCEPT !.ok = FALSE, !.sems[a] = @ - 1]
          BY <4>2, <4>3
        <4> QED
          BY <2>3, <4>4 DEF Broken, v
      <3>8. e.op \in {"lock", "unlock", "wait"}
        BY <3>1, <3>3 DEF OpAllowed
      <3> QED
        BY <3>5, <3>6, <3>7, <3>8
    <2> QED
      BY <2>4, <2>5 DEF v
  <1> QED
    BY <1>1, <1>2

(* The tables of the validator's verdicts, of the configurations that are  *)
(* consistent with a trace, and of the enumerator's runs.                  *)
FirstVerdict(problem) == [ok |-> TRUE, rest |-> problem.prog, owner |-> <<>>, sems |-> problem.sems]

AreVerdicts(f, problem, trace, m) ==
    f = [n \in 0 .. m |-> IF n = 0 THEN FirstVerdict(problem) ELSE JudgedEntry(f[n - 1], trace[n])]

By(c, e) == {x.state : x \in {x \in ThreadSteps(c) : x.event = e}}

AreConfigs(f, problem, trace, m) ==
    f = [n \in 0 .. m |-> IF n = 0 THEN {InitialConfig(problem)} ELSE UNION {By(c, trace[n]) : c \in f[n - 1]}]

Longer(run) == {[events |-> Append(run.events, x.event), state |-> x.state] : x \in ThreadSteps(run.state)}
FirstRun(problem) == [events |-> <<>>, state |-> InitialConfig(problem)]

AreRuns(f, problem, m) ==
    f = [n \in 0 .. m |-> IF n = 0 THEN {FirstRun(problem)} ELSE UNION {Longer(run) : run \in f[n - 1]}]

LEMMA VerdictsExist ==
    ASSUME NEW problem, NEW trace, NEW m \in Nat
    PROVE  \E f : AreVerdicts(f, problem, trace, m)
  <1> DEFINE Next(g, n) == IF n = 0 THEN FirstVerdict(problem) ELSE JudgedEntry(g[n - 1], trace[n])
             T == {k \in Nat : \E f : f = [n \in 0 .. k |-> Next(f, n)]}
  <1>1. 0 \in T
    <2> DEFINE f == [n \in 0 .. 0 |-> FirstVerdict(problem)]
    <2>1. f = [n \in 0 .. 0 |-> Next(f, n)]
      OBVIOUS
    <2> HIDE DEF f
    <2> QED
      BY <2>1
  <1>2. ASSUME NEW k \in Nat, k \in T
        PROVE  k + 1 \in T
    <2>1. PICK f : f = [n \in 0 .. k |-> Next(f, n)]
      BY <1>2
    <2> DEFINE g == [n \in 0 .. k + 1 |-> IF n = k + 1 THEN Next(f, n) ELSE f[n]]
    <2>2. \A n \in 0 .. k : f[n] = Next(f, n)
      <3> HIDE DEF Next
      <3> QED
        BY <2>1
    <2>3. ASSUME NEW n \in 0 .. k + 1
          PROVE  g[n] = Next(g, n)
      <3>1. g[n] = Next(f, n)
        <4> HIDE DEF Next
        <4> QED
          BY <2>2
      <3>2. n # 0 => g[n - 1] = f[n - 1]
        OBVIOUS
      <3> HIDE DEF g
      <3> QED
        BY <3>1, <3>2
    <2>4. g = [n \in 0 .. k + 1 |-> Next(g, n)]
      <3> HIDE DEF Next
      <3> QED
        BY <2>3
    <2> HIDE DEF g, Next
    <2>5. \E h : h = [n \in 0 .. k + 1 |-> Next(h, n)]
      BY <2>4
    <2> QED
      BY <2>5
  <1> HIDE DEF T
  <1>3. m \in T
    BY <1>1, <1>2, Induction
  <1> QED
    BY <1>3 DEF T, AreVerdicts

LEMMA ConfigsExist ==
    ASSUME NEW problem, NEW trace, NEW m \in Nat
    PROVE  \E f : AreConfigs(f, problem, trace, m)
  <1> DEFINE Next(g, n) == IF n = 0 THEN {InitialConfig(problem)} ELSE UNION {By(c, trace[n]) : c \in g[n - 1]}
             T == {k \in Nat : \E f : f = [n \in 0 .. k |-> Next(f, n)]}
  <1>1. 0 \in T
    <2> DEFINE f == [n \in 0 .. 0 |-> {InitialConfig(problem)}]
    <2>1. f = [n \in 0 .. 0 |-> Next(f, n)]
      OBVIOUS
    <2> HIDE DEF f
    <2> QED
      BY <2>1
  <1>2. ASSUME NEW k \in Nat, k \in T
        PROVE  k + 1 \in T
    <2>1. PICK f : f = [n \in 0 .. k |-> Next(f, n)]
      BY <1>2
    <2> DEFINE g == [n \in 0 .. k + 1 |-> IF n = k + 1 THEN Next(f, n) ELSE f[n]]
    <2>2. \A n \in 0 .. k : f[n] = Next(f, n)
      <3> HIDE DEF Next
      <3> QED
        BY <2>1
    <2>3. ASSUME NEW n \in 0 .. k + 1
          PROVE  g[n] = Next(g, n)
      <3>1. g[n] = Next(f, n)
        <4> HIDE DEF Next
        <4> QED
          BY <2>2
      <3>2. n # 0 => g[n - 1] = f[n - 1]
        OBVIOUS
      <3> HIDE DEF g
      <3> QED
        BY <3>1, <3>2
    <2>4. g = [n \in 0 .. k + 1 |-> Next(g, n)]
      <3> HIDE DEF Next
      <3> QED
        BY <2>3
    <2> HIDE DEF g, Next
    <2>5. \E h : h = [n \in 0 .. k + 1 |-> Next(h, n)]
      BY <2>4
    <2> QED
      BY <2>5
  <1> HIDE DEF T
  <1>3. m \in T
    BY <1>1, <1>2, Induction
  <1> QED
    BY <1>3 DEF T, AreConfigs

LEMMA RunsExist ==
    ASSUME NEW problem, NEW m \in Nat
    PROVE  \E f : AreRuns(f, problem, m)
  <1> DEFINE Next(g, n) == IF n = 0 THEN {FirstRun(problem)} ELSE UNION {Longer(run) : run \in g[n - 1]}
             T == {k \in Nat : \E f : f = [n \in 0 .. k |-> Next(f, n)]}
  <1>1. 0 \in T
    <2> DEFINE f == [n \in 0 .. 0 |-> {FirstRun(problem)}]
    <2>1. f = [n \in 0 .. 0 |-> Next(f, n)]
      OBVIOUS
    <2> HIDE DEF f
    <2> QED
      BY <2>1
  <1>2. ASSUME NEW k \in Nat, k \in T
        PROVE  k + 1 \in T
    <2>1. PICK f : f = [n \in 0 .. k |-> Next(f, n)]
      BY <1>2
    <2> DEFINE g == [n \in 0 .. k + 1 |-> IF n = k + 1 THEN Next(f, n) ELSE f[n]]
    <2>2. \A n \in 0 .. k : f[n] = Next(f, n)
      <3> HIDE DEF Next
      <3> QED
        BY <2>1
    <2>3. ASSUME NEW n \in 0 .. k + 1
          PROVE  g[n] = Next(g, n)
      <3>1. g[n] = Next(f, n)
        <4> HIDE DEF Next
        <4> QED
          BY <2>2
      <3>2. n # 0 => g[n - 1] = f[n - 1]
        OBVIOUS
      <3> HIDE DEF g
      <3> QED
        BY <3>1, <3>2
    <2>4. g = [n \in 0 .. k + 1 |-> Next(g, n)]
      <3> HIDE DEF Next
      <3> QED
        BY <2>3
    <2> HIDE DEF g, Next
    <2>5. \E h : h = [n \in 0 .. k + 1 |-> Next(h, n)]
      BY <2>4
    <2> QED
      BY <2>5
  <1> HIDE DEF T
  <1>3. m \in T
    BY <1>1, <1>2, Induction
  <1> QED
    BY <1>3 DEF T, AreRuns

LEMMA JudgedByTable ==
    ASSUME NEW problem, NEW trace, Len(trace) \in Nat
    PROVE  \E f : /\ AreVerdicts(f, problem, trace, Len(trace))
                  /\ JudgeEvents(problem, trace) =
                        IF ~f[Len(trace)].ok THEN "broken" ELSE IF NotFinished(f[Len(trace)]) # {} THEN "incomplete" ELSE "ok"
  <1> DEFINE f == CHOOSE g : AreVerdicts(g, problem, trace, Len(trace))
  <1>1. AreVerdicts(f, problem, trace, Len(trace))
    BY VerdictsExist
  <1>2. JudgeEvents(problem, trace) =
            IF ~f[Len(trace)].ok THEN "broken" ELSE IF NotFinished(f[Len(trace)]) # {} THEN "incomplete" ELSE "ok"
    BY DEF JudgeEvents, AreVerdicts, FirstVerdict, JudgedEntry
  <1> QED
    BY <1>1, <1>2

LEMMA FollowedByTable ==
    ASSUME NEW problem, NEW trace, Len(trace) \in Nat
    PROVE  \E f : /\ AreConfigs(f, problem, trace, Len(trace))
                  /\ Follows(problem, trace) <=> \E c \in f[Len(trace)] : NotFinished(c) = {}
  <1> DEFINE f == CHOOSE g : AreConfigs(g, problem, trace, Len(trace))
  <1>1. AreConfigs(f, problem, trace, Len(trace))
    BY ConfigsExist
  <1>2. Follows(problem, trace) <=> \E c \in f[Len(trace)] : NotFinished(c) = {}
    BY DEF Follows, AreConfigs, By
  <1> QED
    BY <1>1, <1>2

LEMMA InterleavedByTable ==
    ASSUME NEW problem, OpsLeft(InitialConfig(problem)) \in Nat
    PROVE  \E f : /\ AreRuns(f, problem, OpsLeft(InitialConfig(problem)))
                  /\ Interleavings(problem) = {run.events : run \in f[OpsLeft(InitialConfig(problem))]}
  <1> DEFINE m == OpsLeft(InitialConfig(problem))
             f == CHOOSE g : AreRuns(g, problem, m)
  <1>1. AreRuns(f, problem, m)
    BY RunsExist
  <1>2. Interleavings(problem) = {run.events : run \in f[m]}
    BY DEF Interleavings, AreRuns, Longer, FirstRun
  <1> QED
    BY <1>1, <1>2

LEMMA ByFacts ==
    ASSUME NEW c, NEW e
    PROVE  /\ \A d : Stepped(c, e, d) => By(c, e) = {d}
           /\ (\A d : ~Stepped(c, e, d)) => By(c, e) = {}
  <1>1. \A x \in By(c, e) : Stepped(c, e, x)
    BY StepsAre DEF By
  <1>2. ASSUME NEW d, Stepped(c, e, d)
        PROVE  d \in By(c, e)
    <2> DEFINE x == [event |-> e, state |-> d]
    <2>1. x \in ThreadSteps(c) /\ x.event = e /\ x.state = d
      BY <1>2, StepsAre
    <2> QED
      BY <2>1 DEF By
  <1>3. \A d, x : Stepped(c, e, d) /\ Stepped(c, e, x) => x = d
    BY DEF Stepped
  <1> QED
    BY <1>1, <1>2, <1>3

(* Validator and transition system: as long as no rule is broken there is  *)
(* one configuration, and it is the validator's.                           *)
Agree(problem, v, configs) ==
    \/ \E c : ConfigOK(problem, c) /\ v = AsVerdict(c) /\ configs = {c}
    \/ Broken(v) /\ configs = {}

LEMMA AgreeStep ==
    ASSUME NEW problem, ThreadProblem(problem), NEW v, NEW configs, Agree(problem, v, configs), NEW e \in EventsOf(problem)
    PROVE  Agree(problem, JudgedEntry(v, e), UNION {By(c, e) : c \in configs})
  <1> DEFINE next == UNION {By(c, e) : c \in configs}
  <1>1. CASE Broken(v) /\ configs = {}
    <2>1. next = {}
      BY <1>1
    <2>2. Broken(JudgedEntry(v, e))
      BY <1>1, JudgedBroken
    <2> QED
      BY <2>1, <2>2 DEF Agree
  <1>2. CASE \E c : ConfigOK(problem, c) /\ v = AsVerdict(c) /\ configs = {c}
    <2>1. PICK c : ConfigOK(problem, c) /\ v = AsVerdict(c) /\ configs = {c}
      BY <1>2
    <2>2. next = By(c, e)
      BY <2>1
    <2> HIDE DEF next
    <2>3. CASE \E d : Stepped(c, e, d)
      <3>1. PICK d : Stepped(c, e, d)
        BY <2>3
      <3>2. next = {d} /\ ConfigOK(problem, d) /\ JudgedEntry(v, e) = AsVerdict(d)
        BY <2>1, <2>2, <3>1, ByFacts, SteppedFacts, JudgedStep
      <3> QED
        BY <3>2 DEF Agree, next
    <2>4. CASE \A d : ~Stepped(c, e, d)
      <3>1. next = {} /\ Broken(JudgedEntry(v, e))
        BY <2>1, <2>2, <2>4, ByFacts, JudgedBroken
      <3> QED
        BY <3>1 DEF Agree, next
    <2> QED
      BY <2>3, <2>4
  <1> QED
    BY <1>1, <1>2 DEF Agree

LEMMA TablesAgree ==
    ASSUME NEW problem, ThreadProblem(problem), NEW trace \in Seq(EventsOf(problem)),
           NEW f, AreVerdicts(f, problem, trace, Len(trace)), NEW g, AreConfigs(g, problem, trace, Len(trace)),
           NEW m \in 0 .. Len(trace)
    PROVE  Agree(problem, f[m], g[m])
  <1> DEFINE Onto(X, n) == UNION {By(c, trace[n]) : c \in X}
             first == InitialConfig(problem)
             T == {n \in Nat : n <= Len(trace) => Agree(problem, f[n], g[n])}
  <1>1. Len(trace) \in Nat /\ \A n \in 1 .. Len(trace) : trace[n] \in EventsOf(problem)
    BY NamedFacts
  <1>2. \A n \in 0 .. Len(trace) : f[n] = IF n = 0 THEN FirstVerdict(problem) ELSE JudgedEntry(f[n - 1], trace[n])
    BY DEF AreVerdicts
  <1>3. \A n \in 0 .. Len(trace) : g[n] = IF n = 0 THEN {first} ELSE Onto(g[n - 1], n)
    <2>1. g = [n \in 0 .. Len(trace) |-> IF n = 0 THEN {first} ELSE Onto(g[n - 1], n)]
      BY DEF AreConfigs
    <2> HIDE DEF Onto, first
    <2> QED
      BY <2>1
  <1>4. 0 \in T
    <2>1. AsVerdict(first) = FirstVerdict(problem)
      BY DEF AsVerdict, FirstVerdict, InitialConfig
    <2>2. ConfigOK(problem, first)
      BY FirstConfig
    <2> HIDE DEF first, Onto
    <2>3. 0 \in 0 .. Len(trace) /\ f[0] = FirstVerdict(problem) /\ g[0] = {first}
      BY <1>1, <1>2, <1>3
    <2> QED
      BY <2>1, <2>2, <2>3 DEF Agree
  <1>5. ASSUME NEW n \in Nat, n \in T
        PROVE  n + 1 \in T
    <2> SUFFICES ASSUME n + 1 <= Len(trace)
                 PROVE  Agree(problem, f[n + 1], g[n + 1])
      OBVIOUS
    <2>1. Agree(problem, f[n], g[n]) /\ n + 1 \in 1 .. Len(trace) /\ trace[n + 1] \in EventsOf(problem)
      BY <1>1, <1>5
    <2>2. f[n + 1] = JudgedEntry(f[n], trace[n + 1]) /\ g[n + 1] = Onto(g[n], n + 1)
      <3> HIDE DEF Onto
      <3> QED
        BY <1>1, <1>2, <1>3, <2>1
    <2>3. Agree(problem, JudgedEntry(f[n], trace[n + 1]), Onto(g[n], n + 1))
      BY <2>1, AgreeStep
    <2> QED
      BY <2>2, <2>3
  <1> HIDE DEF T
  <1>6. m \in T
    BY <1>1, <1>4, <1>5, Induction
  <1> QED
    BY <1>6 DEF T

LEMMA EventsAgree ==
    ASSUME NEW problem, ThreadProblem(problem), NEW trace \in Seq(EventsOf(problem))
    PROVE  JudgeEvents(problem, trace) = "ok" <=> Follows(problem, trace)
  <1>1. Len(trace) \in Nat
    BY LenProperties
  <1>2. PICK f : /\ AreVerdicts(f, problem, trace, Len(trace))
                 /\ JudgeEvents(problem, trace) =
                      IF ~f[Len(trace)].ok THEN "broken" ELSE IF NotFinished(f[Len(trace)]) # {} THEN "incomplete" ELSE "ok"
    BY <1>1, JudgedByTable
  <1>3. PICK g : AreConfigs(g, problem, trace, Len(trace)) /\ (Follows(problem, trace) <=> \E c \in g[Len(trace)] : NotFinished(c) = {})
    BY <1>1, FollowedByTable
  <1> DEFINE v == f[Len(trace)]
             configs == g[Len(trace)]
  <1>4. Agree(problem, v, configs)
    BY <1>1, <1>2, <1>3, TablesAgree
  <1>5. ASSUME NEW c, v = AsVerdict(c)
        PROVE  v.ok /\ NotFinished(v) = NotFinished(c)
    <2> HIDE DEF v
    <2> QED
      BY <1>5 DEF AsVerdict, NotFinished
  <1> HIDE DEF v, configs
  <1>6. CASE Broken(v) /\ configs = {}
    BY <1>2, <1>3, <1>6 DEF Broken, v, configs
  <1>7. CASE \E c : ConfigOK(problem, c) /\ v = AsVerdict(c) /\ configs = {c}
    <2>1. PICK c : v = AsVerdict(c) /\ configs = {c}
      BY <1>7
    <2>2. v.ok /\ NotFinished(v) = NotFinished(c)
      BY <1>5, <2>1
    <2>3. JudgeEvents(problem, trace) = "ok" <=> NotFinished(c) = {}
      BY <1>2, <2>2 DEF v
    <2>4. Follows(problem, trace) <=> NotFinished(c) = {}
      BY <1>3, <2>1 DEF configs
    <2> QED
      BY <2>3, <2>4
  <1> QED
    BY <1>4, <1>6, <1>7 DEF Agree

----------------------------------------------------------------------------
(* What the enumerator yields is judged to be valid: the validator's       *)
(* verdict on what a run did is the run's state, and a run takes as many   *)
(* steps as there are operations.                                          *)

RunOK(problem, run, n) ==
    /\ run.events \in Seq(EventsOf(problem)) /\ Len(run.events) = n
    /\ ConfigOK(problem, run.state)
    /\ OpsLeft(run.state) = OpsLeft(InitialConfig(problem)) - n
    /\ \A f : AreVerdicts(f, problem, run.events, n) => f[n] = AsVerdict(run.state)

LEMMA OpsLeftFacts ==
    ASSUME NEW problem, ThreadProblem(problem), NEW c, ConfigOK(problem, c)
    PROVE  OpsLeft(c) \in Nat /\ (OpsLeft(c) = 0 => NotFinished(c) = {})
  <1> DEFINE C == DOMAIN problem.prog
             f == [u \in C |-> Len(c.rest[u])]
             zero == [u \in C |-> 0]
  <1>1. IsFiniteSet(C) /\ DOMAIN c.rest = C /\ \A u \in C : c.rest[u] \in Seq(Instructions(problem))
    BY DEF ThreadProblem, ConfigOK
  <1>2. \A u \in C : f[u] \in Nat /\ f[u] \in Int /\ zero[u] = 0 /\ zero[u] \in Int /\ zero[u] <= f[u]
    BY <1>1, LenProperties
  <1>3. OpsLeft(c) = SumFunctionOnSet(f, C)
    <2>1. OpsLeft(c) = SumFunction(f)
      BY <1>1 DEF OpsLeft
    <2>2. DOMAIN f = C
      OBVIOUS
    <2> HIDE DEF f
    <2> QED
      BY <2>1, <2>2 DEF SumFunction
  <1> HIDE DEF f, zero, C
  <1>4. SumFunctionOnSet(f, C) \in Int /\ SumFunctionOnSet(zero, C) = 0 /\ SumFunctionOnSet(zero, C) <= SumFunctionOnSet(f, C)
    BY <1>1, <1>2, SumType, SumOfZeros, SumGrows
  <1>5. ASSUME SumFunctionOnSet(f, C) = 0, NEW u \in C, f[u] # 0
        PROVE  FALSE
    <2>1. SumFunctionOnSet(f, C) = f[u] + SumFunctionOnSet(f, C \ {u})
      BY <1>1, <1>2, SumStep
    <2> DEFINE D == C \ {u}
    <2>2. IsFiniteSet(D) /\ \A x \in D : f[x] \in Int /\ zero[x] \in Int /\ zero[x] <= f[x] /\ zero[x] = 0
      BY <1>1, <1>2, FS_Subset
    <2> HIDE DEF D
    <2>3. SumFunctionOnSet(f, D) \in Int /\ SumFunctionOnSet(zero, D) = 0 /\ SumFunctionOnSet(zero, D) <= SumFunctionOnSet(f, D)
      BY <2>2, SumType, SumOfZeros, SumGrows
    <2>4. f[u] \in Nat
      BY <1>2
    <2> QED
      BY <1>5, <2>1, <2>3, <2>4 DEF D
  <1>6. ASSUME OpsLeft(c) = 0
        PROVE  NotFinished(c) = {}
    <2>1. \A u \in C : f[u] = 0
      BY <1>3, <1>5, <1>6
    <2>2. \A u \in C : Len(c.rest[u]) = 0
      BY <2>1 DEF f
    <2>3. \A u \in C : c.rest[u] = <<>>
      BY <1>1, <2>2, EmptySeq
    <2> QED
      BY <1>1, <2>3 DEF NotFinished
  <1> QED
    BY <1>3, <1>4, <1>6

LEMMA RunGrows ==
    ASSUME NEW problem, ThreadProblem(problem), NEW n \in Nat, NEW run, RunOK(problem, run, n), NEW longer \in Longer(run)
    PROVE  RunOK(problem, longer, n + 1)
  <1>1. PICK x \in ThreadSteps(run.state) : longer = [events |-> Append(run.events, x.event), state |-> x.state]
    BY DEF Longer
  <1> DEFINE e == x.event
             d == x.state
             more == Append(run.events, e)
  <1>2. /\ run.events \in Seq(EventsOf(problem)) /\ Len(run.events) = n /\ ConfigOK(problem, run.state)
        /\ OpsLeft(run.state) = OpsLeft(InitialConfig(problem)) - n
        /\ \A f : AreVerdicts(f, problem, run.events, n) => f[n] = AsVerdict(run.state)
    BY DEF RunOK
  <1>3. Stepped(run.state, e, d)
    BY StepsAre
  <1>4. longer.events = more /\ longer.state = d
    BY <1>1
  <1> HIDE DEF e, d, more
  <1>5. e \in EventsOf(problem) /\ ConfigOK(problem, d)
    BY <1>2, <1>3, SteppedFacts
  <1>6. OpsLeft(d) = OpsLeft(InitialConfig(problem)) - (n + 1)
    <2>1. OpsLeft(InitialConfig(problem)) \in Nat
      BY FirstConfig, OpsLeftFacts
    <2>2. OpsLeft(run.state) \in Nat /\ OpsLeft(d) = OpsLeft(run.state) - 1
      BY <1>2, <1>3, StepTakesOne
    <2> QED
      BY <1>2, <2>1, <2>2
  <1>7. /\ more \in Seq(EventsOf(problem)) /\ Len(more) = n + 1 /\ more[n + 1] = e
        /\ \A i \in 1 .. n : more[i] = run.events[i]
    BY <1>2, <1>5, AppendProperties DEF more
  <1>8. ASSUME NEW f, AreVerdicts(f, problem, more, n + 1)
        PROVE  f[n + 1] = AsVerdict(d)
    <2> DEFINE g == [i \in 0 .. n |-> f[i]]
    <2>1. \A i \in 0 .. n + 1 : f[i] = IF i = 0 THEN FirstVerdict(problem) ELSE JudgedEntry(f[i - 1], more[i])
      BY <1>8 DEF AreVerdicts
    <2>2. ASSUME NEW i \in 0 .. n
          PROVE  g[i] = IF i = 0 THEN FirstVerdict(problem) ELSE JudgedEntry(g[i - 1], run.events[i])
      <3>1. i = 0 => g[i] = FirstVerdict(problem)
        BY <2>1
      <3>2. ASSUME i # 0
            PROVE  g[i] = JudgedEntry(g[i - 1], run.events[i])
        <4>1. i \in 1 .. n /\ i \in 0 .. n + 1 /\ i - 1 \in 0 .. n
          BY <3>2
        <4>2. g[i] = f[i] /\ g[i - 1] = f[i - 1] /\ more[i] = run.events[i]
          BY <1>7, <4>1
        <4> HIDE DEF g
        <4> QED
          BY <2>1, <3>2, <4>1, <4>2
      <3> QED
        BY <3>1, <3>2
    <2>3. AreVerdicts(g, problem, run.events, n)
      <3>1. g = [i \in 0 .. n |-> g[i]]
        OBVIOUS
      <3> HIDE DEF g
      <3> QED
        BY <2>2, <3>1 DEF AreVerdicts
    <2>4. g[n] = AsVerdict(run.state) /\ g[n] = f[n]
      BY <1>2, <2>3
    <2>5. f[n + 1] = JudgedEntry(f[n], e)
      BY <1>7, <2>1
    <2>6. \A c : ConfigOK(problem, c) /\ Stepped(c, e, d) => JudgedEntry(AsVerdict(c), e) = AsVerdict(d)
      BY JudgedStep
    <2> HIDE DEF g
    <2> QED
      BY <1>2, <1>3, <2>4, <2>5, <2>6
  <1> QED
    BY <1>4, <1>5, <1>6, <1>7, <1>8 DEF RunOK

LEMMA RunsAreOK ==
    ASSUME NEW problem, ThreadProblem(problem), NEW m \in Nat, NEW f, AreRuns(f, problem, m), NEW k \in 0 .. m
    PROVE  \A run \in f[k] : RunOK(problem, run, k)
  <1> DEFINE Onto(X) == UNION {Longer(run) : run \in X}
             T == {n \in Nat : n <= m => \A run \in f[n] : RunOK(problem, run, n)}
  <1>1. \A n \in 0 .. m : f[n] = IF n = 0 THEN {FirstRun(problem)} ELSE Onto(f[n - 1])
    <2>1. f = [n \in 0 .. m |-> IF n = 0 THEN {FirstRun(problem)} ELSE Onto(f[n - 1])]
      BY DEF AreRuns
    <2> HIDE DEF Onto
    <2> QED
      BY <2>1
  <1>2. 0 \in T
    <2> DEFINE run == FirstRun(problem)
    <2>1. run.events = <<>> /\ run.state = InitialConfig(problem)
      BY DEF FirstRun
    <2>2. <<>> \in Seq(EventsOf(problem)) /\ Len(<<>>) = 0 /\ ConfigOK(problem, InitialConfig(problem))
      BY FirstConfig, EmptySeq
    <2>3. OpsLeft(InitialConfig(problem)) = OpsLeft(InitialConfig(problem)) - 0
      BY <2>2, OpsLeftFacts
    <2>4. AsVerdict(InitialConfig(problem)) = FirstVerdict(problem)
      BY DEF AsVerdict, FirstVerdict, InitialConfig
    <2>5. \A g : AreVerdicts(g, problem, <<>>, 0) => g[0] = AsVerdict(InitialConfig(problem))
      BY <2>4 DEF AreVerdicts
    <2> HIDE DEF run
    <2>6. RunOK(problem, run, 0)
      BY <2>1, <2>2, <2>3, <2>5 DEF RunOK
    <2>7. f[0] = {run}
      <3>1. 0 \in 0 .. m
        OBVIOUS
      <3> HIDE DEF Onto
      <3> QED
        BY <1>1, <3>1 DEF run
    <2> QED
      BY <2>6, <2>7
  <1>3. ASSUME NEW n \in Nat, n \in T
        PROVE  n + 1 \in T
    <2> SUFFICES ASSUME n + 1 <= m, NEW longer \in f[n + 1]
                 PROVE  RunOK(problem, longer, n + 1)
      OBVIOUS
    <2>1. f[n + 1] = Onto(f[n])
      <3>1. n + 1 \in 0 .. m /\ n + 1 # 0 /\ n + 1 - 1 = n
        OBVIOUS
      <3> HIDE DEF Onto
      <3> QED
        BY <1>1, <3>1
    <2>2. PICK run \in f[n] : longer \in Longer(run)
      BY <2>1
    <2>3. RunOK(problem, run, n)
      BY <1>3, <2>2
    <2> QED
      BY <2>2, <2>3, RunGrows
  <1> HIDE DEF T
  <1>4. k \in T
    BY <1>2, <1>3, Induction
  <1> QED
    BY <1>4 DEF T

LEMMA InterleavingsAreValid ==
    ASSUME NEW problem, ThreadProblem(problem)
    PROVE  /\ \A trace \in Interleavings(problem) :
                 /\ trace \in Seq(EventsOf(problem)) /\ Len(trace) = OpsLeft(InitialConfig(problem))
                 /\ JudgeEvents(problem, trace) = "ok"
           /\ OpsLeft(InitialConfig(problem)) \in Nat
  <1> DEFINE m == OpsLeft(InitialConfig(problem))
  <1>1. m \in Nat
    BY FirstConfig, OpsLeftFacts
  <1>2. PICK f : AreRuns(f, problem, m) /\ Interleavings(problem) = {run.events : run \in f[m]}
    BY <1>1, InterleavedByTable
  <1> SUFFICES ASSUME NEW trace \in Interleavings(problem)
               PROVE  trace \in Seq(EventsOf(problem)) /\ Len(trace) = m /\ JudgeEvents(problem, trace) = "ok"
    BY <1>1
  <1>3. PICK run \in f[m] : trace = run.events
    BY <1>2
  <1>4. m \in 0 .. m
    BY <1>1
  <1>5. RunOK(problem, run, m)
    BY <1>1, <1>2, <1>4, RunsAreOK
  <1>6. /\ trace \in Seq(EventsOf(problem)) /\ Len(trace) = m /\ ConfigOK(problem, run.state)
        /\ OpsLeft(run.state) = m - m
        /\ \A g : AreVerdicts(g, problem, trace, m) => g[m] = AsVerdict(run.state)
    BY <1>3, <1>5 DEF RunOK
  <1> HIDE DEF m
  <1>7. NotFinished(run.state) = {}
    BY <1>1, <1>6, OpsLeftFacts
  <1>8. PICK g : /\ AreVerdicts(g, problem, trace, Len(trace))
                 /\ JudgeEvents(problem, trace) =
                      IF ~g[Len(trace)].ok THEN "broken" ELSE IF NotFinished(g[Len(trace)]) # {} THEN "incomplete" ELSE "ok"
    BY <1>1, <1>6, JudgedByTable
  <1>9. g[Len(trace)] = AsVerdict(run.state)
    BY <1>6, <1>8
  <1>10. AsVerdict(run.state).ok /\ NotFinished(AsVerdict(run.state)) = NotFinished(run.state)
    BY DEF AsVerdict, NotFinished
  <1>11. JudgeEvents(problem, trace) = "ok"
    BY <1>7, <1>8, <1>9, <1>10
  <1> QED
    BY <1>6, <1>11 DEF m

----------------------------------------------------------------------------
(* Tables: what a function defined by recursion on numbers is.             *)

IsTable(f, m, a, step) == f = [n \in 0 .. m |-> IF n = 0 THEN a ELSE step[<<n, f[n - 1]>>]]

LEMMA TableExists ==
    ASSUME NEW V, NEW a \in V, NEW step, NEW m \in Nat,
           \A n \in 1 .. m : \A v \in V : step[<<n, v>>] \in V
    PROVE  \E f \in [0 .. m -> V] : IsTable(f, m, a, step)
  <1> DEFINE Row(f, k) == /\ f \in [0 .. k -> V] /\ f[0] = a
                          /\ \A n \in 1 .. k : f[n] = step[<<n, f[n - 1]>>]
             T == {k \in Nat : k <= m => \E f : Row(f, k)}
  <1>1. 0 \in T
    <2> DEFINE f == [n \in 0 .. 0 |-> a]
    <2>1. Row(f, 0)
      OBVIOUS
    <2> HIDE DEF Row, f
    <2> QED
      BY <2>1
  <1>2. ASSUME NEW k \in Nat, k \in T
        PROVE  k + 1 \in T
    <2> SUFFICES ASSUME k + 1 <= m
                 PROVE  \E f : Row(f, k + 1)
      BY DEF Row
    <2>1. PICK f : Row(f, k)
      BY <1>2
    <2> DEFINE v == step[<<k + 1, f[k]>>]
               g == [n \in 0 .. k + 1 |-> IF n = k + 1 THEN v ELSE f[n]]
    <2>2. v \in V
      <3>1. k + 1 \in 1 .. m /\ f[k] \in V
        BY <2>1
      <3> QED
        BY <3>1
    <2>3. g \in [0 .. k + 1 -> V]
      BY <2>1, <2>2
    <2>4. \A n \in 0 .. k : g[n] = f[n]
      OBVIOUS
    <2>5. g[k + 1] = step[<<k + 1, g[k]>>]
      <3>1. g[k + 1] = v /\ k \in 0 .. k
        OBVIOUS
      <3>2. g[k] = f[k]
        BY <2>4, <3>1
      <3> HIDE DEF g
      <3> QED
        BY <3>1, <3>2
    <2>6. ASSUME NEW n \in 1 .. k + 1
          PROVE  g[n] = step[<<n, g[n - 1]>>]
      <3>1. CASE n = k + 1
        <4>1. n - 1 = k
          BY <3>1
        <4> HIDE DEF g
        <4> QED
          BY <2>5, <3>1, <4>1
      <3>2. CASE n # k + 1
        <4>1. n \in 1 .. k /\ n \in 0 .. k /\ n - 1 \in 0 .. k
          BY <3>2
        <4> HIDE DEF g
        <4> QED
          BY <2>1, <2>4, <4>1
      <3> QED
        BY <3>1, <3>2
    <2>7. g[0] = a
      BY <2>1
    <2> HIDE DEF g
    <2>8. Row(g, k + 1)
      BY <2>3, <2>6, <2>7
    <2> HIDE DEF Row
    <2> QED
      BY <2>8
  <1> HIDE DEF T
  <1>3. m \in T
    BY <1>1, <1>2, Induction
  <1> HIDE DEF Row
  <1>4. PICK f : Row(f, m)
    BY <1>3 DEF T
  <1>5. \A n \in 0 .. m : f[n] = IF n = 0 THEN a ELSE step[<<n, f[n - 1]>>]
    BY <1>4 DEF Row
  <1>6. f = [n \in 0 .. m |-> IF n = 0 THEN a ELSE step[<<n, f[n - 1]>>]]
    BY <1>4, <1>5 DEF Row
  <1> QED
    BY <1>4, <1>6 DEF Row, IsTable

(* Tables that begin alike and go on alike are alike.                      *)
GoOnAlike(f, g, m) == \A n \in 1 .. m : f[n - 1] = g[n - 1] => f[n] = g[n]

LEMMA TablesAlike ==
    ASSUME NEW m \in Nat, NEW f, NEW g, f[0] = g[0], GoOnAlike(f, g, m)
    PROVE  \A n \in 0 .. m : f[n] = g[n]
  <1> DEFINE T == {n \in Nat : n <= m => f[n] = g[n]}
  <1>1. 0 \in T
    OBVIOUS
  <1>2. ASSUME NEW n \in Nat, n \in T
        PROVE  n + 1 \in T
    <2> SUFFICES ASSUME n + 1 <= m
                 PROVE  f[n + 1] = g[n + 1]
      OBVIOUS
    <2>1. n + 1 \in 1 .. m /\ (n + 1) - 1 = n /\ f[n] = g[n]
      BY <1>2
    <2> QED
      BY <2>1 DEF GoOnAlike
  <1> HIDE DEF T
  <1>3. Nat \subseteq T
    BY <1>1, <1>2, Induction
  <1> QED
    BY <1>3 DEF T

----------------------------------------------------------------------------
(* Schedules as they are written: segments one after the other.            *)

Lane(T) == [pid : T, start : Nat, end : Nat]

Gapless(T, s) ==
    /\ s \in Seq(Lane(T))
    /\ \A i \in 1 .. Len(s) : s[i].start < s[i].end /\ s[i].start = (IF i = 1 THEN 0 ELSE s[i - 1].end)

(* Normalized: no two neighbours are of one process.                       *)
Tidy(T, s) == Gapless(T, s) /\ \A i \in 1 .. Len(s) - 1 : s[i].pid # s[i + 1].pid

LEMMA LaneFacts ==
    ASSUME NEW T, NEW s \in Seq(Lane(T))
    PROVE  /\ Len(s) \in Nat /\ DOMAIN s = 1 .. Len(s) /\ s = [i \in 1 .. Len(s) |-> s[i]]
           /\ \A i \in 1 .. Len(s) : /\ s[i] \in Lane(T) /\ s[i].pid \in T /\ s[i].start \in Nat /\ s[i].end \in Nat
                                     /\ s[i] = Segment(s[i].pid, s[i].start, s[i].end)
  <1>1. Len(s) \in Nat /\ DOMAIN s = 1 .. Len(s) /\ s = [i \in 1 .. Len(s) |-> s[i]]
    BY LenProperties
  <1>2. \A i \in 1 .. Len(s) : s[i] \in Lane(T)
    BY <1>1, ElementOfSeq
  <1> QED
    BY <1>1, <1>2 DEF Lane, Segment

LEMMA SegmentFacts ==
    ASSUME NEW T, NEW p \in T, NEW a \in Nat, NEW b \in Nat
    PROVE  /\ Segment(p, a, b) \in Lane(T)
           /\ Segment(p, a, b).pid = p /\ Segment(p, a, b).start = a /\ Segment(p, a, b).end = b
  BY DEF Segment, Lane

(* Later segments start later.                                             *)
LEMMA GaplessRises ==
    ASSUME NEW T, NEW s, Gapless(T, s)
    PROVE  \A i, j \in 1 .. Len(s) : i < j => s[i].end <= s[j].start /\ s[i].start < s[j].start
  <1>1. /\ Len(s) \in Nat
        /\ \A i \in 1 .. Len(s) : /\ s[i].start \in Nat /\ s[i].end \in Nat
                                  /\ s[i].start < s[i].end
                                  /\ s[i].start = (IF i = 1 THEN 0 ELSE s[i - 1].end)
    BY LaneFacts DEF Gapless
  <1> DEFINE T0 == {j \in Nat : j \in 1 .. Len(s) => \A i \in 1 .. Len(s) : i < j => s[i].end <= s[j].start}
  <1>2. 0 \in T0
    OBVIOUS
  <1>3. ASSUME NEW j \in Nat, j \in T0
        PROVE  j + 1 \in T0
    <2> SUFFICES ASSUME j + 1 \in 1 .. Len(s), NEW i \in 1 .. Len(s), i < j + 1
                 PROVE  s[i].end <= s[j + 1].start
      OBVIOUS
    <2>1. j \in 1 .. Len(s) /\ j + 1 # 1 /\ (j + 1) - 1 = j
      BY <1>1
    <2>2. s[j + 1].start = s[j].end
      BY <1>1, <2>1
    <2>3. CASE i = j
      BY <1>1, <2>1, <2>2, <2>3
    <2>4. CASE i # j
      <3>1. i < j
        BY <2>4
      <3>2. s[i].end <= s[j].start
        BY <1>3, <2>1, <3>1
      <3>3. s[j].start < s[j].end /\ s[j].start \in Nat /\ s[j].end \in Nat /\ s[i].end \in Nat
        BY <1>1, <2>1
      <3> QED
        BY <2>2, <3>2, <3>3
    <2> QED
      BY <2>3, <2>4
  <1> HIDE DEF T0
  <1>4. Nat \subseteq T0
    BY <1>2, <1>3, Induction
  <1> SUFFICES ASSUME NEW i \in 1 .. Len(s), NEW j \in 1 .. Len(s), i < j
               PROVE  s[i].end <= s[j].start /\ s[i].start < s[j].start
    OBVIOUS
  <1>5. s[i].end <= s[j].start
    BY <1>1, <1>4 DEF T0
  <1>6. s[i].start < s[i].end /\ s[i].start \in Nat /\ s[i].end \in Nat /\ s[j].start \in Nat
    BY <1>1
  <1> QED
    BY <1>5, <1>6

LEMMA RisingInterval ==
    ASSUME NEW n \in Nat
    PROVE  Rising(1 .. n) = [k \in 1 .. n |-> k]
  <1> DEFINE S == 1 .. n
             before == {p \in S \X S : p[1] < p[2]}
  <1>1. Cardinality(S) = n
    BY FS_Interval
  <1>2. ASSUME NEW x \in S
        PROVE  Cardinality({y \in S : <<y, x>> \in before}) = x - 1
    <2>1. {y \in S : <<y, x>> \in before} = 1 .. x - 1
      OBVIOUS
    <2>2. Cardinality(1 .. x - 1) = x - 1
      BY FS_Interval
    <2> QED
      BY <2>1, <2>2
  <1> HIDE DEF before
  <1>3. ASSUME NEW k \in 1 .. n
        PROVE  (CHOOSE x \in S : Cardinality({y \in S : <<y, x>> \in before}) = k - 1) = k
    BY <1>2
  <1>4. Arranged(S, before) = [k \in 1 .. n |-> k]
    BY <1>1, <1>3 DEF Arranged
  <1> QED
    BY <1>4 DEF Rising, before

(* A schedule without gaps is sorted, and nothing in it overlaps.           *)
LEMMA SortedAlready ==
    ASSUME NEW T, NEW s, Gapless(T, s)
    PROVE  Sorted(s) = s
  <1>1. Len(s) \in Nat /\ DOMAIN s = 1 .. Len(s) /\ s = [i \in 1 .. Len(s) |-> s[i]]
    BY LaneFacts DEF Gapless
  <1> DEFINE n == Len(s)
             before == {p \in (1 .. n) \X (1 .. n) : SortsBefore(s, p[1], p[2])}
             less == {p \in (1 .. n) \X (1 .. n) : p[1] < p[2]}
  <1>2. ASSUME NEW i \in 1 .. n, NEW j \in 1 .. n
        PROVE  SortsBefore(s, i, j) <=> i < j
    <2>1. s[i].start \in Nat /\ s[j].start \in Nat /\ s[i].end \in Nat /\ s[j].end \in Nat
      BY LaneFacts DEF Gapless
    <2>2. /\ i < j => s[i].start < s[j].start
          /\ j < i => s[j].start < s[i].start
      BY GaplessRises
    <2> QED
      BY <2>1, <2>2 DEF SortsBefore
  <1>3. before = less
    BY <1>2
  <1>4. Arranged(DOMAIN s, {p \in (DOMAIN s) \X (DOMAIN s) : SortsBefore(s, p[1], p[2])}) = [k \in 1 .. n |-> k]
    BY <1>1, <1>3, RisingInterval DEF Rising
  <1> QED
    BY <1>1, <1>4 DEF Sorted

LEMMA NoOverlap ==
    ASSUME NEW T, NEW s, Gapless(T, s)
    PROVE  ~HasOverlap(s)
  <1>1. Len(s) \in Nat
    BY LaneFacts DEF Gapless
  <1>2. ASSUME NEW i \in 1 .. Len(s) - 1
        PROVE  ~(s[i + 1].start < s[i].end)
    <2>1. i \in 1 .. Len(s) /\ i + 1 \in 1 .. Len(s) /\ i < i + 1
      BY <1>1
    <2>2. s[i].end <= s[i + 1].start /\ s[i].end \in Nat /\ s[i + 1].start \in Nat
      BY <2>1, GaplessRises, LaneFacts DEF Gapless
    <2> QED
      BY <2>2
  <1> QED
    BY <1>2, SortedAlready DEF HasOverlap

(* What holds of the empty list and is kept by appending holds of every     *)
(* list.                                                                    *)
LEMMA SeqInduction ==
    ASSUME NEW S, NEW G, <<>> \in G, \A s \in Seq(S) : \A x \in S : s \in G => Append(s, x) \in G
    PROVE  Seq(S) \subseteq G
  <1> DEFINE T == {n \in Nat : \A s \in Seq(S) : Len(s) = n => s \in G}
  <1>1. 0 \in T
    BY EmptySeq
  <1>2. ASSUME NEW n \in Nat, n \in T
        PROVE  n + 1 \in T
    <2> SUFFICES ASSUME NEW s \in Seq(S), Len(s) = n + 1
                 PROVE  s \in G
      OBVIOUS
    <2>1. s # <<>>
      BY EmptySeq
    <2>2. PICK r \in Seq(S), x \in S : s = Append(r, x)
      BY <2>1, SequenceEmptyOrAppend
    <2>3. Len(r) = n
      BY <2>2, AppendProperties, LenProperties
    <2> QED
      BY <1>2, <2>2, <2>3
  <1> HIDE DEF T
  <1>3. Nat \subseteq T
    BY <1>1, <1>2, Induction
  <1> QED
    BY <1>3, LenProperties DEF T

EndOf(s) == IF s = <<>> THEN 0 ELSE s[Len(s)].end

LEMMA EndOfNat ==
    ASSUME NEW T, NEW s, Gapless(T, s)
    PROVE  EndOf(s) \in Nat
  BY LaneFacts, EmptySeq DEF Gapless, EndOf

LEMMA AppendFacts ==
    ASSUME NEW S, NEW s \in Seq(S), NEW x \in S
    PROVE  /\ Append(s, x) \in Seq(S) /\ Append(s, x) # <<>> /\ Len(s) \in Nat
           /\ Len(Append(s, x)) = Len(s) + 1 /\ Append(s, x)[Len(s) + 1] = x
           /\ \A i \in 1 .. Len(s) : Append(s, x)[i] = s[i]
           /\ Last(Append(s, x)) = x /\ Front(Append(s, x)) = s
           /\ SubSeq(Append(s, x), 1, Len(s)) = s
  <1>1. /\ Append(s, x) \in Seq(S) /\ Append(s, x) # <<>> /\ Len(s) \in Nat
        /\ Len(Append(s, x)) = Len(s) + 1 /\ Append(s, x)[Len(s) + 1] = x
        /\ \A i \in 1 .. Len(s) : Append(s, x)[i] = s[i]
    BY AppendProperties, LenProperties
  <1>2. Last(Append(s, x)) = x
    BY <1>1 DEF Last
  <1>3. SubSeq(Append(s, x), 1, Len(s)) = s
    <2>1. /\ SubSeq(Append(s, x), 1, Len(s)) \in Seq(S) /\ Len(SubSeq(Append(s, x), 1, Len(s))) = Len(s)
          /\ \A i \in 1 .. Len(s) : SubSeq(Append(s, x), 1, Len(s))[i] = Append(s, x)[i]
      <3>1. \A i \in 1 .. Len(s) : Append(s, x)[i] \in S
        BY <1>1, ElementOfSeq
      <3>2. 1 \in Int /\ Len(s) \in Int /\ (1 <= Len(s) => Len(s) - 1 + 1 = Len(s)) /\ \A i \in 1 .. Len(s) : 1 + i - 1 = i
        BY <1>1
      <3>3. Len(s) - 1 + 1 = Len(s) /\ (Len(s) < 1 => Len(s) = 0)
        BY <1>1
      <3> QED
        BY <3>1, <3>2, <3>3, SubSeqProperties
    <2> QED
      BY <1>1, <2>1, SeqEqual
  <1>4. Front(Append(s, x)) = SubSeq(Append(s, x), 1, Len(s))
    BY <1>1 DEF Front
  <1> QED
    BY <1>1, <1>2, <1>3, <1>4

LEMMA EndOfAppend ==
    ASSUME NEW S, NEW s \in Seq(S), NEW x \in S
    PROVE  EndOf(<<>>) = 0 /\ EndOf(Append(s, x)) = x.end
  BY AppendFacts DEF EndOf

LEMMA GaplessEmpty ==
    ASSUME NEW T
    PROVE  Gapless(T, <<>>) /\ Tidy(T, <<>>)
  <1>1. <<>> \in Seq(Lane(T)) /\ Len(<<>>) = 0
    BY EmptySeq
  <1> QED
    BY <1>1 DEF Gapless, Tidy

LEMMA GaplessAppend ==
    ASSUME NEW T, NEW s \in Seq(Lane(T)), NEW x \in Lane(T)
    PROVE  Gapless(T, Append(s, x)) <=> Gapless(T, s) /\ x.start = EndOf(s) /\ x.start < x.end
  <1> DEFINE r == Append(s, x)
  <1>1. /\ r \in Seq(Lane(T)) /\ Len(s) \in Nat /\ Len(r) = Len(s) + 1 /\ r[Len(s) + 1] = x
        /\ \A i \in 1 .. Len(s) : r[i] = s[i]
    BY AppendFacts
  <1>2. s = <<>> <=> Len(s) = 0
    BY EmptySeq
  <1> HIDE DEF r
  <1>3. ASSUME Gapless(T, r)
        PROVE  Gapless(T, s) /\ x.start = EndOf(s) /\ x.start < x.end
    <2>1. ASSUME NEW i \in 1 .. Len(s)
          PROVE  s[i].start < s[i].end /\ s[i].start = (IF i = 1 THEN 0 ELSE s[i - 1].end)
      <3>1. i \in 1 .. Len(r) /\ r[i] = s[i] /\ (i # 1 => i - 1 \in 1 .. Len(s))
        BY <1>1
      <3>2. i # 1 => r[i - 1] = s[i - 1]
        BY <1>1, <3>1
      <3> QED
        BY <1>3, <3>1, <3>2 DEF Gapless
    <2>2. Len(s) + 1 \in 1 .. Len(r) /\ (Len(s) + 1) - 1 = Len(s) /\ (Len(s) # 0 => Len(s) \in 1 .. Len(s))
      BY <1>1
    <2>3. x.start < x.end /\ x.start = (IF Len(s) + 1 = 1 THEN 0 ELSE r[Len(s)].end)
      BY <1>1, <1>3, <2>2 DEF Gapless
    <2>4. x.start = EndOf(s)
      BY <1>1, <1>2, <2>2, <2>3 DEF EndOf
    <2> QED
      BY <2>1, <2>3, <2>4 DEF Gapless
  <1>4. ASSUME Gapless(T, s), x.start = EndOf(s), x.start < x.end
        PROVE  Gapless(T, r)
    <2>1. ASSUME NEW i \in 1 .. Len(r)
          PROVE  r[i].start < r[i].end /\ r[i].start = (IF i = 1 THEN 0 ELSE r[i - 1].end)
      <3>1. CASE i = Len(s) + 1
        <4>1. r[i] = x /\ i - 1 = Len(s) /\ (i # 1 => Len(s) \in 1 .. Len(s))
          BY <1>1, <3>1
        <4>2. i # 1 => r[i - 1] = s[Len(s)]
          BY <1>1, <4>1
        <4> QED
          BY <1>1, <1>2, <1>4, <3>1, <4>1, <4>2 DEF EndOf
      <3>2. CASE i # Len(s) + 1
        <4>1. i \in 1 .. Len(s) /\ r[i] = s[i] /\ (i # 1 => i - 1 \in 1 .. Len(s))
          BY <1>1, <3>2
        <4>2. i # 1 => r[i - 1] = s[i - 1]
          BY <1>1, <4>1
        <4> QED
          BY <1>4, <4>1, <4>2 DEF Gapless
      <3> QED
        BY <3>1, <3>2
    <2> QED
      BY <1>1, <2>1 DEF Gapless
  <1> QED
    BY <1>3, <1>4 DEF r

(* Filling changes nothing where there are no gaps.                        *)
IsLaid(f, sorted) == f = [n \in 0 .. Len(sorted) |-> IF n = 0 THEN [t |-> 0, segs |-> <<>>] ELSE Laid(f[n - 1], sorted[n])]

LEMMA FilledAlready ==
    ASSUME NEW T, NEW s, Gapless(T, s)
    PROVE  Filled(s) = s
  <1>1. /\ Len(s) \in Nat /\ s \in Seq(Lane(T))
        /\ \A i \in 1 .. Len(s) : s[i] \in Lane(T) /\ s[i].start \in Nat /\ s[i].end \in Nat
    BY LaneFacts DEF Gapless
  <1> DEFINE end(n) == IF n = 0 THEN 0 ELSE s[n].end
             f == [n \in 0 .. Len(s) |-> [t |-> end(n), segs |-> SubSeq(s, 1, n)]]
  <1>2. f[0] = [t |-> 0, segs |-> <<>>]
    BY <1>1, SubSeqEmpty
  <1>3. ASSUME NEW n \in 1 .. Len(s)
        PROVE  f[n] = Laid(f[n - 1], s[n])
    <2>1. n \in 0 .. Len(s) /\ n - 1 \in 0 .. Len(s)
      BY <1>1
    <2>2. s[n].start = end(n - 1) /\ s[n].start < s[n].end
      <3>1. s[n].start < s[n].end /\ s[n].start = (IF n = 1 THEN 0 ELSE s[n - 1].end)
        BY DEF Gapless
      <3> QED
        BY <1>1, <3>1
    <2>3. f[n - 1].t = end(n - 1) /\ f[n - 1].segs = SubSeq(s, 1, n - 1)
      BY <2>1
    <2>4. SubSeq(s, 1, n) = SubSeq(s, 1, n - 1) \o <<s[n]>>
      <3>1. 1 \in 1 .. Len(s) /\ n \in 1 .. Len(s)
        BY <1>1
      <3> QED
        BY <1>1, <3>1, SubSeqRecursiveSecond
    <2>5. Max({end(n - 1), s[n].end}) = s[n].end
      <3>1. end(n - 1) \in Int /\ s[n].end \in Int /\ end(n - 1) < s[n].end
        BY <1>1, <2>2
      <3> HIDE DEF end
      <3> QED
        BY <3>1, PairFacts
    <2>6. f[n] = [t |-> s[n].end, segs |-> SubSeq(s, 1, n)]
      BY <2>1
    <2>7. ~(s[n].end <= s[n].start) /\ ~(end(n - 1) < s[n].start)
      BY <1>1, <2>2
    <2> HIDE DEF f, end
    <2> QED
      BY <2>3, <2>4, <2>5, <2>6, <2>7 DEF Laid
  <1>4. IsLaid(f, s)
    <2>1. \A n \in 0 .. Len(s) : f[n] = IF n = 0 THEN [t |-> 0, segs |-> <<>>] ELSE Laid(f[n - 1], s[n])
      <3>1. \A n \in 0 .. Len(s) : n # 0 => n \in 1 .. Len(s)
        BY <1>1
      <3> HIDE DEF f
      <3> QED
        BY <1>2, <1>3, <3>1
    <2>2. f = [n \in 0 .. Len(s) |-> f[n]]
      OBVIOUS
    <2> HIDE DEF f
    <2> QED
      BY <2>1, <2>2 DEF IsLaid
  <1>5. f[Len(s)].segs = s
    BY <1>1, SubSeqFull
  <1> HIDE DEF f
  <1> DEFINE g == CHOOSE g : IsLaid(g, s)
  <1>6. IsLaid(g, s)
    BY <1>4
  <1>7. Filled(s) = g[Len(s)].segs
    BY SortedAlready DEF Filled, IsLaid
  <1> HIDE DEF g
  <1>8. /\ g[0] = f[0]
        /\ \A n \in 1 .. Len(s) : g[n] = Laid(g[n - 1], s[n])
    BY <1>1, <1>2, <1>6 DEF IsLaid
  <1>9. \A n \in 0 .. Len(s) : g[n] = f[n]
    <2>1. GoOnAlike(g, f, Len(s))
      BY <1>3, <1>8 DEF GoOnAlike
    <2> QED
      BY <1>1, <1>8, <2>1, TablesAlike
  <1> QED
    BY <1>1, <1>5, <1>7, <1>9

----------------------------------------------------------------------------
(* Merging.                                                                *)

LEMMA JoinedEmpty ==
    ASSUME NEW T, NEW seg \in Lane(T)
    PROVE  Joined(<<>>, seg) = <<seg>> /\ Joined(<<>>, seg) = Append(<<>>, seg)
  BY DEF Joined

LEMMA JoinedAppend ==
    ASSUME NEW T, NEW s \in Seq(Lane(T)), NEW x \in Lane(T), NEW seg \in Lane(T)
    PROVE  Joined(Append(s, x), seg) =
               IF x.pid = seg.pid /\ x.end = seg.start THEN Append(s, Segment(seg.pid, x.start, seg.end))
               ELSE Append(Append(s, x), seg)
  <1>1. Append(s, x) # <<>> /\ Last(Append(s, x)) = x /\ Front(Append(s, x)) = s
    BY AppendFacts
  <1> QED
    BY <1>1 DEF Joined

LEMMA JoinedType ==
    ASSUME NEW T, NEW s \in Seq(Lane(T)), NEW seg \in Lane(T)
    PROVE  Joined(s, seg) \in Seq(Lane(T)) /\ Joined(s, seg) # <<>>
  <1>1. CASE s = <<>>
    <2>1. <<>> \in Seq(Lane(T))
      BY EmptySeq
    <2>2. Joined(<<>>, seg) = Append(<<>>, seg)
      BY JoinedEmpty
    <2>3. Append(<<>>, seg) \in Seq(Lane(T)) /\ Append(<<>>, seg) # <<>>
      BY <2>1, AppendFacts
    <2> QED
      BY <1>1, <2>2, <2>3
  <1>2. CASE s # <<>>
    <2>1. PICK r \in Seq(Lane(T)), x \in Lane(T) : s = Append(r, x)
      BY <1>2, SequenceEmptyOrAppend
    <2>2. Segment(seg.pid, x.start, seg.end) \in Lane(T)
      BY DEF Segment, Lane
    <2>3. /\ Append(r, Segment(seg.pid, x.start, seg.end)) \in Seq(Lane(T))
          /\ Append(r, Segment(seg.pid, x.start, seg.end)) # <<>>
      BY <2>2, AppendFacts
    <2>4. Append(s, seg) \in Seq(Lane(T)) /\ Append(s, seg) # <<>>
      BY AppendFacts
    <2>5. Joined(s, seg) = IF x.pid = seg.pid /\ x.end = seg.start THEN Append(r, Segment(seg.pid, x.start, seg.end))
                           ELSE Append(s, seg)
      BY <2>1, JoinedAppend
    <2> QED
      BY <2>3, <2>4, <2>5
  <1> QED
    BY <1>1, <1>2

IsMerge(f, segs) == f = [n \in 0 .. Len(segs) |-> IF n = 0 THEN <<>> ELSE Joined(f[n - 1], segs[n])]

LEMMA MergeTable ==
    ASSUME NEW T, NEW s \in Seq(Lane(T))
    PROVE  \E f \in [0 .. Len(s) -> Seq(Lane(T))] :
              /\ f[0] = <<>> /\ \A n \in 1 .. Len(s) : f[n] = Joined(f[n - 1], s[n])
              /\ Merged(s) = f[Len(s)]
  <1> DEFINE V == Seq(Lane(T))
             m == Len(s)
             step == [x \in (1 .. m) \X V |-> Joined(x[2], s[x[1]])]
  <1>1. m \in Nat /\ <<>> \in V /\ \A i \in 1 .. m : s[i] \in Lane(T)
    BY LaneFacts, EmptySeq
  <1>2. ASSUME NEW n \in 1 .. m, NEW v \in V
        PROVE  step[<<n, v>>] = Joined(v, s[n]) /\ step[<<n, v>>] \in V
    <2>1. Joined(v, s[n]) \in V
      BY <1>1, JoinedType
    <2> QED
      BY <2>1
  <1> HIDE DEF step, m, V
  <1>3. PICK f \in [0 .. m -> V] : IsTable(f, m, <<>>, step)
    BY <1>1, <1>2, TableExists
  <1>4. IsMerge(f, s)
    <2>1. ASSUME NEW n \in 0 .. m
          PROVE  f[n] = IF n = 0 THEN <<>> ELSE Joined(f[n - 1], s[n])
      <3>1. n # 0 => n \in 1 .. m /\ n - 1 \in 0 .. m
        BY <1>1
      <3>2. n # 0 => f[n - 1] \in V
        BY <3>1
      <3>3. f[n] = IF n = 0 THEN <<>> ELSE step[<<n, f[n - 1]>>]
        BY <1>3 DEF IsTable
      <3> QED
        BY <1>2, <3>1, <3>2, <3>3
    <2>2. f = [n \in 0 .. m |-> f[n]]
      OBVIOUS
    <2> QED
      BY <2>1, <2>2 DEF IsMerge, m
  <1> DEFINE g == CHOOSE g : IsMerge(g, s)
  <1>5. IsMerge(g, s)
    BY <1>4
  <1>6. Merged(s) = g[m]
    BY DEF Merged, IsMerge, m
  <1> HIDE DEF g
  <1>7. g[0] = <<>> /\ f[0] = <<>> /\ \A n \in 1 .. m : g[n] = Joined(g[n - 1], s[n]) /\ f[n] = Joined(f[n - 1], s[n])
    BY <1>1, <1>4, <1>5 DEF IsMerge, m
  <1>8. \A n \in 0 .. m : g[n] = f[n]
    <2>1. GoOnAlike(g, f, m)
      BY <1>7 DEF GoOnAlike
    <2>2. g[0] = f[0] /\ m \in Nat
      BY <1>1, <1>7
    <2> QED
      BY <2>1, <2>2, TablesAlike
  <1>9. Merged(s) = f[m]
    BY <1>1, <1>6, <1>8
  <1> QED
    BY <1>7, <1>9 DEF m, V

LEMMA MergedStep ==
    ASSUME NEW T, NEW s \in Seq(Lane(T)), NEW x \in Lane(T)
    PROVE  /\ Merged(<<>>) = <<>> /\ Merged(s) \in Seq(Lane(T))
           /\ Merged(Append(s, x)) = Joined(Merged(s), x)
  <1>1. /\ <<>> \in Seq(Lane(T)) /\ Len(<<>>) = 0
        /\ Append(s, x) \in Seq(Lane(T)) /\ Len(s) \in Nat /\ Len(Append(s, x)) = Len(s) + 1
        /\ Append(s, x)[Len(s) + 1] = x /\ \A i \in 1 .. Len(s) : Append(s, x)[i] = s[i]
    BY EmptySeq, AppendFacts
  <1>2. Merged(<<>>) = <<>>
    BY <1>1, MergeTable
  <1>3. PICK f \in [0 .. Len(s) -> Seq(Lane(T))] :
              /\ f[0] = <<>> /\ \A n \in 1 .. Len(s) : f[n] = Joined(f[n - 1], s[n])
              /\ Merged(s) = f[Len(s)]
    BY MergeTable
  <1>4. PICK g \in [0 .. Len(s) + 1 -> Seq(Lane(T))] :
              /\ g[0] = <<>> /\ \A n \in 1 .. Len(s) + 1 : g[n] = Joined(g[n - 1], Append(s, x)[n])
              /\ Merged(Append(s, x)) = g[Len(s) + 1]
    <2> DEFINE r == Append(s, x)
    <2>1. r \in Seq(Lane(T)) /\ Len(r) = Len(s) + 1
      BY <1>1
    <2> HIDE DEF r
    <2>2. \E g \in [0 .. Len(r) -> Seq(Lane(T))] :
              /\ g[0] = <<>> /\ \A n \in 1 .. Len(r) : g[n] = Joined(g[n - 1], r[n])
              /\ Merged(r) = g[Len(r)]
      BY <2>1, MergeTable
    <2> QED
      BY <2>1, <2>2 DEF r
  <1>5. ASSUME NEW n \in 1 .. Len(s), f[n - 1] = g[n - 1]
        PROVE  f[n] = g[n]
    <2>1. n \in 1 .. Len(s) + 1
      BY <1>1
    <2> QED
      BY <1>1, <1>3, <1>4, <1>5, <2>1
  <1>6. \A n \in 0 .. Len(s) : f[n] = g[n]
    <2>1. f[0] = g[0] /\ Len(s) \in Nat
      BY <1>1, <1>3, <1>4
    <2>2. GoOnAlike(f, g, Len(s))
      BY <1>5 DEF GoOnAlike
    <2> QED
      BY <2>1, <2>2, TablesAlike
  <1>7. Len(s) + 1 \in 1 .. Len(s) + 1 /\ (Len(s) + 1) - 1 = Len(s) /\ Len(s) \in 0 .. Len(s)
    BY <1>1
  <1>8. g[Len(s) + 1] = Joined(g[Len(s)], x)
    BY <1>1, <1>4, <1>7
  <1>9. f[Len(s)] = g[Len(s)] /\ f[Len(s)] \in Seq(Lane(T))
    BY <1>3, <1>6, <1>7
  <1> QED
    BY <1>2, <1>3, <1>4, <1>8, <1>9

LEMMA TidyAppend ==
    ASSUME NEW T, NEW s \in Seq(Lane(T)), NEW x \in Lane(T)
    PROVE  Tidy(T, Append(s, x)) <=> /\ Tidy(T, s) /\ x.start = EndOf(s) /\ x.start < x.end
                                     /\ s # <<>> => s[Len(s)].pid # x.pid
  <1> DEFINE r == Append(s, x)
  <1>1. /\ Len(s) \in Nat /\ Len(r) = Len(s) + 1 /\ r[Len(s) + 1] = x
        /\ \A i \in 1 .. Len(s) : r[i] = s[i]
    BY AppendFacts
  <1>2. s = <<>> <=> Len(s) = 0
    BY EmptySeq
  <1>3. Gapless(T, r) <=> Gapless(T, s) /\ x.start = EndOf(s) /\ x.start < x.end
    BY GaplessAppend
  <1> HIDE DEF r
  <1>4. (\A i \in 1 .. Len(r) - 1 : r[i].pid # r[i + 1].pid) <=>
            /\ \A i \in 1 .. Len(s) - 1 : s[i].pid # s[i + 1].pid
            /\ Len(s) # 0 => s[Len(s)].pid # x.pid
    <2>1. ASSUME \A i \in 1 .. Len(r) - 1 : r[i].pid # r[i + 1].pid
          PROVE  /\ \A i \in 1 .. Len(s) - 1 : s[i].pid # s[i + 1].pid
                 /\ Len(s) # 0 => s[Len(s)].pid # x.pid
      <3>1. \A i \in 1 .. Len(s) - 1 : i \in 1 .. Len(r) - 1 /\ r[i] = s[i] /\ r[i + 1] = s[i + 1]
        BY <1>1
      <3>2. Len(s) # 0 => Len(s) \in 1 .. Len(r) - 1 /\ r[Len(s)] = s[Len(s)]
        BY <1>1
      <3> QED
        BY <1>1, <2>1, <3>1, <3>2
    <2>2. ASSUME /\ \A i \in 1 .. Len(s) - 1 : s[i].pid # s[i + 1].pid
                 /\ Len(s) # 0 => s[Len(s)].pid # x.pid,
                 NEW i \in 1 .. Len(r) - 1
          PROVE  r[i].pid # r[i + 1].pid
      <3>1. CASE i = Len(s)
        BY <1>1, <2>2, <3>1
      <3>2. CASE i # Len(s)
        <4>1. i \in 1 .. Len(s) - 1 /\ r[i] = s[i] /\ r[i + 1] = s[i + 1]
          BY <1>1, <3>2
        <4> QED
          BY <2>2, <4>1
      <3> QED
        BY <3>1, <3>2
    <2> QED
      BY <2>1, <2>2
  <1> QED
    BY <1>2, <1>3, <1>4 DEF Tidy, r

(* Joining a segment that goes on where a tidy schedule ends keeps it tidy.*)
LEMMA JoinedTidy ==
    ASSUME NEW T, NEW s, Tidy(T, s), NEW seg \in Lane(T), seg.start = EndOf(s), seg.start < seg.end
    PROVE  Tidy(T, Joined(s, seg)) /\ EndOf(Joined(s, seg)) = seg.end
  <1>1. s \in Seq(Lane(T)) /\ seg.start \in Nat /\ seg.end \in Nat /\ seg.pid \in T
    BY DEF Tidy, Gapless, Lane
  <1>2. CASE s = <<>>
    <2>1. Joined(s, seg) = Append(s, seg)
      BY <1>2, JoinedEmpty
    <2>2. Tidy(T, Append(s, seg)) <=> /\ Tidy(T, s) /\ seg.start = EndOf(s) /\ seg.start < seg.end
                                      /\ s # <<>> => s[Len(s)].pid # seg.pid
      BY <1>1, TidyAppend
    <2>3. EndOf(Append(s, seg)) = seg.end
      BY <1>1, EndOfAppend
    <2> QED
      BY <1>2, <2>1, <2>2, <2>3
  <1>3. CASE s # <<>>
    <2>1. PICK r \in Seq(Lane(T)), x \in Lane(T) : s = Append(r, x)
      BY <1>1, <1>3, SequenceEmptyOrAppend
    <2>2. /\ Tidy(T, r) /\ x.start = EndOf(r) /\ x.start < x.end
          /\ r # <<>> => r[Len(r)].pid # x.pid
      BY <2>1, TidyAppend
    <2>3. EndOf(s) = x.end /\ s[Len(s)] = x
      BY <2>1, EndOfAppend, AppendFacts
    <2>4. Joined(s, seg) = IF x.pid = seg.pid /\ x.end = seg.start THEN Append(r, Segment(seg.pid, x.start, seg.end))
                           ELSE Append(s, seg)
      BY <2>1, JoinedAppend
    <2>5. CASE x.pid = seg.pid
      <3> DEFINE y == Segment(seg.pid, x.start, seg.end)
      <3>1. x.start \in Nat /\ x.end \in Nat
        BY DEF Lane
      <3>2. y \in Lane(T) /\ y.pid = seg.pid /\ y.start = x.start /\ y.end = seg.end
        BY <1>1, <3>1 DEF Segment, Lane
      <3>3. x.start < seg.end
        BY <1>1, <2>2, <2>3, <3>1
      <3>4. Joined(s, seg) = Append(r, y)
        BY <2>3, <2>4, <2>5
      <3> HIDE DEF y
      <3> QED
        BY <2>2, <2>5, <3>2, <3>3, <3>4, TidyAppend, EndOfAppend
    <2>6. CASE x.pid # seg.pid
      <3>1. Joined(s, seg) = Append(s, seg)
        BY <2>4, <2>6
      <3> QED
        BY <1>1, <2>3, <2>6, <3>1, TidyAppend, EndOfAppend
    <2> QED
      BY <2>5, <2>6
  <1> QED
    BY <1>2, <1>3

LEMMA MergedTidy ==
    ASSUME NEW T, NEW s, Gapless(T, s)
    PROVE  Tidy(T, Merged(s)) /\ EndOf(Merged(s)) = EndOf(s)
  <1> DEFINE G == {r \in Seq(Lane(T)) : Gapless(T, r) => Tidy(T, Merged(r)) /\ EndOf(Merged(r)) = EndOf(r)}
  <1>1. <<>> \in G
    <2>1. <<>> \in Seq(Lane(T)) /\ Segment(0, 0, 0).start = 0
      BY EmptySeq DEF Segment
    <2>2. Merged(<<>>) = <<>>
      BY <2>1, MergeTable, EmptySeq
    <2> QED
      BY <2>1, <2>2, GaplessEmpty
  <1>2. ASSUME NEW r \in Seq(Lane(T)), NEW x \in Lane(T), r \in G
        PROVE  Append(r, x) \in G
    <2>1. Append(r, x) \in Seq(Lane(T))
      BY AppendFacts
    <2>2. ASSUME Gapless(T, Append(r, x))
          PROVE  Tidy(T, Merged(Append(r, x))) /\ EndOf(Merged(Append(r, x))) = EndOf(Append(r, x))
      <3>1. Gapless(T, r) /\ x.start = EndOf(r) /\ x.start < x.end
        BY <2>2, GaplessAppend
      <3>2. Tidy(T, Merged(r)) /\ EndOf(Merged(r)) = EndOf(r)
        BY <1>2, <3>1
      <3>3. Merged(Append(r, x)) = Joined(Merged(r), x)
        BY MergedStep
      <3>4. EndOf(Append(r, x)) = x.end
        BY EndOfAppend
      <3> QED
        BY <3>1, <3>2, <3>3, <3>4, JoinedTidy
    <2> QED
      BY <2>1, <2>2
  <1> HIDE DEF G
  <1>3. Seq(Lane(T)) \subseteq G
    BY <1>1, <1>2, SeqInduction
  <1> QED
    BY <1>3 DEF G, Gapless

LEMMA MergedAlready ==
    ASSUME NEW T, NEW s, Tidy(T, s)
    PROVE  Merged(s) = s
  <1> DEFINE G == {r \in Seq(Lane(T)) : Tidy(T, r) => Merged(r) = r}
  <1>1. <<>> \in G
    BY MergeTable, EmptySeq
  <1>2. ASSUME NEW r \in Seq(Lane(T)), NEW x \in Lane(T), r \in G
        PROVE  Append(r, x) \in G
    <2>1. Append(r, x) \in Seq(Lane(T))
      BY AppendFacts
    <2>2. ASSUME Tidy(T, Append(r, x))
          PROVE  Merged(Append(r, x)) = Append(r, x)
      <3>1. Tidy(T, r) /\ (r # <<>> => r[Len(r)].pid # x.pid)
        BY <2>2, TidyAppend
      <3>2. Merged(Append(r, x)) = Joined(r, x)
        BY <1>2, <3>1, MergedStep
      <3>3. Joined(r, x) = Append(r, x)
        BY <3>1 DEF Joined, Last
      <3> QED
        BY <3>2, <3>3
    <2> QED
      BY <2>1, <2>2
  <1> HIDE DEF G
  <1>3. Seq(Lane(T)) \subseteq G
    BY <1>1, <1>2, SeqInduction
  <1> QED
    BY <1>3 DEF G, Tidy, Gapless

(* A schedule without gaps only needs merging, and once merged is normal.   *)
LEMMA NormalizeGapless ==
    ASSUME NEW T, NEW s, Gapless(T, s)
    PROVE  Normalize(s) = Merged(s) /\ Normalize(Merged(s)) = Merged(s)
  <1>1. Normalize(s) = Merged(s)
    BY FilledAlready DEF Normalize
  <1>2. Tidy(T, Merged(s))
    BY MergedTidy
  <1>3. Merged(Merged(s)) = Merged(s)
    BY <1>2, MergedAlready
  <1>4. Filled(Merged(s)) = Merged(s)
    BY <1>2, FilledAlready DEF Tidy
  <1> QED
    BY <1>1, <1>3, <1>4 DEF Normalize

(* Merging keeps who runs when: every segment lies within one of the same  *)
(* process, and those begin and end as one of the segments does.           *)
Covers(m, s) ==
    /\ \A i \in 1 .. Len(s) : \E j \in 1 .. Len(m) :
          m[j].pid = s[i].pid /\ m[j].start <= s[i].start /\ s[i].end <= m[j].end
    /\ \A j \in 1 .. Len(m) : \E i \in 1 .. Len(s) : s[i].pid = m[j].pid /\ s[i].start = m[j].start
    /\ \A j \in 1 .. Len(m) : \E i \in 1 .. Len(s) : s[i].pid = m[j].pid /\ s[i].end = m[j].end

LEMMA MergedCovers ==
    ASSUME NEW T, NEW s, Gapless(T, s)
    PROVE  Covers(Merged(s), s)
  <1> DEFINE G == {r \in Seq(Lane(T)) : Gapless(T, r) => Covers(Merged(r), r)}
  <1>1. <<>> \in G
    <2>1. <<>> \in Seq(Lane(T)) /\ Len(<<>>) = 0
      BY EmptySeq
    <2>2. Merged(<<>>) = <<>>
      BY <2>1, MergeTable
    <2>3. Covers(<<>>, <<>>)
      BY <2>1 DEF Covers
    <2> QED
      BY <2>1, <2>2, <2>3
  <1>2. ASSUME NEW r \in Seq(Lane(T)), NEW x \in Lane(T), r \in G
        PROVE  Append(r, x) \in G
    <2> DEFINE a == Append(r, x)
               m == Merged(r)
    <2>1. a \in Seq(Lane(T))
      BY AppendFacts
    <2> SUFFICES ASSUME Gapless(T, a)
                 PROVE  Covers(Merged(a), a)
      BY <2>1
    <2>2. Gapless(T, r) /\ x.start = EndOf(r) /\ x.start < x.end /\ Covers(m, r)
      BY <1>2, GaplessAppend
    <2>3. Tidy(T, m) /\ EndOf(m) = EndOf(r) /\ m \in Seq(Lane(T)) /\ Merged(a) = Joined(m, x)
      BY <2>2, MergedTidy, MergedStep
    <2>4. x.start \in Nat /\ x.end \in Nat
      BY DEF Lane
    <2>5. /\ Len(r) \in Nat /\ Len(a) = Len(r) + 1 /\ a[Len(r) + 1] = x
          /\ \A i \in 1 .. Len(r) : a[i] = r[i]
      BY AppendFacts
    <2> HIDE DEF a, m
    <2>6. CASE Merged(a) = Append(m, x)
      <3> DEFINE b == Append(m, x)
      <3>1. /\ Len(m) \in Nat /\ Len(b) = Len(m) + 1 /\ b[Len(m) + 1] = x
            /\ \A j \in 1 .. Len(m) : b[j] = m[j]
        BY <2>3, AppendFacts
      <3> HIDE DEF b
      <3>2. ASSUME NEW i \in 1 .. Len(a)
            PROVE  \E j \in 1 .. Len(b) : b[j].pid = a[i].pid /\ b[j].start <= a[i].start /\ a[i].end <= b[j].end
        <4>1. CASE i = Len(r) + 1
          <5>1. Len(m) + 1 \in 1 .. Len(b) /\ a[i] = x
            BY <2>5, <3>1, <4>1
          <5> QED
            BY <2>4, <3>1, <5>1
        <4>2. CASE i # Len(r) + 1
          <5>1. i \in 1 .. Len(r) /\ a[i] = r[i]
            BY <2>5, <4>2
          <5>2. PICK j \in 1 .. Len(m) : m[j].pid = r[i].pid /\ m[j].start <= r[i].start /\ r[i].end <= m[j].end
            BY <2>2, <5>1 DEF Covers
          <5>3. j \in 1 .. Len(b) /\ b[j] = m[j]
            BY <3>1
          <5> QED
            BY <5>1, <5>2, <5>3
        <4> QED
          BY <4>1, <4>2
      <3>3. ASSUME NEW j \in 1 .. Len(b)
            PROVE  /\ \E i \in 1 .. Len(a) : a[i].pid = b[j].pid /\ a[i].start = b[j].start
                   /\ \E i \in 1 .. Len(a) : a[i].pid = b[j].pid /\ a[i].end = b[j].end
        <4>1. CASE j = Len(m) + 1
          <5>1. Len(r) + 1 \in 1 .. Len(a) /\ b[j] = x
            BY <2>5, <3>1, <4>1
          <5> QED
            BY <2>5, <5>1
        <4>2. CASE j # Len(m) + 1
          <5>1. j \in 1 .. Len(m) /\ b[j] = m[j]
            BY <3>1, <4>2
          <5>2. PICK i \in 1 .. Len(r) : r[i].pid = m[j].pid /\ r[i].start = m[j].start
            BY <2>2, <5>1 DEF Covers
          <5>3. PICK k \in 1 .. Len(r) : r[k].pid = m[j].pid /\ r[k].end = m[j].end
            BY <2>2, <5>1 DEF Covers
          <5>4. i \in 1 .. Len(a) /\ a[i] = r[i] /\ k \in 1 .. Len(a) /\ a[k] = r[k]
            BY <2>5
          <5> QED
            BY <5>1, <5>2, <5>3, <5>4
        <4> QED
          BY <4>1, <4>2
      <3>4. Covers(b, a)
        BY <3>2, <3>3 DEF Covers
      <3> QED
        BY <2>6, <3>4 DEF b
    <2>7. CASE Merged(a) # Append(m, x)
      <3>1. m # <<>>
        BY <2>3, <2>7, JoinedEmpty
      <3>2. PICK f \in Seq(Lane(T)), y \in Lane(T) : m = Append(f, y)
        BY <2>3, <3>1, SequenceEmptyOrAppend
      <3>3. y.pid = x.pid /\ y.end = x.start /\ Merged(a) = Append(f, Segment(x.pid, y.start, x.end))
        BY <2>3, <2>7, <3>2, JoinedAppend
      <3> DEFINE z == Segment(x.pid, y.start, x.end)
                 b == Append(f, z)
      <3>4. x.pid \in T /\ y.start \in Nat /\ y.end \in Nat /\ y.start < y.end
        <4>1. y.start < y.end
          BY <2>3, <3>2, TidyAppend
        <4> QED
          BY <4>1 DEF Lane
      <3>5. z \in Lane(T) /\ z.pid = x.pid /\ z.start = y.start /\ z.end = x.end
        BY <2>4, <3>4 DEF Segment, Lane
      <3> HIDE DEF z
      <3>6. /\ Len(f) \in Nat /\ Len(b) = Len(f) + 1 /\ b[Len(f) + 1] = z
            /\ \A j \in 1 .. Len(f) : b[j] = f[j]
        BY <3>5, AppendFacts
      <3>7. /\ Len(m) = Len(f) + 1 /\ m[Len(f) + 1] = y
            /\ \A j \in 1 .. Len(f) : m[j] = f[j]
        BY <3>2, AppendFacts
      <3> HIDE DEF b
      <3>8. ASSUME NEW j \in 1 .. Len(m)
            PROVE  j \in 1 .. Len(b) /\ b[j].pid = m[j].pid /\ b[j].start = m[j].start /\ m[j].end <= b[j].end
        <4>1. CASE j = Len(f) + 1
          BY <2>2, <2>4, <3>3, <3>4, <3>5, <3>6, <3>7, <4>1
        <4>2. CASE j # Len(f) + 1
          <5>1. j \in 1 .. Len(f) /\ b[j] = m[j] /\ j \in 1 .. Len(b)
            BY <3>6, <3>7, <4>2
          <5>2. m[j].end \in Nat
            BY <2>3, LaneFacts
          <5> QED
            BY <5>1, <5>2
        <4> QED
          BY <4>1, <4>2
      <3>9. ASSUME NEW i \in 1 .. Len(a)
            PROVE  \E j \in 1 .. Len(b) : b[j].pid = a[i].pid /\ b[j].start <= a[i].start /\ a[i].end <= b[j].end
        <4>1. CASE i = Len(r) + 1
          <5>1. Len(f) + 1 \in 1 .. Len(b) /\ a[i] = x /\ b[Len(f) + 1] = z
            BY <2>5, <3>6, <4>1
          <5>2. z.start <= x.start /\ x.end <= z.end
            BY <2>4, <3>3, <3>4, <3>5
          <5> QED
            BY <3>5, <5>1, <5>2
        <4>2. CASE i # Len(r) + 1
          <5>1. i \in 1 .. Len(r) /\ a[i] = r[i]
            BY <2>5, <4>2
          <5>2. PICK j \in 1 .. Len(m) : m[j].pid = r[i].pid /\ m[j].start <= r[i].start /\ r[i].end <= m[j].end
            BY <2>2, <5>1 DEF Covers
          <5>3. j \in 1 .. Len(b) /\ b[j].pid = m[j].pid /\ b[j].start = m[j].start /\ m[j].end <= b[j].end
            BY <3>8
          <5>4. r[i].end \in Nat /\ m[j].end \in Nat
            BY <2>3, <5>1, LaneFacts
          <5>5. b[j].end \in Nat
            BY <3>5, <3>6, <5>3, AppendFacts, LaneFacts DEF b
          <5> QED
            BY <5>1, <5>2, <5>3, <5>4, <5>5
        <4> QED
          BY <4>1, <4>2
      <3>10. ASSUME NEW j \in 1 .. Len(b)
             PROVE  /\ \E i \in 1 .. Len(a) : a[i].pid = b[j].pid /\ a[i].start = b[j].start
                    /\ \E i \in 1 .. Len(a) : a[i].pid = b[j].pid /\ a[i].end = b[j].end
        <4>1. j \in 1 .. Len(m)
          BY <3>6, <3>7
        <4>2. PICK i \in 1 .. Len(r) : r[i].pid = m[j].pid /\ r[i].start = m[j].start
          BY <2>2, <4>1 DEF Covers
        <4>3. PICK k \in 1 .. Len(r) : r[k].pid = m[j].pid /\ r[k].end = m[j].end
          BY <2>2, <4>1 DEF Covers
        <4>4. i \in 1 .. Len(a) /\ a[i] = r[i] /\ k \in 1 .. Len(a) /\ a[k] = r[k]
          BY <2>5
        <4>5. b[j].pid = m[j].pid /\ b[j].start = m[j].start
          BY <3>8, <4>1
        <4>6. CASE j = Len(f) + 1
          <5>1. Len(r) + 1 \in 1 .. Len(a) /\ b[j] = z
            BY <2>5, <3>6, <4>6
          <5> QED
            BY <2>5, <3>5, <4>2, <4>4, <4>5, <5>1
        <4>7. CASE j # Len(f) + 1
          <5>1. j \in 1 .. Len(f) /\ b[j] = m[j]
            BY <3>6, <3>7, <4>7
          <5> QED
            BY <4>2, <4>3, <4>4, <5>1
        <4> QED
          BY <4>6, <4>7
      <3>11. Covers(b, a)
        BY <3>9, <3>10 DEF Covers
      <3> QED
        BY <3>3, <3>11 DEF b, z
    <2> QED
      BY <2>6, <2>7
  <1> HIDE DEF G
  <1>3. Seq(Lane(T)) \subseteq G
    BY <1>1, <1>2, SeqInduction
  <1> QED
    BY <1>3 DEF G, Gapless

----------------------------------------------------------------------------
(* Queues: lists that name every element of a set once.                    *)

Roster(S, q) == q \in Seq(S) /\ ToSet(q) = S /\ Distinct(q)

LEMMA RosterEmpty == Roster({}, <<>>)
  <1>1. <<>> \in Seq({}) /\ DOMAIN <<>> = {}
    OBVIOUS
  <1> QED
    BY <1>1 DEF Roster, ToSet, Distinct

LEMMA RosterOne ==
    ASSUME NEW x
    PROVE  Roster({x}, <<x>>)
  <1>1. <<x>> \in Seq({x}) /\ DOMAIN <<x>> = {1} /\ <<x>>[1] = x
    OBVIOUS
  <1> QED
    BY <1>1 DEF Roster, ToSet, Distinct

LEMMA RosterFacts ==
    ASSUME NEW S, NEW q, Roster(S, q)
    PROVE  /\ Len(q) \in Nat /\ DOMAIN q = 1 .. Len(q) /\ \A i \in 1 .. Len(q) : q[i] \in S
           /\ \A x \in S : \E i \in 1 .. Len(q) : q[i] = x
           /\ \A i, j \in 1 .. Len(q) : q[i] = q[j] => i = j
  <1>1. Len(q) \in Nat /\ DOMAIN q = 1 .. Len(q) /\ \A i \in 1 .. Len(q) : q[i] \in S
    BY NamedFacts DEF Roster
  <1> QED
    BY <1>1 DEF Roster, ToSet, Distinct

LEMMA RosterConcat ==
    ASSUME NEW A, NEW a, Roster(A, a), NEW B, NEW b, Roster(B, b), A \cap B = {}
    PROVE  Roster(A \union B, a \o b)
  <1> DEFINE U == A \union B
             n == Len(a)
             m == Len(b)
             c == a \o b
  <1>1. a \in Seq(U) /\ b \in Seq(U)
    BY SeqMonotonic DEF Roster
  <1>2. /\ n \in Nat /\ DOMAIN a = 1 .. n /\ \A i \in 1 .. n : a[i] \in A
        /\ \A x \in A : \E i \in 1 .. n : a[i] = x
        /\ \A i, j \in 1 .. n : a[i] = a[j] => i = j
    BY RosterFacts
  <1>3. /\ m \in Nat /\ DOMAIN b = 1 .. m /\ \A i \in 1 .. m : b[i] \in B
        /\ \A x \in B : \E i \in 1 .. m : b[i] = x
        /\ \A i, j \in 1 .. m : b[i] = b[j] => i = j
    BY RosterFacts
  <1>4. /\ c \in Seq(U) /\ Len(c) = n + m
        /\ \A i \in 1 .. n + m : c[i] = IF i <= n THEN a[i] ELSE b[i - n]
    BY <1>1, ConcatProperties
  <1> HIDE DEF c, n, m
  <1>5. DOMAIN c = 1 .. n + m
    BY <1>4, NamedFacts
  <1>6. \A i \in 1 .. n + m : (i <= n /\ i \in 1 .. n /\ c[i] = a[i]) \/ (i > n /\ i - n \in 1 .. m /\ c[i] = b[i - n])
    BY <1>2, <1>3, <1>4
  <1>7. Distinct(c)
    <2> SUFFICES ASSUME NEW i \in 1 .. n + m, NEW j \in 1 .. n + m, c[i] = c[j]
                 PROVE  i = j
      BY <1>5 DEF Distinct
    <2>1. CASE i <= n /\ j <= n
      <3>1. i \in 1 .. n /\ j \in 1 .. n /\ a[i] = a[j]
        BY <1>2, <1>6, <2>1
      <3> QED
        BY <1>2, <3>1
    <2>2. CASE i > n /\ j > n
      <3>1. i - n \in 1 .. m /\ j - n \in 1 .. m /\ b[i - n] = b[j - n]
        BY <1>2, <1>6, <2>2
      <3>2. i - n = j - n
        BY <1>3, <3>1
      <3> QED
        BY <1>2, <3>2
    <2>3. CASE i <= n /\ j > n
      <3>1. c[i] \in A /\ c[j] \in B
        BY <1>2, <1>3, <1>6, <2>3
      <3> QED
        BY <3>1
    <2>4. CASE i > n /\ j <= n
      <3>1. c[i] \in B /\ c[j] \in A
        BY <1>2, <1>3, <1>6, <2>4
      <3> QED
        BY <3>1
    <2>5. (i <= n \/ i > n) /\ (j <= n \/ j > n)
      BY <1>2
    <2> QED
      BY <2>1, <2>2, <2>3, <2>4, <2>5
  <1>8. ToSet(c) = U
    <2>1. \A i \in 1 .. n + m : c[i] \in U
      BY <1>2, <1>3, <1>6
    <2>2. ASSUME NEW x \in A
          PROVE  \E i \in 1 .. n + m : c[i] = x
      <3>1. PICK i \in 1 .. n : a[i] = x
        BY <1>2
      <3>2. i \in 1 .. n + m /\ i <= n
        BY <1>2, <1>3
      <3> QED
        BY <1>4, <3>1, <3>2
    <2>3. ASSUME NEW x \in B
          PROVE  \E i \in 1 .. n + m : c[i] = x
      <3>1. PICK i \in 1 .. m : b[i] = x
        BY <1>3
      <3>2. n + i \in 1 .. n + m /\ ~(n + i <= n) /\ (n + i) - n = i
        BY <1>2, <1>3
      <3>3. c[n + i] = b[i]
        BY <1>4, <3>2
      <3> QED
        BY <3>1, <3>2, <3>3
    <2> QED
      BY <1>5, <2>1, <2>2, <2>3 DEF ToSet
  <1> QED
    BY <1>4, <1>7, <1>8 DEF Roster, c

LEMMA RosterTail ==
    ASSUME NEW S, NEW q, Roster(S, q), q # <<>>
    PROVE  Head(q) \in S /\ Roster(S \ {Head(q)}, Tail(q))
  <1> DEFINE n == Len(q)
             h == Head(q)
             r == Tail(q)
  <1>1. /\ n \in Nat /\ DOMAIN q = 1 .. n /\ \A i \in 1 .. n : q[i] \in S
        /\ \A x \in S : \E i \in 1 .. n : q[i] = x
        /\ \A i, j \in 1 .. n : q[i] = q[j] => i = j
    BY RosterFacts
  <1>2. n # 0 /\ q \in Seq(S) /\ h = q[1]
    BY EmptySeq DEF Roster
  <1>3. h \in S /\ r \in Seq(S) /\ Len(r) = n - 1 /\ \A i \in 1 .. n - 1 : r[i] = q[i + 1]
    BY <1>2, HeadTailProperties
  <1> HIDE DEF n, h, r
  <1>4. DOMAIN r = 1 .. n - 1
    BY <1>3, NamedFacts
  <1>5. \A i \in 1 .. n - 1 : r[i] \in S \ {h}
    <2> SUFFICES ASSUME NEW i \in 1 .. n - 1
                 PROVE  r[i] \in S \ {h}
      OBVIOUS
    <2>1. i + 1 \in 1 .. n /\ 1 \in 1 .. n /\ i + 1 # 1
      BY <1>1, <1>2
    <2>2. q[i + 1] \in S /\ q[i + 1] # q[1]
      BY <1>1, <2>1
    <2> QED
      BY <1>2, <1>3, <2>2
  <1>6. r \in Seq(S \ {h})
    <2>1. n - 1 \in Nat /\ r = [i \in 1 .. n - 1 |-> r[i]]
      BY <1>1, <1>2, <1>3, LenProperties
    <2> QED
      BY <1>5, <2>1, SeqDef
  <1>7. Distinct(r)
    <2> SUFFICES ASSUME NEW i \in 1 .. n - 1, NEW j \in 1 .. n - 1, r[i] = r[j]
                 PROVE  i = j
      BY <1>4 DEF Distinct
    <2>1. i + 1 \in 1 .. n /\ j + 1 \in 1 .. n
      BY <1>1
    <2>2. i + 1 = j + 1
      BY <1>1, <1>3, <2>1
    <2> QED
      BY <2>2
  <1>8. ASSUME NEW x \in S \ {h}
        PROVE  \E i \in 1 .. n - 1 : r[i] = x
    <2>1. PICK j \in 1 .. n : q[j] = x
      BY <1>1
    <2>2. j # 1
      BY <1>2, <2>1
    <2>3. j - 1 \in 1 .. n - 1 /\ (j - 1) + 1 = j
      BY <1>1, <2>2
    <2> QED
      BY <1>3, <2>1, <2>3
  <1>9. ToSet(r) = S \ {h}
    BY <1>4, <1>5, <1>8 DEF ToSet
  <1> QED
    BY <1>3, <1>6, <1>7, <1>9 DEF Roster, h, r

LEMMA SeqsAreRosters ==
    ASSUME NEW S, IsFiniteSet(S)
    PROVE  /\ SetToSeqs(S) # {}
           /\ \A q : q \in SetToSeqs(S) <=> Roster(S, q)
  <1> DEFINE n == Cardinality(S)
  <1>1. n \in Nat
    BY FS_CardinalityType
  <1>2. SetToSeqs(S) = {f \in [1 .. n -> S] : \A i, j \in 1 .. n : i # j => f[i] # f[j]}
    BY DEF SetToSeqs
  <1>3. ASSUME NEW q, Roster(S, q)
        PROVE  q \in SetToSeqs(S)
    <2>1. /\ Len(q) \in Nat /\ DOMAIN q = 1 .. Len(q) /\ \A i \in 1 .. Len(q) : q[i] \in S
          /\ \A i, j \in 1 .. Len(q) : q[i] = q[j] => i = j
      BY <1>3, RosterFacts
    <2>2. Len(q) = n
      BY <1>3, DistinctCount DEF Roster
    <2>3. q = [i \in 1 .. Len(q) |-> q[i]]
      BY <1>3, LenProperties DEF Roster
    <2> HIDE DEF n
    <2> QED
      BY <1>2, <2>1, <2>2, <2>3
  <1>4. ASSUME NEW q \in SetToSeqs(S)
        PROVE  Roster(S, q)
    <2>1. q \in [1 .. n -> S] /\ \A i, j \in 1 .. n : i # j => q[i] # q[j]
      BY <1>2
    <2> HIDE DEF n
    <2>2. q \in Seq(S) /\ Len(q) = n /\ DOMAIN q = 1 .. n
      BY <1>1, <2>1, SeqDef
    <2>3. Distinct(q)
      BY <2>1, <2>2 DEF Distinct
    <2>4. ToSet(q) \in SUBSET S
      BY <2>1, <2>2 DEF ToSet
    <2>5. Cardinality(ToSet(q)) = n
      BY <2>2, <2>3, DistinctCount
    <2>6. ToSet(q) = S
      BY <2>4, <2>5, FS_Subset DEF n
    <2> QED
      BY <2>2, <2>3, <2>6 DEF Roster
  <1>5. SetToSeqs(S) # {}
    <2>1. PICK m \in Nat : ExistsBijection(1 .. m, S)
      BY FS_NatBijection
    <2>2. n = m
      BY <2>1, FS_CountingElements
    <2>3. PICK f : f \in Bijection(1 .. m, S)
      BY <2>1 DEF ExistsBijection
    <2>4. f \in [1 .. n -> S] /\ \A i, j \in 1 .. n : i # j => f[i] # f[j]
      BY <2>2, <2>3 DEF Bijection, Injection, IsInjective
    <2> HIDE DEF n
    <2> QED
      BY <1>2, <2>4
  <1> QED
    BY <1>3, <1>4, <1>5

(* The orders in which groups enqueue: who arrives in a span of time is    *)
(* listed once.                                                            *)
IsFlat(f, groups) ==
    f = [n \in 0 .. Len(groups) |->
            IF n = 0 THEN {<<>>} ELSE InAnyOrder(f[n - 1], groups[n])]

Within(problem, S, lo, hi) == {p \in S : lo < problem.arrival[p] /\ problem.arrival[p] <= hi}

Prolongs(heads, S, h) == \E head \in heads : \E q : Roster(S, q) /\ h = head \o q

LEMMA InAnyOrderFacts ==
    ASSUME NEW heads, NEW S, IsFiniteSet(S)
    PROVE  /\ \A h \in InAnyOrder(heads, S) : Prolongs(heads, S, h)
           /\ heads # {} => InAnyOrder(heads, S) # {}
  <1>1. /\ SetToSeqs(S) # {}
        /\ \A q : q \in SetToSeqs(S) <=> Roster(S, q)
    BY SeqsAreRosters
  <1>2. ASSUME NEW h \in InAnyOrder(heads, S)
        PROVE  Prolongs(heads, S, h)
    <2>1. PICK head \in heads, q \in SetToSeqs(S) : h = head \o q
      BY DEF InAnyOrder
    <2> QED
      BY <1>1, <2>1 DEF Prolongs
  <1>3. ASSUME heads # {}
        PROVE  InAnyOrder(heads, S) # {}
    <2>1. PICK head \in heads : TRUE
      BY <1>3
    <2>2. PICK q : q \in SetToSeqs(S)
      BY <1>1
    <2>3. head \o q \in InAnyOrder(heads, S)
      BY <2>1, <2>2 DEF InAnyOrder
    <2> QED
      BY <2>3
  <1> QED
    BY <1>2, <1>3

LEMMA FlatExists ==
    ASSUME NEW S, IsFiniteSet(S), NEW groups \in Seq(SUBSET S)
    PROVE  \E f : IsFlat(f, groups)
  <1> DEFINE V == SUBSET Seq(S)
             m == Len(groups)
             step == [x \in (1 .. m) \X V |-> InAnyOrder(x[2], groups[x[1]])]
  <1>1. m \in Nat /\ {<<>>} \in V /\ \A n \in 1 .. m : groups[n] \in SUBSET S
    BY EmptySeq, LenProperties, ElementOfSeq
  <1>2. ASSUME NEW n \in 1 .. m, NEW v \in V
        PROVE  step[<<n, v>>] = InAnyOrder(v, groups[n]) /\ step[<<n, v>>] \in V
    <2>1. ASSUME NEW h \in InAnyOrder(v, groups[n])
          PROVE  h \in Seq(S)
      <3>1. groups[n] \in SUBSET S /\ IsFiniteSet(groups[n])
        BY <1>1, FS_Subset
      <3>2. PICK head \in v : \E q : Roster(groups[n], q) /\ h = head \o q
        BY <3>1, InAnyOrderFacts DEF Prolongs
      <3>3. PICK q : Roster(groups[n], q) /\ h = head \o q
        BY <3>2
      <3>4. q \in Seq(S) /\ head \in Seq(S)
        BY <3>1, <3>3, SeqMonotonic DEF Roster
      <3> QED
        BY <3>3, <3>4, ConcatProperties
    <2>2. InAnyOrder(v, groups[n]) \in V
      BY <2>1
    <2>3. <<n, v>> \in (1 .. m) \X V
      OBVIOUS
    <2> HIDE DEF V
    <2>4. step[<<n, v>>] = InAnyOrder(v, groups[n])
      BY <2>3
    <2> QED
      BY <2>2, <2>4
  <1> HIDE DEF step, m, V
  <1>3. PICK f \in [0 .. m -> V] : IsTable(f, m, {<<>>}, step)
    BY <1>1, <1>2, TableExists
  <1>4. ASSUME NEW n \in 0 .. m
        PROVE  f[n] = IF n = 0 THEN {<<>>} ELSE InAnyOrder(f[n - 1], groups[n])
    <2>1. n # 0 => n \in 1 .. m /\ n - 1 \in 0 .. m
      BY <1>1
    <2>2. n # 0 => f[n - 1] \in V
      BY <2>1
    <2>3. f[n] = IF n = 0 THEN {<<>>} ELSE step[<<n, f[n - 1]>>]
      BY <1>3 DEF IsTable
    <2> QED
      BY <1>2, <2>1, <2>2, <2>3
  <1>5. f = [n \in 0 .. m |-> IF n = 0 THEN {<<>>} ELSE InAnyOrder(f[n - 1], groups[n])]
    BY <1>4
  <1> QED
    BY <1>5 DEF IsFlat, m

LEMMA FlattenFacts ==
    ASSUME NEW problem, ScheduleProblem(problem), NEW S \in SUBSET Procs(problem),
           NEW lo \in Nat, NEW hi \in Nat, lo <= hi
    PROVE  /\ Flatten(Between(problem, S, lo, hi)) # {}
           /\ \A h \in Flatten(Between(problem, S, lo, hi)) : Roster(Within(problem, S, lo, hi), h)
  <1> DEFINE groups == Between(problem, S, lo, hi)
             m == hi - lo
  <1>1. m \in Nat /\ IsFiniteSet(S) /\ \A p \in S : problem.arrival[p] \in Nat
    BY FS_Subset DEF ScheduleProblem
  <1>2. /\ groups = [k \in 1 .. m |-> Arriving(problem, S, lo + k)]
        /\ groups \in Seq(SUBSET S) /\ Len(groups) = m
    <2>1. groups = [k \in 1 .. m |-> Arriving(problem, S, lo + k)]
      BY <1>1 DEF Between
    <2>2. \A k \in 1 .. m : Arriving(problem, S, lo + k) \in SUBSET S
      BY DEF Arriving
    <2> HIDE DEF m, groups
    <2>3. groups \in [1 .. m -> SUBSET S]
      BY <2>1, <2>2
    <2>4. groups \in Seq(SUBSET S)
      BY <1>1, <2>3, SeqDef
    <2>5. DOMAIN groups = 1 .. m
      BY <2>3
    <2>6. Len(groups) = m
      BY <1>1, <2>3, <2>4, LenProperties
    <2> QED
      BY <2>1, <2>4, <2>6
  <1> HIDE DEF groups, m
  <1> DEFINE f == CHOOSE f : IsFlat(f, groups)
  <1>3. IsFlat(f, groups)
    BY <1>1, <1>2, FlatExists
  <1>4. Flatten(groups) = f[m]
    BY <1>2 DEF Flatten, IsFlat
  <1> HIDE DEF f
  <1>a. \A n \in 0 .. m : f[n] = IF n = 0 THEN {<<>>} ELSE InAnyOrder(f[n - 1], groups[n])
    BY <1>2, <1>3 DEF IsFlat
  <1>5. f[0] = {<<>>} /\ \A n \in 1 .. m : f[n] = InAnyOrder(f[n - 1], groups[n])
    <2>1. 0 \in 0 .. m /\ \A n \in 1 .. m : n \in 0 .. m /\ n # 0
      BY <1>1
    <2> QED
      BY <1>a, <2>1
  <1> DEFINE T == {n \in Nat : n <= m => f[n] # {} /\ \A h \in f[n] : Roster(Within(problem, S, lo, lo + n), h)}
  <1>6. 0 \in T
    <2>1. Within(problem, S, lo, lo + 0) = {}
      BY <1>1 DEF Within
    <2> QED
      BY <1>5, <2>1, RosterEmpty
  <1>7. ASSUME NEW n \in Nat, n \in T
        PROVE  n + 1 \in T
    <2> SUFFICES ASSUME n + 1 <= m
                 PROVE  f[n + 1] # {} /\ \A h \in f[n + 1] : Roster(Within(problem, S, lo, lo + (n + 1)), h)
      OBVIOUS
    <2> DEFINE here == Arriving(problem, S, lo + (n + 1))
               before == Within(problem, S, lo, lo + n)
    <2>1. n + 1 \in 1 .. m /\ (n + 1) - 1 = n /\ n <= m /\ n + 1 \in Nat
      BY <1>1
    <2>2. f[n + 1] = InAnyOrder(f[n], here)
      BY <1>2, <1>5, <2>1
    <2>3. f[n] # {} /\ \A h \in f[n] : Roster(before, h)
      BY <1>7, <2>1
    <2>4. IsFiniteSet(here)
      BY <1>1, FS_Subset DEF Arriving
    <2>5. before \cap here = {} /\ before \union here = Within(problem, S, lo, lo + (n + 1))
      BY <1>1 DEF Within, Arriving
    <2> HIDE DEF here, before
    <2>7. ASSUME NEW h \in f[n + 1]
          PROVE  Roster(Within(problem, S, lo, lo + (n + 1)), h)
      <3>a. h \in InAnyOrder(f[n], here)
        BY <2>2
      <3>1. PICK head \in f[n] : \E q : Roster(here, q) /\ h = head \o q
        <4> DEFINE heads == f[n]
        <4> HIDE DEF heads
        <4>1. h \in InAnyOrder(heads, here)
          BY <3>a DEF heads
        <4>2. Prolongs(heads, here, h)
          BY <2>4, <4>1, InAnyOrderFacts
        <4> QED
          BY <4>2 DEF Prolongs, heads
      <3>2. PICK q : Roster(here, q) /\ h = head \o q
        BY <3>1
      <3>3. Roster(before, head) /\ before \cap here = {}
        BY <2>3, <2>5
      <3>4. Roster(before \union here, head \o q)
        BY <3>2, <3>3, RosterConcat
      <3> QED
        BY <2>5, <3>2, <3>4
    <2>8. f[n + 1] # {}
      BY <2>2, <2>3, <2>4, InAnyOrderFacts
    <2> QED
      BY <2>7, <2>8
  <1> HIDE DEF T
  <1>8. m \in T
    BY <1>1, <1>6, <1>7, Induction
  <1>9. lo + m = hi
    BY <1>1 DEF m
  <1> QED
    BY <1>1, <1>4, <1>8, <1>9 DEF T, groups

----------------------------------------------------------------------------
(* The states of the transition system: what is queued is what has arrived *)
(* and is not finished; time and what is left never exceed the horizon.    *)
States(problem) == [t : Nat, queue : Seq(Procs(problem)), rem : [Procs(problem) -> Nat]]
Arrived(problem, s) == {p \in Unfinished(s) : problem.arrival[p] <= s.t}
Horizon(problem) == SumFunction(problem.arrival) + SumFunction(problem.burst)

Left(problem, rem) == SumFunctionOnSet(rem, Procs(problem))

Legal(problem, s) ==
    /\ s \in States(problem)
    /\ \A p \in Procs(problem) : s.rem[p] <= problem.burst[p]
    /\ s.t + Left(problem, s.rem) <= Horizon(problem)
    /\ problem.policy = "RR" => Roster(Arrived(problem, s), s.queue)
    /\ problem.policy # "RR" => \A p \in Procs(problem) : s.rem[p] = 0 \/ s.rem[p] = problem.burst[p]

LEMMA ProblemFacts ==
    ASSUME NEW P, ScheduleProblem(P)
    PROVE  /\ IsFiniteSet(Procs(P)) /\ Idle \notin Procs(P)
           /\ \A p \in Procs(P) : P.burst[p] \in Nat /\ P.burst[p] > 0 /\ P.arrival[p] \in Nat
           /\ Horizon(P) = Left(P, P.arrival) + Left(P, P.burst)
           /\ Left(P, P.arrival) \in Int /\ Left(P, P.burst) \in Int
           /\ \A p \in Procs(P) : P.arrival[p] <= Left(P, P.arrival)
  <1>1. /\ IsFiniteSet(Procs(P)) /\ Idle \notin Procs(P)
        /\ \A p \in Procs(P) : P.burst[p] \in Nat /\ P.burst[p] > 0 /\ P.arrival[p] \in Nat
        /\ DOMAIN P.arrival = Procs(P) /\ DOMAIN P.burst = Procs(P)
    BY DEF ScheduleProblem
  <1>2. Horizon(P) = Left(P, P.arrival) + Left(P, P.burst)
    BY <1>1 DEF Horizon, Left, SumFunction
  <1>3. Left(P, P.arrival) \in Int /\ Left(P, P.burst) \in Int
    BY <1>1, SumType DEF Left
  <1>4. ASSUME NEW p \in Procs(P)
        PROVE  P.arrival[p] <= Left(P, P.arrival)
    <2> DEFINE S == Procs(P) \ {p}
               none == [x \in S |-> 0]
    <2>1. SumFunctionOnSet(P.arrival, Procs(P)) = P.arrival[p] + SumFunctionOnSet(P.arrival, S)
      BY <1>1, SumStep
    <2>2. IsFiniteSet(S) /\ \A x \in S : none[x] = 0 /\ none[x] \in Int /\ P.arrival[x] \in Int /\ none[x] <= P.arrival[x]
      BY <1>1, FS_RemoveElement
    <2> HIDE DEF S, none
    <2>3. SumFunctionOnSet(none, S) = 0
      BY <2>2, SumOfZeros
    <2>4. SumFunctionOnSet(none, S) <= SumFunctionOnSet(P.arrival, S)
      BY <2>2, SumGrows
    <2>5. SumFunctionOnSet(P.arrival, S) \in Int
      BY <2>2, SumType
    <2> QED
      BY <1>1, <2>1, <2>3, <2>4, <2>5 DEF Left
  <1> QED
    BY <1>1, <1>2, <1>3, <1>4

LEMMA LeftFacts ==
    ASSUME NEW P, ScheduleProblem(P), NEW f \in [Procs(P) -> Nat]
    PROVE  /\ Left(P, f) \in Nat
           /\ Left(P, f) = 0 <=> \A p \in Procs(P) : f[p] = 0
           /\ \A g \in [Procs(P) -> Nat] :
                /\ (\A p \in Procs(P) : f[p] <= g[p]) => Left(P, f) <= Left(P, g)
                /\ \A y \in Procs(P) : (\A p \in Procs(P) : p # y => f[p] = g[p]) =>
                        Left(P, f) - f[y] = Left(P, g) - g[y]
  <1> DEFINE S == Procs(P)
             none == [x \in S |-> 0]
  <1>1. IsFiniteSet(S) /\ \A x \in S : none[x] = 0 /\ none[x] \in Int /\ f[x] \in Int /\ none[x] <= f[x] /\ f[x] \in Nat
    BY ProblemFacts
  <1> HIDE DEF S, none
  <1>2. SumFunctionOnSet(none, S) = 0
    BY <1>1, SumOfZeros
  <1>3. SumFunctionOnSet(f, S) \in Int
    BY <1>1, SumType
  <1>4. SumFunctionOnSet(none, S) <= SumFunctionOnSet(f, S)
    BY <1>1, SumGrows
  <1>5. SumFunctionOnSet(f, S) \in Nat
    BY <1>2, <1>3, <1>4
  <1>6. SumFunctionOnSet(f, S) = 0 <=> \A x \in S : f[x] = 0
    <2>1. (\A x \in S : f[x] = 0) => SumFunctionOnSet(f, S) = 0
      BY <1>1, SumOfZeros
    <2>2. ASSUME NEW y \in S, f[y] # 0
          PROVE  SumFunctionOnSet(f, S) # 0
      <3>1. none[y] < f[y]
        BY <1>1, <2>2
      <3>2. SumFunctionOnSet(none, S) < SumFunctionOnSet(f, S)
        BY <1>1, <3>1, SumGrowsStrictly
      <3> QED
        BY <1>2, <1>3, <3>2
    <2> QED
      BY <2>1, <2>2
  <1>7. ASSUME NEW g \in [Procs(P) -> Nat], \A p \in S : f[p] <= g[p]
        PROVE  SumFunctionOnSet(f, S) <= SumFunctionOnSet(g, S)
    <2>1. \A x \in S : f[x] \in Int /\ g[x] \in Int /\ f[x] <= g[x]
      BY <1>7, <1>1 DEF S
    <2> QED
      BY <1>1, <2>1, SumGrows
  <1>8. ASSUME NEW g \in [Procs(P) -> Nat], NEW y \in S, \A p \in S : p # y => f[p] = g[p]
        PROVE  SumFunctionOnSet(f, S) - f[y] = SumFunctionOnSet(g, S) - g[y]
    <2>1. \A x \in S : f[x] \in Int /\ g[x] \in Int
      BY <1>1 DEF S
    <2>2. SumFunctionOnSet(f, S) = f[y] + SumFunctionOnSet(f, S \ {y})
      BY <1>1, <2>1, SumStep
    <2>3. SumFunctionOnSet(g, S) = g[y] + SumFunctionOnSet(g, S \ {y})
      BY <1>1, <2>1, SumStep
    <2>4. IsFiniteSet(S \ {y}) /\ \A x \in S \ {y} : f[x] \in Int /\ g[x] = f[x]
      BY <1>1, <1>8, <2>1, FS_RemoveElement
    <2>5. SumFunctionOnSet(f, S \ {y}) = SumFunctionOnSet(g, S \ {y}) /\ SumFunctionOnSet(f, S \ {y}) \in Int
      BY <2>4, SumEqual, SumType
    <2> QED
      BY <1>1, <2>1, <2>2, <2>3, <2>5
  <1> QED
    BY <1>5, <1>6, <1>7, <1>8 DEF Left, S

----------------------------------------------------------------------------
(* One dispatch under round robin: it takes a quantum at most, who was     *)
(* queued moves up, who arrives meanwhile comes next, and behind them, in  *)
(* any order, who arrives at its end and the preempted process.            *)
MovesUp(P, pid, c, d) ==
    /\ c.queue # <<>> /\ Head(c.queue) = pid /\ d.t - c.t <= P.quantum
    /\ \E mid, tail :
          /\ d.queue = Tail(c.queue) \o mid \o tail
          /\ Roster(Arrived(P, c) \ {pid}, Tail(c.queue))
          /\ Roster(Within(P, Unfinished(c), c.t, d.t - 1), mid)
          /\ Roster((IF d.rem[pid] > 0 THEN {pid} ELSE {}) \union Arriving(P, Unfinished(c), d.t), tail)

LEMMA DispatchFacts ==
    ASSUME NEW P, ScheduleProblem(P), P.policy = "RR", NEW c, Legal(P, c), NEW pid, NEW end \in Nat,
           NEW d, d \in Dispatches(P, pid, end, c)
    PROVE  /\ Legal(P, d) /\ c.t < d.t /\ d.t <= end /\ pid \in Arrived(P, c)
           /\ \A p \in Procs(P) : p # pid => d.rem[p] = c.rem[p]
           /\ d.rem[pid] = c.rem[pid] - (d.t - c.t)
           /\ MovesUp(P, pid, c, d)
  <1> DEFINE run == Min({P.quantum, c.rem[pid]})
             stop == c.t + run
             left == [c.rem EXCEPT ![pid] = @ - run]
             open == Unfinished(c)
             pre == IF left[pid] > 0 THEN <<pid>> ELSE <<>>
             before == Within(P, open, c.t, stop - 1)
             now == Arriving(P, open, stop)
             lasts == UNION {{e \o pre, pre \o e} : e \in SetToSeqs(now)}
             stays == IF left[pid] > 0 THEN {pid} ELSE {}
  <1>1. /\ c.t \in Nat /\ c.queue \in Seq(Procs(P)) /\ c.rem \in [Procs(P) -> Nat]
        /\ DOMAIN c.rem = Procs(P) /\ open \in SUBSET Procs(P) /\ open = {p \in Procs(P) : c.rem[p] > 0}
        /\ Roster(Arrived(P, c), c.queue) /\ Arrived(P, c) = {p \in open : P.arrival[p] <= c.t}
    BY DEF Legal, States, Unfinished, Arrived
  <1>2. /\ IsFiniteSet(Procs(P)) /\ P.quantum \in Nat /\ P.quantum > 0
        /\ \A p \in Procs(P) : P.burst[p] \in Nat /\ P.burst[p] > 0 /\ P.arrival[p] \in Nat
    BY ProblemFacts DEF ScheduleProblem
  <1>3. /\ c.queue # <<>> /\ Head(c.queue) = pid /\ ~(c.t >= end) /\ ~(stop > end)
        /\ \E q \in Queues(Tail(c.queue), Flatten(Between(P, open, c.t, stop - 1)), lasts) :
              d = [t |-> stop, queue |-> q, rem |-> left]
    BY DEF Dispatches
  <1>4. pid \in Arrived(P, c) /\ Roster(Arrived(P, c) \ {pid}, Tail(c.queue))
    <2> DEFINE A == Arrived(P, c)
               q == c.queue
    <2>1. Roster(A, q) /\ q # <<>> /\ Head(q) = pid
      BY <1>1, <1>3
    <2> HIDE DEF A, q
    <2> QED
      BY <2>1, RosterTail DEF A, q
  <1>5. pid \in Procs(P) /\ c.rem[pid] \in Nat /\ c.rem[pid] > 0 /\ P.arrival[pid] <= c.t
    BY <1>1, <1>4
  <1>6. run \in Nat /\ run > 0 /\ run <= c.rem[pid] /\ run <= P.quantum
    <2> DEFINE a == P.quantum
               b == c.rem[pid]
    <2>1. a \in Int /\ b \in Int /\ a \in Nat /\ b \in Nat /\ a > 0 /\ b > 0
      BY <1>2, <1>5
    <2> HIDE DEF a, b
    <2>2. Min({a, b}) = IF a <= b THEN a ELSE b
      BY <2>1, PairFacts
    <2> QED
      BY <2>1, <2>2 DEF a, b
  <1>7. PICK mid \in Flatten(Between(P, open, c.t, stop - 1)), tail \in lasts :
           d = [t |-> stop, queue |-> Tail(c.queue) \o mid \o tail, rem |-> left]
    <2> DEFINE mids == Flatten(Between(P, open, c.t, stop - 1))
    <2>1. PICK q \in Queues(Tail(c.queue), mids, lasts) : d = [t |-> stop, queue |-> q, rem |-> left]
      BY <1>3
    <2> HIDE DEF mids, lasts, stop, left
    <2>2. PICK mid \in mids, tail \in lasts : q = Tail(c.queue) \o mid \o tail
      BY <2>1 DEF Queues
    <2> QED
      BY <2>1, <2>2 DEF mids
  <1> HIDE DEF run
  <1>8. /\ stop \in Nat /\ stop - 1 \in Nat /\ c.t <= stop - 1
        /\ left \in [Procs(P) -> Nat] /\ left[pid] = c.rem[pid] - run
        /\ \A p \in Procs(P) : p # pid => left[p] = c.rem[p]
    BY <1>1, <1>5, <1>6
  <1>9. /\ IsFiniteSet(open) /\ IsFiniteSet(now)
        /\ now \subseteq open
    BY <1>1, <1>2, FS_Subset DEF Arriving
  <1>10. Roster(before, mid)
    <2>1. open \in SUBSET Procs(P) /\ stop - 1 \in Nat /\ c.t \in Nat /\ c.t <= stop - 1
      BY <1>1, <1>8
    <2> HIDE DEF open, stop
    <2> QED
      BY <2>1, <1>7, FlattenFacts
  <1>11. Roster(stays \union now, tail)
    <2>1. PICK e \in SetToSeqs(now) : tail = e \o pre \/ tail = pre \o e
      BY <1>7
    <2>2. Roster(now, e)
      BY <1>9, <2>1, SeqsAreRosters
    <2>3. Roster(stays, pre)
      BY RosterEmpty, RosterOne
    <2>4. stays \cap now = {}
      BY <1>1, <1>2, <1>5, <1>8 DEF Arriving
    <2> HIDE DEF stays, now, pre
    <2>5. now \cap stays = {} /\ stays \union now = now \union stays
      BY <2>4
    <2>6. Roster(stays \union now, pre \o e)
      BY <2>2, <2>3, <2>4, RosterConcat
    <2>7. Roster(now \union stays, e \o pre)
      BY <2>2, <2>3, <2>5, RosterConcat
    <2> QED
      BY <2>1, <2>5, <2>6, <2>7
  <1>12. /\ (Arrived(P, c) \ {pid}) \cap before = {}
         /\ ((Arrived(P, c) \ {pid}) \union before) \cap (stays \union now) = {}
         /\ ((Arrived(P, c) \ {pid}) \union before) \union (stays \union now) = {p \in Procs(P) : left[p] > 0 /\ P.arrival[p] <= stop}
    <2>1. \A p \in Procs(P) : P.arrival[p] \in Nat /\ c.rem[p] \in Nat /\ left[p] \in Nat
      BY <1>1, <1>2, <1>8
    <2> HIDE DEF left, stop
    <2> QED
      BY <2>1, <1>1, <1>5, <1>8 DEF Within, Arriving
  <1>13. Roster({p \in Procs(P) : left[p] > 0 /\ P.arrival[p] <= stop}, Tail(c.queue) \o mid \o tail)
    <2> DEFINE A == Arrived(P, c) \ {pid}
               B == stays \union now
    <2>1. A \cap before = {} /\ (A \union before) \cap B = {} /\ (A \union before) \union B = {p \in Procs(P) : left[p] > 0 /\ P.arrival[p] <= stop}
      BY <1>12
    <2>2. Roster(A, Tail(c.queue)) /\ Roster(before, mid) /\ Roster(B, tail)
      BY <1>4, <1>10, <1>11
    <2> HIDE DEF A, B, before, left, stop
    <2>3. Roster(A \union before, Tail(c.queue) \o mid)
      BY <2>1, <2>2, RosterConcat
    <2>4. Roster((A \union before) \union B, (Tail(c.queue) \o mid) \o tail)
      BY <2>1, <2>2, <2>3, RosterConcat
    <2> QED
      BY <2>1, <2>4
  <1> HIDE DEF left, stop, open
  <1>14. d.t = stop /\ d.rem = left /\ d.queue = Tail(c.queue) \o mid \o tail
    BY <1>7
  <1>15. Arrived(P, d) = {p \in Procs(P) : left[p] > 0 /\ P.arrival[p] <= stop}
    BY <1>8, <1>14 DEF Arrived, Unfinished
  <1>16. d.queue \in Seq(Procs(P)) /\ d \in States(P)
    <2>1. Tail(c.queue) \o mid \o tail \in Seq(Procs(P))
      <3>1. \A q : Roster(Arrived(P, d), q) => q \in Seq(Procs(P))
        BY <1>15, SeqMonotonic DEF Roster
      <3> QED
        BY <3>1, <1>13, <1>15
    <2> QED
      BY <2>1, <1>7, <1>8 DEF States
  <1>17. stop + Left(P, left) <= Horizon(P)
    <2>1. Left(P, left) - left[pid] = Left(P, c.rem) - c.rem[pid]
      BY <1>1, <1>5, <1>8, LeftFacts
    <2>2. Left(P, left) \in Nat /\ Left(P, c.rem) \in Nat
      BY <1>1, <1>8, LeftFacts
    <2>3. c.t + Left(P, c.rem) <= Horizon(P) /\ Horizon(P) \in Int
      BY ProblemFacts DEF Legal
    <2> QED
      <3> DEFINE a == Left(P, left)
                 b == Left(P, c.rem)
                 h == Horizon(P)
      <3>1. /\ a - (c.rem[pid] - run) = b - c.rem[pid] /\ a \in Nat /\ b \in Nat /\ c.t + b <= h /\ h \in Int
            /\ c.t \in Nat /\ run \in Nat /\ c.rem[pid] \in Nat /\ stop = c.t + run
        BY <2>1, <2>2, <2>3, <1>1, <1>5, <1>6, <1>8 DEF stop
      <3> HIDE DEF a, b, h
      <3>2. stop + a <= h
        BY <3>1
      <3> QED
        BY <3>2 DEF a, h
  <1>18. \A p \in Procs(P) : left[p] <= P.burst[p]
    <2>1. \A p \in Procs(P) : c.rem[p] <= P.burst[p] /\ c.rem[p] \in Nat
      BY <1>1 DEF Legal
    <2> QED
      BY <2>1, <1>2, <1>5, <1>6, <1>8
  <1>19. Legal(P, d)
    BY <1>13, <1>14, <1>15, <1>16, <1>17, <1>18 DEF Legal
  <1>20. c.t < stop /\ stop <= end /\ left[pid] = c.rem[pid] - (stop - c.t)
    BY <1>1, <1>3, <1>5, <1>6, <1>8 DEF stop
  <1>21. MovesUp(P, pid, c, d)
    <2>1. stop - c.t <= P.quantum
      BY <1>1, <1>2, <1>6 DEF stop
    <2>2. Roster(Within(P, Unfinished(c), c.t, stop - 1), mid)
      BY <1>10 DEF open
    <2>3. Roster((IF left[pid] > 0 THEN {pid} ELSE {}) \union Arriving(P, Unfinished(c), stop), tail)
      BY <1>11 DEF open
    <2> QED
      BY <1>3, <1>4, <1>14, <2>1, <2>2, <2>3 DEF MovesUp
  <1> QED
    BY <1>4, <1>8, <1>14, <1>19, <1>20, <1>21

LEMMA DispatchWider ==
    ASSUME NEW P, NEW c, NEW pid, NEW end \in Nat, NEW wider \in Nat, end <= wider,
           c.t \in Nat, Min({P.quantum, c.rem[pid]}) \in Nat
    PROVE  Dispatches(P, pid, end, c) \subseteq Dispatches(P, pid, wider, c)
  <1> DEFINE run == Min({P.quantum, c.rem[pid]})
  <1> HIDE DEF run
  <1>1. (c.t >= wider => c.t >= end) /\ (c.t + run > wider => c.t + run > end)
    BY DEF run
  <1> QED
    BY <1>1 DEF Dispatches, run

(* Waiting for the next arrival.                                           *)
LEMMA LeastFacts ==
    ASSUME NEW T, T \subseteq Nat, T # {}
    PROVE  Least(T) \in T /\ \A y \in T : Least(T) <= y
  BY LeastNatural DEF Least

Next(P, c) == Least({P.arrival[p] : p \in Unfinished(c)})
Waited(P, c, q) == [t |-> Next(P, c), queue |-> q, rem |-> c.rem]

LEMMA WaitFacts ==
    ASSUME NEW P, ScheduleProblem(P), NEW c, Legal(P, c), Unfinished(c) # {}, Arrived(P, c) = {}
    PROVE  /\ Next(P, c) \in Nat /\ c.t < Next(P, c)
           /\ \A p \in Unfinished(c) : Next(P, c) <= P.arrival[p] /\ c.t < P.arrival[p]
           /\ \E p \in Unfinished(c) : P.arrival[p] = Next(P, c)
           /\ \A q \in Seq(Procs(P)) :
                /\ Arrived(P, Waited(P, c, q)) = Arriving(P, Unfinished(c), Next(P, c))
                /\ Arrived(P, Waited(P, c, q)) # {}
                /\ (P.policy = "RR" => Roster(Arriving(P, Unfinished(c), Next(P, c)), q)) =>
                        Legal(P, Waited(P, c, q))
  <1> DEFINE open == Unfinished(c)
             T == {P.arrival[p] : p \in open}
             next == Next(P, c)
  <1>1. /\ c.t \in Nat /\ c.queue \in Seq(Procs(P)) /\ c.rem \in [Procs(P) -> Nat]
        /\ open \in SUBSET Procs(P) /\ open = {p \in Procs(P) : c.rem[p] > 0} /\ open # {}
        /\ \A p \in open : ~(P.arrival[p] <= c.t)
    BY DEF Legal, States, Unfinished, Arrived
  <1>2. \A p \in Procs(P) : P.arrival[p] \in Nat /\ P.arrival[p] <= Left(P, P.arrival)
    BY ProblemFacts
  <1>3. next \in T /\ \A y \in T : next <= y
    <2>1. T \subseteq Nat /\ T # {}
      BY <1>1, <1>2
    <2>2. next = Least(T)
      BY DEF Next
    <2> HIDE DEF T, next
    <2> QED
      BY <2>1, <2>2, LeastFacts
  <1> HIDE DEF next
  <1>4. PICK first \in open : P.arrival[first] = next
    BY <1>3
  <1>5. next \in Nat /\ c.t < next /\ \A p \in open : next <= P.arrival[p] /\ c.t < P.arrival[p]
    <2>1. \A p \in open : next <= P.arrival[p]
      BY <1>3
    <2>2. first \in Procs(P) /\ P.arrival[first] \in Nat /\ ~(P.arrival[first] <= c.t)
      BY <1>1, <1>2
    <2>3. \A p \in open : P.arrival[p] \in Nat
      BY <1>1, <1>2
    <2> QED
      BY <2>1, <2>2, <2>3, <1>1, <1>4
  <1>6. next + Left(P, c.rem) <= Horizon(P)
    <2>1. P.burst \in [Procs(P) -> Nat] /\ \A p \in Procs(P) : c.rem[p] <= P.burst[p]
      BY DEF ScheduleProblem, Legal
    <2>2. Left(P, c.rem) <= Left(P, P.burst) /\ Left(P, c.rem) \in Nat
      BY <1>1, <2>1, LeftFacts
    <2>3. next <= Left(P, P.arrival)
      BY <1>1, <1>2, <1>4
    <2>4. Horizon(P) = Left(P, P.arrival) + Left(P, P.burst) /\ Left(P, P.arrival) \in Int /\ Left(P, P.burst) \in Int
      BY ProblemFacts
    <2> DEFINE a == Left(P, c.rem)
               b == Left(P, P.burst)
               e == Left(P, P.arrival)
               h == Horizon(P)
    <2>5. a <= b /\ a \in Nat /\ next <= e /\ h = e + b /\ e \in Int /\ b \in Int
      BY <2>2, <2>3, <2>4
    <2> HIDE DEF a, b, e, h
    <2>6. next + a <= h
      BY <1>5, <2>5
    <2> QED
      BY <2>6 DEF a, h
  <1>7. ASSUME NEW q \in Seq(Procs(P))
        PROVE  /\ Arrived(P, Waited(P, c, q)) = Arriving(P, open, next)
               /\ Arrived(P, Waited(P, c, q)) # {}
               /\ (P.policy = "RR" => Roster(Arriving(P, open, next), q)) => Legal(P, Waited(P, c, q))
    <2> DEFINE w == Waited(P, c, q)
    <2>1. w.t = next /\ w.queue = q /\ w.rem = c.rem /\ w \in States(P)
      BY <1>1, <1>5 DEF Waited, next, States
    <2> HIDE DEF w
    <2>2. Unfinished(w) = open
      BY <2>1 DEF Unfinished
    <2>3. Arrived(P, w) = {p \in open : P.arrival[p] <= next}
      BY <2>1, <2>2 DEF Arrived
    <2>4. \A p \in open : P.arrival[p] <= next <=> P.arrival[p] = next
      BY <1>1, <1>2, <1>5
    <2>5. Arrived(P, w) = Arriving(P, open, next)
      BY <2>3, <2>4 DEF Arriving
    <2>6. first \in Arrived(P, w)
      BY <1>4, <2>3, <2>4
    <2>7. (P.policy = "RR" => Roster(Arriving(P, open, next), q)) => Legal(P, w)
      BY <1>6, <2>1, <2>5 DEF Legal
    <2> QED
      BY <2>5, <2>6, <2>7 DEF w
  <1> QED
    BY <1>4, <1>5, <1>7 DEF next

LEMMA RosterOfNone ==
    ASSUME NEW A, NEW q, Roster(A, q)
    PROVE  q = <<>> <=> A = {}
  <1>1. /\ Len(q) \in Nat /\ (q = <<>> <=> Len(q) = 0)
        /\ \A i \in 1 .. Len(q) : q[i] \in A
        /\ \A x \in A : \E i \in 1 .. Len(q) : q[i] = x
    BY RosterFacts, EmptySeq DEF Roster
  <1>2. Len(q) # 0 => 1 \in 1 .. Len(q)
    BY <1>1
  <1> QED
    BY <1>1, <1>2

(* The two kinds of step.                                                  *)
Waits(P, c, x) ==
    /\ Unfinished(c) # {} /\ Arrived(P, c) = {}
    /\ \E q \in Seq(Procs(P)) :
          /\ P.policy = "RR" => Roster(Arriving(P, Unfinished(c), Next(P, c)), q)
          /\ P.policy # "RR" => q = c.queue
          /\ x = Emit(Idle, c, Waited(P, c, q))

Quantum(P, c) == Min({P.quantum, c.rem[Head(c.queue)]})
Rotates(P, c, x) ==
    /\ c.queue # <<>>
    /\ \E d \in Dispatches(P, Head(c.queue), c.t + Quantum(P, c), c) : x = Emit(Head(c.queue), c, d)

Ran(P, c, p) == [t |-> c.t + P.burst[p], queue |-> c.queue, rem |-> [c.rem EXCEPT ![p] = 0]]
Foremost(P, c) == {p \in Arrived(P, c) : \A q \in Arrived(P, c) : SchedKey(P, p) <= SchedKey(P, q)}

LEMMA QuantumFacts ==
    ASSUME NEW P, ScheduleProblem(P), P.policy = "RR", NEW c, Legal(P, c), c.queue # <<>>
    PROVE  /\ Quantum(P, c) \in Nat /\ Quantum(P, c) > 0 /\ Quantum(P, c) <= c.rem[Head(c.queue)]
           /\ Head(c.queue) \in Arrived(P, c) /\ Arrived(P, c) # {} /\ Unfinished(c) # {}
  <1>1. Head(c.queue) \in Arrived(P, c)
    BY RosterTail DEF Legal
  <1> DEFINE a == P.quantum
             b == c.rem[Head(c.queue)]
  <1>2. a \in Int /\ b \in Int /\ a \in Nat /\ b \in Nat /\ a > 0 /\ b > 0
    BY <1>1 DEF ScheduleProblem, Arrived, Unfinished, Legal, States
  <1> HIDE DEF a, b
  <1>3. Min({a, b}) = IF a <= b THEN a ELSE b
    BY <1>2, PairFacts
  <1> QED
    BY <1>1, <1>2, <1>3 DEF a, b, Quantum, Arrived

(* The queues that a dispatch of pid for a time run leaves.                *)
Lasts(pre, now) == UNION {{e \o pre, pre \o e} : e \in SetToSeqs(now)}
DispatchQueues(P, pid, c, stop, left) ==
    Queues(Tail(c.queue), Flatten(Between(P, Unfinished(c), c.t, stop - 1)),
           Lasts(IF left[pid] > 0 THEN <<pid>> ELSE <<>>, Arriving(P, Unfinished(c), stop)))

Leads(P, pid, end, c, run, stop, left, d) ==
    /\ ~(c.t >= end) /\ c.queue # <<>> /\ Head(c.queue) = pid /\ ~(stop > end)
    /\ \E q \in DispatchQueues(P, pid, c, stop, left) : d = [t |-> stop, queue |-> q, rem |-> left]

LEMMA DispatchForm ==
    ASSUME NEW P, NEW pid, NEW end, NEW c, NEW d,
           NEW run, run = Min({P.quantum, c.rem[pid]}), NEW stop, stop = c.t + run,
           NEW left, left = [c.rem EXCEPT ![pid] = @ - run]
    PROVE  d \in Dispatches(P, pid, end, c) <=> Leads(P, pid, end, c, run, stop, left, d)
  <1> DEFINE open == Unfinished(c)
             pre == IF left[pid] > 0 THEN <<pid>> ELSE <<>>
             lasts == UNION {{e \o pre, pre \o e} : e \in SetToSeqs(Arriving(P, open, stop))}
             qs == Queues(Tail(c.queue), Flatten(Between(P, open, c.t, stop - 1)), lasts)
  <1>1. lasts = Lasts(pre, Arriving(P, open, stop))
    BY DEF Lasts
  <1>2. qs = DispatchQueues(P, pid, c, stop, left)
    <2> HIDE DEF lasts
    <2> QED
      BY <1>1 DEF DispatchQueues
  <1>3. d \in Dispatches(P, pid, end, c) <=>
                  /\ ~(c.t >= end) /\ c.queue # <<>> /\ Head(c.queue) = pid /\ ~(stop > end)
                  /\ \E q \in qs : d = [t |-> stop, queue |-> q, rem |-> left]
    BY DEF Dispatches
  <1> HIDE DEF qs
  <1> QED
    BY <1>2, <1>3 DEF Leads

LEMMA RoundRobinSteps ==
    ASSUME NEW P, ScheduleProblem(P), P.policy = "RR", NEW c, Legal(P, c)
    PROVE  /\ \A x : x \in Successors(P, c) <=> Waits(P, c, x) \/ Rotates(P, c, x)
           /\ Successors(P, c) = {} <=> Unfinished(c) = {}
  <1> DEFINE A == Arrived(P, c)
             open == Unfinished(c)
             waiting == {p \in open : P.arrival[p] > c.t}
             head == Head(c.queue)
             run == Quantum(P, c)
             end == c.t + run
             next == Least({P.arrival[p] : p \in waiting})
             left == [c.rem EXCEPT ![head] = @ - (end - c.t)]
             pre == IF left[head] > 0 THEN <<head>> ELSE <<>>
             tails == UNION {Requeue(pre, order) : order \in SetToSeqs(Arriving(P, open, end))}
             qs == Queues(Tail(c.queue), Flatten(Between(P, open, c.t, end - 1)), tails)
  <1>1. /\ c.t \in Nat /\ c.queue \in Seq(Procs(P)) /\ c.rem \in [Procs(P) -> Nat]
        /\ open \in SUBSET Procs(P) /\ IsFiniteSet(Procs(P)) /\ IsFiniteSet(open)
        /\ \A p \in Procs(P) : P.arrival[p] \in Nat
        /\ A = {p \in open : P.arrival[p] <= c.t} /\ Roster(A, c.queue)
        /\ c = [t |-> c.t, queue |-> c.queue, rem |-> c.rem]
    BY FS_Subset, ProblemFacts DEF Legal, States, Unfinished, Arrived
  <1>2. c.queue = <<>> <=> A = {}
    <2> HIDE DEF A
    <2> QED
      BY <1>1, RosterOfNone
  <1>3. Successors(P, c) = SuccRoundRobin(P, c)
    BY DEF Successors
  <1>4. CASE open = {}
    <2>1. Successors(P, c) = {}
      BY <1>3, <1>4 DEF SuccRoundRobin
    <2>2. A = {} /\ c.queue = <<>>
      BY <1>1, <1>2, <1>4
    <2> QED
      BY <1>4, <2>1, <2>2 DEF Waits, Rotates
  <1>5. CASE open # {} /\ c.queue = <<>>
    <2>1. A = {} /\ waiting = open
      BY <1>1, <1>2, <1>5
    <2>2. next = Next(P, c)
      BY <2>1 DEF Next
    <2>3. SuccRoundRobin(P, c) = {Emit(Idle, c, [t |-> next, queue |-> q, rem |-> c.rem]) : q \in SetToSeqs(Arriving(P, waiting, next))}
      BY <1>5 DEF SuccRoundRobin
    <2>4. \A q : [t |-> next, queue |-> q, rem |-> c.rem] = Waited(P, c, q)
      BY <2>2 DEF Waited
    <2> DEFINE coming == Arriving(P, open, Next(P, c))
    <2>5. IsFiniteSet(coming) /\ coming \subseteq Procs(P)
      BY <1>1, FS_Subset DEF Arriving
    <2> HIDE DEF coming, next
    <2>6. SetToSeqs(coming) # {} /\ \A q : q \in SetToSeqs(coming) <=> Roster(coming, q)
      BY <2>5, SeqsAreRosters
    <2>7. \A q : Roster(coming, q) => q \in Seq(Procs(P))
      BY <2>5, SeqMonotonic DEF Roster
    <2>8. SuccRoundRobin(P, c) = {Emit(Idle, c, Waited(P, c, q)) : q \in SetToSeqs(coming)}
      BY <2>1, <2>2, <2>3, <2>4 DEF coming
    <2>9. ASSUME NEW x
          PROVE  x \in Successors(P, c) <=> Waits(P, c, x)
      BY <1>3, <1>5, <2>1, <2>6, <2>7, <2>8 DEF Waits, coming
    <2>10. \A x : ~Rotates(P, c, x)
      BY <1>5 DEF Rotates
    <2>11. Successors(P, c) # {}
      BY <1>3, <2>6, <2>8
    <2> QED
      BY <1>5, <2>9, <2>10, <2>11
  <1>6. CASE open # {} /\ c.queue # <<>>
    <2>1. /\ run \in Nat /\ run > 0 /\ run <= c.rem[head] /\ head \in A /\ A # {} /\ c.rem[head] \in Nat
      BY <1>1, <1>6, QuantumFacts DEF Legal, States
    <2>2. end = c.t + RunsFor(P, c.rem[head])
      BY DEF RunsFor, Quantum
    <2>3. end - c.t = run /\ end \in Nat /\ c.t < end /\ c.t <= end - 1 /\ end - 1 \in Nat
      BY <1>1, <2>1
    <2>4. SuccRoundRobin(P, c) = {Emit(head, c, [t |-> end, queue |-> q, rem |-> left]) : q \in qs}
      BY <1>6, <2>2 DEF SuccRoundRobin
    <2>5. left = [c.rem EXCEPT ![head] = @ - run]
      BY <2>3
    <2>6. Dispatches(P, head, end, c) = {[t |-> end, queue |-> q, rem |-> left] : q \in qs}
      <3>1. ~(c.t >= end) /\ ~(end > end) /\ c.queue # <<>> /\ Head(c.queue) = head
        BY <1>1, <1>6, <2>3
      <3>2. \A d : d \in Dispatches(P, head, end, c) <=>
                       \E q \in DispatchQueues(P, head, c, end, left) : d = [t |-> end, queue |-> q, rem |-> left]
        <4>1. run = Min({P.quantum, c.rem[head]}) /\ end = c.t + run /\ left = [c.rem EXCEPT ![head] = @ - run]
          BY <2>5 DEF Quantum
        <4> HIDE DEF run, left, end
        <4>2. \A d : d \in Dispatches(P, head, end, c) <=> Leads(P, head, end, c, run, end, left, d)
          BY <4>1, DispatchForm
        <4> QED
          BY <3>1, <4>2 DEF Leads
      <3>3. DispatchQueues(P, head, c, end, left) = qs
        <4>1. tails = Lasts(pre, Arriving(P, open, end))
          BY DEF Requeue, Lasts
        <4> HIDE DEF tails
        <4> QED
          BY <4>1 DEF DispatchQueues
      <3> HIDE DEF qs, left, run, end
      <3> QED
        BY <3>2, <3>3
    <2>7. qs # {}
      <3> DEFINE flat == Flatten(Between(P, open, c.t, end - 1))
                 now == Arriving(P, open, end)
      <3>1. open \in SUBSET Procs(P) /\ end - 1 \in Nat /\ c.t \in Nat /\ c.t <= end - 1
        BY <1>1, <2>3
      <3>2. IsFiniteSet(now)
        BY <1>1, FS_Subset DEF Arriving
      <3> HIDE DEF open, end, now
      <3>3. flat # {}
        BY <3>1, FlattenFacts
      <3>4. SetToSeqs(now) # {}
        BY <3>2, SeqsAreRosters
      <3>5. PICK e : e \in SetToSeqs(now)
        BY <3>4
      <3>6. pre \o e \in tails
        <4> HIDE DEF pre
        <4> QED
          BY <3>5 DEF Requeue, now
      <3> HIDE DEF tails, flat, pre
      <3>7. PICK mid : mid \in flat
        BY <3>3
      <3>8. Tail(c.queue) \o mid \o (pre \o e) \in qs
        <4> DEFINE last == pre \o e
                   rest == Tail(c.queue)
        <4>1. last \in tails /\ mid \in flat
          BY <3>6, <3>7
        <4> HIDE DEF last, rest
        <4>2. rest \o mid \o last \in Queues(rest, flat, tails)
          BY <4>1 DEF Queues
        <4> QED
          BY <4>2 DEF last, rest, flat
      <3> QED
        BY <3>8
    <2> HIDE DEF qs, left, tails, pre
    <2>8. SuccRoundRobin(P, c) = {Emit(head, c, d) : d \in Dispatches(P, head, end, c)}
      BY <2>4, <2>6
    <2>9. ASSUME NEW x
          PROVE  x \in Successors(P, c) <=> Rotates(P, c, x)
      BY <1>3, <1>6, <2>8 DEF Rotates
    <2>10. \A x : ~Waits(P, c, x)
      BY <2>1 DEF Waits
    <2>11. Successors(P, c) # {}
      BY <1>3, <2>4, <2>7
    <2> QED
      BY <1>6, <2>9, <2>10, <2>11
  <1> QED
    BY <1>4, <1>5, <1>6

LEMMA LeastOfFinite ==
    ASSUME NEW T, T \subseteq Int, IsFiniteSet(T), T # {}
    PROVE  Least(T) \in T /\ \A y \in T : Least(T) <= y
  <1> DEFINE G == {R \in SUBSET T : R # {} => \E x \in R : \A y \in R : x <= y}
  <1>1. {} \in G
    OBVIOUS
  <1>2. ASSUME NEW R \in SUBSET T, NEW x \in R, R \ {x} \in G
        PROVE  R \in G
    <2>1. CASE R \ {x} = {}
      BY <2>1
    <2>2. CASE R \ {x} # {}
      <3>1. PICK z \in R \ {x} : \A y \in R \ {x} : z <= y
        BY <1>2, <2>2
      <3>2. x \in Int /\ z \in Int /\ \A y \in R : y \in Int
        BY <3>1
      <3>3. CASE x <= z
        BY <3>1, <3>2, <3>3
      <3>4. CASE ~(x <= z)
        <4>1. \A y \in R : z <= y
          BY <3>1, <3>2, <3>4
        <4> QED
          BY <3>1, <4>1
      <3> QED
        BY <3>3, <3>4
    <2> QED
      BY <2>1, <2>2
  <1> HIDE DEF G
  <1>3. T \in G
    BY <1>1, <1>2, SetInduction
  <1> QED
    BY <1>3 DEF G, Least

LEMMA RanFacts ==
    ASSUME NEW P, ScheduleProblem(P), P.policy # "RR", NEW c, Legal(P, c), NEW p \in Arrived(P, c)
    PROVE  /\ Legal(P, Ran(P, c, p)) /\ p \in Procs(P) /\ p \in Unfinished(c)
           /\ c.t < Ran(P, c, p).t /\ Ran(P, c, p).t = c.t + P.burst[p]
           /\ Ran(P, c, p).rem[p] = 0
           /\ \A q \in Procs(P) : q # p => Ran(P, c, p).rem[q] = c.rem[q]
  <1> DEFINE left == [c.rem EXCEPT ![p] = 0]
             d == Ran(P, c, p)
  <1>1. /\ c.t \in Nat /\ c.queue \in Seq(Procs(P)) /\ c.rem \in [Procs(P) -> Nat]
        /\ p \in Procs(P) /\ c.rem[p] > 0 /\ p \in Unfinished(c)
        /\ c.rem[p] = 0 \/ c.rem[p] = P.burst[p]
    BY DEF Legal, States, Unfinished, Arrived
  <1>2. P.burst[p] \in Nat /\ P.burst[p] > 0
    BY <1>1, ProblemFacts
  <1>3. /\ left \in [Procs(P) -> Nat] /\ left[p] = 0
        /\ \A q \in Procs(P) : q # p => left[q] = c.rem[q]
    BY <1>1
  <1> HIDE DEF left
  <1>4. d.t = c.t + P.burst[p] /\ d.queue = c.queue /\ d.rem = left /\ d \in States(P)
    BY <1>1, <1>2, <1>3 DEF Ran, States, left
  <1> HIDE DEF d
  <1>5. d.t + Left(P, d.rem) <= Horizon(P)
    <2>1. Left(P, left) - left[p] = Left(P, c.rem) - c.rem[p]
      BY <1>1, <1>3, LeftFacts
    <2>2. Left(P, left) \in Nat /\ Left(P, c.rem) \in Nat
      BY <1>1, <1>3, LeftFacts
    <2>3. c.t + Left(P, c.rem) <= Horizon(P) /\ Horizon(P) \in Int
      BY ProblemFacts DEF Legal
    <2> DEFINE a == Left(P, left)
               b == Left(P, c.rem)
               h == Horizon(P)
    <2>4. /\ a - 0 = b - P.burst[p] /\ a \in Nat /\ b \in Nat /\ c.t + b <= h /\ h \in Int
      BY <1>1, <1>3, <2>1, <2>2, <2>3
    <2> HIDE DEF a, b, h
    <2>5. c.t + P.burst[p] + a <= h
      BY <1>1, <1>2, <2>4
    <2> QED
      BY <1>4, <2>5 DEF a, h
  <1>6. \A q \in Procs(P) : left[q] <= P.burst[q] /\ (left[q] = 0 \/ left[q] = P.burst[q])
    <2>1. \A q \in Procs(P) : c.rem[q] <= P.burst[q] /\ (c.rem[q] = 0 \/ c.rem[q] = P.burst[q])
      BY DEF Legal
    <2> QED
      BY <1>2, <1>3, <2>1
  <1>7. Legal(P, d)
    BY <1>4, <1>5, <1>6 DEF Legal
  <1>8. c.t < c.t + P.burst[p]
    BY <1>1, <1>2
  <1> QED
    BY <1>1, <1>3, <1>4, <1>7, <1>8 DEF d

LEMMA ForemostExists ==
    ASSUME NEW P, ScheduleProblem(P), NEW c, Legal(P, c), Arrived(P, c) # {}
    PROVE  LET best == Least({SchedKey(P, p) : p \in Arrived(P, c)})
           IN  Foremost(P, c) # {} /\ Foremost(P, c) = {p \in Arrived(P, c) : SchedKey(P, p) = best}
  <1> DEFINE A == Arrived(P, c)
             T == {SchedKey(P, p) : p \in A}
  <1>1. A \in SUBSET Procs(P) /\ IsFiniteSet(A)
    <2>1. A \in SUBSET Procs(P)
      BY DEF Arrived, Unfinished, Legal, States
    <2> QED
      BY <2>1, FS_Subset, ProblemFacts
  <1>2. \A p \in A : SchedKey(P, p) \in Int
    BY <1>1 DEF SchedKey, ScheduleProblem
  <1> DEFINE key == [p \in A |-> SchedKey(P, p)]
  <1>a. A # {} /\ key \in [A -> T] /\ \A y \in T : \E p \in A : key[p] = y
    OBVIOUS
  <1> HIDE DEF A
  <1>3. IsFiniteSet(T) /\ T \subseteq Int /\ T # {}
    <2>1. T \subseteq Int /\ T # {}
      BY <1>2, <1>a
    <2> HIDE DEF T, key
    <2>2. key \in Surjection(A, T)
      BY <1>a DEF Surjection
    <2> QED
      BY <1>1, <2>1, <2>2, FS_Surjection
  <1> HIDE DEF T
  <1>4. Least(T) \in T /\ \A y \in T : Least(T) <= y
    BY <1>3, LeastOfFinite
  <1>5. PICK p0 \in A : SchedKey(P, p0) = Least(T)
    BY <1>4 DEF T
  <1>6. \A p \in A : Least(T) <= SchedKey(P, p)
    BY <1>4 DEF T
  <1>7. \A p \in A : (\A q \in A : SchedKey(P, p) <= SchedKey(P, q)) <=> SchedKey(P, p) = Least(T)
    <2>1. Least(T) \in Int
      BY <1>3, <1>4
    <2> QED
      BY <1>2, <1>5, <1>6, <2>1
  <1> QED
    BY <1>5, <1>7 DEF Foremost, A, T

LEMMA NonpreemptiveSteps ==
    ASSUME NEW P, ScheduleProblem(P), P.policy # "RR", NEW c, Legal(P, c)
    PROVE  /\ \A x : x \in Successors(P, c) <=>
                        Waits(P, c, x) \/ \E p \in Foremost(P, c) : x = Emit(p, c, Ran(P, c, p))
           /\ Successors(P, c) = {} <=> Unfinished(c) = {}
  <1> DEFINE A == Arrived(P, c)
             open == Unfinished(c)
             best == Least({SchedKey(P, p) : p \in A})
  <1>1. Successors(P, c) =
           IF open = {} THEN {}
           ELSE IF A = {} THEN {Emit(Idle, c, Waited(P, c, c.queue))}
           ELSE {Emit(p, c, Ran(P, c, p)) : p \in {p \in A : SchedKey(P, p) = best}}
    BY DEF Successors, SuccNonpreemptive, Arrived, Waited, Next, Ran
  <1>2. c.queue \in Seq(Procs(P)) /\ (open = {} => A = {})
    BY DEF Legal, States, Arrived
  <1>3. CASE A = {}
    BY <1>1, <1>2, <1>3 DEF Waits, Foremost
  <1>4. CASE A # {}
    <2>1. Foremost(P, c) # {} /\ Foremost(P, c) = {p \in A : SchedKey(P, p) = best}
      BY <1>4, ForemostExists
    <2> HIDE DEF best
    <2>2. Successors(P, c) = {Emit(p, c, Ran(P, c, p)) : p \in Foremost(P, c)}
      BY <1>1, <1>2, <1>4, <2>1
    <2> QED
      BY <1>2, <1>4, <2>1, <2>2 DEF Waits
  <1> QED
    BY <1>3, <1>4

----------------------------------------------------------------------------
(* Steps and runs.                                                         *)
Pids(P) == Procs(P) \union {Idle}

Moves(P, c, x) ==
    /\ x = Emit(x.seg.pid, c, x.state)
    /\ x.seg.pid \in Pids(P)
    /\ Legal(P, x.state) /\ c.t < x.state.t
    /\ x.seg.pid = Idle => /\ Waits(P, c, x)
                           /\ Arrived(P, c) = {} /\ Arrived(P, x.state) # {} /\ x.state.rem = c.rem
    /\ x.seg.pid # Idle => /\ x.seg.pid \in Arrived(P, c) /\ ~Waits(P, c, x)
                           /\ \A p \in Procs(P) : p # x.seg.pid => x.state.rem[p] = c.rem[p]

LEMMA StepFacts ==
    ASSUME NEW P, ScheduleProblem(P), NEW c, Legal(P, c), NEW x \in Successors(P, c)
    PROVE  Moves(P, c, x)
  <1>1. Idle \notin Procs(P) /\ \A p \in Arrived(P, c) : p \in Procs(P)
    BY ProblemFacts DEF Arrived, Unfinished, Legal, States
  <1>2. CASE Waits(P, c, x)
    <2>1. PICK q \in Seq(Procs(P)) :
              /\ P.policy = "RR" => Roster(Arriving(P, Unfinished(c), Next(P, c)), q)
              /\ x = Emit(Idle, c, Waited(P, c, q))
      BY <1>2 DEF Waits
    <2>2. Unfinished(c) # {} /\ Arrived(P, c) = {}
      BY <1>2 DEF Waits
    <2> DEFINE w == Waited(P, c, q)
    <2>3. Legal(P, w) /\ Arrived(P, w) # {} /\ c.t < Next(P, c)
      BY <2>1, <2>2, WaitFacts
    <2>4. w.t = Next(P, c) /\ w.rem = c.rem
      BY DEF Waited
    <2> HIDE DEF w
    <2>5. x.seg.pid = Idle /\ x.state = w /\ x = Emit(Idle, c, w)
      BY <2>1 DEF Emit, Segment, w
    <2> QED
      BY <1>2, <2>2, <2>3, <2>4, <2>5 DEF Moves, Pids
  <1>3. ASSUME ~Waits(P, c, x), NEW p \in Arrived(P, c), NEW d, x = Emit(p, c, d), Legal(P, d), c.t < d.t,
               \A q \in Procs(P) : q # p => d.rem[q] = c.rem[q]
        PROVE  Moves(P, c, x)
    <2>1. x.seg.pid = p /\ x.state = d
      BY <1>3 DEF Emit, Segment
    <2> QED
      BY <1>1, <1>3, <2>1 DEF Moves, Pids
  <1>4. CASE P.policy = "RR" /\ ~Waits(P, c, x)
    <2>1. Rotates(P, c, x)
      BY <1>4, RoundRobinSteps
    <2> DEFINE head == Head(c.queue)
               end == c.t + Quantum(P, c)
    <2>2. c.queue # <<>> /\ \E d \in Dispatches(P, head, end, c) : x = Emit(head, c, d)
      BY <2>1 DEF Rotates
    <2>3. PICK d \in Dispatches(P, head, end, c) : x = Emit(head, c, d)
      BY <2>2
    <2>4. end \in Nat
      BY <1>4, <2>2, QuantumFacts DEF Legal, States
    <2> HIDE DEF head, end
    <2>5. /\ Legal(P, d) /\ c.t < d.t /\ head \in Arrived(P, c)
          /\ \A p \in Procs(P) : p # head => d.rem[p] = c.rem[p]
      BY <1>4, <2>3, <2>4, DispatchFacts
    <2> QED
      BY <1>3, <1>4, <2>3, <2>5
  <1>5. CASE P.policy # "RR" /\ ~Waits(P, c, x)
    <2>1. PICK p \in Foremost(P, c) : x = Emit(p, c, Ran(P, c, p))
      BY <1>5, NonpreemptiveSteps
    <2>2. p \in Arrived(P, c)
      BY DEF Foremost
    <2> DEFINE d == Ran(P, c, p)
    <2>3. Legal(P, d) /\ c.t < d.t /\ \A q \in Procs(P) : q # p => d.rem[q] = c.rem[q]
      BY <1>5, <2>2, RanFacts
    <2>4. x = Emit(p, c, d)
      BY <2>1
    <2> HIDE DEF d
    <2> QED
      BY <1>3, <1>5, <2>2, <2>3, <2>4
  <1> QED
    BY <1>2, <1>4, <1>5

LEMMA InitialFacts ==
    ASSUME NEW P, ScheduleProblem(P), NEW s \in InitialStates(P)
    PROVE  Legal(P, s) /\ s.t = 0 /\ s.rem = P.burst
  <1> DEFINE first == Arriving(P, Procs(P), 0)
  <1>1. PICK q \in IF P.policy = "RR" THEN SetToSeqs(first) ELSE {<<>>} :
            s = [t |-> 0, queue |-> q, rem |-> P.burst]
    BY DEF InitialStates
  <1>2. s.t = 0 /\ s.queue = q /\ s.rem = P.burst
    BY <1>1
  <1>3. /\ P.burst \in [Procs(P) -> Nat]
        /\ \A p \in Procs(P) : P.burst[p] \in Nat /\ P.burst[p] > 0 /\ P.arrival[p] \in Nat
    BY ProblemFacts DEF ScheduleProblem
  <1>4. P.policy = "RR" => Roster(first, q)
    <2>1. IsFiniteSet(first)
      BY ProblemFacts, FS_Subset DEF Arriving
    <2> HIDE DEF first
    <2> QED
      BY <1>1, <2>1, SeqsAreRosters
  <1>5. q \in Seq(Procs(P))
    <2>1. first \subseteq Procs(P)
      BY DEF Arriving
    <2> HIDE DEF first
    <2> QED
      BY <1>1, <1>4, <2>1, SeqMonotonic, EmptySeq DEF Roster
  <1>6. s \in States(P)
    BY <1>1, <1>3, <1>5 DEF States
  <1>7. Arrived(P, s) = first
    BY <1>2, <1>3 DEF Arrived, Unfinished, Arriving
  <1>8. s.t + Left(P, s.rem) <= Horizon(P)
    <2>1. Left(P, P.arrival) \in Nat /\ Left(P, P.burst) \in Nat
      BY LeftFacts DEF ScheduleProblem
    <2>2. Horizon(P) = Left(P, P.arrival) + Left(P, P.burst)
      BY ProblemFacts
    <2> DEFINE a == Left(P, P.arrival)
               b == Left(P, P.burst)
    <2>3. a \in Nat /\ b \in Nat
      BY <2>1
    <2> HIDE DEF a, b
    <2>4. 0 + b <= a + b
      BY <2>3
    <2> QED
      BY <1>2, <2>2, <2>4 DEF a, b
  <1> QED
    BY <1>2, <1>3, <1>4, <1>6, <1>7, <1>8 DEF Legal

Histories(P) == [segs : Seq(Lane(Pids(P))), states : Seq(States(P))]
Started(s) == [segs |-> <<>>, states |-> <<s>>]
EndState(r) == Last(r.states)

GoesWith(P, R) ==
    /\ \A s \in InitialStates(P) : Started(s) \in R
    /\ \A r \in R : \A x \in Successors(P, EndState(r)) : Onward(r, x) \in R

RunsOf(P) == {r \in Histories(P) : \A R \in SUBSET Histories(P) : GoesWith(P, R) => r \in R}

Sound(P, r) ==
    /\ r \in Histories(P) /\ r.states # <<>> /\ Legal(P, EndState(r))
    /\ Gapless(Pids(P), r.segs) /\ EndOf(r.segs) = EndState(r).t
    /\ Len(r.segs) <= EndState(r).t
    /\ r.segs # <<>> /\ r.segs[Len(r.segs)].pid = Idle => Arrived(P, EndState(r)) # {}

LEMMA StartedSound ==
    ASSUME NEW P, ScheduleProblem(P), NEW s \in InitialStates(P)
    PROVE  Sound(P, Started(s)) /\ EndState(Started(s)) = s /\ Started(s).segs = <<>>
  <1>1. Legal(P, s) /\ s.t = 0 /\ s \in States(P)
    BY InitialFacts DEF Legal
  <1>2. <<s>> \in Seq(States(P)) /\ <<s>> # <<>> /\ Len(<<s>>) = 1 /\ <<s>>[1] = s /\ <<>> \in Seq(Lane(Pids(P))) /\ Len(<<>>) = 0
    BY <1>1, EmptySeq
  <1>3. Last(<<s>>) = s
    BY <1>2 DEF Last
  <1>4. Gapless(Pids(P), <<>>) /\ EndOf(<<>>) = 0
    BY GaplessEmpty DEF EndOf
  <1> QED
    BY <1>1, <1>2, <1>3, <1>4 DEF Sound, Started, EndState, Histories

LEMMA OnwardSound ==
    ASSUME NEW P, ScheduleProblem(P), NEW r, Sound(P, r), NEW x \in Successors(P, EndState(r))
    PROVE  /\ Sound(P, Onward(r, x)) /\ EndState(Onward(r, x)) = x.state
           /\ Onward(r, x).segs = Append(r.segs, x.seg) /\ Len(Onward(r, x).segs) = Len(r.segs) + 1
           /\ x.seg \in Lane(Pids(P)) /\ x.seg = Segment(x.seg.pid, EndState(r).t, x.state.t)
           /\ Moves(P, EndState(r), x)
           /\ r.segs # <<>> /\ r.segs[Len(r.segs)].pid = Idle => x.seg.pid # Idle
  <1> DEFINE c == EndState(r)
             o == Onward(r, x)
             T == Pids(P)
  <1>1. Moves(P, c, x) /\ Legal(P, c)
    BY StepFacts DEF Sound
  <1>2. /\ x.seg = Segment(x.seg.pid, c.t, x.state.t) /\ x.seg.pid \in T /\ Legal(P, x.state) /\ x.state \in States(P)
        /\ c.t < x.state.t /\ c.t \in Nat /\ x.state.t \in Nat
        /\ x.seg.pid = Idle => Arrived(P, c) = {} /\ Arrived(P, x.state) # {}
    BY <1>1 DEF Moves, Emit, Legal, States
  <1>3. x.seg \in Lane(T) /\ x.seg.start = c.t /\ x.seg.end = x.state.t
    BY <1>2 DEF Segment, Lane
  <1>4. r.segs \in Seq(Lane(T)) /\ r.states \in Seq(States(P)) /\ Gapless(T, r.segs) /\ EndOf(r.segs) = c.t /\ Len(r.segs) <= c.t
    BY DEF Sound, Histories
  <1>5. o.segs = Append(r.segs, x.seg) /\ o.states = Append(r.states, x.state)
    BY DEF Onward
  <1>6. /\ o.segs \in Seq(Lane(T)) /\ Len(r.segs) \in Nat /\ Len(o.segs) = Len(r.segs) + 1 /\ o.segs[Len(o.segs)] = x.seg
    <2> HIDE DEF o, T
    <2> QED
      BY <1>3, <1>4, <1>5, AppendFacts
  <1>7. o.states \in Seq(States(P)) /\ o.states # <<>> /\ Last(o.states) = x.state
    BY <1>2, <1>4, <1>5, AppendFacts
  <1>8. Gapless(T, o.segs) /\ EndOf(o.segs) = x.state.t
    <2> HIDE DEF o, T, c
    <2> QED
      BY <1>2, <1>3, <1>4, <1>5, GaplessAppend, EndOfAppend
  <1>9. o \in Histories(P)
    BY <1>6, <1>7 DEF Onward, Histories
  <1>10. EndState(o) = x.state
    BY <1>7 DEF EndState
  <1> HIDE DEF o
  <1>11. Sound(P, o)
    BY <1>2, <1>3, <1>4, <1>6, <1>7, <1>8, <1>9, <1>10 DEF Sound
  <1>12. r.segs # <<>> /\ r.segs[Len(r.segs)].pid = Idle => x.seg.pid # Idle
    BY <1>2 DEF Sound
  <1> QED
    BY <1>1, <1>2, <1>3, <1>5, <1>6, <1>10, <1>11, <1>12 DEF o

LEMMA RunFacts ==
    ASSUME NEW P, ScheduleProblem(P)
    PROVE  GoesWith(P, RunsOf(P)) /\ \A r \in RunsOf(P) : Sound(P, r)
  <1> DEFINE R0 == {r \in Histories(P) : Sound(P, r)}
  <1>1. GoesWith(P, R0)
    <2>1. \A s \in InitialStates(P) : Started(s) \in R0
      BY StartedSound DEF Sound
    <2>2. ASSUME NEW r \in R0, NEW x \in Successors(P, EndState(r))
          PROVE  Onward(r, x) \in R0
      <3>1. Sound(P, Onward(r, x))
        BY <2>2, OnwardSound
      <3> QED
        BY <3>1 DEF Sound
    <2> QED
      BY <2>1, <2>2 DEF GoesWith
  <1> HIDE DEF R0
  <1>2. R0 \in SUBSET Histories(P)
    BY DEF R0
  <1>3. \A r \in RunsOf(P) : r \in R0 /\ Sound(P, r)
    BY <1>1, <1>2 DEF RunsOf, R0
  <1>4. \A s \in InitialStates(P) : Started(s) \in RunsOf(P)
    BY <1>1, <1>2 DEF RunsOf, GoesWith
  <1>5. ASSUME NEW r \in RunsOf(P), NEW x \in Successors(P, EndState(r))
        PROVE  Onward(r, x) \in RunsOf(P)
    <2>1. Onward(r, x) \in Histories(P)
      BY <1>1, <1>2, <1>3 DEF GoesWith
    <2>2. \A R \in SUBSET Histories(P) : GoesWith(P, R) => Onward(r, x) \in R
      BY DEF RunsOf, GoesWith
    <2> QED
      BY <2>1, <2>2 DEF RunsOf
  <1> QED
    BY <1>3, <1>4, <1>5 DEF GoesWith

(* What holds of the runs at their start and is kept by every step holds of *)
(* every run.                                                               *)
LEMMA RunInduction ==
    ASSUME NEW P, ScheduleProblem(P), NEW G, \A s \in InitialStates(P) : Started(s) \in G,
           \A r \in RunsOf(P) : \A x \in Successors(P, EndState(r)) : r \in G => Onward(r, x) \in G
    PROVE  RunsOf(P) \subseteq G
  <1> DEFINE R == RunsOf(P) \cap G
  <1>1. GoesWith(P, R)
    BY RunFacts DEF GoesWith
  <1>2. R \in SUBSET Histories(P)
    BY DEF RunsOf
  <1> HIDE DEF R
  <1>3. RunsOf(P) \subseteq R
    BY <1>1, <1>2 DEF RunsOf
  <1> QED
    BY <1>3 DEF R

(* The enumerator's runs are those that have come to their end.            *)
IsPathTable(f, P) ==
    f = [n \in 0 .. Horizon(P) |->
            IF n = 0 THEN {Started(s) : s \in InitialStates(P)} ELSE UNION {Prolonged(P, run) : run \in f[n - 1]}]

LEMMA HorizonType ==
    ASSUME NEW P, ScheduleProblem(P)
    PROVE  Horizon(P) \in Nat
  <1>1. Left(P, P.arrival) \in Nat /\ Left(P, P.burst) \in Nat
    BY LeftFacts DEF ScheduleProblem
  <1> QED
    BY <1>1, ProblemFacts

LEMMA ProlongedRuns ==
    ASSUME NEW P, ScheduleProblem(P), NEW v \in SUBSET RunsOf(P)
    PROVE  UNION {Prolonged(P, run) : run \in v} \in SUBSET RunsOf(P)
  <1>1. ASSUME NEW run \in v
        PROVE  Prolonged(P, run) \subseteq RunsOf(P)
    BY RunFacts DEF Prolonged, GoesWith, EndState
  <1> QED
    BY <1>1

LEMMA PathTableExists ==
    ASSUME NEW P, ScheduleProblem(P)
    PROVE  \E f \in [0 .. Horizon(P) -> SUBSET RunsOf(P)] : IsPathTable(f, P)
  <1> DEFINE V == SUBSET RunsOf(P)
             m == Horizon(P)
             a == {Started(s) : s \in InitialStates(P)}
             step == [x \in (1 .. m) \X V |-> UNION {Prolonged(P, run) : run \in x[2]}]
  <1>1. m \in Nat /\ a \in V
    BY HorizonType, RunFacts DEF GoesWith
  <1>2. ASSUME NEW n \in 1 .. m, NEW v \in V
        PROVE  step[<<n, v>>] = UNION {Prolonged(P, run) : run \in v} /\ step[<<n, v>>] \in V
    <2>1. UNION {Prolonged(P, run) : run \in v} \in V
      BY ProlongedRuns
    <2>2. <<n, v>> \in (1 .. m) \X V
      OBVIOUS
    <2> HIDE DEF V
    <2>3. step[<<n, v>>] = UNION {Prolonged(P, run) : run \in v}
      BY <2>2
    <2> QED
      BY <2>1, <2>3
  <1> HIDE DEF step, m, V, a
  <1>3. PICK f \in [0 .. m -> V] : IsTable(f, m, a, step)
    BY <1>1, <1>2, TableExists
  <1>4. ASSUME NEW n \in 0 .. m
        PROVE  f[n] = IF n = 0 THEN a ELSE UNION {Prolonged(P, run) : run \in f[n - 1]}
    <2>1. n # 0 => n \in 1 .. m /\ n - 1 \in 0 .. m
      BY <1>1
    <2>2. n # 0 => f[n - 1] \in V
      BY <2>1
    <2>3. f[n] = IF n = 0 THEN a ELSE step[<<n, f[n - 1]>>]
      BY <1>3 DEF IsTable
    <2> QED
      BY <1>2, <2>1, <2>2, <2>3
  <1>5. f = [n \in 0 .. m |-> IF n = 0 THEN a ELSE UNION {Prolonged(P, run) : run \in f[n - 1]}]
    BY <1>4
  <1> QED
    BY <1>5 DEF IsPathTable, m, a, V

LEMMA PathFacts ==
    ASSUME NEW P, ScheduleProblem(P)
    PROVE  \A r : r \in Paths(P) <=> r \in RunsOf(P) /\ Unfinished(EndState(r)) = {}
  <1> DEFINE m == Horizon(P)
             f == CHOOSE f : IsPathTable(f, P)
  <1>1. m \in Nat
    BY HorizonType
  <1>2. IsPathTable(f, P)
    BY PathTableExists
  <1>3. Paths(P) = f[m]
    BY DEF Paths, IsPathTable, Horizon, Started
  <1> HIDE DEF f, m
  <1>4. \A n \in 0 .. m : f[n] = IF n = 0 THEN {Started(s) : s \in InitialStates(P)}
                                ELSE UNION {Prolonged(P, run) : run \in f[n - 1]}
    BY <1>2 DEF IsPathTable, m
  <1>5. ASSUME NEW n \in 1 .. m
        PROVE  f[n] = UNION {Prolonged(P, run) : run \in f[n - 1]}
    <2>1. n \in 0 .. m /\ n # 0
      BY <1>1
    <2>2. f[n] = IF n = 0 THEN {Started(s) : s \in InitialStates(P)} ELSE UNION {Prolonged(P, run) : run \in f[n - 1]}
      BY <1>4, <2>1
    <2> QED
      BY <2>1, <2>2
  <1>6. f[0] = {Started(s) : s \in InitialStates(P)}
    <2>1. 0 \in 0 .. m
      BY <1>1
    <2>2. f[0] = IF 0 = 0 THEN {Started(s) : s \in InitialStates(P)} ELSE UNION {Prolonged(P, run) : run \in f[0 - 1]}
      BY <1>4, <2>1
    <2> QED
      BY <2>2
  <1>7. \A r \in RunsOf(P) : Sound(P, r) /\ Len(r.segs) \in Nat /\ Len(r.segs) <= m /\ (Successors(P, EndState(r)) = {} <=> Unfinished(EndState(r)) = {})
    <2> SUFFICES ASSUME NEW r \in RunsOf(P)
                 PROVE  Sound(P, r) /\ Len(r.segs) \in Nat /\ Len(r.segs) <= m /\ (Successors(P, EndState(r)) = {} <=> Unfinished(EndState(r)) = {})
      OBVIOUS
    <2> DEFINE c == EndState(r)
    <2>1. Sound(P, r) /\ Legal(P, c) /\ Len(r.segs) <= c.t /\ c.t \in Nat /\ c.rem \in [Procs(P) -> Nat] /\ r.segs \in Seq(Lane(Pids(P)))
      BY RunFacts DEF Sound, Legal, States, Histories
    <2> HIDE DEF c
    <2>2. Len(r.segs) \in Nat
      BY <2>1, LenProperties
    <2>3. c.t + Left(P, c.rem) <= m /\ Left(P, c.rem) \in Nat
      BY <2>1, LeftFacts DEF Legal, m
    <2>4. c.t <= m
      BY <1>1, <2>1, <2>3
    <2>5. Successors(P, c) = {} <=> Unfinished(c) = {}
      BY <2>1, RoundRobinSteps, NonpreemptiveSteps
    <2> QED
      BY <1>1, <2>1, <2>2, <2>4, <2>5 DEF c
  <1>8. ASSUME NEW n \in 0 .. m
        PROVE  f[n] \subseteq {r \in RunsOf(P) : Unfinished(EndState(r)) = {} \/ Len(r.segs) >= n}
    <2> DEFINE T == {k \in Nat : k <= m => f[k] \subseteq {r \in RunsOf(P) : Unfinished(EndState(r)) = {} \/ Len(r.segs) >= k}}
    <2>1. 0 \in T
      BY <1>6, RunFacts, StartedSound, EmptySeq DEF GoesWith
    <2>2. ASSUME NEW k \in Nat, k \in T
          PROVE  k + 1 \in T
      <3> SUFFICES ASSUME k + 1 <= m, NEW r \in f[k + 1]
                   PROVE  r \in RunsOf(P) /\ (Unfinished(EndState(r)) = {} \/ Len(r.segs) >= k + 1)
        OBVIOUS
      <3>1. k + 1 \in 1 .. m /\ (k + 1) - 1 = k /\ k <= m
        BY <1>1
      <3>2. PICK q \in f[k] : r \in Prolonged(P, q)
        BY <1>5, <3>1
      <3>3. q \in RunsOf(P) /\ (Unfinished(EndState(q)) = {} \/ Len(q.segs) >= k) /\ Sound(P, q) /\ Len(q.segs) \in Nat
        BY <1>7, <2>2, <3>1
      <3>4. CASE Successors(P, EndState(q)) = {}
        <4>1. r = q
          BY <3>2, <3>4 DEF Prolonged, EndState
        <4> QED
          BY <1>7, <3>3, <3>4, <4>1
      <3>5. CASE Successors(P, EndState(q)) # {}
        <4>1. PICK x \in Successors(P, EndState(q)) : r = Onward(q, x)
          BY <3>2, <3>5 DEF Prolonged, EndState
        <4>2. Len(r.segs) = Len(q.segs) + 1
          BY <3>3, <4>1, OnwardSound
        <4>3. r \in RunsOf(P)
          BY <3>3, <4>1, RunFacts DEF GoesWith
        <4>4. Len(q.segs) >= k
          BY <1>7, <3>3, <3>5
        <4> QED
          BY <3>3, <4>2, <4>3, <4>4
      <3> QED
        BY <3>4, <3>5
    <2> HIDE DEF T
    <2>3. Nat \subseteq T
      BY <2>1, <2>2, Induction
    <2> QED
      BY <1>1, <2>3 DEF T
  <1>9. ASSUME NEW r \in f[m]
        PROVE  r \in RunsOf(P) /\ Unfinished(EndState(r)) = {}
    <2>1. m \in 0 .. m
      BY <1>1
    <2>2. r \in RunsOf(P) /\ (Unfinished(EndState(r)) = {} \/ Len(r.segs) >= m)
      BY <1>8, <2>1
    <2>3. CASE Len(r.segs) >= m
      <3> DEFINE c == EndState(r)
      <3>1. Len(r.segs) <= c.t /\ c.t \in Nat /\ Legal(P, c) /\ c.rem \in [Procs(P) -> Nat] /\ Len(r.segs) \in Nat
        BY <1>7, <2>2 DEF Sound, Legal, States
      <3> HIDE DEF c
      <3>2. c.t + Left(P, c.rem) <= m /\ Left(P, c.rem) \in Nat
        BY <3>1, LeftFacts DEF Legal, m
      <3>3. Left(P, c.rem) = 0
        BY <1>1, <2>3, <3>1, <3>2
      <3>4. \A p \in Procs(P) : c.rem[p] = 0
        BY <3>1, <3>3, LeftFacts
      <3> QED
        BY <2>2, <3>1, <3>4 DEF c, Unfinished
    <2> QED
      BY <2>2, <2>3
  <1>10. ASSUME NEW r \in RunsOf(P), Unfinished(EndState(r)) = {}
        PROVE  r \in f[m]
    <2> DEFINE G == {q \in RunsOf(P) : q \in f[Len(q.segs)]}
    <2>1. \A s \in InitialStates(P) : Started(s) \in G
      BY <1>6, RunFacts, StartedSound, EmptySeq DEF GoesWith
    <2>2. ASSUME NEW q \in RunsOf(P), NEW x \in Successors(P, EndState(q)), q \in G
          PROVE  Onward(q, x) \in G
      <3> DEFINE o == Onward(q, x)
      <3>1. o \in RunsOf(P)
        BY RunFacts DEF GoesWith
      <3>2. Len(o.segs) = Len(q.segs) + 1 /\ Len(q.segs) \in Nat /\ Len(o.segs) <= m
        BY <1>7, <3>1, OnwardSound
      <3>3. o \in Prolonged(P, q)
        BY DEF Prolonged, EndState
      <3> HIDE DEF o
      <3>4. Len(o.segs) \in 1 .. m /\ Len(o.segs) - 1 = Len(q.segs)
        BY <1>1, <3>2
      <3>5. o \in f[Len(o.segs)]
        BY <1>5, <2>2, <3>3, <3>4
      <3> QED
        BY <3>1, <3>5 DEF o
    <2> HIDE DEF G
    <2>3. r \in G
      BY <2>1, <2>2, RunInduction
    <2> DEFINE k == Len(r.segs)
               T == {n \in Nat : k + n <= m => r \in f[k + n]}
    <2>4. k \in Nat /\ k <= m /\ r \in f[k]
      BY <1>7, <2>3 DEF G
    <2>5. Prolonged(P, r) = {r}
      BY <1>7, <1>10 DEF Prolonged, EndState
    <2> HIDE DEF k
    <2>6. 0 \in T
      BY <2>4
    <2>7. ASSUME NEW n \in Nat, n \in T
          PROVE  n + 1 \in T
      <3> SUFFICES ASSUME k + (n + 1) <= m
                   PROVE  r \in f[k + (n + 1)]
        OBVIOUS
      <3>1. k + (n + 1) \in 1 .. m /\ (k + (n + 1)) - 1 = k + n /\ k + n <= m
        BY <1>1, <2>4
      <3>2. r \in f[k + n]
        BY <2>7, <3>1
      <3> QED
        BY <1>5, <2>5, <3>1, <3>2
    <2> HIDE DEF T
    <2>8. Nat \subseteq T
      BY <2>6, <2>7, Induction
    <2>9. PICK n \in Nat : k + n = m
      <3>1. m - k \in Nat /\ k + (m - k) = m
        BY <1>1, <2>4
      <3> QED
        BY <3>1
    <2>10. n \in T /\ k + n <= m
      BY <1>1, <2>8, <2>9
    <2> QED
      BY <2>9, <2>10 DEF T
  <1> QED
    BY <1>3, <1>9, <1>10

----------------------------------------------------------------------------
(* The judgement of schedules without preemption.                          *)
Verdicts(P) == [ok : BOOLEAN, t : Nat, done : SUBSET Pids(P)]
NoVerdict == [ok |-> TRUE, t |-> 0, done |-> {}]
IsVerdict(f, P, trace) ==
    f = [n \in 0 .. Len(trace) |-> IF n = 0 THEN NoVerdict ELSE JudgedSegment(P, f[n - 1], trace[n])]

LEMMA JudgedType ==
    ASSUME NEW P, NEW v \in Verdicts(P), NEW seg \in Lane(Pids(P))
    PROVE  JudgedSegment(P, v, seg) \in Verdicts(P)
  <1>1. v.done \union ({seg.pid} \ {Idle}) \in SUBSET Pids(P) /\ seg.end \in Nat
    BY DEF Verdicts, Lane
  <1>2. (v.ok /\ seg.start = v.t /\ StepNonpreemptive(P, seg, v.done)) \in BOOLEAN
    OBVIOUS
  <1> QED
    BY <1>1, <1>2 DEF JudgedSegment, Verdicts

LEMMA VerdictTable ==
    ASSUME NEW P, NEW s \in Seq(Lane(Pids(P)))
    PROVE  \E f \in [0 .. Len(s) -> Verdicts(P)] :
              /\ f[0] = NoVerdict /\ \A n \in 1 .. Len(s) : f[n] = JudgedSegment(P, f[n - 1], s[n])
              /\ RulesSoFar(P, s) = f[Len(s)]
  <1> DEFINE V == Verdicts(P)
             m == Len(s)
             step == [x \in (1 .. m) \X V |-> JudgedSegment(P, x[2], s[x[1]])]
  <1>1. m \in Nat /\ NoVerdict \in V /\ \A i \in 1 .. m : s[i] \in Lane(Pids(P))
    BY LaneFacts DEF Verdicts, NoVerdict
  <1>2. ASSUME NEW n \in 1 .. m, NEW v \in V
        PROVE  step[<<n, v>>] = JudgedSegment(P, v, s[n]) /\ step[<<n, v>>] \in V
    <2>1. JudgedSegment(P, v, s[n]) \in V
      BY <1>1, JudgedType
    <2> QED
      BY <2>1
  <1> HIDE DEF step, m, V
  <1>3. PICK f \in [0 .. m -> V] : IsTable(f, m, NoVerdict, step)
    BY <1>1, <1>2, TableExists
  <1>4. IsVerdict(f, P, s)
    <2>1. ASSUME NEW n \in 0 .. m
          PROVE  f[n] = IF n = 0 THEN NoVerdict ELSE JudgedSegment(P, f[n - 1], s[n])
      <3>1. n # 0 => n \in 1 .. m /\ n - 1 \in 0 .. m
        BY <1>1
      <3>2. n # 0 => f[n - 1] \in V
        BY <3>1
      <3>3. f[n] = IF n = 0 THEN NoVerdict ELSE step[<<n, f[n - 1]>>]
        BY <1>3 DEF IsTable
      <3> QED
        BY <1>2, <3>1, <3>2, <3>3
    <2>2. f = [n \in 0 .. m |-> f[n]]
      OBVIOUS
    <2> QED
      BY <2>1, <2>2 DEF IsVerdict, m
  <1> DEFINE g == CHOOSE g : IsVerdict(g, P, s)
  <1>5. IsVerdict(g, P, s)
    BY <1>4
  <1>6. RulesSoFar(P, s) = g[m]
    BY DEF RulesSoFar, IsVerdict, NoVerdict, m
  <1> HIDE DEF g
  <1>7. g[0] = NoVerdict /\ f[0] = NoVerdict /\ \A n \in 1 .. m : g[n] = JudgedSegment(P, g[n - 1], s[n]) /\ f[n] = JudgedSegment(P, f[n - 1], s[n])
    BY <1>1, <1>4, <1>5 DEF IsVerdict, m
  <1>8. \A n \in 0 .. m : g[n] = f[n]
    <2>1. GoOnAlike(g, f, m)
      BY <1>7 DEF GoOnAlike
    <2>2. g[0] = f[0] /\ m \in Nat
      BY <1>1, <1>7
    <2> QED
      BY <2>1, <2>2, TablesAlike
  <1>9. RulesSoFar(P, s) = f[m]
    BY <1>1, <1>6, <1>8
  <1> QED
    BY <1>7, <1>9 DEF m, V

LEMMA VerdictStep ==
    ASSUME NEW P, NEW s \in Seq(Lane(Pids(P))), NEW x \in Lane(Pids(P))
    PROVE  /\ RulesSoFar(P, <<>>) = NoVerdict /\ RulesSoFar(P, s) \in Verdicts(P)
           /\ RulesSoFar(P, Append(s, x)) = JudgedSegment(P, RulesSoFar(P, s), x)
  <1>1. /\ <<>> \in Seq(Lane(Pids(P))) /\ Len(<<>>) = 0
        /\ Append(s, x) \in Seq(Lane(Pids(P))) /\ Len(s) \in Nat /\ Len(Append(s, x)) = Len(s) + 1
        /\ Append(s, x)[Len(s) + 1] = x /\ \A i \in 1 .. Len(s) : Append(s, x)[i] = s[i]
    BY EmptySeq, AppendFacts
  <1>2. RulesSoFar(P, <<>>) = NoVerdict
    BY <1>1, VerdictTable
  <1>3. PICK f \in [0 .. Len(s) -> Verdicts(P)] :
              /\ f[0] = NoVerdict /\ \A n \in 1 .. Len(s) : f[n] = JudgedSegment(P, f[n - 1], s[n])
              /\ RulesSoFar(P, s) = f[Len(s)]
    BY VerdictTable
  <1>4. PICK g \in [0 .. Len(s) + 1 -> Verdicts(P)] :
              /\ g[0] = NoVerdict /\ \A n \in 1 .. Len(s) + 1 : g[n] = JudgedSegment(P, g[n - 1], Append(s, x)[n])
              /\ RulesSoFar(P, Append(s, x)) = g[Len(s) + 1]
    <2> DEFINE r == Append(s, x)
    <2>1. r \in Seq(Lane(Pids(P))) /\ Len(r) = Len(s) + 1
      BY <1>1
    <2> HIDE DEF r
    <2>2. \E g \in [0 .. Len(r) -> Verdicts(P)] :
              /\ g[0] = NoVerdict /\ \A n \in 1 .. Len(r) : g[n] = JudgedSegment(P, g[n - 1], r[n])
              /\ RulesSoFar(P, r) = g[Len(r)]
      BY <2>1, VerdictTable
    <2> QED
      BY <2>1, <2>2 DEF r
  <1>5. ASSUME NEW n \in 1 .. Len(s), f[n - 1] = g[n - 1]
        PROVE  f[n] = g[n]
    <2>1. n \in 1 .. Len(s) + 1
      BY <1>1
    <2> QED
      BY <1>1, <1>3, <1>4, <1>5, <2>1
  <1>6. \A n \in 0 .. Len(s) : f[n] = g[n]
    <2>1. f[0] = g[0] /\ Len(s) \in Nat
      BY <1>1, <1>3, <1>4
    <2>2. GoOnAlike(f, g, Len(s))
      BY <1>5 DEF GoOnAlike
    <2> QED
      BY <2>1, <2>2, TablesAlike
  <1>7. Len(s) + 1 \in 1 .. Len(s) + 1 /\ (Len(s) + 1) - 1 = Len(s) /\ Len(s) \in 0 .. Len(s)
    BY <1>1
  <1>8. g[Len(s) + 1] = JudgedSegment(P, g[Len(s)], x)
    BY <1>1, <1>4, <1>7
  <1>9. f[Len(s)] = g[Len(s)] /\ f[Len(s)] \in Verdicts(P)
    BY <1>3, <1>6, <1>7
  <1> QED
    BY <1>2, <1>3, <1>4, <1>8, <1>9

RanOut(P, c) == Procs(P) \ Unfinished(c)
Agreed(P, c) == [ok |-> TRUE, t |-> c.t, done |-> RanOut(P, c)]

FollowsRules(P, c, seg) == seg.start = c.t /\ StepNonpreemptive(P, seg, RanOut(P, c))

GoesOnAgreed(P, c, seg, d) == JudgedSegment(P, Agreed(P, c), seg) = Agreed(P, d)
HasStep(P, c, seg) == \E x \in Successors(P, c) : x.seg = seg

LEMMA JudgedOk ==
    ASSUME NEW P, NEW v \in Verdicts(P), NEW seg, JudgedSegment(P, v, seg).ok
    PROVE  v.ok = TRUE /\ seg.start = v.t /\ StepNonpreemptive(P, seg, v.done)
  <1>1. JudgedSegment(P, v, seg).ok <=> (v.ok /\ seg.start = v.t /\ StepNonpreemptive(P, seg, v.done))
    BY DEF JudgedSegment
  <1>2. v.ok \in BOOLEAN
    BY DEF Verdicts
  <1> QED
    BY <1>1, <1>2

(* The rules of validators.py allow a segment where the transition system   *)
(* has a step that emits it, and then both know the same.                   *)
LEMMA RuledStep ==
    ASSUME NEW P, ScheduleProblem(P), P.policy # "RR", NEW c, Legal(P, c), NEW seg \in Lane(Pids(P))
    PROVE  /\ \A x \in Successors(P, c) : x.seg = seg => GoesOnAgreed(P, c, seg, x.state)
           /\ FollowsRules(P, c, seg) => HasStep(P, c, seg)
  <1> DEFINE open == Unfinished(c)
             A == Arrived(P, c)
             done == RanOut(P, c)
             pending == Procs(P) \ done
             v == Agreed(P, c)
             j == JudgedSegment(P, v, seg)
  <1>1. /\ c.t \in Nat /\ c.queue \in Seq(Procs(P)) /\ c.rem \in [Procs(P) -> Nat]
        /\ open \in SUBSET Procs(P) /\ A = {p \in open : P.arrival[p] <= c.t}
        /\ open = {p \in Procs(P) : c.rem[p] > 0}
    BY DEF Legal, States, Unfinished, Arrived
  <1>2. pending = open /\ v.ok = TRUE /\ v.t = c.t /\ v.done = done
    BY <1>1 DEF RanOut, Agreed
  <1>3. /\ seg = Segment(seg.pid, seg.start, seg.end) /\ seg.pid \in Pids(P) /\ seg.start \in Nat /\ seg.end \in Nat
        /\ Idle \notin Procs(P)
        /\ \A p \in Procs(P) : P.burst[p] \in Nat /\ P.burst[p] > 0 /\ P.arrival[p] \in Nat
    BY ProblemFacts DEF Lane, Segment
  <1>4. /\ j.ok = (seg.start = c.t /\ StepNonpreemptive(P, seg, done))
        /\ j = [ok |-> j.ok, t |-> seg.end, done |-> done \union ({seg.pid} \ {Idle})]
    BY <1>2 DEF JudgedSegment
  <1>5. ASSUME seg.start = c.t, seg.pid = Idle
        PROVE  StepNonpreemptive(P, seg, done) <=> A = {} /\ open # {} /\ seg.end = Next(P, c)
    BY <1>1, <1>2, <1>5 DEF StepNonpreemptive, IdleLength, Next
  <1>6. ASSUME seg.start = c.t, seg.pid # Idle
        PROVE  StepNonpreemptive(P, seg, done) <=>
                  seg.pid \in Foremost(P, c) /\ seg.end - seg.start = P.burst[seg.pid]
    <2>1. seg.pid \in Procs(P)
      BY <1>3, <1>6 DEF Pids
    <2>2. {p \in pending : P.arrival[p] <= seg.start} = A
      BY <1>1, <1>2, <1>6
    <2>3. seg.pid \notin done /\ P.arrival[seg.pid] <= seg.start <=> seg.pid \in A
      BY <1>1, <1>2, <1>6, <2>1
    <2>4. StepNonpreemptive(P, seg, done) <=>
             /\ seg.pid \notin done /\ P.arrival[seg.pid] <= seg.start
             /\ seg.end - seg.start = P.burst[seg.pid]
             /\ \A q \in {p \in pending : P.arrival[p] <= seg.start} : SchedKey(P, seg.pid) <= SchedKey(P, q)
      BY <1>6 DEF StepNonpreemptive
    <2> HIDE DEF A, done
    <2> QED
      BY <2>2, <2>3, <2>4 DEF Foremost, A
  <1> HIDE DEF j, v
  <1>7. ASSUME NEW x \in Successors(P, c), x.seg = seg
        PROVE  j = Agreed(P, x.state)
    <2>1. CASE Waits(P, c, x)
      <3>1. PICK q \in Seq(Procs(P)) : x = Emit(Idle, c, Waited(P, c, q))
        BY <2>1 DEF Waits
      <3>2. seg.start = c.t /\ seg.pid = Idle /\ seg.end = Next(P, c) /\ x.state.t = Next(P, c) /\ x.state.rem = c.rem
        BY <1>7, <3>1 DEF Emit, Segment, Waited
      <3>3. A = {} /\ open # {}
        BY <2>1 DEF Waits
      <3>4. j.ok = TRUE
        BY <1>4, <1>5, <3>2, <3>3
      <3>5. RanOut(P, x.state) = done
        BY <3>2 DEF RanOut, Unfinished
      <3> QED
        BY <1>4, <3>2, <3>4, <3>5 DEF Agreed
    <2>2. CASE ~Waits(P, c, x)
      <3>1. PICK p \in Foremost(P, c) : x = Emit(p, c, Ran(P, c, p))
        BY <2>2, NonpreemptiveSteps
      <3> DEFINE d == Ran(P, c, p)
      <3>2. p \in A /\ p \in Procs(P) /\ p # Idle
        BY <1>1, <1>3 DEF Foremost
      <3>3. /\ d.t = c.t + P.burst[p] /\ d.rem[p] = 0 /\ d.rem \in [Procs(P) -> Nat]
            /\ \A q \in Procs(P) : q # p => d.rem[q] = c.rem[q]
        BY <3>2, RanFacts DEF Legal, States
      <3> HIDE DEF d
      <3>4. seg.start = c.t /\ seg.pid = p /\ seg.end = d.t /\ x.state = d
        BY <1>7, <3>1 DEF Emit, Segment, d
      <3>5. seg.end - seg.start = P.burst[p]
        BY <1>1, <1>3, <3>2, <3>3, <3>4
      <3>6. j.ok = TRUE
        BY <1>4, <1>6, <3>2, <3>4, <3>5
      <3>7. Unfinished(d) = open \ {p}
        BY <1>1, <3>2, <3>3 DEF Unfinished
      <3>8. RanOut(P, d) = done \union ({p} \ {Idle})
        BY <1>1, <3>2, <3>7 DEF RanOut
      <3> QED
        BY <1>4, <3>4, <3>6, <3>8 DEF Agreed
    <2> QED
      BY <2>1, <2>2
  <1>8. ASSUME FollowsRules(P, c, seg)
        PROVE  \E x \in Successors(P, c) : x.seg = seg
    <2>1. seg.start = c.t /\ StepNonpreemptive(P, seg, done)
      BY <1>8 DEF FollowsRules
    <2>2. CASE seg.pid = Idle
      <3>1. A = {} /\ open # {} /\ seg.end = Next(P, c)
        BY <1>5, <2>1, <2>2
      <3> DEFINE x == Emit(Idle, c, Waited(P, c, c.queue))
      <3>2. Waits(P, c, x)
        BY <1>1, <3>1 DEF Waits
      <3>3. x.seg = Segment(Idle, c.t, Next(P, c))
        BY DEF Emit, Waited
      <3> HIDE DEF x
      <3>4. x \in Successors(P, c)
        BY <3>2, NonpreemptiveSteps
      <3>5. x.seg = seg
        BY <1>3, <2>1, <2>2, <3>1, <3>3
      <3> QED
        BY <3>4, <3>5
    <2>3. CASE seg.pid # Idle
      <3> DEFINE p == seg.pid
                 d == Ran(P, c, p)
                 x == Emit(p, c, d)
      <3>1. p \in Foremost(P, c) /\ seg.end - seg.start = P.burst[p]
        BY <1>6, <2>1, <2>3
      <3>2. p \in A /\ p \in Procs(P)
        BY <1>1, <3>1 DEF Foremost
      <3>3. d.t = c.t + P.burst[p]
        BY DEF Ran
      <3>4. seg.end = d.t
        BY <1>1, <1>3, <2>1, <3>1, <3>2, <3>3
      <3>5. x \in Successors(P, c)
        BY <3>1, NonpreemptiveSteps
      <3>6. x.seg = Segment(p, c.t, d.t)
        BY DEF Emit
      <3> HIDE DEF x, d
      <3>7. x.seg = seg
        BY <1>3, <2>1, <3>4, <3>6
      <3> QED
        BY <3>5, <3>7
    <2> QED
      BY <2>2, <2>3
  <1>9. \A x \in Successors(P, c) : x.seg = seg => GoesOnAgreed(P, c, seg, x.state)
    <2> SUFFICES ASSUME NEW x \in Successors(P, c), x.seg = seg
                 PROVE  GoesOnAgreed(P, c, seg, x.state)
      OBVIOUS
    <2>1. j = Agreed(P, x.state)
      BY <1>7
    <2> QED
      BY <2>1 DEF GoesOnAgreed, j, v
  <1>10. FollowsRules(P, c, seg) => HasStep(P, c, seg)
    BY <1>8 DEF HasStep
  <1> QED
    BY <1>9, <1>10

Straight(P, r) ==
    /\ Tidy(Pids(P), r.segs)
    /\ r.segs # <<>> => r.segs[Len(r.segs)].pid \notin Unfinished(EndState(r))
    /\ RulesSoFar(P, r.segs) = Agreed(P, EndState(r))

(* Without preemption a run is normal as it is, and the validator follows   *)
(* it.                                                                      *)
LEMMA StraightRuns ==
    ASSUME NEW P, ScheduleProblem(P), P.policy # "RR"
    PROVE  \A r \in RunsOf(P) : Straight(P, r)
  <1> DEFINE G == {r \in RunsOf(P) : Straight(P, r)}
             T == Pids(P)
  <1>1. ASSUME NEW s \in InitialStates(P)
        PROVE  Started(s) \in G
    <2>1. Started(s).segs = <<>> /\ EndState(Started(s)) = s /\ Started(s) \in RunsOf(P)
      BY StartedSound, RunFacts DEF GoesWith
    <2>2. s.t = 0 /\ s.rem = P.burst /\ DOMAIN s.rem = Procs(P)
      BY InitialFacts DEF Legal, States
    <2>3. Unfinished(s) = Procs(P)
      BY <2>2, ProblemFacts DEF Unfinished
    <2>4. Agreed(P, s) = NoVerdict
      BY <2>2, <2>3 DEF Agreed, RanOut, NoVerdict
    <2>5. RulesSoFar(P, <<>>) = NoVerdict
      <3>1. <<>> \in Seq(Lane(T)) /\ Segment(Idle, 0, 0) \in Lane(T)
        BY EmptySeq DEF Segment, Lane, Pids
      <3> QED
        BY <3>1, VerdictStep
    <2> QED
      BY <2>1, <2>4, <2>5, GaplessEmpty DEF Straight
  <1>2. ASSUME NEW r \in RunsOf(P), NEW x \in Successors(P, EndState(r)), r \in G
        PROVE  Onward(r, x) \in G
    <2> DEFINE o == Onward(r, x)
               c == EndState(r)
    <2>1. Sound(P, r) /\ o \in RunsOf(P)
      BY RunFacts DEF GoesWith
    <2>2. Straight(P, r) /\ Legal(P, c) /\ r.segs \in Seq(Lane(T))
      BY <1>2, <2>1 DEF Sound, Histories
    <2>3. /\ Sound(P, o) /\ EndState(o) = x.state /\ o.segs = Append(r.segs, x.seg)
          /\ x.seg \in Lane(T) /\ x.seg = Segment(x.seg.pid, c.t, x.state.t) /\ Moves(P, c, x)
          /\ r.segs # <<>> /\ r.segs[Len(r.segs)].pid = Idle => x.seg.pid # Idle
      BY <2>1, OnwardSound
    <2> HIDE DEF o, c
    <2>4. RulesSoFar(P, o.segs) = Agreed(P, x.state)
      <3>1. RulesSoFar(P, Append(r.segs, x.seg)) = JudgedSegment(P, RulesSoFar(P, r.segs), x.seg)
        BY <2>2, <2>3, VerdictStep
      <3>2. RulesSoFar(P, r.segs) = Agreed(P, c)
        BY <2>2 DEF Straight, c
      <3>3. x \in Successors(P, c)
        BY <1>2 DEF c
      <3> DEFINE seg == x.seg
      <3>4. seg \in Lane(Pids(P)) /\ Legal(P, c) /\ x.seg = seg
        BY <2>2, <2>3
      <3> HIDE DEF seg
      <3>5. GoesOnAgreed(P, c, seg, x.state)
        BY <3>3, <3>4, RuledStep
      <3> QED
        BY <2>3, <3>1, <3>2, <3>5 DEF seg, GoesOnAgreed
    <2>5. x.seg.pid = Idle \/ x.seg.pid \in Unfinished(c)
      BY <2>3 DEF Moves, Arrived
    <2>6. x.seg.pid \notin Unfinished(x.state)
      <3>1. Idle \notin Unfinished(x.state)
        BY <2>3, ProblemFacts DEF Moves, Legal, States, Unfinished
      <3>2. CASE x.seg.pid # Idle
        <4>1. ~Waits(P, c, x)
          BY <2>3, <3>2 DEF Moves
        <4>2. x \in Successors(P, c)
          BY <1>2 DEF c
        <4>3. PICK p \in Foremost(P, c) : x = Emit(p, c, Ran(P, c, p))
          BY <2>2, <4>1, <4>2, NonpreemptiveSteps
        <4>4. x.seg.pid = p /\ x.state = Ran(P, c, p) /\ p \in Arrived(P, c)
          BY <4>3 DEF Emit, Segment, Foremost
        <4>5. Ran(P, c, p).rem[p] = 0
          BY <2>2, <4>4, RanFacts
        <4> QED
          BY <4>4, <4>5 DEF Unfinished
      <3> QED
        BY <3>1, <3>2
    <2>7. Tidy(T, o.segs)
      <3>1. Gapless(T, Append(r.segs, x.seg))
        BY <2>3 DEF Sound
      <3>2. x.seg.start = EndOf(r.segs) /\ x.seg.start < x.seg.end
        BY <2>2, <2>3, <3>1, GaplessAppend
      <3>3. Tidy(T, r.segs) /\ (r.segs # <<>> => r.segs[Len(r.segs)].pid \notin Unfinished(c))
        BY <2>2 DEF Straight, c
      <3>4. r.segs # <<>> => r.segs[Len(r.segs)].pid # x.seg.pid
        BY <2>3, <2>5, <3>3
      <3> QED
        BY <2>2, <2>3, <3>2, <3>3, <3>4, TidyAppend
    <2>8. o.segs[Len(o.segs)] = x.seg
      BY <2>2, <2>3, AppendFacts
    <2>9. Straight(P, o)
      BY <2>3, <2>4, <2>6, <2>7, <2>8 DEF Straight
    <2> QED
      BY <2>1, <2>9 DEF o
  <1> HIDE DEF G
  <1>3. RunsOf(P) \subseteq G
    BY <1>1, <1>2, RunInduction
  <1> QED
    BY <1>3 DEF G

(* What breaks no rule is the beginning of a run.                           *)
LEMMA JudgedRuns ==
    ASSUME NEW P, ScheduleProblem(P), P.policy # "RR", NEW m \in Seq(Lane(Pids(P))), RulesSoFar(P, m).ok
    PROVE  \E r \in RunsOf(P) : r.segs = m
  <1> DEFINE T == Pids(P)
             G == {s \in Seq(Lane(T)) : RulesSoFar(P, s).ok => \E r \in RunsOf(P) : r.segs = s}
  <1>1. <<>> \in G
    <2>1. InitialStates(P) # {}
      BY DEF InitialStates
    <2>2. PICK s : s \in InitialStates(P)
      BY <2>1
    <2>3. Started(s) \in RunsOf(P) /\ Started(s).segs = <<>>
      BY <2>2, RunFacts, StartedSound DEF GoesWith
    <2> QED
      BY <2>3, EmptySeq
  <1>2. ASSUME NEW s \in Seq(Lane(T)), NEW x \in Lane(T), s \in G
        PROVE  Append(s, x) \in G
    <2> SUFFICES ASSUME RulesSoFar(P, Append(s, x)).ok
                 PROVE  \E r \in RunsOf(P) : r.segs = Append(s, x)
      BY AppendProperties
    <2>1. RulesSoFar(P, Append(s, x)) = JudgedSegment(P, RulesSoFar(P, s), x)
      BY VerdictStep
    <2>a. RulesSoFar(P, s) \in Verdicts(P) /\ JudgedSegment(P, RulesSoFar(P, s), x).ok
      BY <2>1, VerdictStep
    <2>b. /\ RulesSoFar(P, s).ok = TRUE
          /\ x.start = RulesSoFar(P, s).t /\ StepNonpreemptive(P, x, RulesSoFar(P, s).done)
      BY <2>a, JudgedOk
    <2>2. RulesSoFar(P, s).ok
      BY <2>b
    <2>3. PICK r \in RunsOf(P) : r.segs = s
      BY <1>2, <2>2
    <2>4. Sound(P, r) /\ Straight(P, r)
      BY RunFacts, StraightRuns
    <2>5. FollowsRules(P, EndState(r), x)
      <3>1. RulesSoFar(P, s) = Agreed(P, EndState(r))
        BY <2>3, <2>4 DEF Straight
      <3>2. RulesSoFar(P, s).t = EndState(r).t /\ RulesSoFar(P, s).done = RanOut(P, EndState(r))
        BY <3>1 DEF Agreed
      <3> QED
        BY <2>b, <3>2 DEF FollowsRules
    <2> DEFINE c == EndState(r)
    <2>c. Legal(P, c) /\ FollowsRules(P, c, x)
      BY <2>4, <2>5 DEF Sound
    <2> HIDE DEF c
    <2>d. HasStep(P, c, x)
      BY <2>c, RuledStep
    <2>6. PICK y \in Successors(P, EndState(r)) : y.seg = x
      BY <2>d DEF HasStep, c
    <2>7. Onward(r, y) \in RunsOf(P) /\ Onward(r, y).segs = Append(s, x)
      BY <2>3, <2>6, RunFacts DEF GoesWith, Onward
    <2> QED
      BY <2>7
  <1> HIDE DEF G
  <1>3. Seq(Lane(T)) \subseteq G
    BY <1>1, <1>2, SeqInduction
  <1> QED
    BY <1>3 DEF G

(* The judge without preemption accepts a normal trace if and only if a run *)
(* has it.                                                                  *)
LEMMA NonpreemptiveAgree ==
    ASSUME NEW P, ScheduleProblem(P), P.policy # "RR", NEW m, Tidy(Pids(P), m)
    PROVE  JudgeNonpreemptive(P, m) = "ok" <=> \E r \in Paths(P) : Normalize(r.segs) = m
  <1>1. m \in Seq(Lane(Pids(P)))
    BY DEF Tidy, Gapless
  <1>2. \A r \in RunsOf(P) : /\ Normalize(r.segs) = r.segs
                             /\ RulesSoFar(P, r.segs) = Agreed(P, EndState(r))
                             /\ Unfinished(EndState(r)) \subseteq Procs(P)
    <2> SUFFICES ASSUME NEW r \in RunsOf(P)
                 PROVE  /\ Normalize(r.segs) = r.segs
                        /\ RulesSoFar(P, r.segs) = Agreed(P, EndState(r))
                        /\ Unfinished(EndState(r)) \subseteq Procs(P)
      OBVIOUS
    <2>1. Straight(P, r) /\ Sound(P, r)
      BY StraightRuns, RunFacts
    <2>2. Tidy(Pids(P), r.segs) /\ Gapless(Pids(P), r.segs)
      BY <2>1 DEF Straight, Tidy
    <2>3. Normalize(r.segs) = r.segs
      BY <2>2, NormalizeGapless, MergedAlready
    <2> QED
      BY <2>1, <2>3 DEF Straight, Sound, Legal, States, Unfinished
  <1>3. ASSUME JudgeNonpreemptive(P, m) = "ok"
        PROVE  \E r \in Paths(P) : Normalize(r.segs) = m
    <2>1. RulesSoFar(P, m).ok /\ RulesSoFar(P, m).done = Procs(P)
      BY <1>3 DEF JudgeNonpreemptive
    <2>2. PICK r \in RunsOf(P) : r.segs = m
      BY <1>1, <2>1, JudgedRuns
    <2>3. Procs(P) \ Unfinished(EndState(r)) = Procs(P)
      <3>1. RulesSoFar(P, m) = Agreed(P, EndState(r))
        BY <1>2, <2>2
      <3>2. RulesSoFar(P, m).done = RanOut(P, EndState(r))
        BY <3>1 DEF Agreed
      <3> QED
        BY <2>1, <3>2 DEF RanOut
    <2>4. Unfinished(EndState(r)) = {}
      BY <1>2, <2>3
    <2>5. r \in Paths(P)
      BY <2>4, PathFacts
    <2> QED
      BY <1>2, <2>2, <2>5
  <1>4. ASSUME NEW r \in Paths(P), Normalize(r.segs) = m
        PROVE  JudgeNonpreemptive(P, m) = "ok"
    <2>1. r \in RunsOf(P) /\ Unfinished(EndState(r)) = {}
      BY PathFacts
    <2>2. RulesSoFar(P, m) = Agreed(P, EndState(r))
      BY <1>2, <1>4, <2>1
    <2>3. RulesSoFar(P, m).ok = TRUE /\ RulesSoFar(P, m).done = Procs(P)
      BY <2>1, <2>2 DEF Agreed, RanOut
    <2> QED
      BY <2>3 DEF JudgeNonpreemptive
  <1> QED
    BY <1>3, <1>4

----------------------------------------------------------------------------
(* Round robin: the configurations that dispatches of one process reach    *)
(* are the least set that has the first one and whatever follows.          *)
Legals(P) == {c \in States(P) : Legal(P, c)}

IsSpread(f, P, pid, end, c) ==
    f = [n \in 0 .. end - c.t |-> IF n = 0 THEN {c} ELSE Spread(P, pid, end, f[n - 1])]

LEMMA SpreadLegal ==
    ASSUME NEW P, ScheduleProblem(P), P.policy = "RR", NEW pid, NEW end \in Nat, NEW v \in SUBSET Legals(P)
    PROVE  Spread(P, pid, end, v) \in SUBSET Legals(P)
  <1>1. ASSUME NEW c \in v, NEW d \in Dispatches(P, pid, end, c)
        PROVE  d \in Legals(P)
    BY DispatchFacts DEF Legals, Legal
  <1> QED
    BY <1>1 DEF Spread

Spreads(P, pid, end, c) ==
    \E f \in [0 .. end - c.t -> SUBSET Legals(P)] :
        /\ f[0] = {c} /\ \A n \in 1 .. end - c.t : f[n] = Spread(P, pid, end, f[n - 1])
        /\ Reached(P, pid, end, c) = f[end - c.t]

LEMMA SpreadTable ==
    ASSUME NEW P, ScheduleProblem(P), P.policy = "RR", NEW pid, NEW end \in Nat,
           NEW c \in Legals(P), c.t <= end
    PROVE  Spreads(P, pid, end, c)
  <1> DEFINE V == SUBSET Legals(P)
             m == end - c.t
             step == [x \in (1 .. m) \X V |-> Spread(P, pid, end, x[2])]
  <1>1. m \in Nat /\ {c} \in V
    BY DEF Legals, States
  <1>2. ASSUME NEW n \in 1 .. m, NEW v \in V
        PROVE  step[<<n, v>>] = Spread(P, pid, end, v) /\ step[<<n, v>>] \in V
    <2>1. Spread(P, pid, end, v) \in V
      BY SpreadLegal
    <2>2. <<n, v>> \in (1 .. m) \X V
      OBVIOUS
    <2> HIDE DEF V
    <2>3. step[<<n, v>>] = Spread(P, pid, end, v)
      BY <2>2
    <2> QED
      BY <2>1, <2>3
  <1> HIDE DEF step, m, V
  <1>3. PICK f \in [0 .. m -> V] : IsTable(f, m, {c}, step)
    BY <1>1, <1>2, TableExists
  <1>4. IsSpread(f, P, pid, end, c)
    <2>1. ASSUME NEW n \in 0 .. m
          PROVE  f[n] = IF n = 0 THEN {c} ELSE Spread(P, pid, end, f[n - 1])
      <3>1. n # 0 => n \in 1 .. m /\ n - 1 \in 0 .. m
        BY <1>1
      <3>2. n # 0 => f[n - 1] \in V
        BY <3>1
      <3>3. f[n] = IF n = 0 THEN {c} ELSE step[<<n, f[n - 1]>>]
        BY <1>3 DEF IsTable
      <3> QED
        BY <1>2, <3>1, <3>2, <3>3
    <2>2. f = [n \in 0 .. m |-> f[n]]
      OBVIOUS
    <2> QED
      BY <2>1, <2>2 DEF IsSpread, m
  <1> DEFINE g == CHOOSE g : IsSpread(g, P, pid, end, c)
  <1>5. IsSpread(g, P, pid, end, c)
    BY <1>4
  <1>6. Reached(P, pid, end, c) = g[m]
    BY DEF Reached, IsSpread, m
  <1> HIDE DEF g
  <1>7. /\ g[0] = {c} /\ f[0] = {c}
        /\ \A n \in 1 .. m : g[n] = Spread(P, pid, end, g[n - 1]) /\ f[n] = Spread(P, pid, end, f[n - 1])
    <2>1. 0 \in 0 .. m /\ \A n \in 1 .. m : n \in 0 .. m /\ n # 0
      BY <1>1
    <2>2. \A n \in 0 .. m : g[n] = IF n = 0 THEN {c} ELSE Spread(P, pid, end, g[n - 1])
      BY <1>5 DEF IsSpread, m
    <2>3. \A n \in 0 .. m : f[n] = IF n = 0 THEN {c} ELSE Spread(P, pid, end, f[n - 1])
      BY <1>4 DEF IsSpread, m
    <2> QED
      BY <2>1, <2>2, <2>3
  <1>8. \A n \in 0 .. m : g[n] = f[n]
    <2>1. GoOnAlike(g, f, m)
      BY <1>7 DEF GoOnAlike
    <2>2. g[0] = f[0] /\ m \in Nat
      BY <1>1, <1>7
    <2> QED
      BY <2>1, <2>2, TablesAlike
  <1>9. Reached(P, pid, end, c) = f[m]
    BY <1>1, <1>6, <1>8
  <1> QED
    BY <1>3, <1>7, <1>9 DEF m, V, Spreads

ClosedUnder(P, pid, end, G) == \A g \in G : Dispatches(P, pid, end, g) \subseteq G

LEMMA ReachedFacts ==
    ASSUME NEW P, ScheduleProblem(P), P.policy = "RR", NEW pid, NEW end \in Nat,
           NEW c \in Legals(P), c.t <= end
    PROVE  /\ c \in Reached(P, pid, end, c) /\ Reached(P, pid, end, c) \subseteq Legals(P)
           /\ ClosedUnder(P, pid, end, Reached(P, pid, end, c))
           /\ \A G \in SUBSET Legals(P) : c \in G /\ ClosedUnder(P, pid, end, G) => Reached(P, pid, end, c) \subseteq G
  <1> DEFINE m == end - c.t
             R == Reached(P, pid, end, c)
  <1>1. m \in Nat /\ c.t \in Nat /\ c.t + m = end
    BY DEF Legals, States
  <1>2. PICK f \in [0 .. m -> SUBSET Legals(P)] :
              /\ f[0] = {c} /\ \A n \in 1 .. m : f[n] = Spread(P, pid, end, f[n - 1])
              /\ R = f[m]
    <2>1. Spreads(P, pid, end, c)
      BY SpreadTable
    <2> QED
      BY <2>1 DEF Spreads
  <1> HIDE DEF m, R
  <1>3. \A i, k \in Nat : i + k <= m => f[i] \subseteq f[i + k]
    <2> DEFINE T == {k \in Nat : \A i \in Nat : i + k <= m => f[i] \subseteq f[i + k]}
    <2>1. 0 \in T
      OBVIOUS
    <2>2. ASSUME NEW k \in Nat, k \in T
          PROVE  k + 1 \in T
      <3> SUFFICES ASSUME NEW i \in Nat, i + (k + 1) <= m
                   PROVE  f[i] \subseteq f[i + (k + 1)]
        OBVIOUS
      <3>1. i + (k + 1) \in 1 .. m /\ (i + (k + 1)) - 1 = i + k /\ i + k <= m
        BY <1>1
      <3>2. f[i + (k + 1)] = Spread(P, pid, end, f[i + k])
        BY <1>2, <3>1
      <3>3. f[i] \subseteq f[i + k]
        BY <2>2, <3>1
      <3> QED
        BY <3>2, <3>3 DEF Spread
    <2> HIDE DEF T
    <2>3. Nat \subseteq T
      BY <2>1, <2>2, Induction
    <2> QED
      BY <2>3 DEF T
  <1>4. c \in R
    <2>1. 0 + m <= m /\ 0 \in Nat /\ 0 + m = m
      BY <1>1
    <2>2. f[0] \subseteq f[0 + m]
      BY <1>1, <1>3, <2>1
    <2> QED
      BY <1>2, <2>1, <2>2
  <1>5. R \subseteq Legals(P)
    <2>1. m \in 0 .. m
      BY <1>1
    <2> QED
      BY <1>2, <2>1
  <1> DEFINE Early == {n \in Nat : n <= m => \A g \in f[n] : c.t <= g.t /\ g.t <= end /\ g \in f[g.t - c.t]}
  <1>6. 0 \in Early
    BY <1>1, <1>2
  <1>7. ASSUME NEW n \in Nat, n \in Early
        PROVE  n + 1 \in Early
    <2> SUFFICES ASSUME n + 1 <= m, NEW d \in f[n + 1]
                 PROVE  c.t <= d.t /\ d.t <= end /\ d \in f[d.t - c.t]
      OBVIOUS
    <2>1. n + 1 \in 1 .. m /\ (n + 1) - 1 = n /\ n <= m /\ n \in 0 .. m
      BY <1>1
    <2>2. f[n + 1] = Spread(P, pid, end, f[n])
      BY <1>2, <2>1
    <2>3. \A g \in f[n] : g \in Legals(P) /\ c.t <= g.t /\ g.t <= end /\ g \in f[g.t - c.t]
      BY <1>2, <1>7, <2>1
    <2>4. CASE d \in f[n]
      BY <2>3, <2>4
    <2>5. CASE d \notin f[n]
      <3>1. PICK g \in f[n] : d \in Dispatches(P, pid, end, g)
        BY <2>2, <2>5 DEF Spread
      <3>2. g \in Legals(P) /\ c.t <= g.t /\ g \in f[g.t - c.t] /\ Legal(P, g) /\ g.t \in Nat
        BY <2>3 DEF Legals, States
      <3>3. g.t < d.t /\ d.t <= end /\ d.t \in Nat
        <4>1. Legal(P, d) /\ g.t < d.t /\ d.t <= end
          BY <3>1, <3>2, DispatchFacts
        <4> QED
          BY <4>1 DEF Legal, States
      <3> DEFINE i == g.t - c.t
                 k == d.t - g.t - 1
      <3>4. i \in Nat /\ k \in Nat /\ (i + 1) + k <= m /\ (i + 1) + k = d.t - c.t /\ i + 1 \in 1 .. m /\ (i + 1) - 1 = i /\ i + 1 \in Nat
        BY <1>1, <3>2, <3>3
      <3>5. g \in f[i]
        BY <3>2
      <3> HIDE DEF i, k
      <3>6. f[i + 1] = Spread(P, pid, end, f[i])
        BY <1>2, <3>4
      <3>7. d \in f[i + 1]
        BY <3>1, <3>5, <3>6 DEF Spread
      <3>8. d \in f[(i + 1) + k]
        BY <1>3, <3>4, <3>7
      <3> QED
        BY <1>1, <3>2, <3>3, <3>4, <3>8
    <2> QED
      BY <2>4, <2>5
  <1> HIDE DEF Early
  <1>8. m \in Early
    BY <1>1, <1>6, <1>7, Induction
  <1>9. ASSUME NEW g \in R, NEW d \in Dispatches(P, pid, end, g)
        PROVE  d \in R
    <2>1. c.t <= g.t /\ g.t <= end /\ g \in f[g.t - c.t] /\ Legal(P, g) /\ g.t \in Nat
      BY <1>1, <1>2, <1>5, <1>8 DEF Early, Legals, States
    <2>2. g.t < d.t /\ d.t <= end /\ d.t \in Nat
      <3>1. Legal(P, d) /\ g.t < d.t /\ d.t <= end
        BY <2>1, DispatchFacts
      <3> QED
        BY <3>1 DEF Legal, States
    <2> DEFINE i == g.t - c.t
               k == m - i - 1
    <2>3. i \in Nat /\ k \in Nat /\ (i + 1) + k = m /\ i + 1 \in 1 .. m /\ (i + 1) - 1 = i /\ i + 1 \in Nat
      <3>1. i \in Nat /\ c.t + i = g.t
        BY <1>1, <2>1
      <3>2. c.t + i < c.t + m
        BY <1>1, <2>1, <2>2, <3>1
      <3> HIDE DEF i
      <3>3. i < m
        BY <1>1, <3>1, <3>2
      <3> QED
        BY <1>1, <3>1, <3>3
    <2>4. g \in f[i]
      BY <2>1
    <2> HIDE DEF i, k
    <2>5. d \in f[i + 1]
      <3>1. f[i + 1] = Spread(P, pid, end, f[i])
        BY <1>2, <2>3
      <3> QED
        BY <2>4, <3>1 DEF Spread
    <2>6. d \in f[(i + 1) + k]
      <3>1. (i + 1) + k <= m
        BY <1>1, <2>3
      <3> QED
        BY <1>3, <2>3, <2>5, <3>1
    <2> QED
      BY <1>2, <2>3, <2>6
  <1>10. ASSUME NEW G \in SUBSET Legals(P), c \in G, ClosedUnder(P, pid, end, G)
         PROVE  R \subseteq G
    <2> DEFINE T == {n \in Nat : n <= m => f[n] \subseteq G}
    <2>1. 0 \in T
      BY <1>2, <1>10
    <2>2. ASSUME NEW n \in Nat, n \in T
          PROVE  n + 1 \in T
      <3> SUFFICES ASSUME n + 1 <= m
                   PROVE  f[n + 1] \subseteq G
        OBVIOUS
      <3>1. n + 1 \in 1 .. m /\ (n + 1) - 1 = n /\ n <= m
        BY <1>1
      <3>2. f[n + 1] = Spread(P, pid, end, f[n]) /\ f[n] \subseteq G
        BY <1>2, <2>2, <3>1
      <3> QED
        BY <1>10, <3>2 DEF Spread, ClosedUnder
    <2> HIDE DEF T
    <2>3. m \in T
      BY <1>1, <2>1, <2>2, Induction
    <2> QED
      BY <1>1, <1>2, <2>3 DEF T
  <1> QED
    BY <1>4, <1>5, <1>9, <1>10 DEF ClosedUnder, R

----------------------------------------------------------------------------
(* A segment that takes time, judged from a configuration: idle time is    *)
(* the wait of the transition system, any other a run of dispatches.       *)
Bars(P) == {x \in Lane(Pids(P)) : x.start < x.end}

LEMMA IdleStep ==
    ASSUME NEW P, ScheduleProblem(P), P.policy = "RR", NEW c, Legal(P, c), NEW seg \in Lane(Pids(P)), seg.pid = Idle
    PROVE  \A d : d \in StepRoundRobin(P, seg, c) <=> Emit(Idle, c, d) \in Successors(P, c) /\ Emit(Idle, c, d).seg = seg
  <1> DEFINE coming == {p \in Unfinished(c) : c.t < P.arrival[p] /\ P.arrival[p] <= seg.end}
  <1>1. /\ c.t \in Nat /\ seg.end \in Nat /\ seg = Segment(Idle, seg.start, seg.end) /\ Unfinished(c) \subseteq Procs(P)
        /\ Roster(Arrived(P, c), c.queue) /\ c \in States(P)
    BY DEF Legal, States, Lane, Segment, Unfinished
  <1>2. c.queue = <<>> <=> Arrived(P, c) = {}
    BY <1>1, RosterOfNone
  <1>3. IsFiniteSet(Unfinished(c)) /\ \A p \in Unfinished(c) : P.arrival[p] \in Nat
    BY <1>1, ProblemFacts, FS_Subset
  <1>4. ASSUME Unfinished(c) # {}, Arrived(P, c) = {}
        PROVE  /\ coming # {} /\ {P.arrival[p] : p \in coming} = {seg.end} <=> seg.end = Next(P, c)
               /\ seg.end = Next(P, c) => coming = Arriving(P, Unfinished(c), Next(P, c))
    <2>1. /\ Next(P, c) \in Nat /\ c.t < Next(P, c)
          /\ \A p \in Unfinished(c) : Next(P, c) <= P.arrival[p] /\ c.t < P.arrival[p]
      BY <1>4, WaitFacts
    <2>2. PICK f \in Unfinished(c) : P.arrival[f] = Next(P, c)
      BY <1>4, WaitFacts
    <2>3. ASSUME coming # {}, {P.arrival[p] : p \in coming} = {seg.end}
          PROVE  seg.end = Next(P, c)
      <3>1. PICK p \in coming : P.arrival[p] = seg.end
        BY <2>3
      <3>2. Next(P, c) <= seg.end
        BY <2>1, <3>1
      <3>3. f \in coming
        BY <2>1, <2>2, <3>2
      <3> QED
        BY <2>2, <2>3, <3>3
    <2>4. ASSUME seg.end = Next(P, c)
          PROVE  /\ coming # {} /\ {P.arrival[p] : p \in coming} = {seg.end}
                 /\ coming = Arriving(P, Unfinished(c), Next(P, c))
      <3>1. \A p \in Unfinished(c) : p \in coming <=> P.arrival[p] = Next(P, c)
        BY <1>3, <2>1, <2>4
      <3>2. coming = Arriving(P, Unfinished(c), Next(P, c))
        BY <3>1 DEF Arriving
      <3> QED
        BY <2>2, <2>4, <3>1, <3>2
    <2> QED
      BY <2>3, <2>4
  <1>5. IsFiniteSet(coming)
    BY <1>3, FS_Subset
  <1> HIDE DEF coming
  <1> SUFFICES ASSUME NEW d
               PROVE  d \in StepRoundRobin(P, seg, c) <=> Emit(Idle, c, d) \in Successors(P, c) /\ Emit(Idle, c, d).seg = seg
    OBVIOUS
  <1>6. d \in StepRoundRobin(P, seg, c) <=>
           /\ c.t = seg.start /\ c.queue = <<>> /\ coming # {} /\ {P.arrival[p] : p \in coming} = {seg.end}
           /\ \E q \in SetToSeqs(coming) : d = [t |-> seg.end, queue |-> q, rem |-> c.rem]
    BY DEF StepRoundRobin, coming
  <1>7. Emit(Idle, c, d) \in Successors(P, c) <=> Waits(P, c, Emit(Idle, c, d))
    <2>1. ~Rotates(P, c, Emit(Idle, c, d))
      <3> SUFFICES ASSUME Rotates(P, c, Emit(Idle, c, d))
                   PROVE  FALSE
        OBVIOUS
      <3>1. c.queue # <<>> /\ Idle = Head(c.queue)
        BY DEF Rotates, Emit, Segment
      <3>2. Head(c.queue) \in Arrived(P, c)
        BY <3>1, QuantumFacts
      <3> QED
        BY <1>1, <3>1, <3>2, ProblemFacts DEF Arrived
    <2> QED
      BY <2>1, RoundRobinSteps
  <1>8. ASSUME d \in StepRoundRobin(P, seg, c)
        PROVE  Waits(P, c, Emit(Idle, c, d)) /\ Emit(Idle, c, d).seg = seg
    <2>1. Unfinished(c) # {} /\ Arrived(P, c) = {}
      BY <1>2, <1>6, <1>8 DEF coming
    <2>2. seg.end = Next(P, c) /\ coming = Arriving(P, Unfinished(c), Next(P, c))
      BY <1>4, <1>6, <1>8, <2>1
    <2>3. PICK q \in SetToSeqs(coming) : d = [t |-> seg.end, queue |-> q, rem |-> c.rem]
      BY <1>6, <1>8
    <2>4. Roster(coming, q)
      BY <1>5, SeqsAreRosters
    <2>5. q \in Seq(Procs(P))
      <3>1. coming \subseteq Procs(P)
        BY <1>1 DEF coming
      <3> QED
        BY <2>4, <3>1, SeqMonotonic DEF Roster
    <2>6. d = Waited(P, c, q)
      BY <2>2, <2>3 DEF Waited
    <2>7. Waits(P, c, Emit(Idle, c, d))
      BY <2>1, <2>2, <2>4, <2>5, <2>6 DEF Waits
    <2>8. c.t = seg.start /\ d.t = seg.end
      BY <1>6, <1>8, <2>3
    <2> QED
      BY <1>1, <2>7, <2>8 DEF Emit
  <1>9. ASSUME Waits(P, c, Emit(Idle, c, d)), Emit(Idle, c, d).seg = seg
        PROVE  d \in StepRoundRobin(P, seg, c)
    <2>1. Unfinished(c) # {} /\ Arrived(P, c) = {}
      BY <1>9 DEF Waits
    <2>2. PICK q \in Seq(Procs(P)) : /\ Roster(Arriving(P, Unfinished(c), Next(P, c)), q)
                                     /\ Emit(Idle, c, d) = Emit(Idle, c, Waited(P, c, q))
      BY <1>9 DEF Waits
    <2>3. d = Waited(P, c, q) /\ c.t = seg.start /\ d.t = seg.end
      BY <1>9, <2>2 DEF Emit, Segment
    <2>4. seg.end = Next(P, c) /\ d = [t |-> seg.end, queue |-> q, rem |-> c.rem]
      BY <2>3 DEF Waited
    <2>5. coming # {} /\ {P.arrival[p] : p \in coming} = {seg.end} /\ coming = Arriving(P, Unfinished(c), Next(P, c))
      BY <1>4, <2>1, <2>4
    <2>6. q \in SetToSeqs(coming)
      BY <1>5, <2>2, <2>5, SeqsAreRosters
    <2> QED
      BY <1>2, <1>6, <2>1, <2>3, <2>4, <2>5, <2>6
  <1> QED
    BY <1>7, <1>8, <1>9

RunsOn(P, c, seg, d) == c.t = seg.start /\ d \in Reached(P, seg.pid, seg.end, c) /\ d.t = seg.end

LEMMA BusyStep ==
    ASSUME NEW P, NEW c, NEW seg, seg.pid # Idle
    PROVE  \A d : d \in StepRoundRobin(P, seg, c) <=> RunsOn(P, c, seg, d)
  BY DEF StepRoundRobin, RunsOn

Followed(P, configs, seg) == UNION {StepRoundRobin(P, seg, c) : c \in configs}

LEMMA FollowedLegal ==
    ASSUME NEW P, ScheduleProblem(P), P.policy = "RR", NEW v \in SUBSET Legals(P), NEW seg \in Bars(P)
    PROVE  Followed(P, v, seg) \in SUBSET Legals(P)
  <1> SUFFICES ASSUME NEW c \in v, NEW d \in StepRoundRobin(P, seg, c)
               PROVE  d \in Legals(P)
    BY DEF Followed
  <1>1. Legal(P, c) /\ c \in Legals(P) /\ seg \in Lane(Pids(P)) /\ seg.start < seg.end /\ seg.end \in Nat /\ c.t \in Nat
    BY DEF Legals, Bars, Lane, States
  <1>2. CASE seg.pid = Idle
    <2>1. Emit(Idle, c, d) \in Successors(P, c)
      BY <1>1, <1>2, IdleStep
    <2>2. Moves(P, c, Emit(Idle, c, d))
      BY <1>1, <2>1, StepFacts
    <2>3. Legal(P, d)
      BY <2>2 DEF Moves, Emit
    <2> QED
      BY <2>3 DEF Legal, Legals
  <1>3. CASE seg.pid # Idle
    <2>1. RunsOn(P, c, seg, d)
      BY <1>3, BusyStep
    <2>2. c.t <= seg.end
      BY <1>1, <2>1 DEF RunsOn, Bars, Lane
    <2>3. Reached(P, seg.pid, seg.end, c) \subseteq Legals(P)
      BY <1>1, <2>2, ReachedFacts
    <2> QED
      BY <2>1, <2>3 DEF RunsOn
  <1> QED
    BY <1>2, <1>3

----------------------------------------------------------------------------
(* The configurations consistent with a trace, segment after segment.      *)
IsConsistent(f, P, trace) ==
    f = [n \in 0 .. Len(trace) |-> IF n = 0 THEN InitialStates(P) ELSE Followed(P, f[n - 1], trace[n])]

LEMMA ConsistentTable ==
    ASSUME NEW P, ScheduleProblem(P), P.policy = "RR", NEW s \in Seq(Bars(P))
    PROVE  \E f \in [0 .. Len(s) -> SUBSET Legals(P)] :
              /\ f[0] = InitialStates(P) /\ \A n \in 1 .. Len(s) : f[n] = Followed(P, f[n - 1], s[n])
              /\ Consistent(P, s) = f[Len(s)]
  <1> DEFINE V == SUBSET Legals(P)
             m == Len(s)
             step == [x \in (1 .. m) \X V |-> Followed(P, x[2], s[x[1]])]
  <1>1. m \in Nat /\ InitialStates(P) \in V /\ \A i \in 1 .. m : s[i] \in Bars(P)
    <2>1. Len(s) \in Nat /\ \A i \in 1 .. Len(s) : s[i] \in Bars(P)
      OBVIOUS
    <2>2. \A c \in InitialStates(P) : c \in Legals(P)
      BY InitialFacts DEF Legals, Legal
    <2> QED
      BY <2>1, <2>2
  <1>2. ASSUME NEW n \in 1 .. m, NEW v \in V
        PROVE  step[<<n, v>>] = Followed(P, v, s[n]) /\ step[<<n, v>>] \in V
    <2>1. Followed(P, v, s[n]) \in V
      BY <1>1, FollowedLegal
    <2> QED
      BY <2>1
  <1> HIDE DEF step, m, V
  <1>3. PICK f \in [0 .. m -> V] : IsTable(f, m, InitialStates(P), step)
    BY <1>1, <1>2, TableExists
  <1>4. IsConsistent(f, P, s)
    <2>1. ASSUME NEW n \in 0 .. m
          PROVE  f[n] = IF n = 0 THEN InitialStates(P) ELSE Followed(P, f[n - 1], s[n])
      <3>1. n # 0 => n \in 1 .. m /\ n - 1 \in 0 .. m
        BY <1>1
      <3>2. n # 0 => f[n - 1] \in V
        BY <3>1
      <3>3. f[n] = IF n = 0 THEN InitialStates(P) ELSE step[<<n, f[n - 1]>>]
        BY <1>3 DEF IsTable
      <3> QED
        BY <1>2, <3>1, <3>2, <3>3
    <2>2. f = [n \in 0 .. m |-> f[n]]
      OBVIOUS
    <2> QED
      BY <2>1, <2>2 DEF IsConsistent, m
  <1> DEFINE g == CHOOSE g : IsConsistent(g, P, s)
  <1>5. IsConsistent(g, P, s)
    BY <1>4
  <1>6. Consistent(P, s) = g[m]
    BY DEF Consistent, IsConsistent, Followed, m
  <1> HIDE DEF g
  <1>7. g[0] = InitialStates(P) /\ f[0] = InitialStates(P) /\ \A n \in 1 .. m : g[n] = Followed(P, g[n - 1], s[n]) /\ f[n] = Followed(P, f[n - 1], s[n])
    <2>1. 0 \in 0 .. m /\ \A n \in 1 .. m : n \in 0 .. m /\ n # 0
      BY <1>1
    <2>2. \A n \in 0 .. m : g[n] = IF n = 0 THEN InitialStates(P) ELSE Followed(P, g[n - 1], s[n])
      BY <1>5 DEF IsConsistent, m
    <2>3. \A n \in 0 .. m : f[n] = IF n = 0 THEN InitialStates(P) ELSE Followed(P, f[n - 1], s[n])
      BY <1>4 DEF IsConsistent, m
    <2> QED
      BY <2>1, <2>2, <2>3
  <1>8. \A n \in 0 .. m : g[n] = f[n]
    <2>1. GoOnAlike(g, f, m)
      BY <1>7 DEF GoOnAlike
    <2>2. g[0] = f[0] /\ m \in Nat
      BY <1>1, <1>7
    <2> QED
      BY <2>1, <2>2, TablesAlike
  <1>9. Consistent(P, s) = f[m]
    BY <1>1, <1>6, <1>8
  <1> QED
    BY <1>7, <1>9 DEF m, V

LEMMA ConsistentStep ==
    ASSUME NEW P, ScheduleProblem(P), P.policy = "RR", NEW s \in Seq(Bars(P)), NEW x \in Bars(P)
    PROVE  /\ Consistent(P, <<>>) = InitialStates(P) /\ Consistent(P, s) \in SUBSET Legals(P)
           /\ Consistent(P, Append(s, x)) = Followed(P, Consistent(P, s), x)
  <1>1. /\ <<>> \in Seq(Bars(P)) /\ Len(<<>>) = 0
        /\ Append(s, x) \in Seq(Bars(P)) /\ Len(s) \in Nat /\ Len(Append(s, x)) = Len(s) + 1
        /\ Append(s, x)[Len(s) + 1] = x /\ \A i \in 1 .. Len(s) : Append(s, x)[i] = s[i]
    BY EmptySeq, AppendFacts
  <1>2. Consistent(P, <<>>) = InitialStates(P)
    BY <1>1, ConsistentTable
  <1>3. PICK f \in [0 .. Len(s) -> SUBSET Legals(P)] :
              /\ f[0] = InitialStates(P) /\ \A n \in 1 .. Len(s) : f[n] = Followed(P, f[n - 1], s[n])
              /\ Consistent(P, s) = f[Len(s)]
    BY ConsistentTable
  <1>4. PICK g \in [0 .. Len(s) + 1 -> SUBSET Legals(P)] :
              /\ g[0] = InitialStates(P) /\ \A n \in 1 .. Len(s) + 1 : g[n] = Followed(P, g[n - 1], Append(s, x)[n])
              /\ Consistent(P, Append(s, x)) = g[Len(s) + 1]
    <2> DEFINE r == Append(s, x)
    <2>1. r \in Seq(Bars(P)) /\ Len(r) = Len(s) + 1
      BY <1>1
    <2> HIDE DEF r
    <2>2. \E g \in [0 .. Len(r) -> SUBSET Legals(P)] :
              /\ g[0] = InitialStates(P) /\ \A n \in 1 .. Len(r) : g[n] = Followed(P, g[n - 1], r[n])
              /\ Consistent(P, r) = g[Len(r)]
      BY <2>1, ConsistentTable
    <2> QED
      BY <2>1, <2>2 DEF r
  <1>5. ASSUME NEW n \in 1 .. Len(s), f[n - 1] = g[n - 1]
        PROVE  f[n] = g[n]
    <2>1. n \in 1 .. Len(s) + 1
      BY <1>1
    <2> QED
      BY <1>1, <1>3, <1>4, <1>5, <2>1
  <1>6. \A n \in 0 .. Len(s) : f[n] = g[n]
    <2>1. f[0] = g[0] /\ Len(s) \in Nat
      BY <1>1, <1>3, <1>4
    <2>2. GoOnAlike(f, g, Len(s))
      BY <1>5 DEF GoOnAlike
    <2> QED
      BY <2>1, <2>2, TablesAlike
  <1>7. Len(s) + 1 \in 1 .. Len(s) + 1 /\ (Len(s) + 1) - 1 = Len(s) /\ Len(s) \in 0 .. Len(s)
    BY <1>1
  <1>8. g[Len(s) + 1] = Followed(P, g[Len(s)], x)
    BY <1>1, <1>4, <1>7
  <1>9. f[Len(s)] = g[Len(s)] /\ f[Len(s)] \in SUBSET Legals(P)
    BY <1>3, <1>6, <1>7
  <1> QED
    BY <1>2, <1>3, <1>4, <1>8, <1>9

----------------------------------------------------------------------------
(* A dispatch is a step of the transition system, whatever the end of the  *)
(* segment it is to fill.                                                  *)
LEMMA DispatchOwn ==
    ASSUME NEW P, ScheduleProblem(P), P.policy = "RR", NEW c, Legal(P, c), NEW pid, NEW end,
           NEW d, d \in Dispatches(P, pid, end, c)
    PROVE  /\ c.queue # <<>> /\ pid = Head(c.queue) /\ d.t = c.t + Quantum(P, c) /\ c.t < d.t
           /\ d.t \in Nat /\ c.t \in Nat /\ Quantum(P, c) \in Nat
           /\ d \in Dispatches(P, pid, c.t + Quantum(P, c), c)
  <1> DEFINE run == Min({P.quantum, c.rem[pid]})
             stop == c.t + run
             left == [c.rem EXCEPT ![pid] = @ - run]
             own == c.t + Quantum(P, c)
  <1>1. Leads(P, pid, end, c, run, stop, left, d)
    <2>1. run = Min({P.quantum, c.rem[pid]}) /\ stop = c.t + run /\ left = [c.rem EXCEPT ![pid] = @ - run]
      OBVIOUS
    <2> HIDE DEF run, stop, left
    <2> QED
      BY <2>1, DispatchForm
  <1>2. c.queue # <<>> /\ Head(c.queue) = pid
    BY <1>1 DEF Leads
  <1>3. run = Quantum(P, c) /\ stop = own
    BY <1>2 DEF Quantum
  <1>4. Quantum(P, c) \in Nat /\ Quantum(P, c) > 0 /\ c.t \in Nat
    BY <1>2, QuantumFacts DEF Legal, States
  <1>5. d.t = stop
    BY <1>1 DEF Leads
  <1>6. Leads(P, pid, own, c, run, stop, left, d)
    <2>1. ~(c.t >= own) /\ ~(stop > own)
      BY <1>3, <1>4
    <2> HIDE DEF run, stop, left, own
    <2> QED
      BY <1>1, <2>1 DEF Leads
  <1>7. d \in Dispatches(P, pid, own, c)
    <2>1. run = Min({P.quantum, c.rem[pid]}) /\ stop = c.t + run /\ left = [c.rem EXCEPT ![pid] = @ - run]
      OBVIOUS
    <2> HIDE DEF run, stop, left
    <2> QED
      BY <1>6, <2>1, DispatchForm
  <1> HIDE DEF run, left
  <1> QED
    BY <1>2, <1>3, <1>4, <1>5, <1>7

LEMMA DispatchSteps ==
    ASSUME NEW P, ScheduleProblem(P), P.policy = "RR", NEW c, Legal(P, c), NEW pid, NEW end,
           NEW d, d \in Dispatches(P, pid, end, c)
    PROVE  Emit(pid, c, d) \in Successors(P, c)
  <1>1. Rotates(P, c, Emit(pid, c, d))
    BY DispatchOwn DEF Rotates
  <1> QED
    BY <1>1, RoundRobinSteps

LEMMA DispatchToAny ==
    ASSUME NEW P, ScheduleProblem(P), P.policy = "RR", NEW c, Legal(P, c), NEW pid, NEW end,
           NEW d, d \in Dispatches(P, pid, end, c), NEW wider \in Nat, d.t <= wider
    PROVE  d \in Dispatches(P, pid, wider, c)
  <1> DEFINE own == c.t + Quantum(P, c)
  <1>1. /\ pid = Head(c.queue) /\ own \in Nat /\ own <= wider /\ c.t \in Nat /\ Quantum(P, c) \in Nat
        /\ d \in Dispatches(P, pid, own, c)
    BY DispatchOwn
  <1>2. Min({P.quantum, c.rem[pid]}) \in Nat
    BY <1>1 DEF Quantum
  <1> HIDE DEF own
  <1>3. Dispatches(P, pid, own, c) \subseteq Dispatches(P, pid, wider, c)
    BY <1>1, <1>2, DispatchWider
  <1> QED
    BY <1>1, <1>3

LEMMA JoinedApart ==
    ASSUME NEW T, NEW s \in Seq(Lane(T)), NEW x \in Lane(T), s # <<>> => s[Len(s)].pid # x.pid
    PROVE  Joined(s, x) = Append(s, x)
  BY DEF Joined, Last

LEMMA JoinedLast ==
    ASSUME NEW T, NEW s, Tidy(T, s), NEW x \in Lane(T), x.start = EndOf(s), x.start < x.end
    PROVE  Joined(s, x) # <<>> /\ Joined(s, x)[Len(Joined(s, x))].pid = x.pid
  <1>1. s \in Seq(Lane(T)) /\ x.start \in Nat /\ x.end \in Nat /\ x.pid \in T
    BY DEF Tidy, Gapless, Lane
  <1>2. CASE s = <<>> \/ s[Len(s)].pid # x.pid
    <2>1. Joined(s, x) = Append(s, x)
      BY <1>1, <1>2, JoinedApart
    <2> QED
      BY <1>1, <2>1, AppendFacts
  <1>3. CASE s # <<>> /\ s[Len(s)].pid = x.pid
    <2>1. PICK r \in Seq(Lane(T)), y \in Lane(T) : s = Append(r, y)
      BY <1>1, <1>3, SequenceEmptyOrAppend
    <2>2. EndOf(s) = y.end /\ s[Len(s)] = y /\ y.start \in Nat
      <3>1. y.start \in Nat
        BY DEF Lane
      <3>2. Len(s) = Len(r) + 1
        BY <2>1, AppendFacts
      <3> QED
        BY <2>1, <3>1, <3>2, EndOfAppend, AppendFacts
    <2> DEFINE z == Segment(x.pid, y.start, x.end)
    <2>3. Joined(s, x) = Append(r, z)
      BY <1>3, <2>1, <2>2, JoinedAppend
    <2>4. z \in Lane(T) /\ z.pid = x.pid
      BY <1>1, <2>2 DEF Segment, Lane
    <2> HIDE DEF z
    <2> QED
      BY <2>1, <2>3, <2>4, AppendFacts
  <1> QED
    BY <1>2, <1>3

----------------------------------------------------------------------------
(* What is consistent with a trace is where the runs end whose trace it is.*)
EndsIn(P, m, c) == \E r \in RunsOf(P) : EndState(r) = c /\ Merged(r.segs) = m

LEMMA RunGoesOn ==
    ASSUME NEW P, ScheduleProblem(P), NEW m, NEW c, EndsIn(P, m, c), NEW x \in Successors(P, c)
    PROVE  EndsIn(P, Joined(m, x.seg), x.state) /\ x.seg \in Lane(Pids(P))
  <1>1. PICK r \in RunsOf(P) : EndState(r) = c /\ Merged(r.segs) = m
    BY DEF EndsIn
  <1>2. Sound(P, r) /\ x \in Successors(P, EndState(r))
    BY <1>1, RunFacts
  <1>3. /\ EndState(Onward(r, x)) = x.state /\ Onward(r, x).segs = Append(r.segs, x.seg)
        /\ x.seg \in Lane(Pids(P))
    BY <1>2, OnwardSound
  <1>4. Onward(r, x) \in RunsOf(P)
    BY <1>2, RunFacts DEF GoesWith
  <1>5. r.segs \in Seq(Lane(Pids(P)))
    BY <1>2 DEF Sound, Histories
  <1>6. Merged(Onward(r, x).segs) = Joined(m, x.seg)
    BY <1>1, <1>3, <1>5, MergedStep
  <1> QED
    BY <1>3, <1>4, <1>6 DEF EndsIn

LEMMA DispatchesGoOn ==
    ASSUME NEW P, ScheduleProblem(P), P.policy = "RR", NEW s \in Seq(Lane(Pids(P))),
           NEW pid \in Procs(P), s # <<>> => s[Len(s)].pid # pid,
           NEW c, Legal(P, c), EndsIn(P, s, c), NEW end \in Nat, c.t <= end,
           NEW d \in Reached(P, pid, end, c), c.t < d.t
    PROVE  EndsIn(P, Append(s, Segment(pid, c.t, d.t)), d)
  <1> DEFINE So(g) == Append(s, Segment(pid, c.t, g.t))
             G == {g \in Legals(P) : c.t <= g.t /\ (g = c \/ EndsIn(P, So(g), g))}
  <1>1. c \in Legals(P) /\ c.t \in Nat /\ pid \in Pids(P)
    BY DEF Legals, Legal, States, Pids
  <1>2. c \in G /\ \A g \in Legals(P) : c.t <= g.t /\ EndsIn(P, So(g), g) => g \in G
    BY <1>1
  <1>3. ASSUME NEW g \in G, NEW f \in Dispatches(P, pid, end, g)
        PROVE  f \in G
    <2>1. Legal(P, g) /\ g.t \in Nat /\ c.t <= g.t
      BY DEF Legals, States
    <2>2. Legal(P, f) /\ g.t < f.t
      BY <2>1, DispatchFacts
    <2>3. f \in Legals(P) /\ f.t \in Nat
      BY <2>2 DEF Legals, Legal, States
    <2>4. Emit(pid, g, f) \in Successors(P, g)
      BY <2>1, DispatchSteps
    <2> DEFINE seg == Segment(pid, g.t, f.t)
    <2>5. Emit(pid, g, f).seg = seg /\ Emit(pid, g, f).state = f
      BY DEF Emit
    <2>6. /\ seg \in Lane(Pids(P)) /\ seg.pid = pid /\ seg.start = g.t /\ seg.end = f.t
          /\ f.t \in Nat
      BY <1>1, <2>1, <2>3 DEF Segment, Lane
    <2>a. c.t <= f.t
      BY <1>1, <2>1, <2>2, <2>3
    <2>7. CASE g = c
      <3>1. EndsIn(P, Joined(s, seg), f)
        BY <2>4, <2>5, <2>7, RunGoesOn
      <3>2. Joined(s, seg) = So(f)
        BY <2>6, <2>7, JoinedApart
      <3>3. EndsIn(P, So(f), f)
        BY <3>1, <3>2
      <3> HIDE DEF G, So
      <3> QED
        BY <1>2, <2>3, <2>a, <3>3
    <2>8. CASE g # c
      <3>1. EndsIn(P, So(g), g)
        BY <2>8
      <3>2. EndsIn(P, Joined(So(g), seg), f)
        BY <2>4, <2>5, <3>1, RunGoesOn
      <3> DEFINE y == Segment(pid, c.t, g.t)
      <3>3. y \in Lane(Pids(P)) /\ y.pid = pid /\ y.start = c.t /\ y.end = g.t
        BY <1>1, <2>1 DEF Segment, Lane
      <3> HIDE DEF y, seg
      <3>4. Joined(Append(s, y), seg) = Append(s, Segment(seg.pid, y.start, seg.end))
        BY <2>6, <3>3, JoinedAppend
      <3>5. Joined(So(g), seg) = So(f)
        BY <2>6, <3>3, <3>4 DEF y
      <3>6. EndsIn(P, So(f), f)
        BY <3>2, <3>5
      <3> HIDE DEF G, So
      <3> QED
        BY <1>2, <2>3, <2>a, <3>6
    <2> QED
      BY <2>7, <2>8
  <1>4. ClosedUnder(P, pid, end, G) /\ G \in SUBSET Legals(P)
    BY <1>3 DEF ClosedUnder
  <1> HIDE DEF G
  <1>5. Reached(P, pid, end, c) \subseteq G
    BY <1>1, <1>2, <1>4, ReachedFacts
  <1>6. d # c /\ d \in G
    BY <1>1, <1>5
  <1> QED
    BY <1>6 DEF G

LEMMA ConsistentEnds ==
    ASSUME NEW P, ScheduleProblem(P), P.policy = "RR", NEW m, Tidy(Pids(P), m)
    PROVE  \A c \in Consistent(P, m) : EndsIn(P, m, c)
  <1> DEFINE T == Pids(P)
             G == {s \in Seq(Bars(P)) : Tidy(T, s) => \A c \in Consistent(P, s) : EndsIn(P, s, c)}
  <1>1. <<>> \in G
    <2>1. <<>> \in Seq(Bars(P)) /\ Segment(Idle, 0, 1) \in Bars(P) /\ <<>> \in Seq(Lane(T)) /\ Segment(Idle, 0, 1) \in Lane(T)
      BY EmptySeq DEF Segment, Bars, Lane, Pids
    <2>2. Consistent(P, <<>>) = InitialStates(P) /\ Merged(<<>>) = <<>>
      BY <2>1, ConsistentStep, MergedStep
    <2>3. ASSUME NEW c \in InitialStates(P)
          PROVE  EndsIn(P, <<>>, c)
      <3>1. Started(c) \in RunsOf(P) /\ EndState(Started(c)) = c /\ Started(c).segs = <<>>
        BY StartedSound, RunFacts DEF GoesWith
      <3> QED
        BY <2>2, <3>1 DEF EndsIn
    <2> QED
      BY <2>1, <2>2, <2>3
  <1>2. ASSUME NEW s \in Seq(Bars(P)), NEW x \in Bars(P), s \in G
        PROVE  Append(s, x) \in G
    <2>0. Append(s, x) \in Seq(Bars(P)) /\ s \in Seq(Lane(T)) /\ x \in Lane(T) /\ x.start < x.end
      <3>1. Bars(P) \subseteq Lane(T)
        BY DEF Bars
      <3> QED
        BY <3>1, AppendFacts, SeqMonotonic DEF Bars
    <2> SUFFICES ASSUME Tidy(T, Append(s, x)), NEW d \in Consistent(P, Append(s, x))
                 PROVE  EndsIn(P, Append(s, x), d)
      BY <2>0
    <2>1. Tidy(T, s) /\ (s # <<>> => s[Len(s)].pid # x.pid)
      BY <2>0, TidyAppend
    <2>2. Consistent(P, Append(s, x)) = Followed(P, Consistent(P, s), x) /\ Consistent(P, s) \in SUBSET Legals(P)
      BY ConsistentStep
    <2>3. PICK c \in Consistent(P, s) : d \in StepRoundRobin(P, x, c)
      BY <2>2 DEF Followed
    <2>4. Legal(P, c) /\ EndsIn(P, s, c)
      BY <1>2, <2>1, <2>2 DEF Legals
    <2>5. CASE x.pid = Idle
      <3>1. Emit(Idle, c, d) \in Successors(P, c) /\ Emit(Idle, c, d).seg = x
        BY <2>0, <2>3, <2>4, <2>5, IdleStep
      <3>2. Emit(Idle, c, d).state = d
        BY DEF Emit
      <3>3. EndsIn(P, Joined(s, x), d)
        BY <2>4, <3>1, <3>2, RunGoesOn
      <3>4. Joined(s, x) = Append(s, x)
        BY <2>0, <2>1, JoinedApart
      <3> QED
        BY <3>3, <3>4
    <2>6. CASE x.pid # Idle
      <3>1. c.t = x.start /\ d \in Reached(P, x.pid, x.end, c) /\ d.t = x.end
        BY <2>3, <2>6, BusyStep DEF RunsOn
      <3>2. x.pid \in Procs(P) /\ x.end \in Nat /\ c.t <= x.end /\ c.t < d.t
        BY <2>0, <2>6, <3>1 DEF Lane, Pids
      <3>3. EndsIn(P, Append(s, Segment(x.pid, c.t, d.t)), d)
        BY <2>0, <2>1, <2>4, <3>1, <3>2, DispatchesGoOn
      <3>4. x = Segment(x.pid, c.t, d.t)
        BY <2>0, <3>1 DEF Lane, Segment
      <3> QED
        BY <3>3, <3>4
    <2> QED
      BY <2>5, <2>6
  <1> HIDE DEF G
  <1>3. Seq(Bars(P)) \subseteq G
    BY <1>1, <1>2, SeqInduction
  <1>4. m \in Seq(Bars(P))
    BY DEF Tidy, Gapless, Bars
  <1> QED
    BY <1>3, <1>4 DEF G

(* Of a run: its last state is consistent with its normal trace, and both   *)
(* end with the same process.                                               *)
Keeps(P, r) ==
    /\ EndState(r) \in Consistent(P, Merged(r.segs))
    /\ r.segs # <<>> => Merged(r.segs)[Len(Merged(r.segs))].pid = r.segs[Len(r.segs)].pid

(* A dispatch that prolongs a segment, and one that begins one.            *)
LEMMA ProlongedSegment ==
    ASSUME NEW P, ScheduleProblem(P), P.policy = "RR", NEW s \in Seq(Bars(P)), NEW x \in Bars(P), x.pid # Idle,
           NEW c \in Consistent(P, Append(s, x)), NEW end, NEW d \in Dispatches(P, x.pid, end, c)
    PROVE  d \in Consistent(P, Append(s, Segment(x.pid, x.start, d.t)))
  <1>1. /\ x.start \in Nat /\ x.end \in Nat /\ x.pid \in Pids(P) /\ x.start < x.end
    BY DEF Bars, Lane
  <1>2. Consistent(P, Append(s, x)) = Followed(P, Consistent(P, s), x) /\ Consistent(P, s) \in SUBSET Legals(P)
    BY ConsistentStep
  <1>3. PICK b \in Consistent(P, s) : c \in StepRoundRobin(P, x, b)
    BY <1>2 DEF Followed
  <1>4. b.t = x.start /\ c \in Reached(P, x.pid, x.end, b) /\ c.t = x.end
    BY <1>3, BusyStep DEF RunsOn
  <1>5. b \in Legals(P) /\ b.t <= x.end
    BY <1>1, <1>2, <1>4
  <1>6. Reached(P, x.pid, x.end, b) \subseteq Legals(P)
    BY <1>1, <1>5, ReachedFacts
  <1>7. Legal(P, c)
    BY <1>4, <1>6 DEF Legals
  <1>8. d.t \in Nat /\ c.t < d.t
    BY <1>7, DispatchOwn
  <1> DEFINE R == Reached(P, x.pid, d.t, b)
  <1>9. x.end <= d.t /\ b.t <= d.t
    BY <1>1, <1>4, <1>5, <1>8
  <1>10. b \in R /\ R \subseteq Legals(P) /\ ClosedUnder(P, x.pid, d.t, R)
    BY <1>5, <1>8, <1>9, ReachedFacts
  <1> HIDE DEF R
  <1>11. ClosedUnder(P, x.pid, x.end, R)
    <2> SUFFICES ASSUME NEW g \in R, NEW f \in Dispatches(P, x.pid, x.end, g)
                 PROVE  f \in R
      BY DEF ClosedUnder
    <2>1. Legal(P, g)
      BY <1>10 DEF Legals
    <2>2. f.t \in Nat /\ f.t <= x.end
      BY <1>1, <2>1, DispatchFacts, DispatchOwn
    <2>3. f.t <= d.t
      BY <1>1, <1>8, <1>9, <2>2
    <2>4. f \in Dispatches(P, x.pid, d.t, g)
      BY <1>8, <2>1, <2>3, DispatchToAny
    <2> QED
      BY <1>10, <2>4 DEF ClosedUnder
  <1>12. c \in R
    BY <1>1, <1>4, <1>5, <1>10, <1>11, ReachedFacts
  <1>13. d \in R
    <2>1. d \in Dispatches(P, x.pid, d.t, c)
      BY <1>7, <1>8, DispatchToAny
    <2> QED
      BY <1>10, <1>12, <2>1 DEF ClosedUnder
  <1> DEFINE y == Segment(x.pid, x.start, d.t)
  <1>14. y \in Bars(P) /\ y.pid = x.pid /\ y.start = x.start /\ y.end = d.t
    BY <1>1, <1>4, <1>8 DEF Segment, Bars, Lane
  <1> HIDE DEF y
  <1>15. RunsOn(P, b, y, d)
    BY <1>4, <1>13, <1>14 DEF RunsOn, R
  <1>16. d \in StepRoundRobin(P, y, b)
    BY <1>14, <1>15, BusyStep
  <1>17. d \in Consistent(P, Append(s, y))
    <2>1. Consistent(P, Append(s, y)) = Followed(P, Consistent(P, s), y)
      BY <1>14, ConsistentStep
    <2> QED
      BY <1>16, <2>1 DEF Followed
  <1> QED
    BY <1>17 DEF y

LEMMA BegunSegment ==
    ASSUME NEW P, ScheduleProblem(P), P.policy = "RR", NEW s \in Seq(Bars(P)), NEW c \in Consistent(P, s),
           NEW x \in Successors(P, c), x.seg \in Bars(P)
    PROVE  x.state \in Consistent(P, Append(s, x.seg))
  <1>1. /\ Consistent(P, Append(s, x.seg)) = Followed(P, Consistent(P, s), x.seg)
        /\ Consistent(P, s) \in SUBSET Legals(P)
    BY ConsistentStep
  <1>2. Legal(P, c) /\ c \in Legals(P) /\ x.seg \in Lane(Pids(P)) /\ c.t \in Nat
    BY <1>1 DEF Legals, Bars, States
  <1>3. Moves(P, c, x)
    BY <1>2, StepFacts
  <1>4. /\ x = Emit(x.seg.pid, c, x.state) /\ x.seg.start = c.t /\ x.seg.end = x.state.t
        /\ c.t < x.state.t /\ x.state.t \in Nat
    BY <1>3 DEF Moves, Emit, Segment, Legal, States
  <1>5. CASE x.seg.pid = Idle
    <2>1. Emit(Idle, c, x.state) \in Successors(P, c) /\ Emit(Idle, c, x.state).seg = x.seg
      BY <1>4, <1>5
    <2> DEFINE seg == x.seg
               d == x.state
    <2>2. seg \in Lane(Pids(P)) /\ seg.pid = Idle /\ Emit(Idle, c, d) \in Successors(P, c) /\ Emit(Idle, c, d).seg = seg
      BY <1>2, <1>5, <2>1
    <2> HIDE DEF seg, d
    <2>3. d \in StepRoundRobin(P, seg, c)
      BY <1>2, <2>2, IdleStep
    <2> QED
      BY <1>1, <2>3 DEF Followed, seg, d
  <1>6. CASE x.seg.pid # Idle
    <2>1. Rotates(P, c, x)
      BY <1>2, <1>3, <1>6, RoundRobinSteps DEF Moves
    <2>2. PICK d \in Dispatches(P, Head(c.queue), c.t + Quantum(P, c), c) : x = Emit(Head(c.queue), c, d)
      BY <2>1 DEF Rotates
    <2> DEFINE pid == x.seg.pid
    <2>3. d = x.state /\ pid = Head(c.queue)
      BY <2>2 DEF Emit, Segment
    <2>4. d \in Dispatches(P, pid, d.t, c)
      BY <1>2, <1>4, <2>2, <2>3, DispatchToAny
    <2>5. /\ c \in Reached(P, pid, d.t, c)
          /\ ClosedUnder(P, pid, d.t, Reached(P, pid, d.t, c))
      <3>1. d.t \in Nat /\ c.t <= d.t
        BY <1>2, <1>4, <2>3
      <3> HIDE DEF pid
      <3> QED
        BY <1>2, <3>1, ReachedFacts
    <2>6. d \in Reached(P, pid, d.t, c)
      BY <2>4, <2>5 DEF ClosedUnder
    <2>7. RunsOn(P, c, x.seg, d)
      BY <1>4, <2>3, <2>6 DEF RunsOn
    <2>8. d \in StepRoundRobin(P, x.seg, c)
      BY <1>6, <2>7, BusyStep
    <2> QED
      BY <1>1, <2>3, <2>8 DEF Followed
  <1> QED
    BY <1>5, <1>6

(* Where a run ends is consistent with its trace.                           *)
LEMMA RunsKeep ==
    ASSUME NEW P, ScheduleProblem(P), P.policy = "RR"
    PROVE  \A r \in RunsOf(P) : Keeps(P, r)
  <1> DEFINE T == Pids(P)
             G == {r \in RunsOf(P) : Keeps(P, r)}
  <1>1. ASSUME NEW s \in InitialStates(P)
        PROVE  Started(s) \in G
    <2>1. Started(s) \in RunsOf(P) /\ EndState(Started(s)) = s /\ Started(s).segs = <<>>
      BY StartedSound, RunFacts DEF GoesWith
    <2>2. <<>> \in Seq(Bars(P)) /\ Segment(Idle, 0, 1) \in Bars(P) /\ <<>> \in Seq(Lane(T)) /\ Segment(Idle, 0, 1) \in Lane(T)
      BY EmptySeq DEF Segment, Bars, Lane, Pids
    <2>3. Consistent(P, <<>>) = InitialStates(P) /\ Merged(<<>>) = <<>>
      BY <2>2, ConsistentStep, MergedStep
    <2> QED
      BY <2>1, <2>3 DEF Keeps
  <1>2. ASSUME NEW r \in RunsOf(P), NEW x \in Successors(P, EndState(r)), r \in G
        PROVE  Onward(r, x) \in G
    <2> DEFINE o == Onward(r, x)
               c == EndState(r)
               M == Merged(r.segs)
               seg == x.seg
    <2>1. Sound(P, r) /\ o \in RunsOf(P)
      BY RunFacts DEF GoesWith
    <2>2. /\ Keeps(P, r) /\ Legal(P, c) /\ r.segs \in Seq(Lane(T)) /\ Gapless(T, r.segs) /\ EndOf(r.segs) = c.t
          /\ c.t \in Nat
      BY <1>2, <2>1 DEF Sound, Histories, Legal, States
    <2>3. /\ EndState(o) = x.state /\ o.segs = Append(r.segs, x.seg)
          /\ seg \in Lane(T) /\ x.seg = Segment(x.seg.pid, c.t, x.state.t) /\ Moves(P, c, x)
          /\ r.segs # <<>> /\ r.segs[Len(r.segs)].pid = Idle => x.seg.pid # Idle
      BY <2>1, OnwardSound
    <2>4. seg.start = c.t /\ seg.end = x.state.t /\ seg.start < seg.end /\ seg \in Bars(P)
      BY <2>3 DEF Moves, Segment, Bars
    <2>5. Tidy(T, M) /\ EndOf(M) = c.t /\ M \in Seq(Lane(T)) /\ M \in Seq(Bars(P))
      <3>1. Tidy(T, M) /\ EndOf(M) = c.t
        BY <2>2, MergedTidy
      <3> QED
        BY <3>1 DEF Tidy, Gapless, Bars
    <2>6. Merged(o.segs) = Joined(M, seg)
      BY <2>2, <2>3, MergedStep
    <2>7. Merged(o.segs)[Len(Merged(o.segs))].pid = o.segs[Len(o.segs)].pid
      <3>1. Joined(M, seg)[Len(Joined(M, seg))].pid = seg.pid
        BY <2>3, <2>4, <2>5, JoinedLast
      <3>2. o.segs[Len(o.segs)] = seg
        BY <2>2, <2>3, AppendFacts
      <3> QED
        BY <2>6, <3>1, <3>2
    <2>8. c \in Consistent(P, M) /\ (r.segs # <<>> => M[Len(M)].pid = r.segs[Len(r.segs)].pid)
      BY <2>2 DEF Keeps
    <2>9. r.segs = <<>> => M = <<>>
      <3>1. Merged(<<>>) = <<>>
        BY <2>3, EmptySeq, MergedStep
      <3> QED
        BY <3>1
    <2>b. x \in Successors(P, c)
      OBVIOUS
    <2> HIDE DEF o, c, M, seg
    <2>10. x.state \in Consistent(P, Joined(M, seg))
      <3>1. CASE M = <<>> \/ M[Len(M)].pid # seg.pid
        <4>1. Joined(M, seg) = Append(M, seg)
          BY <2>3, <2>5, <3>1, JoinedApart
        <4>2. x.state \in Consistent(P, Append(M, x.seg))
          BY <2>4, <2>5, <2>8, <2>b, BegunSegment DEF seg
        <4> QED
          BY <4>1, <4>2 DEF seg
      <3>2. CASE M # <<>> /\ M[Len(M)].pid = seg.pid
        <4>1. seg.pid # Idle
          BY <2>3, <2>8, <2>9, <3>2 DEF seg
        <4>2. PICK s \in Seq(Bars(P)), y \in Bars(P) : M = Append(s, y)
          BY <2>5, <3>2, SequenceEmptyOrAppend
        <4>3. M[Len(M)] = y /\ EndOf(M) = y.end
          <5>1. Len(M) = Len(s) + 1 /\ M[Len(s) + 1] = y
            BY <4>2, AppendFacts
          <5> QED
            BY <4>2, <5>1, EndOfAppend
        <4>4. s \in Seq(Lane(T)) /\ y \in Lane(T)
          <5>1. Bars(P) \subseteq Lane(T)
            BY DEF Bars
          <5> QED
            BY <5>1, SeqMonotonic
        <4>5. Joined(M, seg) = Append(s, Segment(y.pid, y.start, seg.end))
          BY <2>3, <2>4, <2>5, <3>2, <4>2, <4>3, <4>4, JoinedAppend
        <4>6. Rotates(P, c, x)
          BY <2>2, <2>3, <2>b, <4>1, RoundRobinSteps DEF Moves, seg
        <4>7. PICK d \in Dispatches(P, Head(c.queue), c.t + Quantum(P, c), c) : x = Emit(Head(c.queue), c, d)
          BY <4>6 DEF Rotates
        <4>8. x.state = d /\ Head(c.queue) = y.pid
          BY <3>2, <4>3, <4>7 DEF Emit, Segment, seg
        <4>9. d \in Consistent(P, Append(s, Segment(y.pid, y.start, d.t)))
          <5>1. d \in Dispatches(P, y.pid, c.t + Quantum(P, c), c) /\ c \in Consistent(P, Append(s, y)) /\ y.pid # Idle
            BY <2>8, <3>2, <4>1, <4>2, <4>3, <4>7, <4>8
          <5> QED
            BY <5>1, ProlongedSegment
        <4> QED
          BY <2>4, <4>5, <4>8, <4>9
      <3> QED
        BY <3>1, <3>2
    <2>11. Keeps(P, o)
      BY <2>3, <2>6, <2>7, <2>10 DEF Keeps
    <2> QED
      BY <2>1, <2>11 DEF o
  <1> HIDE DEF G
  <1>3. RunsOf(P) \subseteq G
    BY <1>1, <1>2, RunInduction
  <1> QED
    BY <1>3 DEF G

(* The judge of round robin accepts a normal trace if and only if a run    *)
(* has it.                                                                 *)
LEMMA RoundRobinAgree ==
    ASSUME NEW P, ScheduleProblem(P), P.policy = "RR", NEW m, Tidy(Pids(P), m)
    PROVE  JudgeRoundRobin(P, m) = "ok" <=> \E r \in Paths(P) : Normalize(r.segs) = m
  <1>1. JudgeRoundRobin(P, m) = "ok" <=> \E c \in Consistent(P, m) : Unfinished(c) = {}
    BY DEF JudgeRoundRobin
  <1>2. \A r \in RunsOf(P) : Normalize(r.segs) = Merged(r.segs) /\ EndState(r) \in Consistent(P, Merged(r.segs))
    <2> SUFFICES ASSUME NEW r \in RunsOf(P)
                 PROVE  Normalize(r.segs) = Merged(r.segs) /\ EndState(r) \in Consistent(P, Merged(r.segs))
      OBVIOUS
    <2>1. Keeps(P, r) /\ Gapless(Pids(P), r.segs)
      BY RunsKeep, RunFacts DEF Sound
    <2> QED
      BY <2>1, NormalizeGapless DEF Keeps
  <1>3. ASSUME NEW c \in Consistent(P, m), Unfinished(c) = {}
        PROVE  \E r \in Paths(P) : Normalize(r.segs) = m
    <2>1. PICK r \in RunsOf(P) : EndState(r) = c /\ Merged(r.segs) = m
      BY ConsistentEnds DEF EndsIn
    <2>2. r \in Paths(P)
      BY <1>3, <2>1, PathFacts
    <2> QED
      BY <1>2, <2>1, <2>2
  <1>4. ASSUME NEW r \in Paths(P), Normalize(r.segs) = m
        PROVE  \E c \in Consistent(P, m) : Unfinished(c) = {}
    <2>1. r \in RunsOf(P) /\ Unfinished(EndState(r)) = {}
      BY PathFacts
    <2> QED
      BY <1>2, <1>4, <2>1
  <1> QED
    BY <1>1, <1>3, <1>4

(* Of a trace without gaps: the judge says ok if and only if it is, once   *)
(* normal, one of the space.                                               *)
LEMMA JudgeIsSpace ==
    ASSUME NEW P, ScheduleProblem(P), NEW steps, Gapless(Pids(P), steps)
    PROVE  JudgeSchedule(P, steps) = "ok" <=> Normalize(steps) \in Space(P)
  <1> DEFINE m == Normalize(steps)
  <1>1. Tidy(Pids(P), m)
    BY NormalizeGapless, MergedTidy
  <1>2. ~HasOverlap(steps)
    BY NoOverlap
  <1>3. m \in Space(P) <=> \E r \in Paths(P) : Normalize(r.segs) = m
    BY DEF Space
  <1>4. JudgeSchedule(P, steps) = IF P.policy = "RR" THEN JudgeRoundRobin(P, m) ELSE JudgeNonpreemptive(P, m)
    BY <1>2 DEF JudgeSchedule
  <1> HIDE DEF m
  <1> QED
    BY <1>1, <1>3, <1>4, RoundRobinAgree, NonpreemptiveAgree DEF m

----------------------------------------------------------------------------
(* Schedules as a model writes them: in any order, with gaps and overlaps. *)

LEMMA SortedFacts ==
    ASSUME NEW T, NEW s \in Seq(Lane(T))
    PROVE  /\ Sorted(s) \in Seq(Lane(T)) /\ Len(Sorted(s)) = Len(s) /\ ToSet(Sorted(s)) = ToSet(s)
           /\ \A i, j \in 1 .. Len(s) : i < j => Sorted(s)[i].start <= Sorted(s)[j].start
  <1> DEFINE n == Len(s)
             S == 1 .. n
             before == {p \in S \X S : SortsBefore(s, p[1], p[2])}
             at == Arranged(S, before)
  <1>1. /\ n \in Nat /\ DOMAIN s = S /\ \A i \in S : s[i] \in Lane(T) /\ s[i].start \in Nat /\ s[i].end \in Nat
    BY LaneFacts
  <1>2. IsFiniteSet(S) /\ Cardinality(S) = n
    BY <1>1, FS_Interval
  <1>3. \A i, j \in S : <<i, j>> \in before <=> SortsBefore(s, i, j)
    OBVIOUS
  <1>4. StrictOrder(S, before)
    <2> HIDE DEF before
    <2>1. ASSUME NEW i \in S, NEW j \in S
          PROVE  /\ ~SortsBefore(s, i, i)
                 /\ i # j => SortsBefore(s, i, j) \/ SortsBefore(s, j, i)
                 /\ \A k \in S : SortsBefore(s, i, j) /\ SortsBefore(s, j, k) => SortsBefore(s, i, k)
      BY <1>1 DEF SortsBefore
    <2> QED
      BY <1>3, <2>1 DEF StrictOrder
  <1> HIDE DEF before
  <1>5. /\ at \in [1 .. n -> S]
        /\ \A i, j \in 1 .. n : i < j => <<at[i], at[j]>> \in before
        /\ \A x \in S : \E i \in 1 .. n : at[i] = x
    BY <1>2, <1>4, ArrangedFacts
  <1>6. Sorted(s) = [k \in S |-> s[at[k]]]
    BY <1>1, <1>5 DEF Sorted, before
  <1> HIDE DEF at
  <1>7. Sorted(s) \in Seq(Lane(T)) /\ Len(Sorted(s)) = n /\ DOMAIN Sorted(s) = S
    <2>1. Sorted(s) \in [1 .. n -> Lane(T)]
      BY <1>1, <1>5, <1>6
    <2> QED
      BY <1>1, <2>1, SeqDef, LenProperties
  <1>8. ToSet(Sorted(s)) = ToSet(s)
    <2>1. ToSet(Sorted(s)) = {Sorted(s)[k] : k \in S} /\ ToSet(s) = {s[k] : k \in S}
      BY <1>1, <1>7 DEF ToSet
    <2>2. \A k \in S : Sorted(s)[k] = s[at[k]] /\ at[k] \in S
      BY <1>5, <1>6
    <2>3. ASSUME NEW k \in S
          PROVE  s[k] \in ToSet(Sorted(s))
      <3>1. PICK i \in S : at[i] = k
        BY <1>5
      <3> QED
        BY <2>1, <2>2, <3>1
    <2>4. ToSet(Sorted(s)) \subseteq ToSet(s)
      BY <2>1, <2>2
    <2> QED
      BY <2>1, <2>3, <2>4
  <1>9. ASSUME NEW i \in S, NEW j \in S, i < j
        PROVE  Sorted(s)[i].start <= Sorted(s)[j].start
    <2>1. SortsBefore(s, at[i], at[j]) /\ at[i] \in S /\ at[j] \in S
      BY <1>3, <1>5, <1>9
    <2> QED
      BY <1>1, <1>6, <2>1 DEF SortsBefore
  <1> QED
    BY <1>7, <1>8, <1>9

(* One segment laid: behind idle time if it does not start at once.        *)
Layouts(T) == [t : Nat, segs : Seq(Lane(T))]
Ahead(v, x) == IF v.t < x.start THEN Append(v.segs, Segment(Idle, v.t, x.start)) ELSE v.segs

LEMMA LaidFacts ==
    ASSUME NEW T, Idle \in T, NEW v \in Layouts(T), NEW x \in Lane(T)
    PROVE  /\ Laid(v, x) \in Layouts(T) /\ v.segs \in Seq(Lane(T)) /\ v.t \in Nat
           /\ x.pid \in T /\ x.start \in Nat /\ x.end \in Nat /\ Ahead(v, x) \in Seq(Lane(T))
           /\ x.end <= x.start => Laid(v, x) = v
           /\ x.start < x.end => /\ Laid(v, x).segs = Append(Ahead(v, x), x)
                                 /\ Laid(v, x).t = IF v.t >= x.end THEN v.t ELSE x.end
  <1>1. v.segs \in Seq(Lane(T)) /\ v.t \in Nat /\ x.pid \in T /\ x.start \in Nat /\ x.end \in Nat
    BY DEF Layouts, Lane
  <1>2. Segment(Idle, v.t, x.start) \in Lane(T)
    BY <1>1, SegmentFacts
  <1>3. Ahead(v, x) \in Seq(Lane(T))
    BY <1>1, <1>2, AppendProperties DEF Ahead
  <1>4. Append(Ahead(v, x), x) = Ahead(v, x) \o <<x>> /\ Append(Ahead(v, x), x) \in Seq(Lane(T))
    BY <1>3, AppendIsConcat, AppendProperties
  <1>5. Max({v.t, x.end}) = IF v.t >= x.end THEN v.t ELSE x.end
    BY <1>1, PairFacts
  <1>6. x.start < x.end => Laid(v, x) = [t |-> IF v.t >= x.end THEN v.t ELSE x.end, segs |-> Append(Ahead(v, x), x)]
    <2> SUFFICES ASSUME x.start < x.end
                 PROVE  Laid(v, x) = [t |-> IF v.t >= x.end THEN v.t ELSE x.end, segs |-> Append(Ahead(v, x), x)]
      OBVIOUS
    <2>1. ~(x.end <= x.start)
      BY <1>1
    <2>2. Laid(v, x) = [t |-> Max({v.t, x.end}), segs |-> Ahead(v, x) \o <<x>>]
      BY <2>1 DEF Laid, Ahead
    <2> QED
      BY <1>4, <1>5, <2>2
  <1>7. x.end <= x.start => Laid(v, x) = v
    BY DEF Laid
  <1>8. x.start < x.end \/ x.end <= x.start
    BY <1>1
  <1>9. x.start < x.end => Laid(v, x) \in Layouts(T)
    <2> DEFINE k == IF v.t >= x.end THEN v.t ELSE x.end
               r == Append(Ahead(v, x), x)
    <2>1. k \in Nat /\ r \in Seq(Lane(T))
      BY <1>1, <1>4
    <2>2. x.start < x.end => Laid(v, x) = [t |-> k, segs |-> r]
      BY <1>6
    <2> HIDE DEF k, r
    <2> QED
      BY <2>1, <2>2 DEF Layouts
  <1> QED
    BY <1>1, <1>3, <1>6, <1>7, <1>8, <1>9

LEMMA LayTable ==
    ASSUME NEW T, Idle \in T, NEW s \in Seq(Lane(T))
    PROVE  \E f \in [0 .. Len(s) -> Layouts(T)] :
              /\ f[0] = [t |-> 0, segs |-> <<>>] /\ \A n \in 1 .. Len(s) : f[n] = Laid(f[n - 1], Sorted(s)[n])
              /\ Filled(s) = f[Len(s)].segs
  <1> DEFINE q == Sorted(s)
             V == Layouts(T)
             m == Len(s)
             o == [t |-> 0, segs |-> <<>>]
             step == [x \in (1 .. m) \X V |-> Laid(x[2], q[x[1]])]
  <1>1. m \in Nat /\ Len(q) = m /\ \A i \in 1 .. m : q[i] \in Lane(T)
    BY SortedFacts, LaneFacts
  <1>2. o \in V
    <2>1. <<>> \in Seq(Lane(T))
      BY EmptySeq
    <2> QED
      BY <2>1 DEF Layouts
  <1>3. ASSUME NEW n \in 1 .. m, NEW v \in V
        PROVE  step[<<n, v>>] = Laid(v, q[n]) /\ step[<<n, v>>] \in V
    <2>1. Laid(v, q[n]) \in V
      BY <1>1, LaidFacts
    <2> QED
      BY <2>1
  <1> HIDE DEF step, m, V, q, o
  <1>4. PICK f \in [0 .. m -> V] : IsTable(f, m, o, step)
    BY <1>1, <1>2, <1>3, TableExists
  <1>5. IsLaid(f, q)
    <2>1. ASSUME NEW n \in 0 .. m
          PROVE  f[n] = IF n = 0 THEN o ELSE Laid(f[n - 1], q[n])
      <3>1. n # 0 => n \in 1 .. m /\ n - 1 \in 0 .. m
        BY <1>1
      <3>2. n # 0 => f[n - 1] \in V
        BY <3>1
      <3>3. f[n] = IF n = 0 THEN o ELSE step[<<n, f[n - 1]>>]
        BY <1>4 DEF IsTable
      <3> QED
        BY <1>3, <3>1, <3>2, <3>3
    <2>2. f = [n \in 0 .. m |-> f[n]]
      OBVIOUS
    <2> QED
      BY <1>1, <2>1, <2>2 DEF IsLaid, o
  <1> DEFINE g == CHOOSE g : IsLaid(g, q)
  <1>6. IsLaid(g, q)
    BY <1>5
  <1>7. Filled(s) = g[m].segs
    BY <1>1 DEF Filled, IsLaid, q
  <1> HIDE DEF g
  <1>8. g[0] = o /\ f[0] = o /\ \A n \in 1 .. m : g[n] = Laid(g[n - 1], q[n]) /\ f[n] = Laid(f[n - 1], q[n])
    BY <1>1, <1>5, <1>6 DEF IsLaid, o
  <1>9. \A n \in 0 .. m : g[n] = f[n]
    <2>1. GoOnAlike(g, f, m)
      BY <1>8 DEF GoOnAlike
    <2> QED
      BY <1>1, <1>8, <2>1, TablesAlike
  <1>10. Filled(s) = f[m].segs
    BY <1>1, <1>7, <1>9
  <1> QED
    BY <1>8, <1>10 DEF m, V, q, o

(* Of segments that do not overlap, whatever is empty or missing between   *)
(* them, the filled schedule has no gap.                                   *)
LEMMA FilledGapless ==
    ASSUME NEW T, Idle \in T, NEW s \in Seq(Lane(T)), ~HasOverlap(s)
    PROVE  Gapless(T, Filled(s))
  <1> DEFINE q == Sorted(s)
             m == Len(s)
  <1>1. PICK f \in [0 .. m -> Layouts(T)] :
              /\ f[0] = [t |-> 0, segs |-> <<>>] /\ \A n \in 1 .. m : f[n] = Laid(f[n - 1], q[n])
              /\ Filled(s) = f[m].segs
    BY LayTable
  <1>2. /\ m \in Nat /\ q \in Seq(Lane(T)) /\ Len(q) = m
        /\ \A i \in 1 .. m : q[i] \in Lane(T) /\ q[i].start \in Nat /\ q[i].end \in Nat
        /\ \A i, j \in 1 .. m : i < j => q[i].start <= q[j].start
    BY SortedFacts, LaneFacts
  <1>3. \A i \in 1 .. m - 1 : q[i].end <= q[i + 1].start
    <2>1. \A i \in 1 .. m - 1 : ~(q[i + 1].start < q[i].end)
      BY <1>2 DEF HasOverlap
    <2>2. \A i \in 1 .. m - 1 : i \in 1 .. m /\ i + 1 \in 1 .. m
      BY <1>2
    <2> HIDE DEF q, m
    <2> QED
      BY <1>2, <2>1, <2>2
  <1> HIDE DEF q, m
  <1> DEFINE Good(n) == /\ Gapless(T, f[n].segs) /\ f[n].t = EndOf(f[n].segs)
                        /\ \A i \in 1 .. m : n < i => f[n].t <= q[i].start
             G == {n \in Nat : n <= m => Good(n)}
  <1>4. 0 \in G
    <2>1. Gapless(T, <<>>) /\ EndOf(<<>>) = 0
      BY GaplessEmpty DEF EndOf
    <2> QED
      BY <1>1, <1>2, <2>1
  <1>5. ASSUME NEW k \in Nat, k \in G
        PROVE  k + 1 \in G
    <2> SUFFICES ASSUME k + 1 <= m
                 PROVE  Good(k + 1)
      OBVIOUS
    <2> DEFINE v == f[k]
               x == q[k + 1]
    <2>1. k + 1 \in 1 .. m /\ k \in 0 .. m /\ k <= m /\ (k + 1) - 1 = k
      BY <1>2
    <2>2. Good(k)
      BY <1>5, <2>1
    <2>3. v \in Layouts(T) /\ x \in Lane(T) /\ f[k + 1] = Laid(v, x)
      BY <1>1, <1>2, <2>1
    <2>4. v.t <= x.start /\ v.t = EndOf(v.segs) /\ Gapless(T, v.segs)
      BY <2>1, <2>2
    <2>5. \A i \in 1 .. m : k + 1 < i => k < i /\ x.start <= q[i].start /\ v.t <= q[i].start
      BY <1>2, <2>1, <2>2
    <2>6. \A i \in 1 .. m : k + 1 < i => x.end <= q[i].start
      <3> SUFFICES ASSUME NEW i \in 1 .. m, k + 1 < i
                   PROVE  x.end <= q[i].start
        OBVIOUS
      <3>1. k + 1 \in 1 .. m - 1 /\ (k + 1) + 1 \in 1 .. m /\ ((k + 1) + 1 = i \/ (k + 1) + 1 < i)
        BY <1>2, <2>1
      <3>2. x.end <= q[(k + 1) + 1].start
        BY <1>3, <3>1
      <3>3. q[(k + 1) + 1].start <= q[i].start
        BY <1>2, <3>1
      <3>4. x.end \in Nat /\ q[(k + 1) + 1].start \in Nat /\ q[i].start \in Nat
        BY <1>2, <2>1, <3>1
      <3> HIDE DEF x
      <3> QED
        BY <3>2, <3>3, <3>4
    <2> HIDE DEF v, x, Good
    <2>7. CASE x.end <= x.start
      <3>1. f[k + 1] = v
        BY <2>3, <2>7, LaidFacts
      <3> QED
        BY <2>4, <2>5, <3>1 DEF Good
    <2>8. CASE x.start < x.end
      <3> DEFINE a == Ahead(v, x)
      <3>1. /\ f[k + 1].segs = Append(a, x) /\ f[k + 1].t = (IF v.t >= x.end THEN v.t ELSE x.end)
            /\ v.segs \in Seq(Lane(T)) /\ v.t \in Nat /\ x.start \in Nat /\ x.end \in Nat /\ a \in Seq(Lane(T))
        BY <2>3, <2>8, LaidFacts
      <3>2. f[k + 1].t = x.end
        BY <2>4, <2>8, <3>1
      <3>3. Gapless(T, a) /\ EndOf(a) = x.start
        <4> DEFINE w == Segment(Idle, v.t, x.start)
        <4>1. w \in Lane(T) /\ w.start = v.t /\ w.end = x.start
          <5>1. v.t \in Nat /\ x.start \in Nat
            BY <3>1
          <5> QED
            BY <5>1 DEF Segment, Lane
        <4>2. CASE v.t < x.start
          <5>1. a = Append(v.segs, w)
            BY <4>2 DEF Ahead
          <5> HIDE DEF a, w
          <5> QED
            BY <2>4, <3>1, <4>1, <4>2, <5>1, GaplessAppend, EndOfAppend
        <4>3. CASE ~(v.t < x.start)
          BY <2>4, <3>1, <4>3 DEF Ahead
        <4> QED
          BY <4>2, <4>3
      <3> HIDE DEF a
      <3>4. Gapless(T, Append(a, x)) /\ EndOf(Append(a, x)) = x.end
        BY <2>3, <2>8, <3>1, <3>3, GaplessAppend, EndOfAppend
      <3> QED
        BY <2>6, <3>1, <3>2, <3>4 DEF Good
    <2>9. x.start < x.end \/ x.end <= x.start
      BY <2>3, LaidFacts
    <2> QED
      BY <2>7, <2>8, <2>9
  <1> HIDE DEF G
  <1>6. Nat \subseteq G
    BY <1>4, <1>5, Induction
  <1>7. m \in G /\ m <= m
    BY <1>2, <1>6
  <1> QED
    BY <1>1, <1>7 DEF G

(* What does not overlap is judged as what it is filled to.                *)
LEMMA FilledSame ==
    ASSUME NEW T, Idle \in T, NEW s \in Seq(Lane(T)), ~HasOverlap(s)
    PROVE  Gapless(T, Filled(s)) /\ Normalize(s) = Merged(Filled(s)) /\ Normalize(Filled(s)) = Normalize(s)
           /\ ~HasOverlap(Filled(s))
  <1>1. Gapless(T, Filled(s))
    BY FilledGapless
  <1> QED
    BY <1>1, NormalizeGapless, NoOverlap DEF Normalize

LEMMA JudgedIsInSpace ==
    ASSUME NEW P, ScheduleProblem(P), NEW s \in Seq(Lane(Pids(P))), ~HasOverlap(s)
    PROVE  JudgeSchedule(P, s) = "ok" <=> Normalize(s) \in Space(P)
  <1>1. Idle \in Pids(P)
    BY DEF Pids
  <1>2. /\ Gapless(Pids(P), Filled(s)) /\ Normalize(Filled(s)) = Normalize(s) /\ ~HasOverlap(Filled(s))
    BY <1>1, FilledSame
  <1>3. JudgeSchedule(P, s) = JudgeSchedule(P, Filled(s))
    BY <1>2 DEF JudgeSchedule
  <1> QED
    BY <1>2, <1>3, JudgeIsSpace

----------------------------------------------------------------------------
(* Segments that take time.                                                *)
Timed(s) == \A i \in 1 .. Len(s) : s[i].start < s[i].end

LEMMA TimedAppend ==
    ASSUME NEW T, NEW s \in Seq(Lane(T)), NEW x \in Lane(T)
    PROVE  Timed(Append(s, x)) <=> Timed(s) /\ x.start < x.end
  <1> DEFINE r == Append(s, x)
  <1>1. Len(s) \in Nat /\ Len(r) = Len(s) + 1 /\ r[Len(s) + 1] = x /\ \A i \in 1 .. Len(s) : r[i] = s[i]
    BY AppendFacts
  <1>2. Len(s) + 1 \in 1 .. Len(s) + 1 /\ \A i \in 1 .. Len(s) + 1 : i \in 1 .. Len(s) \/ i = Len(s) + 1
    BY <1>1
  <1>3. \A i \in 1 .. Len(s) : i \in 1 .. Len(s) + 1
    BY <1>1
  <1> HIDE DEF r
  <1> QED
    BY <1>1, <1>2, <1>3 DEF Timed, r

(* Merging never closes a gap or undoes an overlap.                        *)
LEMMA MergedTimed ==
    ASSUME NEW T, NEW s \in Seq(Lane(T)), Timed(s)
    PROVE  /\ Timed(Merged(s)) /\ Merged(s) \in Seq(Lane(T))
           /\ Gapless(T, Merged(s)) => Gapless(T, s)
  <1> DEFINE Good(r) == Timed(Merged(r)) /\ (Gapless(T, Merged(r)) => Gapless(T, r))
             G == {r \in Seq(Lane(T)) : Timed(r) => Good(r)}
  <1>1. <<>> \in G
    <2>1. <<>> \in Seq(Lane(T)) /\ Len(<<>>) = 0
      BY EmptySeq
    <2>2. Merged(<<>>) = <<>>
      BY <2>1, MergeTable
    <2> QED
      BY <2>1, <2>2 DEF Timed
  <1>2. ASSUME NEW r \in Seq(Lane(T)), NEW x \in Lane(T), r \in G
        PROVE  Append(r, x) \in G
    <2> DEFINE M == Merged(r)
    <2>1. /\ Append(r, x) \in Seq(Lane(T)) /\ M \in Seq(Lane(T))
          /\ Merged(Append(r, x)) = Joined(M, x)
      BY AppendFacts, MergedStep
    <2> SUFFICES ASSUME Timed(Append(r, x))
                 PROVE  Good(Append(r, x))
      BY <2>1
    <2>2. Timed(r) /\ x.start < x.end
      BY TimedAppend
    <2>3. Timed(M) /\ (Gapless(T, M) => Gapless(T, r))
      BY <1>2, <2>2
    <2>4. Gapless(T, M) => EndOf(M) = EndOf(r)
      BY <2>3, MergedTidy
    <2> HIDE DEF M, G
    <2>5. Gapless(T, M) /\ x.start = EndOf(M) => Gapless(T, Append(r, x))
      BY <2>2, <2>3, <2>4, GaplessAppend
    <2>6. CASE Joined(M, x) = Append(M, x)
      <3>1. Timed(Append(M, x))
        BY <2>1, <2>2, <2>3, TimedAppend
      <3>2. Gapless(T, Append(M, x)) => Gapless(T, M) /\ x.start = EndOf(M)
        BY <2>1, GaplessAppend
      <3> QED
        BY <2>1, <2>5, <2>6, <3>1, <3>2
    <2>7. CASE Joined(M, x) # Append(M, x)
      <3>1. M # <<>>
        BY <2>7, JoinedEmpty
      <3>2. PICK u \in Seq(Lane(T)), y \in Lane(T) : M = Append(u, y)
        BY <2>1, <3>1, SequenceEmptyOrAppend
      <3> DEFINE z == Segment(x.pid, y.start, x.end)
      <3>3. x.pid = y.pid /\ y.end = x.start /\ Joined(M, x) = Append(u, z)
        BY <2>7, <3>2, JoinedAppend
      <3>4. x.pid \in T /\ y.start \in Nat /\ y.end \in Nat /\ x.start \in Nat /\ x.end \in Nat
        BY DEF Lane
      <3>5. z \in Lane(T) /\ z.start = y.start /\ z.end = x.end
        BY <3>4 DEF Segment, Lane
      <3> HIDE DEF z
      <3>6. Timed(u) /\ y.start < y.end
        BY <2>3, <3>2, TimedAppend
      <3>7. Timed(Append(u, z))
        <4>1. z.start < z.end
          BY <2>2, <3>3, <3>4, <3>5, <3>6
        <4> QED
          BY <3>5, <3>6, <4>1, TimedAppend
      <3>8. ASSUME Gapless(T, Append(u, z))
            PROVE  Gapless(T, M) /\ x.start = EndOf(M)
        <4>1. Gapless(T, u) /\ y.start = EndOf(u)
          BY <3>5, <3>8, GaplessAppend
        <4>2. Gapless(T, Append(u, y)) /\ EndOf(Append(u, y)) = y.end
          BY <3>6, <4>1, GaplessAppend, EndOfAppend
        <4> QED
          BY <3>2, <3>3, <4>2
      <3> QED
        BY <2>1, <2>5, <3>3, <3>7, <3>8
    <2> QED
      BY <2>6, <2>7
  <1>3. \A r \in G : Timed(r) => Good(r)
    OBVIOUS
  <1> HIDE DEF G, Good
  <1>4. Seq(Lane(T)) \subseteq G
    BY <1>1, <1>2, SeqInduction
  <1>5. Good(s)
    BY <1>3, <1>4
  <1>6. Merged(s) \in Seq(Lane(T))
    BY MergeTable
  <1> QED
    BY <1>5, <1>6 DEF Good

LEMMA AppendNames ==
    ASSUME NEW S, NEW s \in Seq(S), NEW x \in S
    PROVE  ToSet(Append(s, x)) = ToSet(s) \union {x}
  <1> DEFINE r == Append(s, x)
  <1>1. /\ r \in Seq(S) /\ Len(s) \in Nat /\ Len(r) = Len(s) + 1 /\ r[Len(s) + 1] = x
        /\ \A i \in 1 .. Len(s) : r[i] = s[i]
    BY AppendFacts
  <1>2. DOMAIN s = 1 .. Len(s) /\ DOMAIN r = (1 .. Len(s)) \union {Len(s) + 1}
    BY <1>1, NamedFacts
  <1> HIDE DEF r
  <1> QED
    BY <1>1, <1>2 DEF ToSet, r

(* Of segments that take time filling keeps all and adds but idle ones;    *)
(* and it leaves no gaps only if nothing overlaps.                         *)
LEMMA FilledTimed ==
    ASSUME NEW T, Idle \in T, NEW s \in Seq(Lane(T)), Timed(s)
    PROVE  /\ Timed(Filled(s)) /\ Filled(s) \in Seq(Lane(T))
           /\ ToSet(s) \subseteq ToSet(Filled(s)) /\ \A y \in ToSet(Filled(s)) : y.pid = Idle \/ y \in ToSet(s)
           /\ Gapless(T, Filled(s)) => ~HasOverlap(s)
  <1> DEFINE q == Sorted(s)
             m == Len(s)
  <1>1. PICK f \in [0 .. m -> Layouts(T)] :
              /\ f[0] = [t |-> 0, segs |-> <<>>] /\ \A n \in 1 .. m : f[n] = Laid(f[n - 1], q[n])
              /\ Filled(s) = f[m].segs
    BY LayTable
  <1>2. /\ m \in Nat /\ q \in Seq(Lane(T)) /\ Len(q) = m /\ ToSet(q) = ToSet(s)
        /\ \A i \in 1 .. m : q[i] \in Lane(T) /\ q[i].start \in Nat /\ q[i].end \in Nat
    BY SortedFacts, LaneFacts
  <1>3. \A i \in 1 .. m : q[i].start < q[i].end
    <2>1. \A y \in ToSet(s) : y.start < y.end
      BY LaneFacts DEF Timed, ToSet
    <2>2. \A i \in 1 .. m : q[i] \in ToSet(q)
      BY <1>2, LaneFacts DEF ToSet
    <2> QED
      BY <1>2, <2>1, <2>2
  <1>4. /\ Named(q, 0) = {} /\ Named(q, m) = ToSet(s)
        /\ \A n \in 1 .. m : Named(q, n) = Named(q, n - 1) \union {q[n]}
    <2>1. /\ Named(q, 0) = {} /\ Named(q, Len(q)) = ToSet(q)
          /\ \A n \in 1 .. Len(q) : Named(q, n) = Named(q, n - 1) \union {q[n]}
      BY <1>2, NamedFacts
    <2> QED
      BY <1>2, <2>1
  <1> HIDE DEF q, m
  <1> DEFINE AllKept(n) == /\ Timed(f[n].segs) /\ Named(q, n) \subseteq ToSet(f[n].segs)
                          /\ \A y \in ToSet(f[n].segs) : y.pid = Idle \/ y \in Named(q, n)
             Apart(n) == /\ n # 0 => EndOf(f[n].segs) = q[n].end /\ q[n].end <= f[n].t
                         /\ Gapless(T, f[n].segs) => \A k \in 1 .. n - 1 : q[k].end <= q[k + 1].start
             G == {n \in Nat : n <= m => AllKept(n) /\ Apart(n)}
  <1>5. 0 \in G
    <2>1. Timed(<<>>) /\ ToSet(<<>>) = {}
      BY DEF Timed, ToSet
    <2> QED
      BY <1>1, <1>4, <2>1
  <1>6. ASSUME NEW k \in Nat, k \in G
        PROVE  k + 1 \in G
    <2> SUFFICES ASSUME k + 1 <= m
                 PROVE  AllKept(k + 1) /\ Apart(k + 1)
      OBVIOUS
    <2> DEFINE v == f[k]
               x == q[k + 1]
               a == Ahead(v, x)
               w == Segment(Idle, v.t, x.start)
    <2>1. k + 1 \in 1 .. m /\ k \in 0 .. m /\ k <= m /\ (k + 1) - 1 = k /\ (k # 0 => k \in 1 .. m)
      BY <1>2
    <2>2. AllKept(k) /\ Apart(k)
      BY <1>6, <2>1
    <2>3. v \in Layouts(T) /\ x \in Lane(T) /\ f[k + 1] = Laid(v, x) /\ x.start < x.end
          /\ Named(q, k + 1) = Named(q, k) \union {x}
      BY <1>1, <1>2, <1>3, <1>4, <2>1
    <2>4. /\ f[k + 1].segs = Append(a, x) /\ f[k + 1].t = (IF v.t >= x.end THEN v.t ELSE x.end)
          /\ v.segs \in Seq(Lane(T)) /\ v.t \in Nat /\ x.start \in Nat /\ x.end \in Nat /\ a \in Seq(Lane(T))
      <3> HIDE DEF v, x
      <3> QED
        BY <2>3, LaidFacts
    <2>5. w \in Lane(T) /\ w.start = v.t /\ w.end = x.start /\ w.pid = Idle
      <3>1. v.t \in Nat /\ x.start \in Nat
        BY <2>4
      <3> QED
        BY <3>1 DEF Segment, Lane
    <2>6. CASE v.t < x.start
      <3>1. a = Append(v.segs, w)
        BY <2>6 DEF Ahead
      <3> HIDE DEF a, w, v, x
      <3>2. ToSet(Append(a, x)) = ToSet(v.segs) \union {w, x}
        <4>1. ToSet(a) = ToSet(v.segs) \union {w}
          BY <2>4, <2>5, <3>1, AppendNames
        <4>2. ToSet(Append(a, x)) = ToSet(a) \union {x}
          BY <2>3, <2>4, AppendNames
        <4> QED
          BY <4>1, <4>2
      <3>3. Timed(Append(a, x))
        BY <2>2, <2>3, <2>4, <2>5, <2>6, <3>1, TimedAppend DEF v
      <3>4. AllKept(k + 1)
        BY <2>2, <2>3, <2>4, <2>5, <3>2, <3>3 DEF v
      <3>5. ASSUME Gapless(T, Append(a, x))
            PROVE  Gapless(T, v.segs)
        BY <2>3, <2>4, <2>5, <3>1, <3>5, GaplessAppend
      <3>6. k # 0 => q[k].end <= x.start
        BY <1>2, <2>1, <2>2, <2>4, <2>6 DEF v
      <3> QED
        BY <2>1, <2>2, <2>3, <2>4, <3>4, <3>5, <3>6, EndOfAppend DEF v, x
    <2>7. CASE ~(v.t < x.start)
      <3>1. a = v.segs
        BY <2>7 DEF Ahead
      <3> HIDE DEF a, w, v, x
      <3>2. ToSet(Append(a, x)) = ToSet(v.segs) \union {x}
        BY <2>3, <2>4, <3>1, AppendNames
      <3>3. Timed(Append(a, x))
        BY <2>2, <2>3, <2>4, <3>1, TimedAppend DEF v
      <3>4. AllKept(k + 1)
        BY <2>2, <2>3, <2>4, <3>2, <3>3 DEF v
      <3>5. ASSUME Gapless(T, Append(a, x))
            PROVE  Gapless(T, v.segs) /\ x.start = EndOf(v.segs)
        BY <2>3, <2>4, <3>1, <3>5, GaplessAppend
      <3>6. k # 0 /\ Gapless(T, Append(a, x)) => q[k].end <= x.start
        BY <1>2, <2>1, <2>2, <2>4, <3>5 DEF v
      <3> QED
        BY <2>1, <2>2, <2>3, <2>4, <3>4, <3>5, <3>6, EndOfAppend DEF v, x
    <2> QED
      BY <2>6, <2>7
  <1>7. AllKept(m) /\ Apart(m)
    <2>1. \A n \in G : n <= m => AllKept(n) /\ Apart(n)
      OBVIOUS
    <2> HIDE DEF G, AllKept, Apart
    <2>2. Nat \subseteq G
      BY <1>5, <1>6, Induction
    <2> QED
      BY <1>2, <2>1, <2>2
  <1>8. Gapless(T, Filled(s)) => ~HasOverlap(s)
    <2> SUFFICES ASSUME Gapless(T, Filled(s))
                 PROVE  ~HasOverlap(s)
      OBVIOUS
    <2>1. \A k \in 1 .. m - 1 : q[k].end <= q[k + 1].start
      BY <1>1, <1>7
    <2>2. \A k \in 1 .. m - 1 : k \in 1 .. m /\ k + 1 \in 1 .. m
      BY <1>2
    <2>3. \A k \in 1 .. m - 1 : ~(q[k + 1].start < q[k].end)
      BY <1>2, <2>1, <2>2
    <2> QED
      BY <1>2, <2>3 DEF HasOverlap, q
  <1>9. Filled(s) \in Seq(Lane(T))
    BY <1>1, <1>2 DEF Layouts
  <1> QED
    BY <1>1, <1>4, <1>7, <1>8, <1>9

(* What takes time and is normal without a gap does not overlap.           *)
LEMMA TimedApart ==
    ASSUME NEW T, Idle \in T, NEW s \in Seq(Lane(T)), Timed(s), Gapless(T, Normalize(s))
    PROVE  ~HasOverlap(s)
  BY FilledTimed, MergedTimed DEF Normalize

----------------------------------------------------------------------------
(* What a normal trace keeps of the one it is made of: who runs, and when  *)
(* each process ends.                                                      *)
Ends(s, p) == {s[i].end : i \in Runs(s, p)}

LEMMA GreatestIs ==
    ASSUME NEW T, T \subseteq Int, NEW x \in T, \A y \in T : y <= x
    PROVE  Max(T) = x
  <1>1. \A y \in T : (\A z \in T : y >= z) <=> y = x
    OBVIOUS
  <1> QED
    BY <1>1 DEF Max

LEMMA EndsFacts ==
    ASSUME NEW T, NEW s, Gapless(T, s), NEW p
    PROVE  /\ Ends(s, p) \subseteq Nat /\ (Ends(s, p) = {} <=> Runs(s, p) = {})
           /\ Ends(s, p) # {} => Max(Ends(s, p)) \in Ends(s, p) /\ \A y \in Ends(s, p) : y <= Max(Ends(s, p))
           /\ Runs(s, p) = {i \in 1 .. Len(s) : s[i].pid = p}
  <1>1. /\ s \in Seq(Lane(T)) /\ Len(s) \in Nat /\ DOMAIN s = 1 .. Len(s)
        /\ \A i \in 1 .. Len(s) : s[i].start \in Nat /\ s[i].end \in Nat
    BY LaneFacts DEF Gapless
  <1>2. Runs(s, p) = {i \in 1 .. Len(s) : s[i].pid = p}
    BY <1>1 DEF Runs
  <1>3. Ends(s, p) \subseteq Nat /\ (Ends(s, p) = {} <=> Runs(s, p) = {})
    BY <1>1, <1>2 DEF Ends
  <1>4. ASSUME Ends(s, p) # {}
        PROVE  Max(Ends(s, p)) \in Ends(s, p) /\ \A y \in Ends(s, p) : y <= Max(Ends(s, p))
    <2> DEFINE n == s[Len(s)].end
    <2>1. Len(s) \in 1 .. Len(s)
      BY <1>1, <1>2, <1>3, <1>4
    <2>2. ASSUME NEW i \in 1 .. Len(s)
          PROVE  s[i].end <= n
      <3>1. CASE i = Len(s)
        BY <1>1, <2>1, <3>1
      <3>2. CASE i # Len(s)
        <4>1. i < Len(s)
          <5> DEFINE l == Len(s)
          <5>1. l \in Nat /\ i \in 1 .. l /\ i # l
            BY <1>1, <3>2
          <5> HIDE DEF l
          <5>2. i < l
            BY <5>1
          <5> QED
            BY <5>2 DEF l
        <4>2. s[i].end <= s[Len(s)].start
          BY <2>1, <4>1, GaplessRises
        <4>3. s[Len(s)].start < s[Len(s)].end
          BY <2>1 DEF Gapless
        <4>4. s[i].end \in Nat /\ s[Len(s)].start \in Nat /\ s[Len(s)].end \in Nat
          BY <1>1, <2>1
        <4> QED
          BY <4>2, <4>3, <4>4
      <3> QED
        BY <3>1, <3>2
    <2>3. n \in Nat /\ \A y \in Ends(s, p) : y <= n
      BY <1>1, <1>2, <2>1, <2>2 DEF Ends
    <2> HIDE DEF n
    <2>4. Max(Ends(s, p)) \in Ends(s, p) /\ \A y \in Ends(s, p) : Max(Ends(s, p)) >= y
      BY <1>3, <1>4, <2>3, MaxFacts
    <2> QED
      BY <1>3, <2>4
  <1> QED
    BY <1>2, <1>3, <1>4

LEMMA MergedEnds ==
    ASSUME NEW T, NEW s, Gapless(T, s), NEW p
    PROVE  /\ Runs(s, p) = {} <=> Runs(Merged(s), p) = {}
           /\ Max({-1} \union Ends(s, p)) = Max({-1} \union Ends(Merged(s), p))
           /\ \A i \in Runs(s, p) : \E j \in Runs(Merged(s), p) :
                 Merged(s)[j].start <= s[i].start /\ s[i].end <= Merged(s)[j].end
  <1> DEFINE m == Merged(s)
             A == Ends(s, p)
             B == Ends(m, p)
  <1>1. Gapless(T, m) /\ Covers(m, s)
    BY MergedTidy, MergedCovers DEF Tidy
  <1> HIDE DEF m
  <1>2. /\ Runs(s, p) = {i \in 1 .. Len(s) : s[i].pid = p}
        /\ Runs(m, p) = {i \in 1 .. Len(m) : m[i].pid = p}
        /\ A \subseteq Nat /\ B \subseteq Nat /\ (A = {} <=> Runs(s, p) = {}) /\ (B = {} <=> Runs(m, p) = {})
        /\ B # {} => Max(B) \in B /\ \A y \in B : y <= Max(B)
    BY <1>1, EndsFacts
  <1>3. \A i \in Runs(s, p) : \E j \in Runs(m, p) : m[j].start <= s[i].start /\ s[i].end <= m[j].end
    BY <1>1, <1>2 DEF Covers
  <1>4. \A j \in Runs(m, p) : \E i \in Runs(s, p) : s[i].end = m[j].end
    BY <1>1, <1>2 DEF Covers
  <1>5. B \subseteq A /\ \A a \in A : \E b \in B : a <= b
    BY <1>3, <1>4 DEF Ends
  <1>6. CASE B = {}
    BY <1>2, <1>3, <1>5, <1>6 DEF m
  <1>7. CASE B # {}
    <2> DEFINE x == Max(B)
    <2>1. x \in B /\ x \in A /\ x \in Nat /\ \A y \in B : y <= x
      BY <1>2, <1>5, <1>7
    <2> HIDE DEF x, A, B
    <2>2. \A y \in A : y <= x
      BY <1>2, <1>5, <2>1
    <2>3. Max({-1} \union A) = x
      <3>1. {-1} \union A \subseteq Int /\ x \in {-1} \union A /\ \A y \in {-1} \union A : y <= x
        BY <1>2, <2>1, <2>2
      <3> QED
        BY <3>1, GreatestIs
    <2>4. Max({-1} \union B) = x
      <3>1. {-1} \union B \subseteq Int /\ x \in {-1} \union B /\ \A y \in {-1} \union B : y <= x
        BY <1>2, <2>1
      <3> QED
        BY <3>1, GreatestIs
    <2> QED
      BY <1>2, <1>3, <1>7, <2>1, <2>3, <2>4 DEF m, A, B
  <1> QED
    BY <1>6, <1>7

(* Every process of a finished run has run.                                *)
LEMMA PathsServe ==
    ASSUME NEW P, ScheduleProblem(P), NEW r \in Paths(P), NEW p \in Procs(P)
    PROVE  \E i \in 1 .. Len(r.segs) : r.segs[i].pid = p
  <1> DEFINE Served(x) == (\E i \in 1 .. Len(x.segs) : x.segs[i].pid = p) \/ EndState(x).rem[p] = P.burst[p]
             G == {x \in RunsOf(P) : Served(x)}
  <1>1. ASSUME NEW s \in InitialStates(P)
        PROVE  Started(s) \in G
    BY StartedSound, RunFacts, InitialFacts DEF GoesWith
  <1>2. ASSUME NEW o \in RunsOf(P), NEW x \in Successors(P, EndState(o)), o \in G
        PROVE  Onward(o, x) \in G
    <2>1. Sound(P, o) /\ Onward(o, x) \in RunsOf(P) /\ Served(o)
      BY <1>2, RunFacts DEF GoesWith
    <2>2. /\ EndState(Onward(o, x)) = x.state /\ Onward(o, x).segs = Append(o.segs, x.seg)
          /\ x.seg \in Lane(Pids(P)) /\ Moves(P, EndState(o), x) /\ o.segs \in Seq(Lane(Pids(P)))
      BY <2>1, OnwardSound DEF Sound, Histories
    <2>3. /\ Len(Append(o.segs, x.seg)) = Len(o.segs) + 1 /\ Len(o.segs) \in Nat
          /\ Append(o.segs, x.seg)[Len(o.segs) + 1] = x.seg
          /\ \A i \in 1 .. Len(o.segs) : Append(o.segs, x.seg)[i] = o.segs[i]
      BY <2>2, AppendFacts
    <2>4. Len(o.segs) + 1 \in 1 .. Len(o.segs) + 1 /\ \A i \in 1 .. Len(o.segs) : i \in 1 .. Len(o.segs) + 1
      BY <2>3
    <2>5. CASE \E i \in 1 .. Len(o.segs) : o.segs[i].pid = p
      BY <2>1, <2>2, <2>3, <2>4, <2>5
    <2>6. CASE x.seg.pid = p
      BY <2>1, <2>2, <2>3, <2>4, <2>6
    <2>7. CASE EndState(o).rem[p] = P.burst[p] /\ x.seg.pid # p
      <3>1. x.state.rem[p] = EndState(o).rem[p]
        BY <2>2, <2>7 DEF Moves
      <3> QED
        BY <2>1, <2>2, <2>7, <3>1
    <2> QED
      BY <2>1, <2>5, <2>6, <2>7
  <1>3. \A x \in G : Served(x)
    OBVIOUS
  <1> HIDE DEF G
  <1>4. RunsOf(P) \subseteq G
    BY <1>1, <1>2, RunInduction
  <1>5. r \in RunsOf(P) /\ Unfinished(EndState(r)) = {}
    BY PathFacts
  <1>6. EndState(r).rem \in [Procs(P) -> Nat] /\ P.burst[p] > 0 /\ P.burst[p] \in Nat
    BY <1>5, RunFacts, ProblemFacts DEF Sound, Legal, States
  <1>7. EndState(r).rem[p] # P.burst[p]
    BY <1>5, <1>6 DEF Unfinished
  <1> QED
    BY <1>3, <1>4, <1>5, <1>7

LEMMA SpaceOfSchedules ==
    ASSUME NEW P, ScheduleProblem(P), NEW t \in Space(P)
    PROVE  /\ Gapless(Pids(P), t) /\ Normalize(t) = t
           /\ \A p \in Procs(P) : Finish(t, p) \in Nat
  <1>1. PICK r \in Paths(P) : t = Normalize(r.segs)
    BY DEF Space
  <1>2. Gapless(Pids(P), r.segs)
    BY PathFacts, RunFacts DEF Sound
  <1>3. t = Merged(r.segs) /\ Normalize(t) = t /\ Gapless(Pids(P), t)
    BY <1>1, <1>2, NormalizeGapless, MergedTidy DEF Tidy
  <1>4. ASSUME NEW p \in Procs(P)
        PROVE  Finish(t, p) \in Nat
    <2>1. Runs(r.segs, p) # {}
      BY <1>2, PathsServe, EndsFacts
    <2>2. Runs(t, p) # {}
      BY <1>2, <1>3, <2>1, MergedEnds
    <2>3. Max(Ends(t, p)) \in Nat
      BY <1>3, <2>2, EndsFacts
    <2> QED
      BY <2>3 DEF Finish, Ends, Runs
  <1> QED
    BY <1>3, <1>4

(* If nothing is a schedule, there is no other.                            *)
LEMMA EmptySchedule ==
    ASSUME NEW P, ScheduleProblem(P), <<>> \in Space(P)
    PROVE  Space(P) \subseteq {<<>>}
  <1>1. PICK r \in Paths(P) : Normalize(r.segs) = <<>>
    BY DEF Space
  <1>2. r \in RunsOf(P) /\ Sound(P, r)
    BY PathFacts, RunFacts
  <1>3. Gapless(Pids(P), r.segs) /\ r.segs \in Seq(Lane(Pids(P)))
    BY <1>2 DEF Sound, Histories
  <1>4. Procs(P) = {}
    <2>1. Merged(r.segs) = <<>>
      BY <1>1, <1>3, NormalizeGapless
    <2> SUFFICES ASSUME NEW p \in Procs(P)
                 PROVE  FALSE
      OBVIOUS
    <2>2. Runs(r.segs, p) # {}
      BY <1>3, PathsServe, EndsFacts
    <2>3. Runs(<<>>, p) # {}
      BY <1>3, <2>1, <2>2, MergedEnds
    <2>4. Runs(<<>>, p) = {}
      BY DEF Runs
    <2> QED
      BY <2>3, <2>4
  <1> DEFINE G == {x \in RunsOf(P) : x.segs = <<>>}
  <1>5. ASSUME NEW s \in InitialStates(P)
        PROVE  Started(s) \in G
    BY StartedSound, RunFacts DEF GoesWith
  <1>6. ASSUME NEW o \in RunsOf(P), NEW x \in Successors(P, EndState(o)), o \in G
        PROVE  Onward(o, x) \in G
    <2>1. Legal(P, EndState(o))
      BY RunFacts DEF Sound
    <2>2. Unfinished(EndState(o)) = {}
      BY <1>4, <2>1 DEF Legal, States, Unfinished
    <2>3. Successors(P, EndState(o)) = {}
      BY <2>1, <2>2, RoundRobinSteps, NonpreemptiveSteps
    <2> QED
      BY <2>3
  <1>7. \A x \in G : x.segs = <<>>
    OBVIOUS
  <1> HIDE DEF G
  <1>8. RunsOf(P) \subseteq G
    BY <1>5, <1>6, RunInduction
  <1>9. \A x \in Paths(P) : x.segs = <<>>
    BY <1>7, <1>8, PathFacts
  <1>10. r.segs = <<>>
    BY <1>9
  <1> SUFFICES ASSUME NEW t \in Space(P)
               PROVE  t = <<>>
    OBVIOUS
  <1>11. PICK x \in Paths(P) : t = Normalize(x.segs)
    BY DEF Space
  <1> QED
    BY <1>1, <1>9, <1>10, <1>11

(* A constraint that the normal trace meets is met by the trace.           *)
OnSchedules(c) ==
    \/ c = [type |-> "none"]
    \/ \E a, b : a # Idle /\ b # Idle /\ c = [type |-> "precedence", first |-> a, second |-> b]
    \/ \E p : \E n \in Nat : p # Idle /\ c = [type |-> "deadline", pid |-> p, by |-> n]

LEMMA HoldsOfMerged ==
    ASSUME NEW T, NEW s, Gapless(T, s), NEW c, OnSchedules(c), Holds(c, Merged(s))
    PROVE  Holds(c, s)
  <1> DEFINE m == Merged(s)
  <1>1. Gapless(T, m)
    BY MergedTidy DEF Tidy
  <1>2. \A p : /\ Runs(s, p) = {} <=> Runs(m, p) = {}
               /\ \A i \in Runs(s, p) : \E j \in Runs(m, p) : m[j].start <= s[i].start /\ s[i].end <= m[j].end
    BY MergedEnds
  <1> HIDE DEF m
  <1>3. /\ \A p : \A i \in Runs(s, p) : s[i].start \in Nat /\ s[i].end \in Nat
        /\ \A p : \A i \in Runs(m, p) : m[i].start \in Nat /\ m[i].end \in Nat
    BY <1>1, LaneFacts DEF Gapless, Runs
  <1>4. CASE c = [type |-> "none"]
    BY <1>4 DEF Holds
  <1>5. ASSUME NEW a, NEW b, c = [type |-> "precedence", first |-> a, second |-> b]
        PROVE  Holds(c, s)
    <2>1. \A x : Holds(c, x) <=> /\ Runs(x, a) # {} /\ Runs(x, b) # {}
                                 /\ \A i \in Runs(x, a), j \in Runs(x, b) : x[i].end <= x[j].start
      BY <1>5 DEF Holds
    <2>2. /\ Runs(m, a) # {} /\ Runs(m, b) # {}
          /\ \A i \in Runs(m, a), j \in Runs(m, b) : m[i].end <= m[j].start
      BY <2>1 DEF m
    <2>3. ASSUME NEW i \in Runs(s, a), NEW j \in Runs(s, b)
          PROVE  s[i].end <= s[j].start
      <3>1. PICK k \in Runs(m, a) : s[i].end <= m[k].end
        BY <1>2
      <3>2. PICK l \in Runs(m, b) : m[l].start <= s[j].start
        BY <1>2
      <3>3. m[k].end <= m[l].start
        BY <2>2
      <3>4. s[i].end \in Nat /\ m[k].end \in Nat /\ m[l].start \in Nat /\ s[j].start \in Nat
        BY <1>3
      <3> QED
        BY <3>1, <3>2, <3>3, <3>4
    <2> QED
      BY <1>2, <2>1, <2>2, <2>3
  <1>6. ASSUME NEW p, NEW n \in Nat, c = [type |-> "deadline", pid |-> p, by |-> n]
        PROVE  Holds(c, s)
    <2>1. \A x : Holds(c, x) <=> Runs(x, p) # {} /\ \A i \in Runs(x, p) : x[i].end <= n
      BY <1>6 DEF Holds
    <2>2. Runs(m, p) # {} /\ \A i \in Runs(m, p) : m[i].end <= n
      BY <2>1 DEF m
    <2>3. ASSUME NEW i \in Runs(s, p)
          PROVE  s[i].end <= n
      <3>1. PICK k \in Runs(m, p) : s[i].end <= m[k].end
        BY <1>2
      <3>2. m[k].end <= n /\ s[i].end \in Nat /\ m[k].end \in Nat
        BY <1>3, <2>2
      <3> QED
        BY <3>1, <3>2
    <2> QED
      BY <1>2, <2>1, <2>2, <2>3
  <1> QED
    BY <1>4, <1>5, <1>6 DEF OnSchedules

(* Filling is nothing to a constraint: it is not on idle time.             *)
LEMMA HoldsOfFilled ==
    ASSUME NEW T, NEW s \in Seq(Lane(T)), NEW m \in Seq(Lane(T)), ToSet(s) \subseteq ToSet(m),
           \A y \in ToSet(m) : y.pid = Idle \/ y \in ToSet(s), NEW c, OnSchedules(c)
    PROVE  /\ \A p : p # Idle => Ends(s, p) = Ends(m, p)
           /\ Holds(c, m) => Holds(c, s)
  <1>1. /\ \A i \in DOMAIN s : \E j \in DOMAIN m : m[j] = s[i]
        /\ \A j \in DOMAIN m : m[j].pid # Idle => \E i \in DOMAIN s : s[i] = m[j]
    BY DEF ToSet
  <1>2. \A p : /\ \A i \in Runs(s, p) : \E j \in Runs(m, p) : m[j] = s[i]
               /\ p # Idle => \A j \in Runs(m, p) : \E i \in Runs(s, p) : s[i] = m[j]
    BY <1>1 DEF Runs
  <1>3. \A p : p # Idle => Ends(s, p) = Ends(m, p)
    <2> SUFFICES ASSUME NEW p, p # Idle
                 PROVE  Ends(s, p) = Ends(m, p)
      OBVIOUS
    <2>1. \A i \in Runs(s, p) : s[i].end \in Ends(m, p)
      BY <1>2 DEF Ends
    <2>2. \A j \in Runs(m, p) : m[j].end \in Ends(s, p)
      BY <1>2 DEF Ends
    <2> QED
      BY <2>1, <2>2 DEF Ends
  <1>4. CASE c = [type |-> "none"]
    BY <1>3, <1>4 DEF Holds
  <1>5. ASSUME NEW a, NEW b, a # Idle, b # Idle, c = [type |-> "precedence", first |-> a, second |-> b], Holds(c, m)
        PROVE  Holds(c, s)
    <2>1. \A x : Holds(c, x) <=> /\ Runs(x, a) # {} /\ Runs(x, b) # {}
                                 /\ \A i \in Runs(x, a), j \in Runs(x, b) : x[i].end <= x[j].start
      BY <1>5 DEF Holds
    <2>2. Runs(s, a) # {} /\ Runs(s, b) # {}
      BY <1>2, <1>5, <2>1
    <2>3. \A i \in Runs(s, a), j \in Runs(s, b) : s[i].end <= s[j].start
      BY <1>2, <1>5, <2>1
    <2> QED
      BY <2>1, <2>2, <2>3
  <1>6. ASSUME NEW p, NEW n \in Nat, p # Idle, c = [type |-> "deadline", pid |-> p, by |-> n], Holds(c, m)
        PROVE  Holds(c, s)
    <2>1. \A x : Holds(c, x) <=> Runs(x, p) # {} /\ \A i \in Runs(x, p) : x[i].end <= n
      BY <1>6 DEF Holds
    <2> QED
      BY <1>2, <1>6, <2>1
  <1> QED
    BY <1>3, <1>4, <1>5, <1>6 DEF OnSchedules

----------------------------------------------------------------------------
(* The trial.                                                              *)

(* What has been written are segments with any start and end, processes of *)
(* the world, or events of its threads.                                    *)
InTheWorld(world, steps) ==
    /\ OfFamily(world, "scheduling") => steps \in Seq(Lane(Pids(world.problem)))
    /\ OfFamily(world, "banker") => steps \in Seq(Clients(world.problem))
    /\ OfFamily(world, "sync") => steps \in Seq(EventsOf(world.problem))

Built ==
    /\ trial.world \in Worlds
    /\ trial.space = Enumerated(trial.world)
    /\ Cardinality(trial.space) >= 3
    /\ OfFamily(trial.world, "scheduling") => OnSchedules(trial.constraint)

TrialInv ==
    /\ DOMAIN trial = DOMAIN NoTrial
    /\ trial.stage \in {"idle", "world", "writing", "ended", "cut"}
    /\ trial.stage # "idle" => Built /\ InTheWorld(trial.world, trial.steps)
    /\ trial.stage \in {"writing", "ended", "cut"} => trial.ref \in TaskValid

(* A world is of one of the three families.                                *)
LEMMA OneFamily ==
    ASSUME WorldsAssumption, NEW world \in Worlds
    PROVE  /\ OfFamily(world, "scheduling") => ScheduleProblem(world.problem) /\ ~OfFamily(world, "banker") /\ ~OfFamily(world, "sync")
           /\ OfFamily(world, "sync") => ThreadProblem(world.problem) /\ ~OfFamily(world, "scheduling") /\ ~OfFamily(world, "banker")
           /\ OfFamily(world, "banker") => BankProblem(world.problem) /\ ~OfFamily(world, "scheduling") /\ ~OfFamily(world, "sync")
           /\ OfFamily(world, "scheduling") \/ OfFamily(world, "sync") \/ OfFamily(world, "banker")
  BY DEF WorldsAssumption, OfFamily

(* A constraint of a world of schedules speaks of who ends when.           *)
LEMMA ConstraintsOfSchedules ==
    ASSUME WorldsAssumption, NEW world \in Worlds, OfFamily(world, "scheduling"),
           NEW c \in {[type |-> "none"]} \union Candidates(world, Enumerated(world))
    PROVE  OnSchedules(c)
  <1> DEFINE P == world.problem
  <1>1. ScheduleProblem(P) /\ Enumerated(world) = Space(P)
    BY OneFamily DEF Enumerated
  <1>2. Candidates(world, Space(P)) =
            {[type |-> "precedence", first |-> a, second |-> b] : a \in Procs(P), b \in Procs(P)}
            \union {[type |-> "deadline", pid |-> p, by |-> Finish(t, p)] : p \in Procs(P), t \in Space(P)}
    BY OneFamily DEF Candidates
  <1>a. \A p \in Procs(P) : p # Idle
    BY <1>1 DEF ScheduleProblem
  <1> HIDE DEF P
  <1>3. ASSUME NEW p \in Procs(P), NEW t \in Space(P)
        PROVE  Finish(t, p) \in Nat
    BY <1>1, SpaceOfSchedules
  <1>4. ASSUME NEW p \in Procs(P), NEW t \in Space(P), c = [type |-> "deadline", pid |-> p, by |-> Finish(t, p)]
        PROVE  OnSchedules(c)
    BY <1>3, <1>4, <1>a DEF OnSchedules
  <1>5. ASSUME NEW a \in Procs(P), NEW b \in Procs(P), c = [type |-> "precedence", first |-> a, second |-> b]
        PROVE  OnSchedules(c)
    BY <1>5, <1>a DEF OnSchedules
  <1> QED
    BY <1>1, <1>2, <1>4, <1>5 DEF OnSchedules

(* The enumerated traces are in the world, and judged to be valid; of      *)
(* three different ones none is empty.                                     *)
LEMMA SpaceFacts ==
    ASSUME WorldsAssumption, NEW world \in Worlds
    PROVE  /\ \A t \in Enumerated(world) : InTheWorld(world, t) /\ RulesCheck(world, t) = "ok"
           /\ Cardinality(Enumerated(world)) >= 3 => <<>> \notin Enumerated(world)
  <1>a. \A space : Cardinality(space) >= 3 => ~(space \subseteq {<<>>})
    <2> SUFFICES ASSUME NEW space, Cardinality(space) >= 3, space \subseteq {<<>>}
                 PROVE  FALSE
      OBVIOUS
    <2>1. IsFiniteSet({<<>>}) /\ Cardinality({<<>>}) = 1
      BY FS_Singleton
    <2>2. Cardinality(space) <= 1 /\ Cardinality(space) \in Nat
      BY <2>1, FS_Subset, FS_CardinalityType
    <2> QED
      BY <2>2
  <1> DEFINE P == world.problem
  <1>1. CASE OfFamily(world, "banker")
    <2>1. BankProblem(P) /\ ~OfFamily(world, "sync") /\ ~OfFamily(world, "scheduling")
      BY <1>1, OneFamily
    <2>2. Enumerated(world) = SafeSequences(P) /\ \A t : RulesCheck(world, t) = JudgeOrder(P, t)
      BY <2>1 DEF Enumerated, RulesCheck
    <2> HIDE DEF P
    <2>3. \A t \in SafeSequences(P) : t \in Seq(Clients(P)) /\ ToSet(t) = Clients(P) /\ JudgeOrder(P, t) = "ok"
      BY <2>1, SafeOrders, JudgedOrder
    <2>4. ASSUME <<>> \in SafeSequences(P)
          PROVE  SafeSequences(P) \subseteq {<<>>}
      <3>1. Clients(P) = {}
        <4>1. ToSet(<<>>) = {}
          BY DEF ToSet
        <4> QED
          BY <2>3, <2>4, <4>1
      <3> SUFFICES ASSUME NEW t \in SafeSequences(P)
                   PROVE  t = <<>>
        OBVIOUS
      <3>2. t \in Seq({})
        BY <2>3, <3>1
      <3>3. Len(t) = 0
        <4>1. Len(t) \in Nat /\ \A i \in 1 .. Len(t) : t[i] \in {}
          BY <3>2, NamedFacts
        <4>2. 1 \notin 1 .. Len(t)
          BY <4>1
        <4> QED
          BY <4>1, <4>2
      <3> QED
        BY <3>2, <3>3, EmptySeq
    <2>5. Cardinality(SafeSequences(P)) >= 3 => <<>> \notin SafeSequences(P)
      BY <1>a, <2>4
    <2> QED
      BY <2>1, <2>2, <2>3, <2>5 DEF InTheWorld, P
  <1>2. CASE OfFamily(world, "sync")
    <2>1. ThreadProblem(P) /\ ~OfFamily(world, "banker") /\ ~OfFamily(world, "scheduling")
      BY <1>2, OneFamily
    <2>2. Enumerated(world) = Interleavings(P) /\ \A t : RulesCheck(world, t) = JudgeEvents(P, t)
      BY <1>2, <2>1 DEF Enumerated, RulesCheck
    <2> HIDE DEF P
    <2>3. \A t \in Interleavings(P) : /\ t \in Seq(EventsOf(P)) /\ Len(t) = OpsLeft(InitialConfig(P))
                                      /\ JudgeEvents(P, t) = "ok"
      BY <2>1, InterleavingsAreValid
    <2>4. ASSUME <<>> \in Interleavings(P)
          PROVE  Interleavings(P) \subseteq {<<>>}
      <3> SUFFICES ASSUME NEW t \in Interleavings(P)
                   PROVE  t = <<>>
        OBVIOUS
      <3>1. Len(<<>>) = 0 /\ Len(t) = Len(<<>>)
        BY <2>3, <2>4
      <3> QED
        BY <2>3, <3>1, EmptySeq
    <2>5. Cardinality(Interleavings(P)) >= 3 => <<>> \notin Interleavings(P)
      BY <1>a, <2>4
    <2> QED
      BY <2>1, <2>2, <2>3, <2>5 DEF InTheWorld, P
  <1>3. CASE OfFamily(world, "scheduling")
    <2>1. ScheduleProblem(P) /\ ~OfFamily(world, "banker") /\ ~OfFamily(world, "sync")
      BY <1>3, OneFamily
    <2>2. Enumerated(world) = Space(P) /\ \A t : RulesCheck(world, t) = JudgeSchedule(P, t)
      BY <1>3, <2>1 DEF Enumerated, RulesCheck
    <2> HIDE DEF P
    <2>3. ASSUME NEW t \in Space(P)
          PROVE  Gapless(Pids(P), t) /\ JudgeSchedule(P, t) = "ok"
      <3>1. Gapless(Pids(P), t) /\ Normalize(t) = t
        BY <2>1, SpaceOfSchedules
      <3> QED
        BY <2>1, <3>1, JudgeIsSpace
    <2>4. Cardinality(Space(P)) >= 3 => <<>> \notin Space(P)
      BY <1>a, <2>1, EmptySchedule
    <2>5. \A t \in Space(P) : t \in Seq(Lane(Pids(P)))
      BY <2>3 DEF Gapless
    <2> QED
      BY <2>1, <2>2, <2>3, <2>4, <2>5 DEF InTheWorld, P
  <1> QED
    BY <1>1, <1>2, <1>3, OneFamily

LEMMA TrialInvHolds ==
    ASSUME WorldsAssumption
    PROVE  TrialSpec => []TrialInv
  <1>1. TrialInit => TrialInv
    BY DEF TrialInit, TrialInv, NoTrial
  <1>2. ASSUME TrialInv, [TrialNext]_trial
        PROVE  TrialInv'
    <2>1. ASSUME NEW world \in Worlds, Building(world)
          PROVE  TrialInv'
      <3>1. /\ DOMAIN trial' = DOMAIN NoTrial /\ trial'.stage = "world" /\ trial'.world = world
            /\ trial'.space = Enumerated(world) /\ Cardinality(Enumerated(world)) >= 3 /\ trial'.steps = <<>>
        BY <2>1 DEF Building, NoTrial
      <3>2. InTheWorld(world, <<>>)
        BY EmptySeq DEF InTheWorld
      <3>3. PICK c \in {[type |-> "none"]} \union Candidates(world, Enumerated(world)) : trial'.constraint = c
        BY <2>1 DEF Building, NoTrial
      <3>4. OfFamily(world, "scheduling") => OnSchedules(c)
        BY ConstraintsOfSchedules
      <3> QED
        BY <3>1, <3>2, <3>3, <3>4 DEF TrialInv, Built
    <2>2. CASE BuildBank
      <3>1. PICK ref \in TaskValid : trial' = [trial EXCEPT !.stage = "writing", !.ref = ref]
        BY <2>2 DEF BuildBank
      <3>2. /\ DOMAIN trial' = DOMAIN trial /\ trial'.stage = "writing" /\ trial'.ref = ref
            /\ trial'.world = trial.world /\ trial'.space = trial.space /\ trial'.constraint = trial.constraint
            /\ trial'.steps = trial.steps
        BY <1>2, <3>1 DEF TrialInv, NoTrial
      <3>3. trial.stage = "world"
        BY <2>2 DEF BuildBank
      <3> QED
        BY <1>2, <3>2, <3>3 DEF TrialInv, Built, TaskValid
    <2>3. CASE WriteEntry
      <3>1. PICK x \in Entries : trial' = [trial EXCEPT !.steps = Append(@, x)]
        BY <2>3 DEF WriteEntry, Bounded
      <3>2. /\ DOMAIN trial' = DOMAIN trial /\ trial'.stage = trial.stage /\ trial'.ref = trial.ref
            /\ trial'.world = trial.world /\ trial'.space = trial.space /\ trial'.constraint = trial.constraint
            /\ trial'.steps = Append(trial.steps, x)
        BY <1>2, <3>1 DEF TrialInv, NoTrial
      <3>3. trial.stage = "writing" /\ trial.world \in Worlds /\ trial.space = Enumerated(trial.world)
        BY <1>2, <2>3 DEF WriteEntry, TrialInv, Built
      <3>4. OfFamily(trial.world, "banker") => x \in Clients(trial.world.problem)
        BY <3>1 DEF Entries, OfFamily
      <3>5. ASSUME OfFamily(trial.world, "sync")
            PROVE  x \in EventsOf(trial.world.problem)
        <4>1. x \in UNION {ToSet(t) : t \in trial.space}
          BY <3>1, <3>5 DEF Entries, OfFamily
        <4>2. PICK t \in trial.space : x \in ToSet(t)
          BY <4>1
        <4>3. t \in Seq(EventsOf(trial.world.problem))
          BY <3>3, <3>5, SpaceFacts DEF InTheWorld
        <4> QED
          BY <4>2, <4>3, NamedFacts
      <3>6. InTheWorld(trial.world, trial.steps)
        BY <1>2, <3>3 DEF TrialInv
      <3>b. OfFamily(trial.world, "scheduling") => ~OfFamily(trial.world, "sync")
        BY DEF OfFamily
      <3>a. ASSUME OfFamily(trial.world, "scheduling")
            PROVE  x \in Lane(Pids(trial.world.problem))
        <4> DEFINE segments == {Segment(p, start, end) : p \in Procs(trial.world.problem) \union {Idle},
                                                         start \in 0 .. MaxTime, end \in 0 .. MaxTime}
        <4>0. x \in segments
          <5>1. Entries = segments
            BY <3>a, <3>b DEF Entries
          <5> QED
            BY <3>1, <5>1
        <4>1. PICK p \in Pids(trial.world.problem), i \in 0 .. MaxTime, j \in 0 .. MaxTime : x = Segment(p, i, j)
          BY <4>0 DEF Pids
        <4>2. i \in Nat /\ j \in Nat
          OBVIOUS
        <4> QED
          BY <4>1, <4>2, SegmentFacts
      <3>7. InTheWorld(trial.world, Append(trial.steps, x))
        BY <3>4, <3>5, <3>6, <3>a, AppendProperties DEF InTheWorld
      <3> QED
        BY <1>2, <3>2, <3>3, <3>7 DEF TrialInv, Built, TaskValid
    <2>4. ASSUME NEW stage, stage \in {"ended", "cut"}, trial.stage = "writing",
                 trial' = [trial EXCEPT !.stage = stage] \/ trial' = [trial EXCEPT !.stage = stage, !.unknown = TRUE]
          PROVE  TrialInv'
      <3>1. /\ DOMAIN trial' = DOMAIN trial /\ trial'.stage = stage /\ trial'.ref = trial.ref
            /\ trial'.world = trial.world /\ trial'.space = trial.space /\ trial'.constraint = trial.constraint
            /\ trial'.steps = trial.steps
        BY <1>2, <2>4 DEF TrialInv, NoTrial
      <3> QED
        BY <1>2, <2>4, <3>1 DEF TrialInv, Built, TaskValid
    <2>5. CASE WriteStranger
      BY <2>4, <2>5 DEF WriteStranger
    <2>6. CASE StopWriting
      BY <2>4, <2>6 DEF StopWriting
    <2>7. CASE CutOff
      BY <2>4, <2>7 DEF CutOff
    <2>8. CASE UNCHANGED trial
      BY <1>2, <2>8 DEF TrialInv, Built, TaskValid
    <2> QED
      BY <1>2, <2>1, <2>2, <2>3, <2>5, <2>6, <2>7, <2>8 DEF TrialNext
  <1> QED
    BY <1>1, <1>2, PTL DEF TrialSpec

(* A match is the reference itself, or of a schedule what becomes the      *)
(* reference once normal; the reference is one of the enumerated.          *)
LEMMA MatchedIsValid ==
    ASSUME WorldsAssumption, TrialInv
    PROVE  MatchIsValid
  <1> SUFFICES ASSUME Ended, TakesTime(trial.steps), Matches(trial.steps, trial.ref)
               PROVE  SemanticallyValid /\ SameOutcome
    BY DEF MatchIsValid
  <1>1. /\ trial.stage \in {"ended", "cut"} /\ trial.world \in Worlds /\ trial.space = Enumerated(trial.world)
        /\ Cardinality(Enumerated(trial.world)) >= 3
        /\ trial.ref \in trial.space /\ Holds(trial.constraint, trial.ref)
    BY DEF TrialInv, Built, Ended, TaskValid
  <1>2. ASSUME ~OfFamily(trial.world, "scheduling")
        PROVE  SemanticallyValid /\ SameOutcome
    <2>1. trial.steps = trial.ref /\ ~trial.unknown
      BY <1>2 DEF Matches, Norm
    <2>2. Rule = "ok" /\ trial.steps # <<>>
      BY <1>1, <2>1, SpaceFacts DEF Rule
    <2>3. Verdict = "TRUE"
      BY <1>1, <2>1, <2>2 DEF Verdict
    <2> QED
      BY <2>1, <2>3 DEF SemanticallyValid, SameOutcome
  <1>3. ASSUME OfFamily(trial.world, "scheduling")
        PROVE  SemanticallyValid /\ SameOutcome
    <2> DEFINE P == trial.world.problem
               s == trial.steps
               c == trial.constraint
    <2> DEFINE m == Filled(s)
    <2>1. /\ s \in Seq(Lane(Pids(P))) /\ OnSchedules(c) /\ ~trial.unknown
          /\ Normalize(s) = Normalize(trial.ref)
      BY <1>1, <1>3 DEF TrialInv, Built, InTheWorld, Matches, Norm
    <2>2. ScheduleProblem(P) /\ trial.space = Space(P) /\ Rule = JudgeSchedule(P, s)
      BY <1>1, <1>3, OneFamily DEF Enumerated, Rule, RulesCheck
    <2>a. Timed(s) /\ Idle \in Pids(P)
      BY <1>3, <2>1, LaneFacts DEF TakesTime, Timed, Pids
    <2> HIDE DEF P, s, c
    <2>3. trial.ref = Normalize(trial.ref) /\ trial.ref \in Space(P) /\ Gapless(Pids(P), trial.ref)
      BY <1>1, <2>2, SpaceOfSchedules
    <2>b. ~HasOverlap(s)
      BY <2>1, <2>3, <2>a, TimedApart
    <2>4. Gapless(Pids(P), m) /\ m \in Seq(Lane(Pids(P))) /\ trial.ref = Merged(m)
      BY <2>1, <2>3, <2>a, <2>b, FilledSame DEF Gapless
    <2>c. ToSet(s) \subseteq ToSet(m) /\ \A y \in ToSet(m) : y.pid = Idle \/ y \in ToSet(s)
      BY <2>1, <2>a, FilledTimed
    <2>5. Rule = "ok"
      BY <2>1, <2>2, <2>3, <2>b, JudgedIsInSpace
    <2>6. s # <<>>
      <3>1. trial.ref # <<>>
        BY <1>1, SpaceFacts
      <3>2. Merged(<<>>) = <<>> /\ Filled(<<>>) = <<>>
        <4>1. <<>> \in Seq(Lane(Pids(P))) /\ Segment(Idle, 0, 1) \in Lane(Pids(P))
          BY EmptySeq DEF Segment, Lane, Pids
        <4>2. Gapless(Pids(P), <<>>)
          BY GaplessEmpty
        <4> QED
          BY <4>1, <4>2, MergedStep, FilledAlready
      <3> QED
        BY <2>4, <3>1, <3>2
    <2> HIDE DEF m
    <2>7. Holds(c, s)
      <3>1. Holds(c, Merged(m))
        BY <1>1, <2>4 DEF c
      <3>2. Holds(c, m)
        BY <2>1, <2>4, <3>1, HoldsOfMerged
      <3> QED
        BY <2>1, <2>4, <2>c, <3>2, HoldsOfFilled
    <2>8. Verdict = "TRUE"
      BY <2>1, <2>5, <2>6, <2>7 DEF Verdict, s, c
    <2>9. Observe(trial.world, s) = Observe(trial.world, trial.ref)
      <3>1. \A p : Max({-1} \union Ends(m, p)) = Max({-1} \union Ends(trial.ref, p))
        BY <2>4, MergedEnds
      <3>2. \A t : Observe(trial.world, t) = [p \in Procs(P) |-> Max({-1} \union Ends(t, p))]
        BY <1>1, <1>3, OneFamily DEF Observe, Ends, P
      <3>3. \A p \in Procs(P) : Ends(s, p) = Ends(m, p)
        BY <2>1, <2>2, <2>4, <2>c, HoldsOfFilled DEF ScheduleProblem
      <3>4. \A p \in Procs(P) : Max({-1} \union Ends(s, p)) = Max({-1} \union Ends(trial.ref, p))
        BY <3>1, <3>3
      <3> QED
        BY <3>2, <3>4
    <2> QED
      BY <2>8, <2>9 DEF SemanticallyValid, SameOutcome, s
  <1> QED
    BY <1>2, <1>3

----------------------------------------------------------------------------
(* Round robin is fair.  A process waits since it last ran, or since it    *)
(* arrived.                                                                *)
Prior(s, i, p) == {s[k].end : k \in {k \in 1 .. i - 1 : s[k].pid = p}}
SinceOf(P, ends, p) == IF ends = {} THEN P.arrival[p] ELSE Max(ends)
Since(P, s, p) == SinceOf(P, Ends(s, p), p)
Rounds(P) == P.quantum * (Cardinality(Procs(P)) - 1)

LEMMA WaitsForm ==
    ASSUME NEW P, NEW s, NEW p
    PROVE  WaitsAtMost(P, s, p) <=>
               \A i \in DOMAIN s : s[i].pid = p => s[i].start - SinceOf(P, Prior(s, i, p), p) <= Rounds(P)
  <1>1. WaitsAtMost(P, s, p) <=>
            \A i \in {i \in DOMAIN s : s[i].pid = p} : s[i].start - SinceOf(P, Prior(s, i, p), p) <= Rounds(P)
    BY DEF WaitsAtMost, SinceOf, Prior, Rounds
  <1> QED
    BY <1>1

LEMMA SinceFacts ==
    ASSUME NEW P, ScheduleProblem(P), NEW T, NEW s \in Seq(Lane(T)), NEW x \in Lane(T),
           Gapless(T, Append(s, x)), NEW p \in Procs(P)
    PROVE  /\ Since(P, s, p) \in Nat
           /\ Since(P, Append(s, x), p) = IF x.pid = p THEN x.end ELSE Since(P, s, p)
           /\ WaitsAtMost(P, Append(s, x), p) <=>
                  WaitsAtMost(P, s, p) /\ (x.pid = p => x.start - Since(P, s, p) <= Rounds(P))
  <1> DEFINE a == Append(s, x)
             n == Len(s)
  <1>1. /\ a \in Seq(Lane(T)) /\ n \in Nat /\ Len(a) = n + 1 /\ a[n + 1] = x
        /\ \A i \in 1 .. n : a[i] = s[i]
        /\ Gapless(T, s) /\ Gapless(T, a) /\ x.start < x.end /\ x.start \in Nat /\ x.end \in Nat
        /\ P.arrival[p] \in Nat
    BY AppendFacts, GaplessAppend, ProblemFacts DEF Lane
  <1>2. DOMAIN a = 1 .. n + 1 /\ DOMAIN s = 1 .. n
    BY <1>1, LenProperties
  <1> HIDE DEF a, n
  <1>3. /\ Ends(s, p) \subseteq Nat /\ (Ends(s, p) # {} => Max(Ends(s, p)) \in Ends(s, p))
        /\ Ends(s, p) = {s[i].end : i \in {i \in 1 .. n : s[i].pid = p}}
        /\ Ends(a, p) = {a[i].end : i \in {i \in 1 .. n + 1 : a[i].pid = p}}
        /\ Ends(a, p) \subseteq Nat
    BY <1>1, EndsFacts DEF Ends, n
  <1>4. Since(P, s, p) \in Nat
    BY <1>1, <1>3 DEF Since, SinceOf
  <1>5. x.pid # p => Ends(a, p) = Ends(s, p)
    BY <1>1, <1>3
  <1>6. ASSUME x.pid = p
        PROVE  Ends(a, p) # {} /\ Max(Ends(a, p)) = x.end
    <2>1. n + 1 \in 1 .. n + 1 /\ \A i \in 1 .. n + 1 : i # n + 1 => i < n + 1
      BY <1>1
    <2>2. \A i \in 1 .. n + 1 : i # n + 1 => a[i].end <= x.start
      BY <1>1, <2>1, GaplessRises
    <2>3. \A i \in 1 .. n + 1 : a[i].end \in Nat
      BY <1>1, LaneFacts
    <2>4. x.end \in Ends(a, p)
      BY <1>1, <1>3, <1>6, <2>1
    <2>5. \A y \in Ends(a, p) : y <= x.end
      BY <1>1, <1>3, <2>2, <2>3
    <2>6. Ends(a, p) \subseteq Int
      BY <1>3
    <2> QED
      BY <2>4, <2>5, <2>6, GreatestIs
  <1>7. Since(P, a, p) = IF x.pid = p THEN x.end ELSE Since(P, s, p)
    BY <1>5, <1>6 DEF Since, SinceOf
  <1>8. \A i \in 1 .. n : Prior(a, i, p) = Prior(s, i, p)
    BY <1>1 DEF Prior
  <1>9. Prior(a, n + 1, p) = Ends(s, p)
    BY <1>1, <1>3 DEF Prior
  <1>10. WaitsAtMost(P, a, p) <=> WaitsAtMost(P, s, p) /\ (x.pid = p => x.start - Since(P, s, p) <= Rounds(P))
    <2> DEFINE Ok(t, i) == t[i].pid = p => t[i].start - SinceOf(P, Prior(t, i, p), p) <= Rounds(P)
    <2>1. WaitsAtMost(P, a, p) <=> \A i \in 1 .. n + 1 : Ok(a, i)
      BY <1>2, WaitsForm
    <2>2. WaitsAtMost(P, s, p) <=> \A i \in 1 .. n : Ok(s, i)
      BY <1>2, WaitsForm
    <2>3. \A i \in 1 .. n : Ok(a, i) <=> Ok(s, i)
      BY <1>1, <1>8
    <2>4. Ok(a, n + 1) <=> (x.pid = p => x.start - Since(P, s, p) <= Rounds(P))
      BY <1>1, <1>9 DEF Since
    <2> HIDE DEF Ok
    <2>5. \A i \in 1 .. n + 1 : i = n + 1 \/ i \in 1 .. n
      BY <1>1
    <2>6. n + 1 \in 1 .. n + 1 /\ \A i \in 1 .. n : i \in 1 .. n + 1
      BY <1>1
    <2> QED
      BY <2>1, <2>2, <2>3, <2>4, <2>5, <2>6
  <1> QED
    BY <1>4, <1>7, <1>10 DEF a

LEMMA SinceType ==
    ASSUME NEW P, ScheduleProblem(P), NEW T, NEW s, Tidy(T, s), NEW p \in Procs(P)
    PROVE  Since(P, s, p) \in Nat
  <1>1. /\ Ends(s, p) \subseteq Nat /\ (Ends(s, p) # {} => Max(Ends(s, p)) \in Ends(s, p))
        /\ P.arrival[p] \in Nat
    BY EndsFacts, ProblemFacts DEF Tidy
  <1> QED
    BY <1>1 DEF Since, SinceOf

LEMMA SinceJoined ==
    ASSUME NEW P, ScheduleProblem(P), NEW T, NEW s, Tidy(T, s), NEW x \in Lane(T),
           x.start = EndOf(s), x.start < x.end, NEW p \in Procs(P), WaitsAtMost(P, s, p),
           x.pid = p => x.start - Since(P, s, p) <= Rounds(P)
    PROVE  /\ Since(P, s, p) \in Nat
           /\ Since(P, Joined(s, x), p) = IF x.pid = p THEN x.end ELSE Since(P, s, p)
           /\ WaitsAtMost(P, Joined(s, x), p)
  <1>1. s \in Seq(Lane(T)) /\ Gapless(T, s) /\ x.start \in Nat /\ x.end \in Nat /\ x.pid \in T
    BY DEF Tidy, Gapless, Lane
  <1>2. Gapless(T, Append(s, x))
    BY <1>1, GaplessAppend
  <1>3. CASE s = <<>> \/ s[Len(s)].pid # x.pid
    <2>1. Joined(s, x) = Append(s, x)
      BY <1>1, <1>3, JoinedApart
    <2> QED
      BY <1>1, <1>2, <2>1, SinceFacts
  <1>4. CASE s # <<>> /\ s[Len(s)].pid = x.pid
    <2>1. PICK r \in Seq(Lane(T)), y \in Lane(T) : s = Append(r, y)
      BY <1>1, <1>4, SequenceEmptyOrAppend
    <2>2. s[Len(s)] = y /\ EndOf(s) = y.end /\ y.start \in Nat /\ y.end \in Nat
      <3>1. Len(s) = Len(r) + 1 /\ s[Len(r) + 1] = y /\ EndOf(s) = y.end
        BY <2>1, AppendFacts, EndOfAppend
      <3> QED
        BY <3>1 DEF Lane
    <2> DEFINE z == Segment(x.pid, y.start, x.end)
    <2>3. z \in Lane(T) /\ z.pid = x.pid /\ z.start = y.start /\ z.end = x.end
      BY <1>1, <2>2 DEF Segment, Lane
    <2>4. Joined(s, x) = Append(r, z)
      BY <1>4, <2>1, <2>2, JoinedAppend
    <2> HIDE DEF z
    <2>5. Gapless(T, r) /\ y.start = EndOf(r) /\ y.start < y.end
      BY <1>1, <2>1, GaplessAppend
    <2>6. Gapless(T, Append(r, z))
      BY <1>1, <2>2, <2>3, <2>5, GaplessAppend
    <2>7. /\ Since(P, s, p) = IF x.pid = p THEN y.end ELSE Since(P, r, p)
          /\ Since(P, r, p) \in Nat
          /\ WaitsAtMost(P, r, p) /\ (x.pid = p => y.start - Since(P, r, p) <= Rounds(P))
      BY <1>1, <1>4, <2>1, <2>2, SinceFacts
    <2>8. /\ Since(P, Append(r, z), p) = IF x.pid = p THEN x.end ELSE Since(P, r, p)
          /\ WaitsAtMost(P, Append(r, z), p)
      BY <2>3, <2>6, <2>7, SinceFacts
    <2> QED
      BY <2>2, <2>4, <2>7, <2>8
  <1> QED
    BY <1>3, <1>4

(* The quanta of those before the k-th in a queue.                         *)
Turn(P, k) == P.quantum * (k - 1)

LEMMA TurnFacts ==
    ASSUME NEW P, P.quantum \in Nat \ {0}
    PROVE  /\ Turn(P, 1) = 0
           /\ \A k \in Nat \ {0} : Turn(P, k) \in Nat /\ Turn(P, k + 1) = Turn(P, k) + P.quantum
           /\ \A j, k \in Nat \ {0} : j <= k => Turn(P, j) <= Turn(P, k)
  <1> DEFINE q == P.quantum
  <1>1. q \in Nat /\ q > 0
    OBVIOUS
  <1> HIDE DEF q
  <1>2. q * (1 - 1) = 0
    BY <1>1
  <1>3. \A k \in Nat \ {0} : q * (k - 1) \in Nat /\ q * ((k + 1) - 1) = q * (k - 1) + q
    BY <1>1
  <1>4. \A j, k \in Nat \ {0} : j <= k => q * (j - 1) <= q * (k - 1)
    BY <1>1
  <1> QED
    BY <1>2, <1>3, <1>4 DEF Turn, q

(* Where a queue that moved up has its elements.                           *)
LEMMA QueueParts ==
    ASSUME NEW S, NEW a \in Seq(S), NEW b \in Seq(S), NEW c \in Seq(S)
    PROVE  LET q == a \o b \o c
           IN  /\ Len(q) = Len(a) + Len(b) + Len(c)
               /\ \A k \in 1 .. Len(q) : \/ k \in 1 .. Len(a) /\ q[k] = a[k]
                                         \/ k - Len(a) \in 1 .. Len(b) /\ q[k] = b[k - Len(a)]
                                         \/ k - Len(a) - Len(b) \in 1 .. Len(c) /\ q[k] = c[k - Len(a) - Len(b)]
  BY SMTT(30)

(* No queue is longer than the processes are many.                         *)
LEMMA InTurn ==
    ASSUME NEW P, ScheduleProblem(P), P.policy = "RR", NEW c, Legal(P, c)
    PROVE  /\ Len(c.queue) \in Nat /\ Rounds(P) \in Int
           /\ \A k \in 1 .. Len(c.queue) : Turn(P, k) \in Nat /\ Turn(P, k) <= Rounds(P)
           /\ \A k \in 1 .. Len(c.queue) - 1 : Turn(P, k) + P.quantum <= Rounds(P)
           /\ \A p \in Procs(P) \ Arrived(P, c) :
                 \A k \in 1 .. Len(c.queue) : Turn(P, k) + P.quantum <= Rounds(P)
  <1> DEFINE n == Cardinality(Procs(P))
             A == Arrived(P, c)
             l == Len(c.queue)
             q == P.quantum
  <1>1. IsFiniteSet(Procs(P)) /\ n \in Nat /\ q \in Nat /\ q > 0 /\ P.quantum \in Nat \ {0}
    BY ProblemFacts, FS_CardinalityType DEF ScheduleProblem
  <1>2. Roster(A, c.queue) /\ A \subseteq Procs(P) /\ l \in Nat
    BY RosterFacts DEF Legal, Arrived, Unfinished, States
  <1>3. l = Cardinality(A)
    BY <1>2, DistinctCount DEF Roster
  <1>4. l <= n /\ \A p \in Procs(P) \ A : l <= n - 1
    <2>1. l <= n
      BY <1>1, <1>2, <1>3, FS_Subset
    <2>2. ASSUME NEW p \in Procs(P) \ A
          PROVE  l <= n - 1
      <3>1. A \subseteq Procs(P) \ {p}
        BY <1>2
      <3>2. IsFiniteSet(Procs(P) \ {p}) /\ Cardinality(Procs(P) \ {p}) = n - 1
        BY <1>1, FS_RemoveElement
      <3> QED
        BY <1>3, <3>1, <3>2, FS_Subset
    <2> QED
      BY <2>1, <2>2
  <1> HIDE DEF n, A, l, q
  <1>5. /\ \A k \in Nat \ {0} : Turn(P, k) \in Nat /\ Turn(P, k + 1) = Turn(P, k) + q
        /\ \A j, k \in Nat \ {0} : j <= k => Turn(P, j) <= Turn(P, k)
    BY <1>1, TurnFacts DEF q
  <1>6. Rounds(P) = Turn(P, n) /\ Rounds(P) \in Int
    <2>1. q * (n - 1) \in Int
      BY <1>1
    <2> QED
      BY <2>1 DEF Rounds, Turn, n, q
  <1>7. ASSUME NEW k \in 1 .. l
        PROVE  Turn(P, k) \in Nat /\ Turn(P, k) <= Rounds(P) /\ (k <= n - 1 => Turn(P, k) + q <= Rounds(P))
    <2>1. k \in Nat \ {0} /\ n \in Nat \ {0} /\ k <= n /\ k + 1 \in Nat \ {0}
      BY <1>1, <1>2, <1>4
    <2> QED
      BY <1>5, <1>6, <2>1
  <1>8. \A k \in 1 .. l - 1 : k \in 1 .. l /\ k <= n - 1
    BY <1>1, <1>2, <1>4
  <1>9. \A p \in Procs(P) \ A : \A k \in 1 .. l : k <= n - 1
    BY <1>1, <1>2, <1>4
  <1> QED
    BY <1>2, <1>6, <1>7, <1>8, <1>9 DEF A, l, q

(* Nobody has waited too long, who is queued will not have before its turn *)
(* comes, and who is yet to come has not run.                              *)
Fair(P, m, c) ==
    /\ \A p \in Procs(P) : WaitsAtMost(P, m, p)
    /\ \A k \in 1 .. Len(c.queue) : c.t - Since(P, m, c.queue[k]) + Turn(P, k) <= Rounds(P)
    /\ \A p \in Procs(P) : P.arrival[p] > c.t => Since(P, m, p) = P.arrival[p]

LEMMA FairAtFirst ==
    ASSUME NEW P, ScheduleProblem(P), P.policy = "RR", NEW s \in InitialStates(P)
    PROVE  Fair(P, <<>>, s)
  <1>1. Legal(P, s) /\ s.t = 0
    BY InitialFacts
  <1>2. \A p \in Procs(P) : WaitsAtMost(P, <<>>, p) /\ Since(P, <<>>, p) = P.arrival[p]
    <2>1. DOMAIN <<>> = {}
      BY EmptySeq
    <2>2. \A p : Ends(<<>>, p) = {}
      BY <2>1 DEF Ends, Runs
    <2> QED
      BY <2>1, <2>2, WaitsForm DEF Since, SinceOf
  <1>3. ASSUME NEW k \in 1 .. Len(s.queue)
        PROVE  s.t - Since(P, <<>>, s.queue[k]) + Turn(P, k) <= Rounds(P)
    <2>1. Roster(Arrived(P, s), s.queue) /\ Arrived(P, s) \subseteq Procs(P)
      BY <1>1 DEF Legal, Arrived, Unfinished, States
    <2>2. Len(s.queue) \in Nat /\ s.queue[k] \in Arrived(P, s) /\ s.queue[k] \in Procs(P)
      BY <2>1, RosterFacts
    <2>3. Since(P, <<>>, s.queue[k]) = 0
      BY <1>1, <1>2, <2>2, ProblemFacts DEF Arrived
    <2>4. Turn(P, k) <= Rounds(P) /\ Turn(P, k) \in Nat
      BY <1>1, <2>2, InTurn
    <2> QED
      BY <1>1, <2>3, <2>4
  <1> QED
    BY <1>1, <1>2, <1>3 DEF Fair

(* What a step's segment changes, whoever runs.                            *)
Extends(P, m, c, x) ==
    /\ Legal(P, c) /\ Legal(P, x.state) /\ c.t < x.state.t
    /\ Tidy(Pids(P), m) /\ EndOf(m) = c.t
    /\ x.seg \in Lane(Pids(P)) /\ x.seg.start = c.t /\ x.seg.end = x.state.t

LEMMA FairSegment ==
    ASSUME NEW P, ScheduleProblem(P), NEW m, NEW c, NEW x, Extends(P, m, c, x), NEW p \in Procs(P),
           WaitsAtMost(P, m, p), x.seg.pid = p => c.t - Since(P, m, p) <= Rounds(P)
    PROVE  /\ Since(P, m, p) \in Nat /\ WaitsAtMost(P, Joined(m, x.seg), p)
           /\ Since(P, Joined(m, x.seg), p) = IF x.seg.pid = p THEN x.state.t ELSE Since(P, m, p)
  BY SinceJoined DEF Extends

LEMMA FairWait ==
    ASSUME NEW P, ScheduleProblem(P), P.policy = "RR", NEW m, NEW c, NEW x, Extends(P, m, c, x),
           Fair(P, m, c), Waits(P, c, x)
    PROVE  Fair(P, Joined(m, x.seg), x.state)
  <1> DEFINE d == x.state
             M == Joined(m, x.seg)
  <1>1. PICK q \in Seq(Procs(P)) :
            Roster(Arriving(P, Unfinished(c), Next(P, c)), q) /\ x = Emit(Idle, c, Waited(P, c, q))
    BY DEF Waits
  <1>2. x.seg.pid = Idle /\ d = Waited(P, c, q) /\ d.t = Next(P, c) /\ d.queue = q
    BY <1>1 DEF Emit, Segment, Waited
  <1>3. Legal(P, d) /\ c.t < d.t /\ c.t \in Nat /\ d.t \in Nat
    BY DEF Extends, Legal, States
  <1>4. \A p \in Procs(P) : WaitsAtMost(P, M, p) /\ Since(P, M, p) = Since(P, m, p)
    <2>1. \A p \in Procs(P) : x.seg.pid # p /\ WaitsAtMost(P, m, p)
      BY <1>2, ProblemFacts DEF Fair
    <2> QED
      BY <2>1, FairSegment
  <1> HIDE DEF d, M
  <1>5. \A p \in Procs(P) : P.arrival[p] \in Nat /\ (P.arrival[p] > c.t => Since(P, M, p) = P.arrival[p])
    BY <1>4, ProblemFacts DEF Fair
  <1>6. ASSUME NEW k \in 1 .. Len(d.queue)
        PROVE  d.t - Since(P, M, d.queue[k]) + Turn(P, k) <= Rounds(P)
    <2>1. d.queue[k] \in Arriving(P, Unfinished(c), Next(P, c))
      BY <1>1, <1>2, RosterFacts
    <2>2. d.queue[k] \in Procs(P) /\ P.arrival[d.queue[k]] = d.t
      BY <1>2, <2>1 DEF Arriving, Unfinished, Extends, Legal, States
    <2>3. Since(P, M, d.queue[k]) = d.t
      BY <1>3, <1>5, <2>2
    <2>4. Turn(P, k) <= Rounds(P) /\ Turn(P, k) \in Nat
      BY <1>3, InTurn
    <2> QED
      BY <1>3, <2>3, <2>4
  <1>7. \A p \in Procs(P) : P.arrival[p] > d.t => Since(P, M, p) = P.arrival[p]
    BY <1>3, <1>5
  <1> QED
    BY <1>4, <1>6, <1>7 DEF Fair, d, M

LEMMA FairQuantum ==
    ASSUME NEW P, ScheduleProblem(P), P.policy = "RR", NEW m, NEW c, NEW x, Extends(P, m, c, x),
           Fair(P, m, c), Rotates(P, c, x)
    PROVE  Fair(P, Joined(m, x.seg), x.state)
  <1> DEFINE d == x.state
             M == Joined(m, x.seg)
             h == Head(c.queue)
             A == Arrived(P, c)
             open == Unfinished(c)
             quantum == P.quantum
  <1>1. /\ Legal(P, c) /\ c.t \in Nat /\ c.queue # <<>> /\ c.queue \in Seq(Procs(P)) /\ Roster(A, c.queue)
        /\ open \subseteq Procs(P) /\ A = {p \in open : P.arrival[p] <= c.t} /\ DOMAIN c.rem = Procs(P)
        /\ \A p \in Procs(P) : P.arrival[p] \in Nat
        /\ quantum \in Nat /\ quantum > 0
    BY ProblemFacts DEF Rotates, Extends, Legal, States, Arrived, Unfinished, ScheduleProblem
  <1>2. /\ Legal(P, d) /\ c.t < d.t /\ d.t \in Nat /\ h \in A /\ h \in Procs(P)
        /\ x.seg.pid = h /\ MovesUp(P, h, c, d)
        /\ d.rem \in [Procs(P) -> Nat] /\ \A p \in Procs(P) : p # h => d.rem[p] = c.rem[p]
    <2>1. PICK e \in Dispatches(P, h, c.t + Quantum(P, c), c) : x = Emit(h, c, e)
      BY DEF Rotates
    <2>2. e = d /\ x.seg.pid = h
      BY <2>1 DEF Emit, Segment
    <2>3. c.t + Quantum(P, c) \in Nat
      BY <1>1, QuantumFacts
    <2> HIDE DEF d, h
    <2>4. MovesUp(P, h, c, d) /\ h \in A /\ \A p \in Procs(P) : p # h => d.rem[p] = c.rem[p]
      BY <1>1, <2>1, <2>2, <2>3, DispatchFacts
    <2> QED
      BY <1>1, <2>2, <2>4 DEF d, Extends, Legal, States
  <1>3. PICK mid, tail :
              /\ d.queue = Tail(c.queue) \o mid \o tail
              /\ Roster(A \ {h}, Tail(c.queue))
              /\ Roster(Within(P, open, c.t, d.t - 1), mid)
              /\ Roster((IF d.rem[h] > 0 THEN {h} ELSE {}) \union Arriving(P, open, d.t), tail)
    BY <1>2 DEF MovesUp
  <1>4. d.t - c.t <= quantum
    BY <1>2 DEF MovesUp
  <1> HIDE DEF d, M, h, A, open, quantum
  <1>5. Len(c.queue) \in Nat /\ 1 \in 1 .. Len(c.queue) /\ c.queue[1] = h /\ Len(Tail(c.queue)) = Len(c.queue) - 1
        /\ \A k \in 1 .. Len(c.queue) - 1 : Tail(c.queue)[k] = c.queue[k + 1] /\ k + 1 \in 1 .. Len(c.queue)
    <2> DEFINE q == c.queue
    <2>1. q \in Seq(Procs(P)) /\ q # <<>> /\ h = Head(q)
      BY <1>1 DEF h
    <2> HIDE DEF q
    <2>2. /\ Len(q) \in Nat /\ 1 \in 1 .. Len(q) /\ q[1] = h /\ Len(Tail(q)) = Len(q) - 1
          /\ \A k \in 1 .. Len(q) - 1 : Tail(q)[k] = q[k + 1] /\ k + 1 \in 1 .. Len(q)
      BY <2>1
    <2> QED
      BY <2>2 DEF q
  <1>6. /\ \A k \in 1 .. Len(c.queue) : c.t - Since(P, m, c.queue[k]) + Turn(P, k) <= Rounds(P)
        /\ Turn(P, 1) = 0
        /\ \A k \in Nat \ {0} : Turn(P, k) \in Nat /\ Turn(P, k + 1) = Turn(P, k) + quantum
        /\ Rounds(P) \in Int
    <2>1. P.quantum \in Nat \ {0}
      BY <1>1 DEF quantum
    <2> QED
      BY <1>1, <2>1, TurnFacts, InTurn DEF Fair, quantum
  <1>7. \A p \in Procs(P) : /\ Since(P, m, p) \in Nat /\ WaitsAtMost(P, M, p)
                            /\ Since(P, M, p) = IF p = h THEN d.t ELSE Since(P, m, p)
    <2> SUFFICES ASSUME NEW p \in Procs(P)
                 PROVE  /\ Since(P, m, p) \in Nat /\ WaitsAtMost(P, M, p)
                        /\ Since(P, M, p) = IF p = h THEN d.t ELSE Since(P, m, p)
      OBVIOUS
    <2>1. c.t - Since(P, m, h) + 0 <= Rounds(P)
      BY <1>5, <1>6
    <2>2. Since(P, m, h) \in Nat
      BY <1>2, SinceType DEF Extends
    <2>3. c.t - Since(P, m, h) <= Rounds(P)
      <3> DEFINE since == Since(P, m, h)
                 rounds == Rounds(P)
      <3>1. c.t - since + 0 <= rounds /\ since \in Nat /\ rounds \in Int /\ c.t \in Nat
        BY <1>1, <1>6, <2>1, <2>2
      <3> HIDE DEF since, rounds
      <3>2. c.t - since <= rounds
        BY <3>1
      <3> QED
        BY <3>2 DEF since, rounds
    <2>4. WaitsAtMost(P, m, p)
      BY DEF Fair
    <2> QED
      BY <1>2, <2>3, <2>4, FairSegment DEF d, M
  <1>8. \A p \in Procs(P) : P.arrival[p] > c.t => p # h /\ Since(P, M, p) = P.arrival[p]
    BY <1>1, <1>2, <1>7 DEF Fair
  <1>9. ASSUME NEW k \in 1 .. Len(d.queue)
        PROVE  d.t - Since(P, M, d.queue[k]) + Turn(P, k) <= Rounds(P)
    <2> DEFINE p == d.queue[k]
               since == Since(P, M, p)
               now == Turn(P, k)
               rounds == Rounds(P)
    <2>1. /\ Len(d.queue) \in Nat /\ k \in Nat \ {0} /\ now \in Nat /\ now <= rounds /\ rounds \in Int
          /\ p \in Procs(P)
      <3>1. Roster(Arrived(P, d), d.queue) /\ Arrived(P, d) \subseteq Procs(P)
        BY <1>2 DEF Legal, Arrived, Unfinished, States
      <3> QED
        BY <1>2, <3>1, InTurn, RosterFacts
    <2>2. since \in Nat
      BY <1>2, <1>7, <2>1
    <2>3. CASE since = d.t
      BY <1>2, <2>1, <2>3
    <2>4. CASE k \in 1 .. Len(c.queue) - 1 /\ p = Tail(c.queue)[k]
      <3>1. p = c.queue[k + 1] /\ k + 1 \in 1 .. Len(c.queue) /\ p # h
        <4>1. p \in A \ {h}
          BY <1>3, <1>5, <2>4, RosterFacts
        <4> QED
          BY <1>5, <2>4, <4>1
      <3>2. c.t - Since(P, m, p) + Turn(P, k + 1) <= rounds
        BY <1>6, <3>1
      <3>3. since = Since(P, m, p)
        BY <1>7, <2>1, <3>1
      <3>4. Turn(P, k + 1) = now + quantum
        BY <1>6, <2>1
      <3> DEFINE later == Turn(P, k + 1)
      <3>5. c.t - since + later <= rounds /\ later = now + quantum
        BY <3>2, <3>3, <3>4
      <3> HIDE DEF since, now, rounds, later
      <3>6. d.t - since + now <= rounds
        BY <1>1, <1>2, <1>4, <2>1, <2>2, <3>5
      <3> QED
        BY <3>6 DEF since, now, rounds
    <2>5. CASE p \in Within(P, open, c.t, d.t - 1) /\ (h \in Arrived(P, d) => k \in 1 .. Len(d.queue) - 1)
      <3>1. p # h /\ since = P.arrival[p] /\ since > c.t
        BY <1>1, <1>8, <2>1, <2>5 DEF Within
      <3>2. now + quantum <= rounds
        BY <1>2, <2>5, InTurn DEF quantum
      <3> HIDE DEF since, now, rounds
      <3>3. d.t - since + now <= rounds
        BY <1>1, <1>2, <1>4, <2>1, <2>2, <3>1, <3>2
      <3> QED
        BY <3>3 DEF since, now, rounds
    <2>6. CASE p = h \/ p \in Arriving(P, open, d.t)
      <3>1. since = d.t
        BY <1>2, <1>7, <1>8, <2>1, <2>6 DEF Arriving
      <3> QED
        BY <2>3, <3>1
    <2>7. \/ k \in 1 .. Len(c.queue) - 1 /\ p = Tail(c.queue)[k]
          \/ p \in Within(P, open, c.t, d.t - 1) /\ (h \in Arrived(P, d) => k \in 1 .. Len(d.queue) - 1)
          \/ p = h \/ p \in Arriving(P, open, d.t)
      <3> DEFINE a == Tail(c.queue)
                 B == Within(P, open, c.t, d.t - 1)
                 E == (IF d.rem[h] > 0 THEN {h} ELSE {}) \union Arriving(P, open, d.t)
                 i == k - Len(a)
                 j == k - Len(a) - Len(mid)
      <3>1. /\ Len(a) = Len(c.queue) - 1 /\ d.queue = a \o mid \o tail
            /\ Roster(A \ {h}, a) /\ Roster(B, mid) /\ Roster(E, tail)
        BY <1>3, <1>5
      <3>2. h \in Arrived(P, d) => d.rem[h] > 0
        BY DEF Arrived, Unfinished
      <3> HIDE DEF a, B
      <3>3. (d.rem[h] > 0 => h \in E) /\ \A y \in E : y = h \/ y \in Arriving(P, open, d.t)
        OBVIOUS
      <3> HIDE DEF E
      <3> DEFINE S == (A \ {h}) \union B \union E
      <3>4. a \in Seq(S) /\ mid \in Seq(S) /\ tail \in Seq(S)
        BY <3>1, SeqMonotonic DEF Roster
      <3> HIDE DEF S, i, j
      <3>5. /\ Len(d.queue) = Len(a) + Len(mid) + Len(tail)
            /\ \/ k \in 1 .. Len(a) /\ p = a[k]
               \/ i \in 1 .. Len(mid) /\ p = mid[i]
               \/ j \in 1 .. Len(tail) /\ p = tail[j]
        <4>1. /\ Len(a \o mid \o tail) = Len(a) + Len(mid) + Len(tail)
              /\ \A n \in 1 .. Len(a \o mid \o tail) :
                    \/ n \in 1 .. Len(a) /\ (a \o mid \o tail)[n] = a[n]
                    \/ n - Len(a) \in 1 .. Len(mid) /\ (a \o mid \o tail)[n] = mid[n - Len(a)]
                    \/ n - Len(a) - Len(mid) \in 1 .. Len(tail) /\ (a \o mid \o tail)[n] = tail[n - Len(a) - Len(mid)]
          BY <3>4, QueueParts
        <4> DEFINE q == a \o mid \o tail
        <4>2. q = d.queue
          BY <3>1
        <4> HIDE DEF q
        <4> QED
          BY <4>1, <4>2 DEF i, j, q
      <3>6. /\ Len(a) \in Nat /\ Len(mid) \in Nat /\ Len(tail) \in Nat
            /\ \A y \in 1 .. Len(mid) : mid[y] \in B
            /\ \A y \in 1 .. Len(tail) : tail[y] \in E
            /\ (h \in E => Len(tail) > 0)
        <4>1. \A y \in E : \E z \in 1 .. Len(tail) : tail[z] = y
          BY <3>1, RosterFacts
        <4>2. Len(a) \in Nat /\ Len(mid) \in Nat /\ Len(tail) \in Nat
          BY <3>4, LenProperties
        <4> QED
          BY <3>1, <4>1, <4>2, RosterFacts
      <3>7. CASE i \in 1 .. Len(mid) /\ p = mid[i]
        <4>1. p \in B
          BY <3>6, <3>7
        <4>2. h \in E => k \in 1 .. Len(d.queue) - 1
          BY <2>1, <3>5, <3>6, <3>7 DEF i
        <4> QED
          BY <3>2, <3>3, <4>1, <4>2 DEF B
      <3>8. CASE j \in 1 .. Len(tail) /\ p = tail[j]
        BY <3>3, <3>6, <3>8
      <3> QED
        BY <3>1, <3>5, <3>7, <3>8 DEF a
    <2> QED
      BY <2>4, <2>5, <2>6, <2>7
  <1>10. \A p \in Procs(P) : P.arrival[p] > d.t => Since(P, M, p) = P.arrival[p]
    BY <1>1, <1>2, <1>8
  <1> QED
    BY <1>7, <1>9, <1>10 DEF Fair, d, M

LEMMA RunsAreFair ==
    ASSUME NEW P, ScheduleProblem(P), P.policy = "RR"
    PROVE  \A r \in RunsOf(P) : Fair(P, Merged(r.segs), EndState(r))
  <1> DEFINE T == Pids(P)
             G == {r \in RunsOf(P) : Fair(P, Merged(r.segs), EndState(r))}
  <1>1. ASSUME NEW s \in InitialStates(P)
        PROVE  Started(s) \in G
    <2>1. Started(s) \in RunsOf(P) /\ EndState(Started(s)) = s /\ Started(s).segs = <<>>
      BY StartedSound, RunFacts DEF GoesWith
    <2>2. Merged(<<>>) = <<>>
      <3>1. <<>> \in Seq(Lane(T)) /\ Segment(Idle, 0, 1) \in Lane(T)
        BY EmptySeq DEF Segment, Lane, Pids
      <3> QED
        BY <3>1, MergedStep
    <2> QED
      BY <2>1, <2>2, FairAtFirst
  <1>2. ASSUME NEW r \in RunsOf(P), NEW x \in Successors(P, EndState(r)), r \in G
        PROVE  Onward(r, x) \in G
    <2> DEFINE o == Onward(r, x)
               c == EndState(r)
               m == Merged(r.segs)
    <2>1. Sound(P, r) /\ o \in RunsOf(P) /\ Fair(P, m, c)
      BY <1>2, RunFacts DEF GoesWith
    <2>2. /\ Legal(P, c) /\ r.segs \in Seq(Lane(T)) /\ Gapless(T, r.segs) /\ EndOf(r.segs) = c.t
      BY <2>1 DEF Sound, Histories
    <2>3. /\ EndState(o) = x.state /\ o.segs = Append(r.segs, x.seg)
          /\ x.seg \in Lane(T) /\ x.seg = Segment(x.seg.pid, c.t, x.state.t) /\ Moves(P, c, x)
      BY <2>1, OnwardSound
    <2>4. Merged(o.segs) = Joined(m, x.seg)
      BY <2>2, <2>3, MergedStep
    <2>5. Extends(P, m, c, x)
      <3>1. Tidy(T, m) /\ EndOf(m) = c.t
        BY <2>2, MergedTidy
      <3>2. x.seg.start = c.t /\ x.seg.end = x.state.t
        BY <2>3 DEF Segment
      <3> QED
        BY <2>2, <2>3, <3>1, <3>2 DEF Extends, Moves
    <2>6. Waits(P, c, x) \/ Rotates(P, c, x)
      BY <2>2, RoundRobinSteps
    <2> HIDE DEF c, m
    <2>7. Fair(P, Joined(m, x.seg), x.state)
      BY <2>1, <2>5, <2>6, FairWait, FairQuantum
    <2> QED
      BY <2>1, <2>3, <2>4, <2>7
  <1>3. \A r \in G : Fair(P, Merged(r.segs), EndState(r))
    OBVIOUS
  <1> HIDE DEF G
  <1>4. RunsOf(P) \subseteq G
    BY <1>1, <1>2, RunInduction
  <1> QED
    BY <1>3, <1>4

(* In whatever schedule the enumerator yields for round robin, no process  *)
(* waits longer than one quantum of each other process before it runs for  *)
(* the first time or again, however the ties fall.                         *)
LEMMA SchedulesAreFair ==
    ASSUME NEW P, ScheduleProblem(P), P.policy = "RR", NEW t \in Space(P), NEW p \in Procs(P)
    PROVE  WaitsAtMost(P, t, p)
  <1>1. PICK r \in Paths(P) : t = Normalize(r.segs)
    BY DEF Space
  <1>2. r \in RunsOf(P) /\ Gapless(Pids(P), r.segs)
    BY PathFacts, RunFacts DEF Sound
  <1>3. t = Merged(r.segs)
    BY <1>1, <1>2, NormalizeGapless
  <1> QED
    BY <1>2, <1>3, RunsAreFair DEF Fair

----------------------------------------------------------------------------
(* A safe order of the processes that began as the answer did: whatever    *)
(* processes it names, as long as their needs fit, the rest can follow     *)
(* (sample never runs into a dead end, banker.py).                         *)
THEOREM OrdersAreNeverRegretted ==
    ASSUME WorldsAssumption
    PROVE  TrialSpec => []NeverRegretted
  <1>1. ASSUME TrialInv
        PROVE  NeverRegretted
    <2> SUFFICES ASSUME trial.stage = "writing", OfFamily(trial.world, "banker"), Rule # "broken"
                 PROVE  \E order \in trial.space : IsPrefix(trial.steps, order)
      BY DEF NeverRegretted, OfFamily
    <2> DEFINE P == trial.world.problem
    <2>1. /\ trial.world \in Worlds /\ trial.space = Enumerated(trial.world) /\ trial.ref \in trial.space
          /\ trial.steps \in Seq(Clients(P))
      BY <1>1 DEF TrialInv, Built, TaskValid, InTheWorld
    <2>2. BankProblem(P) /\ trial.space = SafeSequences(P) /\ Rule = JudgeOrder(P, trial.steps)
      BY <2>1, OneFamily DEF Enumerated, Rule, RulesCheck
    <2> HIDE DEF P
    <2>3. Orderly(P, trial.steps)
      BY <2>1, <2>2, JudgedOrder
    <2> QED
      BY <2>1, <2>2, <2>3, Completed
  <1> QED
    BY <1>1, TrialInvHolds, PTL

(* Of the worlds of the Banker's algorithm: the validator and the walk of  *)
(* the transition system agree on every order an answer may name, and an   *)
(* answer that matches the reference is valid, cut off or not.             *)
OracleOfOrders == OfFamily(trial.world, "banker") => TwoOracles /\ MatchIsValid

THEOREM OraclesAgreeOnOrders ==
    ASSUME WorldsAssumption
    PROVE  TrialSpec => []OracleOfOrders
  <1>1. ASSUME TrialInv
        PROVE  OracleOfOrders
    <2> SUFFICES ASSUME OfFamily(trial.world, "banker")
                 PROVE  TwoOracles /\ MatchIsValid
      BY DEF OracleOfOrders
    <2>1. MatchIsValid
      BY <1>1, MatchedIsValid
    <2>2. ASSUME trial.stage = "writing"
          PROVE  Rule = "ok" <=> SystemAccepts(trial.world, trial.space, trial.steps)
      <3> DEFINE P == trial.world.problem
      <3>1. trial.world \in Worlds /\ trial.steps \in Seq(Clients(P))
        BY <1>1, <2>2 DEF TrialInv, Built, InTheWorld
      <3>2. /\ BankProblem(P) /\ Rule = JudgeOrder(P, trial.steps)
            /\ SystemAccepts(trial.world, trial.space, trial.steps) <=> AcceptsOrder(P, trial.steps)
        BY <3>1, OneFamily DEF Rule, RulesCheck, SystemAccepts
      <3> HIDE DEF P
      <3> QED
        BY <3>1, <3>2, JudgedOrder, AcceptedOrder
    <2> QED
      BY <2>1, <2>2 DEF TwoOracles
  <1> QED
    BY <1>1, TrialInvHolds, PTL

(* The same of the worlds of threads: the validator, which knows only what *)
(* the trace says, and the transition system agree on every sequence of    *)
(* events, and whatever the enumerator yields is valid.                    *)
OracleOfEvents == OfFamily(trial.world, "sync") => TwoOracles /\ MatchIsValid

THEOREM OraclesAgreeOnEvents ==
    ASSUME WorldsAssumption
    PROVE  TrialSpec => []OracleOfEvents
  <1>1. ASSUME TrialInv
        PROVE  OracleOfEvents
    <2> SUFFICES ASSUME OfFamily(trial.world, "sync")
                 PROVE  TwoOracles /\ MatchIsValid
      BY DEF OracleOfEvents
    <2>1. MatchIsValid
      BY <1>1, MatchedIsValid
    <2>2. ASSUME trial.stage = "writing"
          PROVE  Rule = "ok" <=> SystemAccepts(trial.world, trial.space, trial.steps)
      <3> DEFINE P == trial.world.problem
      <3>1. trial.world \in Worlds /\ trial.steps \in Seq(EventsOf(P))
        BY <1>1, <2>2 DEF TrialInv, Built, InTheWorld
      <3>2. /\ ThreadProblem(P) /\ Rule = JudgeEvents(P, trial.steps)
            /\ SystemAccepts(trial.world, trial.space, trial.steps) <=> Follows(P, trial.steps)
        BY <3>1, OneFamily DEF Rule, RulesCheck, SystemAccepts
      <3> HIDE DEF P
      <3> QED
        BY <3>1, <3>2, EventsAgree
    <2> QED
      BY <2>1, <2>2 DEF TwoOracles
  <1> QED
    BY <1>1, TrialInvHolds, PTL

(* The same of the worlds of schedules: whatever segments are written, in  *)
(* any order, split, merged, with gaps or overlaps, what the validator     *)
(* accepts, which knows only the problem, is one of the enumerated runs of *)
(* the scheduler; and the other way round, with what follows from a match, *)
(* if each of them takes some time.                                        *)
OracleOfSchedules == OfFamily(trial.world, "scheduling") => TwoOracles /\ MatchIsValid

THEOREM OraclesAgreeOnSchedules ==
    ASSUME WorldsAssumption
    PROVE  TrialSpec => []OracleOfSchedules
  <1>1. ASSUME TrialInv
        PROVE  OracleOfSchedules
    <2> SUFFICES ASSUME OfFamily(trial.world, "scheduling")
                 PROVE  TwoOracles /\ MatchIsValid
      BY DEF OracleOfSchedules
    <2>1. MatchIsValid
      BY <1>1, MatchedIsValid
    <2>2. ASSUME trial.stage = "writing"
          PROVE  /\ Rule = "ok" => SystemAccepts(trial.world, trial.space, trial.steps)
                 /\ SystemAccepts(trial.world, trial.space, trial.steps) /\ TakesTime(trial.steps) => Rule = "ok"
      <3> DEFINE P == trial.world.problem
                 s == trial.steps
      <3>1. /\ trial.world \in Worlds /\ s \in Seq(Lane(Pids(P))) /\ trial.space = Enumerated(trial.world)
            /\ TakesTime(s) => Timed(s)
        BY <1>1, <2>2, LaneFacts DEF TrialInv, Built, InTheWorld, TakesTime, Timed
      <3>2. /\ ScheduleProblem(P) /\ Rule = JudgeSchedule(P, s)
            /\ SystemAccepts(trial.world, trial.space, s) <=> Normalize(s) \in Space(P)
        BY <3>1, OneFamily DEF Rule, RulesCheck, SystemAccepts, Enumerated
      <3> HIDE DEF P, s
      <3>3. Rule = "ok" => ~HasOverlap(s)
        BY <3>2 DEF JudgeSchedule
      <3>4. Normalize(s) \in Space(P) /\ TakesTime(s) => ~HasOverlap(s)
        <4>1. Idle \in Pids(P)
          BY DEF Pids
        <4> QED
          BY <3>1, <3>2, <4>1, SpaceOfSchedules, TimedApart
      <3>5. ~HasOverlap(s) => (Rule = "ok" <=> Normalize(s) \in Space(P))
        BY <3>1, <3>2, JudgedIsInSpace
      <3> QED
        BY <3>2, <3>3, <3>4, <3>5 DEF s
    <2> QED
      BY <2>1, <2>2 DEF TwoOracles
  <1> QED
    BY <1>1, TrialInvHolds, PTL

(* In every world, of whatever family: validator, transition system and    *)
(* reference matching never contradict one another, but for segments that  *)
(* take no time, and a safe order is never missed because of the processes *)
(* served first.                                                           *)
THEOREM OraclesNeverDisagree ==
    ASSUME WorldsAssumption
    PROVE  TrialSpec => []OraclesAgree
  <1>1. ASSUME TrialInv, OracleOfOrders, OracleOfEvents, OracleOfSchedules, NeverRegretted
        PROVE  OraclesAgree
    <2>1. CASE trial.stage = "idle"
      BY <1>1, <2>1 DEF OraclesAgree, TwoOracles, MatchIsValid, Ended
    <2>2. CASE trial.stage # "idle"
      <3>1. trial.world \in Worlds
        BY <1>1, <2>2 DEF TrialInv, Built
      <3>2. OfFamily(trial.world, "scheduling") \/ OfFamily(trial.world, "sync") \/ OfFamily(trial.world, "banker")
        BY <3>1, OneFamily
      <3> QED
        BY <1>1, <3>2 DEF OraclesAgree, OracleOfOrders, OracleOfEvents, OracleOfSchedules
    <2> QED
      BY <2>1, <2>2
  <1> QED
    BY <1>1, TrialInvHolds, OraclesAgreeOnOrders, OraclesAgreeOnEvents, OraclesAgreeOnSchedules,
       OrdersAreNeverRegretted, PTL

----------------------------------------------------------------------------
(* The canonical interleaving is one of the enumerated ones: while         *)
(* operations are left, a live thread has a live step.                     *)

AreAfter(f, s, m) ==
    f = [n \in 0 .. m |-> IF n = 0 THEN {s} ELSE UNION {{x.state : x \in ThreadSteps(c)} : c \in f[n - 1]}]

LEMMA AftersExist ==
    ASSUME NEW s, NEW m \in Nat
    PROVE  \E f : AreAfter(f, s, m)
  <1> DEFINE Further(g, n) == IF n = 0 THEN {s} ELSE UNION {{x.state : x \in ThreadSteps(c)} : c \in g[n - 1]}
             T == {k \in Nat : \E f : f = [n \in 0 .. k |-> Further(f, n)]}
  <1>1. 0 \in T
    <2> DEFINE f == [n \in 0 .. 0 |-> {s}]
    <2>1. f = [n \in 0 .. 0 |-> Further(f, n)]
      OBVIOUS
    <2> HIDE DEF f
    <2> QED
      BY <2>1
  <1>2. ASSUME NEW k \in Nat, k \in T
        PROVE  k + 1 \in T
    <2>1. PICK f : f = [n \in 0 .. k |-> Further(f, n)]
      BY <1>2
    <2> DEFINE g == [n \in 0 .. k + 1 |-> IF n = k + 1 THEN Further(f, n) ELSE f[n]]
    <2>2. \A n \in 0 .. k : f[n] = Further(f, n)
      <3> HIDE DEF Further
      <3> QED
        BY <2>1
    <2>3. ASSUME NEW n \in 0 .. k + 1
          PROVE  g[n] = Further(g, n)
      <3>1. g[n] = Further(f, n)
        <4> HIDE DEF Further
        <4> QED
          BY <2>2
      <3>2. n # 0 => g[n - 1] = f[n - 1]
        OBVIOUS
      <3> HIDE DEF g
      <3> QED
        BY <3>1, <3>2
    <2>4. g = [n \in 0 .. k + 1 |-> Further(g, n)]
      <3> HIDE DEF Further
      <3> QED
        BY <2>3
    <2> HIDE DEF g, Further
    <2>5. \E h : h = [n \in 0 .. k + 1 |-> Further(h, n)]
      BY <2>4
    <2> QED
      BY <2>5
  <1> HIDE DEF T
  <1>3. m \in T
    BY <1>1, <1>2, Induction
  <1> QED
    BY <1>3 DEF T, AreAfter

LEMMA FinishByTable ==
    ASSUME NEW s, OpsLeft(s) \in Nat
    PROVE  \E f : AreAfter(f, s, OpsLeft(s)) /\ (CanFinish(s) <=> \E c \in f[OpsLeft(s)] : NotFinished(c) = {})
  <1> DEFINE f == CHOOSE g : AreAfter(g, s, OpsLeft(s))
  <1>1. AreAfter(f, s, OpsLeft(s))
    BY AftersExist
  <1>2. CanFinish(s) <=> \E c \in f[OpsLeft(s)] : NotFinished(c) = {}
    BY DEF CanFinish, AreAfter
  <1> QED
    BY <1>1, <1>2

GoOn(f, s, m) ==
    /\ f[0] = {s}
    /\ \A n \in 1 .. m : \A c : c \in f[n] <=> \E d \in f[n - 1] : \E x \in ThreadSteps(d) : c = x.state

LEMMA AfterFacts ==
    ASSUME NEW s, NEW m \in Nat, NEW f, AreAfter(f, s, m)
    PROVE  GoOn(f, s, m)
  <1> DEFINE Onto(X) == UNION {{x.state : x \in ThreadSteps(d)} : d \in X}
  <1>1. \A n \in 0 .. m : f[n] = IF n = 0 THEN {s} ELSE Onto(f[n - 1])
    <2>1. f = [n \in 0 .. m |-> IF n = 0 THEN {s} ELSE Onto(f[n - 1])]
      BY DEF AreAfter
    <2> HIDE DEF Onto
    <2> QED
      BY <2>1
  <1>2. \A X : \A c : c \in Onto(X) <=> \E d \in X : \E x \in ThreadSteps(d) : c = x.state
    OBVIOUS
  <1> HIDE DEF Onto
  <1> QED
    BY <1>1, <1>2 DEF GoOn

(* Where n + 1 steps lead, n steps lead from where the first one led.      *)
LEMMA FirstStepTaken ==
    ASSUME NEW s, NEW m \in Nat, NEW f, AreAfter(f, s, m + 1), NEW last \in f[m + 1]
    PROVE  \E x \in ThreadSteps(s) : \A g : AreAfter(g, x.state, m) => last \in g[m]
  <1> DEFINE Begun(n, c) == \E x \in ThreadSteps(s) : \A g : AreAfter(g, x.state, m) => c \in g[n]
             T == {n \in Nat : n <= m => \A c \in f[n + 1] : Begun(n, c)}
  <1>1. /\ f[0] = {s}
        /\ \A n \in 1 .. m + 1 : \A c : c \in f[n] <=> \E d \in f[n - 1] : \E x \in ThreadSteps(d) : c = x.state
    <2>1. m + 1 \in Nat
      OBVIOUS
    <2>2. GoOn(f, s, m + 1)
      BY <2>1, AfterFacts
    <2> QED
      BY <2>2 DEF GoOn
  <1>2. 0 \in T
    <2> SUFFICES ASSUME NEW c \in f[1]
                 PROVE  Begun(0, c)
      OBVIOUS
    <2>1. PICK x \in ThreadSteps(s) : c = x.state
      <3>1. 1 \in 1 .. m + 1 /\ 1 - 1 = 0
        OBVIOUS
      <3> QED
        BY <1>1, <3>1
    <2>2. ASSUME NEW g, AreAfter(g, x.state, m)
          PROVE  c \in g[0]
      <3>1. g[0] = {x.state}
        BY <2>2, AfterFacts DEF GoOn
      <3> QED
        BY <2>1, <3>1
    <2> QED
      BY <2>2
  <1>3. ASSUME NEW n \in Nat, n \in T
        PROVE  n + 1 \in T
    <2> SUFFICES ASSUME n + 1 <= m, NEW c \in f[n + 1 + 1]
                 PROVE  Begun(n + 1, c)
      OBVIOUS
    <2>1. PICK d \in f[n + 1] : \E y \in ThreadSteps(d) : c = y.state
      <3>1. n + 1 + 1 \in 1 .. m + 1 /\ (n + 1 + 1) - 1 = n + 1
        OBVIOUS
      <3> QED
        BY <1>1, <3>1
    <2>2. PICK x \in ThreadSteps(s) : \A g : AreAfter(g, x.state, m) => d \in g[n]
      BY <1>3
    <2>3. ASSUME NEW g, AreAfter(g, x.state, m)
          PROVE  c \in g[n + 1]
      <3>1. d \in g[n] /\ n + 1 \in 1 .. m /\ (n + 1) - 1 = n
        BY <2>2, <2>3
      <3> QED
        BY <2>1, <2>3, <3>1, AfterFacts DEF GoOn
    <2> QED
      BY <2>3
  <1> HIDE DEF T
  <1>4. m \in T
    BY <1>2, <1>3, Induction
  <1> QED
    BY <1>4 DEF T

LEMMA LiveStepExists ==
    ASSUME NEW problem, ThreadProblem(problem), NEW c, ConfigOK(problem, c), CanFinish(c), OpsLeft(c) # 0
    PROVE  LiveSteps(c) # {}
  <1>1. OpsLeft(c) \in Nat
    BY OpsLeftFacts
  <1> DEFINE m == OpsLeft(c) - 1
  <1>2. m \in Nat /\ m + 1 = OpsLeft(c)
    BY <1>1
  <1>3. PICK f : AreAfter(f, c, OpsLeft(c)) /\ \E d \in f[OpsLeft(c)] : NotFinished(d) = {}
    BY <1>1, FinishByTable
  <1> HIDE DEF m
  <1>4. PICK d \in f[m + 1] : NotFinished(d) = {}
    BY <1>2, <1>3
  <1>5. PICK x \in ThreadSteps(c) : \A g : AreAfter(g, x.state, m) => d \in g[m]
    <2>1. AreAfter(f, c, m + 1)
      BY <1>2, <1>3
    <2> QED
      BY <1>2, <2>1, FirstStepTaken
  <1>6. OpsLeft(x.state) = m
    <2>1. Stepped(c, x.event, x.state)
      BY StepsAre
    <2> QED
      BY <1>2, <2>1, StepTakesOne DEF m
  <1>7. CanFinish(x.state)
    <2>1. PICK g : AreAfter(g, x.state, OpsLeft(x.state))
                   /\ (CanFinish(x.state) <=> \E e \in g[OpsLeft(x.state)] : NotFinished(e) = {})
      BY <1>2, <1>6, FinishByTable
    <2>2. d \in g[m]
      BY <1>5, <1>6, <2>1
    <2> QED
      BY <1>4, <1>6, <2>1, <2>2
  <1> QED
    BY <1>7 DEF LiveSteps

(* The walk of canonical takes the first live thread's step.               *)
FirstLive(s) == CHOOSE x \in LiveSteps(s) : \A y \in LiveSteps(s) : x.event.thread <= y.event.thread

Walked(w) ==
    IF LiveSteps(w.state) = {} THEN w
    ELSE [events |-> Append(w.events, FirstLive(w.state).event), state |-> FirstLive(w.state).state]

IsWalk(f, problem, m) == f = [n \in 0 .. m |-> IF n = 0 THEN FirstRun(problem) ELSE Walked(f[n - 1])]

LEMMA WalkExists ==
    ASSUME NEW problem, NEW m \in Nat
    PROVE  \E f : IsWalk(f, problem, m)
  <1> DEFINE Further(g, n) == IF n = 0 THEN FirstRun(problem) ELSE Walked(g[n - 1])
             T == {k \in Nat : \E f : f = [n \in 0 .. k |-> Further(f, n)]}
  <1>1. 0 \in T
    <2> DEFINE f == [n \in 0 .. 0 |-> FirstRun(problem)]
    <2>1. f = [n \in 0 .. 0 |-> Further(f, n)]
      OBVIOUS
    <2> HIDE DEF f
    <2> QED
      BY <2>1
  <1>2. ASSUME NEW k \in Nat, k \in T
        PROVE  k + 1 \in T
    <2>1. PICK f : f = [n \in 0 .. k |-> Further(f, n)]
      BY <1>2
    <2> DEFINE g == [n \in 0 .. k + 1 |-> IF n = k + 1 THEN Further(f, n) ELSE f[n]]
    <2>2. \A n \in 0 .. k : f[n] = Further(f, n)
      <3> HIDE DEF Further
      <3> QED
        BY <2>1
    <2>3. ASSUME NEW n \in 0 .. k + 1
          PROVE  g[n] = Further(g, n)
      <3>1. g[n] = Further(f, n)
        <4> HIDE DEF Further
        <4> QED
          BY <2>2
      <3>2. n # 0 => g[n - 1] = f[n - 1]
        OBVIOUS
      <3> HIDE DEF g
      <3> QED
        BY <3>1, <3>2
    <2>4. g = [n \in 0 .. k + 1 |-> Further(g, n)]
      <3> HIDE DEF Further
      <3> QED
        BY <2>3
    <2> HIDE DEF g, Further
    <2>5. \E h : h = [n \in 0 .. k + 1 |-> Further(h, n)]
      BY <2>4
    <2> QED
      BY <2>5
  <1> HIDE DEF T
  <1>3. m \in T
    BY <1>1, <1>2, Induction
  <1> QED
    BY <1>3 DEF T, IsWalk

LEMMA CanonicalByWalk ==
    ASSUME NEW problem, OpsLeft(InitialConfig(problem)) \in Nat
    PROVE  \E f : /\ IsWalk(f, problem, OpsLeft(InitialConfig(problem)))
                  /\ CanonicalEvents(problem) = f[OpsLeft(InitialConfig(problem))].events
  <1> DEFINE m == OpsLeft(InitialConfig(problem))
             f == CHOOSE g : IsWalk(g, problem, m)
  <1>1. IsWalk(f, problem, m)
    BY WalkExists
  <1>2. CanonicalEvents(problem) = f[m].events
    BY DEF CanonicalEvents, IsWalk, FirstRun, Walked, FirstLive
  <1> QED
    BY <1>1, <1>2

(* Threads are numbered.                                                   *)
LEMMA FirstLiveExists ==
    ASSUME NEW problem, ThreadProblem(problem), DOMAIN problem.prog \subseteq Nat,
           NEW c, ConfigOK(problem, c), LiveSteps(c) # {}
    PROVE  FirstLive(c) \in ThreadSteps(c) /\ CanFinish(FirstLive(c).state)
  <1> DEFINE threads == {x.event.thread : x \in LiveSteps(c)}
  <1>1. \A x \in LiveSteps(c) : x \in ThreadSteps(c) /\ CanFinish(x.state) /\ x.event.thread \in Nat
    <2> SUFFICES ASSUME NEW x \in LiveSteps(c)
                 PROVE  x \in ThreadSteps(c) /\ CanFinish(x.state) /\ x.event.thread \in Nat
      OBVIOUS
    <2>1. x \in ThreadSteps(c) /\ CanFinish(x.state)
      BY DEF LiveSteps
    <2>2. Stepped(c, x.event, x.state)
      BY <2>1, StepsAre
    <2> QED
      BY <2>1, <2>2, SteppedFacts
  <1>2. threads \subseteq Nat /\ threads # {}
    BY <1>1
  <1>3. PICK t \in threads : \A u \in threads : t <= u
    BY <1>2, LeastNatural
  <1>4. \E x \in LiveSteps(c) : \A y \in LiveSteps(c) : x.event.thread <= y.event.thread
    BY <1>3
  <1>5. FirstLive(c) \in LiveSteps(c)
    BY <1>4 DEF FirstLive
  <1> QED
    BY <1>1, <1>5

(* Where the enumerator's runs are is where the steps lead.                *)
LEMMA RunsLeadOn ==
    ASSUME NEW problem, NEW m \in Nat, NEW f, AreRuns(f, problem, m), NEW g, AreAfter(g, InitialConfig(problem), m),
           NEW n \in 0 .. m, NEW run \in f[n]
    PROVE  run.state \in g[n]
  <1> DEFINE T == {k \in Nat : k <= m => \A r \in f[k] : r.state \in g[k]}
             Onto(X) == UNION {Longer(r) : r \in X}
  <1>1. \A k \in 0 .. m : f[k] = IF k = 0 THEN {FirstRun(problem)} ELSE Onto(f[k - 1])
    <2>1. f = [k \in 0 .. m |-> IF k = 0 THEN {FirstRun(problem)} ELSE Onto(f[k - 1])]
      BY DEF AreRuns
    <2> HIDE DEF Onto
    <2> QED
      BY <2>1
  <1>2. GoOn(g, InitialConfig(problem), m)
    BY AfterFacts
  <1>3. 0 \in T
    <2>1. 0 \in 0 .. m
      OBVIOUS
    <2>2. f[0] = {FirstRun(problem)} /\ g[0] = {InitialConfig(problem)}
      <3> HIDE DEF Onto
      <3> QED
        BY <1>1, <1>2, <2>1 DEF GoOn
    <2>3. FirstRun(problem).state = InitialConfig(problem)
      BY DEF FirstRun
    <2> QED
      BY <2>2, <2>3
  <1>4. ASSUME NEW k \in Nat, k \in T
        PROVE  k + 1 \in T
    <2> SUFFICES ASSUME k + 1 <= m, NEW r \in f[k + 1]
                 PROVE  r.state \in g[k + 1]
      OBVIOUS
    <2>1. k + 1 \in 0 .. m /\ k + 1 \in 1 .. m /\ k + 1 # 0 /\ (k + 1) - 1 = k
      OBVIOUS
    <2>2. f[k + 1] = Onto(f[k])
      <3> HIDE DEF Onto
      <3> QED
        BY <1>1, <2>1
    <2>3. PICK q \in f[k] : r \in Longer(q)
      BY <2>2
    <2>4. PICK x \in ThreadSteps(q.state) : r = [events |-> Append(q.events, x.event), state |-> x.state]
      BY <2>3 DEF Longer
    <2>5. r.state = x.state /\ q.state \in g[k]
      BY <1>4, <2>3, <2>4
    <2> QED
      BY <1>2, <2>1, <2>5 DEF GoOn
  <1> HIDE DEF T
  <1>5. n \in T
    BY <1>3, <1>4, Induction
  <1> QED
    BY <1>5 DEF T

LEMMA CanonicalIsInterleaved ==
    ASSUME NEW problem, ThreadProblem(problem), DOMAIN problem.prog \subseteq Nat, Interleavings(problem) # {}
    PROVE  CanonicalEvents(problem) \in Interleavings(problem)
  <1> DEFINE c0 == InitialConfig(problem)
             m == OpsLeft(c0)
  <1>1. m \in Nat /\ ConfigOK(problem, c0)
    BY FirstConfig, OpsLeftFacts
  <1>2. PICK f : AreRuns(f, problem, m) /\ Interleavings(problem) = {run.events : run \in f[m]}
    BY <1>1, InterleavedByTable
  <1>3. PICK w : IsWalk(w, problem, m) /\ CanonicalEvents(problem) = w[m].events
    BY <1>1, CanonicalByWalk
  <1> HIDE DEF m
  <1>4. \A n \in 0 .. m : \A run \in f[n] : ConfigOK(problem, run.state) /\ OpsLeft(run.state) = m - n
    BY <1>1, <1>2, RunsAreOK DEF RunOK, m
  <1>5. CanFinish(c0)
    <2>1. PICK run \in f[m] : TRUE
      BY <1>2
    <2>2. PICK g : AreAfter(g, c0, m) /\ (CanFinish(c0) <=> \E c \in g[m] : NotFinished(c) = {})
      BY <1>1, FinishByTable DEF m
    <2>3. m \in 0 .. m /\ m - m = 0
      BY <1>1
    <2>4. run.state \in g[m]
      BY <1>1, <1>2, <2>2, <2>3, RunsLeadOn
    <2>5. NotFinished(run.state) = {}
      BY <1>4, <2>3, OpsLeftFacts
    <2> QED
      BY <2>2, <2>4, <2>5
  <1> DEFINE Onto(X) == UNION {Longer(r) : r \in X}
             T == {n \in Nat : n <= m => w[n] \in f[n] /\ CanFinish(w[n].state)}
  <1>6. \A n \in 0 .. m : f[n] = IF n = 0 THEN {FirstRun(problem)} ELSE Onto(f[n - 1])
    <2>1. f = [n \in 0 .. m |-> IF n = 0 THEN {FirstRun(problem)} ELSE Onto(f[n - 1])]
      BY <1>2 DEF AreRuns
    <2> HIDE DEF Onto
    <2> QED
      BY <2>1
  <1>7. \A n \in 0 .. m : w[n] = IF n = 0 THEN FirstRun(problem) ELSE Walked(w[n - 1])
    <2>1. w = [n \in 0 .. m |-> IF n = 0 THEN FirstRun(problem) ELSE Walked(w[n - 1])]
      BY <1>3 DEF IsWalk
    <2> QED
      BY <2>1
  <1>8. 0 \in T
    <2>1. 0 \in 0 .. m
      BY <1>1
    <2>2. f[0] = {FirstRun(problem)} /\ w[0] = FirstRun(problem)
      <3> HIDE DEF Onto
      <3> QED
        BY <1>6, <1>7, <2>1
    <2>3. FirstRun(problem).state = c0
      BY DEF FirstRun
    <2> QED
      BY <1>5, <2>2, <2>3
  <1>9. ASSUME NEW n \in Nat, n \in T
        PROVE  n + 1 \in T
    <2> SUFFICES ASSUME n + 1 <= m
                 PROVE  w[n + 1] \in f[n + 1] /\ CanFinish(w[n + 1].state)
      OBVIOUS
    <2>1. n + 1 \in 0 .. m /\ n \in 0 .. m /\ n + 1 # 0 /\ (n + 1) - 1 = n /\ m - n # 0
      BY <1>1
    <2>2. f[n + 1] = Onto(f[n]) /\ w[n + 1] = Walked(w[n])
      <3> HIDE DEF Onto
      <3> QED
        BY <1>6, <1>7, <2>1
    <2>3. w[n] \in f[n] /\ CanFinish(w[n].state) /\ ConfigOK(problem, w[n].state) /\ OpsLeft(w[n].state) # 0
      BY <1>4, <1>9, <2>1
    <2> DEFINE x == FirstLive(w[n].state)
    <2>4. LiveSteps(w[n].state) # {}
      BY <2>3, LiveStepExists
    <2>5. x \in ThreadSteps(w[n].state) /\ CanFinish(x.state)
      BY <2>3, <2>4, FirstLiveExists
    <2>6. w[n + 1] = [events |-> Append(w[n].events, x.event), state |-> x.state]
      BY <2>2, <2>4 DEF Walked
    <2>7. w[n + 1] \in Longer(w[n])
      <3> HIDE DEF x
      <3> QED
        BY <2>5, <2>6 DEF Longer
    <2> QED
      BY <2>2, <2>3, <2>5, <2>6, <2>7
  <1> HIDE DEF T
  <1>10. m \in T
    BY <1>1, <1>8, <1>9, Induction
  <1>11. w[m] \in f[m]
    BY <1>1, <1>10 DEF T
  <1> QED
    BY <1>2, <1>3, <1>11

----------------------------------------------------------------------------
(* A merge of the threads' programs, and what swapping neighbours makes of *)
(* a trace, are made of the problem's events.                              *)
Goes(m) ==
    {[events |-> Append(m.events, ThreadEvent(t, Head(m.rest[t]))), rest |-> [m.rest EXCEPT ![t] = Tail(@)]] :
        t \in NotFinished(m)}

Partial(problem) ==
    [events : Seq(EventsOf(problem)), rest : [DOMAIN problem.prog -> Seq(Instructions(problem))]]

LEMMA GoesFacts ==
    ASSUME NEW problem, ThreadProblem(problem), NEW m \in Partial(problem)
    PROVE  Goes(m) \subseteq Partial(problem)
  <1> SUFFICES ASSUME NEW x \in Goes(m)
               PROVE  x \in Partial(problem)
    OBVIOUS
  <1>1. PICK t \in NotFinished(m) :
             x = [events |-> Append(m.events, ThreadEvent(t, Head(m.rest[t]))), rest |-> [m.rest EXCEPT ![t] = Tail(@)]]
    BY DEF Goes
  <1>2. /\ m.events \in Seq(EventsOf(problem)) /\ m.rest \in [DOMAIN problem.prog -> Seq(Instructions(problem))]
        /\ t \in DOMAIN problem.prog /\ m.rest[t] \in Seq(Instructions(problem)) /\ m.rest[t] # <<>>
    BY DEF Partial, NotFinished
  <1>3. Head(m.rest[t]) \in Instructions(problem) /\ Tail(m.rest[t]) \in Seq(Instructions(problem))
    BY <1>2, HeadTailProperties
  <1>4. ThreadEvent(t, Head(m.rest[t])) \in EventsOf(problem)
    BY <1>2, <1>3 DEF EventsOf
  <1>5. Append(m.events, ThreadEvent(t, Head(m.rest[t]))) \in Seq(EventsOf(problem))
    BY <1>2, <1>4, AppendProperties
  <1>6. [m.rest EXCEPT ![t] = Tail(@)] \in [DOMAIN problem.prog -> Seq(Instructions(problem))]
    BY <1>2, <1>3
  <1> QED
    BY <1>1, <1>5, <1>6 DEF Partial

IsMergeTable(f, problem, m) ==
    f = [n \in 0 .. m |-> IF n = 0 THEN {[events |-> <<>>, rest |-> problem.prog]} ELSE UNION {Goes(x) : x \in f[n - 1]}]

LEMMA MergeTableExists ==
    ASSUME NEW problem, ThreadProblem(problem), NEW m \in Nat
    PROVE  \E f \in [0 .. m -> SUBSET Partial(problem)] : IsMergeTable(f, problem, m)
  <1> DEFINE V == SUBSET Partial(problem)
             a == {[events |-> <<>>, rest |-> problem.prog]}
             step == [x \in (1 .. m) \X V |-> UNION {Goes(r) : r \in x[2]}]
  <1>1. a \in V
    BY EmptySeq DEF Partial, ThreadProblem
  <1>2. ASSUME NEW n \in 1 .. m, NEW v \in V
        PROVE  step[<<n, v>>] = UNION {Goes(r) : r \in v} /\ step[<<n, v>>] \in V
    <2>1. UNION {Goes(r) : r \in v} \in V
      BY GoesFacts
    <2>2. <<n, v>> \in (1 .. m) \X V
      OBVIOUS
    <2> HIDE DEF V
    <2>3. step[<<n, v>>] = UNION {Goes(r) : r \in v}
      BY <2>2
    <2> QED
      BY <2>1, <2>3
  <1> HIDE DEF step, V, a
  <1>3. PICK f \in [0 .. m -> V] : IsTable(f, m, a, step)
    BY <1>1, <1>2, TableExists
  <1>4. ASSUME NEW n \in 0 .. m
        PROVE  f[n] = IF n = 0 THEN a ELSE UNION {Goes(r) : r \in f[n - 1]}
    <2>1. n # 0 => n \in 1 .. m /\ n - 1 \in 0 .. m
      OBVIOUS
    <2>2. n # 0 => f[n - 1] \in V
      BY <2>1
    <2>3. f[n] = IF n = 0 THEN a ELSE step[<<n, f[n - 1]>>]
      BY <1>3 DEF IsTable
    <2> QED
      BY <1>2, <2>1, <2>2, <2>3
  <1>5. f = [n \in 0 .. m |-> IF n = 0 THEN a ELSE UNION {Goes(r) : r \in f[n - 1]}]
    BY <1>4
  <1> QED
    BY <1>5 DEF IsMergeTable, a, V

LEMMA MergesAre ==
    ASSUME NEW problem, ThreadProblem(problem)
    PROVE  \A trace \in Merges(problem) : trace \in Seq(EventsOf(problem))
  <1> DEFINE m == OpsLeft(InitialConfig(problem))
             f == CHOOSE g : IsMergeTable(g, problem, m)
  <1>1. m \in Nat
    BY FirstConfig, OpsLeftFacts
  <1>2. PICK h \in [0 .. m -> SUBSET Partial(problem)] : IsMergeTable(h, problem, m)
    BY <1>1, MergeTableExists
  <1>3. IsMergeTable(f, problem, m)
    BY <1>2
  <1>4. Merges(problem) = {x.events : x \in f[m]}
    BY DEF Merges, IsMergeTable, Goes
  <1>5. \A n \in 0 .. m : f[n] = h[n]
    <2>1. f[0] = h[0]
      <3>1. 0 \in 0 .. m
        BY <1>1
      <3> HIDE DEF f, m
      <3> QED
        BY <1>2, <1>3, <3>1 DEF IsMergeTable
    <2>2. GoOnAlike(f, h, m)
      <3> SUFFICES ASSUME NEW n \in 1 .. m, f[n - 1] = h[n - 1]
                   PROVE  f[n] = h[n]
        BY DEF GoOnAlike
      <3> DEFINE Onto(X) == UNION {Goes(x) : x \in X}
      <3>1. n \in 0 .. m /\ n # 0
        BY <1>1
      <3>2. f[n] = Onto(f[n - 1]) /\ h[n] = Onto(h[n - 1])
        <4> HIDE DEF f, m
        <4> QED
          BY <1>2, <1>3, <3>1 DEF IsMergeTable
      <3> HIDE DEF Onto
      <3> QED
        BY <3>2
    <2> HIDE DEF f, m
    <2> QED
      BY <1>1, <2>1, <2>2, TablesAlike
  <1>6. m \in 0 .. m
    BY <1>1
  <1>7. f[m] \subseteq Partial(problem)
    BY <1>5, <1>6
  <1> HIDE DEF f
  <1> QED
    BY <1>4, <1>7 DEF Partial

(* Two entries of a trace change places.                                   *)
LEMMA SwapFacts ==
    ASSUME NEW S, NEW s \in Seq(S), NEW i \in DOMAIN s, NEW j \in DOMAIN s
    PROVE  LET r == [s EXCEPT ![i] = s[j], ![j] = s[i]]
           IN  /\ r \in Seq(S) /\ Len(r) = Len(s) /\ DOMAIN r = DOMAIN s
               /\ r[i] = s[j] /\ r[j] = s[i]
               /\ \A k \in DOMAIN s \ {i, j} : r[k] = s[k]
  <1> DEFINE r == [s EXCEPT ![i] = s[j], ![j] = s[i]]
  <1>1. Len(s) \in Nat /\ DOMAIN s = 1 .. Len(s) /\ s \in [1 .. Len(s) -> S]
    BY LenProperties
  <1>2. r \in [1 .. Len(s) -> S]
    BY <1>1
  <1>3. r \in Seq(S) /\ Len(r) = Len(s)
    BY <1>1, <1>2, SeqDef
  <1>4. r[i] = s[j] /\ r[j] = s[i] /\ \A k \in DOMAIN s \ {i, j} : r[k] = s[k]
    BY <1>1
  <1> QED
    BY <1>1, <1>3, <1>4

LEMMA AdjacentSwapsAre ==
    ASSUME NEW S, NEW s \in Seq(S)
    PROVE  \A r \in AdjacentSwaps(s) : r \in Seq(S)
  <1> SUFFICES ASSUME NEW r \in AdjacentSwaps(s)
               PROVE  r \in Seq(S)
    OBVIOUS
  <1>1. PICK i \in 1 .. Len(s) - 1 : r = [s EXCEPT ![i] = s[i + 1], ![i + 1] = s[i]]
    BY DEF AdjacentSwaps
  <1>2. i \in DOMAIN s /\ i + 1 \in DOMAIN s
    BY LenProperties
  <1> DEFINE j == i + 1
  <1>3. r = [s EXCEPT ![i] = s[j], ![j] = s[i]] /\ j \in DOMAIN s
    BY <1>1, <1>2
  <1> HIDE DEF j
  <1> QED
    BY <1>2, <1>3, SwapFacts

----------------------------------------------------------------------------
(* The canonical schedule is one of the enumerated ones: of the tied steps *)
(* it takes the first process, and of the queues the one in order.         *)
IsOrderTable(f, groups) ==
    f = [n \in 0 .. Len(groups) |-> IF n = 0 THEN <<>> ELSE f[n - 1] \o Rising(groups[n])]

LEMMA RisingRoster ==
    ASSUME NEW S, S \subseteq Nat, IsFiniteSet(S)
    PROVE  Roster(S, Rising(S)) /\ Rising(S) \in SetToSeqs(S)
  <1> DEFINE o == Rising(S)
             n == Cardinality(S)
  <1>1. /\ n \in Nat /\ o \in [1 .. n -> S] /\ o \in Seq(S) /\ Len(o) = n
        /\ \A i, j \in 1 .. n : i < j => o[i] < o[j]
        /\ \A x \in S : \E i \in 1 .. n : o[i] = x
    <2>1. S \subseteq Int
      OBVIOUS
    <2> QED
      BY <2>1, RisingFacts
  <1> HIDE DEF o, n
  <1>2. DOMAIN o = 1 .. n /\ \A i \in 1 .. n : o[i] \in S /\ o[i] \in Nat
    BY <1>1
  <1>3. \A i, j \in 1 .. n : o[i] = o[j] => i = j
    <2> SUFFICES ASSUME NEW i \in 1 .. n, NEW j \in 1 .. n, o[i] = o[j], i # j
                 PROVE  FALSE
      OBVIOUS
    <2>1. o[i] < o[j] \/ o[j] < o[i]
      BY <1>1
    <2> QED
      BY <1>2, <2>1
  <1>4. ToSet(o) = S
    BY <1>1, <1>2 DEF ToSet
  <1>5. Roster(S, o)
    BY <1>1, <1>2, <1>3, <1>4 DEF Roster, Distinct
  <1> QED
    BY <1>5, SeqsAreRosters DEF o

LEMMA OrderTableExists ==
    ASSUME NEW S, S \subseteq Nat, IsFiniteSet(S), NEW groups \in Seq(SUBSET S)
    PROVE  \E f \in [0 .. Len(groups) -> Seq(S)] : IsOrderTable(f, groups)
  <1> DEFINE V == Seq(S)
             m == Len(groups)
             step == [x \in (1 .. m) \X V |-> x[2] \o Rising(groups[x[1]])]
  <1>1. m \in Nat /\ <<>> \in V /\ \A n \in 1 .. m : groups[n] \in SUBSET S
    BY EmptySeq, LenProperties, ElementOfSeq
  <1>2. ASSUME NEW n \in 1 .. m, NEW v \in V
        PROVE  step[<<n, v>>] = v \o Rising(groups[n]) /\ step[<<n, v>>] \in V
    <2>1. Roster(groups[n], Rising(groups[n]))
      <3>1. groups[n] \subseteq Nat /\ IsFiniteSet(groups[n])
        BY <1>1, FS_Subset
      <3> QED
        BY <3>1, RisingRoster
    <2>2. Rising(groups[n]) \in Seq(S)
      BY <1>1, <2>1, SeqMonotonic DEF Roster
    <2>3. v \o Rising(groups[n]) \in V
      BY <2>2, ConcatProperties
    <2>4. <<n, v>> \in (1 .. m) \X V
      OBVIOUS
    <2> HIDE DEF V
    <2>5. step[<<n, v>>] = v \o Rising(groups[n])
      BY <2>4
    <2> QED
      BY <2>3, <2>5
  <1> HIDE DEF step, m, V
  <1>3. PICK f \in [0 .. m -> V] : IsTable(f, m, <<>>, step)
    BY <1>1, <1>2, TableExists
  <1>4. ASSUME NEW n \in 0 .. m
        PROVE  f[n] = IF n = 0 THEN <<>> ELSE f[n - 1] \o Rising(groups[n])
    <2>1. n # 0 => n \in 1 .. m /\ n - 1 \in 0 .. m
      BY <1>1
    <2>2. n # 0 => f[n - 1] \in V
      BY <2>1
    <2>3. f[n] = IF n = 0 THEN <<>> ELSE step[<<n, f[n - 1]>>]
      BY <1>3 DEF IsTable
    <2> QED
      BY <1>2, <2>1, <2>2, <2>3
  <1>5. f = [n \in 0 .. m |-> IF n = 0 THEN <<>> ELSE f[n - 1] \o Rising(groups[n])]
    BY <1>4
  <1> QED
    BY <1>5 DEF IsOrderTable, m, V

(* Groups of one more time have one more group.                            *)
Groups(P, S, lo, hi, g) ==
    g \in Seq(SUBSET S) /\ Len(g) = hi - lo /\ \A k \in 1 .. hi - lo : g[k] = Arriving(P, S, lo + k)

LEMMA BetweenFacts ==
    ASSUME NEW P, ScheduleProblem(P), NEW S \in SUBSET Procs(P), NEW lo \in Nat, NEW hi \in Nat, lo <= hi
    PROVE  Groups(P, S, lo, hi, Between(P, S, lo, hi))
  <1> DEFINE m == hi - lo
             groups == Between(P, S, lo, hi)
  <1>1. m \in Nat /\ groups = [k \in 1 .. m |-> Arriving(P, S, lo + k)]
    BY DEF Between
  <1>2. \A k \in 1 .. m : Arriving(P, S, lo + k) \in SUBSET S
    BY DEF Arriving
  <1> HIDE DEF m, groups
  <1>3. groups \in [1 .. m -> SUBSET S]
    BY <1>1, <1>2
  <1>4. groups \in Seq(SUBSET S) /\ Len(groups) = m
    BY <1>1, <1>3, SeqDef
  <1> QED
    BY <1>1, <1>4 DEF m, groups, Groups

LEMMA InOrderFacts ==
    ASSUME NEW P, ScheduleProblem(P), NEW S \in SUBSET Procs(P), S \subseteq Nat,
           NEW lo \in Nat, NEW hi \in Nat, lo <= hi
    PROVE  /\ InOrder(Between(P, S, lo, hi)) \in Flatten(Between(P, S, lo, hi))
           /\ InOrder(Between(P, S, lo, hi)) \in Seq(S)
           /\ lo < hi => InOrder(Between(P, S, lo, hi)) = InOrder(Between(P, S, lo, hi - 1)) \o Rising(Arriving(P, S, hi))
  <1> DEFINE g == Between(P, S, lo, hi)
             m == hi - lo
             order == CHOOSE f : IsOrderTable(f, g)
             flat == CHOOSE f : IsFlat(f, g)
  <1>1. m \in Nat /\ g \in Seq(SUBSET S) /\ Len(g) = m /\ \A k \in 1 .. m : g[k] = Arriving(P, S, lo + k) /\ g[k] \subseteq S
    <2>1. m \in Nat /\ g \in Seq(SUBSET S) /\ Len(g) = m /\ \A k \in 1 .. m : g[k] = Arriving(P, S, lo + k)
      <3>1. Groups(P, S, lo, hi, g)
        BY BetweenFacts
      <3>2. m \in Nat
        OBVIOUS
      <3> HIDE DEF g
      <3> QED
        BY <3>1, <3>2 DEF Groups
    <2> HIDE DEF g, m
    <2> QED
      BY <2>1 DEF Arriving
  <1>2. IsFiniteSet(S)
    BY FS_Subset DEF ScheduleProblem
  <1>3. PICK h \in [0 .. Len(g) -> Seq(S)] : IsOrderTable(h, g)
    BY <1>1, <1>2, OrderTableExists
  <1>4. IsOrderTable(order, g) /\ InOrder(g) = order[m]
    <2>1. IsOrderTable(order, g)
      BY <1>3
    <2>2. InOrder(g) = order[Len(g)]
      BY DEF InOrder, IsOrderTable
    <2> QED
      BY <1>1, <2>1, <2>2
  <1>5. IsFlat(flat, g) /\ Flatten(g) = flat[m]
    <2>1. IsFlat(flat, g)
      BY <1>1, <1>2, FlatExists
    <2>2. Flatten(g) = flat[Len(g)]
      BY DEF Flatten, IsFlat
    <2> QED
      BY <1>1, <2>1, <2>2
  <1> HIDE DEF order, flat, m, g
  <1>6. \A n \in 0 .. m : order[n] = IF n = 0 THEN <<>> ELSE order[n - 1] \o Rising(g[n])
    BY <1>1, <1>4 DEF IsOrderTable
  <1>7. \A n \in 0 .. m : flat[n] = IF n = 0 THEN {<<>>} ELSE InAnyOrder(flat[n - 1], g[n])
    BY <1>1, <1>5 DEF IsFlat
  <1>8. \A n \in 1 .. m : Rising(g[n]) \in SetToSeqs(g[n]) /\ Rising(g[n]) \in Seq(S)
    <2> SUFFICES ASSUME NEW n \in 1 .. m
                 PROVE  Rising(g[n]) \in SetToSeqs(g[n]) /\ Rising(g[n]) \in Seq(S)
      OBVIOUS
    <2>1. g[n] \subseteq S /\ g[n] \subseteq Nat /\ IsFiniteSet(g[n])
      BY <1>1, <1>2, FS_Subset
    <2>2. Roster(g[n], Rising(g[n])) /\ Rising(g[n]) \in SetToSeqs(g[n])
      BY <2>1, RisingRoster
    <2> QED
      BY <2>1, <2>2, SeqMonotonic DEF Roster
  <1> DEFINE T == {n \in Nat : n <= m => order[n] \in flat[n] /\ order[n] \in Seq(S)}
  <1>9. 0 \in T
    <2>1. 0 \in 0 .. m /\ <<>> \in Seq(S)
      BY <1>1, EmptySeq
    <2> QED
      BY <1>6, <1>7, <2>1
  <1>10. ASSUME NEW n \in Nat, n \in T
         PROVE  n + 1 \in T
    <2> SUFFICES ASSUME n + 1 <= m
                 PROVE  order[n + 1] \in flat[n + 1] /\ order[n + 1] \in Seq(S)
      OBVIOUS
    <2>1. n + 1 \in 0 .. m /\ n + 1 \in 1 .. m /\ n + 1 # 0 /\ (n + 1) - 1 = n
      BY <1>1
    <2>2. order[n + 1] = order[n] \o Rising(g[n + 1]) /\ flat[n + 1] = InAnyOrder(flat[n], g[n + 1])
      BY <1>6, <1>7, <2>1
    <2>3. order[n] \in flat[n] /\ order[n] \in Seq(S) /\ Rising(g[n + 1]) \in SetToSeqs(g[n + 1]) /\ Rising(g[n + 1]) \in Seq(S)
      BY <1>8, <1>10, <2>1
    <2>4. order[n] \o Rising(g[n + 1]) \in InAnyOrder(flat[n], g[n + 1])
      <3> DEFINE head == order[n]
                 q == Rising(g[n + 1])
                 heads == flat[n]
                 group == g[n + 1]
      <3>1. head \in heads /\ q \in SetToSeqs(group)
        BY <2>3
      <3> HIDE DEF head, q, heads, group
      <3>2. head \o q \in InAnyOrder(heads, group)
        BY <3>1 DEF InAnyOrder
      <3> QED
        BY <3>2 DEF head, q, heads, group
    <2> QED
      BY <2>2, <2>3, <2>4, ConcatProperties
  <1> HIDE DEF T
  <1>11. m \in T
    BY <1>1, <1>9, <1>10, Induction
  <1>12. order[m] \in flat[m] /\ order[m] \in Seq(S)
    BY <1>1, <1>11 DEF T
  <1>13. ASSUME lo < hi
         PROVE  InOrder(g) = InOrder(Between(P, S, lo, hi - 1)) \o Rising(Arriving(P, S, hi))
    <2> DEFINE b == Between(P, S, lo, hi - 1)
               less == CHOOSE f : IsOrderTable(f, b)
    <2>1. hi - 1 \in Nat /\ lo <= hi - 1 /\ m - 1 \in Nat /\ (hi - 1) - lo = m - 1 /\ m \in 1 .. m /\ m \in 0 .. m /\ lo + m = hi
      BY <1>1, <1>13 DEF m
    <2>2. b \in Seq(SUBSET S) /\ Len(b) = m - 1 /\ \A k \in 1 .. m - 1 : b[k] = Arriving(P, S, lo + k)
      <3> DEFINE last == hi - 1
      <3>1. last \in Nat /\ lo <= last /\ last - lo = m - 1
        BY <2>1
      <3> HIDE DEF last
      <3>2. Groups(P, S, lo, last, Between(P, S, lo, last))
        BY <3>1, BetweenFacts
      <3>3. Groups(P, S, lo, last, b)
        BY <3>2 DEF last
      <3> HIDE DEF b
      <3> QED
        BY <3>1, <3>3 DEF Groups
    <2>3. IsOrderTable(less, b) /\ InOrder(b) = less[m - 1]
      <3>1. IsOrderTable(less, b)
        BY <1>2, <2>2, OrderTableExists
      <3>2. InOrder(b) = less[Len(b)]
        BY DEF InOrder, IsOrderTable
      <3> QED
        BY <2>2, <3>1, <3>2
    <2> HIDE DEF less, b
    <2>4. \A n \in 0 .. m - 1 : less[n] = IF n = 0 THEN <<>> ELSE less[n - 1] \o Rising(b[n])
      BY <2>2, <2>3 DEF IsOrderTable
    <2>5. \A k \in 1 .. m - 1 : b[k] = g[k]
      BY <1>1, <2>1, <2>2
    <2>6. less[0] = order[0]
      BY <1>6, <2>1, <2>4
    <2>7. GoOnAlike(less, order, m - 1)
      <3> SUFFICES ASSUME NEW n \in 1 .. m - 1, less[n - 1] = order[n - 1]
                   PROVE  less[n] = order[n]
        BY DEF GoOnAlike
      <3>1. n \in 0 .. m - 1 /\ n \in 0 .. m /\ n # 0
        BY <2>1
      <3> QED
        BY <1>6, <2>4, <2>5, <3>1
    <2>8. less[m - 1] = order[m - 1]
      <3>1. m - 1 \in 0 .. m - 1
        BY <2>1
      <3> QED
        BY <2>1, <2>6, <2>7, <3>1, TablesAlike
    <2>9. order[m] = order[m - 1] \o Rising(g[m]) /\ g[m] = Arriving(P, S, hi)
      <3>1. m # 0 /\ m \in 0 .. m
        BY <2>1
      <3>2. order[m] = order[m - 1] \o Rising(g[m])
        BY <1>6, <3>1
      <3>3. g[m] = Arriving(P, S, lo + m)
        BY <1>1, <2>1
      <3> QED
        BY <2>1, <3>2, <3>3
    <2> QED
      BY <1>4, <2>3, <2>8, <2>9 DEF b
  <1> QED
    BY <1>4, <1>5, <1>12, <1>13 DEF g

----------------------------------------------------------------------------
FirstSteps(P, c) ==
    {x \in Successors(P, c) : \A y \in Successors(P, c) : x.seg.pid = Idle \/ x.seg.pid <= y.seg.pid}

Again(c, x) == IF c.queue # <<>> /\ x.state.rem[Head(c.queue)] > 0 THEN <<Head(c.queue)>> ELSE <<>>
Behindhand(c) == IF c.queue = <<>> THEN <<>> ELSE Tail(c.queue)
QueuedAs(P, c, x) ==
    x.state.queue = Behindhand(c) \o InOrder(Between(P, Unfinished(c), c.t, x.state.t)) \o Again(c, x)

LEMMA QueuesHave ==
    ASSUME NEW waiting, NEW during, NEW tails, NEW mid \in during, NEW tail \in tails
    PROVE  waiting \o mid \o tail \in Queues(waiting, during, tails)
  BY DEF Queues

Glued(a, b) == a \o b

LEMMA Regrouped ==
    ASSUME NEW S, NEW a \in Seq(S), NEW b \in Seq(S), NEW c \in Seq(S), NEW d \in Seq(S)
    PROVE  Glued(Glued(a, Glued(b, c)), d) = Glued(Glued(a, b), Glued(c, d))
  <1>1. a \o (b \o c) = (a \o b) \o c
    BY ConcatAssociative
  <1>2. a \o b \in Seq(S)
    BY ConcatProperties
  <1>3. ((a \o b) \o c) \o d = (a \o b) \o (c \o d)
    BY <1>2, ConcatAssociative
  <1> QED
    BY <1>1, <1>3 DEF Glued

LEMMA FirstStepExists ==
    ASSUME NEW P, ScheduleProblem(P), Procs(P) \subseteq Nat, NEW c, Legal(P, c), Successors(P, c) # {}
    PROVE  FirstSteps(P, c) # {}
  <1> DEFINE pids == {x.seg.pid : x \in Successors(P, c)}
  <1>1. \A x \in Successors(P, c) : x.seg.pid = Idle \/ x.seg.pid \in Nat
    BY StepFacts DEF Moves, Pids
  <1>2. CASE \E x \in Successors(P, c) : x.seg.pid = Idle
    BY <1>2 DEF FirstSteps
  <1>3. CASE \A x \in Successors(P, c) : x.seg.pid # Idle
    <2>1. pids \subseteq Nat /\ pids # {}
      BY <1>1, <1>3
    <2>2. PICK p \in pids : \A q \in pids : p <= q
      BY <2>1, LeastNatural
    <2>3. PICK x \in Successors(P, c) : x.seg.pid = p
      BY <2>2
    <2>4. \A y \in Successors(P, c) : x.seg.pid <= y.seg.pid
      BY <2>2, <2>3
    <2> QED
      BY <2>4 DEF FirstSteps
  <1> QED
    BY <1>2, <1>3

(* Nobody queued: who arrives first enqueues in order.                     *)
LEMMA WaitInOrder ==
    ASSUME NEW P, ScheduleProblem(P), P.policy = "RR", Procs(P) \subseteq Nat,
           NEW c, Legal(P, c), Successors(P, c) # {}, c.queue = <<>>
    PROVE  \E x \in FirstSteps(P, c) : QueuedAs(P, c, x)
  <1> DEFINE open == Unfinished(c)
             next == Next(P, c)
             now == Arriving(P, open, next)
             q == Rising(now)
             w == Waited(P, c, q)
             x == Emit(Idle, c, w)
  <1>1. /\ c.t \in Nat /\ open \in SUBSET Procs(P) /\ IsFiniteSet(open) /\ open # {}
        /\ \A p \in Procs(P) : P.arrival[p] \in Nat
    <2>1. open # {}
      BY RoundRobinSteps
    <2> QED
      BY <2>1, FS_Subset, ProblemFacts DEF Legal, States, Unfinished
  <1>2. Arrived(P, c) = {}
    BY RosterOfNone DEF Legal
  <1>3. next \in Nat /\ c.t < next
    BY <1>1, <1>2, WaitFacts
  <1>4. \A p \in open : next <= P.arrival[p]
    <2> DEFINE times == {P.arrival[p] : p \in open}
    <2>1. times \subseteq Nat /\ times # {}
      BY <1>1
    <2>2. \A y \in times : Least(times) <= y
      BY <2>1, LeastFacts
    <2> QED
      BY <2>2 DEF Next
  <1> HIDE DEF next
  <1>5. Roster(now, q)
    <2>1. now \subseteq Nat /\ IsFiniteSet(now) /\ now \subseteq Procs(P)
      BY <1>1, FS_Subset DEF Arriving
    <2> HIDE DEF now
    <2> QED
      BY <2>1, RisingRoster
  <1>6. q \in Seq(Procs(P))
    <2>1. now \subseteq Procs(P)
      BY <1>1 DEF Arriving
    <2> HIDE DEF now
    <2> QED
      BY <1>5, <2>1, SeqMonotonic DEF Roster
  <1>7. x \in Successors(P, c)
    <2>1. Waits(P, c, x)
      <3> HIDE DEF q, w, open, now
      <3> QED
        BY <1>1, <1>2, <1>5, <1>6 DEF Waits, w, x, now, next, open
    <2> QED
      BY <2>1, RoundRobinSteps
  <1>8. x.seg.pid = Idle /\ x.state = w /\ w.t = next /\ w.queue = q
    BY DEF Emit, Segment, Waited, next
  <1> HIDE DEF x, w
  <1>9. x \in FirstSteps(P, c)
    BY <1>7, <1>8 DEF FirstSteps
  <1>10. InOrder(Between(P, open, c.t, next)) = q
    <2> DEFINE last == next - 1
               b == Between(P, open, c.t, last)
    <2>1. last \in Nat /\ c.t <= last /\ c.t <= next
      BY <1>1, <1>3
    <2>2. open \subseteq Nat
      BY <1>1
    <2>3. InOrder(b) \in Flatten(b)
      BY <1>1, <2>1, <2>2, InOrderFacts
    <2>4. Roster(Within(P, open, c.t, last), InOrder(b))
      BY <1>1, <2>1, <2>3, FlattenFacts
    <2>5. Within(P, open, c.t, last) = {}
      BY <1>1, <1>3, <1>4 DEF Within
    <2>6. InOrder(b) = <<>>
      BY <2>4, <2>5, RosterOfNone
    <2>7. InOrder(Between(P, open, c.t, next)) = InOrder(b) \o q
      BY <1>1, <1>3, <2>1, <2>2, InOrderFacts
    <2> HIDE DEF b, q
    <2> QED
      BY <1>6, <2>6, <2>7
  <1>11. QueuedAs(P, c, x)
    <2>1. <<>> \o q \o <<>> = q
      <3> HIDE DEF q
      <3> QED
        BY <1>6
    <2> QED
      BY <1>8, <1>10, <2>1 DEF QueuedAs, Behindhand, Again
  <1> QED
    BY <1>9, <1>11

(* Otherwise the head runs; who arrives before it is queued again.         *)
LEMMA RotateInOrder ==
    ASSUME NEW P, ScheduleProblem(P), P.policy = "RR", Procs(P) \subseteq Nat,
           NEW c, Legal(P, c), c.queue # <<>>
    PROVE  \E x \in FirstSteps(P, c) : QueuedAs(P, c, x)
  <1> DEFINE open == Unfinished(c)
             head == Head(c.queue)
             run == Quantum(P, c)
             stop == c.t + run
             left == [c.rem EXCEPT ![head] = @ - run]
             pre == IF left[head] > 0 THEN <<head>> ELSE <<>>
             now == Arriving(P, open, stop)
             last == stop - 1
             mid == InOrder(Between(P, open, c.t, last))
             e == Rising(now)
             q == Tail(c.queue) \o mid \o (e \o pre)
             d == [t |-> stop, queue |-> q, rem |-> left]
             x == Emit(head, c, d)
  <1>1. /\ c.t \in Nat /\ c.queue \in Seq(Procs(P)) /\ open \in SUBSET Procs(P) /\ IsFiniteSet(open) /\ open \subseteq Nat
        /\ \A p \in Procs(P) : P.arrival[p] \in Nat
    BY FS_Subset, ProblemFacts DEF Legal, States, Unfinished
  <1>2. run \in Nat /\ run > 0 /\ head \in Arrived(P, c) /\ Arrived(P, c) # {} /\ head \in Procs(P)
    BY QuantumFacts DEF Arrived, Unfinished, Legal, States
  <1>3. run = Min({P.quantum, c.rem[head]})
    BY DEF Quantum
  <1> HIDE DEF run
  <1>4. stop \in Nat /\ c.t < stop /\ last \in Nat /\ c.t <= last
    BY <1>1, <1>2
  <1>5. e \in SetToSeqs(now) /\ e \in Seq(Procs(P))
    <2>1. now \subseteq Nat /\ IsFiniteSet(now) /\ now \subseteq Procs(P)
      BY <1>1, FS_Subset DEF Arriving
    <2> HIDE DEF now
    <2>2. Roster(now, Rising(now)) /\ Rising(now) \in SetToSeqs(now)
      BY <2>1, RisingRoster
    <2> QED
      BY <2>1, <2>2, SeqMonotonic DEF Roster
  <1>6. /\ mid \in Flatten(Between(P, open, c.t, last)) /\ mid \in Seq(Procs(P))
        /\ InOrder(Between(P, open, c.t, stop)) = mid \o e
    <2>1. mid \in Flatten(Between(P, open, c.t, last)) /\ mid \in Seq(open)
      <3> HIDE DEF last, open
      <3> QED
        BY <1>1, <1>4, InOrderFacts
    <2>2. InOrder(Between(P, open, c.t, stop)) = mid \o e
      <3> HIDE DEF stop, open
      <3> QED
        <4>1. c.t <= stop /\ stop - 1 = last
          BY <1>1, <1>4 DEF last
        <4> QED
          BY <1>1, <1>4, <4>1, InOrderFacts
    <2> HIDE DEF mid
    <2> QED
      BY <1>1, <2>1, <2>2, SeqMonotonic
  <1>7. pre \in Seq(Procs(P))
    BY <1>2, EmptySeq
  <1> HIDE DEF mid, e, left, open, now, last
  <1>8. q \in DispatchQueues(P, head, c, stop, left)
    <2>1. e \o pre \in Lasts(pre, now)
      <3> HIDE DEF pre
      <3> QED
        BY <1>5 DEF Lasts
    <2> DEFINE tail == e \o pre
               tails == Lasts(pre, now)
               during == Flatten(Between(P, open, c.t, last))
               rest == Tail(c.queue)
    <2>2. tail \in tails /\ mid \in during
      BY <1>6, <2>1
    <2>3. DispatchQueues(P, head, c, stop, left) = Queues(rest, during, tails)
      BY DEF DispatchQueues, open, now, last
    <2>4. q = rest \o mid \o tail
      OBVIOUS
    <2> HIDE DEF tail, tails, during, rest, q
    <2>5. rest \o mid \o tail \in Queues(rest, during, tails)
      BY <2>2, QueuesHave
    <2> QED
      BY <2>3, <2>4, <2>5
  <1>9. d \in Dispatches(P, head, stop, c)
    <2>1. Leads(P, head, stop, c, run, stop, left, d)
      <3> HIDE DEF q
      <3> QED
        BY <1>1, <1>2, <1>4, <1>8 DEF Leads
    <2>2. left = [c.rem EXCEPT ![head] = @ - run]
      BY DEF left
    <2> HIDE DEF d, stop, head
    <2>3. stop = c.t + run
      BY DEF stop
    <2> QED
      BY <1>3, <2>1, <2>2, <2>3, DispatchForm
  <1>10. x \in Successors(P, c)
    <2>1. Rotates(P, c, x)
      <3> HIDE DEF d
      <3> QED
        BY <1>9 DEF Rotates, run
    <2> QED
      BY <2>1, RoundRobinSteps
  <1>11. x.seg.pid = head /\ x.state = d /\ d.t = stop /\ d.queue = q /\ d.rem = left
    BY DEF Emit, Segment
  <1> HIDE DEF x, d, q
  <1>12. x \in FirstSteps(P, c)
    <2>1. \A y \in Successors(P, c) : y.seg.pid = head
      <3> SUFFICES ASSUME NEW y \in Successors(P, c)
                   PROVE  y.seg.pid = head
        OBVIOUS
      <3>1. ~Waits(P, c, y)
        BY <1>2 DEF Waits
      <3>2. Rotates(P, c, y)
        BY <3>1, RoundRobinSteps
      <3> QED
        BY <3>2 DEF Rotates, Emit, Segment
    <2>2. head \in Nat
      BY <1>2
    <2> HIDE DEF head
    <2>3. \A y \in Successors(P, c) : x.seg.pid <= y.seg.pid
      BY <1>11, <2>1, <2>2
    <2> QED
      BY <1>10, <2>3 DEF FirstSteps
  <1>13. QueuedAs(P, c, x)
    <2> DEFINE rest == Tail(c.queue)
    <2>1. rest \in Seq(Procs(P))
      BY <1>1, HeadTailProperties
    <2>2. q = rest \o mid \o (e \o pre)
      BY DEF q
    <2>3. Behindhand(c) = rest /\ Again(c, x) = pre
      BY <1>11 DEF Behindhand, Again
    <2> HIDE DEF rest, pre
    <2>4. Glued(Glued(rest, Glued(mid, e)), pre) = Glued(Glued(rest, mid), Glued(e, pre))
      BY <1>5, <1>6, <1>7, <2>1, Regrouped
    <2>5. InOrder(Between(P, Unfinished(c), c.t, x.state.t)) = Glued(mid, e)
      BY <1>6, <1>11 DEF open, Glued
    <2>6. q = Glued(Glued(rest, mid), Glued(e, pre))
      BY <2>2 DEF Glued
    <2>7. x.state.queue = Glued(Glued(Behindhand(c), InOrder(Between(P, Unfinished(c), c.t, x.state.t))), Again(c, x))
      BY <1>11, <2>3, <2>4, <2>5, <2>6
    <2> QED
      BY <2>7 DEF QueuedAs, Glued
  <1> QED
    BY <1>12, <1>13

LEMMA CanonicalStepIs ==
    ASSUME NEW P, ScheduleProblem(P), Procs(P) \subseteq Nat, NEW c, Legal(P, c), Successors(P, c) # {}
    PROVE  CanonicalStep(P, c) \in Successors(P, c)
  <1>1. CanonicalStep(P, c) = CHOOSE x \in FirstSteps(P, c) : P.policy = "RR" => QueuedAs(P, c, x)
    BY DEF CanonicalStep, FirstSteps, QueuedAs, Behindhand, Again
  <1>2. \E x \in FirstSteps(P, c) : P.policy = "RR" => QueuedAs(P, c, x)
    BY FirstStepExists, WaitInOrder, RotateInOrder
  <1>3. CanonicalStep(P, c) \in FirstSteps(P, c)
    BY <1>1, <1>2
  <1> QED
    BY <1>3 DEF FirstSteps

----------------------------------------------------------------------------
CanonicalStart(P) ==
    IF P.policy # "RR" THEN CHOOSE s \in InitialStates(P) : TRUE
    ELSE CHOOSE s \in InitialStates(P) : s.queue = Rising(Arriving(P, Procs(P), 0))

Seen(r) == [segs |-> r.segs, state |-> EndState(r)]

StrolledOn(P, w) ==
    IF Successors(P, w.state) = {} THEN w
    ELSE [segs |-> Append(w.segs, CanonicalStep(P, w.state).seg), state |-> CanonicalStep(P, w.state).state]

IsStroll(f, P) ==
    f = [n \in 0 .. Horizon(P) |-> IF n = 0 THEN [segs |-> <<>>, state |-> CanonicalStart(P)] ELSE StrolledOn(P, f[n - 1])]

LEMMA StartIs ==
    ASSUME NEW P, ScheduleProblem(P), Procs(P) \subseteq Nat
    PROVE  CanonicalStart(P) \in InitialStates(P)
  <1> DEFINE first == Arriving(P, Procs(P), 0)
             q == IF P.policy = "RR" THEN Rising(first) ELSE <<>>
             s == [t |-> 0, queue |-> q, rem |-> P.burst]
  <1>1. P.policy = "RR" => q \in SetToSeqs(first)
    <2>1. first \subseteq Nat /\ IsFiniteSet(first)
      BY ProblemFacts, FS_Subset DEF Arriving
    <2> HIDE DEF first
    <2> QED
      BY <2>1, RisingRoster
  <1>2. s.queue = q
    OBVIOUS
  <1> HIDE DEF q
  <1>3. s \in InitialStates(P)
    <2>1. q \in IF P.policy = "RR" THEN SetToSeqs(first) ELSE {<<>>}
      BY <1>1 DEF q
    <2> QED
      BY <2>1 DEF InitialStates
  <1> HIDE DEF s
  <1> QED
    BY <1>2, <1>3 DEF CanonicalStart, q

LEMMA StrolledFacts ==
    ASSUME NEW P, ScheduleProblem(P), Procs(P) \subseteq Nat, NEW r \in RunsOf(P)
    PROVE  \E q \in Prolonged(P, r) : q \in RunsOf(P) /\ StrolledOn(P, Seen(r)) = Seen(q)
  <1> DEFINE c == EndState(r)
             x == CanonicalStep(P, c)
             q == Onward(r, x)
  <1>1. Seen(r).state = c /\ Seen(r).segs = r.segs
    BY DEF Seen
  <1>2. CASE Successors(P, c) = {}
    <2>1. StrolledOn(P, Seen(r)) = Seen(r)
      BY <1>1, <1>2 DEF StrolledOn
    <2>2. r \in Prolonged(P, r)
      BY <1>2 DEF Prolonged, EndState
    <2> QED
      BY <2>1, <2>2
  <1>3. CASE Successors(P, c) # {}
    <2>1. Sound(P, r) /\ Legal(P, c)
      BY RunFacts DEF Sound
    <2>2. x \in Successors(P, c)
      BY <1>3, <2>1, CanonicalStepIs
    <2>3. q \in RunsOf(P) /\ q \in Prolonged(P, r)
      BY <1>3, <2>2, RunFacts DEF GoesWith, Prolonged, EndState
    <2>4. EndState(q) = x.state /\ q.segs = Append(r.segs, x.seg)
      BY <2>1, <2>2, OnwardSound
    <2> HIDE DEF q, x, c
    <2>5. StrolledOn(P, Seen(r)) = [segs |-> Append(r.segs, x.seg), state |-> x.state]
      BY <1>1, <1>3 DEF StrolledOn, x
    <2> QED
      BY <2>3, <2>4, <2>5 DEF Seen
  <1> QED
    BY <1>2, <1>3

LEMMA StrollExists ==
    ASSUME NEW P, ScheduleProblem(P), Procs(P) \subseteq Nat
    PROVE  \E f : IsStroll(f, P)
  <1> DEFINE V == {Seen(r) : r \in RunsOf(P)}
             m == Horizon(P)
             a == [segs |-> <<>>, state |-> CanonicalStart(P)]
             step == [x \in (1 .. m) \X V |-> StrolledOn(P, x[2])]
  <1>1. m \in Nat
    BY HorizonType
  <1>2. a \in V
    <2> DEFINE s == CanonicalStart(P)
    <2>1. s \in InitialStates(P)
      BY StartIs
    <2> HIDE DEF s
    <2>2. Started(s) \in RunsOf(P) /\ EndState(Started(s)) = s /\ Started(s).segs = <<>>
      BY <2>1, RunFacts, StartedSound DEF GoesWith
    <2>3. Seen(Started(s)) = [segs |-> <<>>, state |-> s]
      BY <2>2 DEF Seen
    <2> QED
      BY <2>2, <2>3 DEF s
  <1>3. ASSUME NEW n \in 1 .. m, NEW v \in V
        PROVE  step[<<n, v>>] = StrolledOn(P, v) /\ step[<<n, v>>] \in V
    <2>1. StrolledOn(P, v) \in V
      BY StrolledFacts
    <2>2. <<n, v>> \in (1 .. m) \X V
      OBVIOUS
    <2> HIDE DEF V
    <2>3. step[<<n, v>>] = StrolledOn(P, v)
      BY <2>2
    <2> QED
      BY <2>1, <2>3
  <1> HIDE DEF step, m, V, a
  <1>4. PICK f \in [0 .. m -> V] : IsTable(f, m, a, step)
    BY <1>1, <1>2, <1>3, TableExists
  <1>5. ASSUME NEW n \in 0 .. m
        PROVE  f[n] = IF n = 0 THEN a ELSE StrolledOn(P, f[n - 1])
    <2>1. n # 0 => n \in 1 .. m /\ n - 1 \in 0 .. m
      BY <1>1
    <2>2. n # 0 => f[n - 1] \in V
      BY <2>1
    <2>3. f[n] = IF n = 0 THEN a ELSE step[<<n, f[n - 1]>>]
      BY <1>4 DEF IsTable
    <2> QED
      BY <1>3, <2>1, <2>2, <2>3
  <1>6. f = [n \in 0 .. m |-> IF n = 0 THEN a ELSE StrolledOn(P, f[n - 1])]
    BY <1>5
  <1> QED
    BY <1>6 DEF IsStroll, m, a

LEMMA CanonicalIsScheduled ==
    ASSUME NEW P, ScheduleProblem(P), Procs(P) \subseteq Nat
    PROVE  CanonicalSchedule(P) \in Space(P)
  <1> DEFINE m == Horizon(P)
             w == CHOOSE g : IsStroll(g, P)
             f == CHOOSE g : IsPathTable(g, P)
  <1>1. m \in Nat
    BY HorizonType
  <1>2. IsStroll(w, P) /\ CanonicalSchedule(P) = Normalize(w[m].segs)
    <2>1. IsStroll(w, P)
      BY StrollExists
    <2>2. CanonicalSchedule(P) = Normalize(w[m].segs)
      BY DEF CanonicalSchedule, IsStroll, Horizon, StrolledOn, CanonicalStart
    <2> QED
      BY <2>1, <2>2
  <1>3. IsPathTable(f, P) /\ Paths(P) = f[m]
    <2>1. IsPathTable(f, P)
      BY PathTableExists
    <2>2. Paths(P) = f[m]
      BY DEF Paths, IsPathTable, Horizon, Started
    <2> QED
      BY <2>1, <2>2
  <1> HIDE DEF m, w, f
  <1>4. \A n \in 0 .. m : w[n] = IF n = 0 THEN [segs |-> <<>>, state |-> CanonicalStart(P)] ELSE StrolledOn(P, w[n - 1])
    BY <1>2 DEF IsStroll, m
  <1>5. \A n \in 0 .. m : f[n] = IF n = 0 THEN {Started(s) : s \in InitialStates(P)}
                                ELSE UNION {Prolonged(P, run) : run \in f[n - 1]}
    BY <1>3 DEF IsPathTable, m
  <1> DEFINE T == {n \in Nat : n <= m => \E r \in RunsOf(P) : r \in f[n] /\ w[n] = Seen(r)}
  <1>6. 0 \in T
    <2> DEFINE s == CanonicalStart(P)
    <2>1. s \in InitialStates(P)
      BY StartIs
    <2>2. Started(s) \in RunsOf(P) /\ EndState(Started(s)) = s /\ Started(s).segs = <<>>
      BY <2>1, RunFacts, StartedSound DEF GoesWith
    <2>3. 0 \in 0 .. m
      BY <1>1
    <2>4. w[0] = [segs |-> <<>>, state |-> s] /\ f[0] = {Started(z) : z \in InitialStates(P)}
      BY <1>4, <1>5, <2>3
    <2> HIDE DEF s
    <2>5. w[0] = Seen(Started(s)) /\ Started(s) \in f[0]
      BY <2>1, <2>2, <2>4 DEF Seen
    <2> QED
      BY <2>2, <2>5
  <1>7. ASSUME NEW n \in Nat, n \in T
        PROVE  n + 1 \in T
    <2> SUFFICES ASSUME n + 1 <= m
                 PROVE  \E r \in RunsOf(P) : r \in f[n + 1] /\ w[n + 1] = Seen(r)
      OBVIOUS
    <2>1. n + 1 \in 0 .. m /\ n + 1 # 0 /\ (n + 1) - 1 = n
      BY <1>1
    <2>2. w[n + 1] = StrolledOn(P, w[n]) /\ f[n + 1] = UNION {Prolonged(P, run) : run \in f[n]}
      BY <1>4, <1>5, <2>1
    <2>3. PICK r \in RunsOf(P) : r \in f[n] /\ w[n] = Seen(r)
      <3>1. n <= m
        BY <1>1
      <3> QED
        BY <1>7, <3>1
    <2>4. PICK q \in Prolonged(P, r) : q \in RunsOf(P) /\ StrolledOn(P, Seen(r)) = Seen(q)
      BY StrolledFacts
    <2> QED
      BY <2>2, <2>3, <2>4
  <1> HIDE DEF T
  <1>8. m \in T
    BY <1>1, <1>6, <1>7, Induction
  <1>9. PICK r \in RunsOf(P) : r \in f[m] /\ w[m] = Seen(r)
    BY <1>1, <1>8 DEF T
  <1>10. CanonicalSchedule(P) = Normalize(r.segs)
    BY <1>2, <1>9 DEF Seen
  <1> QED
    BY <1>3, <1>9, <1>10 DEF Space

----------------------------------------------------------------------------
(* What a shuffle of segments leaves is laid out without gaps.             *)
Stretches(T, s) == s \in Seq(Lane(T)) /\ \A i \in 1 .. Len(s) : s[i].start < s[i].end

IsLayout(f, s) == f = [n \in 0 .. Len(s) |-> IF n = 0 THEN <<>> ELSE Behind(f[n - 1], s[n])]

Shifted(seg, t) == Segment(seg.pid, t, t + (seg.end - seg.start))

LEMMA BehindFacts ==
    ASSUME NEW T, NEW s, Gapless(T, s), NEW x \in Lane(T), x.start < x.end
    PROVE  /\ Behind(s, x) = Append(s, Shifted(x, EndOf(s))) /\ Gapless(T, Behind(s, x))
           /\ Shifted(x, EndOf(s)) \in Lane(T)
  <1>1. s \in Seq(Lane(T)) /\ EndOf(s) \in Nat
    BY EndOfNat DEF Gapless
  <1>2. Behind(s, x) = Append(s, Shifted(x, EndOf(s)))
    BY DEF Behind, EndOf, Shifted, Last
  <1> DEFINE z == Shifted(x, EndOf(s))
  <1>3. z \in Lane(T) /\ z.start = EndOf(s) /\ z.start < z.end
    <2>1. x.pid \in T /\ x.start \in Nat /\ x.end \in Nat
      BY DEF Lane
    <2> DEFINE a == EndOf(s)
               l == x.end - x.start
    <2>2. a \in Nat /\ l \in Nat /\ l > 0 /\ a + l \in Nat
      BY <1>1, <2>1
    <2> HIDE DEF a, l
    <2> QED
      BY <2>1, <2>2 DEF Shifted, Segment, Lane, a, l
  <1> HIDE DEF z
  <1>4. Gapless(T, Append(s, z))
    BY <1>1, <1>3, GaplessAppend
  <1> QED
    BY <1>2, <1>3, <1>4 DEF z

LEMMA LayoutExists ==
    ASSUME NEW T, NEW s, Stretches(T, s)
    PROVE  \E f : IsLayout(f, s) /\ \A n \in 0 .. Len(s) : Gapless(T, f[n])
  <1> DEFINE V == {g \in Seq(Lane(T)) : Gapless(T, g)}
             m == Len(s)
             step == [x \in (1 .. m) \X V |-> Behind(x[2], s[x[1]])]
  <1>1. m \in Nat /\ \A n \in 1 .. m : s[n] \in Lane(T) /\ s[n].start < s[n].end
    BY LenProperties, ElementOfSeq DEF Stretches
  <1>2. <<>> \in V
    BY GaplessEmpty DEF Gapless
  <1>3. ASSUME NEW n \in 1 .. m, NEW v \in V
        PROVE  step[<<n, v>>] = Behind(v, s[n]) /\ step[<<n, v>>] \in V
    <2>1. Gapless(T, Behind(v, s[n]))
      BY <1>1, BehindFacts
    <2>2. Behind(v, s[n]) \in V
      BY <2>1 DEF Gapless
    <2>3. <<n, v>> \in (1 .. m) \X V
      OBVIOUS
    <2> HIDE DEF V
    <2>4. step[<<n, v>>] = Behind(v, s[n])
      BY <2>3
    <2> QED
      BY <2>2, <2>4
  <1> HIDE DEF step, m, V
  <1>4. PICK f \in [0 .. m -> V] : IsTable(f, m, <<>>, step)
    BY <1>1, <1>2, <1>3, TableExists
  <1>5. ASSUME NEW n \in 0 .. m
        PROVE  f[n] = IF n = 0 THEN <<>> ELSE Behind(f[n - 1], s[n])
    <2>1. n # 0 => n \in 1 .. m /\ n - 1 \in 0 .. m
      BY <1>1
    <2>2. n # 0 => f[n - 1] \in V
      BY <2>1
    <2>3. f[n] = IF n = 0 THEN <<>> ELSE step[<<n, f[n - 1]>>]
      BY <1>4 DEF IsTable
    <2> QED
      BY <1>3, <2>1, <2>2, <2>3
  <1>6. f = [n \in 0 .. m |-> IF n = 0 THEN <<>> ELSE Behind(f[n - 1], s[n])]
    BY <1>5
  <1>7. \A n \in 0 .. m : Gapless(T, f[n])
    BY DEF V
  <1> QED
    BY <1>6, <1>7 DEF IsLayout, m

(* Everything keeps its place, who runs and for how long.                  *)
Reshapes(s, l) ==
    /\ Len(l) = Len(s)
    /\ \A i \in 1 .. Len(s) : l[i].pid = s[i].pid /\ l[i].end - l[i].start = s[i].end - s[i].start

LEMMA LaidOutFacts ==
    ASSUME NEW T, NEW s, Stretches(T, s)
    PROVE  Gapless(T, LaidOut(s)) /\ Reshapes(s, LaidOut(s))
  <1> DEFINE m == Len(s)
             f == CHOOSE g : IsLayout(g, s)
  <1>1. m \in Nat /\ \A n \in 1 .. m : s[n] \in Lane(T) /\ s[n].start < s[n].end /\ s[n].start \in Nat /\ s[n].end \in Nat
    <2>1. m \in Nat /\ \A n \in 1 .. m : s[n] \in Lane(T) /\ s[n].start < s[n].end
      BY LenProperties, ElementOfSeq DEF Stretches
    <2> QED
      BY <2>1 DEF Lane
  <1>2. PICK h : IsLayout(h, s) /\ \A n \in 0 .. m : Gapless(T, h[n])
    BY LayoutExists
  <1>3. IsLayout(f, s) /\ LaidOut(s) = f[m]
    <2>1. IsLayout(f, s)
      BY <1>2
    <2>2. LaidOut(s) = f[Len(s)]
      BY DEF LaidOut, IsLayout
    <2> QED
      BY <2>1, <2>2
  <1> HIDE DEF m, f
  <1>4. \A n \in 0 .. m : f[n] = IF n = 0 THEN <<>> ELSE Behind(f[n - 1], s[n])
    BY <1>3 DEF IsLayout, m
  <1> DEFINE Kept(n) ==
                 /\ Gapless(T, f[n]) /\ Len(f[n]) = n
                 /\ \A i \in 1 .. n : f[n][i].pid = s[i].pid /\ f[n][i].end - f[n][i].start = s[i].end - s[i].start
             G == {n \in Nat : n <= m => Kept(n)}
  <1>5. 0 \in G
    <2>1. f[0] = <<>>
      BY <1>1, <1>4
    <2>2. Gapless(T, <<>>) /\ Len(<<>>) = 0
      BY GaplessEmpty
    <2> QED
      BY <2>1, <2>2
  <1>6. ASSUME NEW n \in Nat, n \in G
        PROVE  n + 1 \in G
    <2> SUFFICES ASSUME n + 1 <= m
                 PROVE  Kept(n + 1)
      OBVIOUS
    <2> DEFINE r == f[n]
               x == s[n + 1]
               z == Shifted(x, EndOf(r))
    <2>1. n + 1 \in 0 .. m /\ n + 1 \in 1 .. m /\ n + 1 # 0 /\ (n + 1) - 1 = n /\ n <= m
      BY <1>1
    <2>2. /\ Gapless(T, r) /\ Len(r) = n
          /\ \A i \in 1 .. n : r[i].pid = s[i].pid /\ r[i].end - r[i].start = s[i].end - s[i].start
      BY <1>6, <2>1
    <2>3. f[n + 1] = Behind(r, x)
      BY <1>4, <2>1
    <2>4. x \in Lane(T) /\ x.start < x.end /\ x.start \in Nat /\ x.end \in Nat
      BY <1>1, <2>1
    <2>5. EndOf(r) \in Nat
      BY <2>2, EndOfNat
    <2> HIDE DEF r, x
    <2>6. Behind(r, x) = Append(r, z) /\ Gapless(T, Behind(r, x)) /\ z \in Lane(T)
      BY <2>2, <2>4, BehindFacts
    <2>7. z.pid = x.pid /\ z.end - z.start = x.end - x.start
      <3> DEFINE t == EndOf(r)
      <3>1. z.pid = x.pid /\ z.start = t /\ z.end = t + (x.end - x.start)
        BY DEF Shifted, Segment
      <3> HIDE DEF t, z
      <3>2. t \in Nat
        BY <2>5 DEF t
      <3> QED
        BY <2>4, <3>1, <3>2
    <2> HIDE DEF z
    <2>8. r \in Seq(Lane(T))
      BY <2>2 DEF Gapless
    <2>9. /\ Len(Append(r, z)) = n + 1 /\ Append(r, z)[n + 1] = z
          /\ \A i \in 1 .. n : Append(r, z)[i] = r[i]
      BY <2>2, <2>6, <2>8, AppendFacts
    <2>10. \A i \in 1 .. n + 1 : i \in 1 .. n \/ i = n + 1
      OBVIOUS
    <2> DEFINE a == Append(r, z)
    <2> HIDE DEF a
    <2>11. /\ Len(a) = n + 1 /\ Gapless(T, a)
           /\ \A i \in 1 .. n + 1 : a[i].pid = s[i].pid /\ a[i].end - a[i].start = s[i].end - s[i].start
      BY <2>2, <2>6, <2>7, <2>9, <2>10 DEF a, x
    <2>12. f[n + 1] = a
      BY <2>3, <2>6 DEF a
    <2> QED
      BY <2>11, <2>12
  <1> HIDE DEF G
  <1>7. m \in G
    BY <1>1, <1>5, <1>6, Induction
  <1>8. Kept(m)
    BY <1>1, <1>7 DEF G
  <1> QED
    BY <1>3, <1>8 DEF m, Reshapes

(* Two segments change places.                                             *)
LEMMA BusySwapsAre ==
    ASSUME NEW T, NEW s, Stretches(T, s)
    PROVE  \A r \in BusySwaps(s) : Stretches(T, r)
  <1> SUFFICES ASSUME NEW r \in BusySwaps(s)
               PROVE  Stretches(T, r)
    OBVIOUS
  <1>1. PICK i \in DOMAIN s, j \in DOMAIN s : r = [s EXCEPT ![i] = s[j], ![j] = s[i]]
    BY DEF BusySwaps
  <1>2. s \in Seq(Lane(T)) /\ DOMAIN s = 1 .. Len(s)
    BY LenProperties DEF Stretches
  <1>3. /\ r \in Seq(Lane(T)) /\ Len(r) = Len(s)
        /\ r[i] = s[j] /\ r[j] = s[i] /\ \A k \in DOMAIN s \ {i, j} : r[k] = s[k]
    BY <1>1, <1>2, SwapFacts
  <1>4. \A k \in 1 .. Len(s) : \E h \in 1 .. Len(s) : r[k] = s[h]
    BY <1>2, <1>3
  <1> QED
    BY <1>3, <1>4 DEF Stretches

LEMMA ShapedFacts ==
    ASSUME NEW T, NEW s, Stretches(T, s)
    PROVE  Tidy(T, Normalize(LaidOut(s))) /\ Normalize(LaidOut(s)) = Merged(LaidOut(s))
  BY LaidOutFacts, NormalizeGapless, MergedTidy

----------------------------------------------------------------------------
(* The benchmark generator.                                                *)

BuildFields == {"stage", "domain", "problem", "space", "paths", "r1", "r2", "r3", "inv", "inv2",
                "cand", "swaps", "length"}

Posed ==
    \/ build.domain = "scheduling" /\ build.problem \in SchedulingProblems /\ build.space = Space(build.problem)
    \/ build.domain = "concurrency" /\ build.problem \in ConcurrencyProblems
       /\ build.space = Interleavings(build.problem)

BuildInv == DOMAIN build = BuildFields /\ (build.space = {} \/ Posed)

LEMMA BuildInvHolds == BenchmarkSpec => []BuildInv
  <1>1. BenchmarkInit => BuildInv
    BY DEF BenchmarkInit, Fresh, BuildInv, BuildFields
  <1>2. BuildInv /\ [BenchmarkNext]_build => BuildInv'
    <2> SUFFICES ASSUME BuildInv, [BenchmarkNext]_build
                 PROVE  BuildInv'
      OBVIOUS
    <2>1. ASSUME NEW p \in SchedulingProblems, MakeProblem("scheduling", p)
          PROVE  BuildInv'
      BY <2>1 DEF MakeProblem, Fresh, BuildInv, BuildFields, Posed
    <2>2. ASSUME NEW p \in ConcurrencyProblems, MakeProblem("concurrency", p)
          PROVE  BuildInv'
      BY <2>2 DEF MakeProblem, Fresh, BuildInv, BuildFields, Posed
    <2>3. CASE SampleR2
      BY <2>3 DEF SampleR2, BuildInv, BuildFields, Posed
    <2>4. CASE StartCandidate
      BY <2>4 DEF StartCandidate, BuildInv, BuildFields, Posed
    <2>5. CASE SwapCandidate
      BY <2>5 DEF SwapCandidate, BuildInv, BuildFields, Posed
    <2>6. CASE TakeCandidate
      BY <2>6 DEF TakeCandidate, BuildInv, BuildFields, Posed
    <2>7. CASE NoCandidate
      BY <2>7 DEF NoCandidate, BuildInv, BuildFields, Posed
    <2>8. CASE CheckLabels
      BY <2>8 DEF CheckLabels, BuildInv, BuildFields, Posed
    <2>9. CASE UNCHANGED build
      BY <2>9 DEF BuildInv, Posed
    <2> QED
      BY <2>1, <2>2, <2>3, <2>4, <2>5, <2>6, <2>7, <2>8, <2>9 DEF BenchmarkNext
  <1> QED
    BY <1>1, <1>2, PTL DEF BenchmarkSpec

(***************************************************************************)
(* Round robin starves nobody: among all the traces of a problem the      *)
(* generator builds an instance on, not only the canonical one, no        *)
(* process waits between two of its slices, or for its first, longer than *)
(* the quantum times the number of the others.  MCComponents checks it    *)
(* as the conjunct of BenchmarkIsSound.                                    *)
(***************************************************************************)
THEOREM RoundRobinStarvesNobody ==
    ASSUME \A p \in SchedulingProblems : ScheduleProblem(p)
    PROVE  BenchmarkSpec => []RoundRobinIsFair
  <1>1. BuildInv => RoundRobinIsFair
    <2> SUFFICES ASSUME BuildInv, Scheduling, build.problem.policy = "RR",
                        NEW t \in build.space, NEW p \in Procs(build.problem)
                 PROVE  WaitsAtMost(build.problem, t, p)
      BY DEF RoundRobinIsFair
    <2>1. build.domain = "scheduling"
      BY DEF Scheduling
    <2>2. build.problem \in SchedulingProblems /\ build.space = Space(build.problem)
      BY <2>1 DEF BuildInv, Posed
    <2> QED
      BY <2>2, SchedulesAreFair
  <1> QED
    BY <1>1, BuildInvHolds, PTL

----------------------------------------------------------------------------
(* What the generator's stages have made: a valid trace, one that the      *)
(* validator refused, a candidate on the way.                              *)

Told(domain, problem, t) ==
    (IF domain = "scheduling" THEN JudgeSchedule(problem, t) ELSE JudgeEvents(problem, t)) = "ok"

Written(domain, problem, t) ==
    IF domain = "scheduling" THEN Tidy(Pids(problem), t) ELSE t \in Seq(EventsOf(problem))

Refused(domain, problem, t) == Written(domain, problem, t) /\ ~Told(domain, problem, t)

Sketched(domain, problem, t) ==
    IF domain = "scheduling" THEN Stretches(Pids(problem), t) ELSE t \in Seq(EventsOf(problem))

Enumerates(domain, problem) == IF domain = "scheduling" THEN Space(problem) ELSE Interleavings(problem)

Recognises(domain, problem, t) ==
    IF domain = "scheduling" THEN Normalize(t) \in Space(problem) ELSE Follows(problem, t)

Numbered(domain, problem) ==
    \/ domain = "scheduling" /\ ScheduleProblem(problem) /\ Procs(problem) \subseteq Nat
    \/ domain = "concurrency" /\ ThreadProblem(problem) /\ DOMAIN problem.prog \subseteq Nat

LEMMA ScheduledAre ==
    ASSUME NEW P, ScheduleProblem(P), NEW t \in Space(P)
    PROVE  Tidy(Pids(P), t) /\ Normalize(t) = t
  <1>1. PICK r \in Paths(P) : t = Normalize(r.segs)
    BY DEF Space
  <1>2. Gapless(Pids(P), r.segs)
    BY PathFacts, RunFacts, <1>1 DEF Sound
  <1> QED
    BY <1>1, <1>2, NormalizeGapless, MergedTidy

LEMMA TidyStretches ==
    ASSUME NEW T, NEW s, Tidy(T, s)
    PROVE  Stretches(T, s)
  BY DEF Tidy, Gapless, Stretches

(* The two oracles speak of one problem alike: what is enumerated is       *)
(* written well, told valid and recognised.                                *)
LEMMA EnumeratedAre ==
    ASSUME NEW domain, NEW problem, Numbered(domain, problem), NEW t \in Enumerates(domain, problem)
    PROVE  Written(domain, problem, t) /\ Told(domain, problem, t) /\ Recognises(domain, problem, t)
  <1>1. CASE domain = "scheduling"
    <2>1. ScheduleProblem(problem) /\ t \in Space(problem)
      BY <1>1 DEF Numbered, Enumerates
    <2>2. Tidy(Pids(problem), t) /\ Normalize(t) = t
      BY <2>1, ScheduledAre
    <2>3. JudgeSchedule(problem, t) = "ok"
      BY <2>1, <2>2, JudgeIsSpace DEF Tidy
    <2> QED
      BY <1>1, <2>1, <2>2, <2>3 DEF Written, Told, Recognises
  <1>2. CASE domain # "scheduling"
    <2>1. ThreadProblem(problem) /\ t \in Interleavings(problem)
      BY <1>2 DEF Numbered, Enumerates
    <2>2. t \in Seq(EventsOf(problem)) /\ JudgeEvents(problem, t) = "ok"
      BY <2>1, InterleavingsAreValid
    <2>3. Follows(problem, t)
      BY <2>1, <2>2, EventsAgree
    <2> QED
      BY <1>2, <2>2, <2>3 DEF Written, Told, Recognises
  <1> QED
    BY <1>1, <1>2

LEMMA RefusedAreNot ==
    ASSUME NEW domain, NEW problem, Numbered(domain, problem), NEW t, Refused(domain, problem, t)
    PROVE  t \notin Enumerates(domain, problem) /\ ~Recognises(domain, problem, t)
  <1>1. t \notin Enumerates(domain, problem)
    BY EnumeratedAre DEF Refused
  <1>2. CASE domain = "scheduling"
    <2>1. ScheduleProblem(problem) /\ Gapless(Pids(problem), t) /\ JudgeSchedule(problem, t) # "ok"
      BY <1>2 DEF Numbered, Refused, Written, Told, Tidy
    <2> QED
      BY <1>1, <1>2, <2>1, JudgeIsSpace DEF Recognises
  <1>3. CASE domain # "scheduling"
    <2>1. ThreadProblem(problem) /\ t \in Seq(EventsOf(problem)) /\ JudgeEvents(problem, t) # "ok"
      BY <1>3 DEF Numbered, Refused, Written, Told
    <2> QED
      BY <1>1, <1>3, <2>1, EventsAgree DEF Recognises
  <1> QED
    BY <1>1, <1>2, <1>3

----------------------------------------------------------------------------
LabelInv ==
    /\ DOMAIN build = BuildFields
    /\ build.stage \in {"idle", "rejected", "problem", "invalid", "labels", "instance"}
    /\ build.stage \notin {"idle", "rejected"} =>
          Posed /\ Numbered(build.domain, build.problem) /\ build.r1 \in build.space
    /\ build.stage \in {"invalid", "labels", "instance"} =>
          build.r2 \in build.space /\ Substantive(build.r1, build.r2)
    /\ build.stage = "problem" => build.inv = None /\ build.cand = None
    /\ build.stage = "invalid" =>
          /\ build.cand # None => Sketched(build.domain, build.problem, build.cand)
          /\ build.inv # None => Refused(build.domain, build.problem, build.inv)
    /\ build.stage \in {"labels", "instance"} =>
          /\ Refused(build.domain, build.problem, build.inv)
          /\ Refused(build.domain, build.problem, build.inv2)

LEMMA PosedSpace ==
    ASSUME LabelInv, build.stage \notin {"idle", "rejected"}
    PROVE  /\ build.space = Enumerates(build.domain, build.problem)
           /\ Numbered(build.domain, build.problem)
           /\ Scheduling <=> build.domain = "scheduling"
           /\ \A t : Validates(t) <=> Told(build.domain, build.problem, t)
           /\ \A t : Accepts(t) <=> Recognises(build.domain, build.problem, t)
  <1>1. Posed /\ Numbered(build.domain, build.problem)
    BY DEF LabelInv
  <1>2. build.space = Enumerates(build.domain, build.problem)
    BY <1>1 DEF Posed, Enumerates
  <1>3. Scheduling <=> build.domain = "scheduling"
    BY DEF Scheduling
  <1>4. \A t : Validates(t) <=> Told(build.domain, build.problem, t)
    BY <1>3 DEF Validates, Told
  <1>5. \A t : Accepts(t) <=> Recognises(build.domain, build.problem, t)
    BY <1>2, <1>3 DEF Accepts, Recognises, Enumerates
  <1> QED
    BY <1>1, <1>2, <1>3, <1>4, <1>5

LEMMA LabelInvHolds ==
    ASSUME BenchmarkAssumption
    PROVE  BenchmarkSpec => []LabelInv
  <1>1. BenchmarkInit => LabelInv
    BY DEF BenchmarkInit, Fresh, LabelInv, BuildFields
  <1>2. LabelInv /\ [BenchmarkNext]_build => LabelInv'
    <2> SUFFICES ASSUME LabelInv, [BenchmarkNext]_build
                 PROVE  LabelInv'
      OBVIOUS
    <2>f. DOMAIN build = BuildFields
      BY DEF LabelInv
    <2>1. ASSUME NEW p \in SchedulingProblems, MakeProblem("scheduling", p)
          PROVE  LabelInv'
      <3>1. CanonicalSchedule(p) \in Space(p) /\ Numbered("scheduling", p)
        BY CanonicalIsScheduled DEF Numbered, BenchmarkAssumption
      <3>2. /\ DOMAIN build' = BuildFields /\ build'.domain = "scheduling" /\ build'.problem = p
            /\ build'.space = Space(p) /\ build'.inv = None /\ build'.cand = None
            /\ \/ build'.stage = "rejected"
               \/ build'.stage = "problem" /\ build'.r1 = CanonicalSchedule(p)
        BY <2>1 DEF MakeProblem, Fresh, BuildFields
      <3> QED
        BY <3>1, <3>2 DEF LabelInv, Posed
    <2>2. ASSUME NEW p \in ConcurrencyProblems, MakeProblem("concurrency", p)
          PROVE  LabelInv'
      <3>1. /\ DOMAIN build' = BuildFields /\ build'.domain = "concurrency" /\ build'.problem = p
            /\ build'.space = Interleavings(p) /\ build'.inv = None /\ build'.cand = None
            /\ \/ build'.stage = "rejected"
               \/ /\ build'.stage = "problem" /\ build'.r1 = CanonicalEvents(p)
                  /\ ~(Cardinality(Interleavings(p)) < 3)
        BY <2>2 DEF MakeProblem, Fresh, BuildFields
      <3>2. Interleavings(p) = {} => Cardinality(Interleavings(p)) < 3
        BY FS_EmptySet
      <3>3. Numbered("concurrency", p)
        BY DEF Numbered, BenchmarkAssumption
      <3>4. build'.stage = "problem" => build'.r1 \in build'.space
        BY <3>1, <3>2, CanonicalIsInterleaved DEF BenchmarkAssumption
      <3> QED
        BY <3>1, <3>3, <3>4 DEF LabelInv, Posed
    <2>3. CASE SampleR2
      <3>1. /\ build.stage = "problem" /\ DOMAIN build' = DOMAIN build
            /\ build'.domain = build.domain /\ build'.problem = build.problem /\ build'.space = build.space
            /\ build'.r1 = build.r1 /\ build'.inv = build.inv /\ build'.cand = build.cand
            /\ \/ build'.stage = "rejected"
               \/ build'.stage = "invalid" /\ build'.r2 \in build.space /\ Substantive(build.r1, build'.r2)
        BY <2>3, <2>f DEF SampleR2, At, BuildFields
      <3>2. Substantive(build.r1, build'.r2) => Substantive(build.r1, build.r2)'
        BY <3>1 DEF Substantive, Scheduling
      <3> QED
        BY <3>1, <3>2 DEF LabelInv, Posed
    <2>4. CASE StartCandidate
      <3>1. build.stage = "invalid"
        BY <2>4 DEF StartCandidate, At
      <3>2. /\ build.space = Enumerates(build.domain, build.problem)
            /\ Numbered(build.domain, build.problem) /\ (Scheduling <=> build.domain = "scheduling")
        BY <3>1, PosedSpace
      <3>3. PICK base \in build.space \union (IF Scheduling THEN {} ELSE Merges(build.problem)) :
                build' = [build EXCEPT !.cand = base, !.length = Len(base)]
        BY <2>4 DEF StartCandidate
      <3>4. Sketched(build.domain, build.problem, base)
        <4>1. CASE base \in build.space
          <5>1. Written(build.domain, build.problem, base)
            BY <4>1, <3>2, EnumeratedAre
          <5> QED
            BY <5>1, TidyStretches DEF Written, Sketched
        <4>2. CASE base \notin build.space
          <5>1. build.domain # "scheduling" /\ base \in Merges(build.problem)
            BY <4>2, <3>2, <3>3
          <5>2. ThreadProblem(build.problem)
            BY <5>1, <3>2 DEF Numbered
          <5> QED
            BY <5>1, <5>2, MergesAre DEF Sketched
        <4> QED
          BY <4>1, <4>2
      <3>5. /\ DOMAIN build' = DOMAIN build /\ build'.stage = build.stage
            /\ build'.domain = build.domain /\ build'.problem = build.problem /\ build'.space = build.space
            /\ build'.r1 = build.r1 /\ build'.r2 = build.r2 /\ build'.inv = build.inv /\ build'.cand = base
        BY <3>3, <2>f DEF BuildFields
      <3> QED
        BY <3>1, <3>4, <3>5 DEF LabelInv, Posed, Substantive, Scheduling
    <2>5. CASE SwapCandidate
      <3>1. build.stage = "invalid" /\ build.cand # None
        BY <2>5 DEF SwapCandidate, At
      <3>2. Numbered(build.domain, build.problem) /\ (Scheduling <=> build.domain = "scheduling")
        BY <3>1, PosedSpace
      <3>3. PICK cand \in IF Scheduling THEN BusySwaps(build.cand) ELSE AdjacentSwaps(build.cand) :
                build' = [build EXCEPT !.cand = cand, !.swaps = @ + 1]
        BY <2>5 DEF SwapCandidate
      <3>4. Sketched(build.domain, build.problem, build.cand)
        BY <3>1 DEF LabelInv
      <3>5. Sketched(build.domain, build.problem, cand)
        BY <3>2, <3>3, <3>4, BusySwapsAre, AdjacentSwapsAre DEF Sketched
      <3>6. /\ DOMAIN build' = DOMAIN build /\ build'.stage = build.stage
            /\ build'.domain = build.domain /\ build'.problem = build.problem /\ build'.space = build.space
            /\ build'.r1 = build.r1 /\ build'.r2 = build.r2 /\ build'.inv = build.inv /\ build'.cand = cand
        BY <3>3, <2>f DEF BuildFields
      <3> QED
        BY <3>1, <3>5, <3>6 DEF LabelInv, Posed, Substantive, Scheduling
    <2>6. CASE TakeCandidate
      <3> DEFINE c == Shaped(build.cand)
      <3>1. build.stage = "invalid" /\ build.cand # None /\ ~Validates(c)
        BY <2>6 DEF TakeCandidate, At, Pool
      <3>2. /\ Numbered(build.domain, build.problem) /\ (Scheduling <=> build.domain = "scheduling")
            /\ ~Told(build.domain, build.problem, c)
        BY <3>1, PosedSpace
      <3>3. Sketched(build.domain, build.problem, build.cand)
        BY <3>1 DEF LabelInv
      <3>4. Written(build.domain, build.problem, c)
        BY <3>2, <3>3, ShapedFacts DEF Sketched, Written, Shaped
      <3>5. Refused(build.domain, build.problem, c)
        BY <3>2, <3>4 DEF Refused
      <3>6. /\ DOMAIN build' = DOMAIN build
            /\ build'.domain = build.domain /\ build'.problem = build.problem /\ build'.space = build.space
            /\ build'.r1 = build.r1 /\ build'.r2 = build.r2 /\ build'.cand = None
            /\ \/ build'.stage = "invalid" /\ build'.inv = c
               \/ build'.stage = "labels" /\ build.inv # None /\ build'.inv = build.inv /\ build'.inv2 = c
        BY <2>6, <3>1, <2>f DEF TakeCandidate, BuildFields
      <3> HIDE DEF c
      <3> QED
        BY <3>1, <3>5, <3>6 DEF LabelInv, Posed, Substantive, Scheduling
    <2>7. CASE NoCandidate
      <3>1. build'.stage = "rejected" /\ DOMAIN build' = DOMAIN build
        BY <2>7, <2>f DEF NoCandidate, BuildFields
      <3> QED
        BY <3>1 DEF LabelInv
    <2>8. CASE CheckLabels
      <3>1. build.stage = "labels"
        BY <2>8 DEF CheckLabels, At
      <3>2. /\ build.space = Enumerates(build.domain, build.problem)
            /\ Numbered(build.domain, build.problem)
        BY <3>1, PosedSpace
      <3>3. \A t \in build.space : Validates(t) /\ Accepts(t)
        BY <3>1, <3>2, PosedSpace, EnumeratedAre
      <3>4. \A t \in {build.inv, build.inv2} : ~Validates(t) /\ ~Accepts(t)
        <4>1. Refused(build.domain, build.problem, build.inv) /\ Refused(build.domain, build.problem, build.inv2)
          BY <3>1 DEF LabelInv
        <4>2. \A t : Refused(build.domain, build.problem, t) => ~Validates(t) /\ ~Accepts(t)
          BY <3>1, <3>2, PosedSpace, RefusedAreNot DEF Refused
        <4> QED
          BY <4>1, <4>2
      <3>5. build.r1 \in build.space /\ build.r2 \in build.space
        BY <3>1 DEF LabelInv
      <3>6. /\ DOMAIN build' = DOMAIN build
            /\ build'.domain = build.domain /\ build'.problem = build.problem /\ build'.space = build.space
            /\ build'.r1 = build.r1 /\ build'.r2 = build.r2 /\ build'.inv = build.inv /\ build'.inv2 = build.inv2
            /\ build'.stage \in {"rejected", "instance"}
        BY <2>8, <2>f, <3>3, <3>4, <3>5 DEF CheckLabels, BuildFields
      <3> QED
        BY <3>1, <3>6 DEF LabelInv, Posed, Substantive, Scheduling
    <2>9. CASE UNCHANGED build
      BY <2>9 DEF LabelInv, Posed, Substantive, Scheduling
    <2> QED
      BY <2>1, <2>2, <2>3, <2>4, <2>5, <2>6, <2>7, <2>8, <2>9 DEF BenchmarkNext
  <1> QED
    BY <1>1, <1>2, PTL DEF BenchmarkSpec

(***************************************************************************)
(* The labels are true: for every set of problems, R1 and R2 of a built    *)
(* instance are enumerated traces, the invalid ones are none, and neither  *)
(* oracle ever contradicts the other, so no instance is dropped as a       *)
(* disagreement.  The processes and the threads are numbered, for the      *)
(* canonical trace takes the first of a tie.  MCComponents checks it as a  *)
(* conjunct of BenchmarkIsSound.                                           *)
(***************************************************************************)
THEOREM LabelsNeverDisagree ==
    ASSUME BenchmarkAssumption
    PROVE  BenchmarkSpec => []LabelsAreTrue
  <1>1. LabelInv => LabelsAreTrue
    <2> SUFFICES ASSUME LabelInv
                 PROVE  LabelsAreTrue
      OBVIOUS
    <2>1. ~At("disagreement")
      BY DEF LabelInv, At
    <2>2. ASSUME At("labels") \/ At("instance")
          PROVE  /\ {build.r1, build.r2} \subseteq build.space
                 /\ {build.inv, build.inv2} \intersect build.space = {}
                 /\ Substantive(build.r1, build.r2)
      <3>1. build.stage \in {"labels", "instance"}
        BY <2>2 DEF At
      <3>2. /\ build.space = Enumerates(build.domain, build.problem)
            /\ Numbered(build.domain, build.problem)
        BY <3>1, PosedSpace
      <3>3. build.r1 \in build.space /\ build.r2 \in build.space /\ Substantive(build.r1, build.r2)
        BY <3>1 DEF LabelInv
      <3>4. Refused(build.domain, build.problem, build.inv) /\ Refused(build.domain, build.problem, build.inv2)
        BY <3>1 DEF LabelInv
      <3>5. build.inv \notin build.space /\ build.inv2 \notin build.space
        BY <3>2, <3>4, RefusedAreNot
      <3> QED
        BY <3>3, <3>5
    <2> QED
      BY <2>1, <2>2 DEF LabelsAreTrue
  <1> QED
    BY <1>1, LabelInvHolds, PTL
=============================================================================

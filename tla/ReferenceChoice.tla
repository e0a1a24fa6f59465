--------------------------- MODULE ReferenceChoice ---------------------------
(***************************************************************************)
(* How much of a comparison of two models hangs on which valid reference   *)
(* a task is scored against (ssr_pilot/rcrc): the exact distribution of    *)
(* the margin, convolved task by task, and the certificate for its sign.   *)
(* A probability is an integer weight out of Total; a margin is kept as    *)
(* the sum of the differences of matches, not yet divided by tasks and K.  *)
(***************************************************************************)
EXTENDS Integers, Sequences, FiniteSets, FiniteSetsExt, Functions

CONSTANTS
    K,                \* outputs of a model per task
    StudiedTasks,     \* the tasks to choose from
    MaxStudied,       \* how many are studied
    Total,            \* the weight of certainty
    BiasLevels        \* weights of the canonical reference under a bias

VARIABLE study

Abs(n)  == IF n < 0 THEN -n ELSE n
Sign(n) == IF n > 0 THEN 1 ELSE IF n < 0 THEN -1 ELSE 0

----------------------------------------------------------------------------
(* A task: how many outputs of each model match each of its references.    *)
(* An output equals at most one reference; or, judged by the oracle, it    *)
(* passes whatever the reference.                                          *)

Counts(n) ==
    {c \in [1 .. n -> 0 .. K] : SumFunction(c) <= K \/ \A r \in 1 .. n : c[r] = c[1]}

ASSUME StudyAssumption ==
    /\ K \in Nat \ {0} /\ MaxStudied \in Nat /\ Total \in Nat \ {0} /\ BiasLevels \subseteq 0 .. Total
    /\ \A task \in StudiedTasks :
          LET n == Cardinality(DOMAIN task.a)
          IN  /\ n \in Nat \ {0} /\ {task.a, task.b} \subseteq Counts(n)
              /\ Total % n = 0 /\ \A p \in BiasLevels : n = 1 \/ (Total - p) % (n - 1) = 0

References(task) == DOMAIN task.a
NRefs(task)      == Cardinality(References(task))
Diff(task, r)    == task.a[r] - task.b[r]

(* The distributions of references studied.                                *)
Uniform(task) == [r \in References(task) |-> Total \div NRefs(task)]

CanonicalBias(task, p) ==
    IF NRefs(task) = 1 THEN Uniform(task)
    ELSE [r \in References(task) |-> IF r = 1 THEN p ELSE (Total - p) \div (NRefs(task) - 1)]

(* The first reference that displaces the scores most.                     *)
MaxDisplacement(task) ==
    LET moved(r) == Abs(task.a[r] - task.a[1]) + Abs(task.b[r] - task.b[1])
        most == {r \in References(task) : \A s \in References(task) : moved(s) <= moved(r)}
    IN  [r \in References(task) |-> IF r = Min(most) THEN Total ELSE 0]

Weights(task, choice) ==
    CASE choice.type = "uniform"        -> Uniform(task)
      [] choice.type = "canonical_bias" -> CanonicalBias(task, choice.p)
      [] choice.type = "adversarial"    -> MaxDisplacement(task)

----------------------------------------------------------------------------
(* exact_margin_distribution.                                              *)

PerTaskDiffs(task, q) ==
    LET possible == {r \in References(task) : q[r] > 0}
    IN  [d \in {Diff(task, r) : r \in possible} |-> SumFunctionOnSet(q, {r \in possible : Diff(task, r) = d})]

(* Mutant: of two ways to the same sum the later one is kept.              *)
ConvolveLast(raw, dist) ==
    LET ways(s) == {d \in DOMAIN dist : s - d \in DOMAIN raw}
    IN  [s \in {x + d : x \in DOMAIN raw, d \in DOMAIN dist} |-> raw[s - Max(ways(s))] * dist[Max(ways(s))]]

Convolve(raw, dist) ==
    [s \in {x + d : x \in DOMAIN raw, d \in DOMAIN dist} |->
        SumFunction([d \in {d \in DOMAIN dist : s - d \in DOMAIN raw} |-> raw[s - d] * dist[d]])]

PPositive(margin) == SumFunctionOnSet(margin, {s \in DOMAIN margin : s > 0})
PNegative(margin) == SumFunctionOnSet(margin, {s \in DOMAIN margin : s < 0})
ExpectedMargin(margin) == SumFunction([s \in DOMAIN margin |-> s * margin[s]])
WinnerReversal(margin) == 2 * PPositive(margin) * PNegative(margin)

----------------------------------------------------------------------------
(* robustness_certificate: twice the total variation distance, and what    *)
(* the margin may change by when every task is drawn as q says instead of  *)
(* as q0; both in units of Total.                                          *)

TwiceTVDistance(q, q0) == SumFunction([r \in DOMAIN q |-> Abs(q[r] - q0[r])])

TwiceTVBudgetForCanonicalBias(p, n) == IF n <= 1 THEN 0 ELSE 2 * Abs(p - Total \div n)

(* Mutant: the differences are taken to lie in an interval of length 1.    *)
HalfBound(twiceDistances) == (K * twiceDistances) \div 2

BoundOnExpectedMarginChange(twiceDistances) == K * twiceDistances

CertifiedSign(expected, bound) == IF Abs(expected) > bound THEN Sign(expected) ELSE 0

----------------------------------------------------------------------------
Distributions ==
    {[type |-> type] : type \in {"uniform", "adversarial"}} \union [type : {"canonical_bias"}, p : BiasLevels]

NoStudy == [choice |-> [type |-> "none"], tasks |-> <<>>, margin |-> [s \in {0} |-> 1]]
StudyInit == study = NoStudy

StartStudy == study = NoStudy /\ \E choice \in Distributions : study' = [study EXCEPT !.choice = choice]

StudyTask ==
    /\ study # NoStudy /\ Len(study.tasks) < MaxStudied
    /\ \E task \in StudiedTasks :
          study' = [study EXCEPT !.tasks = Append(@, task),
                                 !.margin = Convolve(@, PerTaskDiffs(task, Weights(task, study.choice)))]

StudyNext == StartStudy \/ StudyTask
StudySpec == StudyInit /\ [][StudyNext]_study

----------------------------------------------------------------------------
ExpectedDiff(task, choice) == SumFunction([r \in References(task) |-> Weights(task, choice)[r] * Diff(task, r)])
Expected(tasks, choice)    == SumFunction([i \in DOMAIN tasks |-> ExpectedDiff(tasks[i], choice)])

(* The vectors of references, with their weights and margins.              *)
Vectors(tasks) ==
    {v \in [DOMAIN tasks -> UNION {References(tasks[i]) : i \in DOMAIN tasks}] :
        \A i \in DOMAIN tasks : v[i] \in References(tasks[i])}
VectorWeight(tasks, choice, v) ==
    LET first[n \in 0 .. Len(tasks)] == IF n = 0 THEN 1 ELSE first[n - 1] * Weights(tasks[n], choice)[v[n]]
    IN  first[Len(tasks)]
MarginOf(tasks, v) == SumFunction([i \in DOMAIN tasks |-> Diff(tasks[i], v[i])])

Possible(tasks, choice) == {v \in Vectors(tasks) : VectorWeight(tasks, choice, v) > 0}
Scoring(tasks, choice, s) == {v \in Possible(tasks, choice) : MarginOf(tasks, v) = s}
Opposed(tasks, choice) ==
    {p \in Possible(tasks, choice) \X Possible(tasks, choice) :
        Sign(MarginOf(tasks, p[1])) * Sign(MarginOf(tasks, p[2])) = -1}
WeightOver(tasks, choice, vectors) == SumFunction([v \in vectors |-> VectorWeight(tasks, choice, v)])

(* The convolution returns "the exact margin distribution"                 *)
(* (exact_margin_distribution.py:8-9): that of all vectors of references;  *)
(* the two formulas drawn from it are right: the expectation, out of the   *)
(* weight of all vectors, is the sum over tasks, out of that of one, and   *)
(* two draws disagree on the winner as often as said.                      *)
MarginIsExact ==
    study # NoStudy =>
    LET tasks  == study.tasks
        choice == study.choice
    IN  /\ DOMAIN study.margin = {MarginOf(tasks, v) : v \in Possible(tasks, choice)}
        /\ \A s \in DOMAIN study.margin : study.margin[s] = WeightOver(tasks, choice, Scoring(tasks, choice, s))
        /\ Total * ExpectedMargin(study.margin) = WeightOver(tasks, choice, Vectors(tasks)) * Expected(tasks, choice)
        /\ WinnerReversal(study.margin) =
              SumFunction([p \in Opposed(tasks, choice) |->
                              VectorWeight(tasks, choice, p[1]) * VectorWeight(tasks, choice, p[2])])

(* A certified sign "is invariant under any distribution within TV budget" *)
(* (robustness_certificate.py:88): certified for the uniform choice, it is *)
(* the sign under the studied one; and the closed form of the budget of a  *)
(* canonical bias is its distance.                                         *)
Distance(task, choice) == TwiceTVDistance(Weights(task, choice), Uniform(task))

CertificateIsSound ==
    study # NoStudy =>
    LET distances == SumFunction([i \in DOMAIN study.tasks |-> Distance(study.tasks[i], study.choice)])
        sign == CertifiedSign(Expected(study.tasks, [type |-> "uniform"]), BoundOnExpectedMarginChange(distances))
    IN  /\ sign # 0 => Sign(Expected(study.tasks, study.choice)) = sign
        /\ study.choice.type = "canonical_bias" =>
              \A i \in DOMAIN study.tasks :
                  Distance(study.tasks[i], study.choice) =
                      TwiceTVBudgetForCanonicalBias(study.choice.p, NRefs(study.tasks[i]))

(* What is said of a margin is so: its distribution is exact, and a        *)
(* certified sign holds under the distributions it was certified for.      *)
MarginIsCertain == MarginIsExact /\ CertificateIsSound
=============================================================================

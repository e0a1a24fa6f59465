------------------------------- MODULE Banker -------------------------------
(***************************************************************************)
(* The Banker's algorithm of research/simulator: the solver that walks     *)
(* from state to state (banker.BankerSolver) and the validator that judges *)
(* a sequence of processes (validators.validate_banker).                   *)
(*                                                                         *)
(* A problem is [available, alloc, max]: a vector of resources and two     *)
(* functions from the processes to such vectors.                           *)
(***************************************************************************)
EXTENDS Integers, Sequences, FiniteSets, FiniteSetsExt, SequencesExt

Clients(problem) == DOMAIN problem.alloc
Resources(problem) == DOMAIN problem.available

(* Of every resource so much is free; a process holds some and may claim   *)
(* as much as it says.                                                     *)
BankProblem(problem) ==
    /\ IsFiniteSet(Clients(problem))
    /\ problem.available \in [Resources(problem) -> Int]
    /\ problem.alloc \in [Clients(problem) -> [Resources(problem) -> Nat]]
    /\ problem.max \in [Clients(problem) -> [Resources(problem) -> Int]]

Fits(problem, work, p) == \A r \in DOMAIN work : problem.max[p][r] - problem.alloc[p][r] <= work[r]

Freed(problem, work, p) == [r \in DOMAIN work |-> work[r] + problem.alloc[p][r]]

BankStart(problem) == [work |-> problem.available, left |-> Clients(problem), order |-> <<>>]
Enabled(problem, s) == {p \in s.left : Fits(problem, s.work, p)}

Finished(problem, s, p) ==
    [work |-> Freed(problem, s.work, p), left |-> s.left \ {p}, order |-> Append(s.order, p)]

(* enumerate and count_paths: all the ways to the end, one process a step. *)
WaysFrom(problem, s) ==
    LET after[n \in 0 .. Cardinality(s.left)] ==
            IF n = 0 THEN {s}
            ELSE UNION {{Finished(problem, x, p) : p \in Enabled(problem, x)} : x \in after[n - 1]}
    IN  after[Cardinality(s.left)]

SafeSequences(problem) == {s.order : s \in WaysFrom(problem, BankStart(problem))}

(* canonical: the first in the order of the processes that leads to the end.*)
CanonicalOrder(problem) ==
    LET Go(s, i) == LET ways == {p \in Enabled(problem, s) : WaysFrom(problem, Finished(problem, s, p)) # {}}
                    IN  Finished(problem, s, Min(ways))
    IN  FoldLeft(Go, BankStart(problem), [i \in 1 .. Cardinality(Clients(problem)) |-> i]).order

(* sample: an enabled process, weighed by the number of ways it leaves; no  *)
(* process when there are none.                                             *)
Sampled(problem, s) == {p \in Enabled(problem, s) : WaysFrom(problem, Finished(problem, s, p)) # {}}

(* accepts: every process once, each when its need fits.                   *)
AcceptsOrder(problem, order) ==
    LET work[n \in 0 .. Len(order)] == IF n = 0 THEN problem.available ELSE Freed(problem, work[n - 1], order[n])
    IN  /\ Len(order) = Cardinality(Clients(problem))
        /\ ToSet(order) = Clients(problem)
        /\ \A n \in DOMAIN order : Fits(problem, work[n - 1], order[n])

(* validate_banker                                                         *)
(* Mutant: enough of one resource is enough.                               *)
NeedOfOneMet(need, work) == \E r \in DOMAIN work : need[r] <= work[r]

NeedMet(need, work) == \A r \in DOMAIN work : need[r] <= work[r]

JudgeOrder(problem, order) ==
    LET need(p) == [r \in DOMAIN problem.available |-> problem.max[p][r] - problem.alloc[p][r]]
        work[n \in 0 .. Len(order)] ==
            IF n = 0 THEN problem.available
            ELSE [r \in DOMAIN work[n - 1] |-> work[n - 1][r] + problem.alloc[order[n]][r]]
        done(n) == {order[i] : i \in 1 .. n - 1}
    IN  IF \E n \in DOMAIN order : order[n] \in done(n) \/ ~NeedMet(need(order[n]), work[n - 1]) THEN "broken"
        ELSE IF ToSet(order) # Clients(problem) THEN "incomplete" ELSE "ok"
=============================================================================

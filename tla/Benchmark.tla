----------------------------- MODULE Benchmark -----------------------------
(***************************************************************************)
(* The benchmark generator (research/benchmark/generator.py): from one     *)
(* problem three valid traces R1, R2, R3 and two invalid ones I, I2, whose *)
(* labels the enumerator and the validator of the simulators must share.   *)
(*                                                                         *)
(* What the code draws at random is chosen; "up to 60 tries" may succeed   *)
(* or not; the candidate list is reduced to the candidates that are taken. *)
(* R3 only has to differ from R1 and R2 and is taken last.                 *)
(***************************************************************************)
EXTENDS CpuScheduling, Interleaving

CONSTANTS
    SchedulingProblems, ConcurrencyProblems,
    None,
    MaxSwaps          \* randint(1, 3): swaps that make a candidate

VARIABLE build       \* the instance under construction

(* Processes and threads are numbered in canonical order.                  *)
BenchmarkAssumption ==
    /\ \A p \in SchedulingProblems : ScheduleProblem(p) /\ Procs(p) \subseteq Nat
    /\ \A p \in ConcurrencyProblems : ThreadProblem(p) /\ DOMAIN p.prog \subseteq Nat

Fresh == [stage |-> "idle", domain |-> None, problem |-> None, space |-> {}, paths |-> 0,
          r1 |-> None, r2 |-> None, r3 |-> None, inv |-> None, inv2 |-> None,
          cand |-> None, swaps |-> 0, length |-> 0]

Scheduling == build.domain = "scheduling"

(* validate, accepts and _tokens of the domain.                            *)
Validates(trace) ==
    (IF Scheduling THEN JudgeSchedule(build.problem, trace) ELSE JudgeEvents(build.problem, trace)) = "ok"

Accepts(trace) ==
    IF Scheduling THEN Normalize(trace) \in build.space ELSE Follows(build.problem, trace)

Tokens(trace) == IF Scheduling THEN [i \in DOMAIN trace |-> trace[i].pid] ELSE trace
Pairs(trace) == LET t == Tokens(trace) IN {<<t[i], t[i + 1]>> : i \in 1 .. Len(t) - 1}

Substantive(a, b) ==
    IF Scheduling THEN WaitingTimes(build.problem, a) # WaitingTimes(build.problem, b)
    ELSE TraceClass(a) # TraceClass(b)

FirstDivergence(a, b) ==
    LET common == 1 .. Min({Len(a), Len(b)})
        differ == {i \in common : a[i] # b[i]}
    IN  IF differ = {} THEN Cardinality(common) ELSE Min(differ) - 1

Levenshtein(a, b) ==
    LET d[i \in 0 .. Len(a), j \in 0 .. Len(b)] ==
            IF i = 0 THEN j ELSE IF j = 0 THEN i
            ELSE Min({d[i - 1, j] + 1, d[i, j - 1] + 1, d[i - 1, j - 1] + (IF a[i] = b[j] THEN 0 ELSE 1)})
    IN  d[Len(a), Len(b)]

(* _profile: how a trace resembles R1.                                     *)
Profile(trace) ==
    LET a == Tokens(trace)
        b == Tokens(build.r1)
    IN  <<FirstDivergence(a, b), FirstDivergence(Reverse(a), Reverse(b)), Levenshtein(a, b)>>

(* _busy_period_permutation, one swap: two segments with no idle time      *)
(* between them change places, everything keeps its length.                *)
Busy(trace, i, j) == \A k \in i .. j : trace[k].pid # Idle

Behind(out, seg) ==
    LET t == IF out = <<>> THEN 0 ELSE Last(out).end
    IN  Append(out, Segment(seg.pid, t, t + (seg.end - seg.start)))

LaidOut(trace) ==
    LET out[n \in 0 .. Len(trace)] == IF n = 0 THEN <<>> ELSE Behind(out[n - 1], trace[n])
    IN  out[Len(trace)]

BusySwaps(trace) ==
    {[trace EXCEPT ![x[1]] = trace[x[2]], ![x[2]] = trace[x[1]]] :
        x \in {x \in (DOMAIN trace) \X (DOMAIN trace) : x[1] < x[2] /\ Busy(trace, x[1], x[2])}}

(* The candidate as the pool sees it; a merge may shorten it.              *)
Shaped(trace) == IF Scheduling THEN Normalize(LaidOut(trace)) ELSE trace

----------------------------------------------------------------------------
At(stage) == build.stage = stage

MakeProblem(domain, problem) ==
    /\ At("idle")
    /\ LET space == IF domain = "scheduling" THEN Space(problem) ELSE Interleavings(problem)
           paths == IF domain = "scheduling" THEN CountPaths(problem) ELSE Cardinality(space)
       IN  build' = [Fresh EXCEPT !.stage = IF paths < 3 THEN "rejected" ELSE "problem",
                                  !.domain = domain, !.problem = problem, !.space = space, !.paths = paths,
                                  !.r1 = IF paths < 3 THEN None
                                         ELSE IF domain = "scheduling" THEN CanonicalSchedule(problem)
                                         ELSE CanonicalEvents(problem)]

(* R2 is sampled; without one the instance is rejected.                    *)
SampleR2 ==
    /\ At("problem")
    /\ \/ \E r2 \in build.space :
             /\ r2 # build.r1 /\ Substantive(build.r1, r2)
             /\ build' = [build EXCEPT !.stage = "invalid", !.r2 = r2]
       \/ build' = [build EXCEPT !.stage = "rejected"]

(* A candidate starts from R2 or another valid trace, or, for events, from *)
(* an interleaving that ignores synchronisation.                           *)
StartCandidate ==
    /\ At("invalid") /\ build.cand = None
    /\ \E base \in build.space \union (IF Scheduling THEN {} ELSE Merges(build.problem)) :
          build' = [build EXCEPT !.cand = base, !.length = Len(base)]

SwapCandidate ==
    /\ At("invalid") /\ build.cand # None /\ build.swaps < MaxSwaps
    /\ \E cand \in IF Scheduling THEN BusySwaps(build.cand) ELSE AdjacentSwaps(build.cand) :
          build' = [build EXCEPT !.cand = cand, !.swaps = @ + 1]

(* Mutant: the candidate is not judged before it goes into the pool.       *)
PoolUnjudged(c) ==
    /\ Len(c) = build.length
    /\ Pairs(c) \subseteq UNION {Pairs(t) : t \in build.space}

(* The pool: invalid, as long as its base, and without a pair of           *)
(* neighbours that no valid trace has.                                     *)
Pool(c) ==
    /\ Len(c) = build.length
    /\ ~Validates(c)
    /\ Pairs(c) \subseteq UNION {Pairs(t) : t \in build.space}

(* I resembles R1 exactly as much as R2 does; I2 is another one.           *)
Matched(c) == Len(c) = Len(build.r2) /\ Profile(c) = Profile(build.r2)

TakeCandidate ==
    /\ At("invalid") /\ build.cand # None
    /\ LET c == Shaped(build.cand)
           rest == [build EXCEPT !.cand = None, !.swaps = 0, !.length = 0]
       IN  /\ Pool(c)
           /\ \/ build.inv = None /\ Matched(c) /\ build' = [rest EXCEPT !.inv = c]
              \/ build.inv # None /\ c # build.inv /\ build' = [rest EXCEPT !.inv2 = c, !.stage = "labels"]

NoCandidate ==
    /\ At("invalid")
    /\ build' = [build EXCEPT !.stage = "rejected"]

(* Both oracles confirm every label, and the paths are as many as the      *)
(* traces; otherwise the instance is rejected as a disagreement.           *)
CheckLabels ==
    /\ At("labels")
    /\ \E r3 \in build.space \ {build.r1, build.r2} :
          LET valid == {build.r1, build.r2, r3}
              confirmed == /\ \A t \in valid : Validates(t) /\ Accepts(t)
                           /\ \A t \in {build.inv, build.inv2} : ~Validates(t) /\ ~Accepts(t)
              counted == Cardinality(build.space) = build.paths
          IN  build' = [build EXCEPT !.r3 = r3,
                                     !.stage = IF ~confirmed THEN "disagreement"
                                               ELSE IF ~counted THEN "rejected" ELSE "instance"]

BenchmarkInit == build = Fresh

BenchmarkNext ==
    \/ \E p \in SchedulingProblems : MakeProblem("scheduling", p)
    \/ \E p \in ConcurrencyProblems : MakeProblem("concurrency", p)
    \/ SampleR2 \/ StartCandidate \/ SwapCandidate \/ TakeCandidate \/ NoCandidate \/ CheckLabels

BenchmarkSpec == BenchmarkInit /\ [][BenchmarkNext]_build

----------------------------------------------------------------------------
(* What a trace is made of; what it gives each process, and idle time; the *)
(* order in which it has the events of each thread.                        *)
Parts(trace) ==
    LET part(x) == IF Scheduling THEN <<x.pid, x.end - x.start>> ELSE <<x.thread, x>>
        parts == {part(trace[i]) : i \in DOMAIN trace}
    IN  [p \in parts |-> Cardinality({i \in DOMAIN trace : part(trace[i]) = p})]

Shares(trace) ==
    [p \in {trace[i].pid : i \in DOMAIN trace} |->
        SumFunction([i \in {i \in DOMAIN trace : trace[i].pid = p} |-> trace[i].end - trace[i].start])]

Programs(trace) ==
    [t \in {trace[i].thread : i \in DOMAIN trace} |-> SelectSeq(trace, LAMBDA e : e.thread = t)]

(* Both oracles tell the truth about an instance (generator.py:4-8): they  *)
(* never disagree on a label; the canonical trace R1, which no enumeration *)
(* gave, and R2 are traces of the enumeration, and I and I2, which only    *)
(* the validator judged, are none of them; and R2 is no reshuffle of R1.   *)
LabelsAreTrue ==
    /\ ~At("disagreement")
    /\ At("labels") \/ At("instance") =>
          /\ {build.r1, build.r2} \subseteq build.space
          /\ {build.inv, build.inv2} \intersect build.space = {}
          /\ Substantive(build.r1, build.r2)

(* The invalid trace shares the surface of the valid ones (the tests'      *)
(* test_invalid_traces_share_surface_statistics): I is made of the very    *)
(* segments or events of a valid trace, and without preemption of R2's,    *)
(* gives each process the time R2 gives it and keeps each thread's order.  *)
SurfaceIsShared ==
    At("labels") =>
        /\ \E t \in build.space : Parts(build.inv) = Parts(t)
        /\ IF ~Scheduling THEN Parts(build.inv) = Parts(build.r2) /\ Programs(build.inv) = Programs(build.r2)
           ELSE /\ Shares(build.inv) = Shares(build.r2)
                /\ build.problem.policy # "RR" => Parts(build.inv) = Parts(build.r2)

(* An instance is what it claims: its labels and its surface.              *)
InstanceIsSound == LabelsAreTrue /\ SurfaceIsShared

(* Commuting reshuffles change nothing: candidates that touch every object *)
(* in the same order of threads are equally valid and leave the same last  *)
(* writers (concurrency_interleaver.py:13-17), so R2 is no reshuffle of R1.*)
ClassDecides ==
    build.domain = "concurrency" /\ build.cand # None =>
        \A t \in AdjacentSwaps(build.cand) :
            TraceClass(t) = TraceClass(build.cand) =>
                /\ JudgeEvents(build.problem, t) = JudgeEvents(build.problem, build.cand)
                /\ LastWriter(t) = LastWriter(build.cand)

(* Round robin in every enumerated schedule: a process waits for at most   *)
(* one quantum of each other process before it runs for the first time or  *)
(* again, whatever the ties.                                               *)
WaitsAtMost(problem, trace, p) ==
    \A i \in {i \in DOMAIN trace : trace[i].pid = p} :
        LET before == {trace[k].end : k \in {k \in 1 .. i - 1 : trace[k].pid = p}}
            since == IF before = {} THEN problem.arrival[p] ELSE Max(before)
        IN  trace[i].start - since <= problem.quantum * (Cardinality(Procs(problem)) - 1)

RoundRobinIsFair ==
    Scheduling /\ build.problem.policy = "RR" =>
        \A t \in build.space, p \in Procs(build.problem) : WaitsAtMost(build.problem, t, p)
=============================================================================

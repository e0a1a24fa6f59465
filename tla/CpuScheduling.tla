--------------------------- MODULE CpuScheduling ---------------------------
(***************************************************************************)
(* The scheduling half of research/simulator: the transition system that   *)
(* enumerates the schedules of a problem (cpu_scheduler.py) and the        *)
(* validator that judges one without it (validators.py), on the traces of  *)
(* traces.py.  The benchmark's labels are right because the two agree.     *)
(*                                                                         *)
(* A problem is [policy, quantum, arrival, burst, priority], the last      *)
(* three functions on the processes, which are numbered in canonical       *)
(* order.  Seeded choices are sets of outcomes.                            *)
(***************************************************************************)
EXTENDS Arrangement, FiniteSetsExt, SequencesExt

CONSTANT Idle     \* the pid of idle time

Segment(pid, start, end) == [pid |-> pid, start |-> start, end |-> end]
Procs(problem) == DOMAIN problem.burst

(* Every process runs for some time; idle time is no process.              *)
ScheduleProblem(problem) ==
    /\ IsFiniteSet(Procs(problem)) /\ Idle \notin Procs(problem)
    /\ problem.policy = "RR" => problem.quantum \in Nat \ {0}
    /\ problem.burst \in [Procs(problem) -> Nat \ {0}]
    /\ problem.arrival \in [Procs(problem) -> Nat]
    /\ problem.priority \in [Procs(problem) -> Int]

Least(S) == CHOOSE x \in S : \A y \in S : x <= y
Arriving(problem, S, time) == {p \in S : problem.arrival[p] = time}

----------------------------------------------------------------------------
(* traces.py                                                               *)

(* By start, then by end; equal ones stay in the order they have.          *)
SortsBefore(trace, i, j) ==
    \/ trace[i].start < trace[j].start
    \/ trace[i].start = trace[j].start /\ trace[i].end < trace[j].end
    \/ trace[i].start = trace[j].start /\ trace[i].end = trace[j].end /\ i < j

Sorted(trace) ==
    LET at == Arranged(DOMAIN trace, {p \in (DOMAIN trace) \X (DOMAIN trace) : SortsBefore(trace, p[1], p[2])})
    IN  [k \in DOMAIN at |-> trace[at[k]]]

(* Sorted, without empty segments, gaps filled with idle time.             *)
Laid(out, seg) ==
    IF seg.end <= seg.start THEN out
    ELSE [t    |-> Max({out.t, seg.end}),
          segs |-> (IF out.t < seg.start THEN Append(out.segs, Segment(Idle, out.t, seg.start)) ELSE out.segs) \o <<seg>>]

Filled(trace) ==
    LET sorted == Sorted(trace)
        laid[n \in 0 .. Len(sorted)] == IF n = 0 THEN [t |-> 0, segs |-> <<>>] ELSE Laid(laid[n - 1], sorted[n])
    IN  laid[Len(sorted)].segs

(* Adjacent segments of one process become one.                            *)
Joined(out, seg) ==
    IF out # <<>> /\ Last(out).pid = seg.pid /\ Last(out).end = seg.start
    THEN Append(Front(out), Segment(seg.pid, Last(out).start, seg.end))
    ELSE Append(out, seg)

Merged(segs) ==
    LET merged[n \in 0 .. Len(segs)] == IF n = 0 THEN <<>> ELSE Joined(merged[n - 1], segs[n])
    IN  merged[Len(segs)]

Normalize(trace) == Merged(Filled(trace))

HasOverlap(trace) ==
    LET sorted == Sorted(trace)
    IN  \E i \in 1 .. Len(sorted) - 1 : sorted[i + 1].start < sorted[i].end

----------------------------------------------------------------------------
(* cpu_scheduler.Scheduler: a state has the time, the remaining burst of   *)
(* each process and, for round robin, the queue.                           *)

SchedKey(problem, p) ==
    CASE problem.policy = "FCFS" -> problem.arrival[p]
      [] problem.policy = "SJF"  -> problem.burst[p]
      [] OTHER                   -> problem.priority[p]

InitialStates(problem) ==
    {[t |-> 0, queue |-> q, rem |-> problem.burst] :
        q \in IF problem.policy = "RR" THEN SetToSeqs(Arriving(problem, Procs(problem), 0)) ELSE {<<>>}}

Unfinished(s) == {p \in DOMAIN s.rem : s.rem[p] > 0}

(* A step emits a segment.                                                 *)
Emit(pid, s, state) == [seg |-> Segment(pid, s.t, state.t), state |-> state]

SuccNonpreemptive(problem, s) ==
    LET ready == {p \in Unfinished(s) : problem.arrival[p] <= s.t}
        best  == Least({SchedKey(problem, p) : p \in ready})
        next  == Least({problem.arrival[p] : p \in Unfinished(s)})
    IN  IF Unfinished(s) = {} THEN {}
        ELSE IF ready = {}
        THEN {Emit(Idle, s, [t |-> next, queue |-> s.queue, rem |-> s.rem])}
        ELSE {Emit(p, s, [t |-> s.t + problem.burst[p], queue |-> s.queue, rem |-> [s.rem EXCEPT ![p] = 0]]) :
                p \in {p \in ready : SchedKey(problem, p) = best}}

(* All orders in which groups of processes enqueue, group after group.     *)
InAnyOrder(heads, group) == {head \o order : head \in heads, order \in SetToSeqs(group)}

Flatten(groups) ==
    LET flat[n \in 0 .. Len(groups)] ==
            IF n = 0 THEN {<<>>} ELSE InAnyOrder(flat[n - 1], groups[n])
    IN  flat[Len(groups)]

(* The processes of S by the times between lo and hi at which they arrive. *)
Between(problem, S, lo, hi) ==
    [k \in 1 .. (IF hi > lo THEN hi - lo ELSE 0) |-> Arriving(problem, S, lo + k)]

(* A process preempted when others arrive goes after or before them.       *)
Requeue(preempted, order) == {order \o preempted, preempted \o order}

(* Who waits, who comes during the quantum, and who is queued at its end.  *)
Queues(waiting, during, last) == {waiting \o mid \o tail : mid \in during, tail \in last}

(* Mutant: a dispatched process runs to its end.                           *)
RunsToEnd(problem, left) == left

RunsFor(problem, left) == Min({problem.quantum, left})

(* One quantum.  Who arrives during it enqueues in order of arrival.       *)
SuccRoundRobin(problem, s) ==
    LET waiting == {p \in Unfinished(s) : problem.arrival[p] > s.t}
        next == Least({problem.arrival[p] : p \in waiting})
        head == Head(s.queue)
        end  == s.t + RunsFor(problem, s.rem[head])
        left == [s.rem EXCEPT ![head] = @ - (end - s.t)]
        preempted == IF left[head] > 0 THEN <<head>> ELSE <<>>
        tails == UNION {Requeue(preempted, order) : order \in SetToSeqs(Arriving(problem, Unfinished(s), end))}
    IN  IF Unfinished(s) = {} THEN {}
        ELSE IF s.queue = <<>>
        THEN {Emit(Idle, s, [t |-> next, queue |-> q, rem |-> s.rem]) : q \in SetToSeqs(Arriving(problem, waiting, next))}
        ELSE {Emit(head, s, [t |-> end, queue |-> q, rem |-> left]) :
                 q \in Queues(Tail(s.queue), Flatten(Between(problem, Unfinished(s), s.t, end - 1)), tails)}

Successors(problem, s) ==
    IF problem.policy = "RR" THEN SuccRoundRobin(problem, s) ELSE SuccNonpreemptive(problem, s)

(* A run and what its last state leads to; an ended one stays.             *)
Onward(run, x) == [segs |-> Append(run.segs, x.seg), states |-> Append(run.states, x.state)]

Prolonged(problem, run) ==
    LET steps == Successors(problem, Last(run.states))
    IN  IF steps = {} THEN {run} ELSE {Onward(run, x) : x \in steps}

(* All runs, followed step by step to their ends; a step takes time, so    *)
(* none has more steps than the arrivals and the bursts add up to.         *)
Paths(problem) ==
    LET longest == SumFunction(problem.arrival) + SumFunction(problem.burst)
        runs[n \in 0 .. longest] ==
            IF n = 0 THEN {[segs |-> <<>>, states |-> <<s>>] : s \in InitialStates(problem)}
            ELSE UNION {Prolonged(problem, run) : run \in runs[n - 1]}
    IN  runs[longest]

CountPaths(problem) == Cardinality(Paths(problem))

(* enumerate: the distinct traces of the runs.                             *)
Space(problem) == {Normalize(run.segs) : run \in Paths(problem)}

(* canonical: of a tie, the first in canonical order; who arrives before   *)
(* who is queued again.                                                    *)
InOrder(groups) ==
    LET order[n \in 0 .. Len(groups)] == IF n = 0 THEN <<>> ELSE order[n - 1] \o Rising(groups[n])
    IN  order[Len(groups)]

CanonicalStep(problem, s) ==
    LET steps == Successors(problem, s)
        first == {x \in steps : \A y \in steps : x.seg.pid = Idle \/ x.seg.pid <= y.seg.pid}
        waiting  == IF s.queue = <<>> THEN <<>> ELSE Tail(s.queue)
        again(x) == IF s.queue # <<>> /\ x.state.rem[Head(s.queue)] > 0 THEN <<Head(s.queue)>> ELSE <<>>
        queued(x) == waiting \o InOrder(Between(problem, Unfinished(s), s.t, x.state.t)) \o again(x)
    IN  CHOOSE x \in first : problem.policy = "RR" => x.state.queue = queued(x)

CanonicalSchedule(problem) ==
    LET start == IF problem.policy # "RR" THEN CHOOSE s \in InitialStates(problem) : TRUE
                 ELSE CHOOSE s \in InitialStates(problem) : s.queue = Rising(Arriving(problem, Procs(problem), 0))
        longest == SumFunction(problem.arrival) + SumFunction(problem.burst)
        walk[n \in 0 .. longest] ==
            IF n = 0 THEN [segs |-> <<>>, state |-> start]
            ELSE IF Successors(problem, walk[n - 1].state) = {} THEN walk[n - 1]
            ELSE LET x == CanonicalStep(problem, walk[n - 1].state)
                 IN  [segs |-> Append(walk[n - 1].segs, x.seg), state |-> x.state]
    IN  Normalize(walk[longest].segs)

(* Completion - arrival - burst.                                           *)
Finish(trace, p) == Max({trace[i].end : i \in {i \in DOMAIN trace : trace[i].pid = p}})
WaitingTimes(problem, trace) ==
    [p \in Procs(problem) |-> Finish(trace, p) - problem.arrival[p] - problem.burst[p]]

----------------------------------------------------------------------------
(* validators.py.  A trace is "ok", "incomplete" (it breaks no rule before *)
(* it stops) or "broken".                                                  *)

(* Mutant: idle time may be longer than the wait for the next arrival.     *)
IdleAnyLength(problem, pending, start, end) == end >= Least({problem.arrival[p] : p \in pending})

IdleLength(problem, pending, start, end) == end = Least({problem.arrival[p] : p \in pending})

StepNonpreemptive(problem, seg, done) ==
    LET pending == Procs(problem) \ done
        ready   == {p \in pending : problem.arrival[p] <= seg.start}
        p       == seg.pid
    IN  IF p = Idle
        THEN ready = {} /\ pending # {} /\ IdleLength(problem, pending, seg.start, seg.end)
        ELSE /\ p \notin done /\ problem.arrival[p] <= seg.start
             /\ seg.end - seg.start = problem.burst[p]
             /\ \A q \in ready : SchedKey(problem, p) <= SchedKey(problem, q)

(* The verdict on the trace so far: each segment starts where the last one *)
(* ended and keeps the rules.                                              *)
JudgedSegment(problem, verdict, seg) ==
    [ok   |-> verdict.ok /\ seg.start = verdict.t /\ StepNonpreemptive(problem, seg, verdict.done),
     t    |-> seg.end,
     done |-> verdict.done \union ({seg.pid} \ {Idle})]

RulesSoFar(problem, trace) ==
    LET verdict[n \in 0 .. Len(trace)] ==
            IF n = 0 THEN [ok |-> TRUE, t |-> 0, done |-> {}] ELSE JudgedSegment(problem, verdict[n - 1], trace[n])
    IN  verdict[Len(trace)]

JudgeNonpreemptive(problem, trace) ==
    LET final == RulesSoFar(problem, trace)
    IN  IF ~final.ok THEN "broken" ELSE IF final.done # Procs(problem) THEN "incomplete" ELSE "ok"

(* The dispatches of pid that fill the segment up to its end: one quantum  *)
(* or the rest of the burst at a time.                                     *)
Dispatches(problem, pid, end, config) ==
    LET run  == Min({problem.quantum, config.rem[pid]})
        stop == config.t + run
        left == [config.rem EXCEPT ![pid] = @ - run]
        open == Unfinished(config)
        pre  == IF left[pid] > 0 THEN <<pid>> ELSE <<>>
    IN  IF config.t >= end \/ config.queue = <<>> \/ Head(config.queue) # pid \/ stop > end THEN {}
        ELSE {[t |-> stop, queue |-> q, rem |-> left] :
                 q \in Queues(Tail(config.queue), Flatten(Between(problem, open, config.t, stop - 1)),
                              UNION {{e \o pre, pre \o e} : e \in SetToSeqs(Arriving(problem, open, stop))})}

(* Where any number of them leads; each takes time.                        *)
Spread(problem, pid, end, configs) ==
    configs \union UNION {Dispatches(problem, pid, end, c) : c \in configs}

Reached(problem, pid, end, config) ==
    LET reached[n \in 0 .. end - config.t] ==
            IF n = 0 THEN {config} ELSE Spread(problem, pid, end, reached[n - 1])
    IN  reached[end - config.t]

StepRoundRobin(problem, seg, config) ==
    LET open == Unfinished(config)
        coming == {p \in open : config.t < problem.arrival[p] /\ problem.arrival[p] <= seg.end}
    IN  IF config.t # seg.start THEN {}
        ELSE IF seg.pid # Idle THEN {c \in Reached(problem, seg.pid, seg.end, config) : c.t = seg.end}
        ELSE IF config.queue # <<>> \/ coming = {} \/ {problem.arrival[p] : p \in coming} # {seg.end} THEN {}
        ELSE {[t |-> seg.end, queue |-> q, rem |-> config.rem] : q \in SetToSeqs(coming)}

(* The configurations that are consistent with the trace.                  *)
Consistent(problem, trace) ==
    LET configs[n \in 0 .. Len(trace)] ==
            IF n = 0 THEN InitialStates(problem)
            ELSE UNION {StepRoundRobin(problem, trace[n], c) : c \in configs[n - 1]}
    IN  configs[Len(trace)]

JudgeRoundRobin(problem, trace) ==
    LET configs == Consistent(problem, trace)
    IN  IF configs = {} THEN "broken"
        ELSE IF \A c \in configs : Unfinished(c) # {} THEN "incomplete" ELSE "ok"

JudgeSchedule(problem, trace) ==
    LET t == Normalize(trace)
    IN  IF HasOverlap(trace) THEN "broken"
        ELSE IF problem.policy = "RR" THEN JudgeRoundRobin(problem, t) ELSE JudgeNonpreemptive(problem, t)
=============================================================================

---------------------------- MODULE Interleaving ----------------------------
(***************************************************************************)
(* The concurrency half of research/simulator: the transition system of    *)
(* threads with mutexes and counting semaphores (concurrency_interleaver)  *)
(* and the validator that judges an interleaving without it (validators).  *)
(*                                                                         *)
(* A problem is [prog, sems]: a sequence of operations per thread, the     *)
(* threads numbered in canonical order, and the initial semaphores.        *)
(***************************************************************************)
EXTENDS Integers, Sequences, FiniteSets, FiniteSetsExt, SequencesExt

Op(op, arg) == [op |-> op, arg |-> arg]
Instructions(problem) == UNION {ToSet(problem.prog[t]) : t \in DOMAIN problem.prog}

ThreadProblem(problem) ==
    /\ IsFiniteSet(DOMAIN problem.prog)
    /\ problem.prog \in [DOMAIN problem.prog -> Seq(Instructions(problem))]
    /\ \A o \in Instructions(problem) : o = Op(o.op, o.arg)

ThreadEvent(t, o) == [thread |-> t, op |-> o.op, arg |-> o.arg]
Owns(owner, t, m) == m \in DOMAIN owner /\ owner[m] = t
Released(owner, m) == [x \in DOMAIN owner \ {m} |-> owner[x]]
Taken(owner, m, t) == [x \in DOMAIN owner \union {m} |-> IF x = m THEN t ELSE owner[x]]

----------------------------------------------------------------------------
(* concurrency_interleaver.Interleaver                                     *)

(* A state has the operations each thread has left, the owner of every     *)
(* mutex that is held, and the semaphores.                                 *)
InitialConfig(problem) == [rest |-> problem.prog, owner |-> <<>>, sems |-> problem.sems]

NotFinished(s) == {t \in DOMAIN s.rest : s.rest[t] # <<>>}

OpAllowed(s, t, o) ==
    CASE o.op = "lock"   -> o.arg \notin DOMAIN s.owner
      [] o.op = "unlock" -> Owns(s.owner, t, o.arg)
      [] o.op = "wait"   -> s.sems[o.arg] > 0
      [] OTHER           -> TRUE

Moved(s, t, o) ==
    [rest  |-> [s.rest EXCEPT ![t] = Tail(@)],
     owner |-> CASE o.op = "lock"   -> Taken(s.owner, o.arg, t)
                 [] o.op = "unlock" -> Released(s.owner, o.arg)
                 [] OTHER           -> s.owner,
     sems  |-> CASE o.op = "wait"   -> [s.sems EXCEPT ![o.arg] = @ - 1]
                 [] o.op = "signal" -> [s.sems EXCEPT ![o.arg] = @ + 1]
                 [] OTHER           -> s.sems]

ThreadSteps(s) ==
    {[event |-> ThreadEvent(t, Head(s.rest[t])), state |-> Moved(s, t, Head(s.rest[t]))] :
        t \in {t \in NotFinished(s) : OpAllowed(s, t, Head(s.rest[t]))}}

OpsLeft(s) == SumFunction([t \in DOMAIN s.rest |-> Len(s.rest[t])])

(* _count > 0: some way from s leads to the end of all threads.            *)
CanFinish(s) ==
    LET after[n \in 0 .. OpsLeft(s)] ==
            IF n = 0 THEN {s} ELSE UNION {{x.state : x \in ThreadSteps(c)} : c \in after[n - 1]}
    IN  \E c \in after[OpsLeft(s)] : NotFinished(c) = {}

(* The steps canonical and sample choose from: those that do not deadlock. *)
LiveSteps(s) == {x \in ThreadSteps(s) : CanFinish(x.state)}

(* canonical: the first live thread, until there is none.                  *)
CanonicalEvents(problem) ==
    LET walk[n \in 0 .. OpsLeft(InitialConfig(problem))] ==
            IF n = 0 THEN [events |-> <<>>, state |-> InitialConfig(problem)]
            ELSE LET w == walk[n - 1]
                     live == LiveSteps(w.state)
                     first == CHOOSE x \in live : \A y \in live : x.event.thread <= y.event.thread
                 IN  IF live = {} THEN w ELSE [events |-> Append(w.events, first.event), state |-> first.state]
    IN  walk[OpsLeft(InitialConfig(problem))].events

(* accepts: the events are followed one by one.                            *)
Follows(problem, trace) ==
    LET by(c, e) == {x.state : x \in {x \in ThreadSteps(c) : x.event = e}}
        at[n \in 0 .. Len(trace)] ==
            IF n = 0 THEN {InitialConfig(problem)} ELSE UNION {by(c, trace[n]) : c \in at[n - 1]}
    IN  \E c \in at[Len(trace)] : NotFinished(c) = {}

(* random_interleaving: program order is kept, synchronisation is not.     *)
Merges(problem) ==
    LET Go(m) == {[events |-> Append(m.events, ThreadEvent(t, Head(m.rest[t]))), rest |-> [m.rest EXCEPT ![t] = Tail(@)]] :
                     t \in NotFinished(m)}
        total == OpsLeft(InitialConfig(problem))
        merges[n \in 0 .. total] ==
            IF n = 0 THEN {[events |-> <<>>, rest |-> problem.prog]}
            ELSE UNION {Go(m) : m \in merges[n - 1]}
    IN  {m.events : m \in merges[total]}

(* enumerate: depth first over all steps, the finished ones are kept.      *)
Interleavings(problem) ==
    LET Go(run) == {[events |-> Append(run.events, x.event), state |-> x.state] : x \in ThreadSteps(run.state)}
        total == OpsLeft(InitialConfig(problem))
        runs[n \in 0 .. total] ==
            IF n = 0 THEN {[events |-> <<>>, state |-> InitialConfig(problem)]}
            ELSE UNION {Go(run) : run \in runs[n - 1]}
    IN  {run.events : run \in runs[total]}

(* Mutant: only who writes an object counts.                               *)
WritersOnly(trace) ==
    [a \in {trace[i].arg : i \in DOMAIN trace} |->
        LET on == SelectSeq(trace, LAMBDA e : e.arg = a /\ e.op = "write")
        IN  [i \in DOMAIN on |-> on[i].thread]]

(* For every object, the order in which the threads touch it.              *)
TraceClass(trace) ==
    [a \in {trace[i].arg : i \in DOMAIN trace} |->
        LET on == SelectSeq(trace, LAMBDA e : e.arg = a)
        IN  [i \in DOMAIN on |-> on[i].thread]]

LastWriter(trace) ==
    LET writes == SelectSeq(trace, LAMBDA e : e.op = "write")
    IN  [a \in {writes[i].arg : i \in DOMAIN writes} |->
            Last(SelectSeq(writes, LAMBDA e : e.arg = a)).thread]

(* The generator's _adjacent_swaps, one swap: neighbours of two threads.   *)
AdjacentSwaps(trace) ==
    {[trace EXCEPT ![i] = trace[i + 1], ![i + 1] = trace[i]] :
        i \in {i \in 1 .. Len(trace) - 1 : trace[i].thread # trace[i + 1].thread}}

----------------------------------------------------------------------------
(* validators.validate_events                                              *)

JudgeEvents(problem, trace) ==
    LET judged(v, e) ==
            LET m == e.arg
                next == [v EXCEPT !.rest[e.thread] = Tail(@)]
            IN  IF ~v.ok \/ v.rest[e.thread] = <<>> \/ Head(v.rest[e.thread]) # Op(e.op, m) THEN [v EXCEPT !.ok = FALSE]
                ELSE CASE e.op = "lock"   -> [next EXCEPT !.ok = m \notin DOMAIN v.owner, !.owner = Taken(@, m, e.thread)]
                       [] e.op = "unlock" -> [next EXCEPT !.ok = Owns(v.owner, e.thread, m), !.owner = Released(@, m)]
                       [] e.op = "wait"   -> [next EXCEPT !.ok = v.sems[m] > 0, !.sems[m] = @ - 1]
                       [] e.op = "signal" -> [next EXCEPT !.sems[m] = @ + 1]
                       [] OTHER           -> next
        verdict[n \in 0 .. Len(trace)] ==
            IF n = 0 THEN [ok |-> TRUE, rest |-> problem.prog, owner |-> <<>>, sems |-> problem.sems]
            ELSE judged(verdict[n - 1], trace[n])
    IN  IF ~verdict[Len(trace)].ok THEN "broken" ELSE IF NotFinished(verdict[Len(trace)]) # {} THEN "incomplete" ELSE "ok"
=============================================================================

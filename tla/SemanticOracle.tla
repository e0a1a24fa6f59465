--------------------------- MODULE SemanticOracle ---------------------------
(***************************************************************************)
(* The SSR pilot's judgement of one model output (research/ssr_pilot:      *)
(* families.py, oracle.py, worlds.py, bank.py, scoring.py): the output is  *)
(* written one entry at a time, in any order, may name something that is   *)
(* not in the world and may be cut off by the token limit; then the oracle *)
(* gives a verdict and the scorer compares it with the reference.          *)
(*                                                                         *)
(* A world is [family, problem, constrained].  The reference, the first    *)
(* task-valid trace in the enumerator's order, is any task-valid one here. *)
(***************************************************************************)
EXTENDS CpuScheduling, Interleaving, Banker

CONSTANTS Worlds, NoWorld,
          MaxTime,     \* bound: the times an output names
          MaxSteps,    \* bound: entries of an output
          MaxStumbles  \* bound: how often what has been written so far breaks a rule

VARIABLE trial

NoTrial == [stage |-> "idle", world |-> NoWorld, constraint |-> NoWorld, space |-> {}, ref |-> <<>>,
            steps |-> <<>>, unknown |-> FALSE]

OfFamily(world, family) == world.family = family

(* What the worlds are.                                                    *)
WorldsAssumption ==
    \A world \in Worlds : \/ OfFamily(world, "scheduling") /\ ScheduleProblem(world.problem)
                          \/ OfFamily(world, "sync") /\ ThreadProblem(world.problem)
                          \/ OfFamily(world, "banker") /\ BankProblem(world.problem)

----------------------------------------------------------------------------
(* families.py                                                             *)

Enumerated(world) ==
    CASE OfFamily(world, "scheduling") -> Space(world.problem)
      [] OfFamily(world, "sync")       -> Interleavings(world.problem)
      [] OTHER                   -> SafeSequences(world.problem)

RulesCheck(world, steps) ==
    CASE OfFamily(world, "scheduling") -> JudgeSchedule(world.problem, steps)
      [] OfFamily(world, "sync")       -> JudgeEvents(world.problem, steps)
      [] OTHER                   -> JudgeOrder(world.problem, steps)

(* system(world).accepts                                                   *)
SystemAccepts(world, space, steps) ==
    CASE OfFamily(world, "scheduling") -> Normalize(steps) \in space
      [] OfFamily(world, "sync")       -> Follows(world.problem, steps)
      [] OTHER                   -> AcceptsOrder(world.problem, steps)

Runs(steps, pid) == {i \in DOMAIN steps : steps[i].pid = pid}
Places(steps, x) == {i \in DOMAIN steps : steps[i] = x}

(* A constraint on something that never happens does not hold.             *)
Holds(c, steps) ==
    CASE c.type = "none"       -> TRUE
      [] c.type = "deadline"   -> Runs(steps, c.pid) # {} /\ \A i \in Runs(steps, c.pid) : steps[i].end <= c.by
      [] c.type = "precedence" -> /\ Runs(steps, c.first) # {} /\ Runs(steps, c.second) # {}
                                  /\ \A i \in Runs(steps, c.first), j \in Runs(steps, c.second) :
                                        steps[i].end <= steps[j].start
      [] OTHER                 -> /\ Places(steps, c.a) # {} /\ Places(steps, c.b) # {}
                                  /\ Min(Places(steps, c.a)) < Min(Places(steps, c.b))

Observe(world, steps) ==
    CASE OfFamily(world, "scheduling") -> [p \in Procs(world.problem) |->
                                        Max({-1} \union {steps[i].end : i \in Runs(steps, p)})]
      [] OfFamily(world, "sync")       -> LastWriter(steps)
      [] OTHER                   -> ToSet(steps)

----------------------------------------------------------------------------
(* worlds.py and bank.py                                                   *)

Candidates(world, space) ==
    CASE OfFamily(world, "scheduling") ->
            {[type |-> "precedence", first |-> a, second |-> b] : a \in Procs(world.problem), b \in Procs(world.problem)}
            \union {[type |-> "deadline", pid |-> p, by |-> Finish(t, p)] : p \in Procs(world.problem), t \in space}
      [] OfFamily(world, "sync") ->
            LET once == {e \in UNION {ToSet(t) : t \in space} : e.op \in {"write", "lock"} /\
                            \A t \in space : Cardinality(Places(t, e)) = 1}
            IN  {[type |-> "before", a |-> x[1], b |-> x[2]] : x \in {x \in once \X once : x[1].thread # x[2].thread}}
      [] OTHER ->
            {[type |-> "before", a |-> a, b |-> b] : a \in Clients(world.problem), b \in Clients(world.problem)}

(* add_constraint: it excludes some of the space and leaves some.  Every   *)
(* second world has one.                                                   *)
Bites(c, space) ==
    LET kept == Cardinality({t \in space : Holds(c, t)})
    IN  kept >= 2 /\ 5 * kept >= Cardinality(space) /\ 5 * kept <= 4 * Cardinality(space)

Building(world) ==
    /\ trial.stage = "idle"
    /\ LET space == Enumerated(world)
       IN  /\ Cardinality(space) >= 3
           /\ \E c \in IF world.constrained THEN {c \in Candidates(world, space) : Bites(c, space)}
                      ELSE {[type |-> "none"]} :
                 trial' = [NoTrial EXCEPT !.stage = "world", !.world = world, !.constraint = c, !.space = space]

TaskValid == {t \in trial.space : Holds(trial.constraint, t)}

BuildBank ==
    /\ trial.stage = "world"
    /\ \E ref \in TaskValid : trial' = [trial EXCEPT !.stage = "writing", !.ref = ref]

----------------------------------------------------------------------------
(* The model's output, as parse sees it: a segment may begin and end       *)
(* anywhere, before another's end or its own beginning too.                *)

Entries ==
    CASE OfFamily(trial.world, "scheduling") ->
            {Segment(p, start, end) : p \in Procs(trial.world.problem) \union {Idle}, start \in 0 .. MaxTime, end \in 0 .. MaxTime}
      [] OfFamily(trial.world, "sync") -> UNION {ToSet(t) : t \in trial.space}
      [] OTHER -> Clients(trial.world.problem)

(* Every segment that was written takes some time.  Of others, the         *)
(* validator counts that they overlap (traces.py:55-57) and the normal     *)
(* form drops them (traces.py:40).                                         *)
TakesTime(steps) ==
    OfFamily(trial.world, "scheduling") => \A i \in DOMAIN steps : steps[i].start < steps[i].end

(* For the bound: of how many beginnings of the answer a rule is broken.   *)
(* A segment that takes no time is written last: both judges sort first.   *)
Stumbled(steps) == Cardinality({n \in DOMAIN steps : RulesCheck(trial.world, SubSeq(steps, 1, n)) = "broken"})

Bounded ==
    IF ~TakesTime(trial.steps) THEN {}
    ELSE IF Stumbled(trial.steps) < MaxStumbles THEN Entries
    ELSE {x \in Entries : RulesCheck(trial.world, Append(trial.steps, x)) # "broken"}

WriteEntry ==
    /\ trial.stage = "writing" /\ Len(trial.steps) < MaxSteps
    /\ \E x \in Bounded : trial' = [trial EXCEPT !.steps = Append(@, x)]

WriteStranger == trial.stage = "writing" /\ trial' = [trial EXCEPT !.stage = "ended", !.unknown = TRUE]
StopWriting   == trial.stage = "writing" /\ trial' = [trial EXCEPT !.stage = "ended"]
CutOff        == trial.stage = "writing" /\ trial' = [trial EXCEPT !.stage = "cut"]

TrialInit == trial = NoTrial
TrialNext ==
    \/ \E world \in Worlds : Building(world)
    \/ BuildBank \/ WriteEntry \/ WriteStranger \/ StopWriting \/ CutOff

TrialSpec == TrialInit /\ [][TrialNext]_trial

----------------------------------------------------------------------------
(* oracle.evaluate_candidate                                               *)
Ended == trial.stage \in {"ended", "cut"}
Rule == RulesCheck(trial.world, trial.steps)

Verdict ==
    IF trial.steps = <<>> \/ trial.unknown \/ (Rule = "incomplete" /\ trial.stage = "cut")
    THEN "UNVERIFIABLE"
    ELSE IF Rule = "ok" /\ Holds(trial.constraint, trial.steps) THEN "TRUE" ELSE "FALSE"

Norm(steps) == IF OfFamily(trial.world, "scheduling") THEN Normalize(steps) ELSE steps

(* Mutant: tokens outside the world are dropped and forgotten.             *)
MatchesDropped(steps, ref) == Norm(steps) = Norm(ref)

(* scoring: A_norm, B and C.                                               *)
Matches(steps, ref) == Norm(steps) = Norm(ref) /\ ~trial.unknown
SemanticallyValid == Verdict = "TRUE"
SameOutcome == Observe(trial.world, trial.steps) = Observe(trial.world, trial.ref)

----------------------------------------------------------------------------
(* Whatever has been written, in any order, with gaps, splits and          *)
(* overlaps: what the validator accepts the transition system accepts, and *)
(* the other way round if every segment takes time (validators.py:6-9).    *)
TwoOracles ==
    trial.stage = "writing" =>
        /\ Rule = "ok" => SystemAccepts(trial.world, trial.space, trial.steps)
        /\ SystemAccepts(trial.world, trial.space, trial.steps) /\ TakesTime(trial.steps) => Rule = "ok"

(* Reference matching never accepts what the oracle does not: exact        *)
(* matches in which every segment takes time are valid answers with the    *)
(* reference's outcome, also when the output was cut or names a stranger   *)
(* (scoring.py, deviation D3).                                             *)
MatchIsValid ==
    Ended /\ TakesTime(trial.steps) /\ Matches(trial.steps, trial.ref) => SemanticallyValid /\ SameOutcome

(* No choice is ever regretted: of a safe problem, any order of processes  *)
(* whose needs fit can be completed, so sample never ends half way.        *)
NeverRegretted ==
    trial.stage = "writing" /\ trial.world.family = "banker" /\ Rule # "broken" =>
        \E order \in trial.space : IsPrefix(trial.steps, order)

(* Validator, transition system and reference matching never contradict    *)
(* one another, but for segments that take no time, and a safe order is    *)
(* never missed because of the processes served first.                     *)
OraclesAgree == TwoOracles /\ MatchIsValid /\ NeverRegretted

(* "representation choices never decide correctness" (traces.py:34): an    *)
(* output and its normal form get the same verdict from the validator.     *)
FormDecidesNothing ==
    trial.stage = "writing" /\ OfFamily(trial.world, "scheduling") =>
        ((Rule = "ok") <=> (RulesCheck(trial.world, Normalize(trial.steps)) = "ok"))
=============================================================================

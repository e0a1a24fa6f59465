---------------------------- MODULE MCComponents ----------------------------
(***************************************************************************)
(* The components that share no state with one another, explored in one    *)
(* run: active names the one that moves, the others stay as they began.    *)
(***************************************************************************)
EXTENDS Retrieval, OsCourse, ReferenceChoice, JudgeCells, Ingestion, Sweep, SemanticOracle

CONSTANTS
    None, Free,
    Concepts, Questions, ConceptOf, TypeOf, PathPosition, Requests,   \* Course
    Cooldown, ExplainAfter, QuizLength, ModelFollowups, ChipMemory, MaxMessages, Named,
    SchedulingProblems, ConcurrencyProblems, MaxSwaps,                \* Benchmark
    Searched, Answered, MaxAnswer                                     \* BlocksWorld

VARIABLES active,
    concepts, pending, quiz, topic, job, said, heard, ui,             \* Course
    build, planning

Chat   == INSTANCE Course
Bench  == INSTANCE Benchmark
Blocks == INSTANCE BlocksWorld

chat   == <<concepts, pending, quiz, topic, job, said, heard, ui>>
others == <<build, trial, run, reading, sweep, planning, study, query>>
components == <<active, chat, others>>

ComponentsInit ==
    /\ active \in {"chat", "query", "build", "trial", "run", "reading", "sweep", "planning", "study"}
    /\ Chat!CourseInit /\ QueryInit /\ Bench!BenchmarkInit /\ TrialInit
    /\ RunInit /\ ReadingInit /\ SweepInit /\ Blocks!PlanningInit /\ StudyInit

ComponentsNext ==
    /\ UNCHANGED active
    /\ \/ active = "chat" /\ Chat!CourseNext /\ UNCHANGED others
       \/ /\ active # "chat" /\ UNCHANGED chat
          /\ IF active = "query" THEN QueryNext ELSE UNCHANGED query
          /\ IF active = "build" THEN Bench!BenchmarkNext ELSE UNCHANGED build
          /\ IF active = "trial" THEN TrialNext ELSE UNCHANGED trial
          /\ IF active = "run" THEN RunNext ELSE UNCHANGED run
          /\ IF active = "reading" THEN ReadingNext ELSE UNCHANGED reading
          /\ IF active = "sweep" THEN SweepNext ELSE UNCHANGED sweep
          /\ IF active = "planning" THEN Blocks!PlanningNext ELSE UNCHANGED planning
          /\ IF active = "study" THEN StudyNext ELSE UNCHANGED study

ComponentsSpec == ComponentsInit /\ [][ComponentsNext]_components

----------------------------------------------------------------------------
(* Retrieval: two bullets of one slide, a page, a chunk without a parent.  *)

MCChunks == {"a1", "a2", "b1", "c1"}
MCParentOf == [c \in MCChunks |-> CASE c \in {"a1", "a2"} -> "a" [] c = "b1" -> "b" [] OTHER -> NoParent]

Setting(technique, multi, reranker, mmr, cap) ==
    [technique |-> technique, multi_query |-> multi, reranker |-> reranker, mmr |-> mmr, cap |-> cap,
     expand |-> TRUE, top_k |-> 2, top_n |-> 1, mmr_k |-> 1, multiplier |-> 3, variants |-> 1]
MCSettings ==
    {Setting("dense", FALSE, reranker, mmr, cap) :
        reranker \in {"none", "cross_encoder"}, mmr \in BOOLEAN, cap \in {0, 1}}
    \union {[Setting("hybrid_rrf", FALSE, "none", FALSE, 0) EXCEPT !.top_k = 3],
            Setting("bm25", TRUE, "none", FALSE, 0), Setting("hyde", FALSE, "llm_rerank", TRUE, 0)}

(* The course itself.                                                      *)

MCQuestions == UNION {{c} \X DOMAIN Bank[c] : c \in CourseConcepts}
MCConceptOf == [q \in MCQuestions |-> q[1]]
MCTypeOf    == [q \in MCQuestions |-> Bank[q[1]][q[2]].type]
MCPathPosition == [c \in CourseConcepts |-> CHOOSE i \in DOMAIN LearningPath : LearningPath[i] = c]

----------------------------------------------------------------------------
(* Benchmark: small problems of the shapes make_problem draws, and one     *)
(* with nested locks, which the interleaver's tests use.                   *)

Problem(policy, quantum, arrival, burst, priority) ==
    [policy |-> policy, quantum |-> quantum, arrival |-> arrival, burst |-> burst, priority |-> priority]

(* Ties decide which quanta merge: two schedules may run the same          *)
(* processes in the same order for different times.                        *)
Recut == Problem("RR", 1, <<4, 0, 1>>, <<2, 5, 1>>, <<1, 1, 1>>)

MCSchedulingProblems ==
    LET arrivals == {<<0, 0, 0>>, <<0, 0, 1>>, <<1, 0, 1>>, <<0, 4, 4>>}
        equal == <<1, 1, 1>>
    IN  {Problem(policy, 0, a, b, equal) : policy \in {"FCFS", "SJF"}, a \in arrivals, b \in [1 .. 3 -> 1 .. 2]}
        \union {Problem("PRIORITY", 0, a, <<1, 2, 1>>, p) : a \in arrivals, p \in [1 .. 3 -> 1 .. 2]}
        \union {Problem("RR", q, a, b, equal) :
                   q \in 1 .. 2, a \in {<<0, 0, 1>>, <<0, 4, 4>>, <<0, 1, 2>>}, b \in {<<2, 3, 1>>, <<3, 2, 2>>}}
        \union {Recut}

Write(x)      == <<Op("write", x)>>
Guarded(m, x) == <<Op("lock", m)>> \o Write(x) \o <<Op("unlock", m)>>
Pooled(x)     == <<Op("wait", "slots")>> \o Write(x) \o <<Op("signal", "slots")>>
Nested(m, n)  == <<Op("lock", m), Op("lock", n), Op("unlock", n), Op("unlock", m)>>

MCConcurrencyProblems ==
    {[prog |-> <<Guarded("m1", "x"), Guarded(m, "x"), Write("x")>>, sems |-> <<>>] : m \in {"m1", "m2"}}
    \union {[prog |-> <<Write("buf") \o <<Op("signal", "full")>>, <<Op("signal", "full")>>,
                        <<Op("wait", "full")>> \o Write("buf")>>, sems |-> [full |-> 0]],
            [prog |-> <<Write("x") \o <<Op("signal", "s1")>>, <<Op("wait", "s1")>> \o Write("x"), Write("x")>>,
             sems |-> [s1 |-> 0]],
            [prog |-> <<Pooled("x"), Pooled("x") \o Pooled("y")>>, sems |-> [slots |-> 1]],
            [prog |-> <<Nested("m1", "m2"), Nested("m2", "m1")>>, sems |-> <<>>]}

(* SemanticOracle: ties, idle time, preemption, contended mutexes, a       *)
(* semaphore, and claims that are safe in some orders only; some with a    *)
(* constraint.                                                             *)

World(family, problem, constrained) == [family |-> family, problem |-> problem, constrained |-> constrained]
Schedulable(policy, quantum, arrival, burst, constrained) ==
    World("scheduling", Problem(policy, quantum, arrival, burst, <<1, 1, 1>>), constrained)
Threaded(prog, sems, constrained) == World("sync", [prog |-> prog, sems |-> sems], constrained)
Claims(need, constrained) ==
    World("banker", [available |-> <<1, 1>>, alloc |-> <<<<1, 0>>, <<0, 1>>, <<2, 1>>, <<0, 0>>>>, max |-> need], constrained)

MCWorlds ==
    {Schedulable("PRIORITY", 0, <<0, 0, 1>>, <<2, 1, 1>>, FALSE), Schedulable("PRIORITY", 0, <<1, 1, 2>>, <<1, 1, 1>>, FALSE)}
    \union {Schedulable("RR", 1, <<0, 0, 1>>, <<2, 1, 1>>, constrained) : constrained \in BOOLEAN}
    \union {Threaded(<<Guarded("m", "x"), <<Op("lock", "m"), Op("unlock", "m")>>, Write("x")>>, <<>>, TRUE),
            Threaded(<<Write("x") \o <<Op("signal", "s")>>, <<Op("wait", "s")>> \o Write("x"), Write("y")>>,
                     [s |-> 0], TRUE)}
    \union {Claims(<<<<2, 0>>, <<1, 1>>, <<4, 1>>, <<2, 2>>>>, FALSE), Claims(<<<<1, 1>>, <<2, 2>>, <<3, 3>>, <<0, 1>>>>, TRUE)}

ASSUME ProblemsAssumption == WorldsAssumption /\ Bench!BenchmarkAssumption

(* RunLog: three calls, or with a limit the first of them; the cells of    *)
(* one instance, of whose three outputs one is the reference, one another  *)
(* valid trace and one does not parse.                                     *)

Calls == <<[key |-> "a"], [key |-> "b"], [key |-> "c"]>>
MCRunners == {"pilot", "competence", "claude", "blocks", "cells"}
MCBatches(kind) == IF kind = "blocks" THEN {Calls} ELSE {Calls, SubSeq(Calls, 1, 1)}
MCOutputs == <<"R1", "R3", Unparsed>>
MCNoise == <<3>>

(* Sweep: the dense+multi_query part of the default grid, whose names are  *)
(* cut alike.                                                              *)
MCGrids == {<<"dense+multi_query+cross_encoder+mmr_True", "dense+multi_query+cross_encoder+mmr_False",
              "dense+multi_query+none+mmr_True">>}

ASSUME GridsAssumption ==
    /\ SweepAssumption /\ NamesTellApart(Names)
    /\ NamesTellApart({DefaultVariants[i] : i \in DOMAIN DefaultVariants})

(* ReferenceChoice: all tasks of up to two references, and of those with   *)
(* three the ones where one model only ever gives the canonical one.       *)
MCStudiedTasks ==
    UNION {[a : Counts(n), b : Counts(n)] : n \in 1 .. 2}
        \union [a : Counts(3), b : {<<0, 0, 0>>, <<2, 0, 0>>}]

----------------------------------------------------------------------------
(* The properties checked, each by the name it has or is part of.          *)

(* Course: whatever was tapped, the student is never at a loss: there are  *)
(* ways forward, and the next topic is one they are prepared for.          *)
NeverAtALoss == Chat!ThreeWaysForward /\ Chat!NextIsPrepared

(* Course: a tapped chip does what it says.                                *)
ChipsDoWhatTheySay == Chat!ChipsDoWhatTheySay

(* Benchmark: a built instance is what its labels claim, R2 differs from   *)
(* R1 in more than the order of commuting events, and in no round robin    *)
(* trace does a process wait longer than the others' quanta.               *)
BenchmarkIsSound == Bench!InstanceIsSound /\ Bench!ClassDecides /\ Bench!RoundRobinIsFair

(* BlocksWorld: the pruned search finds exactly the shortest plans, and    *)
(* the judges of a written plan agree on which those are.                  *)
PlansAreComplete == Blocks!SpaceIsComplete /\ Blocks!JudgesAgree
=============================================================================

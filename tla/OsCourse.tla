------------------------------ MODULE OsCourse ------------------------------
(***************************************************************************)
(* The authored knowledge of the course (tutor/os_course.py) and the shape *)
(* it has (tutor/knowledge.py).  Of a concept are kept its prerequisites,  *)
(* in order, and its importance; of a question its type, how many groups   *)
(* of keys it has and how many of them an answer must match.  Names,       *)
(* descriptions, regexes and hints are left out.                           *)
(***************************************************************************)
EXTENDS Naturals, Sequences, TLC

LOCAL INSTANCE SequencesExt

About(prerequisites, importance) == [prerequisites |-> prerequisites, importance |-> importance]

FoundationsConcepts ==
    "os_role" :> About(<<>>, 3) @@
    "user_kernel_mode" :> About(<<"os_role">>, 3) @@
    "system_call" :> About(<<"user_kernel_mode">>, 3)
ProcessConcepts ==
    "process" :> About(<<"os_role">>, 3) @@
    "process_states" :> About(<<"process">>, 3) @@
    "pcb" :> About(<<"process">>, 2) @@
    "fork_exec_wait" :> About(<<"process", "system_call">>, 3) @@
    "context_switch" :> About(<<"process_states", "pcb">>, 3) @@
    "limited_direct_execution" :> About(<<"user_kernel_mode", "system_call", "context_switch">>, 3) @@
    "scheduling" :> About(<<"context_switch", "process_states">>, 3)
MemoryConcepts ==
    "address_space" :> About(<<"process">>, 3) @@
    "memory_allocation" :> About(<<"address_space">>, 2) @@
    "segmentation" :> About(<<"address_space">>, 2) @@
    "paging" :> About(<<"address_space">>, 3) @@
    "page_table" :> About(<<"paging">>, 3) @@
    "tlb" :> About(<<"page_table">>, 3) @@
    "demand_paging" :> About(<<"page_table">>, 3) @@
    "page_replacement" :> About(<<"demand_paging">>, 3)
ConcurrencyConcepts ==
    "threads" :> About(<<"process", "address_space">>, 3) @@
    "race_condition" :> About(<<"threads">>, 3) @@
    "locks" :> About(<<"race_condition">>, 3) @@
    "condition_variables" :> About(<<"locks">>, 3) @@
    "semaphores" :> About(<<"locks">>, 3) @@
    "concurrency_bugs" :> About(<<"race_condition">>, 2) @@
    "deadlock" :> About(<<"locks">>, 3) @@
    "dining_philosophers" :> About(<<"deadlock", "semaphores">>, 2) @@
    "reader_writer" :> About(<<"semaphores">>, 2)
ToolConcepts ==
    "ipc" :> About(<<"process">>, 2) @@
    "linux_commands" :> About(<<>>, 2) @@
    "shell_scripting" :> About(<<"linux_commands">>, 2)

Knowledge == FoundationsConcepts @@ ProcessConcepts @@ MemoryConcepts @@ ConcurrencyConcepts @@ ToolConcepts

Asks(type, groups, need) == [type |-> type, groups |-> groups, need |-> need]
Recall(groups, need)     == Asks("OBSERVATION", groups, need)
Why(groups, need)        == Asks("WHY", groups, need)
Predict(groups, need)    == Asks("PREDICTION", groups, need)
Infer(groups, need)      == Asks("CONSEQUENCE", groups, need)
Interpret(groups, need)  == Asks("INTERPRETATION", groups, need)
Transfer(groups, need)   == Asks("TRANSFER", groups, need)

FoundationsQuestions ==
    "os_role" :> <<Recall(2, 2), Why(2, 2), Transfer(1, 1)>> @@
    "user_kernel_mode" :> <<Recall(1, 1), Why(1, 1), Predict(1, 1)>> @@
    "system_call" :> <<Recall(1, 1), Why(1, 1), Infer(2, 2)>>
ProcessQuestions ==
    "process" :> <<Recall(2, 2), Why(2, 2), Predict(3, 2)>> @@
    "process_states" :> <<Recall(3, 3), Infer(2, 2), Interpret(1, 1)>> @@
    "pcb" :> <<Recall(1, 1), Why(1, 1)>> @@
    "fork_exec_wait" :> <<Recall(2, 2), Why(1, 1), Predict(1, 1), Infer(2, 2)>> @@
    "context_switch" :> <<Recall(1, 1), Why(2, 2), Infer(1, 1)>> @@
    "limited_direct_execution" :> <<Why(2, 2), Predict(1, 1), Infer(1, 1)>> @@
    "scheduling" :> <<Recall(1, 1), Predict(1, 1), Why(2, 2), Interpret(1, 1)>>
MemoryQuestions ==
    "address_space" :> <<Recall(2, 2), Why(1, 1), Predict(1, 1)>> @@
    "memory_allocation" :> <<Recall(2, 2), Why(2, 2), Interpret(2, 2)>> @@
    "segmentation" :> <<Recall(2, 2), Infer(1, 1), Why(1, 1)>> @@
    "paging" :> <<Recall(2, 2), Why(2, 2), Predict(2, 2), Infer(1, 1)>> @@
    "page_table" :> <<Recall(1, 1), Why(2, 2), Infer(1, 1)>> @@
    "tlb" :> <<Why(2, 2), Predict(2, 2), Infer(1, 1)>> @@
    "demand_paging" :> <<Recall(2, 2), Why(2, 2), Infer(4, 3), Interpret(1, 1)>> @@
    "page_replacement" :> <<Recall(1, 1), Why(2, 2), Predict(1, 1), Transfer(2, 2)>>
LockQuestions ==
    "threads" :> <<Recall(2, 2), Why(1, 1), Infer(1, 1)>> @@
    "race_condition" :> <<Recall(2, 2), Predict(1, 1), Why(2, 2)>> @@
    "locks" :> <<Recall(1, 1), Why(1, 1), Infer(1, 1), Transfer(1, 1)>> @@
    "condition_variables" :> <<Why(1, 1), Recall(2, 2), Predict(1, 1)>> @@
    "semaphores" :> <<Recall(2, 2), Why(1, 1), Predict(2, 2)>> @@
    "concurrency_bugs" :> <<Recall(2, 2), Why(1, 1), Infer(1, 1)>>
DeadlockQuestions ==
    "deadlock" :> <<Recall(4, 4), Why(1, 1), Predict(2, 2), Interpret(1, 1), Transfer(2, 2)>> @@
    "dining_philosophers" :> <<Recall(2, 2), Why(1, 1)>> @@
    "reader_writer" :> <<Recall(2, 2), Infer(1, 1)>>
ToolQuestions ==
    "ipc" :> <<Recall(2, 2), Why(2, 2), Predict(1, 1)>> @@
    "linux_commands" :> <<Recall(2, 2), Predict(1, 1), Why(1, 1), Interpret(2, 2)>> @@
    "shell_scripting" :> <<Recall(2, 2), Predict(1, 1), Why(1, 1)>>

Bank == FoundationsQuestions @@ ProcessQuestions @@ MemoryQuestions @@ LockQuestions
        @@ DeadlockQuestions @@ ToolQuestions

(* The concepts some authored misconception is about.                      *)
Misconceived ==
    {"deadlock", "threads", "fork_exec_wait", "context_switch", "user_kernel_mode", "paging", "tlb",
     "demand_paging", "scheduling", "semaphores", "address_space", "race_condition", "memory_allocation"}

LearningPath == <<
    "os_role", "user_kernel_mode", "system_call", "process", "process_states", "pcb", "fork_exec_wait",
    "context_switch", "limited_direct_execution", "scheduling", "address_space", "memory_allocation",
    "segmentation", "paging", "page_table", "tlb", "demand_paging", "page_replacement", "threads",
    "race_condition", "locks", "condition_variables", "semaphores", "concurrency_bugs", "deadlock",
    "dining_philosophers", "reader_writer", "ipc", "linux_commands", "shell_scripting">>

CourseConcepts == DOMAIN Knowledge
Prerequisites(c) == ToSet(Knowledge[c].prerequisites)

(* knowledge.dependents; the order is that of _CONCEPTS, which is the path's. *)
Dependents(c) == SelectSeq(LearningPath, LAMBDA d : c \in Prerequisites(d))

(* validate(): every reference is to something that exists, no concept     *)
(* depends on itself, every question has keys.                             *)
CanBeOrdered ==
    LET ordered[n \in Nat] ==
            IF n = 0 THEN {}
            ELSE LET before == ordered[n - 1]
                 IN  {c \in CourseConcepts : Prerequisites(c) \subseteq before}
    IN  ordered[Cardinality(CourseConcepts)] = CourseConcepts

ValidCourse ==
    /\ \A c \in CourseConcepts : Prerequisites(c) \subseteq CourseConcepts
    /\ CanBeOrdered
    /\ Misconceived \subseteq CourseConcepts
    /\ DOMAIN Bank \subseteq CourseConcepts
    /\ \A c \in DOMAIN Bank : \A q \in ToSet(Bank[c]) : q.groups > 0
    /\ ToSet(LearningPath) \subseteq CourseConcepts

ASSUME CourseAssumption == ValidCourse
=============================================================================

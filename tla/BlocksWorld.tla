----------------------------- MODULE BlocksWorld -----------------------------
(***************************************************************************)
(* The second domain of the research: the search for all shortest plans of *)
(* a Blocks World task (blocks_world_tasks.py), the independent search     *)
(* that verifies it (verify_reference_spaces.py), and the judging of the   *)
(* plan a model wrote.  A step is one level of the breadth-first queue,    *)
(* one depth limit of the other search, or one more action of the plan.    *)
(***************************************************************************)
EXTENDS BlocksTasks, FiniteSets, TLC

LOCAL INSTANCE SequencesExt

CONSTANTS
    Searched,    \* the tasks searched, by their numbers
    Answered,    \* those of them a model answers
    MaxAnswer    \* actions a written plan has at most

VARIABLE planning

----------------------------------------------------------------------------
(* BlocksWorld: a state is what each block stands on, which blocks are on  *)
(* the table, and which are clear; the search keeps with it the plan that  *)
(* led there.                                                              *)

Move(x, y) == [block |-> x, onto |-> y]
ToTable(x) == Move(x, "TABLE")

InitialState(task) ==
    [on |-> task.on, table |-> task.table, clear |-> task.blocks \ {task.on[x] : x \in DOMAIN task.on}, plan |-> <<>>]

IsValidState(s, blocks) ==
    LET above(x) == {y \in DOMAIN s.on : s.on[y] = x}
        grounded[n \in 0 .. Cardinality(blocks)] ==
            IF n = 0 THEN s.table ELSE grounded[n - 1] \union UNION {above(x) : x \in grounded[n - 1]}
    IN  /\ DOMAIN s.on = blocks \ s.table
        /\ grounded[Cardinality(blocks)] = blocks
        /\ \A x \in DOMAIN s.on : s.on[x] \notin s.clear

ApplicableActions(s) ==
    {ToTable(x) : x \in s.clear \cap DOMAIN s.on} \union UNION {{Move(x, y) : y \in s.clear \ {x}} : x \in s.clear}

(* Mutant: the block that was under the moved one does not become clear.   *)
ApplyUncleared(s, act) ==
    LET x == act.block
        lifted == [y \in DOMAIN s.on \ {x} |-> s.on[y]]
    IN  IF act.onto = "TABLE"
        THEN [on |-> lifted, table |-> s.table \union {x}, clear |-> s.clear, plan |-> Append(s.plan, act)]
        ELSE [on |-> (x :> act.onto) @@ lifted, table |-> s.table \ {x}, clear |-> s.clear \ {act.onto},
              plan |-> Append(s.plan, act)]

Apply(s, act) ==
    LET x == act.block
        lifted == [y \in DOMAIN s.on \ {x} |-> s.on[y]]
        clear == s.clear \union (IF x \in DOMAIN s.on THEN {s.on[x]} ELSE {})
    IN  IF act.onto = "TABLE"
        THEN [on |-> lifted, table |-> s.table \union {x}, clear |-> clear, plan |-> Append(s.plan, act)]
        ELSE [on |-> (x :> act.onto) @@ lifted, table |-> s.table \ {x}, clear |-> clear \ {act.onto},
              plan |-> Append(s.plan, act)]

Key(s) == <<s.on, s.table>>

IsGoal(s, task) ==
    /\ \A x \in DOMAIN task.goal_on : x \in DOMAIN s.on /\ s.on[x] = task.goal_on[x]
    /\ task.goal_table \subseteq s.table

----------------------------------------------------------------------------
(* verify_reference_spaces: a state is its stacks, each from the table to  *)
(* the top; no code is shared with the above.                              *)

RECURSIVE Climb(_, _)
Climb(stack, on) ==
    LET above == {x \in DOMAIN on : on[x] = Last(stack)}
    IN  IF above = {} THEN stack ELSE Climb(Append(stack, CHOOSE x \in above : TRUE), on)

InitialStacks(task) == {Climb(<<x>>, task.on) : x \in task.table}

StacksReach(stacks, task) ==
    /\ \A x \in DOMAIN task.goal_on :
          \E s \in stacks : \E i \in 2 .. Len(s) : s[i] = x /\ s[i - 1] = task.goal_on[x]
    /\ \A x \in task.goal_table : \E s \in stacks : s[1] = x

Successors(stacks) ==
    LET rest(s) == IF Len(s) > 1 THEN {Front(s)} ELSE {}
        tall == {s \in stacks : Len(s) > 1}
        landed(s) == [act |-> ToTable(Last(s)), stacks |-> (stacks \ {s}) \union {Front(s), <<Last(s)>>}]
        stacked(s, t) == [act |-> Move(Last(s), Last(t)),
                          stacks |-> (stacks \ {s, t}) \union rest(s) \union {Append(t, Last(s))}]
    IN  {landed(s) : s \in tall} \union UNION {{stacked(s, t) : t \in stacks \ {s}} : s \in stacks}

Replay(task, plan) ==
    LET step(reached, act) == {n.stacks : n \in {n \in UNION {Successors(r) : r \in reached} : n.act = act}}
    IN  \E stacks \in FoldLeft(step, {InitialStacks(task)}, plan) : StacksReach(stacks, task)

----------------------------------------------------------------------------
(* The judges of a written plan.                                           *)

(* How far a plan can be executed; after an illegal action, nowhere.       *)
Executed(task, plan) ==
    LET step(states, act) == {Apply(s, act) : s \in {s \in states : act \in ApplicableActions(s)}}
    IN  FoldLeft(step, {InitialState(task)}, plan)

EvaluateSemantic(task, plan) == plan # <<>> /\ \E s \in Executed(task, plan) : IsGoal(s, task)

MatchesPerReference(plan, space) == [ref \in space |-> IF plan = ref THEN 1 ELSE 0]

PromptExample == <<ToTable("A"), Move("A", "B")>>

Classify(task, plan, space) ==
    LET ok == EvaluateSemantic(task, plan)
        legal(n) == Executed(task, SubSeq(plan, 1, n)) # {}
    IN  IF ok THEN IF plan \in space THEN "valid_shortest" ELSE "valid_not_shortest"
        ELSE IF plan = PromptExample THEN "copied_prompt_example_invalid"
        ELSE IF plan = <<>> \/ legal(Len(plan)) THEN "legal_but_goal_not_reached"
        ELSE IF legal(1) THEN "illegal_later_step" ELSE "illegal_first_step"

----------------------------------------------------------------------------
At(stage) == planning.stage = stage
TheTask   == Tasks[planning.task]

PlanningInit ==
    planning = [task |-> 0, stage |-> "none", level |-> {}, reached |-> {}, space |-> {}, found |-> {},
                answer |-> <<>>]

StartSearch(n) ==
    /\ At("none")
    /\ LET start == InitialState(Tasks[n])
       IN  planning' = [planning EXCEPT !.task = n, !.stage = "searching", !.level = {start}, !.reached = {Key(start)}]

(* Mutant: a state is queued once, along the first path that reaches it.   *)
NextLevelOnce ==
    LET all == UNION {{Apply(s, a) : a \in ApplicableActions(s)} : s \in planning.level}
    IN  {s \in all : Key(s) \notin planning.reached /\ s = CHOOSE t \in all : Key(t) = Key(s)}

(* Every path of this length to a state no shorter path reaches.           *)
NextLevel ==
    LET all == UNION {{Apply(s, a) : a \in ApplicableActions(s)} : s \in planning.level}
    IN  {s \in all : Key(s) \notin planning.reached}

Search ==
    /\ At("searching")
    /\ LET goals == {s \in planning.level : IsGoal(s, TheTask)}
       IN  IF goals = {}
           THEN planning' = [planning EXCEPT !.level = NextLevel,
                                             !.reached = @ \union {Key(s) : s \in NextLevel}]
           ELSE planning' = [planning EXCEPT !.stage = "verifying", !.space = {s.plan : s \in goals},
                                             !.level = {[plan |-> <<>>, stacks |-> InitialStacks(TheTask)]},
                                             !.reached = {}]

(* All sequences of actions, one depth after the other.                    *)
Deepen ==
    /\ At("verifying")
    /\ LET goals == {p \in planning.level : StacksReach(p.stacks, TheTask)}
           deeper(p) == {[plan |-> Append(p.plan, n.act), stacks |-> n.stacks] : n \in Successors(p.stacks)}
       IN  planning' = IF goals = {}
                       THEN [planning EXCEPT !.level = UNION {deeper(p) : p \in @}]
                       ELSE [planning EXCEPT !.stage = "verified", !.found = {p.plan : p \in goals}, !.level = {}]

(* extract_plan: what the actions of the text are read as; a move to TABLE *)
(* or to nothing is a move to the table.                                   *)
Read(text) == IF text.onto \in {"TABLE", "NOTHING"} THEN ToTable(text.block) ELSE text

Write ==
    /\ At("verified") /\ planning.task \in Answered /\ Len(planning.answer) < MaxAnswer
    /\ \E x \in TheTask.blocks, y \in TheTask.blocks \union {"TABLE", "NOTHING"} :
          planning' = [planning EXCEPT !.answer = Append(@, Read(Move(x, y)))]

PlanningNext ==
    \/ \E n \in Searched : StartSearch(n)
    \/ Search \/ Deepen \/ Write

PlanningSpec == PlanningInit /\ [][PlanningNext]_planning

----------------------------------------------------------------------------
(* "Guarantees that all and only shortest paths from s_0 to G are found"   *)
(* (blocks_world_tasks.py:122-125): the pruned search finds the sequences  *)
(* the unpruned one finds, as many and as long as the task declares, over  *)
(* states that stay valid.                                                 *)
SpaceIsComplete ==
    /\ At("searching") => \A s \in planning.level : IsValidState(s, TheTask.blocks)
    /\ At("verified") =>
          /\ planning.space = planning.found
          /\ Cardinality(planning.found) = TheTask.cardinality
          /\ \A p \in planning.found : Len(p) = TheTask.length

(* Whatever a model writes: the oracle accepts what the stacks can replay, *)
(* at most one reference matches it, and one does exactly when it is valid *)
(* and shortest; so a valid plan scores 1 in |V| draws of the reference    *)
(* unless it is longer.                                                    *)
JudgesAgree ==
    At("verified") /\ planning.answer # <<>> =>
        LET valid == EvaluateSemantic(TheTask, planning.answer)
            matches == MatchesPerReference(planning.answer, planning.space)
            matching == {ref \in planning.space : matches[ref] = 1}
        IN  /\ valid <=> Replay(TheTask, planning.answer)
            /\ Cardinality(matching) = IF valid /\ Len(planning.answer) = TheTask.length THEN 1 ELSE 0
            /\ matching # {} <=> Classify(TheTask, planning.answer, planning.space) = "valid_shortest"
=============================================================================

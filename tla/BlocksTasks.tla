----------------------------- MODULE BlocksTasks -----------------------------
(***************************************************************************)
(* The 24 planning tasks of pilot_second_domain/blocks_world_tasks.py.  A  *)
(* task is written down as its towers, each from the top to the table; of  *)
(* the goal, the towers it asks for and the blocks it wants on the table.  *)
(***************************************************************************)
EXTENDS Naturals, Sequences

LOCAL INSTANCE SequencesExt

(* init_on, goal_on: what a block stands on.                               *)
Below(towers) ==
    LET on(x, y) == \E t \in towers : \E i \in 1 .. Len(t) - 1 : t[i] = x /\ t[i + 1] = y
        blocks == UNION {ToSet(t) : t \in towers}
    IN  [x \in {x \in blocks : \E y \in blocks : on(x, y)} |-> CHOOSE y \in blocks : on(x, y)]

Task(towers, goal, goalTable, cardinality, length) ==
    LET blocks == UNION {ToSet(t) : t \in towers}
        on == Below(towers)
    IN  [blocks |-> blocks, on |-> on, table |-> blocks \ DOMAIN on, goal_on |-> Below(goal),
         goal_table |-> goalTable, cardinality |-> cardinality, length |-> length]

(* The goal of the clearing tasks: every block on the table.               *)
Clear(towers, cardinality, length) == Task(towers, {}, UNION {ToSet(t) : t \in towers}, cardinality, length)

Single(blocks) == {<<x>> : x \in blocks}

UniqueSolution ==
    <<Task({<<"A">>, <<"B">>}, {<<"A", "B">>}, {"B"}, 1, 1),
      Task({<<"A", "B">>, <<"C">>}, {<<"C", "A">>}, {"A", "B"}, 1, 2),
      Task({<<"C", "A">>, <<"B">>}, {<<"A", "B", "C">>}, {"C"}, 1, 3),
      Task(Single({"A", "B", "C"}), {<<"A", "B", "C">>}, {"C"}, 1, 2),
      Task({<<"A", "B">>}, {<<"B", "A">>}, {"A"}, 1, 2),
      Task({<<"A", "B">>, <<"C">>}, {<<"C", "B">>}, {"B"}, 1, 2),
      Task(Single({"A", "B", "C", "D"}), {<<"A", "B", "C", "D">>}, {"D"}, 1, 3),
      Task({<<"A", "B", "C", "D">>}, {<<"A", "D">>}, {"B", "C", "D"}, 1, 4)>>

CommutativeSubgoals ==
    <<Task(Single({"A", "B", "C", "D"}), {<<"A", "B">>, <<"C", "D">>}, {"B", "D"}, 2, 2),
      Clear({<<"A", "B">>, <<"C", "D">>}, 2, 2),
      Task({<<"A", "B">>, <<"C">>, <<"D">>}, {<<"C", "D">>}, {"A", "B", "D"}, 2, 2),
      Clear({<<"A", "B", "C">>, <<"D", "E">>}, 3, 3),
      Clear({<<"A", "B", "C", "D">>, <<"E", "F">>}, 4, 4),
      Task(Single({"A", "B", "C", "D", "E", "F"}), {<<"A", "B">>, <<"C", "D">>, <<"E", "F">>}, {"B", "D", "F"}, 6, 3),
      Clear({<<"A", "B">>, <<"C", "D">>, <<"E", "F">>}, 6, 3),
      Clear({<<"A", "B", "C">>, <<"D", "E", "F">>}, 6, 4)>>

HighPermutation ==
    <<Clear({<<"A", "B", "C", "D">>, <<"E", "F", "G">>}, 10, 5),
      Clear({<<"A", "B", "C">>, <<"D", "E">>, <<"F", "G">>}, 12, 4),
      Clear({<<"P", "Q", "R">>, <<"S", "T">>, <<"U", "V">>}, 12, 4),
      Clear({<<"A", "B", "C", "D">>, <<"E", "F">>, <<"G", "H">>}, 20, 5),
      Clear({<<"P", "Q", "R", "S">>, <<"T", "U">>, <<"V", "W">>}, 20, 5),
      Clear({<<"A", "B">>, <<"C", "D">>, <<"E", "F">>, <<"G", "H">>}, 24, 4),
      Clear({<<"P", "Q">>, <<"R", "S">>, <<"T", "U">>, <<"V", "W">>}, 24, 4),
      Clear({<<"P", "Q", "R", "S">>, <<"T", "U", "V">>}, 10, 5)>>

Tasks == UniqueSolution \o CommutativeSubgoals \o HighPermutation
=============================================================================

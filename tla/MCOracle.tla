------------------------------ MODULE MCOracle ------------------------------
(* The judgement of written schedules of one world: three processes that   *)
(* arrive together, first come first served, of which one runs for two     *)
(* units of time.                                                          *)
EXTENDS SemanticOracle

TiedWorld ==
    [family |-> "scheduling", constrained |-> FALSE,
     problem |-> [policy |-> "FCFS", quantum |-> 0, arrival |-> <<0, 0, 0>>, burst |-> <<2, 1, 1>>,
                  priority |-> <<1, 1, 1>>]]
TiedWorlds == {TiedWorld}
=============================================================================

--------------------------- MODULE MCTutorThread ----------------------------
(* Constants for checking TutorThread: two concepts, the first with the    *)
(* question types of page_replacement, the second with a single question.  *)
EXTENDS TutorThread, TLC

CONSTANTS paging, threads, recall, why, transfer, predict

MCConceptOf ==
    [q \in Questions |-> IF q = predict THEN threads ELSE paging]

MCTypeOf ==
    [q \in Questions |-> CASE q = recall   -> "OBSERVATION"
                          [] q = why      -> "WHY"
                          [] q = transfer -> "TRANSFER"
                          [] q = predict  -> "PREDICTION"]

(* The requests of a thread are alike. *)
RequestSymmetry == Permutations(Requests)

MCPathPosition == [c \in Concepts |-> IF c = paging THEN 1 ELSE 2]
=============================================================================

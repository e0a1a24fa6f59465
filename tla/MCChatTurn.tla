----------------------------- MODULE MCChatTurn -----------------------------
(* For checking ChatTurn: the turns of a thread are alike. *)
EXTENDS ChatTurn, TLC

RequestSymmetry == Permutations(Requests)
=============================================================================

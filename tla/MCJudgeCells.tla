---------------------------- MODULE MCJudgeCells ----------------------------
(* The judge's log over one instance; of three generators one gave the     *)
(* reference, one another valid trace, one nothing that parses.            *)
EXTENDS JudgeCells

CellRunner == {"cells"}
NoBatches(kind) == {}
MCNoise == <<3>>
MCOutputs == <<"R1", "R3", Unparsed>>
=============================================================================

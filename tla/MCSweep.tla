------------------------------ MODULE MCSweep ------------------------------
(* The dense+multi_query part of the default grid, whose names are cut     *)
(* alike, and the focused grid's variant whose name is what they are cut   *)
(* to.                                                                     *)
EXTENDS Sweep

MCGrids == {SubSeq(DefaultVariants, 5, 7)}
BothGrids == MCGrids \union {SubSeq(FocusedVariants, 5, 6)}
=============================================================================

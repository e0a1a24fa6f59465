----------------------------- MODULE Arrangement -----------------------------
(***************************************************************************)
(* Lists made from sets of places: what sorted() and a comprehension with  *)
(* a condition return, stated by counting what comes first.                *)
(***************************************************************************)
EXTENDS Integers, Sequences, FiniteSets

(* The elements of S one after the other; before is a strict order of S.   *)
Arranged(S, before) ==
    [k \in 1 .. Cardinality(S) |-> CHOOSE x \in S : Cardinality({y \in S : <<y, x>> \in before}) = k - 1]

Rising(S) == Arranged(S, {p \in S \X S : p[1] < p[2]})

(* The entries of a list at some of its places, in the list's order.       *)
Picked(list, places) == LET at == Rising(places) IN [k \in DOMAIN at |-> list[at[k]]]
=============================================================================

----------------------------- MODULE MCSessions -----------------------------
(* Two processes, and turns of which not all fit the budget. *)
EXTENDS Sessions, TLC

MCSymmetry == Permutations(Writers)
=============================================================================

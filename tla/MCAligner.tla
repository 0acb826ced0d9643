----------------------------- MODULE MCAligner -----------------------------
(* Two PMUs, stamps on and off the grid, in any order.                     *)
EXTENDS Aligner, TLC

Symmetry == Permutations(PMUs)
=============================================================================

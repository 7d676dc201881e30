----------------------------- MODULE MCEvCompat -----------------------------
(* Finite instances of EvCompat. *)
EXTENDS EvCompat, TLC

Symmetry == Permutations(Loopers)
=============================================================================

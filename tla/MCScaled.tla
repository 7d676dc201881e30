------------------------------ MODULE MCScaled ------------------------------
(* Finite instances of Scaled. *)
EXTENDS Scaled
=============================================================================

-------------------------------- MODULE MCPpd --------------------------------
(* Finite instances of Ppd. *)
EXTENDS Ppd, TLC

\* Descriptors are interchangeable.
Symmetry == Permutations(Fds)
=============================================================================

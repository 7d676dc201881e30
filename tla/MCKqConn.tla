------------------------------ MODULE MCKqConn ------------------------------
(* Finite instances of KqConn. *)
EXTENDS KqConn, TLC

\* Connections are interchangeable.
Symmetry == Permutations(Conns)
=============================================================================

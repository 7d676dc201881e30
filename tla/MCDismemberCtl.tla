--------------------------- MODULE MCDismemberCtl ---------------------------
(* Finite instances of DismemberCtl. *)
EXTENDS DismemberCtl, TLC

\* Clients, and the threads of all processes, are interchangeable.
Symmetry == Permutations(Clients) \cup Permutations(Threads)
=============================================================================

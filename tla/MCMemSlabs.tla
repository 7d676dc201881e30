----------------------------- MODULE MCMemSlabs -----------------------------
(* Finite instances of MemSlabs.                                           *)
EXTENDS MemSlabs, TLC

\* Class 1 has two pages, class 2 none; or the pool has the two.
TwoPages == 0 :> <<>> @@ 1 :> <<1, 2>> @@ 2 :> <<>>
TwoInPool == 0 :> <<1, 2>> @@ 1 :> <<>> @@ 2 :> <<>>
=============================================================================

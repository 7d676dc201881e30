------------------------------ MODULE MCMemExt ------------------------------
(* Finite instances of MemExt. *)
EXTENDS MemExt

AllDefault == [p \in Pages |-> 0]

Plain == [wbufs |-> 1, items |-> 1, drop |-> FALSE, recache |-> FALSE, shared |-> FALSE,
          unlink |-> FALSE, sets |-> 2, gets |-> 0, hdrs |-> 2, compacts |-> 0]

\* A compaction that loses some items; gets that put values back in memory;
\* pages of two buffers; a compaction of such a page; a get during a compaction.
MCConfigs ==
  {[Plain EXCEPT !.compacts = 1, !.drop = TRUE, !.shared = TRUE],
   [Plain EXCEPT !.gets = 1, !.hdrs = 3, !.recache = TRUE],
   [Plain EXCEPT !.wbufs = 2, !.sets = 3, !.hdrs = 3, !.unlink = TRUE],
   [Plain EXCEPT !.wbufs = 2, !.sets = 3, !.hdrs = 3, !.compacts = 1],
   [Plain EXCEPT !.compacts = 1, !.gets = 1]}

\* Pages of two items: a key may be written twice to a page.
StaleConfigs == {[Plain EXCEPT !.items = 2, !.compacts = 1, !.sets = 3, !.hdrs = 3]}
TornConfigs == {[Plain EXCEPT !.items = 2, !.compacts = 1, !.sets = 3, !.hdrs = 3, !.gets = 1]}
=============================================================================

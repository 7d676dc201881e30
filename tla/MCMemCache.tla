---------------------------- MODULE MCMemCache ----------------------------
(* Finite instances of MemCache. *)
EXTENDS MemCache, TLC

\* Each menu is one mix of commands and background work; every hazard needs
\* only a few of them at once.
MCMenus ==
  { [ops |-> {"SET", "get", "gat", "incr", "decr", "juggle"}, chunks |-> {1, 2}, max |-> 3],
    [ops |-> {"SET", "CAS", "ADD", "gets", "delete", "casid", "bad"}, chunks |-> {1, 2, 3}, max |-> 3],
    [ops |-> {"SET", "APPEND", "PREPEND", "REPLACE", "get", "casid"}, chunks |-> {1, 2, 3}, max |-> 3],
    [ops |-> {"SET", "get", "flush", "tick", "touch", "crawl"}, chunks |-> {1, 2, 3}, max |-> 3],
    [ops |-> {"SET", "CAS", "gets", "incr", "casid"}, chunks |-> {1, 2, 3}, max |-> 4] }

\* A gets whose reply is built while an incr is replacing its item.
CasMenus == { [ops |-> {"SET", "gets", "incr"}, chunks |-> {1, 2, 3}, max |-> 3] }

MCTTLs == {-1, 1}

Symmetry == Permutations(Keys) \cup Permutations(Workers)
=============================================================================

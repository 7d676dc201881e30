------------------------------- MODULE KvSpec -------------------------------
(***************************************************************************)
(* What the storage commands of memcached promise: a key-value store that  *)
(* does each command at one instant, gives every value it stores a fresh   *)
(* CAS id, and may lose keys (eviction, expiry, flush_all) but never brings *)
(* one back.  MemCache implements it, except for a value that an append, a *)
(* prepend or an allocating incr revives while it expires or is flushed.   *)
(* The CAS id in the answer to a gets may be left open (NULL).             *)
(***************************************************************************)
EXTENDS Integers, Sequences

CONSTANTS Keys, Workers, Word, NULL

VARIABLES
  store,  \* the value and CAS id of each key, or NULL
  last,   \* the last CAS id given out
  reply   \* the last answer to each worker's client

kvVars == <<store, last, reply>>

KvInit ==
  /\ store = [k \in Keys |-> NULL]
  /\ last = 0
  /\ \A w \in Workers : reply[w].op = NULL

\* The contents st, of which any part may be lost at once.
Keeps(st) == \A k \in Keys : store'[k] \in {st[k], NULL}
Puts(k, v) == last' > last /\ Keeps([store EXCEPT ![k] = [val |-> v, cas |-> last']])

Absent(k) == store[k] = NULL
Matches(r) == r.cas = 0 \/ r.cas = store[r.key].cas
Counted(op, v) == IF op = "incr" THEN (v + 1) % Word ELSE IF v = 0 THEN 0 ELSE v - 1

Gets(r) ==
  /\ r.op \in {"get", "gets", "gat"} /\ Keeps(store)
  /\ \/ r.res = "MISS" /\ Absent(r.key)
     \/ /\ r.res = "HIT" /\ ~Absent(r.key)
        /\ r.val = store[r.key].val
        /\ r.op = "gets" => r.cas \in {NULL, store[r.key].cas}

Stores(r) ==
  /\ r.res = "STORED"
  /\ \/ r.op = "SET" /\ Puts(r.key, r.val)
     \/ r.op = "ADD" /\ Absent(r.key) /\ Puts(r.key, r.val)
     \/ r.op = "REPLACE" /\ ~Absent(r.key) /\ Puts(r.key, r.val)
     \/ r.op = "CAS" /\ ~Absent(r.key) /\ r.cas = store[r.key].cas /\ Puts(r.key, r.val)
     \/ r.op = "APPEND" /\ ~Absent(r.key) /\ Matches(r) /\ Puts(r.key, store[r.key].val \o r.val)
     \/ r.op = "PREPEND" /\ ~Absent(r.key) /\ Matches(r) /\ Puts(r.key, r.val \o store[r.key].val)

\* An append or prepend may also find no memory.
Declines(r) ==
  /\ r.op \in {"ADD", "REPLACE", "CAS", "APPEND", "PREPEND"} /\ Keeps(store)
  /\ \/ r.res = "NOT_STORED" /\ r.op = "ADD" /\ ~Absent(r.key)
     \/ r.res = "NOT_STORED" /\ r.op = "REPLACE" /\ Absent(r.key)
     \/ r.res = "NOT_STORED" /\ r.op \in {"APPEND", "PREPEND"}
     \/ r.res = "NOT_FOUND" /\ r.op = "CAS" /\ Absent(r.key)
     \/ r.res = "EXISTS" /\ r.op # "ADD" /\ ~Absent(r.key) /\ r.cas # store[r.key].cas

Counts(r) ==
  /\ r.op \in {"incr", "decr"}
  /\ \/ /\ r.res = "OK" /\ ~Absent(r.key) /\ Matches(r)
        /\ r.val = <<Counted(r.op, store[r.key].val[1])>> /\ Puts(r.key, r.val)
     \/ r.res = "NOT_FOUND" /\ Absent(r.key) /\ Keeps(store)
     \/ r.res = "EXISTS" /\ ~Absent(r.key) /\ ~Matches(r) /\ Keeps(store)
     \/ r.res = "NON_NUMERIC" /\ ~Absent(r.key) /\ Len(store[r.key].val) # 1 /\ Keeps(store)

Deletes(r) ==
  /\ r.op = "delete"
  /\ \/ r.res = "DELETED" /\ ~Absent(r.key) /\ Matches(r) /\ Keeps([store EXCEPT ![r.key] = NULL])
     \/ r.res = "EXISTS" /\ ~Absent(r.key) /\ ~Matches(r) /\ Keeps(store)
     \/ r.res = "NOT_FOUND" /\ Absent(r.key) /\ Keeps(store)

Touches(r) ==
  /\ r.op = "touch" /\ Keeps(store)
  /\ r.res = IF Absent(r.key) THEN "NOT_FOUND" ELSE "TOUCHED"

Fails(r) == r.res = "ERROR" /\ Keeps(store)

\* flush_all without a delay.
Flushes(r) == r.op = "flush" /\ \A k \in Keys : store'[k] = NULL

\* One command of worker w's client takes effect and is answered.
Respond(w) ==
  LET r == reply'[w]
  IN /\ \A v \in Workers : v # w => reply'[v] = reply[v]
     /\ last' >= last
     /\ \/ Gets(r) \/ Stores(r) \/ Declines(r) \/ Counts(r) \/ Deletes(r) \/ Touches(r)
        \/ Fails(r) \/ Flushes(r)

Lose == Keeps(store) /\ UNCHANGED <<last, reply>>

KvNext == Lose \/ \E w \in Workers : Respond(w)

KvSpec == KvInit /\ [][KvNext]_kvVars

=============================================================================

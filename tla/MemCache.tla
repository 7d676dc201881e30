------------------------------ MODULE MemCache ------------------------------
(***************************************************************************)
(* The items of mem/ (memcached on evcompat): the storage commands of      *)
(* memcached.c, the item life cycle and the LRU of items.c, one slab class *)
(* of slabs.c, and the background work on items (bumps, juggling, crawler).*)
(*                                                                         *)
(* Worker threads run commands.  What a worker does between taking and     *)
(* dropping an item lock is one action, except where it allocates inside   *)
(* (append, prepend, incr that does not fit): then ilock keeps the lock.   *)
(* A reference that a worker keeps between two actions is c[w].it (c->item *)
(* or the item list of a get that is being sent) and c[w].old.             *)
(*                                                                         *)
(* The memory is one record s with the fields it (the items), assoc (what  *)
(* the hash table holds), q (the LRU queues, head first), bump (the bump   *)
(* buffers), cas_id and failed (the assertion that failed); the functions  *)
(* of items.c are operators from memory to memory.                         *)
(***************************************************************************)
EXTENDS Integers, Sequences, FiniteSets, SequencesExt

CONSTANTS
  Workers,        \* worker threads, each with the command of one connection
  Keys,
  Items,          \* the chunks of the slab class, numbers
  Menus,          \* bounds of a behaviour: [ops: the commands and events it may
                  \* draw from, chunks: those the memory limit allows, max: the
                  \* number of commands]
  TTLs,           \* exptime arguments; a negative one is in the past
  FlushDelays,    \* arguments of flush_all
  Word,           \* 2^64 in the code: where incr wraps around
  UpdateInterval, \* ITEM_UPDATE_INTERVAL, 60 seconds in the code
  AllocTries,     \* iterations of do_item_alloc_pull, 10 in the code
  BumpMax,        \* capacity of a bump buffer
  RefcountLimit,  \* IT_REFCOUNT_LIMIT, 60000 in the code
  MaxTime,        \* bound: the last second
  NULL

ASSUME MemCacheAssumption ==
  /\ Items \subseteq Nat
  /\ NULL \notin Items \cup Keys \cup Workers /\ NULL \notin {"get", "gets", "gat"}
  /\ IsFiniteSet(Workers)
  /\ Word \in Nat \ {0} /\ UpdateInterval \in Nat /\ AllocTries \in Nat
  /\ BumpMax \in Nat /\ RefcountLimit \in Nat /\ TTLs \subseteq Int /\ MaxTime \in Nat
  /\ \A x \in Menus : x.chunks \subseteq Items /\ x.max \in Nat
  /\ FlushDelays \subseteq Nat

VARIABLES
  m,            \* the memory
  now,          \* current_time
  oldest_live,  \* settings.oldest_live
  oldest_cas,   \* settings.oldest_cas
  ilock,        \* the worker that keeps the item lock of a key, or NULL
  c,            \* the command each worker is executing
  ans,          \* the last answer of each worker
  cmds,         \* commands started
  menu          \* the member of Menus that bounds this behaviour

cacheVars == <<m, now, oldest_live, oldest_cas, ilock, c, ans, cmds, menu>>

LRUs == {"HOT", "WARM", "COLD"}
Flags == {"LINKED", "SLABBED", "FETCHED", "ACTIVE"}

FreeItem == [key |-> NULL, val |-> <<>>, cas |-> 0, exptime |-> 0, time |-> 0,
             refcount |-> 0, flags |-> {"SLABBED"}, lru |-> NULL]
Idle == [pc |-> "idle", comm |-> NULL, key |-> NULL, val |-> <<>>, cas |-> 0,
         exptime |-> 0, it |-> NULL, old |-> NULL, tries |-> 0]
StorageComms == {"SET", "ADD", "REPLACE", "CAS", "APPEND", "PREPEND"}
NoAnswer == [op |-> NULL, key |-> NULL, res |-> NULL, val |-> <<>>, cas |-> 0]

CacheInit ==
  /\ m = [it |-> [i \in Items |-> FreeItem], assoc |-> {},
          q |-> [l \in LRUs |-> <<>>], bump |-> [w \in Workers |-> <<>>],
          cas_id |-> 0, failed |-> "none"]
  /\ now = UpdateInterval + 2
  /\ oldest_live = 0 /\ oldest_cas = 0
  /\ ilock = [k \in Keys |-> NULL]
  /\ c = [w \in Workers |-> Idle]
  /\ ans = [w \in Workers |-> NoAnswer]
  /\ cmds = 0
  /\ menu \in Menus

-----------------------------------------------------------------------------
(* items.c and assoc.c: from memory to memory *)

Has(s, i, f) == f \in s.it[i].flags
Require(s, cond, name) ==
  IF cond \/ s.failed # "none" THEN s ELSE [s EXCEPT !.failed = name]

refcount_incr(s, i) == [s EXCEPT !.it[i].refcount = @ + 1]
refcount_decr(s, i) == [s EXCEPT !.it[i].refcount = @ - 1]

assoc_find(s, k) ==
  LET found == {i \in s.assoc : s.it[i].key = k}
  IN IF found = {} THEN NULL ELSE CHOOSE i \in found : TRUE

assoc_insert(s, i) == [s EXCEPT !.assoc = @ \cup {i}]

\* The item is looked up by its key.
assoc_delete(s, i) ==
  LET d == assoc_find(s, s.it[i].key)
  IN IF d = NULL THEN Require(s, FALSE, "assoc_delete")
     ELSE [s EXCEPT !.assoc = @ \ {d}]

do_item_link_q(s, i) ==
  LET s1 == Require(s, ~Has(s, i, "SLABBED"), "do_item_link_q")
  IN [s1 EXCEPT !.q[s.it[i].lru] = <<i>> \o @]

do_item_unlink_q(s, i) == [s EXCEPT !.q[s.it[i].lru] = RemoveFirst(@, i)]

item_free(s, i) ==
  LET s1 == Require(s, ~Has(s, i, "LINKED"), "item_free")
  IN [s1 EXCEPT !.it[i].flags = {"SLABBED"}, !.it[i].lru = NULL]

do_item_remove(s, i) ==
  LET s1 == Require(s, ~Has(s, i, "SLABBED") /\ s.it[i].refcount > 0, "do_item_remove")
      s2 == refcount_decr(s1, i)
  IN IF s2.it[i].refcount = 0 THEN item_free(s2, i) ELSE s2

\* Mutation: a linked item keeps the CAS id of the request.
do_item_link_oldcas(s, i) ==
  LET s1 == Require(s, s.it[i].flags \cap {"LINKED", "SLABBED"} = {}, "do_item_link")
      s2 == [s1 EXCEPT !.it[i].flags = @ \cup {"LINKED"}, !.it[i].time = now]
  IN refcount_incr(do_item_link_q(assoc_insert(s2, i), i), i)

do_item_link(s, i) ==
  LET s1 == Require(s, s.it[i].flags \cap {"LINKED", "SLABBED"} = {}, "do_item_link")
      s2 == [s1 EXCEPT !.it[i].flags = @ \cup {"LINKED"},
                       !.it[i].time = now,
                       !.it[i].cas = s.cas_id + 1,
                       !.cas_id = @ + 1]
  IN refcount_incr(do_item_link_q(assoc_insert(s2, i), i), i)

do_item_unlink(s, i) ==
  IF ~Has(s, i, "LINKED") THEN s
  ELSE LET s1 == [s EXCEPT !.it[i].flags = @ \ {"LINKED"}]
       IN do_item_remove(do_item_unlink_q(assoc_delete(s1, i), i), i)

do_item_replace(s, old, new) == do_item_link(do_item_unlink(s, old), new)

item_is_flushed(s, i) ==
  /\ oldest_live # 0 /\ oldest_live <= now
  /\ \/ s.it[i].time <= oldest_live
     \/ oldest_cas # 0 /\ s.it[i].cas # 0 /\ s.it[i].cas < oldest_cas

do_item_update(s, i) ==
  LET x == s.it[i] IN
  IF ~Has(s, i, "LINKED") THEN s
  ELSE IF x.lru = "COLD" /\ "ACTIVE" \in x.flags
  THEN do_item_link_q([do_item_unlink_q(s, i) EXCEPT
         !.it[i].time = now, !.it[i].lru = "WARM", !.it[i].flags = @ \ {"ACTIVE"}], i)
  ELSE IF x.time < now - UpdateInterval THEN [s EXCEPT !.it[i].time = now] ELSE s

do_item_update_nolock(s, i) ==
  IF s.it[i].time < now - UpdateInterval /\ Has(s, i, "LINKED")
  THEN do_item_link_q([do_item_unlink_q(s, i) EXCEPT !.it[i].time = now], i)
  ELSE s

\* Mutation of lru_bump_async: the entry has no reference of its own.
lru_bump_async_unref(s, i, w) ==
  IF Len(s.bump[w]) < BumpMax
  THEN [s EXCEPT !.bump[w] = Append(@, i), !.it[i].flags = @ \cup {"ACTIVE"}]
  ELSE s

\* The reference of the entry in the buffer is taken; a full buffer drops it.
lru_bump_async(s, i, w) ==
  IF Len(s.bump[w]) < BumpMax
  THEN [refcount_incr(s, i) EXCEPT !.bump[w] = Append(@, i),
                                   !.it[i].flags = @ \cup {"ACTIVE"}]
  ELSE s

\* The second hit makes an item ACTIVE; in COLD it is bumped by the maintainer.
Hit(s, i, w) ==
  IF Has(s, i, "ACTIVE") THEN s
  ELSE IF ~Has(s, i, "FETCHED") THEN [s EXCEPT !.it[i].flags = @ \cup {"FETCHED"}]
  ELSE IF s.it[i].lru # "COLD"
  THEN do_item_update([s EXCEPT !.it[i].flags = @ \cup {"ACTIVE"}], i)
  ELSE lru_bump_async(s, i, w)

Expired(s, i) == s.it[i].exptime # 0 /\ s.it[i].exptime <= now

\* Whether the get counts as a hit.
DO_UPDATE == TRUE
DONT_UPDATE == FALSE

\* The memory and the item found, with a reference for the caller.
do_item_get(s, k, w, do_update) ==
  LET i == assoc_find(s, k)
      r == refcount_incr(s, i)
  IN IF i = NULL THEN [s |-> s, it |-> NULL]
     ELSE IF item_is_flushed(s, i) \/ Expired(s, i)
     THEN [s |-> do_item_remove(do_item_unlink(r, i), i), it |-> NULL]
     ELSE [s |-> IF do_update THEN Hit(r, i, w) ELSE r, it |-> i]

do_item_touch(s, k, w, exptime) ==
  LET r == do_item_get(s, k, w, DO_UPDATE)
  IN IF r.it = NULL THEN r ELSE [r EXCEPT !.s.it[r.it].exptime = exptime]

\* The reaper and the crawler spare an item in the second it expires.
Dead(s, i) ==
  (s.it[i].exptime # 0 /\ s.it[i].exptime < now) \/ item_is_flushed(s, i)

MoveTo(s, i, l) ==
  do_item_link_q([do_item_unlink_q(s, i) EXCEPT !.it[i].lru = l], i)

\* The item at which the walk up a queue stops, with a reference of its own.
PullStop(s, i, l, evict, over) ==
  LET active == Has(s, i, "ACTIVE")
      calm == [s EXCEPT !.it[i].flags = @ \ {"ACTIVE"}]
  IN IF l # "COLD" /\ active THEN [s |-> MoveTo(calm, i, "WARM"), n |-> 1]
     ELSE IF l # "COLD" THEN IF over THEN [s |-> MoveTo(s, i, "COLD"), n |-> 1]
                             ELSE [s |-> s, n |-> 0]
     ELSE IF evict THEN [s |-> do_item_unlink(s, i), n |-> 1]
     ELSE IF active THEN [s |-> MoveTo(calm, i, "WARM"), n |-> 1]
     ELSE [s |-> s, n |-> 0]

\* The walk reaches item i: a locked one is skipped, a dead one reclaimed, an
\* active one of WARM sent back to the head, and the first other one stops it.
Visit(r, i, l, evict, over, locked) ==
  LET u == refcount_incr(r.s, i)
      calm == [u EXCEPT !.it[i].flags = @ \ {"ACTIVE"}]
      e == PullStop(u, i, l, evict, over)
  IN IF r.stop \/ r.s.it[i].key \in locked THEN r
     ELSE IF Dead(u, i)
     THEN [r EXCEPT !.s = do_item_remove(do_item_unlink(u, i), i), !.n = @ + 1]
     ELSE IF l = "WARM" /\ Has(u, i, "ACTIVE")
     THEN [r EXCEPT !.s = do_item_remove(do_item_update_nolock(calm, i), i), !.n = @ + 1]
     ELSE [s |-> do_item_remove(e.s, i), n |-> r.n + e.n, stop |-> TRUE]

\* Whether the walk may evict an item of COLD that nothing else ends.
LRU_PULL_EVICT == TRUE
LRU_PULL_ONLY == FALSE

\* The walk from the tail of a queue up, over five items.
lru_pull_tail(s, l, evict, over, locked) ==
  LET tail == Reverse(s.q[l])
      walk[n \in 0 .. 5] ==
        IF n = 0 THEN [s |-> s, n |-> 0, stop |-> FALSE]
        ELSE IF n > Len(tail) THEN walk[n - 1]
        ELSE Visit(walk[n - 1], tail[n], l, evict, over, locked)
  IN walk[5]

-----------------------------------------------------------------------------
(* Commands *)

Free(k) == ilock[k] = NULL
Locked == {k \in Keys : ~Free(k)}

realtime(e) == IF e = 0 THEN 0 ELSE IF e < 0 THEN 1 ELSE now + e

Answer(op, k, res, v, cas) == [op |-> op, key |-> k, res |-> res, val |-> v, cas |-> cas]

\* CAS ids a client may send: 0, for none, and any it may have been told.
CasIds == IF "casid" \in menu.ops THEN 0 .. m.cas_id ELSE {0}
Expiries == IF "tick" \in menu.ops THEN TTLs ELSE {0}

Begins(w, op) == c[w].pc = "idle" /\ op \in menu.ops /\ cmds < menu.max /\ cmds' = cmds + 1

Quiet == UNCHANGED <<now, oldest_live, oldest_cas, menu>>

\* get, gets and gat up to the item lock: the reply is built without it.
GetCmd(w, op, k, ttl) ==
  /\ Begins(w, op) /\ Free(k)
  /\ LET r == IF op = "gat" THEN do_item_touch(m, k, w, realtime(ttl))
              ELSE do_item_get(m, k, w, DO_UPDATE)
         many == r.it # NULL /\ r.s.it[r.it].refcount > RefcountLimit
     IN IF r.it = NULL \/ many
        THEN /\ m' = IF many THEN do_item_remove(r.s, r.it) ELSE r.s
             /\ ans' = [ans EXCEPT ![w] = Answer(op, k, "MISS", <<>>, 0)]
             /\ UNCHANGED c
        ELSE /\ m' = r.s
             /\ c' = [c EXCEPT ![w] = [Idle EXCEPT !.pc = "found", !.comm = op, !.key = k,
                                          !.it = r.it, !.val = r.s.it[r.it].val]]
             /\ UNCHANGED ans
  /\ Quiet /\ UNCHANGED ilock

\* The header is built from the item, whose data is sent from where it is.
Found(w) ==
  LET x == m.it[c[w].it]
  IN Answer(c[w].comm, c[w].key, "HIT", x.val, IF c[w].comm = "gets" THEN x.cas ELSE 0)

Reply(w) ==
  /\ c[w].pc = "found"
  /\ ans' = [ans EXCEPT ![w] = Found(w)]
  /\ c' = [c EXCEPT ![w].pc = "drop"]
  /\ Quiet /\ UNCHANGED <<m, ilock, cmds>>

\* item_remove: after the transmission, a store, a touch, or a closed connection.
Drop(w) ==
  /\ c[w].pc = "drop" /\ Free(c[w].key)
  /\ m' = do_item_remove(m, c[w].it)
  /\ c' = [c EXCEPT ![w] = Idle]
  /\ Quiet /\ UNCHANGED <<ilock, ans, cmds>>

\* A set, add or replace of the binary protocol with a CAS id becomes a cas.
BinaryComm(comm, cas) ==
  IF comm \in {"SET", "ADD", "REPLACE"} /\ cas # 0 THEN "CAS" ELSE comm

\* Every command stores a value of its own, a number.
UpdateCmd(w, comm, k, ttl, cas) ==
  /\ comm \in StorageComms /\ Begins(w, comm)
  /\ c' = [c EXCEPT ![w] = [Idle EXCEPT !.pc = "alloc", !.comm = comm, !.key = k,
                 !.val = <<cmds>>, !.cas = cas,
                 !.exptime = IF comm \in {"APPEND", "PREPEND"} THEN 0 ELSE realtime(ttl)]]
  /\ Quiet /\ UNCHANGED <<m, ilock, ans>>

-----------------------------------------------------------------------------
(* do_store_item: what it does to memory, and its result, old being the item
   that do_item_get found. *)

\* Mutation: cas does not compare the ids.
StoreBlind(s, comm, i, old) ==
  IF comm = "ADD" /\ old # NULL THEN [s |-> do_item_update(s, old), res |-> "NOT_STORED"]
  ELSE IF comm = "REPLACE" /\ old = NULL THEN [s |-> s, res |-> "NOT_STORED"]
  ELSE IF comm = "CAS" /\ old = NULL THEN [s |-> s, res |-> "NOT_FOUND"]
  ELSE [s |-> IF old = NULL THEN do_item_link(s, i) ELSE do_item_replace(s, old, i),
        res |-> "STORED"]

Store(s, comm, i, old) ==
  IF comm = "ADD" /\ old # NULL THEN [s |-> do_item_update(s, old), res |-> "NOT_STORED"]
  ELSE IF comm = "REPLACE" /\ old = NULL THEN [s |-> s, res |-> "NOT_STORED"]
  ELSE IF comm = "CAS" /\ old = NULL THEN [s |-> s, res |-> "NOT_FOUND"]
  ELSE IF comm = "CAS" /\ s.it[i].cas # s.it[old].cas THEN [s |-> s, res |-> "EXISTS"]
  ELSE [s |-> IF old = NULL THEN do_item_link(s, i) ELSE do_item_replace(s, old, i),
        res |-> "STORED"]

Unref(s, i) == IF i = NULL THEN s ELSE do_item_remove(s, i)

\* The value has been read: complete_nread and, for these, all of store_item.
NreadDone(w) ==
  LET k == c[w].key
      g == do_item_get(m, k, w, DONT_UPDATE)
      st == Store(g.s, c[w].comm, c[w].it, g.it)
  IN /\ c[w].pc = "nread" /\ c[w].comm \notin {"APPEND", "PREPEND"} /\ Free(k)
     /\ m' = Unref(st.s, g.it)
     /\ ans' = [ans EXCEPT ![w] = Answer(c[w].comm, k, st.res, c[w].val, c[w].cas)]
     /\ c' = [c EXCEPT ![w].pc = "drop"]
     /\ Quiet /\ UNCHANGED <<ilock, cmds>>

\* The data block does not end as it should, or the connection is closed.
NreadBad(w) ==
  /\ c[w].pc = "nread" /\ "bad" \in menu.ops
  /\ ans' = [ans EXCEPT ![w] = Answer(c[w].comm, c[w].key, "ERROR", <<>>, 0)]
  /\ c' = [c EXCEPT ![w].pc = "drop"]
  /\ Quiet /\ UNCHANGED <<m, ilock, cmds>>

\* append and prepend up to the allocation, which is made under the item lock.
CopyBegin(w) ==
  LET k == c[w].key
      g == do_item_get(m, k, w, DONT_UPDATE)
      res == IF g.it = NULL THEN "NOT_STORED"
             ELSE IF c[w].cas # 0 /\ c[w].cas # g.s.it[g.it].cas THEN "EXISTS" ELSE "go"
  IN /\ c[w].pc = "nread" /\ c[w].comm \in {"APPEND", "PREPEND"} /\ Free(k)
     /\ IF res = "go"
        THEN /\ m' = g.s
             /\ ilock' = [ilock EXCEPT ![k] = w]
             /\ c' = [c EXCEPT ![w].pc = "copy", ![w].old = g.it, ![w].tries = 0]
             /\ UNCHANGED ans
        ELSE /\ m' = Unref(g.s, g.it)
             /\ ans' = [ans EXCEPT ![w] = Answer(c[w].comm, k, res, c[w].val, c[w].cas)]
             /\ c' = [c EXCEPT ![w].pc = "drop"]
             /\ UNCHANGED ilock
     /\ Quiet /\ UNCHANGED cmds

\* _store_item_copy_data
Copied(comm, old, new) == IF comm = "APPEND" THEN old \o new ELSE new \o old

-----------------------------------------------------------------------------
(* incr and decr *)

Delta(op, v) == IF op = "incr" THEN (v + 1) % Word ELSE IF v = 0 THEN 0 ELSE v - 1

\* Mutation: the value is overwritten whoever else holds the item.
MayOverwrite_always(s, i, fits) == fits

\* Nobody but the hash table and this command holds it, and the digits fit.
MayOverwrite(s, i, fits) == fits /\ s.it[i].refcount = 2

DeltaCmd(w, op, k, cas, fits) ==
  LET g == do_item_get(m, k, w, DONT_UPDATE)
      old == g.s.it[g.it]
      res == IF g.it = NULL THEN "NOT_FOUND"
             ELSE IF cas # 0 /\ cas # old.cas THEN "EXISTS"
             ELSE IF Len(old.val) # 1 THEN "NON_NUMERIC" ELSE "OK"
      v == <<Delta(op, old.val[1])>>
  IN /\ op \in {"incr", "decr"} /\ Begins(w, op) /\ Free(k)
     /\ IF res # "OK"
        THEN /\ m' = Unref(g.s, g.it)
             /\ ans' = [ans EXCEPT ![w] = Answer(op, k, res, <<>>, cas)]
             /\ UNCHANGED <<c, ilock>>
        ELSE IF MayOverwrite(g.s, g.it, fits)
        THEN /\ m' = do_item_remove(do_item_update([g.s EXCEPT !.it[g.it].val = v,
                        !.it[g.it].cas = m.cas_id + 1, !.cas_id = @ + 1], g.it), g.it)
             /\ ans' = [ans EXCEPT ![w] = Answer(op, k, "OK", v, cas)]
             /\ UNCHANGED <<c, ilock>>
        ELSE /\ m' = g.s
             /\ ilock' = [ilock EXCEPT ![k] = w]
             /\ c' = [c EXCEPT ![w] = [Idle EXCEPT !.pc = "delta", !.comm = op, !.key = k,
                        !.val = v, !.cas = cas, !.exptime = old.exptime, !.old = g.it]]
             /\ UNCHANGED ans
     /\ Quiet

-----------------------------------------------------------------------------
(* do_item_alloc, for a new value, an append or a delta *)

Allocating(w) == c[w].pc \in {"alloc", "copy", "delta"}
FreeChunks == {i \in menu.chunks : Has(m, i, "SLABBED")}

NewItem(s, i, k, v, cas, exptime) ==
  [s EXCEPT !.it[i] = [FreeItem EXCEPT !.key = k, !.val = v, !.cas = cas, !.lru = "HOT",
                         !.exptime = exptime, !.refcount = 1, !.flags = {}]]

\* The new item takes the place of the old one, and both references go.
Supersede(s, old, i) ==
  do_item_remove(do_item_remove(do_item_replace(s, old, i), old), i)

\* As Supersede, but the old item is given the new CAS id first.
SupersedeDelta(s, old, i) ==
  LET r == do_item_replace(s, old, i)
  IN do_item_remove(do_item_remove([r EXCEPT !.it[old].cas = r.it[i].cas], i), old)

AllocTake(w) ==
  LET i == CHOOSE x \in FreeChunks : TRUE
      x == c[w]
      v == IF x.pc = "copy" THEN Copied(x.comm, m.it[x.old].val, x.val) ELSE x.val
      e == IF x.pc = "copy" THEN m.it[x.old].exptime ELSE x.exptime
      s == NewItem(m, i, x.key, v, x.cas, e)
  IN /\ Allocating(w) /\ FreeChunks # {}
     /\ \/ /\ x.pc = "alloc"
           /\ m' = s
           /\ c' = [c EXCEPT ![w].pc = "nread", ![w].it = i,
                             ![w].comm = BinaryComm(x.comm, x.cas)]
           /\ UNCHANGED <<ilock, ans>>
        \/ /\ x.pc = "copy"
           /\ m' = Supersede(s, x.old, i)
           /\ ans' = [ans EXCEPT ![w] = Answer(x.comm, x.key, "STORED", x.val, x.cas)]
           /\ c' = [c EXCEPT ![w].pc = "drop", ![w].old = NULL]
           /\ ilock' = [ilock EXCEPT ![x.key] = NULL]
        \/ /\ x.pc = "delta"
           /\ m' = SupersedeDelta(s, x.old, i)
           /\ ans' = [ans EXCEPT ![w] = Answer(x.comm, x.key, "OK", x.val, x.cas)]
           /\ c' = [c EXCEPT ![w] = Idle]
           /\ ilock' = [ilock EXCEPT ![x.key] = NULL]
     /\ Quiet /\ UNCHANGED cmds

\* One round of do_item_alloc_pull that finds no chunk; busy are the keys whose
\* lock another thread, or a key that hashes to the same lock, has just now.
AllocPull(w, busy, over) ==
  LET cold == lru_pull_tail(m, "COLD", LRU_PULL_EVICT, over, Locked \cup busy)
  IN /\ Allocating(w) /\ FreeChunks = {} /\ c[w].tries < AllocTries
     /\ m' = IF cold.n > 0 THEN cold.s
             ELSE lru_pull_tail(cold.s, "HOT", LRU_PULL_ONLY, over, Locked \cup busy).s
     /\ c' = [c EXCEPT ![w].tries = @ + 1]
     /\ Quiet /\ UNCHANGED <<ilock, ans, cmds>>

AllocFail(w) ==
  LET x == c[w]
  IN /\ Allocating(w) /\ FreeChunks = {} /\ x.tries = AllocTries
     /\ m' = Unref(m, x.old)
     /\ ilock' = [ilock EXCEPT ![x.key] = IF x.pc = "alloc" THEN @ ELSE NULL]
     /\ ans' = [ans EXCEPT ![w] = Answer(x.comm, x.key,
                  IF x.pc = "copy" THEN "NOT_STORED" ELSE "ERROR", <<>>, 0)]
     /\ c' = [c EXCEPT ![w] = IF x.pc = "copy" THEN [x EXCEPT !.pc = "drop", !.old = NULL]
                              ELSE IF x.comm = "SET" THEN [x EXCEPT !.pc = "oom"] ELSE Idle]
     /\ Quiet /\ UNCHANGED cmds

\* A set that found no memory removes the old value: item_get, item_unlink and
\* item_remove (Drop), each of which takes the lock for itself.
OomGet(w) ==
  LET g == do_item_get(m, c[w].key, w, DONT_UPDATE)
  IN /\ c[w].pc = "oom" /\ Free(c[w].key)
     /\ m' = g.s
     /\ c' = [c EXCEPT ![w] = IF g.it = NULL THEN Idle ELSE [@ EXCEPT !.pc = "unlink", !.it = g.it]]
     /\ Quiet /\ UNCHANGED <<ilock, ans, cmds>>

OomUnlink(w) ==
  /\ c[w].pc = "unlink" /\ Free(c[w].key)
  /\ m' = do_item_unlink(m, c[w].it)
  /\ c' = [c EXCEPT ![w].pc = "drop"]
  /\ Quiet /\ UNCHANGED <<ilock, ans, cmds>>

-----------------------------------------------------------------------------
(* delete, touch and flush_all *)

DeleteCmd(w, k, cas) ==
  LET g == do_item_get(m, k, w, DONT_UPDATE)
      hit == g.it # NULL
      same == hit /\ (cas = 0 \/ cas = g.s.it[g.it].cas)
  IN /\ Begins(w, "delete") /\ Free(k)
     /\ m' = Unref(IF same THEN do_item_unlink(g.s, g.it) ELSE g.s, g.it)
     /\ ans' = [ans EXCEPT ![w] = Answer("delete", k, IF same THEN "DELETED"
                                ELSE IF hit THEN "EXISTS" ELSE "NOT_FOUND", <<>>, cas)]
     /\ Quiet /\ UNCHANGED <<c, ilock>>

TouchCmd(w, k, ttl) ==
  LET r == do_item_touch(m, k, w, realtime(ttl))
  IN /\ Begins(w, "touch") /\ Free(k)
     /\ m' = r.s
     /\ ans' = [ans EXCEPT ![w] = Answer("touch", k,
                    IF r.it = NULL THEN "NOT_FOUND" ELSE "TOUCHED", <<>>, 0)]
     /\ c' = IF r.it = NULL THEN c
             ELSE [c EXCEPT ![w] = [Idle EXCEPT !.pc = "drop", !.key = k, !.it = r.it]]
     /\ Quiet /\ UNCHANGED ilock

\* flush_all takes no lock: oldest_live is written first, then oldest_cas.
FlushLive(w, d) ==
  /\ Begins(w, "flush")
  /\ oldest_live' = now + d - 1
  /\ c' = [c EXCEPT ![w] = [Idle EXCEPT !.pc = "flush"]]
  /\ UNCHANGED <<m, now, oldest_cas, ilock, ans, menu>>

FlushCas(w) ==
  /\ c[w].pc = "flush"
  /\ IF oldest_live <= now
     THEN oldest_cas' = m.cas_id + 1 /\ m' = [m EXCEPT !.cas_id = @ + 1]
     ELSE UNCHANGED <<oldest_cas, m>>
  /\ ans' = [ans EXCEPT ![w] = Answer("flush", NULL, "OK", <<>>, 0)]
  /\ c' = [c EXCEPT ![w] = Idle]
  /\ UNCHANGED <<now, oldest_live, ilock, cmds, menu>>

-----------------------------------------------------------------------------
(* Time, and the background threads *)

Background == UNCHANGED <<oldest_live, oldest_cas, ilock, c, ans, cmds, menu>>

\* clock_handler
Tick == "tick" \in menu.ops /\ now < MaxTime /\ now' = now + 1 /\ UNCHANGED m /\ Background

\* One call of lru_pull_tail by lru_maintainer_juggle.
Juggle(l, over, busy) ==
  /\ "juggle" \in menu.ops
  /\ m' = lru_pull_tail(m, l, LRU_PULL_ONLY, over, Locked \cup busy).s
  /\ m' # m
  /\ Background /\ UNCHANGED now

\* One entry of the bump buffer of w, by lru_maintainer_bumps.
Bump(w) ==
  /\ m.bump[w] # <<>>
  /\ LET i == Head(m.bump[w])
     IN /\ Free(m.it[i].key)
        /\ m' = [do_item_remove(do_item_update(m, i), i) EXCEPT !.bump[w] = Tail(@)]
  /\ Background /\ UNCHANGED now

\* The crawler at item i, which it only evaluates when nobody else refers to it.
Crawl(i) ==
  /\ "crawl" \in menu.ops
  /\ Has(m, i, "LINKED") /\ Free(m.it[i].key)
  /\ m.it[i].refcount = 1 /\ Dead(m, i)
  /\ m' = do_item_remove(do_item_unlink(refcount_incr(m, i), i), i)
  /\ Background /\ UNCHANGED now

CacheCommand(w) ==
  \/ \E op \in {"get", "gets", "gat"}, k \in Keys, ttl \in Expiries : GetCmd(w, op, k, ttl)
  \/ \E comm \in StorageComms, k \in Keys, ttl \in Expiries, cas \in CasIds :
       UpdateCmd(w, comm, k, ttl, cas)
  \/ \E op \in {"incr", "decr"}, k \in Keys, cas \in CasIds, fits \in BOOLEAN :
       DeltaCmd(w, op, k, cas, fits)
  \/ \E k \in Keys, cas \in CasIds : DeleteCmd(w, k, cas)
  \/ \E k \in Keys, ttl \in Expiries : TouchCmd(w, k, ttl)
  \/ \E d \in FlushDelays : FlushLive(w, d)

CacheStep(w) ==
  \/ Reply(w) \/ Drop(w) \/ NreadDone(w) \/ NreadBad(w) \/ CopyBegin(w)
  \/ AllocTake(w) \/ AllocFail(w) \/ OomGet(w) \/ OomUnlink(w) \/ FlushCas(w)
  \/ \E busy \in SUBSET Keys, over \in BOOLEAN : AllocPull(w, busy, over)

CacheDone == cmds = menu.max /\ (\A w \in Workers : c[w].pc = "idle") /\ UNCHANGED cacheVars

CacheNext ==
  \/ \E w \in Workers : CacheCommand(w) \/ CacheStep(w) \/ Bump(w)
  \/ Tick
  \/ \E l \in LRUs, over \in BOOLEAN, busy \in SUBSET Keys : Juggle(l, over, busy)
  \/ \E i \in Items : Crawl(i)
  \/ CacheDone

CacheSpec == CacheInit /\ [][CacheNext]_cacheVars

-----------------------------------------------------------------------------
(* Properties *)

\* What a client can see of the memory.
Visible ==
  [k \in Keys |-> LET i == assoc_find(m, k)
                  IN IF i = NULL \/ (i # NULL /\ (item_is_flushed(m, i) \/ Expired(m, i))) THEN NULL
                     ELSE [val |-> m.it[i].val, cas |-> m.it[i].cas]]

\* Whether there are counters in this behaviour: only incr and decr write to an
\* item that they have replaced, while a gets may be answering from it.
Counting == {"incr", "decr"} \cap menu.ops # {}

\* What the clients were told; beside counters, nothing is said of the ids that
\* gets tells (CasWithinOne says what is true of them).
Replies ==
  [w \in Workers |->
    LET a == IF c[w].pc = "found" THEN Found(w) ELSE ans[w]
    IN IF a.op = "gets" /\ Counting THEN [a EXCEPT !.cas = NULL] ELSE a]

KV == INSTANCE KvSpec WITH store <- Visible, last <- m.cas_id, reply <- Replies

\* ImplementsKv: to its clients the cache is a key-value store that may lose
\* keys and does each command at one instant (KvSpec): whatever workers,
\* maintainer, crawler and clock do in between, each answer fits the contents
\* at one instant of the command.  Nothing comes back that was lost, with one
\* exception: an append, a prepend or an incr that allocates and during which
\* its item expires or is flushed stores the value that was gone, with a new
\* time.  So it is claimed where these commands are kept apart from the clock
\* and from flush_all, as the menus of MemCache.cfg do.
ImplementsKv == KV!KvSpec

\* The references to item i that are not the hash table's: those commands hold
\* and those of the bump buffers.
Holders(i) ==
  Cardinality({w \in Workers : c[w].it = i}) + Cardinality({w \in Workers : c[w].old = i})
  + Cardinality({x \in Workers \X (1 .. BumpMax) :
                   x[2] <= Len(m.bump[x[1]]) /\ m.bump[x[1]][x[2]] = i})

\* RefcountExact: a chunk's reference count is the number of references there
\* are, so no chunk that anything refers to is free and none leaks; what is
\* linked is in the hash table once, with a key of its own, and in its queue;
\* none of the assertions on the life cycle of items fails.
RefcountExact ==
  /\ m.failed = "none"
  /\ \A i \in Items :
      /\ m.it[i].refcount = Holders(i) + (IF Has(m, i, "LINKED") THEN 1 ELSE 0)
      /\ Has(m, i, "SLABBED") <=> m.it[i].refcount = 0
      /\ Has(m, i, "LINKED") <=> i \in m.assoc
      /\ \A j \in m.assoc : i \in m.assoc /\ m.it[i].key = m.it[j].key => i = j
      /\ \A l \in LRUs : Cardinality({n \in DOMAIN m.q[l] : m.q[l][n] = i})
                          = IF i \in m.assoc /\ m.it[i].lru = l THEN 1 ELSE 0

\* ReaderStable: the data of an item that a get is sending, which is sent from
\* the item itself, does not change before the get drops its reference.
ReaderStable ==
  \A w \in Workers : c[w].comm \in {"get", "gets", "gat"} => m.it[c[w].it].val = c[w].val

\* CasIdentifies: a client that was told a value and its CAS id by gets holds
\* the id of that value only: while an item with this id is in the cache, it
\* has that value, so a cas with the id cannot overwrite anything else.  It
\* holds where nothing counts; with incr or decr it fails (MemCas.cfg), because
\* do_add_delta writes the new item's id to the one it replaced.
CasIdentifies ==
  \A w \in Workers : ans[w].op = "gets" /\ ans[w].res = "HIT" =>
    \A i \in m.assoc : m.it[i].key = ans[w].key /\ m.it[i].cas = ans[w].cas
                        => m.it[i].val = ans[w].val

\* CasWithinOne: what is true of every mix of commands.  The id a gets was told
\* is that of the value it was told, or of what a single incr or decr has made
\* of it: a cas with it overwrites at most one count, and no other store.
CasWithinOne ==
  \A w \in Workers : ans[w].op = "gets" /\ ans[w].res = "HIT" =>
    \A i \in m.assoc : m.it[i].key = ans[w].key /\ m.it[i].cas = ans[w].cas =>
      \/ m.it[i].val = ans[w].val
      \/ \E op \in {"incr", "decr"} \cap menu.ops : m.it[i].val = <<Delta(op, ans[w].val[1])>>

=============================================================================

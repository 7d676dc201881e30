------------------------------ MODULE MemSlabs ------------------------------
(***************************************************************************)
(* The slab allocator of memcached (slabs.c) and its page mover.  Workers  *)
(* allocate chunks, link items, read and remove them; the rebalance thread *)
(* empties the oldest page of one class, chunk by chunk, while they do,    *)
(* and gives it to another class or to the pool of free pages (class 0).   *)
(*                                                                         *)
(* slabs_lock is held inside an action, and by the mover between its look  *)
(* at a chunk's flags and its attempt at the item lock (pc "try").  Item   *)
(* locks are variables, one for each key.  A chunk's flags are             *)
(*   "free"     ITEM_SLABBED: on its class's free list                     *)
(*   "cleared"  ITEM_SLABBED|ITEM_FETCHED: taken by the mover              *)
(*   "fresh"    neither ITEM_SLABBED nor ITEM_LINKED                       *)
(*   "linked"   ITEM_LINKED                                                *)
(* Items of several chunks (ITEM_CHUNKED) are left out.                    *)
(***************************************************************************)
EXTENDS Integers, Sequences, SequencesExt

CONSTANTS
  Classes,    \* slab classes POWER_SMALLEST .. power_largest
  Pages,      \* pages malloc can return
  PerSlab,    \* chunks in a page
  MemLimit,   \* mem_limit, in pages
  Keys,
  Workers,
  Sizes,      \* the classes of the items that are stored
  Sources,    \* classes pages are moved from
  Warm,       \* the pages each class has got already, all their chunks free
  MaxLoops,   \* SLAB_MOVE_MAX_LOOPS, 1000 in the code
  MaxOps,     \* bound: commands
  MaxMoves,   \* bound: pages moved
  Mover,      \* the rebalance thread
  NULL

Pool == 0
Chunks == Pages \X (1 .. PerSlab)
ChunksOf(p) == {p} \X (1 .. PerSlab)

ASSUME MemSlabsAssumption ==
  /\ Classes \subseteq Nat \ {Pool} /\ Sources \subseteq Classes \cup {Pool}
  /\ Sizes \subseteq Classes
  /\ PerSlab \in Nat \ {0} /\ MemLimit \in Nat /\ MaxLoops \in Nat
  /\ MaxOps \in Nat /\ MaxMoves \in Nat
  /\ Warm \in [Classes \cup {Pool} -> Seq(Pages)]
  /\ Mover \notin Workers /\ NULL \notin Chunks \cup Keys \cup Workers \cup {Mover}

VARIABLES
  slab_list,   \* the pages of each class, oldest first
  slots,       \* the free list of each class
  it,          \* every chunk's flags, refcount and key
  table,       \* the hash table: the chunk a key is linked in
  lock,        \* item locks
  wk,          \* the workers
  ops,         \* commands so far
  rb           \* slab_rebal, slab_rebalance_signal and the thread's pc

vars == <<slab_list, slots, it, table, lock, wk, ops, rb>>

Blank == [flags |-> "none", ref |-> 0, key |-> NULL]
Idle == [pc |-> "idle", op |-> NULL, key |-> NULL, it |-> NULL, own |-> NULL]
Asleep == [pc |-> "wait", signal |-> 0, src |-> Pool, dst |-> Pool, page |-> NULL, pos |-> 1,
           busy |-> FALSE, loops |-> 0, done |-> FALSE, new |-> NULL]

\* The chunks of a page in the order a new page puts them on the free list.
PageSeq(p) == [n \in 1 .. PerSlab |-> <<p, PerSlab + 1 - n>>]

\* A server that has held items before.
Init ==
  /\ slab_list = Warm
  /\ slots = [k \in Classes |-> FlattenSeq([n \in DOMAIN Warm[k] |-> PageSeq(Warm[k][n])])]
  /\ it = [c \in Chunks |->
             IF \E k \in Classes : c[1] \in Range(Warm[k]) THEN [Blank EXCEPT !.flags = "free"] ELSE Blank]
  /\ table = [k \in Keys |-> NULL] /\ lock = [k \in Keys |-> NULL]
  /\ wk = [w \in Workers |-> Idle] /\ ops = 0
  /\ rb = [m |-> Asleep, moves |-> 0]

-----------------------------------------------------------------------------
(* The allocator.  mem is the part of the state slabs_lock protects. *)

mem == [list |-> slab_list, slots |-> slots, it |-> it]
MemIs(m) == slab_list' = m.list /\ slots' = m.slots /\ it' = m.it

\* The class whose free list a chunk belongs to.
ClassOf(m, c) == CHOOSE k \in Classes : \E n \in DOMAIN m.list[k] : m.list[k][n] = c[1]

Malloced(m) == {p \in Pages : \E k \in DOMAIN m.list : \E n \in DOMAIN m.list[k] : m.list[k][n] = p}

do_slabs_free(m, c, k) ==
  [m EXCEPT !.it[c] = [@ EXCEPT !.flags = "free"], !.slots[k] = <<c>> \o @]

\* split_slab_page_into_freelist, after memset: the last chunk is the list's head.
Split(m, p, k) ==
  [m EXCEPT !.it = [c \in Chunks |-> IF c[1] = p THEN [Blank EXCEPT !.flags = "free"] ELSE @[c]],
            !.slots[k] = PageSeq(p) \o @,
            !.list[k] = Append(@, p)]

\* The pool's last page, or else one from malloc; none over the limit, except
\* a class's first.
do_slabs_newslab(m, k) ==
  LET pool == m.list[Pool]
      unused == Pages \ Malloced(m)
  IN IF \/ Cardinality(Malloced(m)) + 1 > MemLimit /\ m.list[k] # <<>> /\ pool = <<>>
        \/ pool = <<>> /\ unused = {}
     THEN m
     ELSE IF pool # <<>> THEN Split([m EXCEPT !.list[Pool] = Front(@)], Last(pool), k)
          ELSE Split(m, CHOOSE p \in unused : \A q \in unused : p <= q, k)

Popped(m, k) ==
  [m EXCEPT !.slots[k] = Tail(@),
            !.it[Head(m.slots[k])] = [flags |-> "fresh", ref |-> 1, key |-> NULL]]

\* The memory to take a chunk of class k from.
Room(m, k) == IF m.slots[k] = <<>> THEN do_slabs_newslab(m, k) ELSE m

SlabsLockFree == rb.m.pc # "try"

-----------------------------------------------------------------------------
(* Workers *)

Worker(w, x) == wk' = [wk EXCEPT ![w] = x]
IsAt(w, pc) == wk[w].pc = pc

Begun(op, k) == [Idle EXCEPT !.op = op, !.key = k]

\* A set begins with slabs_alloc, of class n; without memory it is given up.
do_slabs_alloc(w, n, k) ==
  LET m == Room(mem, n)
  IN /\ IsAt(w, "idle") /\ ops < MaxOps /\ SlabsLockFree
     /\ ops' = ops + 1
     /\ IF m.slots[n] = <<>> THEN MemIs(m) /\ UNCHANGED wk
        ELSE MemIs(Popped(m, n)) /\ Worker(w, [Begun("set", k) EXCEPT !.pc = "key", !.it = Head(m.slots[n])])
     /\ UNCHANGED <<table, lock, rb>>

\* A get or delete begins with item_lock.
Command(w, op, k) ==
  /\ IsAt(w, "idle") /\ ops < MaxOps /\ lock[k] = NULL
  /\ ops' = ops + 1
  /\ lock' = [lock EXCEPT ![k] = w]
  /\ Worker(w, [Begun(op, k) EXCEPT !.pc = "locked"])
  /\ UNCHANGED <<slab_list, slots, it, table, rb>>

\* do_item_alloc writes the key, without any lock.
WriteKey(w) ==
  /\ IsAt(w, "key")
  /\ it' = [it EXCEPT ![wk[w].it].key = wk[w].key]
  /\ Worker(w, [wk[w] EXCEPT !.pc = "lock"])
  /\ UNCHANGED <<slab_list, slots, table, lock, rb, ops>>

item_lock(w) ==
  /\ IsAt(w, "lock") /\ lock[wk[w].key] = NULL
  /\ lock' = [lock EXCEPT ![wk[w].key] = w]
  /\ Worker(w, [wk[w] EXCEPT !.pc = "locked"])
  /\ UNCHANGED <<slab_list, slots, it, table, rb, ops>>

\* do_item_unlink and do_item_remove of c: the flag, and one reference less.
Unlinked(items, c) == [items EXCEPT ![c].flags = "fresh", ![c].ref = @ - 1]

\* item_unlock.  A set that has stored its item locks it again for item_remove.
Unlock(w, x) ==
  /\ lock' = [lock EXCEPT ![x.key] = NULL]
  /\ Worker(w, IF x.own = NULL THEN Idle
               ELSE [x EXCEPT !.pc = "lock", !.op = "release", !.it = x.own, !.own = NULL])

\* Worker w, now x, has dropped a reference to c: it frees the last, else it unlocks.
Dropped(w, x, items, c) ==
  IF c # NULL /\ items[c].ref = 0
  THEN Worker(w, [x EXCEPT !.pc = "free", !.it = c]) /\ UNCHANGED lock
  ELSE Unlock(w, x)

\* do_store_item: the new item is linked, in place of the old if there is one;
\* do_item_link takes a reference, and the command keeps its own.
Store(w) ==
  LET x == wk[w]
      old == table[x.key]
      items == IF old = NULL THEN it ELSE Unlinked(it, old)
  IN /\ IsAt(w, "locked") /\ x.op = "set"
     /\ it' = [items EXCEPT ![x.it].flags = "linked", ![x.it].ref = @ + 1]
     /\ table' = [table EXCEPT ![x.key] = x.it]
     /\ Dropped(w, [x EXCEPT !.own = x.it], items, old)
     /\ UNCHANGED <<slab_list, slots, rb, ops>>

\* do_item_get and do_item_unlink; lru_pull_tail evicts the same way.
Delete(w) ==
  LET x == wk[w]
      old == table[x.key]
  IN /\ IsAt(w, "locked") /\ x.op = "delete"
     /\ it' = IF old = NULL THEN it ELSE Unlinked(it, old)
     /\ table' = [table EXCEPT ![x.key] = NULL]
     /\ Dropped(w, x, it', old)
     /\ UNCHANGED <<slab_list, slots, rb, ops>>

\* do_item_get: the item is sent without its lock, with a reference.
Get(w) ==
  LET x == wk[w]
      c == table[x.key]
  IN /\ IsAt(w, "locked") /\ x.op = "get"
     /\ it' = IF c = NULL THEN it ELSE [it EXCEPT ![c].ref = @ + 1]
     /\ Worker(w, IF c = NULL THEN Idle ELSE [x EXCEPT !.pc = "reading", !.it = c])
     /\ lock' = [lock EXCEPT ![x.key] = NULL]
     /\ UNCHANGED <<slab_list, slots, table, rb, ops>>

\* The answer is sent: item_remove.
Sent(w) ==
  /\ IsAt(w, "reading")
  /\ Worker(w, [wk[w] EXCEPT !.pc = "lock", !.op = "release"])
  /\ UNCHANGED <<slab_list, slots, it, table, lock, rb, ops>>

Release(w) ==
  LET x == wk[w]
  IN /\ IsAt(w, "locked") /\ x.op = "release"
     /\ it' = [it EXCEPT ![x.it].ref = @ - 1]
     /\ Dropped(w, x, it', x.it)
     /\ UNCHANGED <<slab_list, slots, table, rb, ops>>

\* item_free: slabs_free, with the item lock still held.
Free(w) ==
  LET x == wk[w]
  IN /\ IsAt(w, "free") /\ SlabsLockFree
     /\ MemIs(do_slabs_free(mem, x.it, ClassOf(mem, x.it)))
     /\ Unlock(w, x)
     /\ UNCHANGED <<table, rb, ops>>

WorkerStep(w) ==
  \/ WriteKey(w) \/ item_lock(w) \/ Store(w) \/ Delete(w) \/ Get(w) \/ Sent(w) \/ Release(w) \/ Free(w)

-----------------------------------------------------------------------------
(* The page mover *)

Rebal(m) == rb' = [rb EXCEPT !.m = m]
At(pc) == rb.m.pc = pc

\* do_slabs_reassign: the rebalance thread gives slabs_rebalance_lock only
\* when it sleeps, and otherwise the answer is REASSIGN_RUNNING.
slabs_reassign(src, dst) ==
  /\ At("wait") /\ rb.m.signal = 0 /\ rb.moves < MaxMoves
  /\ src # dst /\ Len(slab_list[src]) >= 2
  /\ rb' = [m |-> [Asleep EXCEPT !.pc = "top", !.signal = 1, !.src = src, !.dst = dst],
            moves |-> rb.moves + 1]
  /\ UNCHANGED <<slab_list, slots, it, table, lock, wk, ops>>

\* The class may have lost pages since; one from the pool needs no moving.
slab_rebalance_start ==
  /\ At("top") /\ rb.m.signal = 1
  /\ Rebal(IF Len(slab_list[rb.m.src]) >= 2
           THEN [rb.m EXCEPT !.signal = 2, !.page = Head(slab_list[rb.m.src]), !.done = (rb.m.src = Pool),
                             !.pc = IF rb.m.src = Pool THEN "finish" ELSE "top"]
           ELSE Asleep)
  /\ UNCHANGED <<slab_list, slots, it, table, lock, wk, ops>>

Here == <<rb.m.page, rb.m.pos>>
InPage(c) == c[1] = rb.m.page
Clear(i) == [i EXCEPT !.flags = "cleared", !.ref = 0]

\* Mutation of Again: a busy chunk behind the position is not remembered.
AgainNever(m, busy) == FALSE
Again(m, busy) == m.busy \/ busy

\* Mutation of NewRound: busy_items is not reset.
NewRoundBusy(m) == [m EXCEPT !.pos = 1, !.loops = IF @ > MaxLoops THEN @ ELSE @ + 1]
NewRound(m) == [m EXCEPT !.pos = 1, !.busy = FALSE, !.loops = IF @ > MaxLoops THEN @ ELSE @ + 1]

\* The end of the loop's body: the next chunk, or another round if some were busy.
Passed(busy) ==
  LET m == [rb.m EXCEPT !.busy = Again(rb.m, busy), !.pos = @ + 1, !.pc = "top", !.new = NULL]
  IN IF m.pos <= PerSlab THEN m
     ELSE IF m.busy THEN NewRound(m)
          ELSE [m EXCEPT !.done = TRUE, !.pc = "finish"]

Looking == At("top") /\ rb.m.signal = 2

\* slab_rebalance_cut_free, and chunks that were taken before.
MoveFromSlab ==
  /\ Looking /\ it[Here].flags \in {"cleared", "free"}
  /\ it' = [it EXCEPT ![Here] = Clear(@)]
  /\ slots' = [slots EXCEPT ![rb.m.src] = SelectSeq(@, LAMBDA c : c # Here)]
  /\ Rebal(Passed(FALSE))
  /\ UNCHANGED <<slab_list, table, lock, wk, ops>>

\* Neither flag: the item is on its way to being linked or freed.
MoveBusy ==
  /\ Looking /\ it[Here].flags = "fresh"
  /\ Rebal(Passed(TRUE))
  /\ UNCHANGED <<slab_list, slots, it, table, lock, wk, ops>>

SawLinked ==
  /\ Looking /\ it[Here].flags = "linked"
  /\ Rebal([rb.m EXCEPT !.pc = "try"])
  /\ UNCHANGED <<slab_list, slots, it, table, lock, wk, ops>>

MoveLocked ==
  /\ At("try") /\ lock[it[Here].key] # NULL
  /\ Rebal(Passed(TRUE))
  /\ UNCHANGED <<slab_list, slots, it, table, lock, wk, ops>>

\* Mutation of Exclusive: any linked item may be moved.
ExclusiveNot(i) == i.flags = "linked"
\* The flag is read again under the item lock; 2 references with the mover's.
Exclusive(i) == i.flags = "linked" /\ i.ref = 1

\* Busy, also under the lock; after many rounds the item is unlinked.
MoveReferenced ==
  LET i == it[Here]
      del == i.flags = "linked" /\ rb.m.loops > MaxLoops
  IN /\ At("try") /\ lock[i.key] = NULL /\ ~Exclusive(i)
     /\ it' = IF del THEN Unlinked(it, Here) ELSE it
     /\ table' = IF del THEN [table EXCEPT ![i.key] = NULL] ELSE table
     /\ Rebal(Passed(TRUE))
     /\ UNCHANGED <<slab_list, slots, lock, wk, ops>>

\* slab_rebalance_alloc: chunks of the page itself are cleared on the way.
FirstOutside(s) == SelectInSeq(s, LAMBDA c : ~InPage(c))
Within(s) == IF FirstOutside(s) = 0 THEN Len(s) ELSE FirstOutside(s) - 1
Reclaimed(s) == {s[n] : n \in 1 .. (IF Within(s) < PerSlab THEN Within(s) ELSE PerSlab)}
Found(s) == FirstOutside(s) \in 1 .. PerSlab

slab_rebalance_alloc ==
  LET s == slots[rb.m.src]
      cleared == [c \in Chunks |-> IF c \in Reclaimed(s) THEN Clear(it[c]) ELSE it[c]]
      rest == SelectSeq(s, LAMBDA c : c \notin Reclaimed(s))
  IN IF Found(s)
     THEN /\ it' = [cleared EXCEPT ![s[FirstOutside(s)]] = [flags |-> "fresh", ref |-> 1, key |-> NULL],
                                   ![Here].ref = @ + 1]
          /\ slots' = [slots EXCEPT ![rb.m.src] = Tail(rest)]
          /\ Rebal([rb.m EXCEPT !.pc = "rescue", !.new = s[FirstOutside(s)]])
     ELSE /\ it' = [cleared EXCEPT ![Here].ref = @ + 1]
          /\ slots' = [slots EXCEPT ![rb.m.src] = rest]
          /\ Rebal([rb.m EXCEPT !.pc = "evict"])

\* An item nobody else holds: it is to be copied if it lives and there is room.
MoveFromLru(expired) ==
  LET i == it[Here]
  IN /\ At("try") /\ lock[i.key] = NULL /\ Exclusive(i)
     /\ lock' = [lock EXCEPT ![i.key] = Mover]
     /\ IF expired
        THEN /\ it' = [it EXCEPT ![Here].ref = @ + 1]
             /\ Rebal([rb.m EXCEPT !.pc = "evict"]) /\ UNCHANGED slots
        ELSE slab_rebalance_alloc
     /\ UNCHANGED <<slab_list, table, wk, ops>>

\* memcpy and do_item_replace; the old chunk is cleared.
Rescue ==
  LET k == it[Here].key
  IN /\ At("rescue")
     /\ it' = [it EXCEPT ![rb.m.new] = [flags |-> "linked", ref |-> 1, key |-> k], ![Here] = Clear(@)]
     /\ table' = [table EXCEPT ![k] = rb.m.new]
     /\ lock' = [lock EXCEPT ![k] = NULL]
     /\ Rebal(Passed(FALSE))
     /\ UNCHANGED <<slab_list, slots, wk, ops>>

\* do_item_unlink and slabs_free; the chunk is cut from the free list later.
Evict ==
  LET k == it[Here].key
      m == do_slabs_free([mem EXCEPT !.it = Unlinked(it, Here)], Here, rb.m.src)
  IN /\ At("evict")
     /\ MemIs(m)
     /\ table' = [table EXCEPT ![k] = NULL]
     /\ lock' = [lock EXCEPT ![k] = NULL]
     /\ Rebal(Passed(TRUE))
     /\ UNCHANGED <<wk, ops>>

\* memory_release: pages of the pool go back while there are too many.
Kept(m) ==
  LET over == Cardinality(Malloced(m)) - MemLimit
      n == Len(m.list[Pool])
  IN [m EXCEPT !.list[Pool] = SubSeq(@, 1, IF over <= 0 THEN n ELSE IF over > n THEN 0 ELSE n - over)]

\* The source's oldest page becomes the destination's newest.  A count of pages
\* that is 0 already wraps; the list is then left alone here.
slab_rebalance_finish ==
  LET m == [mem EXCEPT !.list[rb.m.src] = IF @ = <<>> THEN @ ELSE Tail(@)]
  IN /\ At("finish")
     /\ MemIs(IF rb.m.dst = Pool THEN Kept([m EXCEPT !.list[Pool] = Append(@, rb.m.page)])
              ELSE Split(m, rb.m.page, rb.m.dst))
     /\ Rebal(Asleep)
     /\ UNCHANGED <<table, lock, wk, ops>>

RebalanceThread ==
  \/ slab_rebalance_start \/ MoveFromSlab \/ MoveBusy \/ SawLinked \/ MoveLocked \/ MoveReferenced
  \/ \E expired \in BOOLEAN : MoveFromLru(expired)
  \/ Rescue \/ Evict \/ slab_rebalance_finish

Next ==
  \/ \E w \in Workers : WorkerStep(w)
  \/ \E w \in Workers, k \in Keys, op \in {"get", "delete"} : Command(w, op, k)
  \/ \E w \in Workers, n \in Sizes, k \in Keys : do_slabs_alloc(w, n, k)
  \/ \E src \in Sources, dst \in Classes \cup {Pool} : slabs_reassign(src, dst)
  \/ RebalanceThread

\* Threads run and answers are sent; commands and moves need not come.  A worker
\* that waits for slabs_lock or an item lock gets it in the end: the mover sleeps
\* after every busy chunk.
Fairness == WF_vars(RebalanceThread) /\ \A w \in Workers : SF_vars(WorkerStep(w))
Spec == Init /\ [][Next]_vars /\ Fairness

-----------------------------------------------------------------------------
(* Properties *)

Held(c) == \/ \E w \in Workers : c \in {wk[w].it, wk[w].own}
           \/ rb.m.new = c \/ (rb.m.pc \in {"try", "rescue", "evict"} /\ Here = c)

(* No chunk is lost and none is in two places, whatever workers do while a *)
(* page is emptied: a page is in one list of pages; a chunk of a class is  *)
(* once on that class's free list, or it is a linked item found under its  *)
(* key, or a thread holds it, or the mover has cleared it, and then it is  *)
(* of the page that is being moved.                                        *)
ChunkOnce ==
  /\ \A p \in Pages : Cardinality({<<k, n>> \in (Classes \cup {Pool}) \X (1 .. Cardinality(Pages)) :
                                     n \in DOMAIN slab_list[k] /\ slab_list[k][n] = p}) <= 1
  /\ \A k \in Classes : \A n \in DOMAIN slab_list[k] : \A c \in ChunksOf(slab_list[k][n]) :
       /\ Cardinality({j \in DOMAIN slots[k] : slots[k][j] = c}) = IF it[c].flags = "free" THEN 1 ELSE 0
       /\ it[c].flags = "cleared" => InPage(c)
       /\ it[c].flags = "linked" => table[it[c].key] = c
       /\ it[c].flags = "fresh" => Held(c)

(* "At this point the stolen slab is completely clear": when the page is   *)
(* handed over, none of its chunks is linked, free for allocation or in a  *)
(* worker's hands, although workers went on using the page while it was    *)
(* being emptied and chunks behind the mover became free again.            *)
PageClear ==
  At("finish") =>
    /\ \A k \in Classes : \A n \in DOMAIN slots[k] : ~InPage(slots[k][n])
    /\ \A k \in Keys : table[k] # NULL => ~InPage(table[k])
    /\ \A w \in Workers, c \in ChunksOf(rb.m.page) : c \notin {wk[w].it, wk[w].own}

(* A worker sends its answer from the item it looked up: the mover neither *)
(* moves, frees nor hands out a chunk somebody holds a reference to.       *)
ReaderIntact ==
  \A w \in Workers : IsAt(w, "reading") =>
    /\ it[wk[w].it].flags \in {"linked", "fresh"}
    /\ it[wk[w].it].key = wk[w].key
    /\ it[wk[w].it].ref > 0

(* A move that was accepted ends: busy chunks are waited for, and items    *)
(* that are always referenced are unlinked after MaxLoops rounds.          *)
MoveEnds == (rb.m.signal # 0) ~> (rb.m.signal = 0)
=============================================================================

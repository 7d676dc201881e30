---------------------------- MODULE MemCacheProof ----------------------------
(* Proofs about MemCache, for any number of workers, keys, chunks and         *)
(* commands: whatever the workers, the maintainer, the crawler and the clock  *)
(* do, the reference count of a chunk is the number of references there are,  *)
(* the value that a get is sending stays as it was, and the CAS id that a     *)
(* gets tells is the id of the value it tells or of one count of it.          *)
EXTENDS MemCache, FiniteSetTheorems, SequenceTheorems, TLAPS

(***************************************************************************)
(* Shapes                                                                  *)
(***************************************************************************)

Val == Seq(Nat)

Item == [key : Keys \cup {NULL}, val : Val, cas : Nat, exptime : Int, time : Int,
         refcount : Nat, flags : SUBSET Flags, lru : LRUs \cup {NULL}]

\* The assertions that may fail.
Faults == {"none", "assoc_delete", "do_item_link_q", "item_free", "do_item_remove", "do_item_link"}

Memory == [it : [Items -> Item], assoc : SUBSET Items, q : [LRUs -> Seq(Items)],
           bump : [Workers -> Seq(Items)], cas_id : Nat, failed : Faults]

Pcs == {"idle", "found", "drop", "alloc", "nread", "copy", "delta", "oom", "unlink", "flush"}
GetComms == {"get", "gets", "gat"}
Comms == StorageComms \cup GetComms \cup {"incr", "decr"}

Command == [pc : Pcs, comm : Comms \cup {NULL}, key : Keys \cup {NULL}, val : Val, cas : Nat,
            exptime : Int, it : Items \cup {NULL}, old : Items \cup {NULL}, tries : Nat]

TypeInv ==
  /\ m \in Memory
  /\ \A w \in Workers : Len(m.bump[w]) <= BumpMax
  /\ now \in Nat
  /\ c \in [Workers -> Command]
  /\ DOMAIN ilock = Keys
  /\ cmds \in Nat /\ menu \in Menus
  /\ DOMAIN ans = Workers

(***************************************************************************)
(* The life of an item: how often it is referred to, ext[i] times from     *)
(* outside the hash table, tells whether it is free; what is linked is in  *)
(* the hash table under a key of its own and in one queue once.            *)
(***************************************************************************)

Linked(s, i) == IF Has(s, i, "LINKED") THEN 1 ELSE 0

\* The queues q hold the items in A, each once and where L says.
Queues(q, A, L) ==
  /\ q \in [LRUs -> Seq(Items)]
  /\ \A l \in LRUs : IsInjective(q[l]) /\ Range(q[l]) = {i \in A : L[i] = l}

\* The queue that each item says it belongs to.
QueueFor(s) == [i \in Items |-> s.it[i].lru]

\* What an item says of itself, and how often it is referred to, fit together.
LifeOf(s, ext, i) ==
  /\ s.it[i].refcount = ext[i] + Linked(s, i)
  /\ Has(s, i, "SLABBED") <=> s.it[i].refcount = 0
  /\ Has(s, i, "LINKED") <=> i \in s.assoc
  /\ ~Has(s, i, "SLABBED") => s.it[i].lru \in LRUs

Life(s, ext) ==
  /\ s.failed = "none"
  /\ \A i \in Items : LifeOf(s, ext, i)
  /\ \A i \in s.assoc : s.it[i].key \in Keys /\ \A j \in s.assoc : s.it[i].key = s.it[j].key => i = j
  /\ Queues(s.q, s.assoc, QueueFor(s))

\* The references that command x has to item i, and those in bump buffers b.
Ref(x, i) == (IF x.it = i THEN 1 ELSE 0) + (IF x.old = i THEN 1 ELSE 0)

Entries(b, i) == {x \in Workers \X (1 .. BumpMax) : x[2] <= Len(b[x[1]]) /\ b[x[1]][x[2]] = i}

ItHolders(cc, i) == {v \in Workers : cc[v].it = i}
OldHolders(cc, i) == {v \in Workers : cc[v].old = i}

HoldersOf(cc, b, i) ==
  Cardinality(ItHolders(cc, i)) + Cardinality(OldHolders(cc, i)) + Cardinality(Entries(b, i))

RefsOf(cc, b) == [i \in Items |-> HoldersOf(cc, b, i)]

Refs == RefsOf(c, m.bump)

(***************************************************************************)
(* What the commands hold                                                  *)
(***************************************************************************)

\* The command x of worker w fits memory s and the locks lk: it has a reference
\* to it, to old or to neither as its step tells, and to items under its key;
\* what a value is read into is not in the hash table; what is about to be
\* replaced is, and stays there as its key is locked; and the value that a get
\* sends is as it was found.
Fits(x, w, s, lk) ==
  /\ x.it # NULL <=> x.pc \in {"found", "nread", "copy", "unlink", "drop"}
  /\ x.old # NULL <=> x.pc \in {"copy", "delta"}
  /\ x.pc \notin {"idle", "flush"} => x.key \in Keys
  /\ x.it # NULL => s.it[x.it].key = x.key
  /\ x.old # NULL => s.it[x.old].key = x.key /\ x.old \in s.assoc /\ lk[x.key] = w
  /\ x.pc = "nread" => x.it \notin s.assoc
  /\ x.comm \in GetComms => x.pc \in {"found", "drop"} /\ s.it[x.it].val = x.val
  /\ x.pc = "delta" => x.comm \in {"incr", "decr"}

\* What a value is read into belongs to one command of those in cc.
Alone(cc) ==
  \A w \in Workers : cc[w].pc = "nread" =>
    \A v \in Workers : v # w => cc[v].it # cc[w].it /\ cc[v].old # cc[w].it

AllFit == \A w \in Workers : Fits(c[w], w, m, ilock)

IInv == TypeInv /\ Life(m, Refs) /\ AllFit /\ Alone(c)

-----------------------------------------------------------------------------
(* Sequences and counting *)

\* Taking the only occurrence of an element out of a sequence.
LEMMA RemoveOnce ==
  ASSUME NEW S, NEW q \in Seq(S), IsInjective(q), NEW i \in Range(q)
  PROVE  /\ RemoveFirst(q, i) \in Seq(S) /\ IsInjective(RemoveFirst(q, i))
         /\ Range(RemoveFirst(q, i)) = Range(q) \ {i}
<1>1. PICK n \in 1 .. Len(q) : q[n] = i
  BY LenProperties DEF Range
<1>2. /\ Len(q) \in Nat /\ DOMAIN q = 1 .. Len(q)
      /\ \A j \in 1 .. Len(q) : q[j] \in S /\ (q[j] = i => j = n)
  BY <1>1, LenProperties, ElementOfSeq DEF IsInjective
<1> DEFINE I == {j \in 1 .. Len(q) : q[j] = i}
<1>3. I = {n} /\ Min(I) = n
  <2>1. I = {n}
    BY <1>1, <1>2
  <2>2. Min({n}) = n
    BY <1>1 DEF Min
  <2> QED BY <2>1, <2>2
<1>4. RemoveFirst(q, i) = SubSeq(q, 1, n - 1) \o SubSeq(q, n + 1, Len(q))
  BY <1>1, <1>3 DEF RemoveFirst, SelectInSeq, RemoveAt
<1> HIDE DEF I
<1> DEFINE a == SubSeq(q, 1, n - 1)
           b == SubSeq(q, n + 1, Len(q))
           r == a \o b
<1>5. a \in Seq(S) /\ Len(a) = n - 1 /\ \A j \in 1 .. n - 1 : a[j] = q[j]
  <2>1. \A j \in 1 .. n - 1 : q[j] \in S
    BY <1>2
  <2> QED BY <2>1, <1>1, <1>2, SubSeqProperties
<1>6. b \in Seq(S) /\ Len(b) = Len(q) - n /\ \A j \in 1 .. Len(q) - n : b[j] = q[j + n]
  <2>1. \A j \in n + 1 .. Len(q) : q[j] \in S
    BY <1>1, <1>2
  <2>2. b \in Seq(S) /\ Len(b) = IF n + 1 <= Len(q) THEN Len(q) - (n + 1) + 1 ELSE 0
    BY <2>1, <1>1, <1>2, SubSeqProperties
  <2>3. \A j \in 1 .. Len(q) - (n + 1) + 1 : b[j] = q[n + 1 + j - 1]
    BY <2>1, <1>1, <1>2, SubSeqProperties
  <2> HIDE DEF b
  <2>4. Len(b) = Len(q) - n
    <3>1. Len(q) \in Nat /\ n \in 1 .. Len(q)
      BY <1>2
    <3>2. CASE n + 1 <= Len(q)
      BY <3>1, <3>2, <2>2
    <3>3. CASE ~(n + 1 <= Len(q))
      BY <3>1, <3>3, <2>2
    <3> QED BY <3>2, <3>3
  <2>5. ASSUME NEW j \in 1 .. Len(q) - n PROVE b[j] = q[j + n]
    <3>1. j \in 1 .. Len(q) - (n + 1) + 1 /\ n + 1 + j - 1 = j + n
      BY <1>1, <1>2
    <3> QED BY <3>1, <2>3
  <2> QED BY <2>2, <2>4, <2>5
<1> HIDE DEF a, b
<1>7. /\ r \in Seq(S) /\ Len(r) = Len(q) - 1 /\ DOMAIN r = 1 .. Len(q) - 1
      /\ \A j \in 1 .. Len(q) - 1 : r[j] = IF j < n THEN q[j] ELSE q[j + 1]
  <2>0. a \in Seq(S) /\ b \in Seq(S)
    BY <1>5, <1>6
  <2>1. /\ r \in Seq(S) /\ Len(r) = Len(a) + Len(b)
        /\ \A j \in 1 .. Len(a) + Len(b) : r[j] = IF j <= Len(a) THEN a[j] ELSE b[j - Len(a)]
    BY <2>0, ConcatProperties
  <2> HIDE DEF r
  <2>4. Len(r) = Len(q) - 1 /\ Len(a) + Len(b) = Len(q) - 1
    BY <2>1, <1>1, <1>2, <1>5, <1>6
  <2>2. \A j \in 1 .. Len(q) - 1 : r[j] = IF j <= n - 1 THEN a[j] ELSE b[j - (n - 1)]
    BY <2>1, <2>4, <1>5
  <2>3. ASSUME NEW j \in 1 .. Len(q) - 1 PROVE r[j] = IF j < n THEN q[j] ELSE q[j + 1]
    <3>1. CASE j < n
      BY <3>1, <2>2, <1>1, <1>2, <1>5
    <3>2. CASE ~(j < n)
      <4>1. j - (n - 1) \in 1 .. Len(q) - n /\ j - (n - 1) + n = j + 1
        BY <3>2, <1>1, <1>2
      <4> QED BY <4>1, <3>2, <2>2, <1>1, <1>2, <1>6
    <3> QED BY <3>1, <3>2
  <2> QED BY <2>1, <2>3, <2>4, LenProperties
<1> HIDE DEF r
<1>8. IsInjective(r)
  <2>1. \A j, k \in 1 .. Len(q) : q[j] = q[k] => j = k
    BY <1>2 DEF IsInjective
  <2>2. SUFFICES ASSUME NEW j \in 1 .. Len(q) - 1, NEW k \in 1 .. Len(q) - 1, r[j] = r[k] PROVE j = k
    BY <1>7 DEF IsInjective
  <2> DEFINE J == IF j < n THEN j ELSE j + 1
             K == IF k < n THEN k ELSE k + 1
  <2>3. J \in 1 .. Len(q) /\ K \in 1 .. Len(q) /\ r[j] = q[J] /\ r[k] = q[K]
    BY <1>1, <1>2, <1>7
  <2>4. J = K
    BY <2>1, <2>2, <2>3
  <2> QED BY <2>4, <1>1, <1>2
<1>9. Range(r) = Range(q) \ {i}
  <2>1. ASSUME NEW j \in 1 .. Len(q) - 1 PROVE r[j] \in Range(q) \ {i}
    <3> DEFINE J == IF j < n THEN j ELSE j + 1
    <3>1. J \in 1 .. Len(q) /\ J # n /\ r[j] = q[J]
      BY <1>1, <1>2, <1>7
    <3> QED BY <3>1, <1>2 DEF Range
  <2>2. ASSUME NEW j \in 1 .. Len(q), q[j] # i PROVE q[j] \in Range(r)
    <3> DEFINE J == IF j < n THEN j ELSE j - 1
    <3>1. J \in 1 .. Len(q) - 1 /\ q[j] = r[J]
      BY <2>2, <1>1, <1>2, <1>7
    <3> QED BY <3>1, <1>7 DEF Range
  <2> QED BY <2>1, <2>2, <1>2, <1>7 DEF Range
<1> QED BY <1>4, <1>7, <1>8, <1>9 DEF r, a, b

\* Putting an element that is not in a sequence in front of it.
LEMMA ConsOnce ==
  ASSUME NEW S, NEW q \in Seq(S), IsInjective(q), NEW i \in S, i \notin Range(q)
  PROVE  /\ <<i>> \o q \in Seq(S) /\ IsInjective(<<i>> \o q)
         /\ Range(<<i>> \o q) = Range(q) \cup {i}
<1> DEFINE r == <<i>> \o q
<1>1. /\ r \in Seq(S) /\ Len(q) \in Nat /\ DOMAIN q = 1 .. Len(q) /\ DOMAIN r = 1 .. Len(q) + 1
      /\ \A j \in 1 .. Len(q) + 1 : r[j] = IF j = 1 THEN i ELSE q[j - 1]
  <2>1. <<i>> \in Seq(S) /\ Len(<<i>>) = 1 /\ <<i>>[1] = i
    OBVIOUS
  <2>2. r \in Seq(S) /\ Len(r) = Len(q) + 1 /\ Len(q) \in Nat /\ DOMAIN q = 1 .. Len(q)
    BY <2>1, ConcatProperties, LenProperties
  <2>3. \A j \in 1 .. Len(q) + 1 : r[j] = IF j <= 1 THEN <<i>>[j] ELSE q[j - 1]
    BY <2>1, <2>2, ConcatProperties
  <2> QED BY <2>1, <2>2, <2>3, LenProperties
<1> HIDE DEF r
<1>2. IsInjective(r)
  <2>1. \A j, k \in 1 .. Len(q) : (q[j] = q[k] => j = k) /\ q[j] # i
    BY <1>1 DEF IsInjective, Range
  <2>2. SUFFICES ASSUME NEW j \in 1 .. Len(q) + 1, NEW k \in 1 .. Len(q) + 1, r[j] = r[k] PROVE j = k
    BY <1>1 DEF IsInjective
  <2>3. \A l \in 1 .. Len(q) + 1 : l # 1 => l - 1 \in 1 .. Len(q)
    BY <1>1
  <2>4. CASE j = 1 \/ k = 1
    BY <2>4, <1>1, <2>1, <2>2, <2>3
  <2>5. CASE j # 1 /\ k # 1
    <3>1. q[j - 1] = q[k - 1] /\ j - 1 \in 1 .. Len(q) /\ k - 1 \in 1 .. Len(q)
      BY <2>5, <1>1, <2>2, <2>3
    <3> QED BY <3>1, <2>1
  <2> QED BY <2>4, <2>5
<1>3. Range(r) = Range(q) \cup {i}
  <2>1. ASSUME NEW j \in 1 .. Len(q) + 1 PROVE r[j] \in Range(q) \cup {i}
    <3>1. j # 1 => j - 1 \in 1 .. Len(q)
      BY <1>1
    <3> QED BY <3>1, <1>1 DEF Range
  <2>2. ASSUME NEW j \in 1 .. Len(q) PROVE q[j] \in Range(r)
    <3>1. j + 1 \in 1 .. Len(q) + 1 /\ r[j + 1] = q[j]
      BY <1>1
    <3> QED BY <3>1, <1>1 DEF Range
  <2>3. i \in Range(r)
    BY <1>1 DEF Range
  <2> QED BY <2>1, <2>2, <2>3, <1>1 DEF Range
<1> QED BY <1>1, <1>2, <1>3 DEF r

-----------------------------------------------------------------------------
(* The functions of items.c, from memory to memory *)

\* t holds the items of s, but for item i.
Only(s, t, i) == \A j \in Items \ {i} : t.it[j] = s.it[j]

\* What names an item and what clients see of it is the same in s and t.
Same(s, t) ==
  /\ t.cas_id = s.cas_id
  /\ \A i \in Items : /\ t.it[i].key = s.it[i].key /\ t.it[i].val = s.it[i].val
                      /\ t.it[i].cas = s.it[i].cas

\* Where the queues put the items depends on nothing but what these say.
LEMMA QueuesAgree ==
  ASSUME NEW q, NEW A, NEW L, NEW K, Queues(q, A, L), \A i \in A : K[i] = L[i]
  PROVE  Queues(q, A, K)
<1>1. ASSUME NEW l PROVE {i \in A : L[i] = l} = {i \in A : K[i] = l}
  OBVIOUS
<1> QED BY <1>1 DEF Queues

\* Item i is as much linked and as much free as before, under the same key and
\* in the same queue, whatever else is written to it.
LEMMA SetItem ==
  ASSUME NEW s \in Memory, NEW ext \in [Items -> Nat], Life(s, ext),
         NEW i \in Items, NEW x \in Item, NEW n \in Nat,
         "LINKED" \in x.flags <=> Has(s, i, "LINKED"),
         x.refcount = n + (IF "LINKED" \in x.flags THEN 1 ELSE 0),
         "SLABBED" \in x.flags <=> x.refcount = 0,
         "SLABBED" \notin x.flags => x.lru \in LRUs,
         i \in s.assoc => x.key = s.it[i].key /\ x.lru = s.it[i].lru
  PROVE  /\ [s EXCEPT !.it[i] = x] \in Memory
         /\ Life([s EXCEPT !.it[i] = x], [ext EXCEPT ![i] = n])
<1> DEFINE t == [s EXCEPT !.it[i] = x]
           e == [ext EXCEPT ![i] = n]
<1>1. /\ t \in Memory /\ t.it[i] = x /\ Only(s, t, i)
      /\ t.assoc = s.assoc /\ t.q = s.q /\ t.failed = s.failed
  BY DEF Memory, Only
<1>2. e[i] = n /\ \A j \in Items \ {i} : e[j] = ext[j]
  OBVIOUS
<1> HIDE DEF t, e
<1>3. \A j \in Items : LifeOf(t, e, j)
  <2> TAKE j \in Items
  <2>1. CASE j = i
    BY <2>1, <1>1, <1>2 DEF Life, LifeOf, Linked, Has
  <2>2. CASE j # i
    BY <2>2, <1>1, <1>2 DEF Life, LifeOf, Linked, Has, Only
  <2> QED BY <2>1, <2>2
<1>4. \A j \in s.assoc : t.it[j].key = s.it[j].key /\ t.it[j].lru = s.it[j].lru
  BY <1>1 DEF Only, Memory
<1>5. \A j \in t.assoc : t.it[j].key \in Keys /\ \A k \in t.assoc : t.it[j].key = t.it[k].key => j = k
  BY <1>1, <1>4 DEF Life, LifeOf
<1>6. Queues(t.q, t.assoc, QueueFor(t))
  <2>1. \A j \in s.assoc : QueueFor(t)[j] = QueueFor(s)[j]
    BY <1>4 DEF QueueFor, Memory
  <2> QED BY <2>1, <1>1, QueuesAgree DEF Life, LifeOf
<1>7. Life(t, e)
  BY <1>1, <1>3, <1>5, <1>6 DEF Life, LifeOf
<1> QED BY <1>1, <1>7 DEF t, e

\* An item is found by its key, if one is linked under it.
LEMMA FindItem ==
  ASSUME NEW s \in Memory, NEW ext, Life(s, ext), NEW k
  PROVE  /\ assoc_find(s, k) # NULL =>
              assoc_find(s, k) \in s.assoc /\ assoc_find(s, k) \in Items /\ s.it[assoc_find(s, k)].key = k
         /\ \A i \in s.assoc : s.it[i].key = k => assoc_find(s, k) = i /\ i # NULL
<1> DEFINE found == {i \in s.assoc : s.it[i].key = k}
<1>1. assoc_find(s, k) = IF found = {} THEN NULL ELSE CHOOSE i \in found : TRUE
  BY DEF assoc_find
<1>2. s.assoc \subseteq Items /\ \A i \in Items : i # NULL
  BY MemCacheAssumption DEF Memory
<1>3. found # {} => (CHOOSE i \in found : TRUE) \in found
  OBVIOUS
<1>4. \A i, j \in found : i = j
  BY DEF Life, LifeOf
<1>5. ASSUME NEW i \in found PROVE assoc_find(s, k) = i
  BY <1>1, <1>3, <1>4
<1> QED BY <1>1, <1>2, <1>3, <1>5

\* A reference is taken to an item that is not free.
LEMMA IncrLife ==
  ASSUME NEW s \in Memory, NEW ext \in [Items -> Nat], Life(s, ext),
         NEW i \in Items, ~Has(s, i, "SLABBED")
  PROVE  /\ refcount_incr(s, i) \in Memory
         /\ Life(refcount_incr(s, i), [ext EXCEPT ![i] = ext[i] + 1])
         /\ Same(s, refcount_incr(s, i)) /\ Only(s, refcount_incr(s, i), i)
         /\ refcount_incr(s, i).assoc = s.assoc /\ refcount_incr(s, i).bump = s.bump
         /\ refcount_incr(s, i).q = s.q
         /\ refcount_incr(s, i).it[i].flags = s.it[i].flags /\ refcount_incr(s, i).it[i].lru = s.it[i].lru
<1> DEFINE x == [s.it[i] EXCEPT !.refcount = s.it[i].refcount + 1]
           t == refcount_incr(s, i)
<1>1. s.it[i] \in Item /\ s.it[i].refcount \in Nat
  BY DEF Memory, Item
<1>2. /\ x \in Item /\ x.refcount = s.it[i].refcount + 1 /\ x.flags = s.it[i].flags
      /\ x.key = s.it[i].key /\ x.lru = s.it[i].lru /\ x.val = s.it[i].val /\ x.cas = s.it[i].cas
  BY <1>1 DEF Item
<1>3. t = [s EXCEPT !.it[i] = x]
  BY DEF refcount_incr, Memory, Item
<1>4. /\ t.it[i] = x /\ Only(s, t, i) /\ t.assoc = s.assoc /\ t.bump = s.bump /\ t.q = s.q
      /\ t.cas_id = s.cas_id
  BY <1>3 DEF Memory, Only
<1> HIDE DEF x, t
<1>5. t \in Memory /\ Life(t, [ext EXCEPT ![i] = ext[i] + 1])
  <2>1. ext[i] + 1 \in Nat /\ x.refcount = ext[i] + 1 + (IF "LINKED" \in x.flags THEN 1 ELSE 0)
    BY <1>2 DEF Life, LifeOf, Linked, Has
  <2>2. /\ "LINKED" \in x.flags <=> Has(s, i, "LINKED")
        /\ "SLABBED" \in x.flags <=> x.refcount = 0
        /\ "SLABBED" \notin x.flags => x.lru \in LRUs
    BY <1>1, <1>2 DEF Life, LifeOf, Has
  <2> QED BY <2>1, <2>2, <1>2, <1>3, SetItem
<1>6. Same(s, t)
  BY <1>2, <1>4 DEF Same, Only
<1> QED BY <1>2, <1>4, <1>5, <1>6 DEF t

\* A reference is dropped; the last one frees the item.
LEMMA RemoveLife ==
  ASSUME NEW s \in Memory, NEW ext \in [Items -> Nat], Life(s, ext),
         NEW i \in Items, ext[i] > 0
  PROVE  /\ do_item_remove(s, i) \in Memory
         /\ Life(do_item_remove(s, i), [ext EXCEPT ![i] = ext[i] - 1])
         /\ Same(s, do_item_remove(s, i)) /\ Only(s, do_item_remove(s, i), i)
         /\ do_item_remove(s, i).assoc = s.assoc /\ do_item_remove(s, i).bump = s.bump
         /\ do_item_remove(s, i).q = s.q
<1> DEFINE n == s.it[i].refcount - 1
           d == refcount_decr(s, i)
           t == do_item_remove(s, i)
           y == [s.it[i] EXCEPT !.refcount = n]
           z == [s.it[i] EXCEPT !.refcount = n, !.flags = {"SLABBED"}, !.lru = NULL]
           x == IF n = 0 THEN z ELSE y
<1>1. /\ s.it[i] \in Item /\ s.it[i].refcount \in Nat /\ s.it[i].flags \in SUBSET Flags
      /\ s.it[i].lru \in LRUs \cup {NULL}
  BY DEF Memory, Item
<1>2. /\ s.it[i].refcount = ext[i] + Linked(s, i) /\ s.it[i].refcount > 0 /\ ~Has(s, i, "SLABBED")
      /\ n \in Nat /\ n = ext[i] - 1 + Linked(s, i)
  BY <1>1 DEF Life, LifeOf, Linked
<1>3. d = [s EXCEPT !.it[i] = y]
  BY DEF refcount_decr, Memory, Item
<1>4. /\ d.it[i] = y /\ y \in Item /\ y.refcount = n /\ y.flags = s.it[i].flags /\ y.lru = s.it[i].lru
      /\ y.key = s.it[i].key /\ y.val = s.it[i].val /\ y.cas = s.it[i].cas
  <2>1. /\ y \in Item /\ y.refcount = n /\ y.flags = s.it[i].flags /\ y.lru = s.it[i].lru
        /\ y.key = s.it[i].key /\ y.val = s.it[i].val /\ y.cas = s.it[i].cas
    BY <1>1, <1>2 DEF Item
  <2> HIDE DEF y, d
  <2>2. d.it[i] = y
    BY <1>3 DEF Memory
  <2> QED BY <2>1, <2>2
<1>z. /\ z \in Item /\ z.refcount = n /\ z.flags = {"SLABBED"} /\ z.lru = NULL
      /\ z.key = s.it[i].key /\ z.val = s.it[i].val /\ z.cas = s.it[i].cas
      /\ z = [y EXCEPT !.flags = {"SLABBED"}, !.lru = NULL]
  <2>1. {"SLABBED"} \in SUBSET Flags
    BY DEF Flags
  <2> QED BY <2>1, <1>1, <1>2 DEF Item
<1> HIDE DEF y, z, d
<1>0. n = 0 => Linked(s, i) = 0 /\ ~Has(s, i, "LINKED")
  BY <1>2 DEF Linked
<1>5. t = IF n = 0 THEN item_free(d, i) ELSE d
  <2>1. Require(s, ~Has(s, i, "SLABBED") /\ s.it[i].refcount > 0, "do_item_remove") = s
    BY <1>2 DEF Require
  <2> QED BY <2>1, <1>4 DEF do_item_remove, d
<1>6. t = [s EXCEPT !.it[i] = x]
  <2>1. CASE n = 0
    <3>1. ~Has(d, i, "LINKED")
      BY <2>1, <1>0, <1>4 DEF Has
    <3>2. item_free(d, i) = [d EXCEPT !.it[i].flags = {"SLABBED"}, !.it[i].lru = NULL]
      BY <3>1 DEF item_free, Require
    <3>3. item_free(d, i) = [s EXCEPT !.it[i] = x]
      <4>1. item_free(d, i) = [d EXCEPT !.it[i] = z]
        <5>1. d \in Memory
          BY <1>3, <1>4 DEF Memory
        <5> QED BY <5>1, <3>2, <1>4, <1>z DEF Memory
      <4> QED BY <4>1, <2>1, <1>3 DEF Memory
    <3> QED BY <3>3, <2>1, <1>5
  <2>2. CASE n # 0
    BY <2>2, <1>3, <1>5
  <2> QED BY <2>1, <2>2
<1>7. /\ x \in Item /\ x.refcount = n /\ x.key = s.it[i].key /\ x.val = s.it[i].val /\ x.cas = s.it[i].cas
      /\ x.flags = (IF n = 0 THEN {"SLABBED"} ELSE s.it[i].flags)
      /\ x.lru = (IF n = 0 THEN NULL ELSE s.it[i].lru)
  BY <1>4, <1>z
<1> HIDE DEF x, t
<1>8. /\ t.it[i] = x /\ Only(s, t, i) /\ t.assoc = s.assoc /\ t.bump = s.bump /\ t.q = s.q
      /\ t.cas_id = s.cas_id
  BY <1>6, <1>7 DEF Memory, Only
<1>9. t \in Memory /\ Life(t, [ext EXCEPT ![i] = ext[i] - 1])
  <2>0. n = 0 => ~Has(s, i, "LINKED")
    BY <1>0
  <2>1. "LINKED" \in x.flags <=> Has(s, i, "LINKED")
    BY <2>0, <1>7 DEF Has
  <2>2. x.refcount = ext[i] - 1 + (IF "LINKED" \in x.flags THEN 1 ELSE 0)
    BY <2>1, <1>2, <1>7 DEF Linked
  <2>3. "SLABBED" \in x.flags <=> x.refcount = 0
    BY <1>2, <1>7 DEF Has
  <2>4. "SLABBED" \notin x.flags => x.lru \in LRUs
    BY <1>2, <1>7 DEF Life, LifeOf
  <2>5. i \in s.assoc => x.lru = s.it[i].lru
    BY <2>0, <1>7 DEF Life, LifeOf
  <2>6. ext[i] - 1 \in Nat
    OBVIOUS
  <2> QED BY <2>1, <2>2, <2>3, <2>4, <2>5, <2>6, <1>6, <1>7, SetItem
<1>10. Same(s, t)
  BY <1>7, <1>8 DEF Same, Only
<1> QED BY <1>8, <1>9, <1>10 DEF t

\* The queues without item i, which is in queue a, and with item i in front of b.
Left(q, a, i) == [q EXCEPT ![a] = RemoveFirst(q[a], i)]
Entered(q, b, i) == [q EXCEPT ![b] = <<i>> \o q[b]]

\* An item leaves the queue it is in.
LEMMA LeaveQueue ==
  ASSUME NEW q, NEW A \in SUBSET Items, NEW L, Queues(q, A, L), NEW i \in A, L[i] \in LRUs
  PROVE  Queues(Left(q, L[i], i), A \ {i}, L)
<1> DEFINE a == L[i]
           r == RemoveFirst(q[a], i)
           u == [q EXCEPT ![a] = r]
<1>0. q \in [LRUs -> Seq(Items)] /\ \A l \in LRUs : IsInjective(q[l]) /\ Range(q[l]) = {j \in A : L[j] = l}
  BY DEF Queues
<1>1. r \in Seq(Items) /\ IsInjective(r) /\ Range(r) = Range(q[a]) \ {i}
  <2>1. q[a] \in Seq(Items) /\ IsInjective(q[a]) /\ i \in Range(q[a])
    BY <1>0
  <2> QED BY <2>1, RemoveOnce
<1> HIDE DEF r
<1>2. u \in [LRUs -> Seq(Items)] /\ u[a] = r /\ \A l \in LRUs \ {a} : u[l] = q[l]
  BY <1>0, <1>1
<1> HIDE DEF u
<1>3. ASSUME NEW l \in LRUs PROVE IsInjective(u[l]) /\ Range(u[l]) = {j \in A \ {i} : L[j] = l}
  <2>1. CASE l = a
    <3>1. Range(q[a]) = {j \in A : L[j] = l}
      BY <2>1, <1>0
    <3> QED BY <3>1, <2>1, <1>1, <1>2
  <2>2. CASE l # a
    BY <2>2, <1>0, <1>2
  <2> QED BY <2>1, <2>2
<1> QED BY <1>2, <1>3 DEF u, r, Left, Queues

\* An item that is in no queue enters one at its head.
LEMMA EnterQueue ==
  ASSUME NEW q, NEW A \in SUBSET Items, NEW L, Queues(q, A, L),
         NEW i \in Items, i \notin A, NEW K, K[i] \in LRUs, \A j \in A : K[j] = L[j]
  PROVE  Queues(Entered(q, K[i], i), A \cup {i}, K)
<1> DEFINE b == K[i]
           r == <<i>> \o q[b]
           u == [q EXCEPT ![b] = r]
<1>0. /\ q \in [LRUs -> Seq(Items)]
      /\ \A l \in LRUs : IsInjective(q[l]) /\ Range(q[l]) = {j \in A : K[j] = l}
  BY QueuesAgree DEF Queues
<1>1. r \in Seq(Items) /\ IsInjective(r) /\ Range(r) = Range(q[b]) \cup {i}
  <2>1. q[b] \in Seq(Items) /\ IsInjective(q[b]) /\ i \notin Range(q[b])
    BY <1>0
  <2> QED BY <2>1, ConsOnce
<1> HIDE DEF r
<1>2. u \in [LRUs -> Seq(Items)] /\ u[b] = r /\ \A l \in LRUs \ {b} : u[l] = q[l]
  BY <1>0, <1>1
<1> HIDE DEF u
<1>3. ASSUME NEW l \in LRUs
      PROVE  IsInjective(u[l]) /\ Range(u[l]) = {j \in A \cup {i} : K[j] = l}
  <2>1. CASE l = b
    <3>1. Range(q[b]) = {j \in A : K[j] = l}
      BY <2>1, <1>0
    <3> QED BY <3>1, <2>1, <1>1, <1>2
  <2>2. CASE l # b
    BY <2>2, <1>0, <1>2
  <2> QED BY <2>1, <2>2
<1> QED BY <1>2, <1>3 DEF u, r, Entered, Queues

\* A linked item has an owner in the hash table, a key and a queue.
LEMMA LinkedItem ==
  ASSUME NEW s \in Memory, NEW ext \in [Items -> Nat], Life(s, ext), NEW i \in s.assoc
  PROVE  /\ i \in Items /\ i # NULL /\ s.it[i] \in Item
         /\ Has(s, i, "LINKED") /\ ~Has(s, i, "SLABBED")
         /\ s.it[i].refcount = ext[i] + 1 /\ s.it[i].refcount # 0
         /\ s.it[i].lru \in LRUs /\ QueueFor(s)[i] = s.it[i].lru /\ s.it[i].key \in Keys
<1>1. i \in Items /\ i # NULL /\ s.it[i] \in Item /\ ext[i] \in Nat /\ QueueFor(s)[i] = s.it[i].lru
  BY MemCacheAssumption DEF Memory, QueueFor
<1>2. Has(s, i, "LINKED") /\ s.it[i].refcount = ext[i] + 1
  BY <1>1 DEF Life, LifeOf, Linked
<1>3. ~Has(s, i, "SLABBED")
  BY <1>1, <1>2 DEF Life, LifeOf
<1> QED BY <1>1, <1>2, <1>3 DEF Life, LifeOf

\* A linked item is taken out of its queue and, x having been written to it,
\* put at the head of the queue it then belongs to.
Requeued(s, i, x) == do_item_link_q([do_item_unlink_q(s, i) EXCEPT !.it[i] = x], i)

\* What requeueing keeps: the life of every item, and all items but this one.
LEMMA RequeueLife ==
  ASSUME NEW s \in Memory, NEW ext \in [Items -> Nat], Life(s, ext),
         NEW i \in s.assoc, NEW x \in Item,
         x.key = s.it[i].key, x.val = s.it[i].val, x.cas = s.it[i].cas,
         x.refcount = s.it[i].refcount, x.lru \in LRUs,
         "LINKED" \in x.flags, "SLABBED" \notin x.flags
  PROVE  /\ Requeued(s, i, x) \in Memory /\ Life(Requeued(s, i, x), ext)
         /\ Same(s, Requeued(s, i, x)) /\ Only(s, Requeued(s, i, x), i)
         /\ Requeued(s, i, x).assoc = s.assoc /\ Requeued(s, i, x).bump = s.bump
<1> DEFINE A == s.assoc \ {i}
           K == [QueueFor(s) EXCEPT ![i] = x.lru]
           u == Left(s.q, s.it[i].lru, i)
           v == Entered(u, x.lru, i)
           t == Requeued(s, i, x)
<1>1. /\ i \in Items /\ s.it[i].lru \in LRUs /\ s.it \in [Items -> Item] /\ s.q \in [LRUs -> Seq(Items)]
      /\ s.assoc \in SUBSET Items /\ QueueFor(s)[i] = s.it[i].lru
      /\ Has(s, i, "LINKED") /\ ~Has(s, i, "SLABBED")
      /\ s.it[i].refcount = ext[i] + 1 /\ s.it[i].refcount # 0
  BY LinkedItem DEF Memory
<1>2. Queues(u, A, QueueFor(s))
  <2>1. Queues(s.q, s.assoc, QueueFor(s))
    BY DEF Life
  <2> QED BY <2>1, <1>1, LeaveQueue
<1>3. K[i] = x.lru /\ \A j \in Items \ {i} : K[j] = s.it[j].lru /\ K[j] = QueueFor(s)[j]
  BY <1>1 DEF QueueFor
<1>4. u \in [LRUs -> Seq(Items)]
  BY <1>2 DEF Queues
<1> HIDE DEF u
<1>5. Queues(v, s.assoc, K)
  <2>1. A \in SUBSET Items /\ i \notin A /\ A \cup {i} = s.assoc /\ \A j \in A : K[j] = QueueFor(s)[j]
    BY <1>1, <1>3
  <2>2. v = Entered(u, K[i], i) /\ K[i] \in LRUs
    BY <1>3
  <2> HIDE DEF A, K, v
  <2>3. Queues(Entered(u, K[i], i), A \cup {i}, K)
    BY <2>1, <2>2, <1>1, <1>2, EnterQueue
  <2> QED BY <2>1, <2>2, <2>3
<1>6. t = [s EXCEPT !.it[i] = x, !.q = v]
  <2>1. do_item_unlink_q(s, i) = [s EXCEPT !.q = u]
    BY <1>1 DEF do_item_unlink_q, Memory, Left, u
  <2> DEFINE p == [s EXCEPT !.it[i] = x, !.q = u]
  <2>2. [do_item_unlink_q(s, i) EXCEPT !.it[i] = x] = p
    BY <2>1, <1>1 DEF Memory
  <2>3. p.it[i] = x /\ p.q = u
    BY <1>1 DEF Memory
  <2>4. do_item_link_q(p, i) = [p EXCEPT !.q[x.lru] = <<i>> \o @]
    <3> HIDE DEF p, v
    <3> QED BY <2>3 DEF do_item_link_q, Require, Has
  <2>5. [p EXCEPT !.q[x.lru] = <<i>> \o @] = [s EXCEPT !.it[i] = x, !.q = v]
    BY <1>1, <1>4 DEF Memory, Entered
  <2> HIDE DEF p, v
  <2> QED BY <2>2, <2>4, <2>5 DEF Requeued
<1> HIDE DEF t, v, K, A
<1>7. /\ t \in Memory /\ t.it[i] = x /\ Only(s, t, i) /\ t.assoc = s.assoc /\ t.q = v
      /\ t.bump = s.bump /\ t.cas_id = s.cas_id /\ t.failed = s.failed
  <2>1. v \in [LRUs -> Seq(Items)]
    BY <1>5 DEF Queues
  <2> QED BY <2>1, <1>1, <1>6 DEF Memory, Only
<1>8. Same(s, t)
  BY <1>7 DEF Same, Only
<1>9. Life(t, ext)
  <2>1. ASSUME NEW j \in Items PROVE LifeOf(t, ext, j)
    <3>1. CASE j = i
      BY <3>1, <1>1, <1>7 DEF LifeOf, Linked, Has
    <3>2. CASE j # i
      BY <3>2, <1>7 DEF Life, LifeOf, Linked, Has, Only
    <3> QED BY <3>1, <3>2
  <2>2. \A j \in t.assoc : t.it[j].key \in Keys /\ \A k \in t.assoc : t.it[j].key = t.it[k].key => j = k
    BY <1>1, <1>7, <1>8 DEF Life, Same
  <2>3. Queues(t.q, t.assoc, QueueFor(t))
    <3>1. \A j \in s.assoc : QueueFor(t)[j] = K[j]
      BY <1>1, <1>3, <1>7 DEF QueueFor, Only
    <3> QED BY <3>1, <1>5, <1>7, QueuesAgree
  <2> QED BY <2>1, <2>2, <2>3, <1>7 DEF Life
<1> QED BY <1>7, <1>8, <1>9 DEF t

\* An item is taken out of the hash table and its queue; when nobody has a
\* reference to it, it is freed.
LEMMA UnlinkLife ==
  ASSUME NEW s \in Memory, NEW ext \in [Items -> Nat], Life(s, ext), NEW i \in Items
  PROVE  /\ do_item_unlink(s, i) \in Memory /\ Life(do_item_unlink(s, i), ext)
         /\ Same(s, do_item_unlink(s, i)) /\ Only(s, do_item_unlink(s, i), i)
         /\ do_item_unlink(s, i).assoc = s.assoc \ {i} /\ do_item_unlink(s, i).bump = s.bump
<1>1. CASE ~Has(s, i, "LINKED")
  <2>1. do_item_unlink(s, i) = s /\ i \notin s.assoc
    BY <1>1 DEF do_item_unlink, Life, LifeOf
  <2> QED BY <2>1 DEF Same, Only
<1>2. CASE Has(s, i, "LINKED")
  <2> DEFINE x == [s.it[i] EXCEPT !.flags = s.it[i].flags \ {"LINKED"}]
             a == [s EXCEPT !.it[i] = x]
             b == [a EXCEPT !.assoc = s.assoc \ {i}]
             u == Left(s.q, s.it[i].lru, i)
             d == [b EXCEPT !.q = u]
             e == [ext EXCEPT ![i] = ext[i] + 1]
             t == do_item_unlink(s, i)
  <2>1. i \in s.assoc
    BY <1>2 DEF Life, LifeOf
  <2>2. /\ s.it[i] \in Item /\ s.it[i].lru \in LRUs /\ s.it \in [Items -> Item]
        /\ s.assoc \in SUBSET Items /\ i # NULL
        /\ QueueFor(s)[i] = s.it[i].lru /\ ~Has(s, i, "SLABBED")
        /\ s.it[i].refcount = ext[i] + 1 /\ s.it[i].refcount # 0
    BY <2>1, LinkedItem DEF Memory
  <2>3. /\ x \in Item /\ x.flags = s.it[i].flags \ {"LINKED"} /\ x.key = s.it[i].key
        /\ x.val = s.it[i].val /\ x.cas = s.it[i].cas /\ x.lru = s.it[i].lru
        /\ x.refcount = s.it[i].refcount
    BY <2>2 DEF Item
  <2>4. a = [s EXCEPT !.it[i].flags = @ \ {"LINKED"}]
    BY DEF Memory, Item
  <2> HIDE DEF x
  <2>5. /\ a.it[i] = x /\ a.q = s.q /\ a.assoc = s.assoc /\ a.failed = s.failed
        /\ \A j \in Items : a.it[j].key = s.it[j].key
    BY <2>2, <2>3 DEF Memory
  <2>6. assoc_delete(a, i) = b
    <3>1. {j \in a.assoc : a.it[j].key = a.it[i].key} = {i}
      BY <2>1, <2>2, <2>5 DEF Life
    <3>2. assoc_find(a, a.it[i].key) = i
      <4>1. (CHOOSE j \in {i} : TRUE) = i
        OBVIOUS
      <4> HIDE DEF a
      <4> QED BY <3>1, <4>1, Zenon DEF assoc_find
    <3> HIDE DEF a
    <3> QED BY <3>2, <2>2, <2>5 DEF assoc_delete
  <2>7. Queues(u, s.assoc \ {i}, QueueFor(s))
    <3>1. Queues(s.q, s.assoc, QueueFor(s))
      BY DEF Life
    <3> QED BY <3>1, <2>1, <2>2, LeaveQueue
  <2>8. do_item_unlink_q(b, i) = d
    <3>1. b.it[i] = x /\ b.q = s.q
      BY <2>5 DEF Memory
    <3>2. [b EXCEPT !.q[s.it[i].lru] = RemoveFirst(@, i)] = d
      BY <2>2 DEF Memory, Left
    <3> HIDE DEF a, b, d
    <3> QED BY <3>1, <3>2, <2>3 DEF do_item_unlink_q
  <2> HIDE DEF u
  <2>9. /\ d \in Memory /\ d.it[i] = x /\ Only(s, d, i) /\ d.assoc = s.assoc \ {i} /\ d.q = u
        /\ d.bump = s.bump /\ d.cas_id = s.cas_id /\ d.failed = s.failed
    <3>1. u \in [LRUs -> Seq(Items)]
      BY <2>7 DEF Queues
    <3> QED BY <3>1, <2>2, <2>3 DEF Memory, Only
  <2>10. t = do_item_remove(d, i)
    <3> HIDE DEF a, b, d
    <3> QED BY <1>2, <2>4, <2>6, <2>8 DEF do_item_unlink
  <2> HIDE DEF d, b, a, t
  <2>11. e \in [Items -> Nat] /\ e[i] = ext[i] + 1 /\ \A j \in Items \ {i} : e[j] = ext[j]
    OBVIOUS
  <2> HIDE DEF e
  <2>12. Same(s, d)
    BY <2>3, <2>9 DEF Same, Only
  <2>13. Life(d, e)
    <3>1. ASSUME NEW j \in Items PROVE LifeOf(d, e, j)
      <4>1. CASE j = i
        BY <4>1, <2>2, <2>3, <2>9, <2>11 DEF LifeOf, Linked, Has
      <4>2. CASE j # i
        BY <4>2, <2>9, <2>11 DEF Life, LifeOf, Linked, Has, Only
      <4> QED BY <4>1, <4>2
    <3>2. \A j \in d.assoc : d.it[j].key \in Keys /\ \A k \in d.assoc : d.it[j].key = d.it[k].key => j = k
      BY <2>2, <2>9, <2>12 DEF Life, Same
    <3>3. Queues(d.q, d.assoc, QueueFor(d))
      <4>1. \A j \in d.assoc : QueueFor(d)[j] = QueueFor(s)[j]
        BY <2>2, <2>9 DEF QueueFor, Only
      <4> QED BY <4>1, <2>7, <2>9, QueuesAgree
    <3> QED BY <3>1, <3>2, <3>3, <2>9 DEF Life
  <2>14. /\ t \in Memory /\ Life(t, [e EXCEPT ![i] = e[i] - 1]) /\ Same(d, t) /\ Only(d, t, i)
         /\ t.assoc = d.assoc /\ t.bump = d.bump
    <3>1. e[i] > 0
      BY <2>11
    <3> QED BY <3>1, <2>9, <2>10, <2>11, <2>13, RemoveLife
  <2>15. [e EXCEPT ![i] = e[i] - 1] = ext
    BY <2>11
  <2>16. Same(s, t) /\ Only(s, t, i)
    BY <2>9, <2>12, <2>14 DEF Same, Only
  <2> QED BY <2>9, <2>14, <2>15, <2>16 DEF t
<1> QED BY <1>1, <1>2

\* An item that somebody holds is put into the hash table, under a key that no
\* other item there has, and into its queue, with a CAS id of its own.
LEMMA LinkLife ==
  ASSUME NEW s \in Memory, NEW ext \in [Items -> Nat], Life(s, ext), NEW i \in Items,
         ext[i] > 0, i \notin s.assoc, s.it[i].key \in Keys,
         \A j \in s.assoc : s.it[j].key # s.it[i].key, now \in Nat
  PROVE  /\ do_item_link(s, i) \in Memory /\ Life(do_item_link(s, i), ext)
         /\ Only(s, do_item_link(s, i), i)
         /\ do_item_link(s, i).assoc = s.assoc \cup {i} /\ do_item_link(s, i).bump = s.bump
         /\ do_item_link(s, i).cas_id = s.cas_id + 1 /\ do_item_link(s, i).it[i].cas = s.cas_id + 1
         /\ do_item_link(s, i).it[i].key = s.it[i].key /\ do_item_link(s, i).it[i].val = s.it[i].val
<1> DEFINE x == [s.it[i] EXCEPT !.flags = s.it[i].flags \cup {"LINKED"}, !.time = now, !.cas = s.cas_id + 1]
           a == [s EXCEPT !.it[i] = x, !.cas_id = s.cas_id + 1]
           b == [a EXCEPT !.assoc = s.assoc \cup {i}]
           v == Entered(s.q, s.it[i].lru, i)
           d == [b EXCEPT !.q = v]
           e == [ext EXCEPT ![i] = ext[i] - 1]
           t == do_item_link(s, i)
<1>1. /\ s.it[i] \in Item /\ s.it \in [Items -> Item] /\ s.assoc \in SUBSET Items /\ s.cas_id + 1 \in Nat
      /\ s.q \in [LRUs -> Seq(Items)] /\ s.it[i].flags \in SUBSET Flags /\ s.cas_id \in Nat
  BY DEF Memory, Item
<1>2. /\ ~Has(s, i, "LINKED") /\ Linked(s, i) = 0 /\ s.it[i].refcount = ext[i] /\ s.it[i].refcount # 0
      /\ ~Has(s, i, "SLABBED") /\ s.it[i].lru \in LRUs
  <2>1. ~Has(s, i, "LINKED") /\ Linked(s, i) = 0 /\ s.it[i].refcount = ext[i]
    BY DEF Life, LifeOf, Linked
  <2> QED BY <2>1 DEF Life, LifeOf
<1>3. /\ x \in Item /\ x.flags = s.it[i].flags \cup {"LINKED"} /\ x.key = s.it[i].key
      /\ x.val = s.it[i].val /\ x.cas = s.cas_id + 1 /\ x.lru = s.it[i].lru
      /\ x.refcount = s.it[i].refcount
  <2>1. s.it[i].flags \cup {"LINKED"} \in SUBSET Flags
    BY <1>1 DEF Flags
  <2>2. now \in Int
    OBVIOUS
  <2> QED BY <1>1, <2>1, <2>2 DEF Item
<1>4. [s EXCEPT !.it[i].flags = @ \cup {"LINKED"}, !.it[i].time = now,
                !.it[i].cas = s.cas_id + 1, !.cas_id = @ + 1] = a
  BY <1>1 DEF Memory, Item
<1>5. Require(s, s.it[i].flags \cap {"LINKED", "SLABBED"} = {}, "do_item_link") = s
  BY <1>2 DEF Require, Has
<1> HIDE DEF x
<1>6. assoc_insert(a, i) = b
  BY DEF assoc_insert, Memory
<1>7. b.it[i] = x /\ b.q = s.q
  BY <1>1 DEF Memory
<1>8. do_item_link_q(b, i) = d
  <2>1. [b EXCEPT !.q[s.it[i].lru] = <<i>> \o @] = d
    BY <1>1, <1>2 DEF Memory, Entered
  <2> HIDE DEF a, b, d
  <2> QED BY <2>1, <1>2, <1>3, <1>7 DEF do_item_link_q, Require, Has
<1>9. Queues(v, s.assoc \cup {i}, QueueFor(s))
  <2>1. Queues(s.q, s.assoc, QueueFor(s))
    BY DEF Life
  <2>2. QueueFor(s)[i] = s.it[i].lru
    BY DEF QueueFor
  <2> QED BY <2>1, <2>2, <1>1, <1>2, EnterQueue
<1> HIDE DEF v
<1>10. /\ d \in Memory /\ d.it[i] = x /\ Only(s, d, i) /\ d.assoc = s.assoc \cup {i} /\ d.q = v
       /\ d.bump = s.bump /\ d.cas_id = s.cas_id + 1 /\ d.failed = s.failed
  <2>1. v \in [LRUs -> Seq(Items)]
    BY <1>9 DEF Queues
  <2> QED BY <2>1, <1>1, <1>3 DEF Memory, Only
<1>11. t = refcount_incr(d, i)
  <2> HIDE DEF a, b, d
  <2> QED BY <1>4, <1>5, <1>6, <1>8 DEF do_item_link
<1> HIDE DEF a, b, d, t
<1>12. e \in [Items -> Nat] /\ e[i] = ext[i] - 1 /\ \A j \in Items \ {i} : e[j] = ext[j]
  OBVIOUS
<1> HIDE DEF e
<1>13. Life(d, e)
  <2>1. ASSUME NEW j \in Items PROVE LifeOf(d, e, j)
    <3>1. CASE j = i
      BY <3>1, <1>2, <1>3, <1>10, <1>12 DEF LifeOf, Linked, Has
    <3>2. CASE j # i
      BY <3>2, <1>10, <1>12 DEF Life, LifeOf, Linked, Has, Only
    <3> QED BY <3>1, <3>2
  <2>2. \A j \in d.assoc : d.it[j].key \in Keys /\ \A k \in d.assoc : d.it[j].key = d.it[k].key => j = k
    <3>1. \A j \in s.assoc : d.it[j].key = s.it[j].key
      BY <1>1, <1>10 DEF Only
    <3>2. d.it[i].key = s.it[i].key
      BY <1>3, <1>10
    <3> QED BY <3>1, <3>2, <1>10 DEF Life
  <2>3. Queues(d.q, d.assoc, QueueFor(d))
    <3>1. \A j \in d.assoc : QueueFor(d)[j] = QueueFor(s)[j]
      BY <1>1, <1>3, <1>10 DEF QueueFor, Only
    <3> QED BY <3>1, <1>9, <1>10, QueuesAgree
  <2> QED BY <2>1, <2>2, <2>3, <1>10 DEF Life
<1>14. /\ t \in Memory /\ Life(t, [e EXCEPT ![i] = e[i] + 1]) /\ Same(d, t) /\ Only(d, t, i)
       /\ t.assoc = d.assoc /\ t.bump = d.bump
  <2>1. ~Has(d, i, "SLABBED")
    BY <1>2, <1>3, <1>10 DEF Has
  <2> QED BY <2>1, <1>10, <1>11, <1>12, <1>13, IncrLife
<1>15. [e EXCEPT ![i] = e[i] + 1] = ext
  BY <1>12
<1>16. Only(s, t, i)
  BY <1>10, <1>14 DEF Only
<1>17. /\ t.cas_id = s.cas_id + 1 /\ t.it[i].cas = s.cas_id + 1 /\ t.it[i].key = s.it[i].key
       /\ t.it[i].val = s.it[i].val
  BY <1>3, <1>10, <1>14 DEF Same
<1> QED BY <1>10, <1>14, <1>15, <1>16, <1>17 DEF t

\* Nothing but item i differs in s and t, and of it neither its name, its value
\* nor whether it is linked.
Kept(s, t, i) == Same(s, t) /\ Only(s, t, i) /\ t.assoc = s.assoc /\ t.bump = s.bump

\* Other flags than LINKED and SLABBED are written.
LEMMA FlagLife ==
  ASSUME NEW s \in Memory, NEW ext \in [Items -> Nat], Life(s, ext), NEW i \in Items,
         NEW F \in SUBSET Flags,
         \A f \in {"LINKED", "SLABBED"} : f \in F <=> Has(s, i, f)
  PROVE  /\ [s EXCEPT !.it[i].flags = F] \in Memory
         /\ Life([s EXCEPT !.it[i].flags = F], ext)
         /\ Kept(s, [s EXCEPT !.it[i].flags = F], i)
         /\ [s EXCEPT !.it[i].flags = F].it[i].flags = F
<1> DEFINE x == [s.it[i] EXCEPT !.flags = F]
           t == [s EXCEPT !.it[i].flags = F]
<1>1. s.it[i] \in Item /\ ext[i] \in Nat
  BY DEF Memory
<1>2. /\ x \in Item /\ x.flags = F /\ x.key = s.it[i].key /\ x.val = s.it[i].val /\ x.cas = s.it[i].cas
      /\ x.lru = s.it[i].lru /\ x.refcount = s.it[i].refcount
  BY <1>1 DEF Item
<1>3. t = [s EXCEPT !.it[i] = x]
  BY DEF Memory, Item
<1> HIDE DEF x, t
<1>4. /\ t.it[i] = x /\ Only(s, t, i) /\ t.assoc = s.assoc /\ t.bump = s.bump /\ t.cas_id = s.cas_id
  BY <1>2, <1>3 DEF Memory, Only
<1>5. t \in Memory /\ Life(t, [ext EXCEPT ![i] = ext[i]])
  <2>1. /\ "LINKED" \in x.flags <=> Has(s, i, "LINKED")
        /\ x.refcount = ext[i] + (IF "LINKED" \in x.flags THEN 1 ELSE 0)
        /\ "SLABBED" \in x.flags <=> x.refcount = 0
        /\ "SLABBED" \notin x.flags => x.lru \in LRUs
    BY <1>2 DEF Life, LifeOf, Linked, Has
  <2> QED BY <2>1, <1>1, <1>2, <1>3, SetItem
<1>6. [ext EXCEPT ![i] = ext[i]] = ext
  OBVIOUS
<1>7. Kept(s, t, i)
  BY <1>2, <1>4 DEF Kept, Same, Only
<1> QED BY <1>2, <1>4, <1>5, <1>6, <1>7 DEF t

\* Writing to an item that has left its queue before it enters one.
LEMMA RequeueAs ==
  ASSUME NEW s \in Memory, NEW i \in Items, NEW x
  PROVE  /\ do_item_unlink_q(s, i).it = s.it
         /\ do_item_unlink_q(s, i) = [s EXCEPT !.q = do_item_unlink_q(s, i).q]
<1> QED BY DEF do_item_unlink_q, Memory

\* do_item_update moves an active item of COLD to WARM or writes its time.
LEMMA UpdateLife ==
  ASSUME NEW s \in Memory, NEW ext \in [Items -> Nat], Life(s, ext), NEW i \in Items, now \in Nat
  PROVE  /\ do_item_update(s, i) \in Memory /\ Life(do_item_update(s, i), ext)
         /\ Kept(s, do_item_update(s, i), i)
<1> DEFINE t == do_item_update(s, i)
           x == [s.it[i] EXCEPT !.time = now, !.lru = "WARM", !.flags = s.it[i].flags \ {"ACTIVE"}]
           y == [s.it[i] EXCEPT !.time = now]
<1>1. s.it[i] \in Item /\ s.it[i].flags \in SUBSET Flags /\ now \in Int /\ ext[i] \in Nat
  BY DEF Memory, Item
<1>2. /\ x \in Item /\ x.flags = s.it[i].flags \ {"ACTIVE"} /\ x.key = s.it[i].key /\ x.val = s.it[i].val
      /\ x.cas = s.it[i].cas /\ x.lru \in LRUs /\ x.refcount = s.it[i].refcount
  BY <1>1 DEF Item, LRUs
<1>3. /\ y \in Item /\ y.flags = s.it[i].flags /\ y.key = s.it[i].key /\ y.val = s.it[i].val
      /\ y.cas = s.it[i].cas /\ y.lru = s.it[i].lru /\ y.refcount = s.it[i].refcount
  BY <1>1 DEF Item
<1>4. CASE Has(s, i, "LINKED") /\ t = Requeued(s, i, x)
  <2>1. i \in s.assoc
    BY <1>4 DEF Life, LifeOf
  <2>2. "LINKED" \in x.flags /\ "SLABBED" \notin x.flags
    BY <2>1, <1>2, <1>4, LinkedItem DEF Has
  <2> HIDE DEF t, x
  <2>3. t \in Memory /\ Life(t, ext) /\ Kept(s, t, i)
    BY <2>1, <2>2, <1>2, <1>4, RequeueLife DEF Kept
  <2> QED BY <2>3 DEF t
<1>5. CASE t = [s EXCEPT !.it[i] = y]
  <2>1. /\ "LINKED" \in y.flags <=> Has(s, i, "LINKED")
        /\ y.refcount = ext[i] + (IF "LINKED" \in y.flags THEN 1 ELSE 0)
        /\ "SLABBED" \in y.flags <=> y.refcount = 0
        /\ "SLABBED" \notin y.flags => y.lru \in LRUs
    BY <1>3 DEF Life, LifeOf, Linked, Has
  <2> HIDE DEF y, t
  <2>2. t \in Memory /\ Life(t, [ext EXCEPT ![i] = ext[i]])
    BY <2>1, <1>1, <1>3, <1>5, SetItem
  <2>3. [ext EXCEPT ![i] = ext[i]] = ext
    OBVIOUS
  <2>4. Kept(s, t, i)
    BY <1>3, <1>5 DEF Kept, Same, Only, Memory
  <2> QED BY <2>2, <2>3, <2>4 DEF t
<1>6. CASE t = s
  BY <1>6 DEF Kept, Same, Only
<1>7. \/ Has(s, i, "LINKED") /\ t = Requeued(s, i, x)
      \/ t = [s EXCEPT !.it[i] = y]
      \/ t = s
  <2>1. CASE ~Has(s, i, "LINKED")
    BY <2>1 DEF do_item_update
  <2>2. CASE Has(s, i, "LINKED") /\ s.it[i].lru = "COLD" /\ "ACTIVE" \in s.it[i].flags
    <3> DEFINE p == do_item_unlink_q(s, i)
    <3>1. t = do_item_link_q([p EXCEPT !.it[i].time = now, !.it[i].lru = "WARM", !.it[i].flags = @ \ {"ACTIVE"}], i)
      BY <2>2 DEF do_item_update
    <3>2. p.it = s.it /\ p = [s EXCEPT !.q = p.q]
      BY RequeueAs
    <3> HIDE DEF p
    <3>4. [p EXCEPT !.it[i].time = now, !.it[i].lru = "WARM", !.it[i].flags = @ \ {"ACTIVE"}] = [p EXCEPT !.it[i] = x]
      <4>1. [s.it EXCEPT ![i].time = now, ![i].lru = "WARM", ![i].flags = @ \ {"ACTIVE"}] = [s.it EXCEPT ![i] = x]
        BY <1>1 DEF Memory, Item
      <4> HIDE DEF x
      <4> QED BY <3>2, <4>1 DEF Memory
    <3> HIDE DEF x
    <3> QED BY <3>1, <3>4, <2>2 DEF Requeued, p
  <2>3. CASE Has(s, i, "LINKED") /\ ~(s.it[i].lru = "COLD" /\ "ACTIVE" \in s.it[i].flags)
    <3>1. [s EXCEPT !.it[i].time = now] = [s EXCEPT !.it[i] = y]
      BY <1>1 DEF Memory, Item
    <3> HIDE DEF y
    <3> QED BY <2>3, <3>1 DEF do_item_update
  <2> QED BY <2>1, <2>2, <2>3
<1> QED BY <1>4, <1>5, <1>6, <1>7

\* do_item_update_nolock writes the time of an item and puts it at the head.
LEMMA NolockLife ==
  ASSUME NEW s \in Memory, NEW ext \in [Items -> Nat], Life(s, ext), NEW i \in s.assoc, now \in Nat
  PROVE  /\ do_item_update_nolock(s, i) \in Memory /\ Life(do_item_update_nolock(s, i), ext)
         /\ Kept(s, do_item_update_nolock(s, i), i)
<1> DEFINE t == do_item_update_nolock(s, i)
           x == [s.it[i] EXCEPT !.time = now]
           p == do_item_unlink_q(s, i)
<1>1. /\ i \in Items /\ s.it[i] \in Item /\ now \in Int /\ s.it[i].lru \in LRUs
      /\ Has(s, i, "LINKED") /\ ~Has(s, i, "SLABBED")
  BY LinkedItem
<1>2. /\ x \in Item /\ x.flags = s.it[i].flags /\ x.key = s.it[i].key /\ x.val = s.it[i].val
      /\ x.cas = s.it[i].cas /\ x.lru = s.it[i].lru /\ x.refcount = s.it[i].refcount
  BY <1>1 DEF Item
<1>3. t = Requeued(s, i, x) \/ t = s
  <2>1. p.it = s.it /\ p = [s EXCEPT !.q = p.q]
    BY <1>1, RequeueAs
  <2> HIDE DEF p
  <2>2. [p EXCEPT !.it[i].time = now] = [p EXCEPT !.it[i] = x]
    BY <2>1, <1>1 DEF Memory, Item
  <2> HIDE DEF x
  <2> QED BY <2>2 DEF do_item_update_nolock, Requeued, p
<1>4. CASE t = s
  BY <1>4 DEF Kept, Same, Only
<1>5. CASE t = Requeued(s, i, x)
  <2>1. "LINKED" \in x.flags /\ "SLABBED" \notin x.flags
    BY <1>1, <1>2 DEF Has
  <2> HIDE DEF t, x
  <2>2. t \in Memory /\ Life(t, ext) /\ Kept(s, t, i)
    BY <2>1, <1>1, <1>2, <1>5, RequeueLife DEF Kept
  <2> QED BY <2>2 DEF t
<1> QED BY <1>3, <1>4, <1>5

\* lru_pull_tail moves an item to the head of a queue.
LEMMA MoveLife ==
  ASSUME NEW s \in Memory, NEW ext \in [Items -> Nat], Life(s, ext), NEW i \in s.assoc, NEW l \in LRUs
  PROVE  MoveTo(s, i, l) \in Memory /\ Life(MoveTo(s, i, l), ext) /\ Kept(s, MoveTo(s, i, l), i)
<1> DEFINE t == MoveTo(s, i, l)
           x == [s.it[i] EXCEPT !.lru = l]
           p == do_item_unlink_q(s, i)
<1>1. i \in Items /\ s.it[i] \in Item /\ Has(s, i, "LINKED") /\ ~Has(s, i, "SLABBED")
  BY LinkedItem
<1>2. /\ x \in Item /\ x.flags = s.it[i].flags /\ x.key = s.it[i].key /\ x.val = s.it[i].val
      /\ x.cas = s.it[i].cas /\ x.lru = l /\ x.refcount = s.it[i].refcount
  BY <1>1 DEF Item
<1>3. t = Requeued(s, i, x)
  <2>1. p.it = s.it /\ p = [s EXCEPT !.q = p.q]
    BY <1>1, RequeueAs
  <2> HIDE DEF p
  <2>2. [p EXCEPT !.it[i].lru = l] = [p EXCEPT !.it[i] = x]
    BY <2>1, <1>1 DEF Memory, Item
  <2> HIDE DEF x
  <2> QED BY <2>2 DEF MoveTo, Requeued, p
<1>4. "LINKED" \in x.flags /\ "SLABBED" \notin x.flags
  BY <1>1, <1>2 DEF Has
<1> HIDE DEF t, x
<1>5. t \in Memory /\ Life(t, ext) /\ Kept(s, t, i)
  BY <1>1, <1>2, <1>3, <1>4, RequeueLife DEF Kept
<1> QED BY <1>5 DEF t

\* Worker w has noted item i in its bump buffer, or not.
Noted(s, t, i, w) ==
  \/ t.bump = s.bump
  \/ /\ t.bump # s.bump /\ Len(s.bump[w]) < BumpMax
     /\ t.bump = [s.bump EXCEPT ![w] = Append(s.bump[w], i)]

\* The references that the bump buffers have gained.
More(s, t) == IF t.bump = s.bump THEN 0 ELSE 1

\* The references ext and those to item i that a get which leads from s to t
\* leaves: that of the caller, and that of an entry in a bump buffer.
Got(ext, s, t, i) == [ext EXCEPT ![i] = ext[i] + 1 + More(s, t)]

\* The bump buffers are no part of the life of an item.
LEMMA BumpLife ==
  ASSUME NEW s \in Memory, NEW ext, Life(s, ext), NEW b \in [Workers -> Seq(Items)]
  PROVE  [s EXCEPT !.bump = b] \in Memory /\ Life([s EXCEPT !.bump = b], ext)
<1> DEFINE t == [s EXCEPT !.bump = b]
<1>1. /\ t \in Memory /\ t.it = s.it /\ t.assoc = s.assoc /\ t.q = s.q /\ t.failed = s.failed
  BY DEF Memory
<1> HIDE DEF t
<1>2. Life(t, ext)
  BY <1>1 DEF Life, LifeOf, Linked, Has, QueueFor
<1> QED BY <1>1, <1>2 DEF t

\* An entry of a bump buffer has a reference of its own.
LEMMA AsyncLife ==
  ASSUME NEW s \in Memory, NEW ext \in [Items -> Nat], Life(s, ext), NEW i \in s.assoc, NEW w \in Workers
  PROVE  /\ lru_bump_async(s, i, w) \in Memory
         /\ Life(lru_bump_async(s, i, w), [ext EXCEPT ![i] = ext[i] + More(s, lru_bump_async(s, i, w))])
         /\ Same(s, lru_bump_async(s, i, w)) /\ Only(s, lru_bump_async(s, i, w), i)
         /\ lru_bump_async(s, i, w).assoc = s.assoc /\ Noted(s, lru_bump_async(s, i, w), i, w)
<1> DEFINE t == lru_bump_async(s, i, w)
           r == refcount_incr(s, i)
           e == [ext EXCEPT ![i] = ext[i] + 1]
           F == s.it[i].flags \cup {"ACTIVE"}
           f == [r EXCEPT !.it[i].flags = F]
           b == [s.bump EXCEPT ![w] = Append(s.bump[w], i)]
<1>1. i \in Items /\ ~Has(s, i, "SLABBED") /\ s.it[i].flags \in SUBSET Flags /\ s.bump \in [Workers -> Seq(Items)]
  BY LinkedItem DEF Memory, Item
<1>2. CASE Len(s.bump[w]) < BumpMax
  <2>1. /\ r \in Memory /\ Life(r, e) /\ Same(s, r) /\ Only(s, r, i) /\ r.assoc = s.assoc
        /\ r.bump = s.bump /\ r.it[i].flags = s.it[i].flags
    BY <1>1, IncrLife
  <2>2. e \in [Items -> Nat]
    BY <1>1
  <2>3. F \in SUBSET Flags /\ \A x \in {"LINKED", "SLABBED"} : x \in F <=> Has(r, i, x)
    BY <1>1, <2>1 DEF Flags, Has
  <2> HIDE DEF r, e, F
  <2>4. f \in Memory /\ Life(f, e) /\ Kept(r, f, i)
    BY <1>1, <2>1, <2>2, <2>3, FlagLife
  <2>5. b \in [Workers -> Seq(Items)] /\ b # s.bump
    <3>1. Append(s.bump[w], i) \in Seq(Items) /\ Len(Append(s.bump[w], i)) = Len(s.bump[w]) + 1 /\ Len(s.bump[w]) \in Nat
      BY <1>1, AppendProperties, LenProperties
    <3> QED BY <3>1, <1>1
  <2>6. t = [f EXCEPT !.bump = b]
    <3>1. t = [r EXCEPT !.bump[w] = Append(@, i), !.it[i].flags = @ \cup {"ACTIVE"}]
      BY <1>2 DEF lru_bump_async, r
    <3>2. [r EXCEPT !.bump[w] = Append(@, i), !.it[i].flags = @ \cup {"ACTIVE"}] = [f EXCEPT !.bump = b]
      BY <2>1 DEF Memory, F
    <3> QED BY <3>1, <3>2
  <2>7. f.bump = s.bump /\ f.assoc = s.assoc /\ Same(s, f) /\ Only(s, f, i)
    BY <2>1, <2>4 DEF Kept, Same, Only
  <2> HIDE DEF f, b, t
  <2>8. t \in Memory /\ Life(t, e)
    BY <2>4, <2>5, <2>6, BumpLife
  <2>9. t.bump = b /\ t.it = f.it /\ t.cas_id = f.cas_id /\ t.assoc = f.assoc
    BY <2>4, <2>6 DEF Memory
  <2>10. Same(s, t) /\ Only(s, t, i) /\ Noted(s, t, i, w) /\ t.assoc = s.assoc
    BY <1>2, <2>5, <2>7, <2>9 DEF Same, Only, Noted, b
  <2>11. More(s, t) = 1
    BY <2>5, <2>9 DEF More
  <2> QED BY <2>8, <2>10, <2>11 DEF t, e
<1>3. CASE ~(Len(s.bump[w]) < BumpMax)
  <2>1. t = s
    BY <1>3 DEF lru_bump_async
  <2>2. More(s, s) = 0 /\ [ext EXCEPT ![i] = ext[i] + 0] = ext
    BY <1>1 DEF More
  <2> QED BY <2>1, <2>2 DEF Same, Only, Noted
<1> QED BY <1>2, <1>3

\* A hit marks the item, and may move it, or have it noted to be moved.
LEMMA HitLife ==
  ASSUME NEW s \in Memory, NEW ext \in [Items -> Nat], Life(s, ext), NEW i \in s.assoc,
         NEW w \in Workers, now \in Nat
  PROVE  /\ Hit(s, i, w) \in Memory
         /\ Life(Hit(s, i, w), [ext EXCEPT ![i] = ext[i] + More(s, Hit(s, i, w))])
         /\ Same(s, Hit(s, i, w)) /\ Only(s, Hit(s, i, w), i)
         /\ Hit(s, i, w).assoc = s.assoc /\ Noted(s, Hit(s, i, w), i, w)
<1> DEFINE t == Hit(s, i, w)
           F == s.it[i].flags \cup {"FETCHED"}
           A == s.it[i].flags \cup {"ACTIVE"}
           f == [s EXCEPT !.it[i].flags = F]
           a == [s EXCEPT !.it[i].flags = A]
<1>1. i \in Items /\ s.it[i].flags \in SUBSET Flags
  BY LinkedItem DEF Memory, Item
<1>2. F \in SUBSET Flags /\ \A x \in {"LINKED", "SLABBED"} : x \in F <=> Has(s, i, x)
  BY <1>1 DEF Flags, Has
<1>3. A \in SUBSET Flags /\ \A x \in {"LINKED", "SLABBED"} : x \in A <=> Has(s, i, x)
  BY <1>1 DEF Flags, Has
<1>4. f = [s EXCEPT !.it[i].flags = @ \cup {"FETCHED"}] /\ a = [s EXCEPT !.it[i].flags = @ \cup {"ACTIVE"}]
  BY DEF Memory
<1> HIDE DEF F, A
<1>5. f \in Memory /\ Life(f, ext) /\ Kept(s, f, i)
  BY <1>1, <1>2, FlagLife
<1>6. a \in Memory /\ Life(a, ext) /\ Kept(s, a, i)
  BY <1>1, <1>3, FlagLife
<1> HIDE DEF f, a
<1>7. /\ do_item_update(a, i) \in Memory /\ Life(do_item_update(a, i), ext)
      /\ Kept(s, do_item_update(a, i), i)
  <2>1. /\ do_item_update(a, i) \in Memory /\ Life(do_item_update(a, i), ext)
        /\ Kept(a, do_item_update(a, i), i)
    BY <1>1, <1>6, UpdateLife
  <2> QED BY <2>1, <1>6 DEF Kept, Same, Only
<1>8. t = s \/ t = f \/ t = do_item_update(a, i) \/ t = lru_bump_async(s, i, w)
  BY <1>4 DEF Hit
<1>9. ASSUME t \in Memory, Life(t, ext), Kept(s, t, i)
      PROVE  Life(t, [ext EXCEPT ![i] = ext[i] + More(s, t)]) /\ Noted(s, t, i, w)
  <2>1. More(s, t) = 0 /\ [ext EXCEPT ![i] = ext[i] + 0] = ext
    BY <1>1, <1>9 DEF More, Kept
  <2> QED BY <2>1, <1>9 DEF Noted, Kept
<1> HIDE DEF t
<1>10. CASE t = lru_bump_async(s, i, w)
  BY <1>10, AsyncLife DEF t
<1>11. CASE t = s \/ t = f \/ t = do_item_update(a, i)
  <2>1. Kept(s, s, i)
    BY DEF Kept, Same, Only
  <2>2. t \in Memory /\ Life(t, ext) /\ Kept(s, t, i)
    BY <2>1, <1>5, <1>7, <1>11
  <2> QED BY <2>2, <1>9 DEF Kept, t
<1> QED BY <1>8, <1>10, <1>11

\* What do_item_get returns: nothing, and then no item is linked under the key,
\* or the item under the key, with a reference for the caller.
LEMMA GetLife ==
  ASSUME NEW s \in Memory, NEW ext \in [Items -> Nat], Life(s, ext), NEW k, NEW w \in Workers,
         NEW update \in BOOLEAN, now \in Nat, NEW g, g = do_item_get(s, k, w, update)
  PROVE  /\ g.s \in Memory /\ Same(s, g.s) /\ g.s.assoc \subseteq s.assoc
         /\ \A i \in s.assoc : i \notin g.s.assoc => s.it[i].key = k
         /\ g.it = NULL => /\ Life(g.s, ext) /\ g.s.bump = s.bump
                           /\ \A i \in g.s.assoc : g.s.it[i].key # k
         /\ g.it # NULL => /\ g.it \in s.assoc /\ g.it \in Items /\ s.it[g.it].key = k
                           /\ g.s.assoc = s.assoc /\ Noted(s, g.s, g.it, w)
                           /\ ~update => g.s.bump = s.bump
                           /\ Life(g.s, Got(ext, s, g.s, g.it))
<1> DEFINE i == assoc_find(s, k)
           r == refcount_incr(s, i)
           e == [ext EXCEPT ![i] = ext[i] + 1]
<1>1. /\ i # NULL => i \in s.assoc /\ i \in Items /\ s.it[i].key = k
      /\ \A j \in s.assoc : s.it[j].key = k => i = j /\ j # NULL
  BY FindItem
<1>2. g = IF i = NULL THEN [s |-> s, it |-> NULL]
          ELSE IF item_is_flushed(s, i) \/ Expired(s, i)
          THEN [s |-> do_item_remove(do_item_unlink(r, i), i), it |-> NULL]
          ELSE [s |-> IF update THEN Hit(r, i, w) ELSE r, it |-> i]
  BY DEF do_item_get
<1> HIDE DEF i, r
<1>3. CASE i = NULL
  <2>1. g.s = s /\ g.it = NULL
    BY <1>2, <1>3
  <2> QED BY <2>1, <1>1, <1>3 DEF Same
<1>4. CASE i # NULL
  <2>1. i \in s.assoc /\ i \in Items /\ s.it[i].key = k /\ ~Has(s, i, "SLABBED")
    BY <1>1, <1>4, LinkedItem
  <2>2. /\ r \in Memory /\ Life(r, e) /\ Same(s, r) /\ Only(s, r, i) /\ r.assoc = s.assoc /\ r.bump = s.bump
    BY <2>1, IncrLife DEF r
  <2>3. e \in [Items -> Nat] /\ e[i] = ext[i] + 1 /\ ext[i] \in Nat /\ \A j \in Items \ {i} : e[j] = ext[j]
    BY <2>1
  <2> HIDE DEF e
  <2>4. CASE item_is_flushed(s, i) \/ Expired(s, i)
    <3> DEFINE u == do_item_unlink(r, i)
               d == do_item_remove(u, i)
    <3>1. g.s = d /\ g.it = NULL
      BY <2>4, <1>2, <1>4
    <3>2. u \in Memory /\ Life(u, e) /\ Same(r, u) /\ u.assoc = r.assoc \ {i} /\ u.bump = r.bump
      BY <2>1, <2>2, <2>3, UnlinkLife
    <3> HIDE DEF u
    <3>3. /\ d \in Memory /\ Life(d, [e EXCEPT ![i] = e[i] - 1]) /\ Same(u, d) /\ d.assoc = u.assoc
          /\ d.bump = u.bump
      <4>1. e[i] > 0
        BY <2>3
      <4> QED BY <4>1, <2>1, <2>3, <3>2, RemoveLife
    <3> HIDE DEF d
    <3>4. [e EXCEPT ![i] = e[i] - 1] = ext
      BY <2>1, <2>3
    <3>5. Same(s, d) /\ d.assoc = s.assoc \ {i} /\ d.bump = s.bump
      BY <2>2, <3>2, <3>3 DEF Same
    <3>6. \A j \in d.assoc : d.it[j].key # k
      <4>1. \A j \in d.assoc : j \in Items /\ j \in s.assoc /\ j # i
        BY <3>5 DEF Memory
      <4> QED BY <4>1, <3>5, <1>1 DEF Same
    <3> QED BY <2>1, <3>1, <3>3, <3>4, <3>5, <3>6
  <2>5. CASE ~(item_is_flushed(s, i) \/ Expired(s, i))
    <3> DEFINE t == g.s
    <3>1. g = [s |-> IF update THEN Hit(r, i, w) ELSE r, it |-> i]
      BY <2>5, <1>2, <1>4
    <3>2. /\ t \in Memory /\ Life(t, [e EXCEPT ![i] = e[i] + More(r, t)]) /\ Same(r, t)
          /\ t.assoc = r.assoc /\ Noted(r, t, i, w) /\ (~update => t.bump = r.bump)
      <4>1. CASE update
        <5>1. t = Hit(r, i, w)
          BY <3>1, <4>1
        <5>2. i \in r.assoc
          BY <2>1, <2>2
        <5> HIDE DEF t
        <5> QED BY <4>1, <5>1, <5>2, <2>2, <2>3, HitLife
      <4>2. CASE ~update
        <5>1. t = r
          BY <3>1, <4>2
        <5>2. More(r, r) = 0 /\ [e EXCEPT ![i] = e[i] + 0] = e
          BY <2>3 DEF More
        <5> HIDE DEF t
        <5> QED BY <5>1, <5>2, <2>2 DEF Same, Noted
      <4> QED BY <4>1, <4>2
    <3>3. g.it = i /\ g = [s |-> t, it |-> i]
      BY <3>1
    <3> HIDE DEF t
    <3>4. More(r, t) = More(s, t) /\ Noted(s, t, i, w) /\ Same(s, t) /\ More(s, t) \in Nat
      BY <2>2, <3>2 DEF More, Noted, Same
    <3>5. [e EXCEPT ![i] = e[i] + More(r, t)] = Got(ext, s, t, i)
      <4>1. [e EXCEPT ![i] = e[i] + More(r, t)] = [ext EXCEPT ![i] = ext[i] + 1 + More(s, t)]
        BY <2>1, <2>3, <3>4 DEF e
      <4> QED BY <4>1 DEF Got
    <3> QED BY <1>4, <2>1, <2>2, <3>2, <3>3, <3>4, <3>5 DEF t
  <2> QED BY <2>4, <2>5
<1> QED BY <1>3, <1>4

\* do_item_get returns a memory and an item.
LEMMA GetShape ==
  ASSUME NEW s, NEW k, NEW w, NEW update \in BOOLEAN
  PROVE  do_item_get(s, k, w, update) = [s |-> do_item_get(s, k, w, update).s,
                                         it |-> do_item_get(s, k, w, update).it]
BY DEF do_item_get

\* What the item is at which the walk stops: moved, evicted or let alone.
LEMMA StopLife ==
  ASSUME NEW s \in Memory, NEW ext \in [Items -> Nat], Life(s, ext), NEW i \in s.assoc,
         NEW l \in LRUs, NEW evict \in BOOLEAN, NEW over \in BOOLEAN,
         NEW e, e = PullStop(s, i, l, evict, over)
  PROVE  /\ e.s \in Memory /\ Life(e.s, ext) /\ Same(s, e.s) /\ Only(s, e.s, i)
         /\ e.s.bump = s.bump /\ e.s.assoc \in {s.assoc, s.assoc \ {i}} /\ e.n \in Nat
<1> DEFINE F == s.it[i].flags \ {"ACTIVE"}
           f == [s EXCEPT !.it[i].flags = F]
           u == do_item_unlink(s, i)
<1>1. i \in Items /\ s.it[i].flags \in SUBSET Flags
  BY LinkedItem DEF Memory, Item
<1>2. F \in SUBSET Flags /\ \A x \in {"LINKED", "SLABBED"} : x \in F <=> Has(s, i, x)
  BY <1>1 DEF Flags, Has
<1>3. f = [s EXCEPT !.it[i].flags = @ \ {"ACTIVE"}]
  BY DEF Memory
<1> HIDE DEF F
<1>4. f \in Memory /\ Life(f, ext) /\ Kept(s, f, i)
  BY <1>1, <1>2, FlagLife
<1>5. u \in Memory /\ Life(u, ext) /\ Same(s, u) /\ Only(s, u, i) /\ u.assoc = s.assoc \ {i} /\ u.bump = s.bump
  BY <1>1, UnlinkLife
<1> HIDE DEF f, u
<1>6. ASSUME NEW x \in {"WARM", "COLD"}
      PROVE  /\ MoveTo(f, i, x) \in Memory /\ Life(MoveTo(f, i, x), ext) /\ Kept(s, MoveTo(f, i, x), i)
             /\ MoveTo(s, i, x) \in Memory /\ Life(MoveTo(s, i, x), ext) /\ Kept(s, MoveTo(s, i, x), i)
  <2>1. x \in LRUs /\ i \in f.assoc
    BY <1>4 DEF LRUs, Kept
  <2>2. MoveTo(f, i, x) \in Memory /\ Life(MoveTo(f, i, x), ext) /\ Kept(f, MoveTo(f, i, x), i)
    BY <2>1, <1>4, MoveLife
  <2>3. Kept(s, MoveTo(f, i, x), i)
    BY <2>2, <1>4 DEF Kept, Same, Only
  <2>4. MoveTo(s, i, x) \in Memory /\ Life(MoveTo(s, i, x), ext) /\ Kept(s, MoveTo(s, i, x), i)
    BY <2>1, MoveLife
  <2> QED BY <2>2, <2>3, <2>4
<1>7. \/ e = [s |-> MoveTo(f, i, "WARM"), n |-> 1]
      \/ e = [s |-> MoveTo(s, i, "COLD"), n |-> 1]
      \/ e = [s |-> u, n |-> 1]
      \/ e = [s |-> s, n |-> 0]
  BY <1>3 DEF PullStop, u
<1>8. Kept(s, s, i)
  BY DEF Kept, Same, Only
<1>9. CASE e = [s |-> u, n |-> 1]
  BY <1>5, <1>9
<1>10. CASE e = [s |-> MoveTo(f, i, "WARM"), n |-> 1]
  <2>1. e.s = MoveTo(f, i, "WARM") /\ e.n = 1
    BY <1>10
  <2> QED BY <2>1, <1>6 DEF Kept
<1>11. CASE e = [s |-> MoveTo(s, i, "COLD"), n |-> 1]
  <2>1. e.s = MoveTo(s, i, "COLD") /\ e.n = 1
    BY <1>11
  <2> QED BY <2>1, <1>6 DEF Kept
<1>12. CASE e = [s |-> s, n |-> 0]
  BY <1>12, <1>8 DEF Kept
<1> QED BY <1>7, <1>9, <1>10, <1>11, <1>12

\* What the walk carries along.
Walking == [s : Memory, n : Nat, stop : BOOLEAN]

\* A step of the walk touches no item but the one it has reached.
LEMMA VisitLife ==
  ASSUME NEW r \in Walking, NEW ext \in [Items -> Nat], Life(r.s, ext), NEW i \in r.s.assoc,
         NEW l \in LRUs, NEW evict \in BOOLEAN, NEW over \in BOOLEAN, NEW locked, now \in Nat,
         NEW v, v = Visit(r, i, l, evict, over, locked)
  PROVE  /\ v \in Walking /\ Life(v.s, ext) /\ Same(r.s, v.s) /\ v.s.bump = r.s.bump
         /\ v.s.assoc \subseteq r.s.assoc
         /\ \A j \in r.s.assoc : j \notin v.s.assoc => j = i /\ r.s.it[j].key \notin locked
<1> DEFINE s == r.s
           u == refcount_incr(s, i)
           e == [ext EXCEPT ![i] = ext[i] + 1]
           F == u.it[i].flags \ {"ACTIVE"}
           f == [u EXCEPT !.it[i].flags = F]
           p == PullStop(u, i, l, evict, over)
           \* The memory before the reference that the walk has taken is dropped.
           Held(t) == /\ t \in Memory /\ Life(t, e) /\ Same(u, t) /\ t.bump = u.bump
                      /\ t.assoc \in {u.assoc, u.assoc \ {i}}
           Dropped(t) == /\ t \in Memory /\ Life(t, ext) /\ Same(s, t) /\ t.bump = s.bump
                         /\ t.assoc \in {s.assoc, s.assoc \ {i}}
<1>1. /\ s \in Memory /\ i \in Items /\ ~Has(s, i, "SLABBED") /\ r.n \in Nat /\ r.stop \in BOOLEAN
      /\ r = [s |-> s, n |-> r.n, stop |-> r.stop]
  <2>1. s \in Memory /\ r.n \in Nat /\ r.stop \in BOOLEAN /\ r = [s |-> s, n |-> r.n, stop |-> r.stop]
    BY DEF Walking
  <2> QED BY <2>1, LinkedItem
<1>2. /\ u \in Memory /\ Life(u, e) /\ Same(s, u) /\ u.assoc = s.assoc /\ u.bump = s.bump
      /\ e \in [Items -> Nat] /\ e[i] = ext[i] + 1 /\ ext[i] \in Nat
      /\ \A j \in Items \ {i} : e[j] = ext[j]
  <2>1. /\ u \in Memory /\ Life(u, e) /\ Same(s, u) /\ u.assoc = s.assoc /\ u.bump = s.bump
    BY <1>1, IncrLife
  <2>2. /\ e \in [Items -> Nat] /\ e[i] = ext[i] + 1 /\ ext[i] \in Nat
        /\ \A j \in Items \ {i} : e[j] = ext[j]
    BY <1>1
  <2> QED BY <2>1, <2>2
<1> HIDE DEF u, e
<1>3. ASSUME NEW t, Held(t) PROVE Dropped(do_item_remove(t, i))
  <2> DEFINE d == do_item_remove(t, i)
  <2>1. e[i] > 0 /\ t \in Memory /\ Life(t, e) /\ Same(u, t) /\ t.bump = u.bump
        /\ t.assoc \in {u.assoc, u.assoc \ {i}}
    BY <1>2, <1>3
  <2>2. d \in Memory /\ Life(d, [e EXCEPT ![i] = e[i] - 1]) /\ Same(t, d) /\ d.assoc = t.assoc /\ d.bump = t.bump
    BY <1>1, <1>2, <2>1, RemoveLife
  <2>3. [e EXCEPT ![i] = e[i] - 1] = ext
    BY <1>1, <1>2
  <2> HIDE DEF d
  <2>4. Same(s, d)
    BY <1>2, <2>1, <2>2 DEF Same
  <2>5. Life(d, ext)
    BY <2>2, <2>3
  <2>6. d.bump = s.bump /\ d.assoc \in {s.assoc, s.assoc \ {i}}
    BY <1>2, <2>1, <2>2
  <2>7. Dropped(d)
    BY <2>2, <2>4, <2>5, <2>6
  <2> QED BY <2>7 DEF d
<1>4. Held(do_item_unlink(u, i))
  BY <1>1, <1>2, UnlinkLife
<1>5. Held(do_item_update_nolock(f, i))
  <2>1. F \in SUBSET Flags /\ \A x \in {"LINKED", "SLABBED"} : x \in F <=> Has(u, i, x)
    <3>1. u.it[i].flags \in SUBSET Flags
      BY <1>1, <1>2 DEF Memory, Item
    <3> QED BY <3>1 DEF Flags, Has
  <2> HIDE DEF F
  <2>2. f \in Memory /\ Life(f, e) /\ Kept(u, f, i)
    BY <1>1, <1>2, <2>1, FlagLife
  <2> HIDE DEF f
  <2>3. i \in f.assoc
    BY <1>2, <2>2 DEF Kept
  <2>4. /\ do_item_update_nolock(f, i) \in Memory /\ Life(do_item_update_nolock(f, i), e)
        /\ Kept(f, do_item_update_nolock(f, i), i)
    BY <1>2, <2>2, <2>3, NolockLife
  <2> QED BY <2>2, <2>4 DEF Kept, Same
<1>6. Held(p.s) /\ p.n \in Nat
  <2>1. i \in u.assoc
    BY <1>2
  <2> QED BY <1>2, <2>1, StopLife
<1>7. f = [u EXCEPT !.it[i].flags = @ \ {"ACTIVE"}]
  BY <1>2 DEF Memory
<1>8. \/ v = r
      \/ /\ s.it[i].key \notin locked
         /\ \/ v = [r EXCEPT !.s = do_item_remove(do_item_unlink(u, i), i), !.n = @ + 1]
            \/ v = [r EXCEPT !.s = do_item_remove(do_item_update_nolock(f, i), i), !.n = @ + 1]
            \/ v = [s |-> do_item_remove(p.s, i), n |-> r.n + p.n, stop |-> TRUE]
  <2> HIDE DEF f
  <2> QED BY <1>7 DEF Visit, u
<1> HIDE DEF p, f
<1>9. ASSUME NEW t, Dropped(t), s.it[i].key \notin locked, v.s = t, v.n \in Nat, v.stop \in BOOLEAN,
             v = [s |-> v.s, n |-> v.n, stop |-> v.stop]
      PROVE  /\ v \in Walking /\ Life(v.s, ext) /\ Same(s, v.s) /\ v.s.bump = s.bump
             /\ v.s.assoc \subseteq s.assoc
             /\ \A j \in s.assoc : j \notin v.s.assoc => j = i /\ s.it[j].key \notin locked
  BY <1>9 DEF Walking
<1>10. CASE v = r
  <2>1. Same(s, s)
    BY DEF Same
  <2> QED BY <2>1, <1>10
<1>11. CASE s.it[i].key \notin locked /\ v = [r EXCEPT !.s = do_item_remove(do_item_unlink(u, i), i), !.n = @ + 1]
  <2> DEFINE t == do_item_remove(do_item_unlink(u, i), i)
  <2>1. Dropped(t)
    BY <1>3, <1>4
  <2> HIDE DEF t, s
  <2>2. v = [s |-> t, n |-> r.n + 1, stop |-> r.stop]
    BY <1>1, <1>11 DEF t
  <2>3. v.s = t /\ v.n \in Nat /\ v.stop \in BOOLEAN /\ v = [s |-> v.s, n |-> v.n, stop |-> v.stop]
    BY <2>2, <1>1
  <2>4. s.it[i].key \notin locked
    BY <1>11
  <2> HIDE DEF Dropped
  <2> QED BY <2>1, <2>3, <2>4, <1>9 DEF s
<1>12. CASE s.it[i].key \notin locked /\ v = [r EXCEPT !.s = do_item_remove(do_item_update_nolock(f, i), i), !.n = @ + 1]
  <2> DEFINE t == do_item_remove(do_item_update_nolock(f, i), i)
  <2>1. Dropped(t)
    BY <1>3, <1>5
  <2> HIDE DEF t, s
  <2>2. v = [s |-> t, n |-> r.n + 1, stop |-> r.stop]
    BY <1>1, <1>12 DEF t
  <2>3. v.s = t /\ v.n \in Nat /\ v.stop \in BOOLEAN /\ v = [s |-> v.s, n |-> v.n, stop |-> v.stop]
    BY <2>2, <1>1
  <2>4. s.it[i].key \notin locked
    BY <1>12
  <2> HIDE DEF Dropped
  <2> QED BY <2>1, <2>3, <2>4, <1>9 DEF s
<1>13. CASE s.it[i].key \notin locked /\ v = [s |-> do_item_remove(p.s, i), n |-> r.n + p.n, stop |-> TRUE]
  <2> DEFINE t == do_item_remove(p.s, i)
  <2>1. Dropped(t)
    BY <1>3, <1>6
  <2> HIDE DEF t, s
  <2>2. v = [s |-> t, n |-> r.n + p.n, stop |-> TRUE]
    BY <1>13 DEF t
  <2>3. v.s = t /\ v.n \in Nat /\ v.stop \in BOOLEAN /\ v = [s |-> v.s, n |-> v.n, stop |-> v.stop]
    BY <2>2, <1>1, <1>6
  <2>4. s.it[i].key \notin locked
    BY <1>13
  <2> HIDE DEF Dropped
  <2> QED BY <2>1, <2>3, <2>4, <1>9 DEF s
<1> QED BY <1>8, <1>10, <1>11, <1>12, <1>13

\* lru_pull_tail keeps the life of every item, and what it takes out of the hash
\* table is not locked.
LEMMA PullLife ==
  ASSUME NEW s \in Memory, NEW ext \in [Items -> Nat], Life(s, ext), NEW l \in LRUs,
         NEW evict \in BOOLEAN, NEW over \in BOOLEAN, NEW locked, now \in Nat,
         NEW t, t = lru_pull_tail(s, l, evict, over, locked).s
  PROVE  /\ t \in Memory /\ Life(t, ext) /\ Same(s, t) /\ t.bump = s.bump
         /\ t.assoc \subseteq s.assoc
         /\ \A j \in s.assoc : j \notin t.assoc => s.it[j].key \notin locked
<1> DEFINE tail == Reverse(s.q[l])
           D(v, n) == IF n > Len(tail) THEN v ELSE Visit(v, tail[n], l, evict, over, locked)
           v0 == [s |-> s, n |-> 0, stop |-> FALSE]
           F(g) == [n \in 0 .. 5 |-> IF n = 0 THEN v0 ELSE D(g[n - 1], n)]
           walk == CHOOSE g : g = F(g)
<1>1. lru_pull_tail(s, l, evict, over, locked) = walk[5]
  BY DEF lru_pull_tail
<1>2. walk[0] = v0 /\ \A n \in 1 .. 5 : walk[n] = D(walk[n - 1], n)
  <2> DEFINE v1 == D(v0, 1)
             v2 == D(v1, 2)
             v3 == D(v2, 3)
             v4 == D(v3, 4)
             v5 == D(v4, 5)
             f == [n \in 0 .. 5 |-> IF n = 0 THEN v0 ELSE IF n = 1 THEN v1 ELSE IF n = 2 THEN v2
                                    ELSE IF n = 3 THEN v3 ELSE IF n = 4 THEN v4 ELSE v5]
  <2> HIDE DEF D, v0
  <2>1. \A n \in 0 .. 5 : f[n] = IF n = 0 THEN v0 ELSE D(f[n - 1], n)
    <3>1. f[0] = v0 /\ f[1] = v1 /\ f[2] = v2 /\ f[3] = v3 /\ f[4] = v4 /\ f[5] = v5
      <4> HIDE DEF v1, v2, v3, v4, v5
      <4> QED OBVIOUS
    <3> HIDE DEF f
    <3>2. ASSUME NEW n \in 0 .. 5 PROVE n = 0 \/ n = 1 \/ n = 2 \/ n = 3 \/ n = 4 \/ n = 5
      OBVIOUS
    <3> QED BY <3>1, <3>2
  <2>2. f = F(f)
    BY <2>1
  <2> HIDE DEF f
  <2>3. walk = F(walk)
    <3> HIDE DEF F
    <3> QED BY <2>2
  <2> HIDE DEF walk
  <2>4. F(walk)[0] = v0 /\ \A n \in 1 .. 5 : F(walk)[n] = D(walk[n - 1], n)
    OBVIOUS
  <2> HIDE DEF F
  <2> QED BY <2>3, <2>4
<1> HIDE DEF walk
<1> DEFINE r(n) == walk[n]
           Good(n) == /\ r(n) \in Walking /\ Life(r(n).s, ext) /\ Same(s, r(n).s) /\ r(n).s.bump = s.bump
                      /\ r(n).s.assoc \subseteq s.assoc
                      /\ \A j \in s.assoc : j \notin r(n).s.assoc => s.it[j].key \notin locked
                      /\ \A k \in 1 .. Len(tail) : k > n => tail[k] \in r(n).s.assoc
<1>3. /\ Len(tail) \in Nat /\ \A k \in 1 .. Len(tail) : tail[k] \in s.assoc
      /\ \A j, k \in 1 .. Len(tail) : tail[j] = tail[k] => j = k
  <2> DEFINE q == s.q[l]
  <2>1. q \in Seq(Items) /\ IsInjective(q) /\ Range(q) \subseteq s.assoc
    BY DEF Life, Queues
  <2>2. Len(q) \in Nat /\ DOMAIN q = 1 .. Len(q)
    BY <2>1, LenProperties
  <2> HIDE DEF q
  <2>3. tail = [k \in 1 .. Len(q) |-> q[Len(q) - k + 1]]
    BY DEF Reverse, q
  <2>4. Len(tail) = Len(q)
    BY <2>2, <2>3
  <2>5. \A k \in 1 .. Len(q) : tail[k] = q[Len(q) - k + 1] /\ Len(q) - k + 1 \in 1 .. Len(q)
    BY <2>2, <2>3
  <2> HIDE DEF tail
  <2>6. \A k \in 1 .. Len(q) : tail[k] \in s.assoc
    BY <2>1, <2>2, <2>5 DEF Range
  <2>7. ASSUME NEW j \in 1 .. Len(q), NEW k \in 1 .. Len(q), tail[j] = tail[k] PROVE j = k
    <3>1. Len(q) - j + 1 = Len(q) - k + 1
      BY <2>1, <2>2, <2>5, <2>7 DEF IsInjective
    <3> QED BY <3>1, <2>2
  <2> QED BY <2>2, <2>4, <2>6, <2>7
<1> HIDE DEF tail
<1>4. Good(0)
  <2>1. r(0).s = s /\ r(0) \in Walking
    BY <1>2 DEF Walking
  <2>2. Same(s, s)
    BY DEF Same
  <2> HIDE DEF r
  <2> QED BY <2>1, <2>2, <1>3
<1> HIDE DEF v0
<1>5. ASSUME NEW n \in 1 .. 5, Good(n - 1) PROVE Good(n)
  <2> DEFINE a == r(n - 1)
             b == r(n)
  <2>1. /\ a \in Walking /\ Life(a.s, ext) /\ Same(s, a.s) /\ a.s.bump = s.bump
        /\ a.s.assoc \subseteq s.assoc
        /\ \A j \in s.assoc : j \notin a.s.assoc => s.it[j].key \notin locked
        /\ \A k \in 1 .. Len(tail) : k > n - 1 => tail[k] \in a.s.assoc
    BY <1>5
  <2>2. b = D(a, n)
    BY <1>2
  <2>3. CASE n > Len(tail)
    <3>1. b = a
      BY <2>2, <2>3
    <3> HIDE DEF a, b
    <3>2. \A k \in 1 .. Len(tail) : ~(k > n)
      BY <2>3, <1>3
    <3>3. /\ b \in Walking /\ Life(b.s, ext) /\ Same(s, b.s) /\ b.s.bump = s.bump
          /\ b.s.assoc \subseteq s.assoc
          /\ \A j \in s.assoc : j \notin b.s.assoc => s.it[j].key \notin locked
          /\ \A k \in 1 .. Len(tail) : k > n => tail[k] \in b.s.assoc
      BY <3>1, <3>2, <2>1
    <3> QED BY <3>3 DEF b
  <2>4. CASE ~(n > Len(tail))
    <3> DEFINE i == tail[n]
    <3>1. b = Visit(a, i, l, evict, over, locked)
      BY <2>2, <2>4
    <3>2. n \in 1 .. Len(tail) /\ i \in a.s.assoc
      <4>1. n \in 1 .. Len(tail)
        BY <2>4, <1>3
      <4> QED BY <4>1, <2>1
    <3> HIDE DEF a, b, i
    <3>3. /\ b \in Walking /\ Life(b.s, ext) /\ Same(a.s, b.s) /\ b.s.bump = a.s.bump
          /\ b.s.assoc \subseteq a.s.assoc
          /\ \A j \in a.s.assoc : j \notin b.s.assoc => j = i /\ a.s.it[j].key \notin locked
      BY <3>1, <3>2, <2>1, VisitLife
    <3>4. Same(s, b.s)
      BY <2>1, <3>3 DEF Same
    <3>5. ASSUME NEW j \in s.assoc, j \notin b.s.assoc PROVE s.it[j].key \notin locked
      <4>1. j \in Items
        BY DEF Memory
      <4> QED BY <4>1, <3>3, <3>5, <2>1 DEF Same
    <3>6. ASSUME NEW k \in 1 .. Len(tail), k > n PROVE tail[k] \in b.s.assoc
      <4>1. k > n - 1 /\ k # n
        BY <3>6, <1>3
      <4>2. tail[k] \in a.s.assoc /\ tail[k] # i
        BY <4>1, <2>1, <1>3, <3>2 DEF i
      <4> QED BY <4>2, <3>3
    <3> QED BY <2>1, <3>3, <3>4, <3>5, <3>6 DEF b
  <2> QED BY <2>3, <2>4
<1> HIDE DEF Good
<1>6. Good(5)
  <2>1. Good(1)
    BY <1>4, <1>5
  <2>2. Good(2)
    BY <2>1, <1>5
  <2>3. Good(3)
    BY <2>2, <1>5
  <2>4. Good(4)
    BY <2>3, <1>5
  <2> QED BY <2>4, <1>5
<1>7. t = r(5).s
  BY <1>1
<1> QED BY <1>6, <1>7 DEF Good, Walking

-----------------------------------------------------------------------------
(* Counting references *)

\* The holders of an item are finitely many.
LEMMA HoldersFinite ==
  ASSUME NEW cc, NEW b, NEW i
  PROVE  /\ IsFiniteSet(ItHolders(cc, i)) /\ IsFiniteSet(OldHolders(cc, i))
         /\ IsFiniteSet(Entries(b, i)) /\ HoldersOf(cc, b, i) \in Nat
<1>1. IsFiniteSet(Workers) /\ BumpMax \in Nat
  BY MemCacheAssumption
<1>2. IsFiniteSet(Workers \X (1 .. BumpMax))
  <2>1. IsFiniteSet(1 .. BumpMax)
    BY <1>1, FS_Interval
  <2> QED BY <1>1, <2>1, FS_Product
<1>3. IsFiniteSet(ItHolders(cc, i)) /\ IsFiniteSet(OldHolders(cc, i))
  BY <1>1, FS_Subset DEF ItHolders, OldHolders
<1>4. IsFiniteSet(Entries(b, i))
  <2>1. Entries(b, i) \subseteq Workers \X (1 .. BumpMax)
    BY DEF Entries
  <2> QED BY <1>2, <2>1, FS_Subset
<1> QED BY <1>3, <1>4, FS_CardinalityType DEF HoldersOf

\* The size of the set of those of W with a property when one of them changes:
\* P are those that had it, Q those that have it now.
LEMMA OneChanges ==
  ASSUME NEW P, NEW Q, IsFiniteSet(P), IsFiniteSet(Q), NEW w,
         \A v : v # w => (v \in P <=> v \in Q)
  PROVE  Cardinality(Q) = Cardinality(P) - (IF w \in P THEN 1 ELSE 0) + (IF w \in Q THEN 1 ELSE 0)
<1>1. Cardinality(P) \in Nat /\ Cardinality(Q) \in Nat
  BY FS_CardinalityType
<1>2. CASE w \in P /\ w \in Q
  <2>1. P = Q
    BY <1>2
  <2> QED BY <1>1, <1>2, <2>1
<1>3. CASE w \in P /\ w \notin Q
  <2>1. Q = P \ {w}
    BY <1>3
  <2>2. Cardinality(P \ {w}) = Cardinality(P) - 1
    BY <1>3, FS_RemoveElement
  <2> QED BY <1>1, <1>3, <2>1, <2>2
<1>4. CASE w \notin P /\ w \in Q
  <2>1. Q = P \cup {w}
    BY <1>4
  <2>2. Cardinality(P \cup {w}) = Cardinality(P) + 1
    BY <1>4, FS_AddElement
  <2> QED BY <1>1, <1>4, <2>1, <2>2
<1>5. CASE w \notin P /\ w \notin Q
  <2>1. P = Q
    BY <1>5
  <2> QED BY <1>1, <1>5, <2>1
<1> QED BY <1>2, <1>3, <1>4, <1>5

\* f with x for worker w.
With(f, w, x) == [f EXCEPT ![w] = x]

\* What the command of one worker gains or loses.
LEMMA HoldersUpdate ==
  ASSUME NEW cc, DOMAIN cc = Workers, NEW w \in Workers, NEW x, NEW b, NEW i
  PROVE  HoldersOf(With(cc, w, x), b, i) = HoldersOf(cc, b, i) - Ref(cc[w], i) + Ref(x, i)
<1> DEFINE dd == With(cc, w, x)
<1>1. dd[w] = x /\ \A v \in Workers : v # w => dd[v] = cc[v]
  BY DEF With
<1> HIDE DEF dd
<1> DEFINE P(f) == ItHolders(f, i)
           Q(f) == OldHolders(f, i)
<1>2. IsFiniteSet(P(cc)) /\ IsFiniteSet(P(dd)) /\ IsFiniteSet(Q(cc)) /\ IsFiniteSet(Q(dd))
  BY HoldersFinite
<1>3. Cardinality(P(dd)) = Cardinality(P(cc)) - (IF w \in P(cc) THEN 1 ELSE 0) + (IF w \in P(dd) THEN 1 ELSE 0)
  <2>1. \A v : v # w => (v \in P(cc) <=> v \in P(dd))
    BY <1>1 DEF ItHolders
  <2> HIDE DEF P
  <2> QED BY <1>2, <2>1, OneChanges
<1>4. Cardinality(Q(dd)) = Cardinality(Q(cc)) - (IF w \in Q(cc) THEN 1 ELSE 0) + (IF w \in Q(dd) THEN 1 ELSE 0)
  <2>1. \A v : v # w => (v \in Q(cc) <=> v \in Q(dd))
    BY <1>1 DEF OldHolders
  <2> HIDE DEF Q
  <2> QED BY <1>2, <2>1, OneChanges
<1>5. /\ w \in P(cc) <=> cc[w].it = i
      /\ w \in P(dd) <=> x.it = i
      /\ w \in Q(cc) <=> cc[w].old = i
      /\ w \in Q(dd) <=> x.old = i
  BY <1>1 DEF ItHolders, OldHolders
<1>6. /\ Cardinality(P(cc)) \in Nat /\ Cardinality(Q(cc)) \in Nat /\ Cardinality(P(dd)) \in Nat
      /\ Cardinality(Q(dd)) \in Nat /\ Cardinality(Entries(b, i)) \in Nat
  BY <1>2, HoldersFinite, FS_CardinalityType
<1>7. /\ HoldersOf(cc, b, i) = Cardinality(P(cc)) + Cardinality(Q(cc)) + Cardinality(Entries(b, i))
      /\ HoldersOf(dd, b, i) = Cardinality(P(dd)) + Cardinality(Q(dd)) + Cardinality(Entries(b, i))
  BY DEF HoldersOf
<1> HIDE DEF P, Q
<1> QED BY <1>3, <1>4, <1>5, <1>6, <1>7 DEF dd, Ref

\* What a new entry adds to the references of its item.
LEMMA EntryAdded ==
  ASSUME NEW b \in [Workers -> Seq(Items)], NEW w \in Workers, NEW j \in Items,
         Len(b[w]) < BumpMax, NEW cc, NEW i
  PROVE  HoldersOf(cc, With(b, w, Append(b[w], j)), i)
           = HoldersOf(cc, b, i) + (IF i = j THEN 1 ELSE 0)
<1> DEFINE d == With(b, w, Append(b[w], j))
           n == Len(b[w]) + 1
           y == <<w, n>>
           P == Entries(b, i)
           Q == Entries(d, i)
<1>1. /\ Len(b[w]) \in Nat /\ BumpMax \in Nat /\ n \in 1 .. BumpMax
      /\ Len(d[w]) = n /\ d[w][n] = j /\ \A k \in 1 .. Len(b[w]) : d[w][k] = b[w][k]
      /\ \A v \in Workers : v # w => d[v] = b[v]
  <2>1. b[w] \in Seq(Items) /\ Len(b[w]) \in Nat /\ BumpMax \in Nat
    BY MemCacheAssumption, LenProperties
  <2>2. /\ Len(Append(b[w], j)) = Len(b[w]) + 1 /\ Append(b[w], j)[Len(b[w]) + 1] = j
        /\ \A k \in 1 .. Len(b[w]) : Append(b[w], j)[k] = b[w][k]
    BY <2>1, AppendProperties
  <2>3. d[w] = Append(b[w], j) /\ \A v \in Workers : v # w => d[v] = b[v]
    BY DEF With
  <2> HIDE DEF d
  <2> QED BY <2>1, <2>2, <2>3
<1> HIDE DEF d
<1>2. \A x : x # y => (x \in P <=> x \in Q)
  <2> SUFFICES ASSUME NEW x \in Workers \X (1 .. BumpMax), x # y
               PROVE  x[2] <= Len(b[x[1]]) /\ b[x[1]][x[2]] = i <=> x[2] <= Len(d[x[1]]) /\ d[x[1]][x[2]] = i
    BY DEF Entries
  <2>1. x[1] \in Workers /\ x[2] \in 1 .. BumpMax /\ x = <<x[1], x[2]>>
    OBVIOUS
  <2>2. CASE x[1] # w
    BY <2>1, <2>2, <1>1
  <2>3. CASE x[1] = w
    <3>1. x[2] # n
      BY <2>1, <2>3
    <3>2. x[2] <= Len(d[w]) <=> x[2] <= Len(b[w])
      BY <3>1, <2>1, <1>1
    <3>3. x[2] <= Len(b[w]) => d[w][x[2]] = b[w][x[2]]
      BY <2>1, <1>1
    <3> QED BY <2>3, <3>2, <3>3
  <2> QED BY <2>2, <2>3
<1>3. y \notin P /\ (y \in Q <=> i = j)
  <2>1. y[1] = w /\ y[2] = n /\ y \in Workers \X (1 .. BumpMax)
    BY <1>1
  <2> QED BY <2>1, <1>1 DEF Entries
<1>4. IsFiniteSet(P) /\ IsFiniteSet(Q) /\ Cardinality(P) \in Nat /\ Cardinality(Q) \in Nat
  BY HoldersFinite, FS_CardinalityType
<1> HIDE DEF P, Q, y
<1>5. Cardinality(Q) = Cardinality(P) - (IF y \in P THEN 1 ELSE 0) + (IF y \in Q THEN 1 ELSE 0)
  BY <1>2, <1>4, OneChanges
<1>6. Cardinality(Q) = Cardinality(P) + (IF i = j THEN 1 ELSE 0)
  BY <1>3, <1>4, <1>5
<1>7. /\ Cardinality(ItHolders(cc, i)) \in Nat /\ Cardinality(OldHolders(cc, i)) \in Nat
  BY HoldersFinite, FS_CardinalityType
<1> QED BY <1>4, <1>6, <1>7 DEF HoldersOf, P, Q, d

\* What taking the first entry off a bump buffer removes.
LEMMA EntryTaken ==
  ASSUME NEW b \in [Workers -> Seq(Items)], NEW w \in Workers, b[w] # <<>>,
         Len(b[w]) <= BumpMax, NEW cc, NEW i
  PROVE  HoldersOf(cc, With(b, w, Tail(b[w])), i)
           = HoldersOf(cc, b, i) - (IF i = Head(b[w]) THEN 1 ELSE 0)
<1> DEFINE d == With(b, w, Tail(b[w]))
           y == <<w, 1>>
           P == Entries(b, i)
           Q == Entries(d, i)
           R == P \ {y}
<1>1. /\ Len(b[w]) \in Nat /\ Len(b[w]) > 0 /\ BumpMax \in Nat /\ Head(b[w]) = b[w][1]
      /\ Len(d[w]) = Len(b[w]) - 1 /\ \A k \in 1 .. Len(b[w]) - 1 : d[w][k] = b[w][k + 1]
      /\ \A v \in Workers : v # w => d[v] = b[v]
  <2>1. b[w] \in Seq(Items) /\ BumpMax \in Nat
    BY MemCacheAssumption
  <2>2. /\ Head(b[w]) = b[w][1] /\ Len(b[w]) \in Nat \ {0} /\ Len(Tail(b[w])) = Len(b[w]) - 1
        /\ \A k \in 1 .. Len(Tail(b[w])) : Tail(b[w])[k] = b[w][k + 1]
    BY <2>1, HeadTailProperties
  <2>3. d[w] = Tail(b[w]) /\ \A v \in Workers : v # w => d[v] = b[v]
    BY DEF With
  <2> HIDE DEF d
  <2> QED BY <2>1, <2>2, <2>3
<1> HIDE DEF d
<1> DEFINE h(x) == IF x[1] = w THEN <<w, x[2] + 1>> ELSE x
           f == [x \in Q |-> h(x)]
<1>2. f \in Bijection(Q, R)
  <2>1. \A x \in Workers \X (1 .. BumpMax) : x[1] \in Workers /\ x[2] \in 1 .. BumpMax /\ x = <<x[1], x[2]>>
    OBVIOUS
  <2>2. ASSUME NEW x \in Q PROVE h(x) \in R
    <3>1. /\ x \in Workers \X (1 .. BumpMax) /\ x[2] <= Len(d[x[1]]) /\ d[x[1]][x[2]] = i
      BY DEF Entries
    <3>2. x[1] \in Workers /\ x[2] \in 1 .. BumpMax /\ x = <<x[1], x[2]>>
      BY <2>1, <3>1
    <3>3. CASE x[1] = w
      <4>1. x[2] + 1 <= Len(b[w]) /\ x[2] + 1 \in 1 .. BumpMax /\ b[w][x[2] + 1] = i /\ x[2] + 1 # 1
        BY <1>1, <3>1, <3>2, <3>3
      <4>2. h(x) = <<w, x[2] + 1>> /\ h(x)[1] = w /\ h(x)[2] = x[2] + 1 /\ h(x) # y
        BY <3>3, <4>1
      <4> HIDE DEF h
      <4> QED BY <4>1, <4>2 DEF Entries
    <3>4. CASE x[1] # w
      <4>1. x # y
        BY <3>2, <3>4
      <4> QED BY <4>1, <1>1, <3>1, <3>2, <3>4 DEF Entries
    <3> QED BY <3>3, <3>4
  <2>3. ASSUME NEW x \in Q, NEW z \in Q, h(x) = h(z) PROVE x = z
    <3>1. x \in Workers \X (1 .. BumpMax) /\ z \in Workers \X (1 .. BumpMax)
      BY DEF Entries
    <3>2. x[2] \in 1 .. BumpMax /\ x = <<x[1], x[2]>> /\ z[2] \in 1 .. BumpMax /\ z = <<z[1], z[2]>>
      BY <2>1, <3>1
    <3>3. CASE x[1] = w /\ z[1] = w
      BY <2>3, <3>2, <3>3
    <3>4. CASE x[1] = w /\ z[1] # w
      BY <2>3, <3>2, <3>4
    <3>5. CASE x[1] # w /\ z[1] = w
      BY <2>3, <3>2, <3>5
    <3>6. CASE x[1] # w /\ z[1] # w
      BY <2>3, <3>6
    <3> QED BY <3>3, <3>4, <3>5, <3>6
  <2>4. ASSUME NEW z \in R PROVE \E x \in Q : h(x) = z
    <3>1. z \in Workers \X (1 .. BumpMax) /\ z[2] <= Len(b[z[1]]) /\ b[z[1]][z[2]] = i /\ z # y
      BY DEF Entries
    <3>2. z[1] \in Workers /\ z[2] \in 1 .. BumpMax /\ z = <<z[1], z[2]>>
      BY <2>1, <3>1
    <3>3. CASE z[1] = w
      <4> DEFINE x == <<w, z[2] - 1>>
      <4>1. z[2] # 1
        BY <3>1, <3>2, <3>3
      <4>2. z[2] - 1 \in 1 .. BumpMax /\ z[2] - 1 <= Len(d[w]) /\ d[w][z[2] - 1] = i /\ z[2] - 1 + 1 = z[2]
        BY <4>1, <1>1, <3>1, <3>2, <3>3
      <4>3. x[1] = w /\ x[2] = z[2] - 1 /\ x \in Workers \X (1 .. BumpMax)
        BY <4>2
      <4>4. x \in Q
        BY <4>2, <4>3 DEF Entries
      <4>5. h(x) = z
        BY <4>2, <4>3, <3>2, <3>3
      <4> QED BY <4>4, <4>5
    <3>4. CASE z[1] # w
      <4>1. z \in Q /\ h(z) = z
        BY <1>1, <3>1, <3>2, <3>4 DEF Entries
      <4> QED BY <4>1
    <3> QED BY <3>3, <3>4
  <2> HIDE DEF Q, R, h
  <2>5. f \in [Q -> R] /\ \A x \in Q : f[x] = h(x)
    BY <2>2
  <2> HIDE DEF f
  <2>6. f \in Injection(Q, R)
    BY <2>3, <2>5 DEF Injection, IsInjective
  <2>7. f \in Surjection(Q, R)
    BY <2>4, <2>5 DEF Surjection
  <2> QED BY <2>6, <2>7 DEF Bijection
<1>3. IsFiniteSet(P) /\ IsFiniteSet(Q) /\ IsFiniteSet(R) /\ Cardinality(P) \in Nat
  <2>1. IsFiniteSet(P) /\ IsFiniteSet(Q)
    BY HoldersFinite
  <2> QED BY <2>1, FS_Subset, FS_CardinalityType
<1>4. Cardinality(Q) = Cardinality(R)
  <2> HIDE DEF f, Q, R
  <2> QED BY <1>2, <1>3, FS_Bijection DEF ExistsBijection
<1>5. y \in P <=> i = Head(b[w])
  <2>1. y[1] = w /\ y[2] = 1 /\ y \in Workers \X (1 .. BumpMax)
    BY <1>1
  <2> QED BY <2>1, <1>1 DEF Entries
<1>6. Cardinality(R) = Cardinality(P) - (IF i = Head(b[w]) THEN 1 ELSE 0)
  <2>1. CASE y \in P
    BY <2>1, <1>3, <1>5, FS_RemoveElement
  <2>2. CASE y \notin P
    <3>1. R = P
      BY <2>2
    <3> HIDE DEF R, P
    <3> QED BY <3>1, <2>2, <1>3, <1>5
  <2> QED BY <2>1, <2>2
<1>7. /\ Cardinality(ItHolders(cc, i)) \in Nat /\ Cardinality(OldHolders(cc, i)) \in Nat
  BY HoldersFinite, FS_CardinalityType
<1> HIDE DEF R
<1> QED BY <1>3, <1>4, <1>6, <1>7 DEF HoldersOf, P, Q, d

-----------------------------------------------------------------------------
(* What a step does to the items that it does not own *)

\* From s to t: items keep their key, value and CAS id, but for item n, which
\* gets a new CAS id if it is in the hash table of t, and item o, which leaves
\* it.  Nothing but n enters the table, and only keys in K lose their item.
Evolves(s, t, K, n, o) ==
  /\ s.cas_id <= t.cas_id
  /\ \A i \in Items : /\ i # n => t.it[i].val = s.it[i].val
                      /\ i # n \/ i \in s.assoc => t.it[i].key = s.it[i].key
                      /\ i # n /\ i # o => t.it[i].cas = s.it[i].cas
  /\ \A i \in t.assoc : i = n \/ i \in s.assoc
  /\ \A i \in s.assoc : i \notin t.assoc => s.it[i].key \in K
  /\ o \notin t.assoc
  /\ n \in t.assoc => s.cas_id < t.it[n].cas /\ t.it[n].cas <= t.cas_id

\* Steps that only take items out.
LEMMA SameEvolves ==
  ASSUME NEW s \in Memory, NEW t, Same(s, t), t.assoc \subseteq s.assoc, NEW K,
         \A i \in s.assoc : i \notin t.assoc => s.it[i].key \in K
  PROVE  Evolves(s, t, K, NULL, NULL)
<1>1. s.cas_id \in Nat /\ NULL \notin t.assoc
  BY MemCacheAssumption DEF Memory
<1> QED BY <1>1 DEF Evolves, Same

\* A step that only takes items out, then another one.
LEMMA EvolvesAfter ==
  ASSUME NEW s \in Memory, NEW t \in Memory, NEW u \in Memory, NEW K, NEW n, NEW o,
         n \in s.assoc => n \in t.assoc,
         Evolves(s, t, K, NULL, NULL), Evolves(t, u, K, n, o)
  PROVE  Evolves(s, u, K, n, o)
<1>1. /\ s.cas_id \in Nat /\ t.cas_id \in Nat /\ u.cas_id \in Nat
      /\ s.assoc \subseteq Items /\ t.assoc \subseteq Items /\ u.assoc \subseteq Items
      /\ \A i \in Items : u.it[i].cas \in Nat
      /\ NULL \notin Items
  BY MemCacheAssumption DEF Memory, Item
<1>2. /\ s.cas_id <= t.cas_id /\ \A i \in t.assoc : i \in s.assoc
      /\ \A i \in Items : t.it[i].val = s.it[i].val /\ t.it[i].key = s.it[i].key /\ t.it[i].cas = s.it[i].cas
      /\ \A i \in s.assoc : i \notin t.assoc => s.it[i].key \in K
  BY <1>1 DEF Evolves
<1>3. \A i \in Items : /\ i # n => u.it[i].val = s.it[i].val
                       /\ i # n /\ i # o => u.it[i].cas = s.it[i].cas
  BY <1>2 DEF Evolves
<1>4. ASSUME NEW i \in s.assoc, i \notin u.assoc PROVE s.it[i].key \in K
  BY <1>1, <1>2, <1>4 DEF Evolves
<1>5. o \notin u.assoc
  BY DEF Evolves
<1>6. ASSUME n \in u.assoc PROVE s.cas_id < u.it[n].cas /\ u.it[n].cas <= u.cas_id
  BY <1>1, <1>2, <1>6 DEF Evolves
<1>7. s.cas_id <= u.cas_id /\ \A i \in u.assoc : i = n \/ i \in s.assoc
  BY <1>1, <1>2 DEF Evolves
<1>8. ASSUME NEW i \in Items, i # n \/ i \in s.assoc PROVE u.it[i].key = s.it[i].key
  <2>1. i # n \/ i \in t.assoc
    BY <1>8
  <2> QED BY <2>1, <1>2 DEF Evolves
<1> QED BY <1>3, <1>4, <1>5, <1>6, <1>7, <1>8 DEF Evolves

\* A step, then one that leaves the hash table alone.
LEMMA EvolvesBefore ==
  ASSUME NEW s \in Memory, NEW t \in Memory, NEW u \in Memory, NEW K, NEW n, NEW o,
         Evolves(s, t, K, n, o), Evolves(t, u, K, NULL, NULL), t.assoc = u.assoc
  PROVE  Evolves(s, u, K, n, o)
<1>1. /\ s.cas_id \in Nat /\ t.cas_id \in Nat /\ u.cas_id \in Nat
      /\ s.assoc \subseteq Items /\ t.assoc \subseteq Items /\ \A i \in Items : t.it[i].cas \in Nat
      /\ NULL \notin Items
  BY MemCacheAssumption DEF Memory, Item
<1>2. /\ t.cas_id <= u.cas_id
      /\ \A i \in Items : u.it[i].val = t.it[i].val /\ u.it[i].key = t.it[i].key /\ u.it[i].cas = t.it[i].cas
  BY <1>1 DEF Evolves
<1>3. \A i \in Items : /\ i # n => u.it[i].val = s.it[i].val
                       /\ i # n \/ i \in s.assoc => u.it[i].key = s.it[i].key
                       /\ i # n /\ i # o => u.it[i].cas = s.it[i].cas
  BY <1>2 DEF Evolves
<1>4. ASSUME n \in u.assoc PROVE s.cas_id < u.it[n].cas /\ u.it[n].cas <= u.cas_id
  <2>1. s.cas_id < t.it[n].cas /\ t.it[n].cas <= t.cas_id /\ u.it[n].cas = t.it[n].cas /\ t.it[n].cas \in Nat
    BY <1>1, <1>2, <1>4 DEF Evolves
  <2> QED BY <2>1, <1>1, <1>2
<1>5. /\ s.cas_id <= u.cas_id /\ \A i \in u.assoc : i = n \/ i \in s.assoc
      /\ \A i \in s.assoc : i \notin u.assoc => s.it[i].key \in K
      /\ o \notin u.assoc
  BY <1>1, <1>2 DEF Evolves
<1> QED BY <1>3, <1>4, <1>5 DEF Evolves

-----------------------------------------------------------------------------
(* Writing to items, and putting one in the place of another *)

\* The references ext and one more to item j, if j is one.
Plus(ext, j) == IF j = NULL THEN ext ELSE [ext EXCEPT ![j] = ext[j] + 1]

\* The expiry time of an item is written.
LEMMA ExptimeLife ==
  ASSUME NEW s \in Memory, NEW ext \in [Items -> Nat], Life(s, ext), NEW i \in Items, NEW e \in Int
  PROVE  /\ [s EXCEPT !.it[i].exptime = e] \in Memory
         /\ Life([s EXCEPT !.it[i].exptime = e], ext)
         /\ Kept(s, [s EXCEPT !.it[i].exptime = e], i)
<1> DEFINE x == [s.it[i] EXCEPT !.exptime = e]
           t == [s EXCEPT !.it[i] = x]
<1>1. s.it[i] \in Item /\ s.it[i].refcount = ext[i] + Linked(s, i)
  BY DEF Memory, Life, LifeOf
<1>2. /\ x \in Item /\ x.flags = s.it[i].flags /\ x.lru = s.it[i].lru /\ x.refcount = s.it[i].refcount
      /\ x.key = s.it[i].key /\ x.val = s.it[i].val /\ x.cas = s.it[i].cas
  BY <1>1 DEF Item
<1>3. [s EXCEPT !.it[i].exptime = e] = t
  BY DEF Memory, Item
<1>4. t.it[i] = x /\ Only(s, t, i) /\ t.assoc = s.assoc /\ t.bump = s.bump /\ t.cas_id = s.cas_id
  BY DEF Memory, Only
<1> HIDE DEF x
<1>5. /\ "LINKED" \in x.flags <=> Has(s, i, "LINKED")
      /\ x.refcount = ext[i] + (IF "LINKED" \in x.flags THEN 1 ELSE 0)
      /\ "SLABBED" \in x.flags <=> x.refcount = 0
      /\ "SLABBED" \notin x.flags => x.lru \in LRUs
  BY <1>1, <1>2 DEF Life, LifeOf, Linked, Has
<1>6. t \in Memory /\ Life(t, [ext EXCEPT ![i] = ext[i]])
  BY <1>2, <1>5, SetItem
<1>7. [ext EXCEPT ![i] = ext[i]] = ext
  OBVIOUS
<1> HIDE DEF t
<1>8. Kept(s, t, i)
  BY <1>2, <1>4 DEF Kept, Same, Only
<1> QED BY <1>3, <1>6, <1>7, <1>8

\* A free chunk becomes a new item, with a reference for the command.
LEMMA NewLife ==
  ASSUME NEW s \in Memory, NEW ext \in [Items -> Nat], Life(s, ext), NEW i \in Items,
         Has(s, i, "SLABBED"), NEW k \in Keys, NEW v \in Val, NEW cas \in Nat, NEW e \in Int,
         NEW t, t = NewItem(s, i, k, v, cas, e), NEW K
  PROVE  /\ t \in Memory /\ Life(t, Plus(ext, i)) /\ ext[i] = 0
         /\ i \notin s.assoc /\ t.assoc = s.assoc /\ t.bump = s.bump /\ t.cas_id = s.cas_id
         /\ t.it[i].key = k /\ t.it[i].val = v /\ t.it[i].cas = cas
         /\ Only(s, t, i) /\ Evolves(s, t, K, i, NULL)
<1> DEFINE x == [FreeItem EXCEPT !.key = k, !.val = v, !.cas = cas, !.lru = "HOT",
                                 !.exptime = e, !.refcount = 1, !.flags = {}]
<1>1. /\ s.it[i].refcount = 0 /\ ~Has(s, i, "LINKED") /\ i \notin s.assoc /\ ext[i] = 0
      /\ ext[i] \in Nat /\ i # NULL
  BY MemCacheAssumption DEF Life, LifeOf, Linked
<1>2. /\ x \in Item /\ x.flags = {} /\ x.refcount = 1 /\ x.lru \in LRUs
      /\ x.key = k /\ x.val = v /\ x.cas = cas
  <2>1. FreeItem \in Item
    BY DEF FreeItem, Item, Flags, Val
  <2>2. "HOT" \in LRUs
    BY DEF LRUs
  <2> QED BY <2>1, <2>2 DEF Item
<1>3. t = [s EXCEPT !.it[i] = x]
  BY DEF NewItem
<1>5. /\ t.it[i] = x /\ Only(s, t, i) /\ t.assoc = s.assoc /\ t.bump = s.bump
      /\ t.cas_id = s.cas_id /\ s.cas_id \in Nat /\ s.assoc \subseteq Items
  BY <1>3 DEF Memory, Only
<1> HIDE DEF x
<1>6. [s EXCEPT !.it[i] = x] \in Memory /\ Life([s EXCEPT !.it[i] = x], [ext EXCEPT ![i] = 1])
  <2>1. /\ "LINKED" \in x.flags <=> Has(s, i, "LINKED")
        /\ x.refcount = 1 + (IF "LINKED" \in x.flags THEN 1 ELSE 0)
        /\ "SLABBED" \in x.flags <=> x.refcount = 0
    BY <1>1, <1>2
  <2> QED BY <2>1, <1>1, <1>2, SetItem
<1>7. Plus(ext, i) = [ext EXCEPT ![i] = 1]
  BY <1>1 DEF Plus
<1>8. Evolves(s, t, K, i, NULL)
  <2>1. NULL \notin t.assoc
    BY <1>5, MemCacheAssumption DEF Memory
  <2> QED BY <2>1, <1>1, <1>5 DEF Evolves, Only
<1> QED BY <1>1, <1>2, <1>3, <1>5, <1>6, <1>7, <1>8

\* A new item takes the place of the old one in the hash table.
LEMMA ReplaceLife ==
  ASSUME NEW s \in Memory, NEW ext \in [Items -> Nat], Life(s, ext), NEW old \in s.assoc,
         NEW i \in Items, i \notin s.assoc, ext[i] > 0, s.it[i].key = s.it[old].key, now \in Nat,
         NEW t, t = do_item_replace(s, old, i), NEW K, s.it[old].key \in K
  PROVE  /\ t \in Memory /\ Life(t, ext) /\ t.bump = s.bump
         /\ t.assoc = (s.assoc \ {old}) \cup {i} /\ t.cas_id = s.cas_id + 1
         /\ t.it[i].cas = s.cas_id + 1
         /\ t.it[i].val = s.it[i].val /\ t.it[i].key = s.it[i].key
         /\ Evolves(s, t, K, i, NULL)
<1> DEFINE u == do_item_unlink(s, old)
<1>1. old \in Items /\ i # old /\ s.it[old].key \in Keys /\ s.cas_id \in Nat /\ s.assoc \subseteq Items
  BY LinkedItem DEF Memory
<1>2. /\ u \in Memory /\ Life(u, ext) /\ Same(s, u) /\ u.assoc = s.assoc \ {old} /\ u.bump = s.bump
  BY <1>1, UnlinkLife
<1>3. t = do_item_link(u, i)
  BY DEF do_item_replace
<1> HIDE DEF u
<1>4. /\ i \notin u.assoc /\ u.it[i].key \in Keys
      /\ \A j \in u.assoc : u.it[j].key # u.it[i].key
  <2>1. \A j \in s.assoc : s.it[j].key = s.it[old].key => j = old
    BY DEF Life
  <2> QED BY <2>1, <1>1, <1>2 DEF Same
<1>5. /\ t \in Memory /\ Life(t, ext) /\ Only(u, t, i)
      /\ t.assoc = u.assoc \cup {i} /\ t.bump = u.bump
      /\ t.cas_id = u.cas_id + 1 /\ t.it[i].cas = u.cas_id + 1
      /\ t.it[i].key = u.it[i].key /\ t.it[i].val = u.it[i].val
  BY <1>2, <1>3, <1>4, LinkLife
<1>6. u.cas_id = s.cas_id /\ u.it[i].val = s.it[i].val /\ u.it[i].key = s.it[i].key
  BY <1>2 DEF Same
<1>7. Evolves(s, t, K, i, NULL)
  <2>1. NULL \notin t.assoc
    BY <1>5, MemCacheAssumption DEF Memory
  <2> QED BY <2>1, <1>1, <1>2, <1>5, <1>6 DEF Evolves, Same, Only
<1> QED BY <1>2, <1>5, <1>6, <1>7

\* The reference of the caller, if there is one, is dropped.
LEMMA UnrefLife ==
  ASSUME NEW s \in Memory, NEW ext \in [Items -> Nat], NEW j \in Items \cup {NULL},
         Life(s, Plus(ext, j)), NEW K, NEW t, t = Unref(s, j)
  PROVE  /\ t \in Memory /\ Life(t, ext) /\ Same(s, t) /\ t.assoc = s.assoc /\ t.bump = s.bump
         /\ Evolves(s, t, K, NULL, NULL)
<1>1. /\ t \in Memory /\ Life(t, ext) /\ Same(s, t) /\ t.assoc = s.assoc /\ t.bump = s.bump
  <2>1. CASE j = NULL
    BY <2>1 DEF Unref, Plus, Same
  <2>2. CASE j # NULL
    <3> DEFINE e == [ext EXCEPT ![j] = ext[j] + 1]
    <3>0. /\ j \in Items /\ ext[j] \in Nat /\ e \in [Items -> Nat] /\ e[j] = ext[j] + 1
          /\ \A i \in Items \ {j} : e[i] = ext[i]
      BY <2>2
    <3>1. e[j] > 0 /\ [e EXCEPT ![j] = e[j] - 1] = ext
      <4>1. e[j] > 0 /\ e[j] - 1 = ext[j]
        BY <3>0
      <4> HIDE DEF e
      <4>2. \A i \in Items : [e EXCEPT ![j] = e[j] - 1][i] = ext[i]
        BY <3>0, <4>1
      <4> QED BY <3>0, <4>1, <4>2
    <3>2. Life(s, e) /\ t = do_item_remove(s, j)
      BY <2>2 DEF Plus, Unref
    <3> HIDE DEF e
    <3> QED BY <3>0, <3>1, <3>2, RemoveLife
  <2> QED BY <2>1, <2>2
<1> QED BY <1>1, SameEvolves

\* What a get g without a hit has done to s: nothing, or it took out an item
\* that is flushed or expired; and what it has found.
Peeked(s, ext, g, K, k) ==
  /\ g.s \in Memory /\ Same(s, g.s) /\ g.s.assoc \subseteq s.assoc /\ g.s.bump = s.bump
  /\ Life(g.s, Plus(ext, g.it)) /\ Plus(ext, g.it) \in [Items -> Nat]
  /\ Evolves(s, g.s, K, NULL, NULL)
  /\ g.it \in Items \cup {NULL}
  /\ g.it = NULL => \A i \in g.s.assoc : g.s.it[i].key # k
  /\ g.it # NULL => /\ g.it \in g.s.assoc /\ g.s.it[g.it].key = k /\ g.s.assoc = s.assoc
                    /\ s.it[g.it].key = k /\ Plus(ext, g.it)[g.it] = ext[g.it] + 1

\* do_item_get without a hit: the item under a key, if one is linked there.
LEMMA PeekAs ==
  ASSUME NEW s \in Memory, NEW ext \in [Items -> Nat], Life(s, ext), NEW k, NEW w \in Workers,
         NEW u \in BOOLEAN, ~u, now \in Nat, NEW g, g = do_item_get(s, k, w, u), NEW K, k \in K
  PROVE  Peeked(s, ext, g, K, k)
<1>1. g.s \in Memory /\ Same(s, g.s) /\ g.s.assoc \subseteq s.assoc
  BY GetLife
<1>2. \A i \in s.assoc : i \notin g.s.assoc => s.it[i].key = k
  BY GetLife
<1>3. g.it = NULL => Life(g.s, ext) /\ g.s.bump = s.bump
  BY GetLife
<1>4. g.it = NULL => \A i \in g.s.assoc : g.s.it[i].key # k
  BY GetLife
<1>5. g.it # NULL => g.it \in s.assoc /\ g.it \in Items /\ s.it[g.it].key = k /\ g.s.assoc = s.assoc
  BY GetLife
<1>6. g.it # NULL => g.s.bump = s.bump
  BY GetLife
<1>7. g.it # NULL => Life(g.s, Got(ext, s, g.s, g.it))
  BY GetLife
<1>8. Evolves(s, g.s, K, NULL, NULL)
  BY <1>1, <1>2, SameEvolves
<1>9. CASE g.it = NULL
  BY <1>1, <1>3, <1>4, <1>8, <1>9 DEF Plus, Peeked
<1>10. CASE g.it # NULL
  <2> DEFINE i == g.it
             t == g.s
  <2>1. i \in Items /\ ext[i] \in Nat /\ i # NULL /\ More(s, t) = 0
    BY <1>5, <1>6, <1>10 DEF More
  <2> HIDE DEF i, t
  <2>2. ext[i] + 1 + More(s, t) = ext[i] + 1
    BY <2>1
  <2>3. Got(ext, s, t, i) = Plus(ext, i) /\ Plus(ext, i) \in [Items -> Nat] /\ Plus(ext, i)[i] = ext[i] + 1
    <3>1. Plus(ext, i) = [ext EXCEPT ![i] = ext[i] + 1]
      BY <2>1, Zenon DEF Plus
    <3>2. Got(ext, s, t, i) = [ext EXCEPT ![i] = ext[i] + 1]
      BY <2>2 DEF Got
    <3> QED BY <2>1, <3>1, <3>2
  <2>4. t.it[i].key = k
    BY <1>1, <1>5, <1>10, <2>1 DEF Same, i, t
  <2> QED BY <1>1, <1>5, <1>6, <1>7, <1>8, <1>10, <2>3, <2>4 DEF i, t, Peeked
<1> QED BY <1>9, <1>10

\* As the callers write it.
LEMMA PeekLife ==
  ASSUME NEW s \in Memory, NEW ext \in [Items -> Nat], Life(s, ext), NEW k, NEW w \in Workers,
         now \in Nat, NEW K, k \in K
  PROVE  Peeked(s, ext, do_item_get(s, k, w, DONT_UPDATE), K, k)
<1>1. DONT_UPDATE \in BOOLEAN /\ ~DONT_UPDATE
  BY DEF DONT_UPDATE
<1> QED BY <1>1, PeekAs

\* do_store_item links the new item in place of the old one, or not.
LEMMA StoreLife ==
  ASSUME NEW s \in Memory, NEW ext \in [Items -> Nat], Life(s, ext), NEW old \in Items \cup {NULL},
         NEW i \in Items, i \notin s.assoc, ext[i] > 0, s.it[i].key \in Keys, now \in Nat,
         old = NULL => \A j \in s.assoc : s.it[j].key # s.it[i].key,
         old # NULL => old \in s.assoc /\ s.it[old].key = s.it[i].key,
         NEW comm, NEW t, t = Store(s, comm, i, old).s, NEW K, s.it[i].key \in K
  PROVE  /\ t \in Memory /\ Life(t, ext) /\ t.bump = s.bump
         /\ t.it[i].key = s.it[i].key /\ t.it[i].val = s.it[i].val
         /\ Evolves(s, t, K, i, NULL)
<1>1. t \in {s, do_item_update(s, old), do_item_link(s, i), do_item_replace(s, old, i)}
  BY DEF Store
<1>0. s.cas_id \in Nat /\ s.assoc \subseteq Items
  BY DEF Memory
<1>2. ASSUME t = s \/ (old # NULL /\ t = do_item_update(s, old))
      PROVE  /\ t \in Memory /\ Life(t, ext) /\ Same(s, t) /\ t.assoc = s.assoc /\ t.bump = s.bump
  <2>1. CASE t = s
    BY <2>1 DEF Same
  <2>2. CASE old # NULL /\ t = do_item_update(s, old)
    BY <2>2, UpdateLife DEF Kept
  <2> QED BY <1>2, <2>1, <2>2
<1>3. CASE t = s \/ (old # NULL /\ t = do_item_update(s, old))
  <2>1. Evolves(s, t, K, i, NULL)
    <3>1. NULL \notin s.assoc
      BY MemCacheAssumption DEF Memory
    <3> QED BY <3>1, <1>0, <1>2, <1>3 DEF Evolves, Same
  <2> QED BY <2>1, <1>2, <1>3 DEF Same
<1>4. CASE old = NULL /\ t = do_item_link(s, i)
  <2>1. /\ t \in Memory /\ Life(t, ext) /\ Only(s, t, i)
        /\ t.assoc = s.assoc \cup {i} /\ t.bump = s.bump
        /\ t.cas_id = s.cas_id + 1 /\ t.it[i].cas = s.cas_id + 1
        /\ t.it[i].key = s.it[i].key /\ t.it[i].val = s.it[i].val
    BY <1>4, LinkLife
  <2>2. Evolves(s, t, K, i, NULL)
    <3>1. NULL \notin t.assoc
      BY <2>1, MemCacheAssumption DEF Memory
    <3> QED BY <3>1, <2>1, <1>0 DEF Evolves, Only
  <2> QED BY <2>1, <2>2
<1>5. CASE old # NULL /\ t = do_item_replace(s, old, i)
  <2>1. old \in s.assoc /\ s.it[old].key = s.it[i].key
    BY <1>5
  <2>2. /\ t \in Memory /\ Life(t, ext) /\ t.bump = s.bump /\ t.it[i].val = s.it[i].val
        /\ t.it[i].key = s.it[i].key /\ Evolves(s, t, K, i, NULL)
    <3>1. s.it[old].key \in K /\ s.it[i].key = s.it[old].key
      BY <2>1
    <3> QED BY <1>5, <2>1, <3>1, ReplaceLife
  <2> QED BY <2>2
<1> QED BY <1>1, <1>3, <1>4, <1>5 DEF Store

-----------------------------------------------------------------------------
(* The references of one command and those of everything else *)

\* The commands of all workers but w.
Others(w) == With(c, w, Idle)

\* Two references more, in either order.
LEMMA PlusSwap ==
  ASSUME NEW ext \in [Items -> Nat], NEW i \in Items \cup {NULL}, NEW j \in Items \cup {NULL}
  PROVE  Plus(Plus(ext, i), j) = Plus(Plus(ext, j), i)
<1>1. CASE i = NULL \/ j = NULL
  BY <1>1 DEF Plus
<1>2. CASE i # NULL /\ j # NULL
  <2>1. i \in Items /\ j \in Items
    BY <1>2
  <2> DEFINE a == [ext EXCEPT ![i] = ext[i] + 1]
             b == [ext EXCEPT ![j] = ext[j] + 1]
  <2>2. /\ Plus(ext, i) = a /\ Plus(ext, j) = b
        /\ Plus(a, j) = [a EXCEPT ![j] = a[j] + 1] /\ Plus(b, i) = [b EXCEPT ![i] = b[i] + 1]
    BY <1>2 DEF Plus
  <2>3. [a EXCEPT ![j] = a[j] + 1] = [b EXCEPT ![i] = b[i] + 1]
    <3>1. CASE i = j
      BY <3>1
    <3>2. CASE i # j
      <4> DEFINE u == [a EXCEPT ![j] = a[j] + 1]
                 v == [b EXCEPT ![i] = b[i] + 1]
      <4>1. a[j] = ext[j] /\ b[i] = ext[i] /\ DOMAIN u = Items /\ DOMAIN v = Items
        BY <2>1, <3>2
      <4>2. ASSUME NEW x \in Items PROVE u[x] = v[x]
        BY <2>1, <3>2
      <4> QED BY <4>1, <4>2
    <3> QED BY <3>1, <3>2
  <2> QED BY <2>2, <2>3
<1> QED BY <1>1, <1>2

\* One reference more.
LEMMA PlusType ==
  ASSUME NEW ext \in [Items -> Nat], NEW i \in Items \cup {NULL}
  PROVE  /\ Plus(ext, i) \in [Items -> Nat] /\ Plus(ext, NULL) = ext
         /\ i # NULL => Plus(ext, i)[i] = ext[i] + 1 /\ Plus(ext, i)[i] > 0
         /\ \A j \in Items : Plus(ext, i)[j] = ext[j] + (IF j = i THEN 1 ELSE 0)
<1>0. NULL \notin Items /\ \A j \in Items : ext[j] \in Nat
  BY MemCacheAssumption
<1>1. CASE i = NULL
  <2>1. Plus(ext, i) = ext
    BY <1>1 DEF Plus
  <2> QED BY <1>0, <1>1, <2>1
<1>2. CASE i # NULL
  <2>1. i \in Items /\ Plus(ext, i) = [ext EXCEPT ![i] = ext[i] + 1] /\ Plus(ext, NULL) = ext
    BY <1>2 DEF Plus
  <2> DEFINE e == Plus(ext, i)
  <2>2. e \in [Items -> Nat] /\ e[i] = ext[i] + 1 /\ \A j \in Items \ {i} : e[j] = ext[j]
    BY <1>0, <2>1
  <2> HIDE DEF e
  <2>3. \A j \in Items : e[j] = ext[j] + (IF j = i THEN 1 ELSE 0)
    BY <1>0, <2>2
  <2>4. e[i] > 0
    BY <1>0, <2>1, <2>2
  <2> QED BY <2>1, <2>2, <2>3, <2>4 DEF e
<1> QED BY <1>1, <1>2

\* References are counted by natural numbers.
LEMMA RefsType ==
  ASSUME NEW cc, NEW b
  PROVE  RefsOf(cc, b) \in [Items -> Nat]
BY HoldersFinite DEF RefsOf

\* A command adds its two references to those of everything else.
LEMMA RefsWith ==
  ASSUME DOMAIN c = Workers, NEW w \in Workers, NEW y,
         y.it \in Items \cup {NULL}, y.old \in Items \cup {NULL}, NEW b
  PROVE  RefsOf(With(c, w, y), b) = Plus(Plus(RefsOf(Others(w), b), y.it), y.old)
<1> DEFINE cc == With(c, w, y)
           e == RefsOf(Others(w), b)
           f == Plus(e, y.it)
           g == Plus(f, y.old)
           h == RefsOf(cc, b)
<1>1. NULL \notin Items
  BY MemCacheAssumption
<1>2. ASSUME NEW i \in Items PROVE h[i] = e[i] + Ref(y, i)
  <2> DEFINE d == Others(w)
  <2>1. DOMAIN d = Workers /\ d[w] = Idle /\ With(d, w, y) = cc
    BY DEF Others, With
  <2> HIDE DEF d
  <2>2. HoldersOf(With(d, w, y), b, i) = HoldersOf(d, b, i) - Ref(d[w], i) + Ref(y, i)
    BY <2>1, HoldersUpdate
  <2>3. Ref(d[w], i) = 0
    BY <1>1, <2>1 DEF Ref, Idle
  <2>4. HoldersOf(d, b, i) \in Nat /\ Ref(y, i) \in Nat
    BY HoldersFinite DEF Ref
  <2>5. HoldersOf(cc, b, i) = HoldersOf(d, b, i) + Ref(y, i)
    BY <2>1, <2>2, <2>3, <2>4
  <2> HIDE DEF cc
  <2> QED BY <2>5 DEF RefsOf, d
<1>3. e \in [Items -> Nat] /\ h \in [Items -> Nat]
  BY RefsType
<1> HIDE DEF cc, e, h
<1>4. f \in [Items -> Nat] /\ \A j \in Items : f[j] = e[j] + (IF j = y.it THEN 1 ELSE 0)
  BY <1>3, PlusType
<1> HIDE DEF f
<1>5. g \in [Items -> Nat] /\ \A j \in Items : g[j] = f[j] + (IF j = y.old THEN 1 ELSE 0)
  BY <1>4, PlusType
<1> HIDE DEF g
<1>6. ASSUME NEW i \in Items PROVE h[i] = g[i]
  <2>1. e[i] \in Nat /\ f[i] \in Nat
    BY <1>3, <1>4
  <2> QED BY <1>2, <1>4, <1>5, <2>1 DEF Ref
<1>7. h = g
  BY <1>3, <1>5, <1>6
<1> QED BY <1>7 DEF h, g, f, e, cc

\* Of the references there are, those of a command are some.
LEMMA RefsNow ==
  ASSUME TypeInv, NEW w \in Workers
  PROVE  /\ Refs = Plus(Plus(RefsOf(Others(w), m.bump), c[w].it), c[w].old)
         /\ RefsOf(Others(w), m.bump) \in [Items -> Nat] /\ Refs \in [Items -> Nat]
         /\ c[w].it \in Items \cup {NULL} /\ c[w].old \in Items \cup {NULL}
<1>1. c \in [Workers -> Command]
  BY DEF TypeInv
<1>2. c[w] \in Command
  BY <1>1
<1>3. c[w].it \in Items \cup {NULL} /\ c[w].old \in Items \cup {NULL}
  BY <1>2 DEF Command
<1>4. With(c, w, c[w]) = c /\ DOMAIN c = Workers
  BY <1>1 DEF With
<1>5. RefsOf(With(c, w, c[w]), m.bump) = Plus(Plus(RefsOf(Others(w), m.bump), c[w].it), c[w].old)
  BY <1>3, <1>4, RefsWith
<1> QED BY <1>3, <1>4, <1>5, RefsType DEF Refs

\* Who holds an item is among its references.
LEMMA HeldOnce ==
  ASSUME TypeInv, NEW w \in Workers, NEW i \in Items, Refs[i] = 0
  PROVE  c[w].it # i /\ c[w].old # i
<1> DEFINE e == RefsOf(Others(w), m.bump)
           f == Plus(e, c[w].it)
<1>1. /\ e \in [Items -> Nat] /\ c[w].it \in Items \cup {NULL} /\ c[w].old \in Items \cup {NULL}
      /\ Refs = Plus(f, c[w].old) /\ Refs \in [Items -> Nat]
  BY RefsNow
<1> HIDE DEF e
<1>2. f \in [Items -> Nat] /\ \A j \in Items : f[j] = e[j] + (IF j = c[w].it THEN 1 ELSE 0)
  BY <1>1, PlusType
<1> HIDE DEF f
<1>3. \A j \in Items : Refs[j] = f[j] + (IF j = c[w].old THEN 1 ELSE 0)
  BY <1>1, <1>2, PlusType
<1>4. e[i] \in Nat /\ f[i] \in Nat
  BY <1>1, <1>2
<1> QED BY <1>2, <1>3, <1>4

\* A get that has an entry noted in a bump buffer counts it.
LEMMA RefsGot ==
  ASSUME NEW s \in Memory, NEW t \in Memory, NEW i \in Items, NEW w \in Workers,
         Noted(s, t, i, w), NEW cc
  PROVE  Got(RefsOf(cc, s.bump), s, t, i) = Plus(RefsOf(cc, t.bump), i)
<1> DEFINE e == RefsOf(cc, s.bump)
           f == RefsOf(cc, t.bump)
<1>0. i # NULL
  BY MemCacheAssumption
<1>1. e \in [Items -> Nat] /\ f \in [Items -> Nat]
  BY RefsType
<1>2. CASE t.bump = s.bump
  <2>1. e = f /\ More(s, t) = 0
    BY <1>2 DEF More
  <2> HIDE DEF e, f
  <2>2. e[i] + 1 + More(s, t) = e[i] + 1
    BY <1>1, <2>1
  <2>3. Got(e, s, t, i) = [e EXCEPT ![i] = e[i] + 1]
    BY <2>2 DEF Got
  <2>4. Plus(f, i) = [f EXCEPT ![i] = f[i] + 1]
    BY <1>0 DEF Plus
  <2> QED BY <2>1, <2>3, <2>4 DEF e, f
<1>3. CASE t.bump # s.bump
  <2>1. /\ Len(s.bump[w]) < BumpMax /\ t.bump = [s.bump EXCEPT ![w] = Append(s.bump[w], i)]
        /\ More(s, t) = 1 /\ s.bump \in [Workers -> Seq(Items)]
    BY <1>3 DEF Noted, More, Memory
  <2>a. t.bump = With(s.bump, w, Append(s.bump[w], i))
    BY <2>1 DEF With
  <2>2. ASSUME NEW j \in Items PROVE f[j] = e[j] + (IF j = i THEN 1 ELSE 0)
    <3>1. HoldersOf(cc, With(s.bump, w, Append(s.bump[w], i)), j)
            = HoldersOf(cc, s.bump, j) + (IF j = i THEN 1 ELSE 0)
      BY <2>1, EntryAdded
    <3>2. HoldersOf(cc, t.bump, j) = HoldersOf(cc, s.bump, j) + (IF j = i THEN 1 ELSE 0)
      BY <2>a, <3>1
    <3> QED BY <3>2 DEF RefsOf
  <2> HIDE DEF e, f
  <2>3. f = [e EXCEPT ![i] = e[i] + 1]
    BY <1>1, <2>2
  <2>4. Plus(f, i) = [f EXCEPT ![i] = f[i] + 1]
    BY <1>0 DEF Plus
  <2>5. f[i] + 1 = e[i] + 1 + More(s, t)
    BY <1>1, <2>1, <2>2
  <2>6. [f EXCEPT ![i] = f[i] + 1] = [e EXCEPT ![i] = e[i] + 1 + More(s, t)]
    BY <1>1, <2>3, <2>5
  <2> QED BY <2>4, <2>6 DEF Got, e, f
<1> QED BY <1>2, <1>3

-----------------------------------------------------------------------------
(* Gets that count as hits, and what else commands do to the memory *)

\* What a get g of worker w with a hit has done to s, and what it has found.
Hitting(s, ext, g, K, k, w) ==
  /\ g.s \in Memory /\ g.s.assoc \subseteq s.assoc /\ Same(s, g.s)
  /\ Evolves(s, g.s, K, NULL, NULL)
  /\ g.it \in Items \cup {NULL}
  /\ g.it = NULL => Life(g.s, ext) /\ g.s.bump = s.bump
  /\ g.it # NULL => /\ g.it \in g.s.assoc /\ g.s.it[g.it].key = k
                    /\ Noted(s, g.s, g.it, w) /\ Life(g.s, Got(ext, s, g.s, g.it))

\* do_item_get with a hit.
LEMMA HitAs ==
  ASSUME NEW s \in Memory, NEW ext \in [Items -> Nat], Life(s, ext), NEW k, NEW w \in Workers,
         NEW u \in BOOLEAN, now \in Nat, NEW g, g = do_item_get(s, k, w, u), NEW K, k \in K
  PROVE  Hitting(s, ext, g, K, k, w)
<1>1. g.s \in Memory /\ Same(s, g.s) /\ g.s.assoc \subseteq s.assoc
  BY GetLife
<1>2. ASSUME NEW i \in s.assoc, i \notin g.s.assoc PROVE s.it[i].key = k
  <2>1. \A j \in s.assoc : j \notin g.s.assoc => s.it[j].key = k
    BY GetLife
  <2> QED BY <2>1, <1>2
<1>3. g.it = NULL => Life(g.s, ext) /\ g.s.bump = s.bump
  BY GetLife
<1>5. g.it # NULL => g.it \in s.assoc /\ g.it \in Items /\ s.it[g.it].key = k /\ g.s.assoc = s.assoc
  BY GetLife
<1>6. g.it # NULL => Noted(s, g.s, g.it, w)
  BY GetLife
<1>7. g.it # NULL => Life(g.s, Got(ext, s, g.s, g.it))
  BY GetLife
<1>8. Evolves(s, g.s, K, NULL, NULL)
  BY <1>1, <1>2, SameEvolves
<1>9. g.it # NULL => g.it \in g.s.assoc /\ g.s.it[g.it].key = k
  BY <1>1, <1>5 DEF Same
<1> QED BY <1>1, <1>3, <1>5, <1>6, <1>7, <1>8, <1>9 DEF Hitting

\* As the callers write it.
LEMMA HitGet ==
  ASSUME NEW s \in Memory, NEW ext \in [Items -> Nat], Life(s, ext), NEW k, NEW w \in Workers,
         now \in Nat, NEW K, k \in K
  PROVE  Hitting(s, ext, do_item_get(s, k, w, DO_UPDATE), K, k, w)
<1>1. DO_UPDATE \in BOOLEAN
  BY DEF DO_UPDATE
<1> QED BY <1>1, HitAs

\* do_item_touch is such a get, and writes the expiry time of what it found.
LEMMA HitTouch ==
  ASSUME NEW s \in Memory, NEW ext \in [Items -> Nat], Life(s, ext), NEW k, NEW w \in Workers,
         now \in Nat, NEW K, k \in K, NEW e \in Int
  PROVE  Hitting(s, ext, do_item_touch(s, k, w, e), K, k, w)
<1> DEFINE g == do_item_get(s, k, w, DO_UPDATE)
           h == do_item_touch(s, k, w, e)
<1>1. Hitting(s, ext, g, K, k, w)
  BY HitGet
<1>2. g = [s |-> g.s, it |-> g.it]
  <2>1. DO_UPDATE \in BOOLEAN
    BY DEF DO_UPDATE
  <2> QED BY <2>1, GetShape
<1>3. h = IF g.it = NULL THEN g ELSE [g EXCEPT !.s.it[g.it].exptime = e]
  BY DEF do_item_touch
<1> HIDE DEF g, h
<1>4. CASE g.it = NULL
  <2>1. h = g
    BY <1>3, <1>4, Zenon
  <2> QED BY <1>1, <2>1 DEF h
<1>5. CASE g.it # NULL
  <2> DEFINE i == g.it
             a == g.s
             t == [a EXCEPT !.it[i].exptime = e]
             f == Got(ext, s, a, i)
  <2>1. h.s = t /\ h.it = i
    BY <1>2, <1>3, <1>5
  <2>2. /\ a \in Memory /\ i \in Items /\ Life(a, f) /\ Noted(s, a, i, w) /\ i \in a.assoc
        /\ a.it[i].key = k /\ a.assoc \subseteq s.assoc /\ Same(s, a) /\ Evolves(s, a, K, NULL, NULL)
    BY <1>1, <1>5 DEF Hitting
  <2>3. ext[i] \in Nat /\ More(s, a) \in Nat
    BY <2>2 DEF More
  <2> HIDE DEF i, a
  <2>4. f \in [Items -> Nat]
    BY <2>2, <2>3 DEF Got
  <2> HIDE DEF f
  <2>5. t \in Memory /\ Life(t, f) /\ Kept(a, t, i)
    BY <2>2, <2>4, ExptimeLife
  <2> HIDE DEF t
  <2>6. Same(s, t) /\ t.assoc = a.assoc /\ t.bump = a.bump /\ t.it[i].key = k
    BY <2>2, <2>5 DEF Kept, Same
  <2>7. Noted(s, t, i, w) /\ Got(ext, s, t, i) = Got(ext, s, a, i)
    BY <2>2, <2>6 DEF Noted, Got, More
  <2>8. Evolves(s, t, K, NULL, NULL)
    <3>1. \A x \in s.assoc : x \notin t.assoc => s.it[x].key \in K
      BY <2>2, <2>6 DEF Evolves
    <3> QED BY <3>1, <2>2, <2>6, SameEvolves
  <2>9. Life(t, Got(ext, s, t, i))
    BY <2>5, <2>7 DEF f
  <2>10. i # NULL
    BY <1>5 DEF i
  <2>11. /\ h.s \in Memory /\ h.s.assoc \subseteq s.assoc /\ Same(s, h.s) /\ Evolves(s, h.s, K, NULL, NULL)
         /\ h.it \in Items \cup {NULL} /\ h.it \in h.s.assoc /\ h.s.it[h.it].key = k
    BY <2>1, <2>2, <2>5, <2>6, <2>8
  <2>12. Noted(s, h.s, h.it, w) /\ Life(h.s, Got(ext, s, h.s, h.it)) /\ h.it # NULL
    BY <2>1, <2>7, <2>9, <2>10
  <2> QED BY <2>11, <2>12, Zenon DEF Hitting, h
<1> QED BY <1>4, <1>5

\* What a hit that found something leaves: the memory t with a reference more.
LEMMA HitRefs ==
  ASSUME NEW s \in Memory, NEW cc, NEW g, NEW K, NEW k, NEW w \in Workers,
         Hitting(s, RefsOf(cc, s.bump), g, K, k, w)
  PROVE  Life(g.s, Plus(RefsOf(cc, g.s.bump), g.it))
<1>1. CASE g.it = NULL
  BY <1>1 DEF Hitting, Plus
<1>2. CASE g.it # NULL
  <2>1. g.s \in Memory /\ g.it \in Items /\ Noted(s, g.s, g.it, w) /\ Life(g.s, Got(RefsOf(cc, s.bump), s, g.s, g.it))
    BY <1>2 DEF Hitting
  <2>2. Got(RefsOf(cc, s.bump), s, g.s, g.it) = Plus(RefsOf(cc, g.s.bump), g.it)
    BY <2>1, RefsGot
  <2> QED BY <2>1, <2>2
<1> QED BY <1>1, <1>2

\* An item that is noted in a buffer finds room there.
LEMMA NotedRoom ==
  ASSUME NEW s \in Memory, NEW t \in Memory, NEW i \in Items, NEW w \in Workers, Noted(s, t, i, w),
         \A v \in Workers : Len(s.bump[v]) <= BumpMax
  PROVE  \A v \in Workers : Len(t.bump[v]) <= BumpMax
<1>1. CASE t.bump = s.bump
  BY <1>1
<1>2. CASE t.bump # s.bump
  <2>1. /\ Len(s.bump[w]) < BumpMax /\ t.bump = [s.bump EXCEPT ![w] = Append(s.bump[w], i)]
        /\ s.bump \in [Workers -> Seq(Items)] /\ BumpMax \in Nat
    BY <1>2, MemCacheAssumption DEF Noted, Memory
  <2>2. Len(Append(s.bump[w], i)) = Len(s.bump[w]) + 1 /\ Len(s.bump[w]) \in Nat
    BY <2>1, AppendProperties, LenProperties
  <2>3. Len(Append(s.bump[w], i)) <= BumpMax
    BY <2>1, <2>2
  <2> QED BY <2>1, <2>3
<1> QED BY <1>1, <1>2

\* From s to t every item lives on, with the references ext in t, and the bump
\* buffers stay.
Stepped(s, t, ext, K, n, o) ==
  t \in Memory /\ Life(t, ext) /\ t.bump = s.bump /\ Evolves(s, t, K, n, o)

\* A new item that is not in the hash table, then a step that may put it there.
LEMMA EvolvesNew ==
  ASSUME NEW s \in Memory, NEW t \in Memory, NEW u \in Memory, NEW K, NEW n, NEW o,
         n \notin s.assoc, t.assoc = s.assoc,
         Evolves(s, t, K, n, NULL), Evolves(t, u, K, n, o)
  PROVE  Evolves(s, u, K, n, o)
<1>1. /\ s.cas_id \in Nat /\ t.cas_id \in Nat /\ u.cas_id \in Nat
      /\ s.assoc \subseteq Items /\ u.assoc \subseteq Items /\ \A i \in Items : u.it[i].cas \in Nat
      /\ NULL \notin Items
  BY MemCacheAssumption DEF Memory, Item
<1>2. /\ s.cas_id <= t.cas_id
      /\ \A i \in Items : i # n => t.it[i].val = s.it[i].val /\ t.it[i].key = s.it[i].key /\ t.it[i].cas = s.it[i].cas
  BY <1>1 DEF Evolves
<1>3. \A i \in Items : /\ i # n => u.it[i].val = s.it[i].val
                       /\ i # n /\ i # o => u.it[i].cas = s.it[i].cas
  BY <1>2 DEF Evolves
<1>4. \A i \in Items : i # n \/ i \in s.assoc => u.it[i].key = s.it[i].key
  BY <1>2 DEF Evolves
<1>5. ASSUME NEW i \in s.assoc, i \notin u.assoc PROVE s.it[i].key \in K
  <2>1. i # n /\ i \in Items /\ t.it[i].key = s.it[i].key
    BY <1>1, <1>2
  <2>2. t.it[i].key \in K
    BY <1>5 DEF Evolves
  <2> QED BY <2>1, <2>2
<1>6. o \notin u.assoc /\ \A i \in u.assoc : i = n \/ i \in s.assoc
  BY DEF Evolves
<1>7. ASSUME n \in u.assoc PROVE s.cas_id < u.it[n].cas /\ u.it[n].cas <= u.cas_id
  <2>1. t.cas_id < u.it[n].cas /\ u.it[n].cas <= u.cas_id /\ u.it[n].cas \in Nat
    BY <1>1, <1>7 DEF Evolves
  <2> QED BY <2>1, <1>1, <1>2
<1>8. s.cas_id <= u.cas_id
  BY <1>1, <1>2 DEF Evolves
<1> QED BY <1>3, <1>4, <1>5, <1>6, <1>7, <1>8 DEF Evolves

\* Dropping a reference after a step.
LEMMA ThenRemove ==
  ASSUME NEW s \in Memory, NEW t, NEW ext \in [Items -> Nat], NEW i \in Items, NEW K, NEW n, NEW o,
         Stepped(s, t, Plus(ext, i), K, n, o)
  PROVE  Stepped(s, do_item_remove(t, i), ext, K, n, o)
<1> DEFINE u == Unref(t, i)
<1>0. i # NULL /\ u = do_item_remove(t, i)
  BY MemCacheAssumption DEF Unref
<1>1. t \in Memory /\ Life(t, Plus(ext, i)) /\ t.bump = s.bump /\ Evolves(s, t, K, n, o)
  BY DEF Stepped
<1>2. u \in Memory /\ Life(u, ext) /\ u.assoc = t.assoc /\ u.bump = t.bump /\ Evolves(t, u, K, NULL, NULL)
  BY <1>1, UnrefLife
<1> HIDE DEF u
<1>3. Evolves(s, u, K, n, o)
  BY <1>1, <1>2, EvolvesBefore
<1>4. Stepped(s, u, ext, K, n, o)
  BY <1>1, <1>2, <1>3 DEF Stepped
<1> QED BY <1>0, <1>4

\* It leaves names, values and CAS ids alone.
LEMMA RemoveSame ==
  ASSUME NEW t \in Memory, NEW ext \in [Items -> Nat], NEW i \in Items, Life(t, Plus(ext, i))
  PROVE  Same(t, do_item_remove(t, i)) /\ do_item_remove(t, i).assoc = t.assoc
<1> DEFINE u == Unref(t, i)
<1>1. u = do_item_remove(t, i)
  BY MemCacheAssumption DEF Unref
<1>2. Same(t, u) /\ u.assoc = t.assoc
  BY UnrefLife
<1> QED BY <1>1, <1>2

\* The new item takes the place of the old one, and both references go.
LEMMA SupersedeLife ==
  ASSUME NEW s \in Memory, NEW ext \in [Items -> Nat], NEW old \in s.assoc, NEW i \in Items,
         Life(s, Plus(Plus(ext, old), i)), i \notin s.assoc, s.it[i].key = s.it[old].key,
         now \in Nat, NEW K, s.it[old].key \in K
  PROVE  Stepped(s, Supersede(s, old, i), ext, K, i, NULL)
<1> DEFINE r == do_item_replace(s, old, i)
           e == Plus(ext, i)
           f == Plus(Plus(ext, old), i)
           t == do_item_remove(r, old)
<1>1. old \in Items /\ i # NULL
  BY MemCacheAssumption DEF Memory
<1>2. e \in [Items -> Nat] /\ Plus(ext, old) \in [Items -> Nat]
  BY <1>1, PlusType
<1>3. f \in [Items -> Nat] /\ f[i] > 0
  BY <1>1, <1>2, PlusType
<1>4. f = Plus(e, old)
  BY <1>1, PlusSwap
<1> HIDE DEF e, f
<1>5. Stepped(s, r, f, K, i, NULL)
  <2>1. Life(s, f)
    BY DEF f
  <2>2. r \in Memory /\ Life(r, f) /\ r.bump = s.bump /\ Evolves(s, r, K, i, NULL)
    BY <1>3, <2>1, ReplaceLife
  <2> QED BY <2>2 DEF Stepped
<1> HIDE DEF r
<1>6. Stepped(s, t, e, K, i, NULL)
  BY <1>1, <1>2, <1>4, <1>5, ThenRemove
<1> HIDE DEF t
<1>7. Stepped(s, do_item_remove(t, i), ext, K, i, NULL)
  BY <1>6, ThenRemove DEF e
<1> QED BY <1>7 DEF Supersede, t, r

\* The CAS id of an item that is not in the hash table is written.
LEMMA CasLife ==
  ASSUME NEW s \in Memory, NEW ext \in [Items -> Nat], Life(s, ext), NEW i \in Items,
         i \notin s.assoc, NEW x \in Nat, NEW t, t = [s EXCEPT !.it[i].cas = x]
  PROVE  /\ t \in Memory /\ Life(t, ext) /\ Only(s, t, i) /\ t.assoc = s.assoc /\ t.bump = s.bump
         /\ t.cas_id = s.cas_id /\ t.it[i].key = s.it[i].key /\ t.it[i].val = s.it[i].val
<1> DEFINE y == [s.it[i] EXCEPT !.cas = x]
           u == [s EXCEPT !.it[i] = y]
<1>1. s.it[i] \in Item /\ s.it[i].refcount = ext[i] + Linked(s, i)
  BY DEF Memory, Life, LifeOf
<1>2. /\ y \in Item /\ y.flags = s.it[i].flags /\ y.lru = s.it[i].lru /\ y.refcount = s.it[i].refcount
      /\ y.key = s.it[i].key /\ y.val = s.it[i].val
  BY <1>1 DEF Item
<1>3. t = u
  BY DEF Memory, Item
<1>4. u.it[i] = y /\ Only(s, u, i) /\ u.assoc = s.assoc /\ u.bump = s.bump /\ u.cas_id = s.cas_id
  BY DEF Memory, Only
<1> HIDE DEF y
<1>5. /\ "LINKED" \in y.flags <=> Has(s, i, "LINKED")
      /\ y.refcount = ext[i] + (IF "LINKED" \in y.flags THEN 1 ELSE 0)
      /\ "SLABBED" \in y.flags <=> y.refcount = 0
      /\ "SLABBED" \notin y.flags => y.lru \in LRUs
  BY <1>1, <1>2 DEF Life, LifeOf, Linked, Has
<1>6. u \in Memory /\ Life(u, [ext EXCEPT ![i] = ext[i]])
  BY <1>2, <1>5, SetItem
<1>7. [ext EXCEPT ![i] = ext[i]] = ext
  OBVIOUS
<1> QED BY <1>2, <1>3, <1>4, <1>6, <1>7

\* The same for incr and decr, where the old item is given the new CAS id.
LEMMA SupersedeDeltaLife ==
  ASSUME NEW s \in Memory, NEW ext \in [Items -> Nat], NEW old \in s.assoc, NEW i \in Items,
         Life(s, Plus(Plus(ext, old), i)), i \notin s.assoc, s.it[i].key = s.it[old].key,
         now \in Nat, NEW K, s.it[old].key \in K
  PROVE  /\ Stepped(s, SupersedeDelta(s, old, i), ext, K, i, old)
         /\ i \in SupersedeDelta(s, old, i).assoc
         /\ SupersedeDelta(s, old, i).it[old].cas = SupersedeDelta(s, old, i).it[i].cas
         /\ SupersedeDelta(s, old, i).it[i].val = s.it[i].val
<1> DEFINE r == do_item_replace(s, old, i)
           d == Plus(ext, old)
           f == Plus(d, i)
           a == r.it[i].cas
           u == [r EXCEPT !.it[old].cas = a]
           t == do_item_remove(u, i)
           z == do_item_remove(t, old)
<1>1. old \in Items /\ i # NULL /\ i # old /\ NULL \notin s.assoc /\ s.assoc \subseteq Items
  BY MemCacheAssumption DEF Memory
<1>2. d \in [Items -> Nat]
  BY <1>1, PlusType
<1>3. f \in [Items -> Nat] /\ f[i] > 0
  BY <1>1, <1>2, PlusType
<1> HIDE DEF d, f
<1>5. /\ r \in Memory /\ Life(r, f) /\ r.bump = s.bump /\ Evolves(s, r, K, i, NULL)
      /\ r.assoc = (s.assoc \ {old}) \cup {i} /\ r.it[i].val = s.it[i].val
  <2>1. Life(s, f)
    BY DEF f, d
  <2> QED BY <1>3, <2>1, ReplaceLife
<1> HIDE DEF r
<1>6. old \notin r.assoc /\ a \in Nat
  BY <1>1, <1>5 DEF Memory, Item
<1>12. u.it[old].cas = a
  BY <1>1, <1>5 DEF Memory, Item
<1>13. a = r.it[i].cas
  OBVIOUS
<1> HIDE DEF a
<1>7. /\ u \in Memory /\ Life(u, f) /\ Only(r, u, old) /\ u.assoc = r.assoc /\ u.bump = r.bump
      /\ u.cas_id = r.cas_id /\ u.it[old].key = r.it[old].key /\ u.it[old].val = r.it[old].val
  BY <1>1, <1>3, <1>5, <1>6, CasLife
<1> HIDE DEF u
<1>8. Evolves(s, u, K, i, old)
  <2>1. \A j \in Items : u.it[j].val = r.it[j].val /\ u.it[j].key = r.it[j].key
                         /\ (j # old => u.it[j].cas = r.it[j].cas)
    BY <1>7 DEF Only
  <2>2. \A j \in Items : /\ j # i => u.it[j].val = s.it[j].val
                         /\ j # i \/ j \in s.assoc => u.it[j].key = s.it[j].key
                         /\ j # i /\ j # old => u.it[j].cas = s.it[j].cas
    <3>1. \A j \in Items : j # NULL
      BY MemCacheAssumption
    <3> QED BY <2>1, <3>1, <1>5 DEF Evolves
  <2>3. /\ s.cas_id <= u.cas_id /\ \A j \in u.assoc : j = i \/ j \in s.assoc
        /\ \A j \in s.assoc : j \notin u.assoc => s.it[j].key \in K
    BY <1>5, <1>7 DEF Evolves
  <2>4. i \in u.assoc => s.cas_id < u.it[i].cas /\ u.it[i].cas <= u.cas_id
    BY <1>1, <1>5, <1>7, <2>1 DEF Evolves
  <2> QED BY <1>6, <1>7, <2>2, <2>3, <2>4 DEF Evolves
<1>9. Stepped(s, u, f, K, i, old)
  BY <1>5, <1>7, <1>8 DEF Stepped
<1>10. Stepped(s, t, d, K, i, old)
  BY <1>2, <1>9, ThenRemove DEF f
<1>14. Same(u, t) /\ t.assoc = u.assoc
  <2>1. u \in Memory /\ Life(u, Plus(d, i))
    BY <1>7 DEF f
  <2> QED BY <1>2, <2>1, RemoveSame
<1> HIDE DEF t
<1>15. Same(t, z) /\ z.assoc = t.assoc
  <2>1. t \in Memory /\ Life(t, Plus(ext, old))
    BY <1>10 DEF Stepped, d
  <2> QED BY <1>1, <2>1, RemoveSame
<1>11. Stepped(s, z, ext, K, i, old)
  BY <1>1, <1>10, ThenRemove DEF d
<1> HIDE DEF z
<1>16. i \in z.assoc /\ z.it[old].cas = z.it[i].cas /\ z.it[i].val = s.it[i].val
  BY <1>1, <1>5, <1>7, <1>12, <1>13, <1>14, <1>15 DEF Same, Only
<1>17. z = SupersedeDelta(s, old, i)
  BY DEF SupersedeDelta, z, t, u, a, r
<1> QED BY <1>11, <1>16, <1>17

\* The value of a linked item is overwritten, with a CAS id of its own.
Written(s, i, v, x) == [s EXCEPT !.it[i].val = v, !.it[i].cas = x, !.cas_id = @ + 1]

\* What incr and decr do to an item that nobody else holds.
LEMMA WrittenLife ==
  ASSUME NEW s \in Memory, NEW ext \in [Items -> Nat], NEW i \in s.assoc, Life(s, Plus(ext, i)),
         NEW v \in Val, NEW x, x = s.cas_id + 1, now \in Nat, NEW K
  PROVE  Stepped(s, do_item_remove(do_item_update(Written(s, i, v, x), i), i), ext, K, i, NULL)
<1> DEFINE y == [s.it[i] EXCEPT !.val = v, !.cas = x]
           b == [s EXCEPT !.it[i] = y]
           t == [b EXCEPT !.cas_id = x]
           u == do_item_update(t, i)
           e == Plus(ext, i)
<1>1. i \in Items /\ i # NULL /\ s.assoc \subseteq Items /\ s.cas_id \in Nat /\ x \in Nat
  BY MemCacheAssumption DEF Memory
<1>2. e \in [Items -> Nat] /\ Life(s, e)
  BY <1>1, PlusType
<1> HIDE DEF e
<1>3. s.it[i] \in Item /\ s.it[i].refcount = e[i] + Linked(s, i) /\ e[i] \in Nat
  BY <1>1, <1>2 DEF Memory, Life, LifeOf
<1>4. /\ y \in Item /\ y.flags = s.it[i].flags /\ y.lru = s.it[i].lru /\ y.refcount = s.it[i].refcount
      /\ y.key = s.it[i].key /\ y.cas = x
  BY <1>1, <1>3 DEF Item
<1>5. Written(s, i, v, x) = t
  BY <1>1 DEF Memory, Item, Written
<1>6. /\ b.it[i] = y /\ Only(s, b, i) /\ b.assoc = s.assoc /\ b.bump = s.bump
      /\ t.it = b.it /\ t.q = b.q /\ t.failed = b.failed /\ t.assoc = b.assoc /\ t.bump = b.bump /\ t.cas_id = x
  BY <1>1 DEF Memory, Only
<1> HIDE DEF y
<1>7. b \in Memory /\ Life(b, e)
  <2>1. /\ "LINKED" \in y.flags <=> Has(s, i, "LINKED")
        /\ y.refcount = e[i] + (IF "LINKED" \in y.flags THEN 1 ELSE 0)
        /\ "SLABBED" \in y.flags <=> y.refcount = 0
        /\ "SLABBED" \notin y.flags => y.lru \in LRUs
    BY <1>1, <1>2, <1>3, <1>4 DEF Life, LifeOf, Linked, Has
  <2>2. b \in Memory /\ Life(b, [e EXCEPT ![i] = e[i]])
    BY <1>1, <1>2, <1>3, <1>4, <2>1, SetItem
  <2>3. [e EXCEPT ![i] = e[i]] = e
    BY <1>2
  <2> QED BY <2>2, <2>3
<1>8. t \in Memory
  BY <1>1, <1>7 DEF Memory
<1> HIDE DEF b, t
<1>9. Life(t, e)
  <2>1. QueueFor(t) = QueueFor(b)
    BY <1>6 DEF QueueFor
  <2>2. \A j \in Items : LifeOf(t, e, j)
    BY <1>6, <1>7 DEF Life, LifeOf, Linked, Has
  <2> QED BY <1>6, <1>7, <2>1, <2>2 DEF Life
<1>10. Evolves(s, t, K, i, NULL)
  <2>1. NULL \notin t.assoc /\ s.cas_id <= t.cas_id /\ s.cas_id < t.it[i].cas /\ t.it[i].cas <= t.cas_id
    BY <1>1, <1>4, <1>6, MemCacheAssumption
  <2>2. \A j \in Items : /\ j # i => t.it[j].val = s.it[j].val
                         /\ t.it[j].key = s.it[j].key
                         /\ j # i => t.it[j].cas = s.it[j].cas
    BY <1>4, <1>6 DEF Only
  <2>3. t.assoc = s.assoc
    BY <1>6
  <2> QED BY <2>1, <2>2, <2>3 DEF Evolves
<1>11. u \in Memory /\ Life(u, e) /\ Kept(t, u, i)
  BY <1>1, <1>2, <1>8, <1>9, UpdateLife
<1> HIDE DEF u
<1>12. Same(t, u) /\ u.assoc = t.assoc /\ u.bump = t.bump
  BY <1>11 DEF Kept
<1>13. Evolves(t, u, K, NULL, NULL)
  BY <1>8, <1>12, SameEvolves
<1>14. Evolves(s, u, K, i, NULL)
  BY <1>8, <1>10, <1>11, <1>12, <1>13, EvolvesBefore
<1>15. Stepped(s, u, Plus(ext, i), K, i, NULL)
  BY <1>6, <1>11, <1>12, <1>14 DEF Stepped, e
<1>16. Stepped(s, do_item_remove(u, i), ext, K, i, NULL)
  BY <1>1, <1>15, ThenRemove
<1> QED BY <1>5, <1>16 DEF u

\* A CAS id is used up.
CasUp(s) == [s EXCEPT !.cas_id = @ + 1]

\* flush_all takes a CAS id.
LEMMA CasUpLife ==
  ASSUME NEW s \in Memory, NEW ext \in [Items -> Nat], Life(s, ext), NEW K
  PROVE  Stepped(s, CasUp(s), ext, K, NULL, NULL)
<1> DEFINE t == CasUp(s)
<1>1. /\ t \in Memory /\ t.it = s.it /\ t.q = s.q /\ t.failed = s.failed /\ t.assoc = s.assoc
      /\ t.bump = s.bump /\ t.cas_id = s.cas_id + 1 /\ s.cas_id \in Nat /\ s.assoc \subseteq Items
  <2> DEFINE x == s.cas_id + 1
  <2>1. s.cas_id \in Nat /\ x \in Nat /\ s.assoc \subseteq Items
    BY DEF Memory
  <2>2. t = [s EXCEPT !.cas_id = x]
    BY DEF Memory, CasUp
  <2> HIDE DEF x, t
  <2>3. t \in Memory /\ t.it = s.it /\ t.q = s.q /\ t.failed = s.failed /\ t.assoc = s.assoc
        /\ t.bump = s.bump /\ t.cas_id = x
    BY <2>1, <2>2 DEF Memory
  <2> QED BY <2>1, <2>3 DEF x
<1> HIDE DEF t
<1>2. Life(t, ext)
  <2>1. QueueFor(t) = QueueFor(s)
    BY <1>1 DEF QueueFor
  <2>2. \A j \in Items : LifeOf(t, ext, j)
    BY <1>1 DEF Life, LifeOf, Linked, Has
  <2> QED BY <1>1, <2>1, <2>2 DEF Life
<1>3. Evolves(s, t, K, NULL, NULL)
  <2>1. NULL \notin t.assoc /\ s.cas_id <= t.cas_id
    BY <1>1, MemCacheAssumption
  <2> QED BY <1>1, <2>1 DEF Evolves
<1> QED BY <1>1, <1>2, <1>3 DEF Stepped, t

\* The item is taken out of the hash table.
LEMMA UnlinkStep ==
  ASSUME NEW s \in Memory, NEW ext \in [Items -> Nat], Life(s, ext), NEW i \in Items,
         NEW K, s.it[i].key \in K
  PROVE  Stepped(s, do_item_unlink(s, i), ext, K, NULL, NULL)
<1> DEFINE t == do_item_unlink(s, i)
<1>1. t \in Memory /\ Life(t, ext) /\ Same(s, t) /\ t.assoc = s.assoc \ {i} /\ t.bump = s.bump
  BY UnlinkLife
<1> HIDE DEF t
<1>2. Evolves(s, t, K, NULL, NULL)
  BY <1>1, SameEvolves
<1> QED BY <1>1, <1>2 DEF Stepped, t

\* lru_pull_tail takes out nothing that is locked.
LEMMA PullStep ==
  ASSUME NEW s \in Memory, NEW ext \in [Items -> Nat], Life(s, ext), NEW l \in LRUs,
         NEW evict \in BOOLEAN, NEW over \in BOOLEAN, NEW locked, now \in Nat,
         NEW K, \A k \in Keys : k \notin locked => k \in K
  PROVE  Stepped(s, lru_pull_tail(s, l, evict, over, locked).s, ext, K, NULL, NULL)
<1> DEFINE t == lru_pull_tail(s, l, evict, over, locked).s
<1>1. t \in Memory /\ Life(t, ext) /\ Same(s, t) /\ t.bump = s.bump /\ t.assoc \subseteq s.assoc
  BY PullLife
<1>2. \A j \in s.assoc : j \notin t.assoc => s.it[j].key \notin locked
  BY PullLife
<1> HIDE DEF t
<1>3. \A j \in s.assoc : s.it[j].key \in Keys
  BY DEF Life
<1>4. Evolves(s, t, K, NULL, NULL)
  BY <1>1, <1>2, <1>3, SameEvolves
<1> QED BY <1>1, <1>4 DEF Stepped, t

-----------------------------------------------------------------------------
(* Steps of a worker, and of the background, keep the invariant *)

\* The keys whose item worker w may take out of the hash table, and those whose
\* item the background may.
MayTake(w) == {k \in Keys : ilock[k] = NULL \/ ilock[k] = w}
Unlocked == {k \in Keys : ilock[k] = NULL}

\* A command still fits when others do a step.
LEMMA FitsKept ==
  ASSUME NEW x \in Command, NEW v \in Workers, Fits(x, v, m, ilock), m \in Memory, NEW t,
         NEW K, NEW n, NEW o, Evolves(m, t, K, n, o), \A k \in K : ilock[k] # v,
         NEW lk, \A k \in Keys : ilock[k] = v => lk[k] = v,
         n # NULL => x.it # n /\ x.old # n
  PROVE  Fits(x, v, t, lk)
<1>1. x.it \in Items \cup {NULL} /\ x.old \in Items \cup {NULL} /\ x.key \in Keys \cup {NULL}
  BY DEF Command
<1>2. \A i \in Items : i # n => t.it[i].key = m.it[i].key /\ t.it[i].val = m.it[i].val
  BY DEF Evolves
<1>3. x.it # NULL => /\ x.it \in Items /\ x.it # n /\ t.it[x.it].key = x.key
                     /\ t.it[x.it].val = m.it[x.it].val
  <2>1. x.it # NULL => m.it[x.it].key = x.key
    BY DEF Fits
  <2> QED BY <1>1, <1>2, <2>1
<1>4. x.old # NULL => t.it[x.old].key = x.key /\ x.old \in t.assoc /\ lk[x.key] = v
  <2>1. SUFFICES ASSUME x.old # NULL PROVE t.it[x.old].key = x.key /\ x.old \in t.assoc /\ lk[x.key] = v
    OBVIOUS
  <2>2. /\ m.it[x.old].key = x.key /\ x.old \in m.assoc /\ ilock[x.key] = v /\ x.key \in Keys
        /\ x.old \in Items /\ x.old # n
    <3>1. x.pc \in {"copy", "delta"}
      BY <2>1 DEF Fits
    <3> QED BY <2>1, <3>1, <1>1 DEF Fits
  <2>3. x.old \in t.assoc
    BY <2>2 DEF Evolves
  <2> QED BY <2>2, <2>3, <1>2
<1>5. x.pc = "nread" => x.it \notin t.assoc
  <2>1. SUFFICES ASSUME x.pc = "nread" PROVE x.it \notin t.assoc
    OBVIOUS
  <2>2. x.it # NULL /\ x.it \notin m.assoc
    BY <2>1 DEF Fits
  <2> QED BY <2>2, <1>3 DEF Evolves
<1>6. x.comm \in GetComms => x.pc \in {"found", "drop"} /\ t.it[x.it].val = x.val
  <2>1. SUFFICES ASSUME x.comm \in GetComms
                 PROVE  x.pc \in {"found", "drop"} /\ t.it[x.it].val = x.val
    OBVIOUS
  <2>2. x.pc \in {"found", "drop"} /\ x.it # NULL /\ m.it[x.it].val = x.val
    BY <2>1 DEF Fits
  <2> QED BY <2>2, <1>3
<1>7. /\ x.it # NULL <=> x.pc \in {"found", "nread", "copy", "unlink", "drop"}
      /\ x.old # NULL <=> x.pc \in {"copy", "delta"}
      /\ x.pc \notin {"idle", "flush"} => x.key \in Keys
      /\ x.pc = "delta" => x.comm \in {"incr", "decr"}
  BY DEF Fits
<1> QED BY <1>3, <1>4, <1>5, <1>6, <1>7 DEF Fits

\* The memory is t when worker w goes on to y.
Moved(w, t, y, n, o) ==
  /\ t \in Memory /\ Evolves(m, t, MayTake(w), n, o)
  /\ Life(t, Plus(Plus(RefsOf(Others(w), t.bump), y.it), y.old))
  /\ \A v \in Workers : Len(t.bump[v]) <= BumpMax

\* What worker w has in y: item n, which no other worker has, what it had
\* before, or items that are linked.
Owned(w, y, n) ==
  /\ n # NULL => \A v \in Workers : v # w => c[v].it # n /\ c[v].old # n
  /\ y.pc = "nread" => (n # NULL /\ y.it = n) \/ (c[w].pc = "nread" /\ y.it = c[w].it)
  /\ y.it # NULL => y.it = n \/ y.it = c[w].it \/ y.it \in m.assoc
  /\ y.old # NULL => y.old = c[w].old \/ y.old \in m.assoc

\* Worker w goes on to y, on its own key or one that nobody has locked; n is the
\* item that it writes to, which no other worker has, and o the one whose CAS
\* id it writes to when it has left the hash table.
Step(w, y, n, o) ==
  /\ c' = With(c, w, y) /\ y \in Command /\ Fits(y, w, m', ilock')
  /\ Moved(w, m', y, n, o) /\ Owned(w, y, n)
  /\ now' \in Nat /\ cmds' \in Nat /\ menu' = menu /\ DOMAIN ans' = Workers
  /\ DOMAIN ilock' = Keys /\ \A k \in Keys : k \notin MayTake(w) => ilock'[k] = ilock[k]

\* Item n, with the value that this worker has counted, replaces item o and
\* gives it its CAS id.
Replaces(w, n, o) ==
  /\ c[w].pc = "delta" /\ o = c[w].old
  /\ n \in m'.assoc /\ m'.it[o].cas = m'.it[n].cas /\ m'.it[n].val = c[w].val

\* Only a delta writes to an item that has left the hash table.
Steps(w) == \E y, n, o : Step(w, y, n, o) /\ (o # NULL => Replaces(w, n, o))

\* What each step of a worker keeps.
LEMMA WorkerStep ==
  ASSUME IInv, NEW w \in Workers, NEW y, NEW n, NEW o, Step(w, y, n, o)
  PROVE  IInv'
<1>0. Moved(w, m', y, n, o) /\ Owned(w, y, n)
  BY DEF Step
<1>1. /\ TypeInv /\ Life(m, Refs) /\ AllFit /\ Alone(c)
  BY DEF IInv
<1>2. /\ m \in Memory /\ c \in [Workers -> Command] /\ DOMAIN c = Workers /\ menu \in Menus
  BY <1>1 DEF TypeInv
<1>3. /\ c' = With(c, w, y) /\ y \in Command
      /\ m' \in Memory /\ Evolves(m, m', MayTake(w), n, o) /\ Fits(y, w, m', ilock')
  BY <1>0 DEF Step, Moved
<1>4. y.it \in Items \cup {NULL} /\ y.old \in Items \cup {NULL}
  BY <1>3 DEF Command
<1>5. c' \in [Workers -> Command] /\ c'[w] = y /\ \A v \in Workers : v # w => c'[v] = c[v]
  BY <1>2, <1>3 DEF With
<1>6. TypeInv'
  <2>1. /\ \A v \in Workers : Len(m'.bump[v]) <= BumpMax
        /\ now' \in Nat /\ cmds' \in Nat /\ menu' = menu /\ DOMAIN ans' = Workers /\ DOMAIN ilock' = Keys
    BY <1>0 DEF Step, Moved
  <2> QED BY <2>1, <1>2, <1>3, <1>5 DEF TypeInv
<1>7. Life(m, Refs)'
  <2>1. RefsOf(With(c, w, y), m'.bump) = Plus(Plus(RefsOf(Others(w), m'.bump), y.it), y.old)
    BY <1>2, <1>4, RefsWith
  <2>2. Life(m', RefsOf(c', m'.bump))
    BY <2>1, <1>0, <1>3 DEF Moved
  <2> QED BY <2>2 DEF Refs
<1>8. AllFit'
  <2> SUFFICES ASSUME NEW v \in Workers PROVE Fits(c'[v], v, m', ilock')
    BY DEF AllFit
  <2>1. CASE v = w
    BY <2>1, <1>3, <1>5
  <2>2. CASE v # w
    <3>1. c[v] \in Command /\ c'[v] = c[v] /\ Fits(c[v], v, m, ilock) /\ v # NULL
      BY <2>2, <1>1, <1>2, <1>5, MemCacheAssumption DEF AllFit
    <3>2. \A k \in MayTake(w) : ilock[k] # v
      BY <2>2, <3>1 DEF MayTake
    <3>3. \A k \in Keys : ilock[k] = v => ilock'[k] = v
      <4>1. \A k \in Keys : k \notin MayTake(w) => ilock'[k] = ilock[k]
        BY DEF Step
      <4> QED BY <3>2, <4>1
    <3>4. n # NULL => c[v].it # n /\ c[v].old # n
      BY <1>0, <2>2 DEF Owned
    <3>5. Fits(c[v], v, m', ilock')
      BY <3>1, <3>2, <3>3, <3>4, <1>2, <1>3, FitsKept
    <3> QED BY <3>1, <3>5
  <2> QED BY <2>1, <2>2
<1>9. Alone(c')
  <2> SUFFICES ASSUME NEW u \in Workers, c'[u].pc = "nread", NEW v \in Workers, v # u
               PROVE  c'[v].it # c'[u].it /\ c'[v].old # c'[u].it
    BY DEF Alone
  <2>1. CASE u # w /\ v # w
    BY <2>1, <1>1, <1>5 DEF Alone
  <2>2. CASE u = w
    <3>1. c'[u] = y /\ y.pc = "nread" /\ c'[v] = c[v] /\ v # w
      BY <2>2, <1>5
    <3>2. CASE n # NULL /\ y.it = n
      BY <1>0, <3>1, <3>2 DEF Owned
    <3>3. CASE c[w].pc = "nread" /\ y.it = c[w].it
      BY <3>1, <3>3, <1>1 DEF Alone
    <3> QED BY <1>0, <3>1, <3>2, <3>3 DEF Owned
  <2>3. CASE v = w
    <3>1. u # w /\ c'[v] = y /\ c'[u] = c[u] /\ c[u].pc = "nread" /\ c[u] \in Command
      BY <2>3, <1>2, <1>5
    <3>2. c[u].it # NULL /\ c[u].it \notin m.assoc
      BY <3>1, <1>1 DEF AllFit, Fits
    <3>3. c[w].it # c[u].it /\ c[w].old # c[u].it
      BY <3>1, <1>1 DEF Alone
    <3>4. n # NULL => c[u].it # n
      BY <1>0, <3>1 DEF Owned
    <3>5. y.it # NULL => y.it = n \/ y.it = c[w].it \/ y.it \in m.assoc
      BY <1>0 DEF Owned
    <3>6. y.old # NULL => y.old = c[w].old \/ y.old \in m.assoc
      BY <1>0 DEF Owned
    <3> QED BY <3>1, <3>2, <3>3, <3>4, <3>5, <3>6
  <2> QED BY <2>1, <2>2, <2>3
<1>10. Alone(c)'
  BY <1>9 DEF Alone
<1> QED BY <1>6, <1>7, <1>8, <1>10 DEF IInv

\* What the background does: it takes out only what nobody has locked.
Around ==
  /\ c' = c /\ m' \in Memory /\ Evolves(m, m', Unlocked, NULL, NULL)
  /\ Life(m', RefsOf(c, m'.bump))
  /\ \A v \in Workers : Len(m'.bump[v]) <= BumpMax
  /\ now' \in Nat /\ cmds' = cmds /\ menu' = menu /\ ans' = ans /\ ilock' = ilock

\* It keeps the invariant, too.
LEMMA BackgroundStep ==
  ASSUME IInv, Around
  PROVE  IInv'
<1>1. /\ TypeInv /\ Life(m, Refs) /\ AllFit /\ Alone(c)
  BY DEF IInv
<1>2. m \in Memory /\ c \in [Workers -> Command]
  BY <1>1 DEF TypeInv
<1>3. TypeInv'
  BY <1>1 DEF TypeInv, Around
<1>4. Life(m, Refs)'
  BY DEF Around, Refs
<1>5. AllFit'
  <2> SUFFICES ASSUME NEW v \in Workers PROVE Fits(c'[v], v, m', ilock')
    BY DEF AllFit
  <2>1. c[v] \in Command /\ Fits(c[v], v, m, ilock) /\ v # NULL
    BY <1>1, <1>2, MemCacheAssumption DEF AllFit
  <2>2. \A k \in Unlocked : ilock[k] # v
    BY <2>1 DEF Unlocked
  <2>3. Evolves(m, m', Unlocked, NULL, NULL) /\ c' = c /\ ilock' = ilock
    BY DEF Around
  <2>4. Fits(c[v], v, m', ilock)
    BY <2>1, <2>2, <2>3, <1>2, FitsKept
  <2> QED BY <2>3, <2>4
<1>6. Alone(c)'
  BY <1>1 DEF Alone, Around
<1> QED BY <1>3, <1>4, <1>5, <1>6 DEF IInv

-----------------------------------------------------------------------------
(* What a step of a worker starts from *)

\* The references of all but worker w.
Base(w) == RefsOf(Others(w), m.bump)

\* What the invariant says of worker w.
State(w) ==
  /\ m \in Memory /\ Base(w) \in [Items -> Nat]
  /\ Life(m, Plus(Plus(Base(w), c[w].it), c[w].old))
  /\ c[w] \in Command /\ Fits(c[w], w, m, ilock)
  /\ now \in Nat /\ cmds \in Nat /\ menu \in Menus
  /\ c \in [Workers -> Command] /\ DOMAIN c = Workers /\ DOMAIN ans = Workers /\ DOMAIN ilock = Keys
  /\ \A v \in Workers : Len(m.bump[v]) <= BumpMax

\* The invariant says so.
LEMMA OwnState ==
  ASSUME IInv, NEW w \in Workers
  PROVE  State(w)
<1>1. TypeInv /\ Life(m, Refs) /\ AllFit
  BY DEF IInv
<1>2. /\ m \in Memory /\ c \in [Workers -> Command] /\ c[w] \in Command /\ now \in Nat /\ cmds \in Nat
      /\ menu \in Menus /\ DOMAIN c = Workers /\ DOMAIN ans = Workers /\ DOMAIN ilock = Keys
      /\ \A v \in Workers : Len(m.bump[v]) <= BumpMax
  BY <1>1 DEF TypeInv
<1>3. Refs = Plus(Plus(Base(w), c[w].it), c[w].old) /\ Base(w) \in [Items -> Nat]
  BY <1>1, RefsNow DEF Base
<1>4. Life(m, Plus(Plus(Base(w), c[w].it), c[w].old)) /\ Fits(c[w], w, m, ilock)
  BY <1>1, <1>3 DEF AllFit
<1> QED BY <1>2, <1>3, <1>4 DEF State

\* A command that has nothing has no references, and that has only it, one.
LEMMA FewRefs ==
  ASSUME NEW w \in Workers, State(w)
  PROVE  /\ c[w].it = NULL /\ c[w].old = NULL => Life(m, Base(w))
         /\ c[w].old = NULL => Life(m, Plus(Base(w), c[w].it))
         /\ c[w].it = NULL => Life(m, Plus(Base(w), c[w].old))
<1>1. Base(w) \in [Items -> Nat] /\ Life(m, Plus(Plus(Base(w), c[w].it), c[w].old)) /\ c[w] \in Command
  BY DEF State
<1>2. c[w].it \in Items \cup {NULL}
  BY <1>1 DEF Command
<1>3. /\ Plus(Base(w), NULL) = Base(w) /\ Plus(Plus(Base(w), c[w].it), NULL) = Plus(Base(w), c[w].it)
  BY DEF Plus
<1> QED BY <1>1, <1>3

\* A step that leaves the bump buffers alone.
LEMMA SteppedMoved ==
  ASSUME NEW w \in Workers, State(w), NEW t, NEW y, NEW n, NEW o, NEW ext,
         ext = Plus(Plus(Base(w), y.it), y.old), Stepped(m, t, ext, MayTake(w), n, o)
  PROVE  Moved(w, t, y, n, o)
<1>1. t \in Memory /\ Life(t, ext) /\ t.bump = m.bump /\ Evolves(m, t, MayTake(w), n, o)
  BY DEF Stepped
<1>2. RefsOf(Others(w), t.bump) = Base(w)
  BY <1>1 DEF Base
<1>3. \A v \in Workers : Len(m.bump[v]) <= BumpMax
  BY DEF State
<1> QED BY <1>1, <1>2, <1>3 DEF Moved

\* The memory does not change.
LEMMA StaysMoved ==
  ASSUME NEW w \in Workers, State(w), NEW y, y.it = c[w].it, y.old = c[w].old
  PROVE  Moved(w, m, y, NULL, NULL)
<1>1. Evolves(m, m, MayTake(w), NULL, NULL)
  <2>1. m \in Memory /\ Same(m, m)
    BY DEF State, Same
  <2> QED BY <2>1, SameEvolves
<1> QED BY <1>1 DEF Moved, State, Base

-----------------------------------------------------------------------------
(* The steps of a worker, one after the other *)

\* A worker that has nothing, and one that goes on with what it has.
LEMMA IdleFits ==
  ASSUME NEW w, NEW s, NEW lk
  PROVE  Idle \in Command /\ Fits(Idle, w, s, lk)
<1>1. Idle \in Command
  BY DEF Idle, Command, Pcs, Comms, Val
<1>2. NULL \notin GetComms
  BY MemCacheAssumption DEF GetComms
<1> QED BY <1>1, <1>2 DEF Idle, Fits

\* The reply is built.
LEMMA ReplySteps ==
  ASSUME IInv, NEW w \in Workers, Reply(w)
  PROVE  Steps(w)
<1> DEFINE y == [c[w] EXCEPT !.pc = "drop"]
<1>1. State(w)
  BY OwnState
<1>2. c[w] \in Command /\ Fits(c[w], w, m, ilock) /\ c[w].pc = "found"
  BY <1>1 DEF State, Reply
<1>3. /\ y \in Command /\ y.pc = "drop" /\ y.it = c[w].it /\ y.old = c[w].old /\ y.key = c[w].key
      /\ y.comm = c[w].comm /\ y.val = c[w].val
  BY <1>2 DEF Command, Pcs
<1>4. c' = With(c, w, y)
  BY DEF Reply, With
<1> HIDE DEF y
<1>5. Fits(y, w, m, ilock)
  BY <1>2, <1>3 DEF Fits
<1>6. Moved(w, m, y, NULL, NULL) /\ Owned(w, y, NULL)
  BY <1>1, <1>3, StaysMoved DEF Owned
<1>7. /\ m' = m /\ ilock' = ilock /\ now' = now /\ cmds' = cmds /\ menu' = menu /\ DOMAIN ans' = DOMAIN ans
  BY DEF Reply, Quiet
<1>8. Step(w, y, NULL, NULL)
  BY <1>1, <1>3, <1>4, <1>5, <1>6, <1>7 DEF Step, State
<1> QED BY <1>8 DEF Steps

\* The data block does not end as it should.
LEMMA NreadBadSteps ==
  ASSUME IInv, NEW w \in Workers, NreadBad(w)
  PROVE  Steps(w)
<1> DEFINE y == [c[w] EXCEPT !.pc = "drop"]
<1>1. State(w)
  BY OwnState
<1>2. c[w] \in Command /\ Fits(c[w], w, m, ilock) /\ c[w].pc = "nread"
  BY <1>1 DEF State, NreadBad
<1>3. /\ y \in Command /\ y.pc = "drop" /\ y.it = c[w].it /\ y.old = c[w].old /\ y.key = c[w].key
      /\ y.comm = c[w].comm /\ y.val = c[w].val
  BY <1>2 DEF Command, Pcs
<1>4. c' = With(c, w, y)
  BY DEF NreadBad, With
<1> HIDE DEF y
<1>5. Fits(y, w, m, ilock)
  BY <1>2, <1>3 DEF Fits
<1>6. Moved(w, m, y, NULL, NULL) /\ Owned(w, y, NULL)
  BY <1>1, <1>3, StaysMoved DEF Owned
<1>7. /\ m' = m /\ ilock' = ilock /\ now' = now /\ cmds' = cmds /\ menu' = menu /\ DOMAIN ans' = DOMAIN ans
  BY DEF NreadBad, Quiet
<1>8. Step(w, y, NULL, NULL)
  BY <1>1, <1>3, <1>4, <1>5, <1>6, <1>7 DEF Step, State
<1> QED BY <1>8 DEF Steps

\* A command is read and its data will be.
LEMMA UpdateCmdSteps ==
  ASSUME IInv, NEW w \in Workers, NEW comm, NEW k \in Keys, NEW ttl \in Expiries, NEW cas \in CasIds,
         UpdateCmd(w, comm, k, ttl, cas)
  PROVE  Steps(w)
<1> DEFINE e == IF comm \in {"APPEND", "PREPEND"} THEN 0 ELSE realtime(ttl)
           y == [Idle EXCEPT !.pc = "alloc", !.comm = comm, !.key = k, !.val = <<cmds>>,
                             !.cas = cas, !.exptime = e]
<1>1. State(w) /\ comm \in StorageComms /\ c[w].pc = "idle"
  BY OwnState DEF UpdateCmd, Begins
<1>2. c[w].it = NULL /\ c[w].old = NULL /\ cmds \in Nat
  BY <1>1 DEF State, Fits
<1>3. cas \in Nat
  BY <1>1 DEF CasIds, State, Memory
<1>4. e \in Int
  <2>1. ttl \in Int /\ now \in Int
    BY <1>1, MemCacheAssumption DEF Expiries, State
  <2>2. realtime(ttl) \in Int
    BY <2>1 DEF realtime
  <2> QED BY <2>2
<1> HIDE DEF e
<1>5. Idle \in Command /\ <<cmds>> \in Val
  BY <1>2, IdleFits DEF Val
<1>6. /\ y \in Command /\ y.pc = "alloc" /\ y.it = NULL /\ y.old = NULL /\ y.key = k /\ y.comm = comm
  BY <1>1, <1>3, <1>4, <1>5 DEF Command, Pcs, Comms, Idle
<1>7. c' = With(c, w, y)
  BY DEF UpdateCmd, With, e
<1> HIDE DEF y
<1>8. Fits(y, w, m, ilock)
  BY <1>1, <1>6 DEF Fits, StorageComms, GetComms
<1>9. Moved(w, m, y, NULL, NULL) /\ Owned(w, y, NULL)
  BY <1>1, <1>2, <1>6, StaysMoved DEF Owned
<1>10. /\ m' = m /\ ilock' = ilock /\ now' = now /\ cmds' = cmds + 1 /\ menu' = menu /\ ans' = ans
  BY DEF UpdateCmd, Quiet, Begins
<1>11. Step(w, y, NULL, NULL)
  BY <1>1, <1>2, <1>6, <1>7, <1>8, <1>9, <1>10 DEF Step, State
<1> QED BY <1>11 DEF Steps

\* flush_all writes oldest_live.
LEMMA FlushLiveSteps ==
  ASSUME IInv, NEW w \in Workers, NEW d, FlushLive(w, d)
  PROVE  Steps(w)
<1> DEFINE y == [Idle EXCEPT !.pc = "flush"]
<1>1. State(w) /\ c[w].pc = "idle"
  BY OwnState DEF FlushLive, Begins
<1>2. c[w].it = NULL /\ c[w].old = NULL /\ cmds \in Nat
  BY <1>1 DEF State, Fits
<1>3. y \in Command /\ y.pc = "flush" /\ y.it = NULL /\ y.old = NULL /\ y.comm = NULL
  BY IdleFits DEF Command, Pcs, Idle
<1>4. c' = With(c, w, y)
  BY DEF FlushLive, With
<1> HIDE DEF y
<1>5. Fits(y, w, m, ilock)
  <2>1. NULL \notin GetComms
    BY MemCacheAssumption DEF GetComms
  <2> QED BY <2>1, <1>3 DEF Fits
<1>6. Moved(w, m, y, NULL, NULL) /\ Owned(w, y, NULL)
  BY <1>1, <1>2, <1>3, StaysMoved DEF Owned
<1>7. /\ m' = m /\ ilock' = ilock /\ now' = now /\ cmds' = cmds + 1 /\ menu' = menu /\ ans' = ans
  BY DEF FlushLive, Begins
<1>8. Step(w, y, NULL, NULL)
  BY <1>1, <1>2, <1>3, <1>4, <1>5, <1>6, <1>7 DEF Step, State
<1> QED BY <1>8 DEF Steps

\* flush_all takes a CAS id, if what it flushes is of the past.
LEMMA FlushCasSteps ==
  ASSUME IInv, NEW w \in Workers, FlushCas(w)
  PROVE  Steps(w)
<1>1. State(w) /\ c[w].pc = "flush"
  BY OwnState DEF FlushCas
<1>2. c[w].it = NULL /\ c[w].old = NULL
  BY <1>1 DEF State, Fits
<1>3. /\ Idle \in Command /\ Fits(Idle, w, m', ilock') /\ Idle.it = NULL /\ Idle.old = NULL
      /\ Idle.pc = "idle"
  BY IdleFits DEF Idle
<1>4. c' = With(c, w, Idle)
  BY DEF FlushCas, With
<1>5. Moved(w, m', Idle, NULL, NULL)
  <2>1. CASE m' = m
    BY <2>1, <1>1, <1>2, <1>3, StaysMoved
  <2>2. CASE m' = CasUp(m)
    <3>1. m \in Memory /\ Base(w) \in [Items -> Nat] /\ Life(m, Base(w))
      BY <1>1, <1>2, FewRefs DEF State
    <3>2. Stepped(m, CasUp(m), Base(w), MayTake(w), NULL, NULL)
      BY <3>1, CasUpLife
    <3>3. Base(w) = Plus(Plus(Base(w), Idle.it), Idle.old)
      BY <1>3 DEF Plus
    <3> QED BY <2>2, <1>1, <3>2, <3>3, SteppedMoved
  <2> QED BY <2>1, <2>2 DEF FlushCas, CasUp
<1>6. Owned(w, Idle, NULL)
  BY <1>3 DEF Owned
<1>7. /\ ilock' = ilock /\ now' = now /\ cmds' = cmds /\ menu' = menu /\ DOMAIN ans' = DOMAIN ans
  BY DEF FlushCas
<1>8. Step(w, Idle, NULL, NULL)
  BY <1>1, <1>3, <1>4, <1>5, <1>6, <1>7 DEF Step, State
<1> QED BY <1>8 DEF Steps

\* The reference of the command is dropped.
LEMMA DropSteps ==
  ASSUME IInv, NEW w \in Workers, Drop(w)
  PROVE  Steps(w)
<1>1. State(w) /\ c[w].pc = "drop"
  BY OwnState DEF Drop
<1>2. c[w] \in Command /\ c[w].it # NULL /\ c[w].old = NULL
  BY <1>1 DEF State, Fits
<1> DEFINE i == c[w].it
<1>3. i \in Items /\ m \in Memory /\ Base(w) \in [Items -> Nat] /\ Life(m, Plus(Base(w), i))
  BY <1>1, <1>2, FewRefs DEF State, Command
<1>4. /\ Idle \in Command /\ Fits(Idle, w, m', ilock') /\ Idle.it = NULL /\ Idle.old = NULL
      /\ Idle.pc = "idle"
  BY IdleFits DEF Idle
<1>5. c' = With(c, w, Idle) /\ m' = do_item_remove(m, i)
  BY DEF Drop, With
<1> HIDE DEF i
<1>6. Moved(w, m', Idle, NULL, NULL)
  <2>1. Stepped(m, m, Plus(Base(w), i), MayTake(w), NULL, NULL)
    <3>1. Same(m, m)
      BY DEF Same
    <3>2. Evolves(m, m, MayTake(w), NULL, NULL)
      BY <1>3, <3>1, SameEvolves
    <3> QED BY <3>2, <1>3 DEF Stepped
  <2>2. Stepped(m, m', Base(w), MayTake(w), NULL, NULL)
    BY <1>3, <1>5, <2>1, ThenRemove
  <2>3. Base(w) = Plus(Plus(Base(w), Idle.it), Idle.old)
    BY <1>4 DEF Plus
  <2> QED BY <1>1, <2>2, <2>3, SteppedMoved
<1>7. Owned(w, Idle, NULL)
  BY <1>4 DEF Owned
<1>8. /\ ilock' = ilock /\ now' = now /\ cmds' = cmds /\ menu' = menu /\ ans' = ans
  BY DEF Drop, Quiet
<1>9. Step(w, Idle, NULL, NULL)
  BY <1>1, <1>4, <1>5, <1>6, <1>7, <1>8 DEF Step, State
<1> QED BY <1>9 DEF Steps

\* The reference that a caller may have is dropped after a step.
LEMMA ThenUnref ==
  ASSUME NEW s \in Memory, NEW t, NEW ext \in [Items -> Nat], NEW i \in Items \cup {NULL},
         NEW K, NEW n, NEW o, Stepped(s, t, Plus(ext, i), K, n, o)
  PROVE  Stepped(s, Unref(t, i), ext, K, n, o)
<1>1. CASE i = NULL
  <2>1. Plus(ext, i) = ext /\ Unref(t, i) = t
    BY <1>1 DEF Plus, Unref
  <2> QED BY <2>1
<1>2. CASE i # NULL
  <2>1. i \in Items /\ Unref(t, i) = do_item_remove(t, i)
    BY <1>2 DEF Unref
  <2> QED BY <2>1, ThenRemove
<1> QED BY <1>1, <1>2

\* A step that only takes items out, then another one.
LEMMA ThenStepped ==
  ASSUME NEW s \in Memory, NEW t, NEW u, NEW e, NEW f, NEW K, NEW n, NEW o,
         n \in s.assoc => n \in t.assoc,
         Stepped(s, t, e, K, NULL, NULL), Stepped(t, u, f, K, n, o)
  PROVE  Stepped(s, u, f, K, n, o)
<1>1. /\ t \in Memory /\ u \in Memory /\ t.bump = s.bump /\ u.bump = t.bump /\ Life(u, f)
      /\ Evolves(s, t, K, NULL, NULL) /\ Evolves(t, u, K, n, o)
  BY DEF Stepped
<1>2. Evolves(s, u, K, n, o)
  BY <1>1, EvolvesAfter
<1> QED BY <1>1, <1>2 DEF Stepped

\* A get without a hit is such a step.
LEMMA PeekStepped ==
  ASSUME NEW s \in Memory, NEW ext, NEW g, NEW K, NEW k, Peeked(s, ext, g, K, k)
  PROVE  Stepped(s, g.s, Plus(ext, g.it), K, NULL, NULL)
BY DEF Peeked, Stepped

\* What a get with a hit has found is what the command has from then on.
LEMMA HitMoved ==
  ASSUME NEW w \in Workers, State(w), NEW g, NEW k, Hitting(m, Base(w), g, MayTake(w), k, w),
         NEW y, y.it = g.it, y.old = NULL
  PROVE  Moved(w, g.s, y, NULL, NULL)
<1>1. m \in Memory /\ \A v \in Workers : Len(m.bump[v]) <= BumpMax
  BY DEF State
<1>2. g.s \in Memory /\ Evolves(m, g.s, MayTake(w), NULL, NULL)
  BY DEF Hitting
<1>3. Life(g.s, Plus(RefsOf(Others(w), g.s.bump), g.it))
  BY <1>1, HitRefs DEF Base
<1>4. Plus(Plus(RefsOf(Others(w), g.s.bump), y.it), y.old) = Plus(RefsOf(Others(w), g.s.bump), g.it)
  BY DEF Plus
<1>5. \A v \in Workers : Len(g.s.bump[v]) <= BumpMax
  <2>1. CASE g.it = NULL
    BY <1>1, <2>1 DEF Hitting
  <2>2. CASE g.it # NULL
    <3>1. g.it \in Items /\ Noted(m, g.s, g.it, w)
      BY <2>2 DEF Hitting
    <3> QED BY <1>1, <1>2, <3>1, NotedRoom
  <2> QED BY <2>1, <2>2
<1> QED BY <1>2, <1>3, <1>4, <1>5 DEF Moved

\* A get with a hit whose reference is dropped at once.
LEMMA HitDropped ==
  ASSUME NEW w \in Workers, State(w), NEW g, NEW k, Hitting(m, Base(w), g, MayTake(w), k, w),
         g.it # NULL, NEW y, y.it = NULL, y.old = NULL
  PROVE  Moved(w, do_item_remove(g.s, g.it), y, NULL, NULL)
<1> DEFINE t == Unref(g.s, g.it)
           e == RefsOf(Others(w), g.s.bump)
<1>1. m \in Memory /\ \A v \in Workers : Len(m.bump[v]) <= BumpMax
  BY DEF State
<1>2. g.s \in Memory /\ Evolves(m, g.s, MayTake(w), NULL, NULL) /\ g.it \in Items /\ Noted(m, g.s, g.it, w)
  BY DEF Hitting
<1>3. Life(g.s, Plus(e, g.it)) /\ e \in [Items -> Nat]
  BY <1>1, HitRefs, RefsType DEF Base
<1>4. \A v \in Workers : Len(g.s.bump[v]) <= BumpMax
  BY <1>1, <1>2, NotedRoom
<1>5. t = do_item_remove(g.s, g.it)
  BY DEF Unref
<1> HIDE DEF e
<1>6. /\ t \in Memory /\ Life(t, e) /\ t.assoc = g.s.assoc /\ t.bump = g.s.bump
      /\ Evolves(g.s, t, MayTake(w), NULL, NULL)
  BY <1>2, <1>3, UnrefLife
<1> HIDE DEF t
<1>7. Evolves(m, t, MayTake(w), NULL, NULL)
  BY <1>1, <1>2, <1>6, EvolvesBefore
<1>8. Plus(Plus(RefsOf(Others(w), t.bump), y.it), y.old) = e
  BY <1>6 DEF Plus, e
<1>9. Moved(w, t, y, NULL, NULL)
  BY <1>4, <1>6, <1>7, <1>8 DEF Moved
<1> QED BY <1>5, <1>9

\* What a get begins with: a worker that has nothing, and a key nobody locked.
LEMMA BeginsWith ==
  ASSUME NEW w \in Workers, State(w), NEW op, Begins(w, op)
  PROVE  /\ c[w].it = NULL /\ c[w].old = NULL /\ c[w].pc = "idle" /\ Life(m, Base(w))
         /\ cmds' \in Nat /\ With(c, w, c[w]) = c
<1>1. c[w].pc = "idle" /\ cmds' = cmds + 1 /\ Fits(c[w], w, m, ilock) /\ cmds \in Nat
  BY DEF Begins, State
<1>2. c[w].it = NULL /\ c[w].old = NULL
  BY <1>1 DEF Fits
<1>3. With(c, w, c[w]) = c
  <2>1. c \in [Workers -> Command]
    BY DEF State
  <2> QED BY <2>1 DEF With
<1>4. Life(m, Base(w))
  BY <1>2, FewRefs
<1> QED BY <1>1, <1>2, <1>3, <1>4

\* A get with a hit: nothing is found, too many hold the item, or it is sent.
LEMMA GetCmdSteps ==
  ASSUME IInv, NEW w \in Workers, NEW op \in {"get", "gets", "gat"}, NEW k \in Keys,
         NEW ttl \in Expiries, GetCmd(w, op, k, ttl)
  PROVE  Steps(w)
<1> DEFINE r == IF op = "gat" THEN do_item_touch(m, k, w, realtime(ttl))
                ELSE do_item_get(m, k, w, DO_UPDATE)
           many == r.it # NULL /\ r.s.it[r.it].refcount > RefcountLimit
           y == [Idle EXCEPT !.pc = "found", !.comm = op, !.key = k, !.it = r.it,
                             !.val = r.s.it[r.it].val]
<1>1. State(w) /\ Begins(w, op)
  BY OwnState DEF GetCmd
<1>2. /\ c[w].it = NULL /\ c[w].old = NULL /\ c[w].pc = "idle" /\ Life(m, Base(w))
      /\ cmds' \in Nat /\ With(c, w, c[w]) = c
  BY <1>1, BeginsWith
<1>3. m \in Memory /\ Base(w) \in [Items -> Nat] /\ now \in Nat /\ k \in MayTake(w)
  BY <1>1 DEF State, MayTake, GetCmd, Free
<1>4. Hitting(m, Base(w), r, MayTake(w), k, w)
  <2>1. realtime(ttl) \in Int
    BY <1>3, MemCacheAssumption DEF Expiries, realtime
  <2>2. Hitting(m, Base(w), do_item_touch(m, k, w, realtime(ttl)), MayTake(w), k, w)
    BY <1>2, <1>3, <2>1, HitTouch
  <2>3. Hitting(m, Base(w), do_item_get(m, k, w, DO_UPDATE), MayTake(w), k, w)
    BY <1>2, <1>3, HitGet
  <2> QED BY <2>2, <2>3, Zenon
<1>5. /\ IF r.it = NULL \/ many
         THEN /\ m' = IF many THEN do_item_remove(r.s, r.it) ELSE r.s
              /\ DOMAIN ans' = DOMAIN ans /\ c' = c
         ELSE m' = r.s /\ c' = With(c, w, y) /\ ans' = ans
      /\ ilock' = ilock /\ now' = now /\ menu' = menu
  BY DEF GetCmd, Quiet, With
<1> HIDE DEF r
<1>6. CASE r.it = NULL
  <2>1. m' = r.s /\ c' = c /\ DOMAIN ans' = DOMAIN ans
    BY <1>5, <1>6
  <2>2. Moved(w, m', c[w], NULL, NULL)
    BY <1>1, <1>2, <1>4, <1>6, <2>1, HitMoved
  <2>3. Owned(w, c[w], NULL) /\ c[w] \in Command
    BY <1>1, <1>2 DEF Owned, State
  <2>4. Fits(c[w], w, m', ilock')
    BY <1>1, <1>2, <1>5 DEF Fits, State
  <2>5. Step(w, c[w], NULL, NULL)
    BY <1>1, <1>2, <1>3, <1>5, <2>1, <2>2, <2>3, <2>4 DEF Step, State
  <2> QED BY <2>5 DEF Steps
<1>7. CASE r.it # NULL /\ many
  <2>1. m' = do_item_remove(r.s, r.it) /\ c' = c /\ DOMAIN ans' = DOMAIN ans
    BY <1>5, <1>7
  <2>2. Moved(w, m', c[w], NULL, NULL)
    BY <1>1, <1>2, <1>4, <1>7, <2>1, HitDropped
  <2>3. Owned(w, c[w], NULL) /\ c[w] \in Command
    BY <1>1, <1>2 DEF Owned, State
  <2>4. Fits(c[w], w, m', ilock')
    BY <1>1, <1>2, <1>5 DEF Fits, State
  <2>5. Step(w, c[w], NULL, NULL)
    BY <1>1, <1>2, <1>3, <1>5, <2>1, <2>2, <2>3, <2>4 DEF Step, State
  <2> QED BY <2>5 DEF Steps
<1>8. CASE r.it # NULL /\ ~many
  <2>1. m' = r.s /\ c' = With(c, w, y) /\ ans' = ans
    BY <1>5, <1>8
  <2>2. /\ r.s \in Memory /\ r.it \in Items /\ r.it \in r.s.assoc /\ r.s.it[r.it].key = k
        /\ r.it \in m.assoc
    BY <1>4, <1>8 DEF Hitting
  <2>3. r.s.it[r.it].val \in Val /\ op \in Comms
    BY <2>2 DEF Memory, Item, Comms, GetComms
  <2>4. /\ y \in Command /\ y.pc = "found" /\ y.it = r.it /\ y.old = NULL /\ y.key = k
        /\ y.comm = op /\ y.val = r.s.it[r.it].val
    BY <2>2, <2>3, IdleFits DEF Command, Pcs, Idle
  <2> HIDE DEF y
  <2>5. Moved(w, m', y, NULL, NULL)
    BY <1>1, <1>4, <2>1, <2>4, HitMoved
  <2>6. Owned(w, y, NULL)
    BY <2>2, <2>4 DEF Owned
  <2>7. Fits(y, w, m', ilock')
    BY <1>8, <2>1, <2>2, <2>4 DEF Fits
  <2>8. Step(w, y, NULL, NULL)
    BY <1>1, <1>2, <1>3, <1>5, <2>1, <2>4, <2>5, <2>6, <2>7 DEF Step, State
  <2> QED BY <2>8 DEF Steps
<1> QED BY <1>6, <1>7, <1>8

\* touch: the command holds the item until the answer is sent.
LEMMA TouchCmdSteps ==
  ASSUME IInv, NEW w \in Workers, NEW k \in Keys, NEW ttl \in Expiries, TouchCmd(w, k, ttl)
  PROVE  Steps(w)
<1> DEFINE r == do_item_touch(m, k, w, realtime(ttl))
           y == [Idle EXCEPT !.pc = "drop", !.key = k, !.it = r.it]
<1>1. State(w) /\ Begins(w, "touch")
  BY OwnState DEF TouchCmd
<1>2. /\ c[w].it = NULL /\ c[w].old = NULL /\ c[w].pc = "idle" /\ Life(m, Base(w))
      /\ cmds' \in Nat /\ With(c, w, c[w]) = c
  BY <1>1, BeginsWith
<1>3. m \in Memory /\ Base(w) \in [Items -> Nat] /\ now \in Nat /\ k \in MayTake(w)
  BY <1>1 DEF State, MayTake, TouchCmd, Free
<1>4. Hitting(m, Base(w), r, MayTake(w), k, w)
  <2>1. realtime(ttl) \in Int
    BY <1>3, MemCacheAssumption DEF Expiries, realtime
  <2> QED BY <1>2, <1>3, <2>1, HitTouch
<1>5. /\ m' = r.s /\ DOMAIN ans' = DOMAIN ans
      /\ c' = IF r.it = NULL THEN c ELSE With(c, w, y)
      /\ ilock' = ilock /\ now' = now /\ menu' = menu
  BY DEF TouchCmd, Quiet, With
<1> HIDE DEF r
<1>6. CASE r.it = NULL
  <2>1. c' = c
    BY <1>5, <1>6
  <2>2. Moved(w, m', c[w], NULL, NULL)
    BY <1>1, <1>2, <1>4, <1>5, <1>6, HitMoved
  <2>3. Owned(w, c[w], NULL) /\ c[w] \in Command
    BY <1>1, <1>2 DEF Owned, State
  <2>4. Fits(c[w], w, m', ilock')
    BY <1>1, <1>2, <1>5 DEF Fits, State
  <2>5. Step(w, c[w], NULL, NULL)
    BY <1>1, <1>2, <1>3, <1>5, <2>1, <2>2, <2>3, <2>4 DEF Step, State
  <2> QED BY <2>5 DEF Steps
<1>7. CASE r.it # NULL
  <2>1. c' = With(c, w, y)
    BY <1>5, <1>7
  <2>2. /\ r.s \in Memory /\ r.it \in Items /\ r.s.it[r.it].key = k /\ r.it \in m.assoc
    BY <1>4, <1>7 DEF Hitting
  <2>4. /\ y \in Command /\ y.pc = "drop" /\ y.it = r.it /\ y.old = NULL /\ y.key = k /\ y.comm = NULL
    BY <2>2, IdleFits DEF Command, Pcs, Idle
  <2> HIDE DEF y
  <2>5. Moved(w, m', y, NULL, NULL)
    BY <1>1, <1>4, <1>5, <2>4, HitMoved
  <2>6. Owned(w, y, NULL)
    BY <2>2, <2>4 DEF Owned
  <2>7. Fits(y, w, m', ilock')
    <3>1. NULL \notin GetComms
      BY MemCacheAssumption DEF GetComms
    <3> QED BY <3>1, <1>5, <1>7, <2>2, <2>4 DEF Fits
  <2>8. Step(w, y, NULL, NULL)
    BY <1>1, <1>2, <1>3, <1>5, <2>1, <2>4, <2>5, <2>6, <2>7 DEF Step, State
  <2> QED BY <2>8 DEF Steps
<1> QED BY <1>6, <1>7

\* A delete takes the item out, if it is there and has the CAS id.
LEMMA DeleteCmdSteps ==
  ASSUME IInv, NEW w \in Workers, NEW k \in Keys, NEW cas, DeleteCmd(w, k, cas)
  PROVE  Steps(w)
<1> DEFINE g == do_item_get(m, k, w, DONT_UPDATE)
           same == g.it # NULL /\ (cas = 0 \/ cas = g.s.it[g.it].cas)
           t == IF same THEN do_item_unlink(g.s, g.it) ELSE g.s
           e == Plus(Base(w), g.it)
           K == MayTake(w)
<1>1. State(w) /\ Begins(w, "delete")
  BY OwnState DEF DeleteCmd
<1>2. /\ c[w].it = NULL /\ c[w].old = NULL /\ c[w].pc = "idle" /\ Life(m, Base(w))
      /\ cmds' \in Nat /\ With(c, w, c[w]) = c
  BY <1>1, BeginsWith
<1>3. m \in Memory /\ Base(w) \in [Items -> Nat] /\ now \in Nat /\ k \in K
  BY <1>1 DEF State, MayTake, DeleteCmd, Free
<1> HIDE DEF K
<1>4. Peeked(m, Base(w), g, K, k)
  BY <1>2, <1>3, PeekLife
<1>5. /\ m' = Unref(t, g.it) /\ c' = c /\ DOMAIN ans' = DOMAIN ans
      /\ ilock' = ilock /\ now' = now /\ menu' = menu
  BY DEF DeleteCmd, Quiet
<1> HIDE DEF g
<1>6. Stepped(m, g.s, e, K, NULL, NULL)
  BY <1>3, <1>4, PeekStepped
<1>7. e \in [Items -> Nat] /\ g.s \in Memory /\ g.it \in Items \cup {NULL}
  BY <1>4 DEF Peeked
<1>8. Stepped(m, t, e, K, NULL, NULL)
  <2>1. CASE ~same
    BY <2>1, <1>6
  <2>2. CASE same
    <3>1. g.it \in Items /\ g.s.it[g.it].key \in K
      BY <2>2, <1>3, <1>4 DEF Peeked
    <3>2. Life(g.s, e)
      BY <1>6 DEF Stepped
    <3> HIDE DEF e
    <3>3. Stepped(g.s, do_item_unlink(g.s, g.it), e, K, NULL, NULL)
      BY <1>7, <3>1, <3>2, UnlinkStep
    <3>4. NULL \notin m.assoc
      BY <1>3, MemCacheAssumption DEF Memory
    <3>5. Stepped(m, do_item_unlink(g.s, g.it), e, K, NULL, NULL)
      BY <1>3, <1>6, <3>3, <3>4, ThenStepped
    <3> QED BY <2>2, <3>5
  <2> QED BY <2>1, <2>2
<1> HIDE DEF t
<1>9. Stepped(m, m', Base(w), K, NULL, NULL)
  BY <1>3, <1>5, <1>7, <1>8, ThenUnref
<1>10. Moved(w, m', c[w], NULL, NULL)
  <2>1. Base(w) = Plus(Plus(Base(w), c[w].it), c[w].old)
    BY <1>2 DEF Plus
  <2> QED BY <1>1, <1>9, <2>1, SteppedMoved DEF K
<1>11. Owned(w, c[w], NULL) /\ c[w] \in Command
  BY <1>1, <1>2 DEF Owned, State
<1>12. Fits(c[w], w, m', ilock')
  BY <1>1, <1>2, <1>5 DEF Fits, State
<1>13. Step(w, c[w], NULL, NULL)
  BY <1>1, <1>2, <1>3, <1>5, <1>10, <1>11, <1>12 DEF Step, State
<1> QED BY <1>13 DEF Steps

\* A set that found no memory looks for the old value.
LEMMA OomGetSteps ==
  ASSUME IInv, NEW w \in Workers, OomGet(w)
  PROVE  Steps(w)
<1> DEFINE k == c[w].key
           g == do_item_get(m, k, w, DONT_UPDATE)
           z == [c[w] EXCEPT !.pc = "unlink", !.it = g.it]
           y == IF g.it = NULL THEN Idle ELSE z
           K == MayTake(w)
<1>1. State(w) /\ c[w].pc = "oom"
  BY OwnState DEF OomGet
<1>2. c[w].it = NULL /\ c[w].old = NULL /\ k \in Keys /\ c[w].comm \notin GetComms /\ c[w] \in Command
  BY <1>1 DEF State, Fits
<1>3. m \in Memory /\ Base(w) \in [Items -> Nat] /\ now \in Nat /\ k \in K /\ Life(m, Base(w))
  BY <1>1, <1>2, FewRefs DEF State, MayTake, OomGet, Free
<1>5. /\ m' = g.s /\ c' = With(c, w, y) /\ ans' = ans /\ cmds' = cmds
      /\ ilock' = ilock /\ now' = now /\ menu' = menu
  BY DEF OomGet, Quiet, With
<1> HIDE DEF K
<1>4. Peeked(m, Base(w), g, K, k)
  BY <1>2, <1>3, PeekLife
<1> HIDE DEF g
<1>6. Stepped(m, g.s, Plus(Base(w), g.it), K, NULL, NULL)
  BY <1>3, <1>4, PeekStepped
<1>7. /\ g.s \in Memory /\ g.it \in Items \cup {NULL}
      /\ g.it # NULL => g.s.it[g.it].key = k /\ g.it \in m.assoc
  BY <1>4 DEF Peeked
<1>8. /\ y \in Command /\ y.it = g.it /\ y.old = NULL
      /\ g.it # NULL => y.pc = "unlink" /\ y.key = k /\ y.comm = c[w].comm
      /\ g.it = NULL => y = Idle
  <2>1. CASE g.it = NULL
    <3>1. y = Idle
      BY <2>1
    <3> HIDE DEF y
    <3> QED BY <2>1, <3>1, IdleFits DEF Idle
  <2>2. CASE g.it # NULL
    <3>1. y = z
      BY <2>2
    <3>2. z \in Command /\ z.it = g.it /\ z.old = NULL /\ z.pc = "unlink" /\ z.key = k /\ z.comm = c[w].comm
      BY <1>2, <1>7 DEF Command, Pcs
    <3> HIDE DEF y, z
    <3> QED BY <2>2, <3>1, <3>2
  <2> QED BY <2>1, <2>2
<1> HIDE DEF y
<1>9. Moved(w, m', y, NULL, NULL)
  <2>1. Plus(Base(w), g.it) = Plus(Plus(Base(w), y.it), y.old)
    BY <1>8 DEF Plus
  <2> QED BY <1>1, <1>5, <1>6, <2>1, SteppedMoved DEF K
<1>10. Owned(w, y, NULL)
  BY <1>7, <1>8 DEF Owned, Idle
<1>11. Fits(y, w, m', ilock')
  <2>1. CASE g.it = NULL
    BY <2>1, <1>8, IdleFits
  <2>2. CASE g.it # NULL
    <3> HIDE DEF k
    <3> QED BY <2>2, <1>2, <1>5, <1>7, <1>8 DEF Fits
  <2> QED BY <2>1, <2>2
<1>12. Step(w, y, NULL, NULL)
  BY <1>1, <1>5, <1>8, <1>9, <1>10, <1>11 DEF Step, State
<1> QED BY <1>12 DEF Steps

\* It takes the old value out.
LEMMA OomUnlinkSteps ==
  ASSUME IInv, NEW w \in Workers, OomUnlink(w)
  PROVE  Steps(w)
<1> DEFINE y == [c[w] EXCEPT !.pc = "drop"]
           i == c[w].it
           e == Plus(Base(w), i)
           K == MayTake(w)
<1>1. State(w) /\ c[w].pc = "unlink"
  BY OwnState DEF OomUnlink
<1>2. c[w] \in Command /\ Fits(c[w], w, m, ilock) /\ i # NULL /\ c[w].old = NULL
  BY <1>1 DEF State, Fits
<1>3. i \in Items /\ m.it[i].key = c[w].key /\ c[w].key \in Keys /\ c[w].comm \notin GetComms
  BY <1>1, <1>2 DEF Fits, Command
<1>4. m \in Memory /\ Base(w) \in [Items -> Nat] /\ Life(m, e) /\ m.it[i].key \in K
  BY <1>1, <1>2, <1>3, FewRefs DEF State, MayTake, OomUnlink, Free
<1>5. /\ y \in Command /\ y.pc = "drop" /\ y.it = i /\ y.old = NULL /\ y.key = c[w].key
      /\ y.comm = c[w].comm
  BY <1>2 DEF Command, Pcs
<1>6. /\ m' = do_item_unlink(m, i) /\ c' = With(c, w, y) /\ ans' = ans /\ cmds' = cmds
      /\ ilock' = ilock /\ now' = now /\ menu' = menu
  BY DEF OomUnlink, Quiet, With
<1> HIDE DEF y, i, K
<1>7. e \in [Items -> Nat]
  BY <1>3, <1>4, PlusType
<1> HIDE DEF e
<1>8. Stepped(m, m', e, K, NULL, NULL)
  BY <1>3, <1>4, <1>6, <1>7, UnlinkStep
<1>9. Moved(w, m', y, NULL, NULL)
  <2>1. e = Plus(Plus(Base(w), y.it), y.old)
    BY <1>5 DEF Plus, e
  <2> QED BY <1>1, <1>8, <2>1, SteppedMoved DEF K
<1>10. Owned(w, y, NULL)
  BY <1>5 DEF Owned, i
<1>11. Fits(y, w, m', ilock')
  <2>1. m'.it[i].key = m.it[i].key
    <3>1. Evolves(m, m', K, NULL, NULL) /\ i # NULL
      BY <1>8, <1>3, MemCacheAssumption DEF Stepped
    <3> QED BY <1>3, <3>1 DEF Evolves
  <2>2. i # NULL
    BY <1>3, MemCacheAssumption
  <2> QED BY <1>3, <1>5, <2>1, <2>2 DEF Fits
<1>12. Step(w, y, NULL, NULL)
  BY <1>1, <1>5, <1>6, <1>9, <1>10, <1>11 DEF Step, State
<1> QED BY <1>12 DEF Steps

\* store_item: the item whose data was read is linked, or not.
LEMMA NreadDoneSteps ==
  ASSUME IInv, NEW w \in Workers, NreadDone(w)
  PROVE  Steps(w)
<1> DEFINE k == c[w].key
           i == c[w].it
           g == do_item_get(m, k, w, DONT_UPDATE)
           a == g.s
           j == g.it
           t == Store(a, c[w].comm, i, j).s
           y == [c[w] EXCEPT !.pc = "drop"]
           e == Plus(Base(w), i)
           f == Plus(e, j)
           K == MayTake(w)
<1>1. State(w) /\ c[w].pc = "nread" /\ Alone(c)
  BY OwnState DEF NreadDone, IInv
<1>2. c[w] \in Command /\ Fits(c[w], w, m, ilock) /\ i # NULL /\ c[w].old = NULL
  BY <1>1 DEF State, Fits
<1>3. i \in Items /\ m.it[i].key = k /\ k \in Keys /\ c[w].comm \notin GetComms /\ i \notin m.assoc
  BY <1>1, <1>2 DEF Fits, Command
<1>4. m \in Memory /\ Base(w) \in [Items -> Nat] /\ Life(m, e) /\ k \in K /\ now \in Nat
  BY <1>1, <1>2, <1>3, FewRefs DEF State, MayTake, NreadDone, Free
<1>5. /\ y \in Command /\ y.pc = "drop" /\ y.it = i /\ y.old = NULL /\ y.key = k
      /\ y.comm = c[w].comm
  BY <1>2 DEF Command, Pcs
<1>6. /\ m' = Unref(t, j) /\ c' = With(c, w, y) /\ DOMAIN ans' = DOMAIN ans /\ cmds' = cmds
      /\ ilock' = ilock /\ now' = now /\ menu' = menu
  BY DEF NreadDone, Quiet, With
<1>7. \A v \in Workers : v # w => c[v].it # i /\ c[v].old # i
  BY <1>1 DEF Alone
<1> HIDE DEF y, i, k, K
<1>8. e \in [Items -> Nat] /\ e[i] > 0 /\ e[i] \in Nat
  BY <1>2, <1>3, <1>4, PlusType
<1> HIDE DEF e
<1>9. Peeked(m, e, g, K, k)
  BY <1>4, <1>8, PeekLife
<1>10. Stepped(m, a, f, K, NULL, NULL) /\ a \in Memory /\ j \in Items \cup {NULL}
  <2>1. Stepped(m, g.s, Plus(e, g.it), K, NULL, NULL)
    BY <1>4, <1>9, PeekStepped
  <2> HIDE DEF g
  <2> QED BY <1>9, <2>1 DEF Peeked
<1>11. /\ j = NULL => \A x \in a.assoc : a.it[x].key # k
       /\ j # NULL => j \in a.assoc /\ a.it[j].key = k
       /\ a.assoc \subseteq m.assoc /\ a.it[i].key = k
  <2> HIDE DEF g
  <2> QED BY <1>3, <1>9 DEF Peeked, Same
<1> HIDE DEF a, j
<1>12. f \in [Items -> Nat] /\ f[i] > 0
  <2>1. f \in [Items -> Nat] /\ f[i] = e[i] + (IF i = j THEN 1 ELSE 0)
    BY <1>3, <1>8, <1>10, PlusType
  <2> QED BY <2>1, <1>8
<1> HIDE DEF f
<1>13. /\ t \in Memory /\ Life(t, f) /\ t.bump = a.bump /\ t.it[i].key = a.it[i].key
       /\ Evolves(a, t, K, i, NULL)
  <2>1. Life(a, f)
    BY <1>10 DEF Stepped
  <2>2. i \notin a.assoc /\ a.it[i].key \in Keys /\ a.it[i].key \in K
    BY <1>3, <1>4, <1>11
  <2>3. j = NULL => \A x \in a.assoc : a.it[x].key # a.it[i].key
    BY <1>11
  <2>4. j # NULL => j \in a.assoc /\ a.it[j].key = a.it[i].key
    BY <1>11
  <2> QED BY <1>3, <1>4, <1>10, <1>12, <2>1, <2>2, <2>3, <2>4, StoreLife
<1> HIDE DEF t
<1>14. Stepped(m, t, f, K, i, NULL)
  <2>1. Stepped(a, t, f, K, i, NULL)
    BY <1>13 DEF Stepped
  <2> QED BY <1>3, <1>4, <1>10, <2>1, ThenStepped
<1>15. Stepped(m, m', e, K, i, NULL)
  BY <1>4, <1>6, <1>8, <1>10, <1>14, ThenUnref DEF f
<1>16. Moved(w, m', y, i, NULL)
  <2>1. e = Plus(Plus(Base(w), y.it), y.old)
    BY <1>5 DEF Plus, e
  <2> QED BY <1>1, <1>15, <2>1, SteppedMoved DEF K
<1>17. Owned(w, y, i)
  BY <1>5, <1>7 DEF Owned
<1>18. Fits(y, w, m', ilock')
  <2>1. Same(t, m')
    <3>1. Life(t, Plus(e, j))
      BY <1>13 DEF f
    <3> QED BY <1>6, <1>8, <1>10, <1>13, <3>1, UnrefLife
  <2>2. m'.it[i].key = k
    BY <2>1, <1>3, <1>11, <1>13 DEF Same
  <2> QED BY <1>2, <1>3, <1>5, <2>2 DEF Fits
<1>19. Step(w, y, i, NULL)
  BY <1>1, <1>5, <1>6, <1>16, <1>17, <1>18 DEF Step, State
<1> QED BY <1>19 DEF Steps

\* The item lock of a key is taken.
LEMMA LockTaken ==
  ASSUME NEW w \in Workers, State(w), NEW k \in Keys, Free(k), ilock' = [ilock EXCEPT ![k] = w]
  PROVE  /\ DOMAIN ilock' = Keys /\ ilock'[k] = w
         /\ \A x \in Keys : x \notin MayTake(w) => ilock'[x] = ilock[x]
BY DEF State, Free, MayTake

\* append and prepend: the old item is held, and its key locked.
LEMMA CopyBeginSteps ==
  ASSUME IInv, NEW w \in Workers, CopyBegin(w)
  PROVE  Steps(w)
<1> DEFINE k == c[w].key
           i == c[w].it
           g == do_item_get(m, k, w, DONT_UPDATE)
           a == g.s
           j == g.it
           res == IF j = NULL THEN "NOT_STORED"
                  ELSE IF c[w].cas # 0 /\ c[w].cas # a.it[j].cas THEN "EXISTS" ELSE "go"
           y == [c[w] EXCEPT !.pc = "drop"]
           z == [c[w] EXCEPT !.pc = "copy", !.old = j, !.tries = 0]
           e == Plus(Base(w), i)
           K == MayTake(w)
<1>1. State(w) /\ c[w].pc = "nread" /\ Free(k)
  BY OwnState DEF CopyBegin
<1>2. c[w] \in Command /\ Fits(c[w], w, m, ilock) /\ i # NULL /\ c[w].old = NULL
  BY <1>1 DEF State, Fits
<1>3. i \in Items /\ m.it[i].key = k /\ k \in Keys /\ c[w].comm \notin GetComms /\ i \notin m.assoc
  BY <1>1, <1>2 DEF Fits, Command
<1>4. m \in Memory /\ Base(w) \in [Items -> Nat] /\ Life(m, e) /\ k \in K /\ now \in Nat
  BY <1>1, <1>2, <1>3, FewRefs DEF State, MayTake, Free
<1>6. /\ IF res = "go" THEN m' = a /\ ilock' = [ilock EXCEPT ![k] = w] /\ c' = With(c, w, z) /\ ans' = ans
         ELSE m' = Unref(a, j) /\ DOMAIN ans' = DOMAIN ans /\ c' = With(c, w, y) /\ ilock' = ilock
      /\ cmds' = cmds /\ now' = now /\ menu' = menu
  BY DEF CopyBegin, Quiet, With
<1>5. /\ y \in Command /\ y.pc = "drop" /\ y.it = i /\ y.old = NULL /\ y.key = k
      /\ y.comm = c[w].comm
  BY <1>2 DEF Command, Pcs
<1> HIDE DEF y, i, k, K
<1>8. e \in [Items -> Nat]
  BY <1>2, <1>3, <1>4, PlusType
<1> HIDE DEF e
<1>9. Peeked(m, e, g, K, k)
  BY <1>4, <1>8, PeekLife
<1>10. Stepped(m, a, Plus(e, j), K, NULL, NULL) /\ a \in Memory /\ j \in Items \cup {NULL}
  <2>1. Stepped(m, g.s, Plus(e, g.it), K, NULL, NULL)
    BY <1>4, <1>9, PeekStepped
  <2> HIDE DEF g
  <2> QED BY <1>9, <2>1 DEF Peeked
<1>11. /\ j # NULL => j \in a.assoc /\ a.it[j].key = k /\ j \in m.assoc
       /\ a.it[i].key = k /\ a.assoc \subseteq m.assoc
  <2> HIDE DEF g
  <2> QED BY <1>3, <1>9 DEF Peeked, Same
<1> HIDE DEF a, j
<1>12. CASE res = "go"
  <2>1. j # NULL
    BY <1>12
  <2>2. /\ z \in Command /\ z.pc = "copy" /\ z.it = i /\ z.old = j /\ z.key = k /\ z.comm = c[w].comm
    BY <1>2, <1>10 DEF Command, Pcs, k, i
  <2>3. m' = a /\ ilock' = [ilock EXCEPT ![k] = w] /\ c' = With(c, w, z) /\ ans' = ans
    BY <1>6, <1>12
  <2> HIDE DEF z
  <2>4. Moved(w, m', z, NULL, NULL)
    <3>1. Plus(e, j) = Plus(Plus(Base(w), z.it), z.old)
      BY <2>2 DEF e
    <3> QED BY <1>1, <1>10, <2>3, <3>1, SteppedMoved DEF K
  <2>5. Owned(w, z, NULL)
    BY <1>11, <2>2 DEF Owned, i
  <2>6. /\ DOMAIN ilock' = Keys /\ ilock'[k] = w
        /\ \A x \in Keys : x \notin MayTake(w) => ilock'[x] = ilock[x]
    BY <1>1, <1>3, <2>3, LockTaken
  <2>7. Fits(z, w, m', ilock')
    BY <1>2, <1>3, <1>11, <2>1, <2>2, <2>3, <2>6 DEF Fits
  <2>8. Step(w, z, NULL, NULL)
    BY <1>1, <1>6, <2>2, <2>3, <2>4, <2>5, <2>6, <2>7 DEF Step, State
  <2> QED BY <2>8 DEF Steps
<1>13. CASE res # "go"
  <2>1. m' = Unref(a, j) /\ DOMAIN ans' = DOMAIN ans /\ c' = With(c, w, y) /\ ilock' = ilock
    BY <1>6, <1>13
  <2>2. Stepped(m, m', e, K, NULL, NULL)
    BY <1>4, <1>8, <1>10, <2>1, ThenUnref
  <2>3. Moved(w, m', y, NULL, NULL)
    <3>1. e = Plus(Plus(Base(w), y.it), y.old)
      BY <1>5 DEF Plus, e
    <3> QED BY <1>1, <2>2, <3>1, SteppedMoved DEF K
  <2>4. Owned(w, y, NULL)
    BY <1>5 DEF Owned, i
  <2>5. Fits(y, w, m', ilock')
    <3>1. m'.it[i].key = m.it[i].key
      <4>1. Evolves(m, m', K, NULL, NULL) /\ i # NULL
        BY <1>2, <2>2 DEF Stepped
      <4> QED BY <1>3, <4>1 DEF Evolves
    <3> QED BY <1>2, <1>3, <1>5, <3>1 DEF Fits
  <2>6. Step(w, y, NULL, NULL)
    BY <1>1, <1>5, <1>6, <2>1, <2>3, <2>4, <2>5 DEF Step, State
  <2> QED BY <2>6 DEF Steps
<1> QED BY <1>12, <1>13

\* An item that has no reference is with no worker.
LEMMA HeldByNone ==
  ASSUME IInv, NEW w \in Workers, NEW i \in Items, Plus(Plus(Base(w), c[w].it), c[w].old)[i] = 0
  PROVE  \A v \in Workers : c[v].it # i /\ c[v].old # i
<1>1. TypeInv
  BY DEF IInv
<1>2. Refs[i] = 0
  BY <1>1, RefsNow DEF Base
<1> QED BY <1>1, <1>2, HeldOnce

\* What incr and decr write is a number of one digit.
LEMMA DeltaVal ==
  ASSUME NEW op, NEW v \in Val, Len(v) = 1
  PROVE  <<Delta(op, v[1])>> \in Val
<1>1. v[1] \in Nat /\ Word \in Nat \ {0}
  <2>1. v \in Seq(Nat)
    BY DEF Val
  <2>2. 1 \in 1 .. Len(v)
    OBVIOUS
  <2> QED BY <2>1, <2>2, ElementOfSeq, MemCacheAssumption
<1> DEFINE a == v[1]
<1> HIDE DEF a
<1>2. a \in Nat
  BY <1>1 DEF a
<1>3. (a + 1) % Word \in Nat
  BY <1>1, <1>2
<1>4. Delta(op, a) \in Nat
  <2>1. a # 0 => a - 1 \in Nat
    BY <1>2
  <2> QED BY <1>3, <2>1 DEF Delta
<1> QED BY <1>4 DEF Val, a

\* incr and decr: the value is refused, overwritten, or a new item is asked for.
LEMMA DeltaCmdSteps ==
  ASSUME IInv, NEW w \in Workers, NEW op, NEW k \in Keys, NEW cas \in CasIds, NEW fits,
         DeltaCmd(w, op, k, cas, fits)
  PROVE  Steps(w)
<1> DEFINE g == do_item_get(m, k, w, DONT_UPDATE)
           a == g.s
           j == g.it
           old == a.it[j]
           res == IF j = NULL THEN "NOT_FOUND"
                  ELSE IF cas # 0 /\ cas # old.cas THEN "EXISTS"
                  ELSE IF Len(old.val) # 1 THEN "NON_NUMERIC" ELSE "OK"
           v == <<Delta(op, old.val[1])>>
           z == [Idle EXCEPT !.pc = "delta", !.comm = op, !.key = k,
                             !.val = v, !.cas = cas, !.exptime = old.exptime, !.old = j]
           e == Base(w)
           K == MayTake(w)
<1>1. State(w) /\ Begins(w, op) /\ Free(k) /\ op \in {"incr", "decr"}
  BY OwnState DEF DeltaCmd
<1>2. /\ c[w].it = NULL /\ c[w].old = NULL /\ c[w].pc = "idle" /\ Life(m, e)
      /\ cmds' \in Nat /\ With(c, w, c[w]) = c
  BY <1>1, BeginsWith
<1>3. m \in Memory /\ e \in [Items -> Nat] /\ now \in Nat /\ k \in K
  BY <1>1 DEF State, MayTake, Free
<1>4. cas \in Nat
  BY <1>1 DEF CasIds, State, Memory
<1>5. /\ IF res # "OK"
         THEN m' = Unref(a, j) /\ DOMAIN ans' = DOMAIN ans /\ c' = c /\ ilock' = ilock
         ELSE IF MayOverwrite(a, j, fits)
         THEN /\ m' = do_item_remove(do_item_update(Written(a, j, v, m.cas_id + 1), j), j)
              /\ DOMAIN ans' = DOMAIN ans /\ c' = c /\ ilock' = ilock
         ELSE m' = a /\ ilock' = [ilock EXCEPT ![k] = w] /\ c' = With(c, w, z) /\ ans' = ans
      /\ now' = now /\ menu' = menu
  BY DEF DeltaCmd, Quiet, With, Written
<1> HIDE DEF K, e
<1>6. Peeked(m, e, g, K, k)
  BY <1>2, <1>3, PeekLife
<1>7. Stepped(m, a, Plus(e, j), K, NULL, NULL) /\ a \in Memory /\ j \in Items \cup {NULL}
  <2>1. Stepped(m, g.s, Plus(e, g.it), K, NULL, NULL)
    BY <1>3, <1>6, PeekStepped
  <2> HIDE DEF g
  <2> QED BY <1>6, <2>1 DEF Peeked
<1>8. /\ j # NULL => j \in a.assoc /\ a.it[j].key = k /\ j \in m.assoc /\ Plus(e, j)[j] = e[j] + 1
      /\ a.cas_id = m.cas_id
  <2> HIDE DEF g
  <2> QED BY <1>6 DEF Peeked, Same
<1> HIDE DEF a, j
<1>9. c[w] \in Command /\ Fits(c[w], w, m', ilock')
  BY <1>1, <1>2 DEF Fits, State
<1>10. CASE res # "OK"
  <2>1. m' = Unref(a, j) /\ DOMAIN ans' = DOMAIN ans /\ c' = c /\ ilock' = ilock
    BY <1>5, <1>10
  <2>2. Stepped(m, m', e, K, NULL, NULL)
    BY <1>3, <1>7, <2>1, ThenUnref
  <2>3. Moved(w, m', c[w], NULL, NULL)
    <3>1. e = Plus(Plus(Base(w), c[w].it), c[w].old)
      BY <1>2 DEF Plus, e
    <3> QED BY <1>1, <2>2, <3>1, SteppedMoved DEF K
  <2>4. Owned(w, c[w], NULL)
    BY <1>2 DEF Owned
  <2>5. Step(w, c[w], NULL, NULL)
    BY <1>1, <1>2, <1>5, <1>9, <2>1, <2>3, <2>4 DEF Step, State
  <2> QED BY <2>5 DEF Steps
<1>11. ASSUME res = "OK"
       PROVE  j # NULL /\ j \in Items /\ old \in Item /\ v \in Val
  <2>1. j # NULL /\ Len(old.val) = 1
    BY <1>11
  <2>2. j \in Items /\ old \in Item
    BY <1>7, <2>1 DEF Memory
  <2> HIDE DEF old
  <2>3. old.val \in Val
    BY <2>2 DEF Item
  <2> QED BY <2>1, <2>2, <2>3, DeltaVal
<1>12. CASE res = "OK" /\ MayOverwrite(a, j, fits)
  <2>1. /\ m' = do_item_remove(do_item_update(Written(a, j, v, m.cas_id + 1), j), j)
        /\ DOMAIN ans' = DOMAIN ans /\ c' = c /\ ilock' = ilock
    BY <1>5, <1>12
  <2>2. j # NULL /\ j \in Items /\ v \in Val
    BY <1>11, <1>12
  <2> HIDE DEF v
  <2>3. Stepped(a, m', e, K, j, NULL)
    <3>1. j \in a.assoc /\ m.cas_id + 1 = a.cas_id + 1 /\ Life(a, Plus(e, j))
      BY <1>7, <1>8, <2>2 DEF Stepped
    <3> QED BY <1>3, <1>7, <2>1, <2>2, <3>1, WrittenLife
  <2>4. Stepped(m, m', e, K, j, NULL)
    BY <1>3, <1>7, <1>8, <2>2, <2>3, ThenStepped
  <2>5. Moved(w, m', c[w], j, NULL)
    <3>1. e = Plus(Plus(Base(w), c[w].it), c[w].old)
      BY <1>2 DEF Plus, e
    <3> QED BY <1>1, <2>4, <3>1, SteppedMoved DEF K
  <2>6. Owned(w, c[w], j)
    <3>1. a.it[j].refcount = 2 /\ Life(a, Plus(e, j)) /\ j \in a.assoc
      BY <1>7, <1>8, <1>12, <2>2 DEF MayOverwrite, Stepped
    <3>2. a.it[j].refcount = Plus(e, j)[j] + 1
      <4>1. Plus(e, j) \in [Items -> Nat]
        BY <1>3, <2>2, PlusType
      <4> QED BY <1>7, <3>1, <4>1, LinkedItem
    <3>3. e[j] = 0
      <4>1. e[j] \in Nat /\ Plus(e, j)[j] = e[j] + 1
        BY <1>3, <1>8, <2>2
      <4> QED BY <3>1, <3>2, <4>1
    <3>4. Plus(Plus(Base(w), c[w].it), c[w].old)[j] = 0
      BY <1>2, <3>3 DEF Plus, e
    <3>5. \A u \in Workers : c[u].it # j /\ c[u].old # j
      BY <2>2, <3>4, HeldByNone
    <3> QED BY <1>2, <3>5 DEF Owned
  <2>7. Step(w, c[w], j, NULL)
    BY <1>1, <1>2, <1>5, <1>9, <2>1, <2>5, <2>6 DEF Step, State
  <2> QED BY <2>7 DEF Steps
<1>13. CASE res = "OK" /\ ~MayOverwrite(a, j, fits)
  <2>1. m' = a /\ ilock' = [ilock EXCEPT ![k] = w] /\ c' = With(c, w, z) /\ ans' = ans
    BY <1>5, <1>13
  <2>2. j # NULL /\ j \in Items /\ old \in Item /\ v \in Val
    BY <1>11, <1>13
  <2>3. old.exptime \in Int /\ op \in Comms
    BY <1>1, <2>2 DEF Item, Comms
  <2> HIDE DEF v, old
  <2>4. /\ z \in Command /\ z.pc = "delta" /\ z.it = NULL /\ z.old = j /\ z.key = k /\ z.comm = op
    BY <1>4, <2>2, <2>3, IdleFits DEF Command, Pcs, Idle
  <2> HIDE DEF z
  <2>5. Moved(w, m', z, NULL, NULL)
    <3>1. Plus(e, j) = Plus(Plus(Base(w), z.it), z.old)
      BY <2>4 DEF Plus, e
    <3> QED BY <1>1, <1>7, <2>1, <3>1, SteppedMoved DEF K
  <2>6. Owned(w, z, NULL)
    BY <1>8, <2>2, <2>4 DEF Owned
  <2>7. /\ DOMAIN ilock' = Keys /\ ilock'[k] = w
        /\ \A x \in Keys : x \notin MayTake(w) => ilock'[x] = ilock[x]
    BY <1>1, <2>1, LockTaken
  <2>8. Fits(z, w, m', ilock')
    <3>1. z.comm \notin GetComms
      BY <1>1, <2>4 DEF GetComms
    <3> QED BY <1>1, <1>8, <2>1, <2>2, <2>4, <2>7, <3>1 DEF Fits
  <2>9. Step(w, z, NULL, NULL)
    BY <1>1, <1>2, <1>5, <2>1, <2>4, <2>5, <2>6, <2>7, <2>8 DEF Step, State
  <2> QED BY <2>9 DEF Steps
<1> QED BY <1>10, <1>12, <1>13

\* A step with a new item that is not in the hash table yet, then one with it.
LEMMA ThenNew ==
  ASSUME NEW s \in Memory, NEW t, NEW u, NEW e, NEW f, NEW K, NEW n, NEW o,
         n \notin s.assoc, t.assoc = s.assoc,
         Stepped(s, t, e, K, n, NULL), Stepped(t, u, f, K, n, o)
  PROVE  Stepped(s, u, f, K, n, o)
<1>1. /\ t \in Memory /\ u \in Memory /\ t.bump = s.bump /\ u.bump = t.bump /\ Life(u, f)
      /\ Evolves(s, t, K, n, NULL) /\ Evolves(t, u, K, n, o)
  BY DEF Stepped
<1>2. Evolves(s, u, K, n, o)
  BY <1>1, EvolvesNew
<1> QED BY <1>1, <1>2 DEF Stepped

\* An item lock that a worker has is released.
LEMMA LockLeft ==
  ASSUME NEW w \in Workers, State(w), NEW k \in Keys, ilock[k] = w, ilock' = [ilock EXCEPT ![k] = NULL]
  PROVE  /\ DOMAIN ilock' = Keys
         /\ \A x \in Keys : x \notin MayTake(w) => ilock'[x] = ilock[x]
BY DEF State, MayTake

\* The key of the item that a worker replaces is one it may take out.
LEMMA OldKey ==
  ASSUME NEW w \in Workers, State(w), c[w].old # NULL
  PROVE  /\ c[w].old \in Items /\ c[w].old \in m.assoc /\ m.it[c[w].old].key = c[w].key
         /\ c[w].key \in Keys /\ ilock[c[w].key] = w /\ c[w].key \in MayTake(w)
<1>1. c[w] \in Command /\ Fits(c[w], w, m, ilock)
  BY DEF State
<1>2. c[w].old \in Items /\ c[w].pc \in {"copy", "delta"}
  BY <1>1 DEF Command, Fits
<1>3. c[w].key \in Keys /\ ilock[c[w].key] = w /\ c[w].old \in m.assoc /\ m.it[c[w].old].key = c[w].key
  BY <1>1, <1>2 DEF Fits
<1> QED BY <1>2, <1>3 DEF MayTake

\* A free chunk is taken for a new value.
LEMMA TakeNew ==
  ASSUME IInv, NEW w \in Workers, Allocating(w), FreeChunks # {},
         NEW i, i = (CHOOSE x \in FreeChunks : TRUE), NEW v \in Val, NEW e \in Int,
         NEW ext, ext = Plus(Plus(Base(w), c[w].it), c[w].old),
         NEW s, s = NewItem(m, i, c[w].key, v, c[w].cas, e)
  PROVE  /\ i \in Items /\ i \notin m.assoc /\ s.assoc = m.assoc
         /\ s.it[i].key = c[w].key /\ s.it[i].val = v
         /\ Stepped(m, s, Plus(ext, i), MayTake(w), i, NULL)
         /\ \A u \in Workers : c[u].it # i /\ c[u].old # i
<1>1. State(w)
  BY OwnState
<1>2. /\ m \in Memory /\ ext \in [Items -> Nat] /\ Life(m, ext) /\ c[w] \in Command /\ menu \in Menus
  <2>1. /\ m \in Memory /\ Base(w) \in [Items -> Nat] /\ Life(m, ext) /\ c[w] \in Command /\ menu \in Menus
    BY <1>1 DEF State
  <2>2. c[w].it \in Items \cup {NULL} /\ c[w].old \in Items \cup {NULL}
    BY <2>1 DEF Command
  <2>3. Plus(Base(w), c[w].it) \in [Items -> Nat]
    BY <2>1, <2>2, PlusType
  <2> QED BY <2>1, <2>2, <2>3, PlusType
<1>3. c[w].key \in Keys /\ c[w].cas \in Nat
  BY <1>1, <1>2 DEF State, Fits, Allocating, Command
<1>4. i \in FreeChunks
  OBVIOUS
<1>5. i \in Items /\ Has(m, i, "SLABBED")
  BY <1>2, <1>4, MemCacheAssumption DEF FreeChunks
<1>6. /\ s \in Memory /\ Life(s, Plus(ext, i)) /\ ext[i] = 0
      /\ i \notin m.assoc /\ s.assoc = m.assoc /\ s.bump = m.bump
      /\ s.it[i].key = c[w].key /\ Evolves(m, s, MayTake(w), i, NULL)
  <2> DEFINE k == c[w].key
             cas == c[w].cas
             K == MayTake(w)
  <2>1. k \in Keys /\ cas \in Nat /\ s = NewItem(m, i, k, v, cas, e)
    BY <1>3
  <2> HIDE DEF k, cas, K
  <2>2. /\ s \in Memory /\ Life(s, Plus(ext, i)) /\ ext[i] = 0
        /\ i \notin m.assoc /\ s.assoc = m.assoc /\ s.bump = m.bump
        /\ s.it[i].key = k /\ Evolves(m, s, K, i, NULL)
    BY <2>1, <1>2, <1>5, NewLife
  <2> QED BY <2>2 DEF k, K
<1>7. \A u \in Workers : c[u].it # i /\ c[u].old # i
  BY <1>5, <1>6, HeldByNone
<1>8. s.it[i].val = v
  BY <1>2, <1>5 DEF NewItem, FreeItem, Memory
<1> QED BY <1>5, <1>6, <1>7, <1>8 DEF Stepped

\* An allocation for a new value: its data is read into the item.
LEMMA AllocNewSteps ==
  ASSUME IInv, NEW w \in Workers, AllocTake(w), c[w].pc = "alloc"
  PROVE  Steps(w)
<1> DEFINE i == CHOOSE x \in FreeChunks : TRUE
           comm == BinaryComm(c[w].comm, c[w].cas)
           s == NewItem(m, i, c[w].key, c[w].val, c[w].cas, c[w].exptime)
           y == [c[w] EXCEPT !.pc = "nread", !.it = i, !.comm = comm]
           ext == Plus(Plus(Base(w), c[w].it), c[w].old)
<1>1. State(w) /\ Allocating(w) /\ FreeChunks # {}
  BY OwnState DEF AllocTake
<1>2. c[w] \in Command /\ Fits(c[w], w, m, ilock)
  BY <1>1 DEF State
<1>3. c[w].it = NULL /\ c[w].old = NULL /\ c[w].key \in Keys /\ c[w].comm \notin GetComms
  BY <1>2 DEF Fits
<1>4. c[w].val \in Val /\ c[w].exptime \in Int
  BY <1>2 DEF Command
<1>5. /\ m' = s /\ c' = With(c, w, y) /\ ans' = ans /\ ilock' = ilock /\ cmds' = cmds
      /\ now' = now /\ menu' = menu
  BY DEF AllocTake, Quiet, With
<1>6. comm \in Comms \cup {NULL} /\ comm \notin GetComms
  <2>1. comm = c[w].comm \/ comm = "CAS"
    BY DEF BinaryComm
  <2> QED BY <2>1, <1>2, <1>3 DEF Command, Comms, GetComms, StorageComms
<1> HIDE DEF comm, i
<1>7. i = CHOOSE x \in FreeChunks : TRUE
  BY DEF i
<1>8. /\ i \in Items /\ i \notin m.assoc /\ s.assoc = m.assoc /\ s.it[i].key = c[w].key
      /\ Stepped(m, s, Plus(ext, i), MayTake(w), i, NULL)
      /\ \A u \in Workers : c[u].it # i /\ c[u].old # i
  <2> HIDE DEF s, ext
  <2>1. s = NewItem(m, i, c[w].key, c[w].val, c[w].cas, c[w].exptime) /\ ext = Plus(Plus(Base(w), c[w].it), c[w].old)
    BY DEF s, ext
  <2> QED BY <1>1, <1>4, <1>7, <2>1, TakeNew
<1>9. i # NULL
  BY <1>8, MemCacheAssumption
<1>10. /\ y \in Command /\ y.pc = "nread" /\ y.it = i /\ y.old = NULL /\ y.key = c[w].key /\ y.comm = comm
  BY <1>2, <1>3, <1>6, <1>8 DEF Command, Pcs
<1> HIDE DEF s, y
<1>11. Moved(w, s, y, i, NULL)
  <2>1. Plus(ext, i) = Plus(Plus(Base(w), y.it), y.old)
    BY <1>3, <1>10 DEF Plus
  <2> QED BY <1>1, <1>8, <2>1, SteppedMoved
<1>12. Owned(w, y, i)
  BY <1>8, <1>9, <1>10 DEF Owned
<1>13. Fits(y, w, s, ilock)
  BY <1>3, <1>6, <1>8, <1>9, <1>10 DEF Fits
<1>14. Step(w, y, i, NULL)
  BY <1>1, <1>5, <1>10, <1>11, <1>12, <1>13 DEF Step, State
<1> QED BY <1>14 DEF Steps

\* An allocation for an append or a prepend: the old item is copied and replaced.
LEMMA AllocCopySteps ==
  ASSUME IInv, NEW w \in Workers, AllocTake(w), c[w].pc = "copy"
  PROVE  Steps(w)
<1> DEFINE i == CHOOSE x \in FreeChunks : TRUE
           old == c[w].old
           k == c[w].key
           v == Copied(c[w].comm, m.it[old].val, c[w].val)
           e == m.it[old].exptime
           s == NewItem(m, i, k, v, c[w].cas, e)
           t == Supersede(s, old, i)
           y == [c[w] EXCEPT !.pc = "drop", !.old = NULL]
           d == Plus(Base(w), c[w].it)
           ext == Plus(d, old)
           K == MayTake(w)
<1>1. State(w) /\ Allocating(w) /\ FreeChunks # {}
  BY OwnState DEF AllocTake
<1>2. /\ c[w] \in Command /\ Fits(c[w], w, m, ilock) /\ m \in Memory /\ now \in Nat
      /\ Base(w) \in [Items -> Nat]
  BY <1>1 DEF State
<1>3. c[w].it # NULL /\ old # NULL /\ c[w].comm \notin GetComms
  BY <1>2 DEF Fits
<1>4. c[w].it \in Items /\ m.it[c[w].it].key = k
  BY <1>2, <1>3 DEF Fits, Command
<1>5. old \in Items /\ old \in m.assoc /\ m.it[old].key = k /\ k \in Keys /\ ilock[k] = w /\ k \in K
  BY <1>1, <1>3, OldKey
<1>6. v \in Val /\ e \in Int
  <2>1. m.it[old] \in Item
    BY <1>2, <1>5 DEF Memory
  <2>2. m.it[old].val \in Seq(Nat) /\ c[w].val \in Seq(Nat) /\ e \in Int
    BY <2>1, <1>2 DEF Item, Command, Val
  <2>3. m.it[old].val \o c[w].val \in Seq(Nat) /\ c[w].val \o m.it[old].val \in Seq(Nat)
    BY <2>2, ConcatProperties
  <2> QED BY <2>2, <2>3 DEF Copied, Val
<1>7. /\ m' = t /\ c' = With(c, w, y) /\ DOMAIN ans' = DOMAIN ans /\ ilock' = [ilock EXCEPT ![k] = NULL]
      /\ cmds' = cmds /\ now' = now /\ menu' = menu
  BY DEF AllocTake, Quiet, With
<1>8. /\ y \in Command /\ y.pc = "drop" /\ y.it = c[w].it /\ y.old = NULL /\ y.key = k /\ y.comm = c[w].comm
  BY <1>2 DEF Command, Pcs
<1> HIDE DEF i, v, e, y
<1>9. i = CHOOSE x \in FreeChunks : TRUE
  BY DEF i
<1>10. /\ i \in Items /\ i \notin m.assoc /\ s.assoc = m.assoc /\ s.it[i].key = k
       /\ Stepped(m, s, Plus(ext, i), K, i, NULL)
       /\ \A u \in Workers : c[u].it # i /\ c[u].old # i
  <2> HIDE DEF s, ext
  <2>1. s = NewItem(m, i, c[w].key, v, c[w].cas, e) /\ ext = Plus(Plus(Base(w), c[w].it), c[w].old)
    BY DEF s, ext
  <2> QED BY <1>1, <1>6, <1>9, <2>1, TakeNew
<1> HIDE DEF s, k, old, K
<1>11. d \in [Items -> Nat] /\ i # NULL
  BY <1>2, <1>4, <1>10, PlusType, MemCacheAssumption
<1> HIDE DEF d
<1>12. Stepped(s, t, d, K, i, NULL)
  <2>1. s \in Memory /\ Life(s, Plus(Plus(d, old), i))
    BY <1>10 DEF Stepped
  <2>2. s.it[old].key = k
    <3>1. Evolves(m, s, K, i, NULL) /\ old # i
      BY <1>5, <1>10 DEF Stepped
    <3> QED BY <1>5, <3>1 DEF Evolves
  <2>3. old \in s.assoc /\ s.it[i].key = s.it[old].key /\ s.it[old].key \in K
    BY <1>5, <1>10, <2>2
  <2> QED BY <1>2, <1>10, <1>11, <2>1, <2>3, SupersedeLife
<1> HIDE DEF t, ext
<1>13. Stepped(m, t, d, K, i, NULL)
  BY <1>2, <1>10, <1>12, ThenNew
<1>14. Moved(w, t, y, i, NULL)
  <2>1. d = Plus(Plus(Base(w), y.it), y.old)
    BY <1>8 DEF Plus, d
  <2> QED BY <1>1, <1>13, <2>1, SteppedMoved DEF K
<1>15. Owned(w, y, i)
  BY <1>8, <1>10 DEF Owned
<1>16. Fits(y, w, t, ilock')
  <2>1. t.it[c[w].it].key = k
    <3>1. Evolves(m, t, K, i, NULL) /\ c[w].it # i
      BY <1>10, <1>13 DEF Stepped
    <3> QED BY <1>4, <3>1 DEF Evolves
  <2> QED BY <1>3, <1>5, <1>8, <2>1 DEF Fits
<1>17. /\ DOMAIN ilock' = Keys
       /\ \A x \in Keys : x \notin MayTake(w) => ilock'[x] = ilock[x]
  BY <1>1, <1>5, <1>7, LockLeft
<1>18. Step(w, y, i, NULL)
  BY <1>1, <1>7, <1>8, <1>14, <1>15, <1>16, <1>17 DEF Step, State
<1> QED BY <1>18 DEF Steps

\* An allocation for incr and decr: the old item is replaced.
LEMMA AllocDeltaSteps ==
  ASSUME IInv, NEW w \in Workers, AllocTake(w), c[w].pc = "delta"
  PROVE  Steps(w)
<1> DEFINE i == CHOOSE x \in FreeChunks : TRUE
           old == c[w].old
           k == c[w].key
           s == NewItem(m, i, k, c[w].val, c[w].cas, c[w].exptime)
           t == SupersedeDelta(s, old, i)
           d == Base(w)
           ext == Plus(Plus(d, c[w].it), old)
           K == MayTake(w)
<1>1. State(w) /\ Allocating(w) /\ FreeChunks # {}
  BY OwnState DEF AllocTake
<1>2. /\ c[w] \in Command /\ Fits(c[w], w, m, ilock) /\ m \in Memory /\ now \in Nat
      /\ d \in [Items -> Nat]
  BY <1>1 DEF State
<1>3. c[w].it = NULL /\ old # NULL
  BY <1>2 DEF Fits
<1>5. old \in Items /\ old \in m.assoc /\ m.it[old].key = k /\ k \in Keys /\ ilock[k] = w /\ k \in K
  BY <1>1, <1>3, OldKey
<1>6. c[w].val \in Val /\ c[w].exptime \in Int
  BY <1>2 DEF Command
<1>7. /\ m' = t /\ c' = With(c, w, Idle) /\ DOMAIN ans' = DOMAIN ans /\ ilock' = [ilock EXCEPT ![k] = NULL]
      /\ cmds' = cmds /\ now' = now /\ menu' = menu
  BY DEF AllocTake, Quiet, With
<1>8. /\ Idle \in Command /\ Fits(Idle, w, m', ilock') /\ Idle.it = NULL /\ Idle.old = NULL
      /\ Idle.pc = "idle"
  BY IdleFits DEF Idle
<1> HIDE DEF i
<1>9. i = CHOOSE x \in FreeChunks : TRUE
  BY DEF i
<1>10. /\ i \in Items /\ i \notin m.assoc /\ s.assoc = m.assoc /\ s.it[i].key = k /\ s.it[i].val = c[w].val
       /\ Stepped(m, s, Plus(ext, i), K, i, NULL)
       /\ \A u \in Workers : c[u].it # i /\ c[u].old # i
  <2> HIDE DEF s, ext
  <2>1. /\ s = NewItem(m, i, c[w].key, c[w].val, c[w].cas, c[w].exptime)
        /\ ext = Plus(Plus(Base(w), c[w].it), c[w].old)
    BY DEF s, ext
  <2> QED BY <1>1, <1>6, <1>9, <2>1, TakeNew
<1> HIDE DEF s, k, old, K
<1>11. i # NULL /\ ext = Plus(d, old)
  BY <1>3, <1>10, MemCacheAssumption DEF Plus
<1> HIDE DEF d, ext
<1>12. /\ Stepped(s, t, d, K, i, old)
       /\ i \in t.assoc /\ t.it[old].cas = t.it[i].cas /\ t.it[i].val = s.it[i].val
  <2>1. s \in Memory /\ Life(s, Plus(Plus(d, old), i))
    BY <1>10, <1>11 DEF Stepped
  <2>2. s.it[old].key = k
    <3>1. Evolves(m, s, K, i, NULL) /\ old # i
      BY <1>5, <1>10 DEF Stepped
    <3> QED BY <1>5, <3>1 DEF Evolves
  <2>3. old \in s.assoc /\ s.it[i].key = s.it[old].key /\ s.it[old].key \in K
    BY <1>5, <1>10, <2>2
  <2> QED BY <1>2, <1>10, <2>1, <2>3, SupersedeDeltaLife
<1> HIDE DEF t
<1>13. Stepped(m, t, d, K, i, old)
  BY <1>2, <1>10, <1>12, ThenNew
<1>14. Moved(w, t, Idle, i, old)
  <2>1. d = Plus(Plus(Base(w), Idle.it), Idle.old)
    BY <1>8 DEF Plus, d
  <2> QED BY <1>1, <1>13, <2>1, SteppedMoved DEF K
<1>15. Owned(w, Idle, i)
  BY <1>8, <1>10 DEF Owned
<1>17. /\ DOMAIN ilock' = Keys
       /\ \A x \in Keys : x \notin MayTake(w) => ilock'[x] = ilock[x]
  BY <1>1, <1>5, <1>7, LockLeft
<1>18. Step(w, Idle, i, old)
  BY <1>1, <1>7, <1>8, <1>14, <1>15, <1>17 DEF Step, State
<1>19. Replaces(w, i, old)
  BY <1>7, <1>10, <1>12 DEF Replaces, old
<1> QED BY <1>18, <1>19 DEF Steps

\* A free chunk is taken, for whatever it is.
LEMMA AllocTakeSteps ==
  ASSUME IInv, NEW w \in Workers, AllocTake(w)
  PROVE  Steps(w)
<1>1. c[w].pc \in {"alloc", "copy", "delta"}
  BY DEF AllocTake, Allocating
<1> QED BY <1>1, AllocNewSteps, AllocCopySteps, AllocDeltaSteps

\* A step that takes out only some keys takes out only others, too.
LEMMA EvolvesWiden ==
  ASSUME NEW s, NEW t, NEW K, NEW L, K \subseteq L, NEW n, NEW o, Evolves(s, t, K, n, o)
  PROVE  Evolves(s, t, L, n, o)
BY DEF Evolves

\* Two walks over queues, one after the other, or one only.
LEMMA PullTwice ==
  ASSUME NEW ext \in [Items -> Nat], m \in Memory, Life(m, ext), NEW over \in BOOLEAN, NEW busy,
         now \in Nat, NEW r, r = lru_pull_tail(m, "COLD", LRU_PULL_EVICT, over, Locked \cup busy)
  PROVE  /\ Stepped(m, r.s, ext, Unlocked, NULL, NULL)
         /\ Stepped(m, lru_pull_tail(r.s, "HOT", LRU_PULL_ONLY, over, Locked \cup busy).s, ext,
                    Unlocked, NULL, NULL)
<1> DEFINE L == Locked \cup busy
           u == lru_pull_tail(r.s, "HOT", LRU_PULL_ONLY, over, L).s
           a == "COLD"
           b == "HOT"
<1>1. \A k \in Keys : k \notin L => k \in Unlocked
  BY DEF Locked, Unlocked, Free
<1> HIDE DEF L
<1>2. LRU_PULL_EVICT \in BOOLEAN /\ LRU_PULL_ONLY \in BOOLEAN /\ a \in LRUs /\ b \in LRUs
  BY DEF LRU_PULL_EVICT, LRU_PULL_ONLY, LRUs
<1> HIDE DEF a, b
<1>3. Stepped(m, lru_pull_tail(m, a, LRU_PULL_EVICT, over, L).s, ext, Unlocked, NULL, NULL)
  BY <1>1, <1>2, PullStep
<1>4. Stepped(m, r.s, ext, Unlocked, NULL, NULL)
  BY <1>3 DEF L, a
<1>5. r.s \in Memory /\ Life(r.s, ext)
  BY <1>4 DEF Stepped
<1> DEFINE t == r.s
<1> HIDE DEF t
<1>6. Stepped(t, lru_pull_tail(t, b, LRU_PULL_ONLY, over, L).s, ext, Unlocked, NULL, NULL)
  <2>1. t \in Memory /\ Life(t, ext)
    BY <1>5 DEF t
  <2> QED BY <1>1, <1>2, <2>1, PullStep
<1>7. Stepped(t, u, ext, Unlocked, NULL, NULL)
  BY <1>6 DEF t, b
<1> HIDE DEF u
<1>8. NULL \notin m.assoc
  BY MemCacheAssumption DEF Memory
<1>9. Stepped(m, u, ext, Unlocked, NULL, NULL)
  BY <1>4, <1>7, <1>8, ThenStepped DEF t
<1> QED BY <1>4, <1>9 DEF u, L

\* A worker that finds no free chunk walks the queues.
LEMMA AllocPullStep ==
  ASSUME IInv, NEW w \in Workers, NEW busy, NEW over \in BOOLEAN, AllocPull(w, busy, over)
  PROVE  \E y : Step(w, y, NULL, NULL)
<1> DEFINE r == lru_pull_tail(m, "COLD", LRU_PULL_EVICT, over, Locked \cup busy)
           u == lru_pull_tail(r.s, "HOT", LRU_PULL_ONLY, over, Locked \cup busy).s
           y == [c[w] EXCEPT !.tries = c[w].tries + 1]
           ext == Plus(Plus(Base(w), c[w].it), c[w].old)
<1>1. State(w)
  BY OwnState
<1>2. /\ c[w] \in Command /\ Fits(c[w], w, m, ilock) /\ m \in Memory /\ now \in Nat
      /\ Base(w) \in [Items -> Nat] /\ Life(m, ext)
  BY <1>1 DEF State
<1>3. ext \in [Items -> Nat] /\ c[w].tries \in Nat
  <2>1. c[w].it \in Items \cup {NULL} /\ c[w].old \in Items \cup {NULL} /\ c[w].tries \in Nat
    BY <1>2 DEF Command
  <2>2. Plus(Base(w), c[w].it) \in [Items -> Nat]
    BY <1>2, <2>1, PlusType
  <2> QED BY <2>1, <2>2, PlusType
<1>4. c[w].it = c[w].it /\ Stepped(m, r.s, ext, Unlocked, NULL, NULL)
  <2> HIDE DEF ext, r
  <2>1. r = lru_pull_tail(m, "COLD", LRU_PULL_EVICT, over, Locked \cup busy)
    BY DEF r
  <2>2. Life(m, ext)
    BY <1>2 DEF ext
  <2> QED BY <1>2, <1>3, <2>1, <2>2, PullTwice
<1>5. Stepped(m, u, ext, Unlocked, NULL, NULL)
  <2> HIDE DEF ext, r
  <2>1. r = lru_pull_tail(m, "COLD", LRU_PULL_EVICT, over, Locked \cup busy)
    BY DEF r
  <2>2. Life(m, ext)
    BY <1>2 DEF ext
  <2> QED BY <1>2, <1>3, <2>1, <2>2, PullTwice
<1>6. /\ m' = IF r.n > 0 THEN r.s ELSE u
      /\ c' = With(c, w, y) /\ ilock' = ilock /\ ans' = ans /\ cmds' = cmds /\ now' = now /\ menu' = menu
  BY DEF AllocPull, Quiet, With
<1>7. /\ y \in Command /\ y.pc = c[w].pc /\ y.it = c[w].it /\ y.old = c[w].old /\ y.key = c[w].key
      /\ y.comm = c[w].comm /\ y.val = c[w].val
  <2>1. c[w].tries + 1 \in Nat
    BY <1>3
  <2> QED BY <2>1, <1>2 DEF Command
<1>8. c[w].pc \in {"alloc", "copy", "delta"}
  BY DEF AllocPull, Allocating
<1> HIDE DEF r, u, y
<1>9. Stepped(m, m', ext, Unlocked, NULL, NULL)
  BY <1>4, <1>5, <1>6, Zenon
<1>10. Stepped(m, m', ext, MayTake(w), NULL, NULL)
  <2>1. Unlocked \subseteq MayTake(w)
    BY DEF Unlocked, MayTake
  <2> QED BY <1>9, <2>1, EvolvesWiden DEF Stepped
<1>11. Moved(w, m', y, NULL, NULL)
  <2>1. ext = Plus(Plus(Base(w), y.it), y.old)
    BY <1>7
  <2> QED BY <1>1, <1>10, <2>1, SteppedMoved
<1>12. Owned(w, y, NULL)
  BY <1>7, <1>8 DEF Owned
<1>13. Fits(y, w, m', ilock')
  <2>1. w # NULL
    BY MemCacheAssumption
  <2>2. \A k \in Unlocked : ilock[k] # w
    BY <2>1 DEF Unlocked
  <2>3. Evolves(m, m', Unlocked, NULL, NULL) /\ ilock' = ilock
    BY <1>6, <1>9 DEF Stepped
  <2>4. Fits(c[w], w, m', ilock)
    BY <1>2, <2>2, <2>3, FitsKept
  <2> QED BY <1>7, <2>3, <2>4 DEF Fits
<1>14. Step(w, y, NULL, NULL)
  BY <1>1, <1>6, <1>7, <1>11, <1>12, <1>13 DEF Step, State
<1> QED BY <1>14

LEMMA AllocPullSteps ==
  ASSUME IInv, NEW w \in Workers, NEW busy, NEW over \in BOOLEAN, AllocPull(w, busy, over)
  PROVE  Steps(w)
BY AllocPullStep DEF Steps

\* A worker gives up: the old item is dropped, and its key unlocked.
LEMMA AllocFailSteps ==
  ASSUME IInv, NEW w \in Workers, AllocFail(w)
  PROVE  Steps(w)
<1> DEFINE k == c[w].key
           old == c[w].old
           z == [c[w] EXCEPT !.pc = "drop", !.old = NULL]
           x == [c[w] EXCEPT !.pc = "oom"]
           y == IF c[w].pc = "copy" THEN z ELSE IF c[w].comm = "SET" THEN x ELSE Idle
           d == Plus(Base(w), c[w].it)
           K == MayTake(w)
<1>1. State(w) /\ c[w].pc \in {"alloc", "copy", "delta"}
  BY OwnState DEF AllocFail, Allocating
<1>2. /\ c[w] \in Command /\ Fits(c[w], w, m, ilock) /\ m \in Memory /\ now \in Nat
      /\ Base(w) \in [Items -> Nat] /\ Life(m, Plus(d, old)) /\ DOMAIN ilock = Keys
  BY <1>1 DEF State
<1>3. c[w].it \in Items \cup {NULL} /\ old \in Items \cup {NULL} /\ k \in Keys
  BY <1>1, <1>2 DEF Command, Fits
<1>4. d \in [Items -> Nat]
  BY <1>2, <1>3, PlusType
<1>5. /\ m' = Unref(m, old) /\ c' = With(c, w, y) /\ DOMAIN ans' = DOMAIN ans /\ cmds' = cmds
      /\ now' = now /\ menu' = menu
      /\ ilock' = [ilock EXCEPT ![k] = IF c[w].pc = "alloc" THEN ilock[k] ELSE NULL]
  BY DEF AllocFail, Quiet, With
<1>6. /\ y \in Command /\ y.it = c[w].it /\ y.old = NULL /\ y.pc \in {"drop", "oom", "idle"}
      /\ y.pc = "drop" => y.key = k /\ y.comm = c[w].comm /\ c[w].pc = "copy"
      /\ y.pc = "oom" => y.key = k /\ y.comm = c[w].comm /\ c[w].it = NULL
      /\ y.pc = "idle" => y = Idle
  <2>1. CASE c[w].pc = "copy"
    <3>1. /\ z \in Command /\ z.it = c[w].it /\ z.old = NULL /\ z.pc = "drop" /\ z.key = k
          /\ z.comm = c[w].comm
      BY <1>2 DEF Command, Pcs
    <3>2. y = z
      BY <2>1
    <3> HIDE DEF y, z
    <3> QED BY <2>1, <3>1, <3>2
  <2>2. CASE c[w].pc # "copy" /\ c[w].comm = "SET"
    <3>1. c[w].pc = "alloc" /\ c[w].it = NULL /\ old = NULL
      BY <1>1, <1>2, <2>2 DEF Fits
    <3>2. /\ x \in Command /\ x.it = c[w].it /\ x.old = old /\ x.pc = "oom" /\ x.key = k
          /\ x.comm = c[w].comm
      BY <1>2 DEF Command, Pcs
    <3>3. y = x
      BY <2>2
    <3> HIDE DEF y, x
    <3> QED BY <3>1, <3>2, <3>3
  <2>3. CASE c[w].pc # "copy" /\ c[w].comm # "SET"
    <3>1. c[w].it = NULL
      BY <1>1, <1>2, <2>3 DEF Fits
    <3>2. y = Idle
      BY <2>3
    <3> HIDE DEF y
    <3> QED BY <3>1, <3>2, IdleFits DEF Idle
  <2> QED BY <2>1, <2>2, <2>3
<1> HIDE DEF y, d, K, old, k
<1>7. Stepped(m, m', d, K, NULL, NULL)
  <2>1. Stepped(m, m, Plus(d, old), K, NULL, NULL)
    <3>1. Same(m, m)
      BY DEF Same
    <3>2. Evolves(m, m, K, NULL, NULL)
      BY <1>2, <3>1, SameEvolves
    <3> QED BY <3>2, <1>2 DEF Stepped
  <2> QED BY <1>2, <1>3, <1>4, <1>5, <2>1, ThenUnref
<1>8. Moved(w, m', y, NULL, NULL)
  <2>1. d = Plus(Plus(Base(w), y.it), y.old)
    BY <1>6 DEF Plus, d
  <2> QED BY <1>1, <1>7, <2>1, SteppedMoved DEF K
<1>9. Owned(w, y, NULL)
  BY <1>6 DEF Owned
<1>10. Fits(y, w, m', ilock')
  <2>1. c[w].comm \notin GetComms
    BY <1>1, <1>2 DEF Fits
  <2>2. CASE y.pc = "idle"
    BY <2>2, <1>6, IdleFits
  <2>3. CASE y.pc = "oom"
    BY <2>1, <2>3, <1>3, <1>6 DEF Fits
  <2>4. CASE y.pc = "drop"
    <3>1. c[w].it # NULL /\ c[w].it \in Items /\ m.it[c[w].it].key = k
      BY <2>4, <1>2, <1>3, <1>6 DEF Fits, k
    <3>2. m'.it[c[w].it].key = k
      <4>1. Evolves(m, m', K, NULL, NULL)
        BY <1>7 DEF Stepped
      <4> QED BY <3>1, <4>1 DEF Evolves
    <3> QED BY <2>1, <2>4, <3>1, <3>2, <1>3, <1>6 DEF Fits
  <2> QED BY <2>2, <2>3, <2>4, <1>6
<1>11. /\ DOMAIN ilock' = Keys
       /\ \A a \in Keys : a \notin MayTake(w) => ilock'[a] = ilock[a]
  <2>1. c[w].pc # "alloc" => ilock[k] = w
    <3>1. c[w].pc # "alloc" => c[w].old # NULL
      BY <1>1, <1>2 DEF Fits
    <3> QED BY <1>1, <3>1, OldKey DEF k
  <2>2. CASE c[w].pc = "alloc"
    <3>1. ilock' = [ilock EXCEPT ![k] = ilock[k]]
      BY <2>2, <1>5
    <3> QED BY <3>1, <1>2, <1>3
  <2>3. CASE c[w].pc # "alloc"
    <3>1. ilock' = [ilock EXCEPT ![k] = NULL] /\ ilock[k] = w
      BY <2>1, <2>3, <1>5
    <3> QED BY <1>1, <1>3, <3>1, LockLeft
  <2> QED BY <2>2, <2>3
<1>12. Step(w, y, NULL, NULL)
  BY <1>1, <1>5, <1>6, <1>8, <1>9, <1>10, <1>11 DEF Step, State
<1> QED BY <1>12 DEF Steps

-----------------------------------------------------------------------------
(* The steps of the background *)

\* What the invariant says to the background.
LEMMA RefsState ==
  ASSUME IInv
  PROVE  /\ m \in Memory /\ Refs \in [Items -> Nat] /\ Life(m, Refs) /\ now \in Nat
         /\ \A v \in Workers : Len(m.bump[v]) <= BumpMax
BY RefsType DEF IInv, TypeInv, Refs

\* The background leaves the bump buffers alone.
LEMMA SteppedAround ==
  ASSUME IInv, Stepped(m, m', Refs, Unlocked, NULL, NULL), Background, now' \in Nat
  PROVE  Around
<1>1. m' \in Memory /\ Life(m', Refs) /\ m'.bump = m.bump /\ Evolves(m, m', Unlocked, NULL, NULL)
  BY DEF Stepped
<1>2. Life(m', RefsOf(c, m'.bump)) /\ \A v \in Workers : Len(m'.bump[v]) <= BumpMax
  BY <1>1, RefsState DEF Refs
<1> QED BY <1>1, <1>2 DEF Around, Background

\* The clock ticks.
LEMMA TickAround ==
  ASSUME IInv, Tick
  PROVE  Around
<1>1. m \in Memory /\ Life(m, Refs) /\ now \in Nat
  BY RefsState
<1>2. Same(m, m)
  BY DEF Same
<1>3. Evolves(m, m, Unlocked, NULL, NULL)
  BY <1>1, <1>2, SameEvolves
<1>4. m' = m /\ now' = now + 1 /\ Background
  BY DEF Tick
<1> QED BY <1>1, <1>3, <1>4, SteppedAround DEF Stepped

\* The maintainer walks up a queue.
LEMMA JuggleAround ==
  ASSUME IInv, NEW l \in LRUs, NEW over \in BOOLEAN, NEW busy, Juggle(l, over, busy)
  PROVE  Around
<1> DEFINE L == Locked \cup busy
<1>1. m \in Memory /\ Refs \in [Items -> Nat] /\ Life(m, Refs) /\ now \in Nat
  BY RefsState
<1>2. m' = lru_pull_tail(m, l, LRU_PULL_ONLY, over, L).s /\ Background /\ now' = now
  BY DEF Juggle
<1>3. LRU_PULL_ONLY \in BOOLEAN /\ \A k \in Keys : k \notin L => k \in Unlocked
  BY DEF LRU_PULL_ONLY, Locked, Unlocked, Free
<1> HIDE DEF L
<1>4. Stepped(m, m', Refs, Unlocked, NULL, NULL)
  BY <1>1, <1>2, <1>3, PullStep
<1> QED BY <1>1, <1>2, <1>4, SteppedAround

\* The crawler takes out an item that is dead.
LEMMA CrawlAround ==
  ASSUME IInv, NEW i \in Items, Crawl(i)
  PROVE  Around
<1> DEFINE a == refcount_incr(m, i)
           b == do_item_unlink(a, i)
           e == Plus(Refs, i)
<1>1. m \in Memory /\ Refs \in [Items -> Nat] /\ Life(m, Refs) /\ now \in Nat
  BY RefsState
<1>2. m' = do_item_remove(b, i) /\ Background /\ now' = now
  BY DEF Crawl
<1>3. i # NULL /\ i \in m.assoc /\ ilock[m.it[i].key] = NULL
  BY <1>1, MemCacheAssumption DEF Crawl, Free, Life, LifeOf
<1>4. ~Has(m, i, "SLABBED") /\ m.it[i].key \in Unlocked
  BY <1>1, <1>3, LinkedItem DEF Unlocked
<1>5. e \in [Items -> Nat]
  BY <1>1, PlusType
<1>6. Stepped(m, a, e, Unlocked, NULL, NULL) /\ a.it[i].key = m.it[i].key
  <2>1. /\ a \in Memory /\ Life(a, [Refs EXCEPT ![i] = Refs[i] + 1])
        /\ Same(m, a) /\ a.assoc = m.assoc /\ a.bump = m.bump
    BY <1>1, <1>4, IncrLife
  <2>2. e = [Refs EXCEPT ![i] = Refs[i] + 1]
    BY <1>3 DEF Plus
  <2> HIDE DEF a, e
  <2>3. Evolves(m, a, Unlocked, NULL, NULL)
    BY <1>1, <2>1, SameEvolves
  <2> QED BY <2>1, <2>2, <2>3 DEF Stepped, Same
<1> HIDE DEF a, e
<1>7. Stepped(a, b, e, Unlocked, NULL, NULL)
  <2>1. a \in Memory /\ Life(a, e) /\ a.it[i].key \in Unlocked
    BY <1>4, <1>6 DEF Stepped
  <2> QED BY <1>5, <2>1, UnlinkStep
<1> HIDE DEF b
<1>8. Stepped(m, b, e, Unlocked, NULL, NULL)
  <2>1. NULL \notin m.assoc
    BY <1>1, MemCacheAssumption DEF Memory
  <2> QED BY <2>1, <1>1, <1>6, <1>7, ThenStepped
<1>9. Stepped(m, m', Refs, Unlocked, NULL, NULL)
  BY <1>1, <1>2, <1>8, ThenRemove DEF e
<1> QED BY <1>1, <1>2, <1>9, SteppedAround

\* An entry of a bump buffer is dealt with, and its reference dropped.
LEMMA BumpAround ==
  ASSUME IInv, NEW w \in Workers, Bump(w)
  PROVE  Around
<1> DEFINE i == Head(m.bump[w])
           b == With(m.bump, w, Tail(m.bump[w]))
           e == RefsOf(c, b)
           u == do_item_update(m, i)
           t == do_item_remove(u, i)
<1>1. /\ m \in Memory /\ Refs \in [Items -> Nat] /\ Life(m, Refs) /\ now \in Nat
      /\ \A v \in Workers : Len(m.bump[v]) <= BumpMax
  BY RefsState
<1>2. m.bump \in [Workers -> Seq(Items)] /\ m.bump[w] # <<>> /\ m.bump[w] \in Seq(Items)
  BY <1>1 DEF Memory, Bump
<1>3. /\ i \in Items /\ Tail(m.bump[w]) \in Seq(Items) /\ Len(Tail(m.bump[w])) = Len(m.bump[w]) - 1
      /\ Len(m.bump[w]) \in Nat
  BY <1>2, HeadTailProperties
<1>4. b \in [Workers -> Seq(Items)] /\ \A v \in Workers : Len(b[v]) <= BumpMax
  <2>1. b = [m.bump EXCEPT ![w] = Tail(m.bump[w])] /\ BumpMax \in Nat
    BY MemCacheAssumption DEF With
  <2>2. Len(Tail(m.bump[w])) <= BumpMax
    BY <1>1, <1>3, <2>1
  <2> QED BY <1>1, <1>2, <1>3, <2>1, <2>2
<1>5. m' = [t EXCEPT !.bump = With(t.bump, w, Tail(t.bump[w]))] /\ Background /\ now' = now
  BY DEF Bump, With
<1>6. e \in [Items -> Nat] /\ i # NULL
  BY <1>3, RefsType, MemCacheAssumption
<1>7. Refs = Plus(e, i)
  <2>1. ASSUME NEW j \in Items PROVE Refs[j] = e[j] + (IF j = i THEN 1 ELSE 0)
    <3>1. HoldersOf(c, With(m.bump, w, Tail(m.bump[w])), j)
            = HoldersOf(c, m.bump, j) - (IF j = Head(m.bump[w]) THEN 1 ELSE 0)
      BY <1>1, <1>2, EntryTaken
    <3>2. e[j] = HoldersOf(c, b, j) /\ Refs[j] = HoldersOf(c, m.bump, j)
      BY DEF RefsOf, Refs
    <3>3. e[j] \in Nat /\ Refs[j] \in Nat
      BY <1>1, <1>6
    <3> HIDE DEF e
    <3> QED BY <3>1, <3>2, <3>3
  <2> HIDE DEF e
  <2>2. Plus(e, i) \in [Items -> Nat] /\ \A j \in Items : Plus(e, i)[j] = e[j] + (IF j = i THEN 1 ELSE 0)
    BY <1>3, <1>6, PlusType
  <2>3. \A j \in Items : Refs[j] = Plus(e, i)[j]
    BY <2>1, <2>2
  <2> QED BY <2>2, <2>3, <1>1
<1> HIDE DEF i, b, e
<1>8. u \in Memory /\ Life(u, Plus(e, i)) /\ Kept(m, u, i)
  BY <1>1, <1>3, <1>7, UpdateLife
<1>9. t = Unref(u, i)
  BY <1>6 DEF Unref
<1> HIDE DEF u, t
<1>10. t \in Memory /\ Life(t, e) /\ Same(u, t) /\ t.assoc = u.assoc /\ t.bump = u.bump
  BY <1>3, <1>6, <1>8, <1>9, UnrefLife
<1>11. Same(m, t) /\ t.assoc = m.assoc /\ t.bump = m.bump
  BY <1>8, <1>10 DEF Kept, Same
<1>12. m' = [t EXCEPT !.bump = b]
  BY <1>5, <1>11 DEF b
<1>13. m' \in Memory /\ Life(m', e)
  BY <1>4, <1>10, <1>12, BumpLife
<1>14. m'.it = t.it /\ m'.assoc = t.assoc /\ m'.cas_id = t.cas_id /\ m'.bump = b
  BY <1>10, <1>12 DEF Memory
<1>15. Evolves(m, m', Unlocked, NULL, NULL)
  <2>1. Same(m, m') /\ m'.assoc = m.assoc
    BY <1>11, <1>14 DEF Same
  <2> QED BY <1>1, <2>1, SameEvolves
<1> QED BY <1>1, <1>4, <1>5, <1>13, <1>14, <1>15 DEF Around, Background, e

-----------------------------------------------------------------------------
(* The invariant *)

\* At first every chunk is free, and nobody refers to any.
LEMMA InitInv ==
  ASSUME CacheInit
  PROVE  IInv
<1>1. /\ m.it = [i \in Items |-> FreeItem] /\ m.assoc = {} /\ m.q = [l \in LRUs |-> <<>>]
      /\ m.bump = [w \in Workers |-> <<>>] /\ m.cas_id = 0 /\ m.failed = "none" /\ m \in Memory
  <2>1. FreeItem \in Item
    BY DEF FreeItem, Item, Flags, Val
  <2> DEFINE it == [i \in Items |-> FreeItem]
             q == [l \in LRUs |-> <<>>]
             b == [w \in Workers |-> <<>>]
             none == {}
             zero == 0
             fine == "none"
  <2>2. /\ it \in [Items -> Item] /\ q \in [LRUs -> Seq(Items)] /\ b \in [Workers -> Seq(Items)]
        /\ none \in SUBSET Items /\ zero \in Nat /\ fine \in Faults
    <3>1. it \in [Items -> Item] /\ q \in [LRUs -> Seq(Items)] /\ b \in [Workers -> Seq(Items)]
      BY <2>1
    <3>2. none \in SUBSET Items /\ zero \in Nat
      OBVIOUS
    <3>3. fine \in Faults
      BY DEF Faults
    <3> QED BY <3>1, <3>2, <3>3
  <2>3. m = [it |-> it, assoc |-> none, q |-> q, bump |-> b, cas_id |-> zero, failed |-> fine]
    BY DEF CacheInit
  <2> HIDE DEF it, q, b, none, zero, fine
  <2>4. m.it = it /\ m.assoc = none /\ m.q = q /\ m.bump = b /\ m.cas_id = zero /\ m.failed = fine
    BY <2>3
  <2>5. m \in Memory
    BY <2>2, <2>3 DEF Memory
  <2> QED BY <2>4, <2>5 DEF it, q, b, none, zero, fine
<1>2. c = [w \in Workers |-> Idle] /\ Idle \in Command
  BY IdleFits DEF CacheInit
<1>3. TypeInv
  <2>1. now \in Nat /\ BumpMax \in Nat
    BY MemCacheAssumption DEF CacheInit
  <2>2. \A w \in Workers : Len(m.bump[w]) <= BumpMax
    BY <1>1, <2>1
  <2> QED BY <1>1, <1>2, <2>1, <2>2 DEF CacheInit, TypeInv
<1>4. \A i \in Items : Refs[i] = 0
  <2> SUFFICES ASSUME NEW i \in Items PROVE HoldersOf(c, m.bump, i) = 0
    BY DEF Refs, RefsOf
  <2>1. Idle.it = NULL /\ Idle.old = NULL /\ i # NULL
    BY MemCacheAssumption DEF Idle
  <2>2. ItHolders(c, i) = {} /\ OldHolders(c, i) = {}
    BY <1>2, <2>1 DEF ItHolders, OldHolders
  <2>3. Entries(m.bump, i) = {}
    <3>1. ASSUME NEW x \in Workers \X (1 .. BumpMax) PROVE ~(x[2] <= Len(m.bump[x[1]]))
      <4>1. x[1] \in Workers /\ x[2] \in 1 .. BumpMax
        OBVIOUS
      <4>2. Len(m.bump[x[1]]) = 0
        BY <1>1, <4>1
      <4> QED BY <4>1, <4>2
    <3> QED BY <3>1 DEF Entries
  <2> QED BY <2>2, <2>3, FS_EmptySet DEF HoldersOf
<1>5. Life(m, Refs)
  <2>1. \A i \in Items : LifeOf(m, Refs, i)
    BY <1>1, <1>4 DEF LifeOf, Linked, Has, FreeItem
  <2>2. Queues(m.q, m.assoc, QueueFor(m))
    <3>1. m.q \in [LRUs -> Seq(Items)]
      BY <1>1
    <3>2. ASSUME NEW l \in LRUs PROVE IsInjective(m.q[l]) /\ Range(m.q[l]) = {i \in m.assoc : QueueFor(m)[i] = l}
      <4>1. m.q[l] = <<>> /\ DOMAIN m.q[l] = {}
        BY <1>1
      <4> QED BY <1>1, <4>1 DEF IsInjective, Range
    <3> QED BY <3>1, <3>2 DEF Queues
  <2> QED BY <1>1, <2>1, <2>2 DEF Life
<1>6. AllFit
  BY <1>2, IdleFits DEF AllFit
<1>7. Alone(c)
  BY <1>2 DEF Alone, Idle
<1> QED BY <1>3, <1>5, <1>6, <1>7 DEF IInv

\* What each worker does, it does as said.
LEMMA CommandSteps ==
  ASSUME IInv, NEW w \in Workers, CacheCommand(w)
  PROVE  Steps(w)
<1>1. ASSUME NEW op \in {"get", "gets", "gat"}, NEW k \in Keys, NEW ttl \in Expiries, GetCmd(w, op, k, ttl)
      PROVE  Steps(w)
  BY <1>1, GetCmdSteps
<1>2. ASSUME NEW comm \in StorageComms, NEW k \in Keys, NEW ttl \in Expiries, NEW cas \in CasIds,
             UpdateCmd(w, comm, k, ttl, cas)
      PROVE  Steps(w)
  BY <1>2, UpdateCmdSteps
<1>3. ASSUME NEW op \in {"incr", "decr"}, NEW k \in Keys, NEW cas \in CasIds, NEW fits \in BOOLEAN,
             DeltaCmd(w, op, k, cas, fits)
      PROVE  Steps(w)
  BY <1>3, DeltaCmdSteps
<1>4. ASSUME NEW k \in Keys, NEW cas \in CasIds, DeleteCmd(w, k, cas)
      PROVE  Steps(w)
  BY <1>4, DeleteCmdSteps
<1>5. ASSUME NEW k \in Keys, NEW ttl \in Expiries, TouchCmd(w, k, ttl)
      PROVE  Steps(w)
  BY <1>5, TouchCmdSteps
<1>6. ASSUME NEW d \in FlushDelays, FlushLive(w, d)
      PROVE  Steps(w)
  BY <1>6, FlushLiveSteps
<1> QED BY <1>1, <1>2, <1>3, <1>4, <1>5, <1>6 DEF CacheCommand

\* What each worker goes on with, it does as said.
LEMMA StepSteps ==
  ASSUME IInv, NEW w \in Workers, CacheStep(w)
  PROVE  Steps(w)
<1>1. CASE Reply(w)
  BY <1>1, ReplySteps
<1>2. CASE Drop(w)
  BY <1>2, DropSteps
<1>3. CASE NreadDone(w)
  BY <1>3, NreadDoneSteps
<1>4. CASE NreadBad(w)
  BY <1>4, NreadBadSteps
<1>5. CASE CopyBegin(w)
  BY <1>5, CopyBeginSteps
<1>6. CASE AllocTake(w)
  BY <1>6, AllocTakeSteps
<1>7. CASE AllocFail(w)
  BY <1>7, AllocFailSteps
<1>8. CASE OomGet(w)
  BY <1>8, OomGetSteps
<1>9. CASE OomUnlink(w)
  BY <1>9, OomUnlinkSteps
<1>10. CASE FlushCas(w)
  BY <1>10, FlushCasSteps
<1>11. ASSUME NEW busy \in SUBSET Keys, NEW over \in BOOLEAN, AllocPull(w, busy, over)
       PROVE  Steps(w)
  BY <1>11, AllocPullSteps
<1> QED BY <1>1, <1>2, <1>3, <1>4, <1>5, <1>6, <1>7, <1>8, <1>9, <1>10, <1>11 DEF CacheStep

\* Every step keeps the invariant.
LEMMA NextInv ==
  ASSUME IInv, [CacheNext]_cacheVars
  PROVE  IInv'
<1>1. ASSUME NEW w \in Workers, CacheCommand(w) \/ CacheStep(w) PROVE IInv'
  <2>1. Steps(w)
    BY <1>1, CommandSteps, StepSteps
  <2>2. PICK y, n, o : Step(w, y, n, o)
    BY <2>1 DEF Steps
  <2> QED BY <2>2, WorkerStep
<1>2. ASSUME NEW w \in Workers, Bump(w) PROVE IInv'
  BY <1>2, BumpAround, BackgroundStep
<1>3. CASE Tick
  BY <1>3, TickAround, BackgroundStep
<1>4. ASSUME NEW l \in LRUs, NEW over \in BOOLEAN, NEW busy \in SUBSET Keys, Juggle(l, over, busy)
      PROVE  IInv'
  BY <1>4, JuggleAround, BackgroundStep
<1>5. ASSUME NEW i \in Items, Crawl(i) PROVE IInv'
  BY <1>5, CrawlAround, BackgroundStep
<1>6. CASE UNCHANGED cacheVars
  <2>1. m \in Memory /\ Life(m, Refs) /\ now \in Nat
    BY RefsState
  <2>2. Same(m, m)
    BY DEF Same
  <2>3. Evolves(m, m, Unlocked, NULL, NULL)
    BY <2>1, <2>2, SameEvolves
  <2>4. m' = m /\ now' = now /\ Background
    BY <1>6 DEF cacheVars, Background
  <2>5. Around
    BY <2>1, <2>3, <2>4, SteppedAround DEF Stepped
  <2> QED BY <2>5, BackgroundStep
<1>7. CASE CacheDone
  BY <1>6, <1>7 DEF CacheDone
<1> QED BY <1>1, <1>2, <1>3, <1>4, <1>5, <1>6, <1>7 DEF CacheNext

\* What an item is referred to, what is linked and what a command holds fit
\* together in every state.
THEOREM CacheInvariant == CacheSpec => []IInv
<1>1. CacheInit => IInv
  BY InitInv
<1>2. IInv /\ [CacheNext]_cacheVars => IInv'
  BY NextInv
<1> QED BY <1>1, <1>2, PTL DEF CacheSpec

-----------------------------------------------------------------------------
(* What follows from it *)

\* An item is in a queue as often as the invariant says.
LEMMA InQueue ==
  ASSUME NEW S, NEW q \in Seq(S), IsInjective(q), NEW i
  PROVE  Cardinality({n \in DOMAIN q : q[n] = i}) = IF i \in Range(q) THEN 1 ELSE 0
<1> DEFINE N == {n \in DOMAIN q : q[n] = i}
<1>1. CASE i \notin Range(q)
  <2>1. N = {}
    BY <1>1 DEF Range
  <2> QED BY <1>1, <2>1, FS_EmptySet
<1>2. CASE i \in Range(q)
  <2>1. PICK n \in DOMAIN q : q[n] = i
    BY <1>2 DEF Range
  <2>2. N = {n}
    BY <2>1 DEF IsInjective
  <2> QED BY <1>2, <2>2, FS_Singleton
<1> QED BY <1>1, <1>2

\* The invariant says how often every chunk is referred to and where it is.
LEMMA InvRefcountExact ==
  ASSUME IInv
  PROVE  RefcountExact
<1>1. m \in Memory /\ Life(m, Refs)
  BY RefsState
<1>2. ASSUME NEW i \in Items
      PROVE  /\ m.it[i].refcount = Holders(i) + (IF Has(m, i, "LINKED") THEN 1 ELSE 0)
             /\ Has(m, i, "SLABBED") <=> m.it[i].refcount = 0
             /\ Has(m, i, "LINKED") <=> i \in m.assoc
  <2>1. LifeOf(m, Refs, i)
    BY <1>1 DEF Life
  <2>2. Refs[i] = Holders(i)
    BY DEF Refs, RefsOf, HoldersOf, ItHolders, OldHolders, Entries, Holders
  <2> QED BY <2>1, <2>2 DEF LifeOf, Linked
<1>3. \A i \in m.assoc : \A j \in m.assoc : m.it[i].key = m.it[j].key => i = j
  BY <1>1 DEF Life
<1>4. ASSUME NEW i \in Items, NEW l \in LRUs
      PROVE  Cardinality({n \in DOMAIN m.q[l] : m.q[l][n] = i})
               = IF i \in m.assoc /\ m.it[i].lru = l THEN 1 ELSE 0
  <2>1. Queues(m.q, m.assoc, QueueFor(m))
    BY <1>1 DEF Life
  <2>2. m.q[l] \in Seq(Items) /\ IsInjective(m.q[l]) /\ Range(m.q[l]) = {j \in m.assoc : QueueFor(m)[j] = l}
    BY <2>1 DEF Queues
  <2>3. i \in Range(m.q[l]) <=> i \in m.assoc /\ m.it[i].lru = l
    BY <2>2 DEF QueueFor
  <2>4. Cardinality({n \in DOMAIN m.q[l] : m.q[l][n] = i}) = IF i \in Range(m.q[l]) THEN 1 ELSE 0
    BY <2>2, InQueue
  <2> QED BY <2>3, <2>4
<1>5. m.failed = "none"
  BY <1>1 DEF Life
<1> QED BY <1>2, <1>3, <1>4, <1>5 DEF RefcountExact

\* RefcountExact: a chunk's reference count is the number of references there
\* are to it, it is free when there are none, what is linked is in the hash
\* table once, with a key of its own, and in its queue, and no assertion fails.
THEOREM CacheRefcountExact == CacheSpec => []RefcountExact
<1>1. IInv => RefcountExact
  BY InvRefcountExact
<1> QED BY <1>1, CacheInvariant, PTL

\* ReaderStable: the value that a get sends from the item itself stays as it was
\* when the get found the item, whatever others do to the item meanwhile.
THEOREM CacheReaderStable == CacheSpec => []ReaderStable
<1>1. IInv => ReaderStable
  BY DEF IInv, AllFit, Fits, GetComms, ReaderStable
<1> QED BY <1>1, CacheInvariant, PTL

-----------------------------------------------------------------------------
(* What the answer of a gets is good for *)

Counters == {"incr", "decr"} \cap menu.ops

\* Value u is v, or what one of the operations M makes of it.
Near(M, v, u) == u = v \/ \E op \in M : u = <<Delta(op, v[1])>>

\* While memory s has an item of key k with this id, its value is v or near it.
Ident(s, M, k, id, v) ==
  /\ id \in Nat /\ id <= s.cas_id
  /\ \A i \in s.assoc : s.it[i].key = k /\ s.it[i].cas = id => Near(M, v, s.it[i].val)

\* What command x would answer, if it is a gets, and what answer a says, are so.
Tellable(x, a, s, M) ==
  /\ x.comm = "gets" => Ident(s, M, x.key, s.it[x.it].cas, s.it[x.it].val)
  /\ a.op = "gets" /\ a.res = "HIT" => Ident(s, M, a.key, a.cas, a.val)

\* No item has an id that is yet to be given.
Bounded(s) == \A i \in s.assoc : s.it[i].cas <= s.cas_id

\* A counter that waits for its new item has counted from the item it replaces.
Counted(x, s, M) == x.pc = "delta" => x.comm \in M /\ x.val = <<Delta(x.comm, s.it[x.old].val[1])>>

CasInv ==
  /\ Bounded(m)
  /\ \A w \in Workers : Counted(c[w], m, Counters) /\ Tellable(c[w], ans[w], m, Counters)

\* From s to t item n, counted from item o, replaces it and gives it its id.
Superseded(s, t, M, n, o) ==
  /\ n \in t.assoc /\ t.it[o].cas = t.it[n].cas
  /\ \E op \in M : t.it[n].val = <<Delta(op, s.it[o].val[1])>>

\* An id stays good for what it was.
LEMMA IdentKept ==
  ASSUME NEW s \in Memory, NEW t \in Memory, NEW K, NEW n, NEW o, Evolves(s, t, K, n, o),
         NEW M, NEW k, NEW id, NEW v, Ident(s, M, k, id, v)
  PROVE  Ident(t, M, k, id, v)
<1>1. s.cas_id \in Nat /\ t.cas_id \in Nat /\ s.cas_id <= t.cas_id
      /\ id \in Nat /\ id <= s.cas_id
  BY DEF Memory, Evolves, Ident
<1>2. ASSUME NEW i \in t.assoc, t.it[i].key = k, t.it[i].cas = id PROVE Near(M, v, t.it[i].val)
  <2>1. i # n /\ i # o
    BY <1>1, <1>2 DEF Evolves
  <2>2. i \in Items
    BY DEF Memory
  <2>3. i \in s.assoc /\ s.it[i].key = k /\ s.it[i].cas = id /\ t.it[i].val = s.it[i].val
    BY <1>2, <2>1, <2>2 DEF Evolves
  <2> QED BY <2>3 DEF Ident
<1> QED BY <1>1, <1>2 DEF Ident

\* New ids are given in order.
LEMMA BoundedKept ==
  ASSUME NEW s \in Memory, NEW t \in Memory, NEW K, NEW n, NEW o, Evolves(s, t, K, n, o), Bounded(s)
  PROVE  Bounded(t)
<1> SUFFICES ASSUME NEW i \in t.assoc PROVE t.it[i].cas <= t.cas_id
  BY DEF Bounded
<1>1. i \in Items /\ i # o
  BY DEF Memory, Evolves
<1>2. CASE i = n
  BY <1>2 DEF Evolves
<1>3. CASE i # n
  <2>1. i \in s.assoc /\ t.it[i].cas = s.it[i].cas /\ s.cas_id <= t.cas_id
    BY <1>1, <1>3 DEF Evolves
  <2>2. s.it[i].cas <= s.cas_id /\ s.it[i].cas \in Nat /\ s.cas_id \in Nat /\ t.cas_id \in Nat
    BY <1>1, <2>1 DEF Bounded, Memory, Item
  <2> QED BY <2>1, <2>2
<1> QED BY <1>2, <1>3

\* The replaced item now has the id of the count of its value.
LEMMA IdentSuperseded ==
  ASSUME NEW s \in Memory, NEW t \in Memory, NEW K, NEW n, NEW o \in Items, n # o, Evolves(s, t, K, n, o),
         Bounded(s), NEW M, Superseded(s, t, M, n, o), NEW k
  PROVE  Ident(t, M, k, t.it[o].cas, t.it[o].val)
<1>1. n \in Items /\ s.assoc \subseteq Items /\ t.assoc \subseteq Items
  BY DEF Superseded, Memory
<1>2. /\ t.it[o].val = s.it[o].val /\ t.it[o].cas = t.it[n].cas
      /\ s.cas_id < t.it[n].cas /\ t.it[n].cas <= t.cas_id
  BY DEF Superseded, Evolves
<1>3. /\ s.cas_id \in Nat /\ t.cas_id \in Nat /\ t.it[n].cas \in Nat
      /\ \A i \in Items : s.it[i].cas \in Nat
  BY <1>1 DEF Memory, Item
<1>4. Near(M, t.it[o].val, t.it[n].val)
  BY <1>2 DEF Superseded, Near
<1>5. ASSUME NEW i \in t.assoc, i # n PROVE t.it[i].cas # t.it[n].cas
  <2>1. i \in s.assoc /\ i # o /\ i \in Items
    BY <1>1, <1>5 DEF Evolves
  <2>2. t.it[i].cas = s.it[i].cas /\ s.it[i].cas <= s.cas_id
    BY <1>5, <2>1 DEF Evolves, Bounded
  <2> QED BY <1>2, <1>3, <2>1, <2>2
<1> QED BY <1>2, <1>3, <1>4, <1>5 DEF Ident

\* What a command would answer stays so while others do a step.
LEMMA TellableKept ==
  ASSUME NEW x \in Command, NEW a, NEW v, NEW lk, NEW s \in Memory, NEW t \in Memory, NEW K,
         NEW n, NEW o, NEW M, Evolves(s, t, K, n, o), Fits(x, v, s, lk), n # NULL => x.it # n,
         Bounded(s), o # NULL => Superseded(s, t, M, n, o), Tellable(x, a, s, M)
  PROVE  Tellable(x, a, t, M)
<1>1. ASSUME x.comm = "gets" PROVE Ident(t, M, x.key, t.it[x.it].cas, t.it[x.it].val)
  <2>1. x.it # NULL
    BY <1>1 DEF Fits, GetComms
  <2>2. x.it \in Items /\ x.it # n
    BY <2>1 DEF Command
  <2>3. CASE x.it = o
    BY <2>1, <2>2, <2>3, IdentSuperseded
  <2>4. CASE x.it # o
    <3>1. t.it[x.it].cas = s.it[x.it].cas /\ t.it[x.it].val = s.it[x.it].val
      BY <2>2, <2>4 DEF Evolves
    <3>2. Ident(s, M, x.key, s.it[x.it].cas, s.it[x.it].val)
      BY <1>1 DEF Tellable
    <3>3. Ident(t, M, x.key, s.it[x.it].cas, s.it[x.it].val)
      BY <3>2, IdentKept
    <3> QED BY <3>1, <3>3
  <2> QED BY <2>3, <2>4
<1>2. ASSUME a.op = "gets", a.res = "HIT" PROVE Ident(t, M, a.key, a.cas, a.val)
  <2>1. Ident(s, M, a.key, a.cas, a.val)
    BY <1>2 DEF Tellable
  <2> QED BY <2>1, IdentKept
<1> QED BY <1>1, <1>2 DEF Tellable

\* So does what a counter has counted.
LEMMA CountedKept ==
  ASSUME NEW x \in Command, NEW v, NEW lk, NEW s, NEW t, NEW K, NEW n, NEW o, NEW M,
         Evolves(s, t, K, n, o), Fits(x, v, s, lk), n # NULL => x.old # n, Counted(x, s, M)
  PROVE  Counted(x, t, M)
<1> SUFFICES ASSUME x.pc = "delta" PROVE t.it[x.old].val = s.it[x.old].val
  BY DEF Counted
<1>1. x.old # NULL
  BY DEF Fits
<1>2. x.old \in Items /\ x.old # n
  BY <1>1 DEF Command
<1> QED BY <1>2 DEF Evolves

\* What a worker does to its command and its answer when it neither finds an
\* item for a gets nor tells one: at most it counts.
Plain(w) ==
  /\ c'[w].comm # "gets" /\ Counted(c'[w], m', Counters)
  /\ \A v \in Workers : v # w => ans'[v] = ans[v]
  /\ ans'[w] = ans[w] \/ ans'[w].op # "gets" \/ ans'[w].res # "HIT"

\* The worker w goes on to y, and says a or nothing.
LEMMA GoesPlain ==
  ASSUME NEW w \in Workers, State(w), NEW y, c' = With(c, w, y), y.comm # "gets",
         y.pc = "delta" => Counted(y, m', Counters), NEW a, a.op # "gets" \/ a.res # "HIT", ans' = With(ans, w, a) \/ ans' = ans
  PROVE  Plain(w)
<1>1. DOMAIN c = Workers /\ DOMAIN ans = Workers
  BY DEF State
<1>2. c'[w] = y
  BY <1>1 DEF With
<1>3. ans'[w] = ans[w] \/ ans'[w] = a
  BY <1>1 DEF With
<1>4. \A v \in Workers : v # w => ans'[v] = ans[v]
  BY <1>1 DEF With
<1> QED BY <1>2, <1>3, <1>4 DEF Plain, Counted

\* A command that has found nothing yet is no gets.
LEMMA NoGets ==
  ASSUME NEW w \in Workers, State(w), c[w].pc \notin {"found", "drop"}
  PROVE  c[w].comm # "gets"
BY DEF State, Fits, GetComms

\* The worker w stays idle, and says a.
LEMMA StaysPlain ==
  ASSUME NEW w \in Workers, State(w), c[w].pc = "idle", c' = c,
         NEW a, a.op # "gets" \/ a.res # "HIT", ans' = With(ans, w, a)
  PROVE  Plain(w)
<1>1. c[w].comm # "gets"
  BY NoGets
<1>2. c' = With(c, w, c[w])
  BY DEF State, With
<1> QED BY <1>1, <1>2, GoesPlain

\* What is no gets is plain.
LEMMA CommandPlain ==
  ASSUME IInv, NEW w \in Workers, CacheCommand(w), \A k \in Keys, ttl \in Expiries : ~GetCmd(w, "gets", k, ttl)
  PROVE  Plain(w)
<1>1. State(w)
  BY OwnState
<1>2. ASSUME NEW op \in {"get", "gat"}, NEW k \in Keys, NEW ttl \in Expiries, GetCmd(w, op, k, ttl)
      PROVE  Plain(w)
  <2> DEFINE a == Answer(op, k, "MISS", <<>>, 0)
             r == IF op = "gat" THEN do_item_touch(m, k, w, realtime(ttl))
                  ELSE do_item_get(m, k, w, DO_UPDATE)
             many == r.it # NULL /\ r.s.it[r.it].refcount > RefcountLimit
             y == [Idle EXCEPT !.pc = "found", !.comm = op, !.key = k, !.it = r.it,
                               !.val = r.s.it[r.it].val]
  <2>1. c[w].pc = "idle" /\ ((c' = c /\ ans' = With(ans, w, a)) \/ (c' = With(c, w, y) /\ ans' = ans))
    <3>1. /\ c[w].pc = "idle"
          /\ IF r.it = NULL \/ many THEN c' = c /\ ans' = With(ans, w, a)
             ELSE c' = With(c, w, y) /\ ans' = ans
      BY <1>2 DEF GetCmd, Begins, With
    <3> HIDE DEF r, many, a, y
    <3>2. CASE r.it = NULL \/ many
      BY <3>1, <3>2, Zenon
    <3>3. CASE ~(r.it = NULL \/ many)
      BY <3>1, <3>3, Zenon
    <3> QED BY <3>2, <3>3, Zenon
  <2>2. a.op # "gets"
    BY DEF Answer
  <2>3. y.comm = op /\ y.pc = "found"
    BY DEF Idle
  <2> HIDE DEF a, y
  <2>4. CASE c' = c /\ ans' = With(ans, w, a)
    BY <1>1, <2>1, <2>2, <2>4, StaysPlain
  <2>5. CASE c' = With(c, w, y) /\ ans' = ans
    BY <1>1, <2>2, <2>3, <2>5, GoesPlain
  <2> QED BY <2>1, <2>4, <2>5
<1>3. ASSUME NEW comm \in StorageComms, NEW k \in Keys, NEW ttl \in Expiries, NEW cas \in CasIds,
             UpdateCmd(w, comm, k, ttl, cas)
      PROVE  Plain(w)
  <2> DEFINE e == IF comm \in {"APPEND", "PREPEND"} THEN 0 ELSE realtime(ttl)
             y == [Idle EXCEPT !.pc = "alloc", !.comm = comm, !.key = k, !.val = <<cmds>>,
                               !.cas = cas, !.exptime = e]
  <2>1. c' = With(c, w, y) /\ ans' = ans
    BY <1>3 DEF UpdateCmd, With
  <2>2. y.comm # "gets" /\ y.pc = "alloc"
    BY DEF Idle, StorageComms
  <2> HIDE DEF y
  <2>3. NoAnswer.op # "gets" \/ NoAnswer.res # "HIT"
    BY MemCacheAssumption DEF NoAnswer
  <2> QED BY <1>1, <2>1, <2>2, <2>3, GoesPlain
<1>4. ASSUME NEW op \in {"incr", "decr"}, NEW k \in Keys, NEW cas \in CasIds, NEW fits \in BOOLEAN,
             DeltaCmd(w, op, k, cas, fits)
      PROVE  Plain(w)
  <2> DEFINE g == do_item_get(m, k, w, DONT_UPDATE)
             old == g.s.it[g.it]
             res == IF g.it = NULL THEN "NOT_FOUND"
                    ELSE IF cas # 0 /\ cas # old.cas THEN "EXISTS"
                    ELSE IF Len(old.val) # 1 THEN "NON_NUMERIC" ELSE "OK"
             v == <<Delta(op, old.val[1])>>
             a == Answer(op, k, res, <<>>, cas)
             b == Answer(op, k, "OK", v, cas)
             y == [Idle EXCEPT !.pc = "delta", !.comm = op, !.key = k, !.val = v, !.cas = cas,
                               !.exptime = old.exptime, !.old = g.it]
  <2>1. /\ c[w].pc = "idle" /\ op \in menu.ops
        /\ \/ c' = c /\ ans' = With(ans, w, a)
           \/ c' = c /\ ans' = With(ans, w, b)
           \/ c' = With(c, w, y) /\ ans' = ans /\ m' = g.s
    BY <1>4, Zenon DEF DeltaCmd, Begins, With
  <2>2. a.op # "gets" /\ b.op # "gets"
    BY DEF Answer
  <2>3. y.comm = op /\ y.val = <<Delta(op, g.s.it[g.it].val[1])>> /\ y.old = g.it
    BY DEF Idle
  <2> HIDE DEF a, b, y, g
  <2>4. CASE c' = c /\ ans' = With(ans, w, a)
    BY <1>1, <2>1, <2>2, <2>4, StaysPlain
  <2>5. CASE c' = c /\ ans' = With(ans, w, b)
    BY <1>1, <2>1, <2>2, <2>5, StaysPlain
  <2>6. CASE c' = With(c, w, y) /\ ans' = ans /\ m' = g.s
    <3>1. op \in Counters /\ y.comm # "gets"
      BY <2>1, <2>3 DEF Counters
    <3>2. m' = g.s
      BY <2>1, <2>6
    <3>3. Counted(y, m', Counters)
      BY <2>3, <3>1, <3>2 DEF Counted
    <3> QED BY <1>1, <2>2, <2>6, <3>1, <3>3, GoesPlain
  <2> QED BY <2>1, <2>4, <2>5, <2>6
<1>5. ASSUME NEW k \in Keys, NEW cas \in CasIds, DeleteCmd(w, k, cas)
      PROVE  Plain(w)
  <2>1. PICK res : ans' = With(ans, w, Answer("delete", k, res, <<>>, cas)) /\ c' = c /\ c[w].pc = "idle"
    BY <1>5 DEF DeleteCmd, Begins, With
  <2>2. Answer("delete", k, res, <<>>, cas).op # "gets"
    BY DEF Answer
  <2> QED BY <1>1, <2>1, <2>2, StaysPlain
<1>6. ASSUME NEW k \in Keys, NEW ttl \in Expiries, TouchCmd(w, k, ttl)
      PROVE  Plain(w)
  <2> DEFINE r == do_item_touch(m, k, w, realtime(ttl))
             y == [Idle EXCEPT !.pc = "drop", !.key = k, !.it = r.it]
  <2>1. PICK res : /\ ans' = With(ans, w, Answer("touch", k, res, <<>>, 0)) /\ c[w].pc = "idle"
                   /\ c' = c \/ c' = With(c, w, y)
    BY <1>6 DEF TouchCmd, Begins, With
  <2>2. Answer("touch", k, res, <<>>, 0).op # "gets"
    BY DEF Answer
  <2>3. y.comm # "gets" /\ y.pc = "drop"
    BY MemCacheAssumption DEF Idle
  <2> HIDE DEF y
  <2>4. CASE c' = c
    BY <1>1, <2>1, <2>2, <2>4, StaysPlain
  <2>5. CASE c' = With(c, w, y)
    BY <1>1, <2>1, <2>2, <2>3, <2>5, GoesPlain
  <2> QED BY <2>1, <2>4, <2>5
<1>7. ASSUME NEW d \in FlushDelays, FlushLive(w, d)
      PROVE  Plain(w)
  <2> DEFINE y == [Idle EXCEPT !.pc = "flush"]
  <2>1. c' = With(c, w, y) /\ ans' = ans
    BY <1>7 DEF FlushLive, With
  <2>2. y.comm # "gets" /\ y.pc = "flush"
    BY MemCacheAssumption DEF Idle
  <2> HIDE DEF y
  <2>3. NoAnswer.op # "gets" \/ NoAnswer.res # "HIT"
    BY MemCacheAssumption DEF NoAnswer
  <2> QED BY <1>1, <2>1, <2>2, <2>3, GoesPlain
<1> QED BY <1>2, <1>3, <1>4, <1>5, <1>6, <1>7 DEF CacheCommand

\* So is what a worker goes on with, but a reply.
LEMMA StepPlain ==
  ASSUME IInv, CasInv, NEW w \in Workers, CacheStep(w), ~Reply(w)
  PROVE  Plain(w)
<1> DEFINE x == c[w]
<1>1. State(w) /\ (x.pc \notin {"found", "drop"} => x.comm # "gets") /\ x \in Command
  BY OwnState, NoGets DEF State
<1>2. NoAnswer.op # "gets" \/ NoAnswer.res # "HIT"
  BY MemCacheAssumption DEF NoAnswer
<1>3. Idle.comm # "gets" /\ Idle.pc = "idle"
  BY MemCacheAssumption DEF Idle
<1>5. CASE Drop(w)
  <2>1. c' = With(c, w, Idle) /\ ans' = ans
    BY <1>5 DEF Drop, With
  <2> QED BY <1>1, <1>2, <1>3, <2>1, GoesPlain
<1>6. CASE NreadDone(w)
  <2> DEFINE y == [x EXCEPT !.pc = "drop"]
  <2>1. PICK res : /\ ans' = With(ans, w, Answer(x.comm, x.key, res, x.val, x.cas))
                   /\ c' = With(c, w, y) /\ x.pc = "nread"
    BY <1>6 DEF NreadDone, With
  <2>2. Answer(x.comm, x.key, res, x.val, x.cas).op = x.comm
    BY DEF Answer
  <2>3. y.comm = x.comm /\ y.pc = "drop"
    BY <1>1 DEF Command
  <2> HIDE DEF y, x
  <2> QED BY <1>1, <2>1, <2>2, <2>3, GoesPlain
<1>7. CASE NreadBad(w)
  <2> DEFINE y == [x EXCEPT !.pc = "drop"]
             a == Answer(x.comm, x.key, "ERROR", <<>>, 0)
  <2>1. ans' = With(ans, w, a) /\ c' = With(c, w, y) /\ x.pc = "nread"
    BY <1>7 DEF NreadBad, With
  <2>2. a.op = x.comm
    BY DEF Answer
  <2>3. y.comm = x.comm /\ y.pc = "drop"
    BY <1>1 DEF Command
  <2> HIDE DEF y, x, a
  <2> QED BY <1>1, <2>1, <2>2, <2>3, GoesPlain
<1>8. CASE CopyBegin(w)
  <2> DEFINE y == [x EXCEPT !.pc = "drop"]
             g == do_item_get(m, x.key, w, DONT_UPDATE)
             z == [x EXCEPT !.pc = "copy", !.old = g.it, !.tries = 0]
  <2>1. PICK res : /\ x.pc = "nread"
                   /\ \/ ans' = With(ans, w, Answer(x.comm, x.key, res, x.val, x.cas)) /\ c' = With(c, w, y)
                      \/ ans' = ans /\ c' = With(c, w, z)
    BY <1>8 DEF CopyBegin, With
  <2>2. Answer(x.comm, x.key, res, x.val, x.cas).op = x.comm
    BY DEF Answer
  <2>3. y.comm = x.comm /\ y.pc = "drop" /\ z.comm = x.comm /\ z.pc = "copy"
    BY <1>1 DEF Command
  <2> HIDE DEF y, x, z
  <2> QED BY <1>1, <2>1, <2>2, <2>3, GoesPlain
<1>9. CASE AllocTake(w)
  <2> DEFINE i == CHOOSE j \in FreeChunks : TRUE
             b == BinaryComm(x.comm, x.cas)
             y == [x EXCEPT !.pc = "nread", !.it = i, !.comm = b]
             z == [x EXCEPT !.pc = "drop", !.old = NULL]
             a == Answer(x.comm, x.key, "STORED", x.val, x.cas)
             d == Answer(x.comm, x.key, "OK", x.val, x.cas)
  <2>1. /\ x.pc \in {"alloc", "copy", "delta"}
        /\ \/ c' = With(c, w, y) /\ ans' = ans
           \/ c' = With(c, w, z) /\ ans' = With(ans, w, a)
           \/ c' = With(c, w, Idle) /\ ans' = With(ans, w, d)
    BY <1>9, Zenon DEF AllocTake, Allocating, With
  <2>2. a.op = x.comm /\ d.op = x.comm
    BY DEF Answer
  <2>3. b # "gets"
    BY <1>1, <2>1 DEF BinaryComm
  <2>4. y.comm = b /\ y.pc = "nread" /\ z.comm = x.comm /\ z.pc = "drop"
    BY <1>1 DEF Command
  <2> HIDE DEF b, y, z, a, d, x
  <2>5. CASE c' = With(c, w, y) /\ ans' = ans
    BY <1>1, <1>2, <2>3, <2>4, <2>5, GoesPlain
  <2>6. CASE c' = With(c, w, z) /\ ans' = With(ans, w, a)
    BY <1>1, <2>1, <2>2, <2>4, <2>6, GoesPlain
  <2>7. CASE c' = With(c, w, Idle) /\ ans' = With(ans, w, d)
    BY <1>1, <1>3, <2>1, <2>2, <2>7, GoesPlain
  <2> QED BY <2>1, <2>5, <2>6, <2>7
<1>10. CASE AllocFail(w)
  <2> DEFINE y == [x EXCEPT !.pc = "drop", !.old = NULL]
             z == [x EXCEPT !.pc = "oom"]
  <2>1. PICK res : /\ x.pc \in {"alloc", "copy", "delta"}
                   /\ ans' = With(ans, w, Answer(x.comm, x.key, res, <<>>, 0))
                   /\ c' = With(c, w, y) \/ c' = With(c, w, z) \/ c' = With(c, w, Idle)
    <3> DEFINE f == IF x.pc = "copy" THEN "NOT_STORED" ELSE "ERROR"
               n == IF x.pc = "copy" THEN y ELSE IF x.comm = "SET" THEN z ELSE Idle
    <3>1. /\ x.pc \in {"alloc", "copy", "delta"}
          /\ ans' = With(ans, w, Answer(x.comm, x.key, f, <<>>, 0)) /\ c' = With(c, w, n)
      BY <1>10 DEF AllocFail, Allocating, With
    <3>2. n = y \/ n = z \/ n = Idle
      OBVIOUS
    <3> HIDE DEF f, n, x, y, z
    <3> QED BY <3>1, <3>2
  <2>2. Answer(x.comm, x.key, res, <<>>, 0).op = x.comm
    BY DEF Answer
  <2>3. y.comm = x.comm /\ y.pc = "drop" /\ z.comm = x.comm /\ z.pc = "oom"
    BY <1>1 DEF Command
  <2> HIDE DEF y, z, x
  <2>4. CASE c' = With(c, w, y)
    BY <1>1, <2>1, <2>2, <2>3, <2>4, GoesPlain
  <2>5. CASE c' = With(c, w, z)
    BY <1>1, <2>1, <2>2, <2>3, <2>5, GoesPlain
  <2>6. CASE c' = With(c, w, Idle)
    BY <1>1, <1>3, <2>1, <2>2, <2>6, GoesPlain
  <2> QED BY <2>1, <2>4, <2>5, <2>6
<1>11. CASE OomGet(w)
  <2> DEFINE g == do_item_get(m, x.key, w, DONT_UPDATE)
             y == [x EXCEPT !.pc = "unlink", !.it = g.it]
  <2>1. x.pc = "oom" /\ ans' = ans /\ (c' = With(c, w, y) \/ c' = With(c, w, Idle))
    <3> DEFINE n == IF g.it = NULL THEN Idle ELSE y
    <3>1. x.pc = "oom" /\ ans' = ans /\ c' = With(c, w, n)
      BY <1>11 DEF OomGet, With
    <3>2. n = Idle \/ n = y
      OBVIOUS
    <3> HIDE DEF n, x, y
    <3> QED BY <3>1, <3>2
  <2>2. y.comm = x.comm /\ y.pc = "unlink"
    BY <1>1 DEF Command
  <2> HIDE DEF y, x
  <2>3. CASE c' = With(c, w, y)
    BY <1>1, <1>2, <2>1, <2>2, <2>3, GoesPlain
  <2>4. CASE c' = With(c, w, Idle)
    BY <1>1, <1>2, <1>3, <2>1, <2>4, GoesPlain
  <2> QED BY <2>1, <2>3, <2>4
<1>12. CASE OomUnlink(w)
  <2> DEFINE y == [x EXCEPT !.pc = "drop"]
  <2>1. x.pc = "unlink" /\ ans' = ans /\ c' = With(c, w, y)
    BY <1>12 DEF OomUnlink, With
  <2>2. y.comm = x.comm /\ y.pc = "drop"
    BY <1>1 DEF Command
  <2> HIDE DEF y, x
  <2> QED BY <1>1, <1>2, <2>1, <2>2, GoesPlain
<1>13. CASE FlushCas(w)
  <2> DEFINE a == Answer("flush", NULL, "OK", <<>>, 0)
  <2>1. ans' = With(ans, w, a) /\ c' = With(c, w, Idle)
    BY <1>13 DEF FlushCas, With
  <2>2. a.op = "flush"
    BY DEF Answer
  <2> HIDE DEF a, x
  <2> QED BY <1>1, <1>3, <2>1, <2>2, GoesPlain
<1>14. ASSUME NEW busy \in SUBSET Keys, NEW over \in BOOLEAN, AllocPull(w, busy, over)
       PROVE  Plain(w)
  <2> DEFINE y == [x EXCEPT !.tries = x.tries + 1]
  <2>1. x.pc \in {"alloc", "copy", "delta"} /\ ans' = ans /\ c' = With(c, w, y)
    BY <1>14 DEF AllocPull, Allocating, With
  <2>2. y.comm = x.comm /\ y.pc = x.pc /\ y.val = x.val /\ y.old = x.old
    BY <1>1 DEF Command
  <2> HIDE DEF y
  <2>3. Counted(y, m', Counters)
    <3>1. Evolves(m, m', MayTake(w), NULL, NULL)
      BY <1>14, AllocPullStep DEF Step, Moved
    <3>2. Fits(x, w, m, ilock) /\ Counted(x, m, Counters)
      BY <1>1 DEF State, CasInv
    <3> HIDE DEF x
    <3>3. Counted(x, m', Counters)
      BY <1>1, <3>1, <3>2, CountedKept
    <3> QED BY <2>2, <3>3 DEF Counted
  <2>4. y.comm # "gets"
    BY <1>1, <2>1, <2>2
  <2> HIDE DEF x
  <2> QED BY <1>1, <1>2, <2>1, <2>3, <2>4, GoesPlain
<1> QED BY <1>5, <1>6, <1>7, <1>8, <1>9, <1>10, <1>11, <1>12, <1>13, <1>14 DEF CacheStep

\* A gets tells nothing, or has found an item of its key.
GetsFinds(w) ==
  /\ c'[w].pc = "found" /\ ans' = ans
  /\ c'[w].it \in m'.assoc /\ m'.it[c'[w].it].key = c'[w].key

\* The gets up to the item lock.
LEMMA GetsStep ==
  ASSUME IInv, NEW w \in Workers, NEW k \in Keys, NEW ttl \in Expiries, GetCmd(w, "gets", k, ttl)
  PROVE  Plain(w) \/ GetsFinds(w)
<1> DEFINE r == do_item_get(m, k, w, DO_UPDATE)
           many == r.it # NULL /\ r.s.it[r.it].refcount > RefcountLimit
           a == Answer("gets", k, "MISS", <<>>, 0)
           y == [Idle EXCEPT !.pc = "found", !.comm = "gets", !.key = k, !.it = r.it,
                             !.val = r.s.it[r.it].val]
<1>1. State(w) /\ Begins(w, "gets")
  BY OwnState DEF GetCmd
<1>2. c[w].pc = "idle" /\ Life(m, Base(w))
  BY <1>1, BeginsWith
<1>3. m \in Memory /\ Base(w) \in [Items -> Nat] /\ now \in Nat /\ k \in MayTake(w) /\ DOMAIN c = Workers
  BY <1>1 DEF State, MayTake, GetCmd, Free
<1>4. Hitting(m, Base(w), r, MayTake(w), k, w)
  BY <1>2, <1>3, HitGet
<1>5. IF r.it = NULL \/ many THEN c' = c /\ ans' = With(ans, w, a)
      ELSE m' = r.s /\ c' = With(c, w, y) /\ ans' = ans
  BY DEF GetCmd, With
<1>6. a.res # "HIT"
  BY DEF Answer
<1>7. y.it = r.it /\ y.key = k /\ y.pc = "found"
  BY DEF Idle
<1> HIDE DEF r, many, a, y
<1>8. CASE r.it = NULL \/ many
  BY <1>1, <1>2, <1>5, <1>6, <1>8, StaysPlain
<1>9. CASE ~(r.it = NULL \/ many)
  <2>1. m' = r.s /\ c' = With(c, w, y) /\ ans' = ans
    BY <1>5, <1>9
  <2>2. c'[w] = y
    BY <1>3, <2>1 DEF With
  <2>3. r.it \in r.s.assoc /\ r.s.it[r.it].key = k
    BY <1>4, <1>9 DEF Hitting
  <2> QED BY <1>7, <2>1, <2>2, <2>3 DEF GetsFinds
<1> QED BY <1>8, <1>9

\* What a worker does keeps the invariant.
LEMMA CasStep ==
  ASSUME IInv, IInv', CasInv, NEW w \in Workers, CacheCommand(w) \/ CacheStep(w)
  PROVE  CasInv'
<1>1. PICK y, n, o : Step(w, y, n, o) /\ (o # NULL => Replaces(w, n, o))
  BY CommandSteps, StepSteps DEF Steps
<1>2. /\ m \in Memory /\ m' \in Memory /\ c \in [Workers -> Command] /\ c' = With(c, w, y)
      /\ Evolves(m, m', MayTake(w), n, o) /\ menu' = menu /\ AllFit /\ DOMAIN ans = Workers
  BY <1>1 DEF Step, Moved, IInv, TypeInv
<1>3. \A v \in Workers : v # w => c'[v] = c[v]
  BY <1>2 DEF With
<1>4. Counters' = Counters
  BY <1>2 DEF Counters
<1>5. Plain(w) \/ GetsFinds(w) \/ Reply(w)
  <2>1. CASE CacheStep(w)
    BY <2>1, StepPlain
  <2>2. CASE CacheCommand(w)
    BY <2>2, GetsStep, CommandPlain
  <2> QED BY <2>1, <2>2
<1>6. Reply(w) => /\ m' = m /\ c' = With(c, w, [c[w] EXCEPT !.pc = "drop"]) /\ ans' = With(ans, w, Found(w))
  BY DEF Reply, With
<1>7. \A v \in Workers : v # w => ans'[v] = ans[v]
  BY <1>2, <1>5, <1>6 DEF Plain, GetsFinds, With
<1> DEFINE M == Counters
<1>8. Counted(c'[w], m', M)
  <2>1. Reply(w) => c'[w].pc = "drop"
    BY <1>2, <1>6 DEF With, Command
  <2> QED BY <1>5, <2>1 DEF Plain, GetsFinds, Counted
<1>9. Bounded(m) /\ \A v \in Workers : Counted(c[v], m, M) /\ Tellable(c[v], ans[v], m, M)
  BY DEF CasInv
<1>10. o # NULL => Superseded(m, m', M, n, o)
  BY <1>1, <1>9 DEF Replaces, Superseded, Counted
<1> HIDE DEF M
<1>11. Bounded(m')
  BY <1>2, <1>9, BoundedKept
<1>12. ASSUME NEW v \in Workers, v # w PROVE Counted(c'[v], m', M) /\ Tellable(c'[v], ans'[v], m', M)
  <2>1. c[v] \in Command /\ Fits(c[v], v, m, ilock) /\ Counted(c[v], m, M) /\ Tellable(c[v], ans[v], m, M)
    BY <1>2, <1>9 DEF AllFit
  <2>2. n # NULL => c[v].it # n /\ c[v].old # n
    BY <1>1, <1>12 DEF Step, Owned
  <2>3. Tellable(c[v], ans[v], m', M)
    BY <1>2, <1>9, <1>10, <2>1, <2>2, TellableKept
  <2>4. Counted(c[v], m', M)
    BY <1>2, <2>1, <2>2, CountedKept
  <2> QED BY <1>3, <1>7, <1>12, <2>3, <2>4
<1>13. ASSUME ans[w].op = "gets", ans[w].res = "HIT"
       PROVE  Ident(m', M, ans[w].key, ans[w].cas, ans[w].val)
  <2>1. Ident(m, M, ans[w].key, ans[w].cas, ans[w].val)
    BY <1>9, <1>13 DEF Tellable
  <2> QED BY <1>2, <2>1, IdentKept
<1>14. Tellable(c'[w], ans'[w], m', M)
  <2>1. CASE Plain(w)
    BY <1>13, <2>1 DEF Plain, Tellable
  <2>2. CASE GetsFinds(w)
    <3> DEFINE i == c'[w].it
    <3>1. i \in m'.assoc /\ m'.it[i].key = c'[w].key /\ i \in Items /\ ans'[w] = ans[w]
      BY <1>2, <2>2 DEF GetsFinds, Memory
    <3>2. m'.it[i].cas <= m'.cas_id /\ m'.it[i].cas \in Nat
      BY <1>2, <1>11, <3>1 DEF Bounded, Memory, Item
    <3>3. \A j \in m'.assoc : m'.it[j].key = m'.it[i].key => j = i
      BY <3>1 DEF IInv, Life
    <3> HIDE DEF i
    <3>4. Ident(m', M, c'[w].key, m'.it[i].cas, m'.it[i].val)
      BY <3>1, <3>2, <3>3 DEF Ident, Near
    <3> QED BY <1>13, <3>1, <3>4 DEF Tellable, i
  <2>3. CASE Reply(w)
    <3>1. m' = m /\ ans'[w] = Found(w) /\ Tellable(c[w], ans[w], m, M)
      BY <1>2, <1>6, <1>9, <2>3 DEF With
    <3>2. c'[w].comm = c[w].comm /\ c'[w].key = c[w].key /\ c'[w].it = c[w].it
      BY <1>2, <1>6, <2>3 DEF With, Command
    <3> DEFINE u == m.it[c[w].it]
    <3>3. /\ Found(w).op = c[w].comm /\ Found(w).key = c[w].key /\ Found(w).val = u.val
          /\ c[w].comm = "gets" => Found(w).cas = u.cas
      BY DEF Found, Answer
    <3> QED BY <3>1, <3>2, <3>3 DEF Tellable
  <2> QED BY <1>5, <2>1, <2>2, <2>3
<1> QED BY <1>4, <1>8, <1>11, <1>12, <1>14 DEF CasInv, M

\* So does what the background does.
LEMMA CasAround ==
  ASSUME IInv, CasInv, Around
  PROVE  CasInv'
<1>1. /\ m \in Memory /\ m' \in Memory /\ c \in [Workers -> Command] /\ AllFit
      /\ Evolves(m, m', Unlocked, NULL, NULL) /\ menu' = menu /\ c' = c /\ ans' = ans
  BY DEF Around, IInv, TypeInv
<1>2. Counters' = Counters
  BY <1>1 DEF Counters
<1> DEFINE M == Counters
<1>3. Bounded(m) /\ \A v \in Workers : Counted(c[v], m, M) /\ Tellable(c[v], ans[v], m, M)
  BY DEF CasInv
<1> HIDE DEF M
<1>4. ASSUME NEW v \in Workers PROVE Counted(c[v], m', M) /\ Tellable(c[v], ans[v], m', M)
  <2>1. c[v] \in Command /\ Fits(c[v], v, m, ilock) /\ Counted(c[v], m, M) /\ Tellable(c[v], ans[v], m, M)
    BY <1>1, <1>3 DEF AllFit
  <2> QED BY <1>1, <1>3, <2>1, TellableKept, CountedKept
<1>5. Bounded(m')
  BY <1>1, <1>3, BoundedKept
<1> QED BY <1>1, <1>2, <1>4, <1>5 DEF CasInv, M

\* And every other step.
LEMMA CasNext ==
  ASSUME IInv, IInv', CasInv, [CacheNext]_cacheVars
  PROVE  CasInv'
<1>1. ASSUME NEW w \in Workers, CacheCommand(w) \/ CacheStep(w) PROVE CasInv'
  BY <1>1, CasStep
<1>2. CASE UNCHANGED cacheVars
  BY <1>2 DEF cacheVars, CasInv, Counters, Bounded, Counted, Tellable, Ident, Near
<1>3. ASSUME NEW w \in Workers, Bump(w) PROVE CasInv'
  BY <1>3, BumpAround, CasAround
<1>4. CASE Tick
  BY <1>4, TickAround, CasAround
<1>5. ASSUME NEW l \in LRUs, NEW over \in BOOLEAN, NEW busy \in SUBSET Keys, Juggle(l, over, busy)
      PROVE  CasInv'
  BY <1>5, JuggleAround, CasAround
<1>6. ASSUME NEW i \in Items, Crawl(i) PROVE CasInv'
  BY <1>6, CrawlAround, CasAround
<1>7. CASE CacheDone
  BY <1>2, <1>7 DEF CacheDone
<1> QED BY <1>1, <1>2, <1>3, <1>4, <1>5, <1>6, <1>7 DEF CacheNext

\* The invariant holds from the first step on.
LEMMA CasInvariant == CacheSpec => []CasInv
<1>1. CacheInit => CasInv
  <2> SUFFICES ASSUME CacheInit PROVE CasInv
    OBVIOUS
  <2>1. \A w \in Workers : c[w] = Idle /\ ans[w] = NoAnswer
    BY DEF CacheInit
  <2>2. m.assoc = {}
    BY DEF CacheInit
  <2>3. Idle.pc = "idle" /\ Idle.comm # "gets" /\ (NoAnswer.op # "gets" \/ NoAnswer.res # "HIT")
    BY MemCacheAssumption DEF Idle, NoAnswer
  <2> QED BY <2>1, <2>2, <2>3 DEF CasInv, Bounded, Tellable, Counted
<1>2. IInv /\ IInv' /\ CasInv /\ [CacheNext]_cacheVars => CasInv'
  BY CasNext
<1> QED BY <1>1, <1>2, CacheInvariant, PTL DEF CacheSpec

\* CasWithinOne: for every mix of commands, an item with the id that a gets
\* told a client has the value it told, or what one incr or decr made of it.
THEOREM CacheCasWithinOne == CacheSpec => []CasWithinOne
<1>1. CasInv => CasWithinOne
  BY DEF CasInv, Tellable, Ident, Near, Counters, CasWithinOne
<1> QED BY <1>1, CasInvariant, PTL

\* CasIdentifies: where nothing counts, the id that a gets tells a client is
\* the id of the value it told, for as long as the cache has an item with it.
THEOREM CacheCasIdentifies == CacheSpec => [](~Counting => CasIdentifies)
<1>1. CasWithinOne => (~Counting => CasIdentifies)
  BY DEF CasWithinOne, Counting, CasIdentifies
<1> QED BY <1>1, CacheCasWithinOne, PTL
=============================================================================

---------------------------- MODULE MemExtProof ----------------------------
(* Proofs about MemExt, for any number of pages, buffers, threads, keys    *)
(* and connections and whatever is set, deleted, written to flash, read,   *)
(* compacted and freed meanwhile: a page keeps its version as long as an   *)
(* I/O thread reads from it (first part), and a header leads to an item of *)
(* its key and is counted by its page (second part).                       *)
EXTENDS MemExt, FiniteSetTheorems, WellFoundedInduction, SequenceTheorems, TLAPS

(***************************************************************************)
(* Shapes: of the engine, of the threads' locals and of what names a page  *)
(***************************************************************************)

PageFields == DOMAIN FreePage
EngineFields == {"pg", "disk", "version", "bucket", "free", "wbufs", "queue", "maint", "failed"}
PlaceFields == {"page", "version", "off"}

\* A sequence of requests of which those that read name pages.
Requests(q) == \E S : q \in Seq(S) /\ \A r \in S : r.mode = "R" => r.at.page \in Pages

Engine(s) ==
  /\ DOMAIN s = EngineFields
  /\ DOMAIN s.pg = Pages /\ \A p \in Pages : DOMAIN s.pg[p] = PageFields
  /\ s.bucket \in [Buckets -> Seq(Pages)] /\ s.free \in [Buckets -> Seq(Pages)]
  /\ DOMAIN s.queue = IoThreads /\ \A t \in IoThreads : Requests(s.queue[t])

PlaceOK(at) == DOMAIN at = PlaceFields /\ at.page \in Pages

HdrOK == \E S : hdr \in Seq(S) /\ \A h \in S : DOMAIN h = PlaceFields \cup {"val"} /\ h.page \in Pages

TableOK ==
  /\ DOMAIN table = Keys
  /\ \A k \in Keys : IsHdr(table[k]) => table[k].val \in DOMAIN hdr

GetsOK ==
  /\ DOMAIN get = Getters
  /\ \A g \in Getters :
       /\ DOMAIN get[g] = DOMAIN NoGet
       /\ get[g].pc \in {"page", "offset"} => get[g].h \in DOMAIN hdr
       /\ get[g].pc = "offset" => PlaceOK(get[g].at)

WritersOK ==
  /\ DOMAIN wr = Writers
  /\ \A x \in Writers :
       /\ DOMAIN wr[x] = DOMAIN NoWrite
       /\ wr[x].pc \in {"page", "full"} => wr[x].page \in Pages
       /\ wr[x].pc = "ok" => PlaceOK(wr[x].at)

CompactorOK == DOMAIN cp = DOMAIN NotCompacting /\ (cp.on => cp.page \in Pages)

IoOK ==
  /\ DOMAIN io = IoThreads
  /\ \A t \in IoThreads :
       /\ DOMAIN io[t] = {"pc", "req"} /\ io[t].pc \in {"wait", "pread", "unref"}
       /\ io[t].pc # "wait" => io[t].req.at.page \in Pages

PassOK ==
  /\ DOMAIN mt = DOMAIN NoPass
  /\ mt.todo \in Seq(Pages) /\ IsInjective(mt.todo)
  /\ mt.low # NULL => mt.low \in Pages

TypeInv == Engine(e) /\ HdrOK /\ TableOK /\ GetsOK /\ WritersOK /\ CompactorOK /\ IoOK /\ PassOK

(***************************************************************************)
(* What keeps a page that is read                                          *)
(***************************************************************************)

\* A page is in a free list at most once, in that of its device, and marked.
FreeListed ==
  \A b \in Buckets :
    /\ IsInjective(e.free[b])
    /\ \A i \in DOMAIN e.free[b] : FreeBucket[e.free[b][i]] = b /\ e.pg[e.free[b][i]].free

\* Threads that hold a reference to a page.
Holders(p) == {t \in IoThreads : io[t].pc # "wait" /\ io[t].req.at.page = p}

RefsCounted == \A p \in Pages : e.pg[p].ref = Cardinality(Holders(p))

\* A page that is held is in use, and nobody has given it a new version.
HeldInUse ==
  \A t \in IoThreads : io[t].pc # "wait" =>
    /\ ~e.pg[io[t].req.at.page].free
    /\ e.pg[io[t].req.at.page].version = io[t].req.at.version

\* The page to be evicted is in use, and the pass has it behind it.
LowInUse ==
  mt.low # NULL => ~e.pg[mt.low].free /\ \A i \in DOMAIN mt.todo : mt.todo[i] # mt.low

IInv == TypeInv /\ FreeListed /\ RefsCounted /\ HeldInUse /\ LowInUse

-----------------------------------------------------------------------------
(* Sequences *)

\* A set of naturals has a least element.
LEMMA LeastExists ==
  ASSUME NEW S \in SUBSET Nat, S # {}
  PROVE  \E x \in S : \A y \in S : x <= y
<1>1. PICK x \in S : \A y \in S : ~(<<y, x>> \in OpToRel(<, Nat))
  BY Zenon, WFMin, NatLessThanWellFounded
<1>2. \A y \in S : ~(y < x)
  BY <1>1 DEF OpToRel
<1> QED BY <1>2

\* The pages of a finite set can be put in ascending order: of the sets that
\* cannot a smallest one, without its least page, could.
LEMMA AscendingExists ==
  ASSUME NEW S \in SUBSET Nat, IsFiniteSet(S)
  PROVE  \E q \in [1 .. Cardinality(S) -> S] : \A i, j \in DOMAIN q : i < j => q[i] < q[j]
<1> DEFINE Sorted(T, q) == q \in [1 .. Cardinality(T) -> T] /\ \A i, j \in DOMAIN q : i < j => q[i] < q[j]
           Bad == {n \in Nat : \E T \in SUBSET Nat : IsFiniteSet(T) /\ Cardinality(T) = n /\ ~\E q : Sorted(T, q)}
<1>1. ASSUME Bad # {} PROVE FALSE
  <2>1. PICK n \in Bad : \A m \in Bad : n <= m
    BY <1>1, LeastExists
  <2>2. PICK T \in SUBSET Nat : IsFiniteSet(T) /\ Cardinality(T) = n /\ ~\E q : Sorted(T, q)
    OBVIOUS
  <2>3. T # {}
    <3>1. ASSUME T = {} PROVE Sorted(T, [i \in 1 .. 0 |-> 0])
      BY <3>1, FS_EmptySet
    <3> QED BY <2>2, <3>1
  <2>4. PICK m \in T : \A y \in T : m <= y
    BY <2>3, LeastExists
  <2> DEFINE U == T \ {m}
  <2>5. IsFiniteSet(U) /\ Cardinality(U) = n - 1 /\ n - 1 \in Nat
    <3>1. IsFiniteSet(T) /\ Cardinality(T) = n
      BY <2>2
    <3>2. IsFiniteSet(U) /\ Cardinality(U) = n - 1
      BY <3>1, FS_RemoveElement
    <3> QED BY <3>1, <3>2, FS_CardinalityType
  <2>6. PICK r : Sorted(U, r)
    <3>1. n - 1 \notin Bad
      BY <2>1, <2>5
    <3> QED BY <3>1, <2>5
  <2> DEFINE q == [i \in 1 .. n |-> IF i = 1 THEN m ELSE r[i - 1]]
  <2>7. Sorted(T, q)
    <3>1. r \in [1 .. n - 1 -> U] /\ \A i, j \in 1 .. n - 1 : i < j => r[i] < r[j]
      BY <2>5, <2>6
    <3>2. q \in [1 .. n -> T]
      BY <3>1, <2>4, <2>5
    <3>3. \A i, j \in 1 .. n : i < j => q[i] < q[j]
      <4> TAKE i, j \in 1 .. n
      <4>1. CASE i = 1 /\ j # 1
        <5>1. j - 1 \in 1 .. n - 1 /\ r[j - 1] \in T /\ r[j - 1] # m
          BY <4>1, <3>1, <2>5
        <5>2. m \in Nat /\ r[j - 1] \in Nat /\ m <= r[j - 1]
          BY <5>1, <2>4
        <5> QED BY <4>1, <5>1, <5>2
      <4>2. CASE i # 1 /\ j # 1
        BY <4>2, <3>1, <2>5
      <4>3. CASE j = 1
        BY <4>3, <2>5
      <4> QED BY <4>1, <4>2, <4>3
    <3> QED BY <3>2, <3>3, <2>2
  <2> QED BY <2>2, <2>7
<1>2. Cardinality(S) \in Nat
  BY FS_CardinalityType
<1>3. \E q : Sorted(S, q)
  <2>1. Cardinality(S) \notin Bad
    BY <1>1
  <2> QED BY <2>1, <1>2
<1> QED BY <1>3

\* In that order every page of the set is at most once.
LEMMA AscendingOnce ==
  ASSUME NEW S \in SUBSET Pages
  PROVE  Ascending(S) \in Seq(S) /\ IsInjective(Ascending(S))
<1>1. S \in SUBSET Nat /\ IsFiniteSet(S) /\ Cardinality(S) \in Nat
  BY MemExtAssumption, FS_Subset, FS_CardinalityType
<1>2. /\ Ascending(S) \in [1 .. Cardinality(S) -> S]
      /\ \A i, j \in DOMAIN Ascending(S) : i < j => Ascending(S)[i] < Ascending(S)[j]
  <2> DEFINE D == [1 .. Cardinality(S) -> S]
             P(q) == \A i, j \in DOMAIN q : i < j => q[i] < q[j]
  <2>1. \E q \in D : P(q)
    BY <1>1, AscendingExists
  <2>2. Ascending(S) = CHOOSE q \in D : P(q)
    BY DEF Ascending
  <2> HIDE DEF D, P
  <2>3. Ascending(S) \in D /\ P(Ascending(S))
    BY <2>1, <2>2, Zenon
  <2> QED BY <2>3 DEF D, P
<1>3. Ascending(S) \in Seq(S)
  BY <1>1, <1>2, SeqDef
<1>4. IsInjective(Ascending(S))
  <2>1. PICK f : f = Ascending(S)
    OBVIOUS
  <2>2. \A i \in DOMAIN f : i \in Nat /\ f[i] \in Nat
    <3>1. f \in [1 .. Cardinality(S) -> S]
      BY <1>2, <2>1
    <3>2. DOMAIN f = 1 .. Cardinality(S) /\ \A i \in DOMAIN f : f[i] \in S
      BY <3>1
    <3>3. \A i \in 1 .. Cardinality(S) : i \in Nat
      BY <1>1
    <3>4. \A x \in S : x \in Nat
      BY <1>1
    <3> QED BY <3>2, <3>3, <3>4
  <2>3. \A i, j \in DOMAIN f : i < j => f[i] < f[j]
    BY <1>2, <2>1
  <2>4. \A i, j \in DOMAIN f : f[i] = f[j] => i = j
    BY <2>2, <2>3
  <2> QED BY <2>1, <2>4 DEF IsInjective
<1> QED BY <1>3, <1>4

\* What RemoveFirst leaves was there.
LEMMA RemoveFirstSeq ==
  ASSUME NEW S, NEW q \in Seq(S), NEW x
  PROVE  RemoveFirst(q, x) \in Seq(S)
<1> DEFINE I == {i \in 1 .. Len(q) : q[i] = x}
<1>1. CASE \E i \in 1 .. Len(q) : q[i] = x
  <2>1. I \in SUBSET Nat /\ I # {}
    BY <1>1
  <2> HIDE DEF I
  <2>2. Min(I) \in I
    BY <2>1, LeastExists, Zenon DEF Min
  <2> USE DEF I
  <2>3. RemoveFirst(q, x) = SubSeq(q, 1, Min(I) - 1) \o SubSeq(q, Min(I) + 1, Len(q))
    BY <1>1, <2>1 DEF RemoveFirst, SelectInSeq, RemoveAt
  <2>4. SubSeq(q, 1, Min(I) - 1) \in Seq(S) /\ SubSeq(q, Min(I) + 1, Len(q)) \in Seq(S)
    <3>1. Min(I) \in 1 .. Len(q) /\ Len(q) \in Nat /\ \A i \in 1 .. Len(q) : q[i] \in S
      BY <2>2, LenProperties, ElementOfSeq
    <3> HIDE DEF I
    <3> QED BY <3>1, SubSeqProperties
  <2> QED BY <2>3, <2>4, ConcatProperties
<1>2. CASE ~\E i \in 1 .. Len(q) : q[i] = x
  BY <1>2 DEF RemoveFirst
<1> QED BY <1>1, <1>2

\* Taking the head off and putting another page in front keep them distinct.
LEMMA TailOnce ==
  ASSUME NEW S, NEW q \in Seq(S), q # <<>>, IsInjective(q)
  PROVE  /\ Tail(q) \in Seq(S) /\ IsInjective(Tail(q)) /\ Head(q) \in S
         /\ \A i \in DOMAIN Tail(q) : Tail(q)[i] # Head(q) /\ \E j \in DOMAIN q : Tail(q)[i] = q[j]
<1>1. /\ Tail(q) \in Seq(S) /\ Head(q) \in S /\ Head(q) = q[1] /\ Len(q) \in Nat \ {0} /\ Len(Tail(q)) = Len(q) - 1
      /\ \A i \in 1 .. Len(Tail(q)) : Tail(q)[i] = q[i + 1]
  BY HeadTailProperties
<1>2. DOMAIN q = 1 .. Len(q) /\ DOMAIN Tail(q) = 1 .. Len(q) - 1
  BY <1>1
<1>3. \A i, j \in 1 .. Len(q) : q[i] = q[j] => i = j
  BY <1>2 DEF IsInjective
<1>4. \A i \in 1 .. Len(q) - 1 : i + 1 \in 1 .. Len(q) /\ i + 1 # 1 /\ Tail(q)[i] = q[i + 1]
  BY <1>1
<1>5. IsInjective(Tail(q))
  BY <1>1, <1>2, <1>3, <1>4 DEF IsInjective
<1>6. \A i \in DOMAIN Tail(q) : Tail(q)[i] # Head(q) /\ \E j \in DOMAIN q : Tail(q)[i] = q[j]
  BY <1>1, <1>2, <1>3, <1>4
<1> QED BY <1>1, <1>5, <1>6

\* Putting a page that is not in a list in front of it keeps the list free of
\* doubles.
LEMMA ConsOnce ==
  ASSUME NEW S, NEW q \in Seq(S), NEW x \in S, IsInjective(q), \A i \in DOMAIN q : q[i] # x
  PROVE  /\ <<x>> \o q \in Seq(S) /\ IsInjective(<<x>> \o q)
         /\ \A i \in DOMAIN (<<x>> \o q) : (<<x>> \o q)[i] = x \/ \E j \in DOMAIN q : (<<x>> \o q)[i] = q[j]
<1> DEFINE r == <<x>> \o q
<1>1. r \in Seq(S) /\ Len(r) = Len(q) + 1 /\ Len(q) \in Nat
  BY ConcatProperties
<1>2. DOMAIN r = 1 .. Len(q) + 1 /\ DOMAIN q = 1 .. Len(q)
  BY <1>1
<1>3. r[1] = x /\ \A i \in 1 .. Len(q) + 1 : i # 1 => r[i] = q[i - 1] /\ i - 1 \in 1 .. Len(q)
  <2>1. <<x>> \in Seq(S) /\ Len(<<x>>) = 1 /\ <<x>>[1] = x
    OBVIOUS
  <2>2. \A i \in 1 .. 1 + Len(q) : r[i] = IF i <= 1 THEN <<x>>[i] ELSE q[i - 1]
    BY <2>1, ConcatProperties
  <2> HIDE DEF r
  <2> QED BY <1>1, <2>1, <2>2
<1> HIDE DEF r
<1>4. IsInjective(r)
  <2> SUFFICES ASSUME NEW i \in 1 .. Len(q) + 1, NEW j \in 1 .. Len(q) + 1, r[i] = r[j] PROVE i = j
    BY <1>2 DEF IsInjective
  <2>1. CASE i = 1
    BY <2>1, <1>1, <1>2, <1>3
  <2>2. CASE j = 1
    BY <2>2, <1>1, <1>2, <1>3
  <2>3. CASE i # 1 /\ j # 1
    <3>1. i - 1 \in DOMAIN q /\ j - 1 \in DOMAIN q /\ q[i - 1] = q[j - 1]
      BY <2>3, <1>1, <1>2, <1>3
    <3>2. i - 1 = j - 1
      BY <3>1 DEF IsInjective
    <3> QED BY <3>2
  <2> QED BY <2>1, <2>2, <2>3
<1>5. \A i \in DOMAIN r : r[i] = x \/ \E j \in DOMAIN q : r[i] = q[j]
  BY <1>1, <1>2, <1>3
<1> QED BY <1>1, <1>4, <1>5 DEF r

-----------------------------------------------------------------------------
(* The functions of extstore.c *)

\* No page is taken or given back, referred to or released.
Calm(s, t) ==
  /\ t.free = s.free
  /\ \A p \in Pages : t.pg[p].ref = s.pg[p].ref /\ t.pg[p].version = s.pg[p].version /\ t.pg[p].free = s.pg[p].free

\* Two calm steps, one after the other, are calm.
LEMMA CalmTwice ==
  ASSUME NEW s, NEW t, NEW u, Calm(s, t), Calm(t, u) PROVE Calm(s, u)
BY DEF Calm

\* extstore_run_maint only signals the maintenance thread.
LEMMA RunMaintCalm ==
  ASSUME NEW s, Engine(s)
  PROVE  Engine(extstore_run_maint(s)) /\ Calm(s, extstore_run_maint(s))
BY DEF Engine, EngineFields, Calm, extstore_run_maint

\* extstore_delete counts an object of a page less and leaves the rest of the
\* page alone.
LEMMA DeleteCalm ==
  ASSUME NEW s, Engine(s), NEW at
  PROVE  Engine(extstore_delete(s, at)) /\ Calm(s, extstore_delete(s, at))
<1> DEFINE n == IF s.pg[at.page].objs > 0 THEN s.pg[at.page].objs - 1 ELSE 0
           t == [s EXCEPT !.pg[at.page].objs = n]
<1>1. Engine(t) /\ Calm(s, t)
  <2> HIDE DEF n
  <2>1. DOMAIN t = EngineFields /\ t.free = s.free /\ t.bucket = s.bucket /\ t.queue = s.queue
        /\ t.pg = [s.pg EXCEPT ![at.page] = [@ EXCEPT !.objs = n]]
    BY DEF Engine, EngineFields
  <2>2. DOMAIN t.pg = Pages /\ \A p \in Pages : t.pg[p] = s.pg[p] \/ t.pg[p] = [s.pg[p] EXCEPT !.objs = n]
    BY <2>1 DEF Engine
  <2> HIDE DEF t
  <2>3. \A p \in Pages : DOMAIN t.pg[p] = PageFields /\ t.pg[p].ref = s.pg[p].ref
          /\ t.pg[p].version = s.pg[p].version /\ t.pg[p].free = s.pg[p].free
    BY <2>2 DEF Engine, PageFields, FreePage
  <2> QED BY <2>1, <2>2, <2>3 DEF Engine, Calm
<1>2. extstore_delete(s, at) \in {s, t, extstore_run_maint(t)}
  BY DEF extstore_delete
<1> HIDE DEF t
<1>3. Engine(extstore_run_maint(t)) /\ Calm(s, extstore_run_maint(t))
  BY <1>1, RunMaintCalm, CalmTwice
<1>4. Calm(s, s)
  BY DEF Calm
<1> QED BY <1>1, <1>2, <1>3, <1>4

\* STORAGE_delete is extstore_delete, or nothing.
LEMMA StorageDeleteCalm ==
  ASSUME NEW s, Engine(s), NEW x
  PROVE  Engine(STORAGE_delete(s, x)) /\ Calm(s, STORAGE_delete(s, x))
BY DeleteCalm DEF STORAGE_delete, Calm

\* The update of a page that the lemmas below share.
LEMMA PageCalm ==
  ASSUME NEW s, Engine(s), NEW t, NEW p,
         DOMAIN t = EngineFields, t.free = s.free, t.bucket = s.bucket, t.queue = s.queue,
         NEW q, t.pg = [s.pg EXCEPT ![p] = q],
         p \in Pages => DOMAIN q = PageFields /\ q.ref = s.pg[p].ref /\ q.version = s.pg[p].version /\ q.free = s.pg[p].free
  PROVE  Engine(t) /\ Calm(s, t)
<1>1. DOMAIN t.pg = Pages /\ \A r \in Pages : t.pg[r] = IF r = p THEN q ELSE s.pg[r]
  BY DEF Engine
<1>2. \A r \in Pages : DOMAIN t.pg[r] = PageFields /\ t.pg[r].ref = s.pg[r].ref
        /\ t.pg[r].version = s.pg[r].version /\ t.pg[r].free = s.pg[r].free
  BY <1>1 DEF Engine
<1> QED BY <1>1, <1>2 DEF Engine, Calm

\* extstore_close_page marks a page and signals; it frees nothing.
LEMMA ClosePageCalm ==
  ASSUME NEW s, Engine(s), NEW at
  PROVE  Engine(extstore_close_page(s, at)) /\ Calm(s, extstore_close_page(s, at))
<1> DEFINE t == [s EXCEPT !.pg[at.page].closed = TRUE]
<1>1. Engine(t) /\ Calm(s, t)
  <2> DEFINE q == [s.pg[at.page] EXCEPT !.closed = TRUE]
  <2>1. DOMAIN t = EngineFields /\ t.free = s.free /\ t.bucket = s.bucket /\ t.queue = s.queue
        /\ t.pg = [s.pg EXCEPT ![at.page] = q]
    BY DEF Engine, EngineFields
  <2>2. at.page \in Pages => DOMAIN q = PageFields /\ q.ref = s.pg[at.page].ref
          /\ q.version = s.pg[at.page].version /\ q.free = s.pg[at.page].free
    BY DEF Engine, PageFields, FreePage
  <2> HIDE DEF t, q
  <2> QED BY <2>1, <2>2, PageCalm
<1>2. extstore_close_page(s, at) \in {s, extstore_run_maint(t)}
  BY DEF extstore_close_page
<1> HIDE DEF t
<1> QED BY <1>1, <1>2, RunMaintCalm, CalmTwice DEF Calm

\* extstore_submit adds to one queue; a read that is added names a page.
LEMMA SubmitCalm ==
  ASSUME NEW s, Engine(s), NEW req, req.mode = "R" => req.at.page \in Pages
  PROVE  Engine(extstore_submit(s, req)) /\ Calm(s, extstore_submit(s, req))
<1> DEFINE t == extstore_submit(s, req)
<1>1. PICK u : u = get_io_thread(s)
  OBVIOUS
<1>2. /\ DOMAIN t = EngineFields /\ t.free = s.free /\ t.bucket = s.bucket /\ t.pg = s.pg
      /\ t.queue = [s.queue EXCEPT ![u] = Append(@, req)]
  BY <1>1 DEF Engine, EngineFields, extstore_submit
<1> HIDE DEF t
<1>3. DOMAIN t.queue = IoThreads /\ \A v \in IoThreads : Requests(t.queue[v])
  <2>1. DOMAIN t.queue = IoThreads
    BY <1>2 DEF Engine
  <2>2. ASSUME NEW v \in IoThreads PROVE Requests(t.queue[v])
    <3>1. PICK S : s.queue[v] \in Seq(S) /\ \A r \in S : r.mode = "R" => r.at.page \in Pages
      BY DEF Engine, Requests
    <3>2. t.queue[v] \in {s.queue[v], Append(s.queue[v], req)}
      BY <1>2 DEF Engine
    <3> DEFINE U == S \cup {req}
    <3>3. \A r \in U : r.mode = "R" => r.at.page \in Pages
      BY <3>1
    <3>4. s.queue[v] \in Seq(U)
      BY <3>1, SeqMonotonic
    <3>5. req \in U
      OBVIOUS
    <3> HIDE DEF U
    <3>6. Append(s.queue[v], req) \in Seq(U)
      BY <3>4, <3>5, AppendProperties
    <3> QED BY <3>2, <3>3, <3>4, <3>6 DEF Requests
  <2> QED BY <2>1, <2>2
<1> QED BY <1>2, <1>3 DEF Engine, Calm, t

\* _submit_wbuf marks the buffer as full and queues its write.
LEMMA SubmitWbufCalm ==
  ASSUME NEW s, Engine(s), NEW p
  PROVE  Engine(submit_wbuf(s, p)) /\ Calm(s, submit_wbuf(s, p))
<1> DEFINE t == [s EXCEPT !.pg[p].full = TRUE]
           req == [mode |-> "W", at |-> Place(p, 0, <<>>), who |-> NULL]
<1>1. Engine(t) /\ Calm(s, t)
  <2> DEFINE q == [s.pg[p] EXCEPT !.full = TRUE]
  <2>1. DOMAIN t = EngineFields /\ t.free = s.free /\ t.bucket = s.bucket /\ t.queue = s.queue
        /\ t.pg = [s.pg EXCEPT ![p] = q]
    BY DEF Engine, EngineFields
  <2>2. p \in Pages => DOMAIN q = PageFields /\ q.ref = s.pg[p].ref
          /\ q.version = s.pg[p].version /\ q.free = s.pg[p].free
    BY DEF Engine, PageFields, FreePage
  <2> HIDE DEF t, q
  <2> QED BY <2>1, <2>2, PageCalm
<1>2. submit_wbuf(s, p) = extstore_submit(t, req) /\ req.mode = "W"
  BY DEF submit_wbuf
<1> HIDE DEF t, req
<1> QED BY <1>1, <1>2, SubmitCalm, CalmTwice

\* _allocate_wbuf gives a page a buffer and touches no reference, version or
\* list.
LEMMA AllocateWbufCalm ==
  ASSUME NEW s, Engine(s), NEW p
  PROVE  Engine(allocate_wbuf(s, p)) /\ Calm(s, allocate_wbuf(s, p))
<1> DEFINE q == [s.pg[p] EXCEPT !.allocated = @ + 1, !.wbuf = <<>>, !.full = FALSE]
           t == [s EXCEPT !.wbufs = @ - 1, !.pg[p].allocated = @ + 1, !.pg[p].wbuf = <<>>, !.pg[p].full = FALSE]
<1>1. DOMAIN t = EngineFields /\ t.free = s.free /\ t.bucket = s.bucket /\ t.queue = s.queue
      /\ t.pg = [s.pg EXCEPT ![p].allocated = @ + 1, ![p].wbuf = <<>>, ![p].full = FALSE]
  BY DEF Engine, EngineFields
<1>2. t.pg = [s.pg EXCEPT ![p] = q]
  BY <1>1 DEF Engine
<1>3. p \in Pages => DOMAIN q = PageFields /\ q.ref = s.pg[p].ref
        /\ q.version = s.pg[p].version /\ q.free = s.pg[p].free
  BY DEF Engine, PageFields, FreePage
<1>4. allocate_wbuf(s, p) \in {s, t}
  BY DEF allocate_wbuf
<1>5. DOMAIN t = EngineFields /\ t.free = s.free /\ t.bucket = s.bucket /\ t.queue = s.queue
  BY <1>1
<1> HIDE DEF t, q
<1>6. Engine(t) /\ Calm(s, t)
  BY <1>2, <1>3, <1>5, PageCalm
<1> QED BY <1>4, <1>6 DEF Calm

\* _wbuf_cb takes the buffer from its page, which may cease to be active.
LEMMA WbufCbCalm ==
  ASSUME NEW s, Engine(s), NEW p
  PROVE  Engine(wbuf_cb(s, p)) /\ Calm(s, wbuf_cb(s, p))
<1> DEFINE n == s.pg[p].written + 1
           t == wbuf_cb(s, p)
           q == [s.pg[p] EXCEPT !.written = n, !.wbuf = NULL, !.active = IF n = cfg.wbufs THEN FALSE ELSE @]
<1> HIDE DEF n
<1>1. DOMAIN t = EngineFields /\ t.free = s.free /\ t.bucket = s.bucket /\ t.queue = s.queue
      /\ t.pg = [s.pg EXCEPT ![p].written = n, ![p].wbuf = NULL,
                             ![p].active = IF n = cfg.wbufs THEN FALSE ELSE @]
  BY DEF Engine, EngineFields, wbuf_cb, n
<1>2. t.pg = [s.pg EXCEPT ![p] = q]
  BY <1>1 DEF Engine
<1>3. p \in Pages => DOMAIN q = PageFields /\ q.ref = s.pg[p].ref
        /\ q.version = s.pg[p].version /\ q.free = s.pg[p].free
  BY DEF Engine, PageFields, FreePage
<1>5. DOMAIN t = EngineFields /\ t.free = s.free /\ t.bucket = s.bucket /\ t.queue = s.queue
  BY <1>1
<1> HIDE DEF t, q
<1>4. Engine(t) /\ Calm(s, t)
  BY <1>2, <1>3, <1>5, PageCalm
<1> QED BY <1>4 DEF t

\* A page is taken from the head of a free list.
Taken(s, t) ==
  \E f \in Buckets :
    /\ s.free[f] # <<>> /\ t.free = [s.free EXCEPT ![f] = Tail(@)]
    /\ \A p \in Pages : t.pg[p].ref = s.pg[p].ref
    /\ ~t.pg[Head(s.free[f])].free
    /\ \A p \in Pages \ {Head(s.free[f])} : t.pg[p].version = s.pg[p].version /\ t.pg[p].free = s.pg[p].free

\* _allocate_page does nothing to the pages, or takes the first of a free list.
LEMMA AllocatePageTakes ==
  ASSUME NEW s, Engine(s), NEW b \in Buckets
  PROVE  /\ Engine(allocate_page(s, b))
         /\ Calm(s, allocate_page(s, b)) \/ Taken(s, allocate_page(s, b))
<1> DEFINE f == IF b # 0 /\ s.free[b] # <<>> THEN b ELSE 0
           p == Head(s.free[f])
           head == s.bucket[b]
           t == IF head # <<>> /\ s.pg[Head(head)].allocated # cfg.wbufs THEN [s EXCEPT !.failed = TRUE] ELSE s
           nv == next_version(s)
           v == s.version
           u == [t EXCEPT !.free[f] = Tail(@), !.bucket[b] = <<p>> \o @, !.version = nv,
                    !.pg[p].version = v, !.pg[p].active = TRUE, !.pg[p].free = FALSE,
                    !.pg[p].closed = FALSE, !.pg[p].bucket = b]
<1>1. f \in Buckets
  BY DEF Buckets
<1>2. Engine(t) /\ Calm(s, t) /\ t.pg = s.pg /\ t.free = s.free /\ t.bucket = s.bucket /\ t.queue = s.queue
  BY Zenon DEF Engine, EngineFields, Calm
<1>3. allocate_page(s, b) = IF s.free[f] = <<>> THEN extstore_run_maint(t) ELSE u
  BY Zenon DEF allocate_page
<1>4. CASE s.free[f] = <<>>
  <2> HIDE DEF t
  <2> QED BY <1>2, <1>3, <1>4, RunMaintCalm, CalmTwice
<1>5. CASE s.free[f] # <<>>
  <2> HIDE DEF f, t, nv, v
  <2>1. p \in Pages /\ Tail(s.free[f]) \in Seq(Pages)
    BY <1>1, <1>5 DEF Engine
  <2>2. <<p>> \o s.bucket[b] \in Seq(Pages)
    BY <2>1, ConcatProperties DEF Engine
  <2> HIDE DEF p
  <2> DEFINE t1 == [t EXCEPT !.free[f] = Tail(@), !.bucket[b] = <<p>> \o @, !.version = nv]
             q == [s.pg[p] EXCEPT !.version = v, !.active = TRUE, !.free = FALSE, !.closed = FALSE, !.bucket = b]
  <2>3. /\ DOMAIN t1 = EngineFields /\ t1.pg = s.pg /\ t1.queue = s.queue
        /\ t1.free = [s.free EXCEPT ![f] = Tail(@)] /\ t1.bucket = [s.bucket EXCEPT ![b] = <<p>> \o @]
    BY <1>2 DEF Engine, EngineFields
  <2>4. u = [t1 EXCEPT !.pg[p].version = v, !.pg[p].active = TRUE, !.pg[p].free = FALSE,
                       !.pg[p].closed = FALSE, !.pg[p].bucket = b]
    OBVIOUS
  <2> HIDE DEF t1, u
  <2>5. /\ DOMAIN u = EngineFields /\ u.free = t1.free /\ u.bucket = t1.bucket /\ u.queue = t1.queue
        /\ u.pg = [t1.pg EXCEPT ![p].version = v, ![p].active = TRUE, ![p].free = FALSE,
                                ![p].closed = FALSE, ![p].bucket = b]
    BY <2>3, <2>4 DEF EngineFields
  <2>6. DOMAIN u.pg = Pages /\ \A r \in Pages : u.pg[r] = IF r = p THEN q ELSE s.pg[r]
    <3>1. PICK g : g = s.pg
      OBVIOUS
    <3>2. DOMAIN g = Pages /\ q = [g[p] EXCEPT !.version = v, !.active = TRUE, !.free = FALSE, !.closed = FALSE, !.bucket = b]
      BY Zenon, <3>1 DEF Engine
    <3>3. u.pg = [g EXCEPT ![p].version = v, ![p].active = TRUE, ![p].free = FALSE, ![p].closed = FALSE, ![p].bucket = b]
      BY <2>3, <2>5, <3>1
    <3> HIDE DEF q
    <3>4. u.pg = [g EXCEPT ![p] = q]
      BY <3>2, <3>3, <2>1
    <3> QED BY <3>1, <3>2, <3>4
  <2>7. DOMAIN q = PageFields /\ q.ref = s.pg[p].ref /\ q.free = FALSE
    BY <2>1 DEF Engine, PageFields, FreePage
  <2> HIDE DEF q
  <2>8. \A r \in Pages : DOMAIN u.pg[r] = PageFields /\ u.pg[r].ref = s.pg[r].ref
    BY <2>6, <2>7 DEF Engine
  <2>9. u.free \in [Buckets -> Seq(Pages)] /\ u.bucket \in [Buckets -> Seq(Pages)]
    <3> DEFINE S == Seq(Pages)
               x == Tail(s.free[f])
               y == <<p>> \o s.bucket[b]
    <3>1. x \in S /\ y \in S /\ s.free \in [Buckets -> S] /\ s.bucket \in [Buckets -> S]
      BY Zenon, <2>1, <2>2 DEF Engine
    <3>2. u.free = [s.free EXCEPT ![f] = x] /\ u.bucket = [s.bucket EXCEPT ![b] = y]
      BY <2>3, <2>5
    <3> HIDE DEF S, x, y
    <3>3. u.free \in [Buckets -> S] /\ u.bucket \in [Buckets -> S]
      BY Zenon, <3>1, <3>2
    <3> QED BY <3>3 DEF S
  <2>10. Engine(u)
    BY Zenon, <2>3, <2>5, <2>6, <2>8, <2>9 DEF Engine
  <2>11. \A r \in Pages \ {p} : u.pg[r].version = s.pg[r].version /\ u.pg[r].free = s.pg[r].free
    BY <2>6
  <2>12. ~u.pg[p].free
    BY <2>1, <2>6, <2>7
  <2>13. Taken(s, u)
    <3>1. u.free = [s.free EXCEPT ![f] = Tail(@)]
      BY Zenon, <2>3, <2>5
    <3> QED BY <1>1, <1>5, <2>8, <2>11, <2>12, <3>1 DEF Taken, p
  <2> QED BY <1>3, <1>5, <2>10, <2>13
<1> QED BY <1>4, <1>5

\* A page goes back to the free list of its device.
GivenBack(s, t, p) ==
  /\ t.free = [s.free EXCEPT ![FreeBucket[p]] = <<p>> \o @]
  /\ \A r \in Pages : t.pg[r].ref = s.pg[r].ref
  /\ t.pg[p].free = TRUE
  /\ \A r \in Pages \ {p} : t.pg[r].version = s.pg[r].version /\ t.pg[r].free = s.pg[r].free

\* _free_page puts the page into the free list of its device, and only that
\* page.
LEMMA FreePageGivesBack ==
  ASSUME NEW s, Engine(s), NEW p \in Pages
  PROVE  Engine(free_page(s, p)) /\ GivenBack(s, free_page(s, p), p)
<1> DEFINE b == s.pg[p].bucket
           q == [FreePage EXCEPT !.ref = s.pg[p].ref, !.wbuf = s.pg[p].wbuf, !.full = s.pg[p].full]
           u == free_page(s, p)
           x == RemoveFirst(s.bucket[b], p)
           y == <<p>> \o s.free[FreeBucket[p]]
           S == Seq(Pages)
<1>1. /\ DOMAIN u = EngineFields /\ u.queue = s.queue
      /\ u.bucket = [s.bucket EXCEPT ![b] = x] /\ u.free = [s.free EXCEPT ![FreeBucket[p]] = y]
      /\ u.pg = [s.pg EXCEPT ![p] = q]
  <2> HIDE DEF q
  <2>1. u = [s EXCEPT !.bucket[b] = RemoveFirst(@, p), !.free[FreeBucket[p]] = <<p>> \o @, !.pg[p] = q]
    BY DEF free_page, q
  <2> HIDE DEF u, b
  <2> QED BY <2>1 DEF Engine, EngineFields
<1>2. DOMAIN q = PageFields /\ q.ref = s.pg[p].ref /\ q.free = TRUE
  BY DEF PageFields, FreePage
<1>3. b \in Buckets => x \in S
  BY RemoveFirstSeq DEF Engine
<1>4. FreeBucket[p] \in Buckets
  BY MemExtAssumption
<1>5. y \in S
  BY <1>4, ConcatProperties DEF Engine
<1> HIDE DEF u, b, x, y, q
<1>6. DOMAIN u.pg = Pages /\ \A r \in Pages : u.pg[r] = IF r = p THEN q ELSE s.pg[r]
  BY <1>1 DEF Engine
<1>7. \A r \in Pages : DOMAIN u.pg[r] = PageFields /\ u.pg[r].ref = s.pg[r].ref
  BY <1>2, <1>6 DEF Engine
<1>8. u.bucket \in [Buckets -> Seq(Pages)] /\ u.free \in [Buckets -> Seq(Pages)]
  <2>1. s.free \in [Buckets -> S] /\ s.bucket \in [Buckets -> S]
    BY DEF Engine
  <2> HIDE DEF S
  <2>2. u.free \in [Buckets -> S] /\ u.bucket \in [Buckets -> S]
    BY <1>1, <1>3, <1>5, <2>1
  <2> QED BY <2>2 DEF S
<1>9. Engine(u)
  BY <1>1, <1>6, <1>7, <1>8 DEF Engine
<1>10. u.pg[p].free = TRUE /\ \A r \in Pages \ {p} : u.pg[r].version = s.pg[r].version /\ u.pg[r].free = s.pg[r].free
  BY <1>2, <1>6
<1>11. GivenBack(s, u, p)
  BY <1>1, <1>7, <1>10 DEF GivenBack, y
<1> QED BY <1>9, <1>11 DEF u

-----------------------------------------------------------------------------
(* The initial states *)

\* The invariant holds initially.
LEMMA InitInv == Init => IInv
<1> SUFFICES ASSUME Init PROVE IInv
  OBVIOUS
<1> USE DEF Init
<1>1. /\ DOMAIN e = EngineFields /\ e.pg = [p \in Pages |-> FreePage]
      /\ e.bucket = [b \in Buckets |-> <<>>]
      /\ e.free = [b \in Buckets |-> Ascending({p \in Pages : FreeBucket[p] = b})]
      /\ e.queue = [t \in IoThreads |-> <<>>]
  BY DEF EngineFields
<1>2. \A b \in Buckets : /\ e.free[b] \in Seq({p \in Pages : FreeBucket[p] = b}) /\ IsInjective(e.free[b])
  BY <1>1, AscendingOnce
<1>3. \A b \in Buckets : e.free[b] \in Seq(Pages) /\ \A i \in DOMAIN e.free[b] : e.free[b][i] \in Pages /\ FreeBucket[e.free[b][i]] = b
  <2> TAKE b \in Buckets
  <2> DEFINE S == {p \in Pages : FreeBucket[p] = b}
  <2>1. \A i \in DOMAIN e.free[b] : e.free[b][i] \in S
    BY <1>2
  <2>2. e.free[b] \in Seq(Pages)
    BY <1>2, SeqMonotonic
  <2> QED BY <2>1, <2>2
<1>4. Requests(<<>>)
  <2>1. PICK S : S = {}
    OBVIOUS
  <2>2. <<>> \in Seq(S)
    BY EmptySeq
  <2>3. \A r \in S : r.mode = "R" => r.at.page \in Pages
    BY <2>1
  <2> QED BY <2>2, <2>3 DEF Requests
<1>5. Engine(e)
  <2>1. e.free \in [Buckets -> Seq(Pages)]
    BY <1>1, <1>3
  <2>2. e.bucket \in [Buckets -> Seq(Pages)]
    BY <1>1
  <2> QED BY <1>1, <1>4, <2>1, <2>2 DEF Engine, PageFields
<1>6. HdrOK
  <2>1. PICK S : S = {}
    OBVIOUS
  <2>2. hdr \in Seq(S)
    BY EmptySeq
  <2>3. \A h \in S : DOMAIN h = PlaceFields \cup {"val"} /\ h.page \in Pages
    BY <2>1
  <2> QED BY <2>2, <2>3 DEF HdrOK
<1>7. TableOK /\ GetsOK /\ WritersOK /\ CompactorOK /\ IoOK
  BY DEF TableOK, IsHdr, GetsOK, NoGet, WritersOK, NoWrite, CompactorOK, NotCompacting, IoOK, NoIo
<1>8. PassOK /\ LowInUse
  BY DEF PassOK, NoPass, IsInjective, LowInUse
<1>9. FreeListed
  BY <1>1, <1>2, <1>3 DEF FreeListed, FreePage
<1>10. RefsCounted /\ HeldInUse
  <2>1. \A p \in Pages : Holders(p) = {}
    BY DEF Holders, NoIo
  <2> QED BY <1>1, <2>1, FS_EmptySet DEF RefsCounted, FreePage, HeldInUse, NoIo
<1> QED BY <1>5, <1>6, <1>7, <1>8, <1>9, <1>10 DEF IInv, TypeInv

-----------------------------------------------------------------------------
(* What is unchanged keeps its shape *)

\* Shapes depend only on the variables they are about.
LEMMA TypeFrames ==
  ASSUME TypeInv
  PROVE  /\ UNCHANGED e => Engine(e)'
         /\ UNCHANGED hdr => HdrOK'
         /\ UNCHANGED <<table, hdr>> => TableOK'
         /\ UNCHANGED <<get, hdr>> => GetsOK'
         /\ UNCHANGED wr => WritersOK'
         /\ UNCHANGED cp => CompactorOK'
         /\ UNCHANGED io => IoOK'
         /\ UNCHANGED mt => PassOK'
<1>1. UNCHANGED e => Engine(e)'
  BY DEF TypeInv, Engine, Requests
<1>2. UNCHANGED hdr => HdrOK'
  BY DEF TypeInv, HdrOK
<1>3. UNCHANGED <<table, hdr>> => TableOK'
  BY DEF TypeInv, TableOK, IsHdr
<1>4. UNCHANGED <<get, hdr>> => GetsOK'
  BY DEF TypeInv, GetsOK, PlaceOK
<1>5. UNCHANGED wr => WritersOK'
  BY DEF TypeInv, WritersOK, PlaceOK
<1>6. (UNCHANGED cp => CompactorOK') /\ (UNCHANGED io => IoOK') /\ (UNCHANGED mt => PassOK')
  BY DEF TypeInv, CompactorOK, IoOK, PassOK, IsInjective
<1> QED BY <1>1, <1>2, <1>3, <1>4, <1>5, <1>6

\* The answer of a read changes what its reader is doing, but no place.
LEMMA CallbackKeeps ==
  ASSUME TypeInv, NEW req, NEW data, Callback(req, data), hdr' = hdr
  PROVE  GetsOK' /\ CompactorOK'
<1>1. CASE req.who = "compact"
  <2>1. get' = get /\ DOMAIN cp' = DOMAIN cp /\ cp'.on = cp.on /\ cp'.page = cp.page
    BY <1>1 DEF Callback, TypeInv, CompactorOK, NotCompacting
  <2>2. GetsOK'
    BY <2>1, TypeFrames
  <2> QED BY <2>1, <2>2 DEF TypeInv, CompactorOK
<1>2. CASE req.who # "compact"
  <2>1. \E m, i : get' = [get EXCEPT ![req.who] = [@ EXCEPT !.pc = "done", !.miss = m, !.item = i]]
    <3> DEFINE n == req.at.off[2]
               item == IF data = NULL \/ (data # NULL /\ n > Len(data)) THEN NULL ELSE data[n]
    <3>1. get' = [get EXCEPT ![req.who] = [@ EXCEPT !.pc = "done", !.miss = (item = NULL), !.item = item]]
      BY <1>2 DEF Callback
    <3> HIDE DEF item
    <3> QED BY Zenon, <3>1
  <2>2. PICK m, i : get' = [get EXCEPT ![req.who] = [@ EXCEPT !.pc = "done", !.miss = m, !.item = i]]
    BY Zenon, <2>1
  <2>3. DOMAIN get' = Getters /\ \A g \in Getters : get'[g] = get[g] \/ (DOMAIN get'[g] = DOMAIN get[g] /\ get'[g].pc = "done")
    <3>1. DOMAIN get = Getters /\ \A g \in Getters : DOMAIN get[g] = {"pc", "key", "h", "at", "miss", "item"}
      BY DEF TypeInv, GetsOK, NoGet
    <3>2. \A g \in Getters : get'[g] = IF g = req.who THEN [get[g] EXCEPT !.pc = "done", !.miss = m, !.item = i] ELSE get[g]
      BY <2>2, <3>1
    <3>3. DOMAIN get' = Getters
      BY <2>2, <3>1
    <3>4. ASSUME NEW g \in Getters PROVE get'[g] = get[g] \/ (DOMAIN get'[g] = DOMAIN get[g] /\ get'[g].pc = "done")
      <4>1. CASE g = req.who
        <5>1. get'[g] = [get[g] EXCEPT !.pc = "done", !.miss = m, !.item = i]
          BY Zenon, <3>2, <4>1
        <5> QED BY <3>1, <5>1
      <4> QED BY Zenon, <3>2, <4>1
    <3> QED BY <3>3, <3>4
  <2>4. GetsOK'
    BY <2>3 DEF TypeInv, GetsOK, PlaceOK
  <2>5. cp' = cp
    BY <1>2 DEF Callback
  <2> QED BY <2>4, <2>5, TypeFrames
<1> QED BY <1>1, <1>2

\* A header that is taken out of the table, or a value that is put in, leads
\* to no header that is not there.
LEMMA TableKeeps ==
  ASSUME TypeInv, NEW k, NEW v, ~IsHdr(v), table' = [table EXCEPT ![k] = v], hdr' = hdr
  PROVE  TableOK'
BY DEF TypeInv, TableOK, IsHdr

\* What is in memory, or nowhere, is not a header.
LEMMA NotHdr == ~IsHdr(NULL) /\ \A v : ~IsHdr(InMem(v))
BY DEF IsHdr, InMem

-----------------------------------------------------------------------------
(* Steps that neither hold nor release nor free a page *)

\* What these steps have in common: shapes are kept, and at most a page is
\* taken from a free list.
Settled == TypeInv' /\ (Calm(e, e') \/ Taken(e, e')) /\ UNCHANGED <<io, mt>>

\* A step that leaves the engine alone is calm.
LEMMA CalmSelf == UNCHANGED e => Calm(e, e')
BY DEF Calm

\* The next engine has the shape of the record it is set to.
LEMMA EngineIs == ASSUME NEW s, Engine(s), e' = s PROVE Engine(e)'
<1>1. \A t \in IoThreads : Requests(e'.queue[t])
  BY DEF Engine
<1> QED BY <1>1 DEF Engine, Requests

\* Commands of clients hold no page, and only a write takes one.
LEMMA ClientSettles ==
  ASSUME TypeInv,
         \/ \E k \in Keys : Set(k) \/ Unlink(k) \/ \E solo \in BOOLEAN : StorageWrite(k, solo)
         \/ \E g \in Getters, k \in Keys : GetBegin(g, k)
  PROVE  Settled
<1>1. ASSUME NEW k \in Keys, Set(k) \/ Unlink(k) PROVE Settled
  <2>1. PICK s : s = STORAGE_delete(e, table[k])
    OBVIOUS
  <2>2. Engine(s) /\ Calm(e, s)
    BY <2>1, StorageDeleteCalm DEF TypeInv
  <2>3. e' = s /\ UNCHANGED <<io, mt, hdr, wr, cp, get>>
    BY <1>1, <2>1 DEF Set, Unlink, Clients
  <2>4. \E v : ~IsHdr(v) /\ table' = [table EXCEPT ![k] = v]
    BY <1>1, NotHdr DEF Set, Unlink
  <2>5. TableOK'
    BY <2>3, <2>4, TableKeeps
  <2> QED BY <2>2, <2>3, <2>5, TypeFrames, EngineIs DEF Settled, TypeInv
<1>2. ASSUME NEW k \in Keys, NEW solo \in BOOLEAN, StorageWrite(k, solo) PROVE Settled
  <2>1. UNCHANGED <<e, io, mt, table, hdr, cp, get>>
    BY <1>2 DEF StorageWrite
  <2>2. WritersOK'
    <3>1. \E v : wr' = [wr EXCEPT !["write"] = [NoWrite EXCEPT !.pc = "request", !.key = k, !.item = v]]
      BY Zenon, <1>2 DEF StorageWrite, Requested
    <3> QED BY <3>1 DEF TypeInv, WritersOK, NoWrite, Writers, PlaceOK
  <2> QED BY <2>1, <2>2, TypeFrames, CalmSelf DEF Settled, TypeInv
<1>3. ASSUME NEW g \in Getters, NEW k \in Keys, GetBegin(g, k) PROVE Settled
  <2>1. UNCHANGED <<e, io, mt, table, hdr, cp, wr>>
    BY Zenon, <1>3 DEF GetBegin, Clients
  <2>2. GetsOK'
    <3>1. get' = [get EXCEPT ![g] = [NoGet EXCEPT !.pc = "page", !.key = k, !.h = table[k].val]]
          /\ table[k].val \in DOMAIN hdr
      BY Zenon, <1>3 DEF GetBegin, GetIs, TypeInv, TableOK
    <3> QED BY <2>1, <3>1 DEF TypeInv, GetsOK, NoGet, PlaceOK
  <2> QED BY <2>1, <2>2, TypeFrames, CalmSelf DEF Settled, TypeInv
<1> QED BY <1>1, <1>2, <1>3

\* The place that a get submits is that of a header.
LEMMA HdrPlace ==
  ASSUME TypeInv, NEW h \in DOMAIN hdr
  PROVE  DOMAIN hdr[h] = PlaceFields \cup {"val"} /\ hdr[h].page \in Pages
<1>1. PICK S : hdr \in Seq(S) /\ \A x \in S : DOMAIN x = PlaceFields \cup {"val"} /\ x.page \in Pages
  BY DEF TypeInv, HdrOK
<1>2. hdr[h] \in S
  BY <1>1
<1> QED BY <1>1, <1>2

\* A get copies what its header says and asks for it.
LEMMA GetterSettles ==
  ASSUME TypeInv, NEW g \in Getters, Getter(g)
  PROVE  Settled
<1>1. DOMAIN get = Getters /\ DOMAIN get[g] = {"pc", "key", "h", "at", "miss", "item"}
  BY DEF TypeInv, GetsOK, NoGet
<1>2. ASSUME GetPage(g) PROVE Settled
  <2>1. get[g].h \in DOMAIN hdr /\ UNCHANGED <<e, io, mt, table, hdr, cp, wr>>
    BY <1>2 DEF GetPage, Clients, TypeInv, GetsOK
  <2>2. PICK at : at = Place(hdr[get[g].h].page, hdr[get[g].h].version, NULL)
    OBVIOUS
  <2>3. PlaceOK(at)
    BY <2>1, <2>2, HdrPlace DEF PlaceOK, Place, PlaceFields
  <2>4. get' = [get EXCEPT ![g] = [get[g] EXCEPT !.pc = "offset", !.at = at]]
    BY <1>2, <2>2 DEF GetPage, GetIs
  <2>5. DOMAIN get'[g] = DOMAIN get[g] /\ get'[g].h = get[g].h /\ get'[g].at = at
    BY <1>1, <2>4
  <2>6. GetsOK'
    BY <1>1, <2>1, <2>3, <2>4, <2>5 DEF TypeInv, GetsOK, PlaceOK
  <2> QED BY <2>1, <2>6, TypeFrames, CalmSelf DEF Settled, TypeInv
<1>3. ASSUME GetSubmit(g) PROVE Settled
  <2> DEFINE at == [get[g].at EXCEPT !.off = hdr[get[g].h].off]
             req == [mode |-> "R", at |-> at, who |-> g]
  <2>1. UNCHANGED <<io, mt, table, hdr, cp, wr>> /\ PlaceOK(get[g].at) /\ e' = extstore_submit(e, req)
        /\ get' = [get EXCEPT ![g] = [get[g] EXCEPT !.pc = "wait", !.at = at]]
    BY <1>3 DEF GetSubmit, GetIs, Clients, TypeInv, GetsOK
  <2>2. req.at.page \in Pages
    BY <2>1 DEF PlaceOK, PlaceFields
  <2> HIDE DEF at, req
  <2>3. PICK s : s = extstore_submit(e, req) /\ Engine(s) /\ Calm(e, s)
    BY <2>2, SubmitCalm DEF TypeInv
  <2>4. DOMAIN get'[g] = DOMAIN get[g] /\ get'[g].pc = "wait"
    BY <1>1, <2>1
  <2>5. GetsOK'
    BY <1>1, <2>1, <2>4 DEF TypeInv, GetsOK, PlaceOK
  <2> QED BY <2>1, <2>3, <2>5, TypeFrames, EngineIs DEF Settled, TypeInv
<1>4. ASSUME NEW recache \in BOOLEAN, GetEnd(g, recache) PROVE Settled
  <2>1. UNCHANGED <<io, mt, hdr, cp, wr>> /\ get' = [get EXCEPT ![g] = NoGet]
    BY <1>4 DEF GetEnd, GetIs, Clients
  <2>2. GetsOK'
    BY <1>1, <2>1 DEF TypeInv, GetsOK, NoGet, PlaceOK
  <2>3. \E s : e' = s /\ Engine(s) /\ Calm(e, s)
    BY <1>4, StorageDeleteCalm DEF GetEnd, TypeInv, Calm
  <2>4. TableOK'
    <3> DEFINE x == get[g]
               gone == [table EXCEPT ![x.key] = IF Linked(x) THEN NULL ELSE @]
    <3>1. table' = gone \/ table' = [gone EXCEPT ![x.item.key] = InMem(x.item.val)] \/ table' = table
      BY <1>4 DEF GetEnd
    <3> HIDE DEF x
    <3>2. DOMAIN gone = Keys /\ \A k \in Keys : gone[k] = table[k] \/ gone[k] = NULL
      BY DEF TypeInv, TableOK
    <3> HIDE DEF gone
    <3>3. DOMAIN table' = Keys /\ \A k \in Keys : table'[k] = table[k] \/ table'[k] = NULL \/ table'[k] = InMem(x.item.val)
      BY <3>1, <3>2 DEF TypeInv, TableOK
    <3>4. \A k \in Keys : IsHdr(table'[k]) => IsHdr(table[k]) /\ table'[k] = table[k]
      BY <3>3, NotHdr
    <3> QED BY <2>1, <3>3, <3>4 DEF TypeInv, TableOK, IsHdr
  <2> QED BY <2>1, <2>2, <2>3, <2>4, TypeFrames, EngineIs DEF Settled, TypeInv
<1> QED BY <1>2, <1>3, <1>4 DEF Getter

\* extstore_write_request: the page that is written to is one of the bucket's.
LEMMA WriterSettles ==
  ASSUME TypeInv, NEW x \in Writers, Request(x)
  PROVE  Settled
<1>1. /\ BucketOf(x) \in Buckets /\ UNCHANGED <<mt, io, table, hdr, cp, get>>
      /\ DOMAIN wr = Writers /\ DOMAIN wr[x] = {"pc", "page", "at", "key", "item"}
  BY Zenon DEF Buckets, BucketOf, Request, RequestPage, RequestFull, RequestNext, RequestWrite, Writing,
         TypeInv, WritersOK, NoWrite
\* One writer's request, and what it may become.
<1>2. ASSUME NEW w, wr' = [wr EXCEPT ![x] = w], DOMAIN w = DOMAIN NoWrite,
             w.pc \in {"page", "full"} => w.page \in Pages, w.pc = "ok" => PlaceOK(w.at)
      PROVE  WritersOK'
  BY <1>1, <1>2 DEF TypeInv, WritersOK, PlaceOK
<1>3. ASSUME wr' = Refused(x) PROVE WritersOK'
  <2> DEFINE w == [wr[x] EXCEPT !.pc = "fail"]
  <2>1. wr' = [wr EXCEPT ![x] = w] /\ DOMAIN w = DOMAIN NoWrite /\ w.pc = "fail"
    BY <1>1, <1>3 DEF Refused, NoWrite
  <2> HIDE DEF w
  <2> QED BY <1>2, <2>1
<1>4. ASSUME RequestPage(x) PROVE Settled
  <2> DEFINE b == BucketOf(x)
             s == IF e.bucket[b] = <<>> THEN allocate_page(e, b) ELSE e
  <2>1. Engine(s) /\ (Calm(e, s) \/ Taken(e, s))
    BY <1>1, AllocatePageTakes DEF TypeInv, Calm
  <2>2. e' = s /\ wr' = IF s.bucket[b] = <<>> THEN Refused(x)
                       ELSE [wr EXCEPT ![x].pc = "page", ![x].page = Head(s.bucket[b])]
    BY <1>4 DEF RequestPage
  <2> HIDE DEF s
  <2>3. CASE s.bucket[b] = <<>>
    BY <1>1, <1>3, <2>1, <2>2, <2>3, TypeFrames, EngineIs DEF Settled, TypeInv
  <2>4. CASE s.bucket[b] # <<>>
    <3>1. Head(s.bucket[b]) \in Pages
      BY <1>1, <2>1, <2>4 DEF Engine
    <3> DEFINE w == [wr[x] EXCEPT !.pc = "page", !.page = Head(s.bucket[b])]
    <3>2. wr' = [wr EXCEPT ![x] = w]
      BY <1>1, <2>2, <2>4
    <3>3. DOMAIN w = DOMAIN NoWrite /\ w.pc = "page" /\ w.page \in Pages
      BY <1>1, <3>1 DEF NoWrite
    <3> HIDE DEF w
    <3>4. WritersOK'
      BY <1>2, <3>2, <3>3
    <3> QED BY <1>1, <2>1, <2>2, <3>4, TypeFrames, EngineIs DEF Settled, TypeInv
  <2> QED BY <2>3, <2>4
<1>5. ASSUME RequestFull(x) PROVE Settled
  <2> DEFINE w == [wr[x] EXCEPT !.pc = "full"]
  <2>1. wr' = [wr EXCEPT ![x] = w] /\ e' = e
    BY <1>1, <1>5 DEF RequestFull
  <2>2. DOMAIN w = DOMAIN NoWrite /\ w.pc = "full" /\ w.page \in Pages
    BY <1>1, <1>5 DEF RequestFull, NoWrite, TypeInv, WritersOK
  <2> HIDE DEF w
  <2>3. WritersOK'
    BY <1>2, <2>1, <2>2
  <2> QED BY <1>1, <2>1, <2>3, TypeFrames, CalmSelf DEF Settled, TypeInv
<1>6. ASSUME RequestNext(x) PROVE Settled
  <2>1. PICK s : s = allocate_page(e, BucketOf(x))
    OBVIOUS
  <2>2. Engine(s) /\ (Calm(e, s) \/ Taken(e, s)) /\ e' = s /\ WritersOK'
    BY <1>1, <1>3, <1>6, <2>1, AllocatePageTakes DEF RequestNext, TypeInv
  <2> QED BY <1>1, <2>2, TypeFrames, EngineIs DEF Settled, TypeInv
<1>7. ASSUME RequestWrite(x) PROVE Settled
  <2> DEFINE p == wr[x].page
             q == e.pg[p]
             s == IF q.wbuf # NULL /\ ~q.full /\ Len(q.wbuf) >= cfg.items THEN submit_wbuf(e, p)
                  ELSE IF q.wbuf = NULL /\ q.allocated < cfg.wbufs THEN allocate_wbuf(e, p) ELSE e
             at == Place(p, q.version, <<s.pg[p].allocated, Len(s.pg[p].wbuf) + 1>>)
             t == [s EXCEPT !.pg[p].wbuf = Append(@, wr[x].item), !.pg[p].objs = @ + 1]
  <2>1. Engine(s) /\ Calm(e, s)
    <3>1. Engine(e) /\ Calm(e, e)
      BY DEF TypeInv, Calm
    <3>2. Engine(submit_wbuf(e, p)) /\ Calm(e, submit_wbuf(e, p))
      BY <3>1, SubmitWbufCalm
    <3>3. Engine(allocate_wbuf(e, p)) /\ Calm(e, allocate_wbuf(e, p))
      BY <3>1, AllocateWbufCalm
    <3> QED BY <3>1, <3>2, <3>3
  <2>2. p \in Pages
    BY Zenon, <1>7 DEF RequestWrite, TypeInv, WritersOK
  <2>3. (e' = t /\ wr' = Wrote(x, at)) \/ (e' = s /\ wr' = Refused(x))
    BY Zenon, <1>7 DEF RequestWrite
  <2>4. PlaceOK(at)
    BY <2>2 DEF PlaceOK, Place, PlaceFields
  <2> HIDE DEF s, at
  <2>5. Engine(t) /\ Calm(e, t)
    <3> DEFINE n == [s.pg[p] EXCEPT !.wbuf = Append(@, wr[x].item), !.objs = @ + 1]
    <3>1. DOMAIN t = EngineFields /\ t.free = s.free /\ t.bucket = s.bucket /\ t.queue = s.queue
          /\ t.pg = [s.pg EXCEPT ![p].wbuf = Append(@, wr[x].item), ![p].objs = @ + 1]
      BY <2>1 DEF Engine, EngineFields
    <3>2. t.pg = [s.pg EXCEPT ![p] = n]
      BY Zenon, <2>1, <3>1 DEF Engine
    <3>3. p \in Pages => DOMAIN n = PageFields /\ n.ref = s.pg[p].ref
            /\ n.version = s.pg[p].version /\ n.free = s.pg[p].free
      BY <2>1 DEF Engine, PageFields, FreePage
    <3>4. DOMAIN t = EngineFields /\ t.free = s.free /\ t.bucket = s.bucket /\ t.queue = s.queue
      BY <3>1
    <3> HIDE DEF t, n, p
    <3>5. Engine(t) /\ Calm(s, t)
      BY <2>1, <3>2, <3>3, <3>4, PageCalm
    <3> QED BY <2>1, <3>5, CalmTwice
  <2> HIDE DEF t
  <2>6. CASE e' = t /\ wr' = Wrote(x, at)
    <3> DEFINE w == [wr[x] EXCEPT !.pc = "ok", !.at = at]
    <3>1. wr' = [wr EXCEPT ![x] = w] /\ DOMAIN w = DOMAIN NoWrite /\ w.pc = "ok" /\ w.at = at
      BY <1>1, <2>6 DEF Wrote, NoWrite
    <3> HIDE DEF w
    <3>2. WritersOK'
      BY <1>2, <2>4, <3>1
    <3> QED BY <1>1, <2>5, <2>6, <3>2, TypeFrames, EngineIs DEF Settled, TypeInv
  <2>7. CASE e' = s /\ wr' = Refused(x)
    BY <1>1, <1>3, <2>1, <2>7, TypeFrames, EngineIs DEF Settled, TypeInv
  <2> QED BY <2>3, <2>6, <2>7
<1> QED BY <1>4, <1>5, <1>6, <1>7 DEF Request

\* A writer that has done, or begins again, has no page.
LEMMA WriterReset ==
  ASSUME TypeInv, NEW x \in Writers,
         wr' = [wr EXCEPT ![x] = NoWrite] \/ \E k, i : wr' = Requested(x, k, i)
  PROVE  WritersOK'
<1>1. PICK w : wr' = [wr EXCEPT ![x] = w] /\ DOMAIN w = DOMAIN NoWrite /\ w.pc \notin {"page", "full", "ok"}
  <2>1. CASE wr' = [wr EXCEPT ![x] = NoWrite]
    <3>1. NoWrite.pc = "idle"
      BY DEF NoWrite
    <3> QED BY <2>1, <3>1
  <2>2. ASSUME NEW k, NEW i, wr' = Requested(x, k, i)
        PROVE  \E w : wr' = [wr EXCEPT ![x] = w] /\ DOMAIN w = DOMAIN NoWrite /\ w.pc \notin {"page", "full", "ok"}
    <3> DEFINE w == [NoWrite EXCEPT !.pc = "request", !.key = k, !.item = i]
    <3>1. wr' = [wr EXCEPT ![x] = w] /\ DOMAIN w = DOMAIN NoWrite /\ w.pc = "request"
      BY Zenon, <2>2 DEF Requested, NoWrite
    <3> HIDE DEF w
    <3> QED BY <3>1
  <2> QED BY <2>1, <2>2
<1> QED BY <1>1 DEF TypeInv, WritersOK, PlaceOK

\* A header that moves to another place of some page.
LEMMA HdrMoves ==
  ASSUME TypeInv, NEW h, NEW n, hdr' = [hdr EXCEPT ![h] = n],
         h \in DOMAIN hdr => DOMAIN n = PlaceFields \cup {"val"} /\ n.page \in Pages
  PROVE  HdrOK' /\ DOMAIN hdr' = DOMAIN hdr
<1>1. PICK S : hdr \in Seq(S) /\ \A x \in S : DOMAIN x = PlaceFields \cup {"val"} /\ x.page \in Pages
  BY DEF TypeInv, HdrOK
<1>2. CASE h \in DOMAIN hdr
  <2> DEFINE U == S \cup {n}
  <2>1. hdr \in Seq(U) /\ n \in U /\ \A x \in U : DOMAIN x = PlaceFields \cup {"val"} /\ x.page \in Pages
    BY <1>1, <1>2, SeqMonotonic
  <2> HIDE DEF U
  <2>2. hdr' \in Seq(U)
    BY <1>2, <2>1, ExceptSeq
  <2> QED BY <2>1, <2>2 DEF HdrOK
<1>3. CASE h \notin DOMAIN hdr
  <2>1. hdr = [i \in 1 .. Len(hdr) |-> hdr[i]] /\ DOMAIN hdr = 1 .. Len(hdr)
    BY <1>1
  <2>2. hdr' = hdr
    BY <1>3, <2>1
  <2> QED BY <1>1, <2>2 DEF HdrOK
<1> QED BY <1>2, <1>3

\* The header that storage_write puts in the item's place names the page
\* written.
LEMMA StorageWrittenSettles ==
  ASSUME TypeInv, StorageWritten
  PROVE  Settled
<1> DEFINE x == wr["write"]
           n == [page |-> x.at.page, version |-> x.at.version, off |-> x.at.off, val |-> x.item.val]
<1>1. UNCHANGED <<e, io, mt, cp, get>> /\ WritersOK'
  BY WriterReset DEF StorageWritten, Writers
<1>2. CASE x.pc = "ok"
  <2>1. hdr' = Append(hdr, n) /\ table' = [table EXCEPT ![x.key] = InHdr(Len(hdr'))]
    BY <1>2 DEF StorageWritten
  <2>2. PlaceOK(x.at)
    BY <1>2 DEF TypeInv, WritersOK, Writers
  <2>3. DOMAIN n = PlaceFields \cup {"val"} /\ n.page \in Pages
    BY <2>2 DEF PlaceOK, PlaceFields
  <2> HIDE DEF n
  <2>4. PICK S : hdr \in Seq(S) /\ \A h \in S : DOMAIN h = PlaceFields \cup {"val"} /\ h.page \in Pages
    BY DEF TypeInv, HdrOK
  <2> DEFINE U == S \cup {n}
  <2>5. hdr \in Seq(U) /\ n \in U /\ \A h \in U : DOMAIN h = PlaceFields \cup {"val"} /\ h.page \in Pages
    BY <2>3, <2>4, SeqMonotonic
  <2> HIDE DEF U
  <2>6. hdr' \in Seq(U) /\ Len(hdr') = Len(hdr) + 1 /\ Len(hdr) \in Nat
        /\ DOMAIN hdr' = 1 .. Len(hdr') /\ DOMAIN hdr = 1 .. Len(hdr)
    BY <2>1, <2>5, AppendProperties
  <2>7. HdrOK'
    BY <2>5, <2>6 DEF HdrOK
  <2>8. Len(hdr') \in DOMAIN hdr' /\ DOMAIN hdr \subseteq DOMAIN hdr'
    BY <2>6
  <2>9. TableOK'
    <3>1. DOMAIN table' = Keys /\ \A k \in Keys : table'[k] = table[k] \/ table'[k] = InHdr(Len(hdr'))
      BY <2>1 DEF TypeInv, TableOK
    <3> QED BY <2>8, <3>1 DEF TypeInv, TableOK, IsHdr, InHdr
  <2>10. GetsOK'
    BY <1>1, <2>8 DEF TypeInv, GetsOK, PlaceOK
  <2> QED BY <1>1, <2>7, <2>9, <2>10, TypeFrames, CalmSelf DEF Settled, TypeInv
<1>3. CASE x.pc # "ok"
  <2>1. UNCHANGED <<hdr, table>>
    BY <1>3 DEF StorageWritten
  <2> QED BY <1>1, <2>1, TypeFrames, CalmSelf DEF Settled, TypeInv
<1> QED BY <1>2, <1>3

\* A request that leaves its queue.
LEMMA PoppedCalm ==
  ASSUME TypeInv, NEW t \in IoThreads, e.queue[t] # <<>>
  PROVE  Engine(Popped(t)) /\ Calm(e, Popped(t)) /\ Popped(t).pg = e.pg
         /\ (Head(e.queue[t]).mode = "R" => Head(e.queue[t]).at.page \in Pages)
<1> DEFINE s == Popped(t)
<1>1. /\ DOMAIN s = EngineFields /\ s.free = e.free /\ s.bucket = e.bucket /\ s.pg = e.pg
      /\ s.queue = [e.queue EXCEPT ![t] = Tail(@)]
  BY DEF TypeInv, Engine, EngineFields, Popped
<1>2. PICK S : e.queue[t] \in Seq(S) /\ \A r \in S : r.mode = "R" => r.at.page \in Pages
  BY DEF TypeInv, Engine, Requests
<1>3. Tail(e.queue[t]) \in Seq(S) /\ Head(e.queue[t]) \in S
  BY <1>2
<1>4. Requests(Tail(e.queue[t]))
  BY <1>2, <1>3 DEF Requests
<1> HIDE DEF s
<1>5. DOMAIN s.queue = IoThreads /\ \A u \in IoThreads : Requests(s.queue[u])
  BY <1>1, <1>4 DEF TypeInv, Engine
<1>6. Engine(s)
  BY <1>1, <1>5 DEF TypeInv, Engine
<1>7. Calm(e, s)
  BY <1>1 DEF Calm
<1> QED BY <1>1, <1>2, <1>3, <1>6, <1>7 DEF s

\* A write, a read from the buffer and a miss hold no page over a step.
LEMMA IoSettles ==
  ASSUME TypeInv, NEW t \in IoThreads, IoMiss(t) \/ IoBuffer(t) \/ IoWrite(t)
  PROVE  Settled
<1> DEFINE s == Popped(t)
<1>1. Engine(s) /\ Calm(e, s)
  BY Zenon, PoppedCalm DEF IoMiss, IoBuffer, IoWrite
<1>2. UNCHANGED <<mt, io, table, hdr, wr>>
  BY Zenon DEF IoMiss, IoBuffer, IoWrite, Io
<1>3. ASSUME IoMiss(t) PROVE Settled
  <2>1. GetsOK' /\ CompactorOK'
    BY <1>2, <1>3, CallbackKeeps DEF IoMiss
  <2>2. e' = s
    BY <1>3 DEF IoMiss
  <2> QED BY <1>1, <1>2, <2>1, <2>2, TypeFrames, EngineIs DEF Settled, TypeInv
<1>4. ASSUME IoBuffer(t) PROVE Settled
  <2>1. GetsOK' /\ CompactorOK'
    BY Zenon, <1>2, <1>4, CallbackKeeps DEF IoBuffer
  <2>2. \E v : e' = [s EXCEPT !.failed = v]
    BY Zenon, <1>4 DEF IoBuffer
  <2> HIDE DEF s
  <2>3. \A v : Engine([s EXCEPT !.failed = v]) /\ Calm(e, [s EXCEPT !.failed = v])
    BY <1>1 DEF Engine, EngineFields, Calm
  <2> QED BY <1>2, <2>1, <2>2, <2>3, TypeFrames, EngineIs DEF Settled, TypeInv
<1>5. ASSUME IoWrite(t) PROVE Settled
  <2> DEFINE p == Head(e.queue[t]).at.page
             d == [s EXCEPT !.disk[p][e.pg[p].written + 1] = e.pg[p].wbuf]
  <2>1. e' = wbuf_cb(d, p) /\ UNCHANGED <<get, cp>>
    BY Zenon, <1>5 DEF IoWrite
  <2> HIDE DEF s
  <2>2. Engine(d) /\ Calm(e, d)
    BY <1>1 DEF Engine, EngineFields, Calm
  <2> HIDE DEF d, p
  <2>3. PICK u : u = wbuf_cb(d, p) /\ Engine(u) /\ Calm(e, u)
    BY <2>2, WbufCbCalm, CalmTwice
  <2> QED BY <1>2, <2>1, <2>3, TypeFrames, EngineIs DEF Settled, TypeInv
<1> QED BY <1>3, <1>4, <1>5

\* Changing headers in their place leaves who refers to them alone.
LEMMA HdrDomain ==
  ASSUME TypeInv, DOMAIN hdr' = DOMAIN hdr, UNCHANGED <<table, get>>
  PROVE  TableOK' /\ GetsOK'
BY DEF TypeInv, TableOK, IsHdr, GetsOK, PlaceOK

\* While it compacts a page the compactor keeps to it.
LEMMA CompactorKeeps ==
  ASSUME TypeInv, DOMAIN cp' = DOMAIN cp, cp'.on = cp.on, cp'.page = cp.page
  PROVE  CompactorOK'
BY DEF TypeInv, CompactorOK

CpFields == {"pc", "on", "page", "version", "w", "done", "submitted", "miss", "buf", "n", "h", "tries"}

\* The fields of the compactor's locals.
LEMMA CpDomain == TypeInv => DOMAIN cp = CpFields
BY DEF TypeInv, CompactorOK, NotCompacting, CpFields

\* The compactor's request for a part of its page is calm.
LEMMA AskCalm ==
  ASSUME TypeInv, NEW x, x.page \in Pages
  PROVE  /\ Engine(extstore_run_maint(Ask(x))) /\ Calm(e, extstore_run_maint(Ask(x)))
<1> DEFINE req == [mode |-> "R", at |-> Place(x.page, x.version, <<x.w, 0>>), who |-> "compact"]
<1>1. req.at.page \in Pages
  BY DEF Place
<1>2. Ask(x) = extstore_submit(e, req)
  BY DEF Ask
<1> HIDE DEF req
<1>3. PICK s : s = Ask(x) /\ Engine(s) /\ Calm(e, s)
  BY <1>1, <1>2, SubmitCalm DEF TypeInv
<1> QED BY <1>3, RunMaintCalm, CalmTwice

\* The turns of the compactor's loop.
LEMMA CompactTurnSettles ==
  ASSUME TypeInv,
         (\E p \in Pages : CompactStart(p)) \/ CompactIdle \/ CompactSubmit \/ CompactEnd \/ ReadbackBegin \/ ReadbackEnd
  PROVE  Settled
<1>1. UNCHANGED <<mt, io, table, get, hdr, wr>>
  BY Zenon DEF CompactStart, CompactIdle, CompactSubmit, CompactEnd, ReadbackBegin, ReadbackEnd, Compacting
<1>2. DOMAIN cp = CpFields
  BY CpDomain
<1>3. ASSUME NEW p \in Pages, CompactStart(p) PROVE Settled
  <2> DEFINE x == [NotCompacting EXCEPT !.on = TRUE, !.page = p, !.version = pdata[p], !.submitted = TRUE]
  <2>1. cp' = x /\ e' = extstore_run_maint(Ask(x))
    BY Zenon, <1>3 DEF CompactStart
  <2>2. DOMAIN x = DOMAIN NotCompacting /\ x.page = p
    BY DEF NotCompacting
  <2> HIDE DEF x
  <2>3. PICK s : s = extstore_run_maint(Ask(x)) /\ Engine(s) /\ Calm(e, s)
    BY <2>2, AskCalm
  <2>4. CompactorOK'
    BY <2>1, <2>2 DEF CompactorOK
  <2> QED BY <1>1, <2>1, <2>3, <2>4, TypeFrames, EngineIs DEF Settled, TypeInv
<1>4. ASSUME CompactIdle PROVE Settled
  <2>1. PICK s : s = extstore_run_maint(e) /\ Engine(s) /\ Calm(e, s)
    BY RunMaintCalm DEF TypeInv
  <2>2. e' = s /\ cp' = cp
    BY <1>4, <2>1 DEF CompactIdle
  <2> QED BY <1>1, <2>1, <2>2, TypeFrames, EngineIs DEF Settled, TypeInv
<1>5. ASSUME CompactSubmit PROVE Settled
  <2>1. PICK s : s = extstore_run_maint(Ask(cp)) /\ Engine(s) /\ Calm(e, s)
    BY <1>5, AskCalm DEF CompactSubmit, TypeInv, CompactorOK
  <2>2. e' = s /\ cp' = [cp EXCEPT !.submitted = TRUE, !.miss = FALSE]
    BY <1>5, <2>1 DEF CompactSubmit
  <2>3. CompactorOK'
    BY <1>2, <2>2, CompactorKeeps DEF CpFields
  <2> QED BY <1>1, <2>1, <2>2, <2>3, TypeFrames, EngineIs DEF Settled, TypeInv
<1>6. ASSUME CompactEnd PROVE Settled
  <2>1. PICK s : s = extstore_close_page(e, Reading) /\ Engine(s) /\ Calm(e, s)
    BY ClosePageCalm DEF TypeInv
  <2>2. PICK u : (u = extstore_run_maint(s) \/ u = extstore_run_maint(e)) /\ e' = u
    BY <1>6, <2>1 DEF CompactEnd
  <2>3. Engine(u) /\ Calm(e, u)
    BY <2>1, <2>2, RunMaintCalm, CalmTwice DEF TypeInv
  <2>4. CompactorOK'
    BY <1>6 DEF CompactEnd, CompactorOK, NotCompacting
  <2> QED BY <1>1, <2>2, <2>3, <2>4, TypeFrames, EngineIs DEF Settled, TypeInv
<1>7. ASSUME ReadbackBegin PROVE Settled
  <2>1. e' = e /\ cp' = [cp EXCEPT !.pc = "entry", !.n = 1]
    BY <1>7 DEF ReadbackBegin
  <2>2. CompactorOK'
    BY <1>2, <2>1, CompactorKeeps DEF CpFields
  <2> QED BY <1>1, <2>1, <2>2, TypeFrames, CalmSelf DEF Settled, TypeInv
<1>8. ASSUME ReadbackEnd PROVE Settled
  <2>1. PICK s : s = extstore_run_maint(e) /\ Engine(s) /\ Calm(e, s)
    BY RunMaintCalm DEF TypeInv
  <2>2. e' = s /\ cp' = [cp EXCEPT !.pc = "top", !.w = @ + 1, !.done = FALSE, !.submitted = FALSE, !.buf = <<>>]
    BY <1>8, <2>1 DEF ReadbackEnd
  <2>3. CompactorOK'
    BY <1>2, <2>2, CompactorKeeps DEF CpFields
  <2> QED BY <1>1, <2>1, <2>2, <2>3, TypeFrames, EngineIs DEF Settled, TypeInv
<1> QED BY <1>3, <1>4, <1>5, <1>6, <1>7, <1>8

\* The items of a buffer that was read back.
LEMMA CompactItemSettles ==
  ASSUME TypeInv,
         (\E drop \in BOOLEAN : Readback(drop)) \/ RescueFails \/ RescuePage \/ RescueOffset
  PROVE  Settled
<1>1. UNCHANGED <<mt, io, table, get>>
  BY Zenon DEF Readback, RescueFails, RescuePage, RescueOffset, Compacting
<1>2. DOMAIN cp = CpFields /\ "compact" \in Writers
  BY CpDomain DEF Writers
<1>3. DOMAIN Passed = CpFields /\ Passed.on = cp.on /\ Passed.page = cp.page
  BY <1>2 DEF Passed, CpFields
<1>4. ASSUME NEW drop \in BOOLEAN, Readback(drop) PROVE Settled
  <2>1. PICK s : s = extstore_delete(e, Reading) /\ Engine(s) /\ Calm(e, s)
    BY DeleteCalm DEF TypeInv
  <2>2. (e' = s \/ e' = e) /\ hdr' = hdr
    BY Zenon, <1>4, <2>1 DEF Readback
  <2>3. PICK h : h = table[cp.buf[cp.n].key].val
    OBVIOUS
  <2>4. CompactorOK'
    <3>1. cp' = Passed \/ cp' = [cp EXCEPT !.pc = "write", !.h = h, !.tries = Tries]
      BY <1>4, <2>3, Zenon DEF Readback
    <3>2. CASE cp' = Passed
      BY <1>2, <1>3, <3>2, CompactorKeeps
    <3>3. CASE cp' = [cp EXCEPT !.pc = "write", !.h = h, !.tries = Tries]
      <4>1. DOMAIN cp' = CpFields /\ cp'.on = cp.on /\ cp'.page = cp.page
        BY <1>2, <3>3 DEF CpFields
      <4> QED BY <1>2, <4>1, CompactorKeeps
    <3> QED BY <3>1, <3>2, <3>3
  <2>5. wr' = wr \/ \E k, i : wr' = Requested("compact", k, i)
    BY Zenon, <1>4 DEF Readback
  <2>6. WritersOK'
    BY <1>2, <2>5, WriterReset, TypeFrames
  <2>7. Engine(e)' /\ Calm(e, e')
    BY <2>1, <2>2, EngineIs DEF TypeInv, Calm
  <2> QED BY <1>1, <2>2, <2>4, <2>6, <2>7, TypeFrames DEF Settled, TypeInv
<1>5. ASSUME RescueFails PROVE Settled
  <2>1. UNCHANGED <<e, hdr>>
    BY <1>5 DEF RescueFails
  <2>2. cp' = Passed \/ cp' = [cp EXCEPT !.tries = @ - 1]
    BY <1>5 DEF RescueFails
  <2>3. DOMAIN cp' = CpFields /\ cp'.on = cp.on /\ cp'.page = cp.page
    BY <1>2, <1>3, <2>2 DEF CpFields
  <2>4. wr' = [wr EXCEPT !["compact"] = NoWrite] \/ \E k, i : wr' = Requested("compact", k, i)
    BY <1>5 DEF RescueFails
  <2>5. WritersOK' /\ CompactorOK'
    BY <1>2, <2>3, <2>4, WriterReset, CompactorKeeps
  <2> QED BY <1>1, <2>1, <2>5, TypeFrames, CalmSelf DEF Settled, TypeInv
<1>6. ASSUME RescuePage PROVE Settled
  <2> DEFINE x == wr["compact"]
             h == cp.h
             n == [hdr[h] EXCEPT !.page = x.at.page, !.version = x.at.version]
  <2>1. PlaceOK(x.at) /\ e' = e
    BY <1>2, <1>6 DEF RescuePage, TypeInv, WritersOK
  <2>2. CASE x.item.solo
    <3>1. /\ hdr' = [hdr EXCEPT ![h].page = x.at.page, ![h].version = x.at.version]
          /\ cp' = [cp EXCEPT !.pc = "offset"] /\ wr' = wr
      BY <1>6, <2>2 DEF RescuePage
    <3> HIDE DEF h
    <3>2. hdr' = [hdr EXCEPT ![h] = n]
      <4>1. PICK a, b : a = x.at.page /\ b = x.at.version
        OBVIOUS
      <4>2. hdr' = [hdr EXCEPT ![h].page = a, ![h].version = b] /\ n = [hdr[h] EXCEPT !.page = a, !.version = b]
        BY <3>1, <4>1
      <4>3. \E S : hdr \in Seq(S)
        BY DEF TypeInv, HdrOK
      <4> HIDE DEF n
      <4> QED BY <4>2, <4>3
    <3>3. h \in DOMAIN hdr => DOMAIN n = PlaceFields \cup {"val"} /\ n.page \in Pages
      BY <2>1, HdrPlace DEF PlaceOK, PlaceFields
    <3> HIDE DEF n
    <3>4. HdrOK' /\ TableOK' /\ GetsOK'
      BY <1>1, <3>2, <3>3, HdrMoves, HdrDomain
    <3>5. CompactorOK'
      BY <1>2, <3>1, CompactorKeeps DEF CpFields
    <3> QED BY <1>1, <2>1, <3>1, <3>4, <3>5, TypeFrames, CalmSelf DEF Settled, TypeInv
  <2>3. CASE ~x.item.solo
    <3>1. cp' = Passed /\ wr' = [wr EXCEPT !["compact"] = NoWrite] /\ hdr' = hdr
      BY <1>6, <2>3 DEF RescuePage
    <3>2. WritersOK' /\ CompactorOK'
      BY <1>2, <1>3, <3>1, WriterReset, CompactorKeeps
    <3> QED BY <1>1, <2>1, <3>1, <3>2, TypeFrames, CalmSelf DEF Settled, TypeInv
  <2> QED BY <2>2, <2>3
<1>7. ASSUME RescueOffset PROVE Settled
  <2> DEFINE x == wr["compact"]
             h == cp.h
             n == [hdr[h] EXCEPT !.off = x.at.off]
  <2>1. /\ hdr' = [hdr EXCEPT ![h] = n] /\ e' = e
        /\ cp' = Passed /\ wr' = [wr EXCEPT !["compact"] = NoWrite]
    BY <1>7 DEF RescueOffset
  <2> HIDE DEF h
  <2>2. h \in DOMAIN hdr => DOMAIN n = PlaceFields \cup {"val"} /\ n.page \in Pages
    BY HdrPlace DEF PlaceFields
  <2> HIDE DEF n
  <2>3. HdrOK' /\ TableOK' /\ GetsOK'
    BY <1>1, <2>1, <2>2, HdrMoves, HdrDomain
  <2>4. WritersOK' /\ CompactorOK'
    BY <1>2, <1>3, <2>1, WriterReset, CompactorKeeps
  <2> QED BY <1>1, <2>1, <2>3, <2>4, TypeFrames, CalmSelf DEF Settled, TypeInv
<1> QED BY <1>4, <1>5, <1>6, <1>7

-----------------------------------------------------------------------------
(* References, free lists and the pages that are held *)

\* What a free list has in it is a free page of its device.
LEMMA FreeEntries ==
  ASSUME TypeInv, FreeListed, NEW b \in Buckets, NEW i \in DOMAIN e.free[b]
  PROVE  e.free[b][i] \in Pages /\ FreeBucket[e.free[b][i]] = b /\ e.pg[e.free[b][i]].free
BY DEF TypeInv, Engine, FreeListed

\* A page is taken from the free list: nobody held it, the pass did not choose it.
LEMMA SettledHeld ==
  ASSUME IInv, Settled
  PROVE  FreeListed' /\ RefsCounted' /\ HeldInUse' /\ LowInUse'
<1> USE DEF IInv
<1>1. UNCHANGED <<io, mt>> /\ \A p : Holders(p)' = Holders(p)
  BY DEF Settled, Holders
<1>2. CASE Calm(e, e')
  <2>1. FreeListed'
    BY <1>2, FreeEntries DEF Calm, FreeListed
  <2>2. RefsCounted'
    BY <1>1, <1>2 DEF Calm, RefsCounted
  <2>3. HeldInUse'
    BY <1>1, <1>2 DEF Calm, HeldInUse, TypeInv, IoOK
  <2>4. LowInUse'
    BY <1>1, <1>2 DEF Calm, LowInUse, TypeInv, PassOK
  <2> QED BY <2>1, <2>2, <2>3, <2>4
<1>3. CASE Taken(e, e')
  <2>1. PICK f \in Buckets :
          /\ e.free[f] # <<>> /\ e'.free = [e.free EXCEPT ![f] = Tail(@)]
          /\ \A p \in Pages : e'.pg[p].ref = e.pg[p].ref
          /\ ~e'.pg[Head(e.free[f])].free
          /\ \A p \in Pages \ {Head(e.free[f])} : e'.pg[p].version = e.pg[p].version /\ e'.pg[p].free = e.pg[p].free
    BY <1>3 DEF Taken
  <2>2. PICK p : p = Head(e.free[f])
    OBVIOUS
  <2>3. e.free[f] \in Seq(Pages) /\ IsInjective(e.free[f])
    BY DEF TypeInv, Engine, FreeListed
  <2>4. /\ Tail(e.free[f]) \in Seq(Pages) /\ IsInjective(Tail(e.free[f])) /\ p \in Pages
        /\ \A i \in DOMAIN Tail(e.free[f]) : Tail(e.free[f])[i] # p /\ \E j \in DOMAIN e.free[f] : Tail(e.free[f])[i] = e.free[f][j]
    BY <2>1, <2>2, <2>3, TailOnce
  <2>5. e.pg[p].free /\ FreeBucket[p] = f
    <3>1. p = e.free[f][1] /\ 1 \in DOMAIN e.free[f]
      BY <2>1, <2>2, <2>3
    <3> QED BY <3>1, FreeEntries
  <2>6. FreeListed'
    <3> SUFFICES ASSUME NEW b \in Buckets
                 PROVE  IsInjective(e'.free[b]) /\ \A i \in DOMAIN e'.free[b] : FreeBucket[e'.free[b][i]] = b /\ e'.pg[e'.free[b][i]].free
      BY DEF FreeListed
    <3>1. DOMAIN e.free = Buckets
      BY Zenon DEF TypeInv, Engine
    <3>2. CASE b = f
      <4>1. e'.free[b] = Tail(e.free[f])
        BY <2>1, <3>1, <3>2
      <4>2. ASSUME NEW i \in DOMAIN Tail(e.free[f])
            PROVE  FreeBucket[Tail(e.free[f])[i]] = b /\ e'.pg[Tail(e.free[f])[i]].free
        <5>1. PICK j \in DOMAIN e.free[f] : Tail(e.free[f])[i] = e.free[f][j]
          BY <2>4
        <5>2. e.free[f][j] \in Pages \ {p} /\ FreeBucket[e.free[f][j]] = f /\ e.pg[e.free[f][j]].free
          BY <2>4, <5>1, FreeEntries
        <5> QED BY <2>1, <2>2, <3>2, <5>1, <5>2
      <4> QED BY <2>4, <4>1, <4>2
    <3>3. CASE b # f
      <4>1. e'.free[b] = e.free[b]
        BY <2>1, <3>1, <3>3
      <4>2. \A i \in DOMAIN e.free[b] : e.free[b][i] \in Pages \ {p}
        BY <2>5, <3>3, FreeEntries
      <4>3. \A i \in DOMAIN e.free[b] : FreeBucket[e.free[b][i]] = b /\ e'.pg[e.free[b][i]].free
        BY <2>1, <2>2, <4>2, FreeEntries
      <4> QED BY <4>1, <4>3 DEF FreeListed
    <3> QED BY <3>2, <3>3
  <2>7. RefsCounted'
    BY Zenon, <1>1, <2>1 DEF RefsCounted
  <2>8. HeldInUse'
    <3>1. \A t \in IoThreads : io[t].pc # "wait" => io[t].req.at.page \in Pages \ {p}
      BY <2>5 DEF HeldInUse, TypeInv, IoOK
    <3> QED BY <1>1, <2>1, <2>2, <3>1 DEF HeldInUse
  <2>9. LowInUse'
    <3>1. mt.low # NULL => mt.low \in Pages \ {p}
      BY <2>5 DEF LowInUse, TypeInv, PassOK
    <3> QED BY <1>1, <2>1, <2>2, <3>1 DEF LowInUse
  <2> QED BY <2>6, <2>7, <2>8, <2>9
<1> QED BY <1>2, <1>3 DEF Settled

-----------------------------------------------------------------------------
(* The I/O threads take and give up references *)

\* Finitely many threads hold a page.
LEMMA HoldersFinite == \A p : IsFiniteSet(Holders(p)) /\ Cardinality(Holders(p)) \in Nat
<1>1. \A p : Holders(p) \in SUBSET IoThreads
  BY DEF Holders
<1> QED BY <1>1, MemExtAssumption, FS_Subset, FS_CardinalityType

\* A reference that is counted keeps shapes and everything else of the pages.
LEMMA RefStep ==
  ASSUME NEW s, Engine(s), s.pg = e.pg, s.free = e.free, NEW p \in Pages, NEW n,
         e' = [s EXCEPT !.pg[p].ref = n]
  PROVE  /\ Engine(e)' /\ e'.free = e.free /\ e'.pg[p].ref = n
         /\ \A r \in Pages : e'.pg[r].version = e.pg[r].version /\ e'.pg[r].free = e.pg[r].free
         /\ \A r \in Pages \ {p} : e'.pg[r].ref = e.pg[r].ref
<1>1. /\ DOMAIN e' = EngineFields /\ e'.free = s.free /\ e'.bucket = s.bucket /\ e'.queue = s.queue
      /\ e'.pg = [s.pg EXCEPT ![p] = [@ EXCEPT !.ref = n]]
  BY DEF Engine, EngineFields
<1>2. DOMAIN e'.pg = Pages /\ \A r \in Pages : e'.pg[r] = IF r = p THEN [s.pg[r] EXCEPT !.ref = n] ELSE s.pg[r]
  BY <1>1 DEF Engine
<1>3. \A r \in Pages : /\ DOMAIN e'.pg[r] = PageFields
                       /\ e'.pg[r].version = s.pg[r].version /\ e'.pg[r].free = s.pg[r].free
  BY <1>2 DEF Engine, PageFields, FreePage
<1>4. e'.pg[p].ref = n
  BY <1>2 DEF Engine, PageFields, FreePage
<1>5. Engine(e)'
  BY <1>1, <1>2, <1>3 DEF Engine, Requests
<1> QED BY <1>1, <1>2, <1>3, <1>4, <1>5

\* With the references of one page changed the free lists and the pass stay.
LEMMA RefFrames ==
  ASSUME IInv, e'.free = e.free, mt' = mt,
         \A r \in Pages : e'.pg[r].version = e.pg[r].version /\ e'.pg[r].free = e.pg[r].free
  PROVE  FreeListed' /\ LowInUse'
<1>1. FreeListed'
  BY FreeEntries DEF IInv, FreeListed
<1>2. LowInUse'
  BY DEF IInv, LowInUse, TypeInv, PassOK
<1> QED BY <1>1, <1>2

\* An I/O thread that finds the page readable counts itself and holds it.
LEMMA HoldStep ==
  ASSUME IInv, NEW t \in IoThreads, IoHold(t) PROVE IInv'
<1>0. PICK req, p : req = Head(e.queue[t]) /\ p = req.at.page
  OBVIOUS
<1>1. /\ io[t].pc = "wait" /\ e.queue[t] # <<>> /\ req.mode = "R" /\ Readable(req.at)
      /\ e' = [Popped(t) EXCEPT !.pg[p].ref = @ + 1]
      /\ io' = [io EXCEPT ![t] = [pc |-> "pread", req |-> req]]
      /\ UNCHANGED <<mt, table, hdr, wr, get, cp>>
  BY Zenon, <1>0 DEF IoHold, IoIs, Io
<1>2. Engine(Popped(t)) /\ Popped(t).pg = e.pg /\ Popped(t).free = e.free /\ p \in Pages
  BY Zenon, <1>0, <1>1, PoppedCalm DEF IInv, Calm
<1>3. ~e.pg[p].free /\ e.pg[p].version = req.at.version
  BY Zenon, <1>0, <1>1 DEF Readable, SamePage
<1>4. /\ Engine(e)' /\ e'.free = e.free /\ e'.pg[p].ref = e.pg[p].ref + 1
      /\ \A r \in Pages : e'.pg[r].version = e.pg[r].version /\ e'.pg[r].free = e.pg[r].free
      /\ \A r \in Pages \ {p} : e'.pg[r].ref = e.pg[r].ref
  <2>1. e' = [Popped(t) EXCEPT !.pg[p].ref = e.pg[p].ref + 1]
    BY <1>1, <1>2 DEF Engine, EngineFields, PageFields, FreePage
  <2> QED BY <1>2, <2>1, RefStep
<1>5. DOMAIN io' = IoThreads /\ \A u \in IoThreads : io'[u] = IF u = t THEN [pc |-> "pread", req |-> req] ELSE io[u]
  BY <1>1 DEF IInv, TypeInv, IoOK
<1>6. TypeInv'
  <2>1. IoOK'
    BY <1>0, <1>2, <1>5 DEF IInv, TypeInv, IoOK
  <2> QED BY <1>1, <1>4, <2>1, TypeFrames DEF IInv, TypeInv
<1>7. Holders(p)' = Holders(p) \cup {t} /\ t \notin Holders(p) /\ \A r : r # p => Holders(r)' = Holders(r)
  <2>1. io'[t].pc = "pread" /\ io'[t].req.at.page = p /\ \A u \in IoThreads \ {t} : io'[u] = io[u]
    BY <1>0, <1>5
  <2>2. Holders(p)' = Holders(p) \cup {t}
    BY <1>1, <2>1 DEF Holders
  <2>3. t \notin Holders(p)
    BY <1>1 DEF Holders
  <2>4. \A r : r # p => Holders(r)' = Holders(r)
    BY <1>1, <2>1 DEF Holders
  <2> QED BY <2>2, <2>3, <2>4
<1>8. RefsCounted'
  <2>1. Cardinality(Holders(p)') = Cardinality(Holders(p)) + 1
    BY <1>7, HoldersFinite, FS_AddElement
  <2>2. \A r \in Pages : e.pg[r].ref = Cardinality(Holders(r))
    BY DEF IInv, RefsCounted
  <2>3. \A r \in Pages : e'.pg[r].ref = Cardinality(Holders(r)')
    BY <1>2, <1>4, <1>7, <2>1, <2>2
  <2> QED BY <2>3 DEF RefsCounted
<1>9. HeldInUse'
  <2> SUFFICES ASSUME NEW u \in IoThreads, io'[u].pc # "wait"
               PROVE  /\ ~e'.pg[io'[u].req.at.page].free
                      /\ e'.pg[io'[u].req.at.page].version = io'[u].req.at.version
    BY Zenon DEF HeldInUse
  <2>1. CASE u = t
    <3>1. io'[u].req.at.page = p /\ io'[u].req.at.version = req.at.version
      BY <1>0, <1>5, <2>1
    <3> QED BY <1>2, <1>3, <1>4, <3>1
  <2>2. CASE u # t
    BY <1>4, <1>5, <2>2 DEF IInv, TypeInv, IoOK, HeldInUse
  <2> QED BY Zenon, <2>1, <2>2
<1> QED BY <1>1, <1>4, <1>6, <1>8, <1>9, RefFrames DEF IInv

\* Reading from the device changes what the callback reports to, not the pages.
LEMMA ReadStep ==
  ASSUME IInv, NEW t \in IoThreads, IoRead(t) PROVE IInv'
<1>1. /\ io[t].pc = "pread" /\ io' = [io EXCEPT ![t] = [io[t] EXCEPT !.pc = "unref"]]
      /\ UNCHANGED <<e, mt, table, hdr, wr>>
  BY Zenon DEF IoRead, IoIs, Io
<1>2. GetsOK' /\ CompactorOK'
  BY <1>1, CallbackKeeps DEF IInv, IoRead
<1>3. DOMAIN io' = IoThreads /\ \A u \in IoThreads : io'[u] = IF u = t THEN [io[t] EXCEPT !.pc = "unref"] ELSE io[u]
  BY <1>1 DEF IInv, TypeInv, IoOK
<1>4. DOMAIN io'[t] = DOMAIN io[t] /\ io'[t].pc = "unref" /\ io'[t].req = io[t].req
  BY <1>3 DEF IInv, TypeInv, IoOK
<1>5. IoOK'
  BY <1>1, <1>3, <1>4 DEF IInv, TypeInv, IoOK
<1>6. \A r : Holders(r)' = Holders(r)
  BY <1>1, <1>3, <1>4 DEF Holders
<1>7. RefsCounted'
  BY Zenon, <1>1, <1>6 DEF IInv, RefsCounted
<1>8. HeldInUse'
  BY <1>1, <1>3, <1>4 DEF IInv, HeldInUse
<1> QED BY <1>1, <1>2, <1>5, <1>7, <1>8, TypeFrames, RefFrames DEF IInv, TypeInv

\* Giving up a reference counts one less and one holder less.
LEMMA UnrefStep ==
  ASSUME IInv, NEW t \in IoThreads, IoUnref(t) PROVE IInv'
<1>0. PICK p : p = io[t].req.at.page
  OBVIOUS
<1>1. /\ io[t].pc = "unref" /\ e' = [e EXCEPT !.pg[p].ref = @ - 1] /\ io' = [io EXCEPT ![t] = NoIo]
      /\ UNCHANGED <<mt, table, hdr, wr, get, cp>>
  BY Zenon, <1>0 DEF IoUnref, IoIs, Io
<1>2. p \in Pages
  BY <1>0, <1>1 DEF IInv, TypeInv, IoOK
<1>3. /\ Engine(e)' /\ e'.free = e.free /\ e'.pg[p].ref = e.pg[p].ref - 1
      /\ \A r \in Pages : e'.pg[r].version = e.pg[r].version /\ e'.pg[r].free = e.pg[r].free
      /\ \A r \in Pages \ {p} : e'.pg[r].ref = e.pg[r].ref
  <2>1. Engine(e)
    BY DEF IInv, TypeInv
  <2>2. e' = [e EXCEPT !.pg[p].ref = e.pg[p].ref - 1]
    BY <1>1, <1>2, <2>1 DEF Engine, EngineFields, PageFields, FreePage
  <2> QED BY <1>2, <2>1, <2>2, RefStep
<1>4. DOMAIN io' = IoThreads /\ \A u \in IoThreads : io'[u] = IF u = t THEN NoIo ELSE io[u]
  BY <1>1 DEF IInv, TypeInv, IoOK
<1>5. IoOK'
  BY <1>4 DEF IInv, TypeInv, IoOK, NoIo
<1>6. Holders(p)' = Holders(p) \ {t} /\ t \in Holders(p) /\ \A r : r # p => Holders(r)' = Holders(r)
  <2>1. io'[t].pc = "wait" /\ \A u \in IoThreads \ {t} : io'[u] = io[u]
    BY <1>4 DEF NoIo
  <2>2. Holders(p)' = Holders(p) \ {t}
    BY Zenon, <2>1 DEF Holders
  <2>3. t \in Holders(p)
    BY <1>0, <1>1 DEF Holders
  <2>4. \A r : r # p => Holders(r)' = Holders(r)
    BY <1>0, <2>1 DEF Holders
  <2> QED BY <2>2, <2>3, <2>4
<1>7. RefsCounted'
  <2>1. Cardinality(Holders(p)') = Cardinality(Holders(p)) - 1
    BY <1>6, HoldersFinite, FS_RemoveElement
  <2>2. \A r \in Pages : e.pg[r].ref = Cardinality(Holders(r))
    BY DEF IInv, RefsCounted
  <2>3. \A r \in Pages : e'.pg[r].ref = Cardinality(Holders(r)')
    BY <1>2, <1>3, <1>6, <2>1, <2>2
  <2> QED BY <2>3 DEF RefsCounted
<1>8. HeldInUse'
  BY <1>3, <1>4 DEF IInv, TypeInv, IoOK, HeldInUse, NoIo
<1> QED BY <1>1, <1>3, <1>5, <1>7, <1>8, TypeFrames, RefFrames DEF IInv, TypeInv

-----------------------------------------------------------------------------
(* The maintenance thread *)

\* A page that nobody holds goes back to its free list.
LEMMA GiveBackHeld ==
  ASSUME IInv, NEW s, Calm(e, s), NEW p \in Pages, ~e.pg[p].free, e.pg[p].ref = 0,
         e'.free = [s.free EXCEPT ![FreeBucket[p]] = <<p>> \o @],
         \A r \in Pages : e'.pg[r].ref = s.pg[r].ref,
         e'.pg[p].free = TRUE,
         \A r \in Pages \ {p} : e'.pg[r].version = s.pg[r].version /\ e'.pg[r].free = s.pg[r].free,
         io' = io
  PROVE  FreeListed' /\ RefsCounted' /\ HeldInUse'
<1> USE DEF IInv
<1>1. /\ e'.free = [e.free EXCEPT ![FreeBucket[p]] = <<p>> \o @]
      /\ \A r \in Pages : e'.pg[r].ref = e.pg[r].ref
      /\ \A r \in Pages \ {p} : e'.pg[r].version = e.pg[r].version /\ e'.pg[r].free = e.pg[r].free
  BY DEF Calm
<1>2. \A r : Holders(r)' = Holders(r)
  BY DEF Holders
<1>3. RefsCounted'
  BY Zenon, <1>1, <1>2 DEF RefsCounted
<1>4. HeldInUse'
  <2>1. Holders(p) = {}
    BY HoldersFinite, FS_EmptySet DEF RefsCounted
  <2>2. \A t \in IoThreads : io[t].pc # "wait" => io[t].req.at.page \in Pages \ {p}
    BY Zenon, <2>1 DEF Holders, TypeInv, IoOK
  <2>3. ASSUME NEW t \in IoThreads, io[t].pc # "wait"
        PROVE  ~e'.pg[io[t].req.at.page].free /\ e'.pg[io[t].req.at.page].version = io[t].req.at.version
    <3>1. PICK r \in Pages \ {p} : r = io[t].req.at.page
      BY <2>2, <2>3
    <3>2. ~e.pg[r].free /\ e.pg[r].version = io[t].req.at.version
      BY <2>3, <3>1 DEF HeldInUse
    <3> QED BY <1>1, <3>1, <3>2
  <2> QED BY <2>3 DEF HeldInUse
<1>5. FreeListed'
  <2> SUFFICES ASSUME NEW b \in Buckets
               PROVE  IsInjective(e'.free[b]) /\ \A i \in DOMAIN e'.free[b] : FreeBucket[e'.free[b][i]] = b /\ e'.pg[e'.free[b][i]].free
    BY Zenon DEF FreeListed
  <2>1. PICK q : q = e.free[b]
    OBVIOUS
  <2>2. q \in Seq(Pages) /\ IsInjective(q)
    BY <2>1 DEF TypeInv, Engine, FreeListed
  <2>3. \A i \in DOMAIN q : q[i] \in Pages \ {p} /\ FreeBucket[q[i]] = b /\ e.pg[q[i]].free
    BY <2>1, FreeEntries
  <2>4. \A i \in DOMAIN q : q[i] \in Pages \ {p} /\ FreeBucket[q[i]] = b /\ e'.pg[q[i]].free
    BY <1>1, <2>3
  <2>5. DOMAIN e.free = Buckets
    BY DEF TypeInv, Engine
  <2>6. CASE b = FreeBucket[p]
    <3>1. e'.free[b] = <<p>> \o q
      BY <1>1, <2>1, <2>5, <2>6
    <3>2. /\ IsInjective(<<p>> \o q)
          /\ \A i \in DOMAIN (<<p>> \o q) : (<<p>> \o q)[i] = p \/ \E j \in DOMAIN q : (<<p>> \o q)[i] = q[j]
      BY <2>2, <2>3, ConsOnce
    <3>3. \A i \in DOMAIN (<<p>> \o q) : FreeBucket[(<<p>> \o q)[i]] = b /\ e'.pg[(<<p>> \o q)[i]].free
      <4> SUFFICES ASSUME NEW i \in DOMAIN (<<p>> \o q)
                   PROVE  FreeBucket[(<<p>> \o q)[i]] = b /\ e'.pg[(<<p>> \o q)[i]].free
        OBVIOUS
      <4>1. PICK x : x = (<<p>> \o q)[i]
        OBVIOUS
      <4>2. x = p \/ \E j \in DOMAIN q : x = q[j]
        BY <3>2, <4>1
      <4>3. FreeBucket[x] = b /\ e'.pg[x].free
        BY <2>4, <2>6, <4>2
      <4> QED BY <4>1, <4>3
    <3> QED BY Zenon, <3>1, <3>2, <3>3
  <2>7. CASE b # FreeBucket[p]
    <3>1. e'.free[b] = q
      BY <1>1, <2>1, <2>5, <2>7
    <3> QED BY Zenon, <2>2, <2>4, <3>1
  <2> QED BY Zenon, <2>6, <2>7
<1> QED BY <1>3, <1>4, <1>5

\* A state of the pass, and a state of the signal that wakes the thread.
LEMMA MaintSet ==
  ASSUME NEW s, Engine(s), NEW v
  PROVE  /\ Engine([s EXCEPT !.maint = v]) /\ Calm(s, [s EXCEPT !.maint = v])
         /\ [s EXCEPT !.maint = v].pg = s.pg /\ [s EXCEPT !.maint = v].free = s.free
BY DEF Engine, EngineFields, Calm

\* A calm step keeps references, free lists and the pages that are held.
LEMMA CalmHeld ==
  ASSUME IInv, Calm(e, e'), io' = io
  PROVE  FreeListed' /\ RefsCounted' /\ HeldInUse'
<1>1. \A p : Holders(p)' = Holders(p)
  BY DEF Holders
<1>2. FreeListed'
  BY FreeEntries DEF IInv, Calm, FreeListed
<1>3. RefsCounted'
  BY Zenon, <1>1 DEF IInv, Calm, RefsCounted
<1>4. HeldInUse'
  BY DEF IInv, Calm, HeldInUse, TypeInv, IoOK
<1> QED BY <1>2, <1>3, <1>4

\* A pass begins with the pages of all devices, each once.
LEMMA MaintWakeStep == ASSUME IInv, MaintWake PROVE IInv'
<1>1. UNCHANGED <<io, table, hdr, wr, get, cp>>
  BY DEF MaintWake, Maintaining
<1>2. PICK s : s = [e EXCEPT !.maint = "scan"] /\ Engine(s) /\ Calm(e, s)
  BY MaintSet DEF IInv, TypeInv
<1>3. e' = s
  BY <1>2 DEF MaintWake
<1>4. Ascending(Pages) \in Seq(Pages) /\ IsInjective(Ascending(Pages))
  BY AscendingOnce
<1>5. DOMAIN mt' = DOMAIN NoPass /\ mt'.todo = Ascending(Pages) /\ mt'.low = NULL
  BY DEF MaintWake, NoPass
<1>6. PassOK' /\ LowInUse'
  BY <1>4, <1>5 DEF PassOK, LowInUse
<1>7. TypeInv'
  BY <1>1, <1>2, <1>3, <1>6, TypeFrames, EngineIs DEF IInv, TypeInv
<1>8. Calm(e, e')
  BY <1>2, <1>3
<1> QED BY <1>1, <1>6, <1>7, <1>8, CalmHeld DEF IInv

\* A page that the pass frees has no reference, and is not the one chosen
\* before.
LEMMA MaintPageStep == ASSUME IInv, MaintPage PROVE IInv'
<1>1. PICK p, q : p = Head(mt.todo) /\ q = e.pg[p]
  OBVIOUS
<1> DEFINE rests == ~q.active /\ ~q.free
           serves == rests /\ q.objs > 0 /\ ~q.closed
           frees == rests /\ Unused(q)
<1>2. mt.todo # <<>> /\ mt.todo \in Seq(Pages) /\ IsInjective(mt.todo) /\ UNCHANGED <<io, table, hdr, wr, get, cp>>
  BY DEF MaintPage, Maintaining, IInv, TypeInv, PassOK
<1>3. /\ Tail(mt.todo) \in Seq(Pages) /\ IsInjective(Tail(mt.todo)) /\ p \in Pages
      /\ \A i \in DOMAIN Tail(mt.todo) : Tail(mt.todo)[i] # p /\ \E j \in DOMAIN mt.todo : Tail(mt.todo)[i] = mt.todo[j]
  BY <1>1, <1>2, TailOnce
<1>4. p = mt.todo[1] /\ 1 \in DOMAIN mt.todo
  BY <1>1, <1>2
<1>5. e' = IF frees THEN free_page(e, p) ELSE e
  BY <1>1 DEF MaintPage
<1>6. /\ DOMAIN mt' = DOMAIN NoPass /\ mt'.todo = Tail(mt.todo)
      /\ mt'.low = mt.low \/ (mt'.low = p /\ serves)
  <2>1. \E a, b, l : /\ mt' = [mt EXCEPT !.todo = Tail(@), !.evict = a, !.pd[p] = b, !.low = l]
                     /\ l = mt.low \/ (l = p /\ serves)
    BY Zenon, <1>1 DEF MaintPage
  <2>2. PICK a, b, l : /\ mt' = [mt EXCEPT !.todo = Tail(@), !.evict = a, !.pd[p] = b, !.low = l]
                       /\ l = mt.low \/ (l = p /\ serves)
    BY Zenon, <2>1
  <2>3. DOMAIN mt = {"todo", "evict", "low", "pd"}
    BY DEF IInv, TypeInv, PassOK, NoPass
  <2> HIDE DEF serves
  <2>4. DOMAIN mt' = {"todo", "evict", "low", "pd"} /\ mt'.todo = Tail(mt.todo) /\ mt'.low = l
    BY <2>2, <2>3
  <2> QED BY <2>2, <2>3, <2>4 DEF IInv, TypeInv, PassOK
<1>7. mt.low # NULL => ~e.pg[mt.low].free /\ mt.low \in Pages /\ mt.low # p
                       /\ \A i \in DOMAIN Tail(mt.todo) : Tail(mt.todo)[i] # mt.low
  BY <1>3, <1>4 DEF IInv, LowInUse, TypeInv, PassOK
<1>8. PassOK'
  BY <1>3, <1>6, <1>7 DEF PassOK
<1>9. CASE frees
  <2>1. PICK s : s = free_page(e, p) /\ Engine(s) /\ GivenBack(e, s, p) /\ e' = s
    BY <1>3, <1>5, <1>9, FreePageGivesBack DEF IInv, TypeInv
  <2>2. ~e.pg[p].free /\ e.pg[p].ref = 0 /\ ~serves
    BY <1>1, <1>9 DEF Unused
  <2>3. Calm(e, e)
    BY DEF Calm
  <2>4. FreeListed' /\ RefsCounted' /\ HeldInUse'
    <3>1. /\ e'.free = [e.free EXCEPT ![FreeBucket[p]] = <<p>> \o @]
          /\ \A r \in Pages : e'.pg[r].ref = e.pg[r].ref
          /\ e'.pg[p].free = TRUE
          /\ \A r \in Pages \ {p} : e'.pg[r].version = e.pg[r].version /\ e'.pg[r].free = e.pg[r].free
      BY <2>1 DEF GivenBack
    <3> HIDE DEF serves, frees
    <3> QED BY <1>2, <1>3, <2>2, <2>3, <3>1, GiveBackHeld
  <2>5. LowInUse'
    <3>1. mt'.low = mt.low
      BY <1>6, <2>2
    <3> QED BY <1>6, <1>7, <2>1, <3>1 DEF LowInUse, GivenBack
  <2>6. TypeInv'
    BY <1>2, <1>8, <2>1, TypeFrames, EngineIs DEF IInv, TypeInv
  <2> QED BY <2>4, <2>5, <2>6 DEF IInv
<1>10. CASE ~frees
  <2>1. e' = e
    BY <1>5, <1>10
  <2>2. FreeListed' /\ RefsCounted' /\ HeldInUse'
    BY <1>2, <2>1, CalmSelf, CalmHeld
  <2>3. LowInUse'
    BY <1>1, <1>3, <1>6, <1>7, <2>1 DEF LowInUse
  <2>4. TypeInv'
    BY <1>2, <1>8, <2>1, TypeFrames DEF IInv, TypeInv
  <2> QED BY <2>2, <2>3, <2>4 DEF IInv
<1> QED BY <1>9, <1>10

\* The page that is evicted is closed, and freed only without a reference.
LEMMA MaintEndStep == ASSUME IInv, MaintEnd PROVE IInv'
<1>1. PICK p : p = mt.low
  OBVIOUS
<1> DEFINE evicts == mt.evict /\ p # NULL /\ ~e.pg[p].closed
           c == [e EXCEPT !.pg[p].closed = TRUE]
           s == IF evicts THEN c ELSE e
           f == IF evicts /\ e.pg[p].ref = 0 THEN free_page(s, p) ELSE s
<1>2. e' = [f EXCEPT !.maint = "wait"] /\ mt' = NoPass /\ UNCHANGED <<io, table, hdr, wr, get, cp>>
  BY <1>1 DEF MaintEnd, Maintaining
<1>3. PassOK' /\ LowInUse'
  BY <1>2 DEF PassOK, NoPass, LowInUse, IsInjective
<1>4. Engine(s) /\ Calm(e, s)
  <2> DEFINE n == [e.pg[p] EXCEPT !.closed = TRUE]
  <2>1. DOMAIN c = EngineFields /\ c.free = e.free /\ c.bucket = e.bucket /\ c.queue = e.queue
        /\ c.pg = [e.pg EXCEPT ![p] = n]
    BY DEF IInv, TypeInv, Engine, EngineFields
  <2>2. p \in Pages => DOMAIN n = PageFields /\ n.ref = e.pg[p].ref
          /\ n.version = e.pg[p].version /\ n.free = e.pg[p].free
    BY DEF IInv, TypeInv, Engine, PageFields, FreePage
  <2>3. Engine(e)
    BY DEF IInv, TypeInv
  <2> HIDE DEF c, n
  <2>4. Engine(c) /\ Calm(e, c)
    BY <2>1, <2>2, <2>3, PageCalm
  <2> QED BY <2>3, <2>4 DEF Calm
<1> HIDE DEF s
<1>5. CASE evicts /\ e.pg[p].ref = 0
  <2>1. p \in Pages /\ ~e.pg[p].free
    BY <1>1, <1>5 DEF IInv, TypeInv, PassOK, LowInUse
  <2>2. PICK u : u = free_page(s, p) /\ Engine(u) /\ GivenBack(s, u, p)
    BY <1>4, <2>1, FreePageGivesBack
  <2>3. e' = [u EXCEPT !.maint = "wait"]
    BY <1>2, <1>5, <2>2
  <2>4. Engine(e)' /\ e'.pg = u.pg /\ e'.free = u.free
    <3>0. Engine(u)
      BY <2>2
    <3>1. PICK x : x = [u EXCEPT !.maint = "wait"] /\ Engine(x) /\ x.pg = u.pg /\ x.free = u.free
      BY ONLY <3>0, MaintSet
    <3> QED BY <2>3, <3>1, EngineIs
  <2>5. FreeListed' /\ RefsCounted' /\ HeldInUse'
    <3>1. /\ e'.free = [s.free EXCEPT ![FreeBucket[p]] = <<p>> \o @]
          /\ \A r \in Pages : e'.pg[r].ref = s.pg[r].ref
          /\ e'.pg[p].free = TRUE
          /\ \A r \in Pages \ {p} : e'.pg[r].version = s.pg[r].version /\ e'.pg[r].free = s.pg[r].free
      BY <2>2, <2>4 DEF GivenBack
    <3>2. e.pg[p].ref = 0
      BY <1>5
    <3> HIDE DEF evicts
    <3> QED BY <1>2, <1>4, <2>1, <3>1, <3>2, GiveBackHeld
  <2>6. TypeInv'
    BY <1>2, <1>3, <2>4, TypeFrames DEF IInv, TypeInv
  <2> QED BY <1>3, <2>5, <2>6 DEF IInv
<1>6. CASE ~(evicts /\ e.pg[p].ref = 0)
  <2>1. PICK x : x = [s EXCEPT !.maint = "wait"] /\ Engine(x) /\ Calm(e, x)
    BY <1>4, MaintSet, CalmTwice
  <2>2. e' = x
    BY <1>2, <1>6, <2>1
  <2>3. FreeListed' /\ RefsCounted' /\ HeldInUse'
    BY Zenon, <1>2, <2>1, <2>2, CalmHeld
  <2>4. TypeInv'
    BY <1>2, <1>3, <2>1, <2>2, TypeFrames, EngineIs DEF IInv, TypeInv
  <2> QED BY <1>3, <2>3, <2>4 DEF IInv
<1> QED BY <1>5, <1>6

-----------------------------------------------------------------------------
(* Theorems *)

\* Every step keeps the invariant.
LEMMA NextInv == IInv /\ [Next]_vars => IInv'
<1> SUFFICES ASSUME IInv, [Next]_vars PROVE IInv'
  OBVIOUS
<1>1. ASSUME Settled PROVE IInv'
  BY <1>1, SettledHeld DEF IInv, Settled
<1>2. ASSUME NEW k \in Keys, Set(k) \/ Unlink(k) \/ \E solo \in BOOLEAN : StorageWrite(k, solo) PROVE IInv'
  BY <1>1, <1>2, ClientSettles DEF IInv
<1>3. ASSUME NEW g \in Getters, Getter(g) \/ \E k \in Keys : GetBegin(g, k) PROVE IInv'
  BY <1>1, <1>3, ClientSettles, GetterSettles DEF IInv
<1>4. ASSUME WriteThread PROVE IInv'
  BY <1>1, <1>4, WriterSettles, StorageWrittenSettles DEF WriteThread, Writers, IInv
<1>5. ASSUME CompactThread PROVE IInv'
  BY <1>1, <1>5, CompactTurnSettles, CompactItemSettles, WriterSettles DEF CompactThread, Writers, IInv
<1>6. ASSUME MaintThread PROVE IInv'
  BY <1>6, MaintWakeStep, MaintPageStep, MaintEndStep DEF MaintThread
<1>7. ASSUME NEW t \in IoThreads, IoThread(t) PROVE IInv'
  <2>1. CASE IoMiss(t) \/ IoBuffer(t) \/ IoWrite(t)
    BY <1>1, <2>1, IoSettles DEF IInv
  <2> QED BY <1>7, <2>1, HoldStep, ReadStep, UnrefStep DEF IoThread
<1>8. ASSUME UNCHANGED vars PROVE IInv'
  <2>1. UNCHANGED <<e, io, mt, table, hdr, wr, get, cp>>
    BY <1>8 DEF vars
  <2>2. Settled
    BY <2>1, TypeFrames, CalmSelf DEF Settled, IInv, TypeInv
  <2> QED BY <1>1, <2>2
<1> QED BY <1>2, <1>3, <1>4, <1>5, <1>6, <1>7, <1>8 DEF Next

\* What the engine's records and the threads' locals look like in every state,
\* as far as pages are named by them: a request that reads, a header, a writer
\* and the compactor name a page, and no list of pages holds anything else.
THEOREM TypeCorrect == Spec => []TypeInv
<1>1. IInv => TypeInv
  BY DEF IInv
<1> QED BY InitInv, NextInv, <1>1, PTL DEF Spec

\* A page that an I/O thread reads without its mutex keeps its version: the
\* maintenance thread does not free it, whoever closes or empties it, and so
\* extstore_write_request does not take it again.
THEOREM PageHeldIntact == Spec => []ReadIntact
<1>1. IInv => ReadIntact
  BY DEF IInv, TypeInv, IoOK, HeldInUse, ReadIntact
<1> QED BY InitInv, NextInv, <1>1, PTL DEF Spec

\* The reference count of a page is the number of I/O threads that hold it, so
\* that it is given up as often as it was taken, and it is in one free list at
\* most, where it is not in use.
THEOREM RefsAndFreeLists == Spec => [](RefsCounted /\ FreeListed)
<1>1. IInv => RefsCounted /\ FreeListed
  BY DEF IInv
<1> QED BY InitInv, NextInv, <1>1, PTL DEF Spec

-----------------------------------------------------------------------------
(***************************************************************************)
(* Items on pages, and the headers that lead to them                       *)
(***************************************************************************)

Offs == (1 .. MaxWbufs) \X (Nat \ {0})

\* A page: in use exactly with a version, written while it is active, with at
\* most one buffer that is not on disk yet.
PageData(s, q) ==
  /\ q.version \in Nat /\ q.version < s.version /\ (q.free <=> q.version = 0) /\ (q.active => ~q.free)
  /\ q.objs \in Nat /\ q.written \in Nat /\ q.allocated \in 0 .. cfg.wbufs
  /\ \/ q.wbuf = NULL /\ q.allocated = q.written
     \/ q.wbuf \in Seq(Items) /\ q.allocated = q.written + 1 /\ q.active

DataOK(s) ==
  /\ cfg.wbufs \in 1 .. MaxWbufs
  /\ s.version \in Nat \ {0} /\ DOMAIN s.disk = Pages
  /\ \A p \in Pages : PageData(s, s.pg[p]) /\ s.disk[p] \in [1 .. MaxWbufs -> Seq(Items)]

\* Buffer w of a page, and that it has an item of key k as its i-th.
Buffer(s, p, w) == IF w = s.pg[p].written + 1 THEN s.pg[p].wbuf ELSE s.disk[p][w]
In(s, p, w, i, k) == w <= s.pg[p].allocated /\ i <= Len(Buffer(s, p, w)) /\ Buffer(s, p, w)[i].key = k

PlaceData(s, at) == at.page \in Pages /\ at.version \in 1 .. s.version - 1 /\ at.off \in Offs
Points(s, at, k) == SamePage(s, at) => In(s, at.page, at.off[1], at.off[2], k)

\* A page that had version v when it had been written to its end, or none.
Rested(s, p, v) == p \in Pages /\ v \in Nat /\ v < s.version /\ (v # 0 /\ s.pg[p].version = v => ~s.pg[p].active)

\* The requests that are queued, and the reads that have not been answered.
Out(t, i) == IF i = 0 THEN io[t].pc = "pread" ELSE i \in DOMAIN e.queue[t]
ReqAt(t, i) == IF i = 0 THEN io[t].req ELSE e.queue[t][i]
Alike(r, q) == r.mode = q.mode /\ IF r.mode = "W" THEN r.at.page = q.at.page ELSE r.who = q.who

\* There are no two of a page, or of a reader.
Once ==
  \A t, u \in IoThreads, i, j \in Nat :
    Out(t, i) /\ Out(u, j) /\ Alike(ReqAt(t, i), ReqAt(u, j)) => t = u /\ i = j

\* What a request is for: a full buffer, a get that waits, the compactor.
OfPage(r) == r.mode = "W" /\ r.at.page \in Pages /\ e.pg[r.at.page].full /\ e.pg[r.at.page].wbuf # NULL
OfGet(r) ==
  r.mode = "R" /\ r.who \in Getters /\ get[r.who].pc = "wait" /\ r.at.page \in Pages /\ r.at.off \in Offs
Waiting == cp.on /\ cp.pc = "top" /\ cp.submitted /\ ~cp.done /\ ~cp.miss /\ cp.w \in 1 .. cfg.wbufs
OfCompactor(r) == r.mode = "R" /\ r.who = "compact" /\ Waiting /\ r.at = Place(cp.page, cp.version, <<cp.w, 0>>)
Expected(r) == OfPage(r) \/ OfGet(r) \/ OfCompactor(r)

\* What is read from a page has been asked for.
Held == \A t \in IoThreads : io[t].pc = "pread" => io[t].req.mode = "R"

ReqsOK == Once /\ Held /\ \A t \in IoThreads, i \in Nat : Out(t, i) => Expected(ReqAt(t, i))

GetData ==
  \A g \in Getters : /\ get[g].pc # "idle" => get[g].key \in Keys
                     /\ get[g].pc = "done" /\ ~get[g].miss => get[g].item \in Items

TableData == sets \in Nat /\ \A k \in Keys : table[k] # NULL /\ ~IsHdr(table[k]) => table[k].val \in Nat

\* A header is that of at most one key.
HasHdr(k, h) == IsHdr(table[k]) /\ table[k].val = h
HdrData ==
  /\ \A i \in DOMAIN hdr : PlaceData(e, hdr[i])
  /\ \A j, k \in Keys : IsHdr(table[j]) /\ IsHdr(table[k]) /\ table[j].val = table[k].val => j = k

\* What a writer writes; where it wrote it is there.
WriterData(w) ==
  /\ w.pc # "idle" => w.key \in Keys /\ w.item \in Items /\ w.item.key = w.key
  /\ w.pc = "ok" => PlaceData(e, w.at) /\ Points(e, w.at, w.key)
WriteData == \A x \in Writers : WriterData(wr[x])

\* The item that storage_write writes is locked and stays in memory.
WriteLock ==
  /\ DOMAIN lock = Keys
  /\ wr["write"].pc # "idle" => ~IsHdr(table[wr["write"].key]) /\ lock[wr["write"].key] = "write"

\* The compactor keeps the lock of the item it writes and refers to its header.
Rescuing == cp.pc \in {"write", "offset"}
RescueData ==
  /\ wr["compact"].pc # "idle" => Rescuing
  /\ Rescuing => /\ wr["compact"].pc # "idle"
                 /\ cp.n <= Len(cp.buf) /\ wr["compact"].key = cp.buf[cp.n].key
                 /\ lock[wr["compact"].key] = "compact"
                 /\ cp.h \in DOMAIN hdr /\ \A j \in Keys : HasHdr(j, cp.h) => j = wr["compact"].key
  /\ cp.pc = "offset" => /\ wr["compact"].pc = "ok"
                         /\ hdr[cp.h].page = wr["compact"].at.page /\ hdr[cp.h].version = wr["compact"].at.version

\* The page it reads had been written to its end; after a miss it is gone.
CompactData ==
  /\ cp.n \in Nat \ {0} /\ cp.w \in Nat \ {0} /\ cp.buf \in Seq(Items)
  /\ cp.pc # "top" => cp.on
  /\ cp.on => cp.version # 0 /\ Rested(e, cp.page, cp.version)
  /\ cp.on /\ cp.miss => ~SamePage(e, Reading)

PassData ==
  /\ \A p \in Pages : Rested(e, p, pdata[p]) /\ Rested(e, p, mt.pd[p])
  /\ DOMAIN pdata = Pages /\ DOMAIN mt.pd = Pages
  /\ mt.low # NULL => ~e.pg[mt.low].active

\* Every header leads to an item of its key, or nowhere, but for the one that
\* is being changed.
Torn(k) == cp.pc = "offset" /\ HasHdr(k, cp.h)
HdrsPoint == \A k \in Keys : IsHdr(table[k]) /\ ~Torn(k) => Points(e, hdr[table[k].val], k)

\* Keys whose items a page has to count: a header leads there, or will.
Leads(s, at, p) == at.page = p /\ SamePage(s, at)
Pending(x, k, p) ==
  wr[x].pc = "ok" /\ wr[x].key = k /\ Leads(e, wr[x].at, p) /\ (x = "compact" => HasHdr(k, cp.h))
Uses(k, p) == (IsHdr(table[k]) /\ Leads(e, hdr[table[k].val], p)) \/ \E x \in Writers : Pending(x, k, p)
Users(p) == {k \in Keys : Uses(k, p)}
Emptied(p) == cp.on /\ cp.page = p /\ cp.version = e.pg[p].version
CountedAt(p) == Emptied(p) \/ (IsFiniteSet(Users(p)) /\ Cardinality(Users(p)) <= e.pg[p].objs)
Counted == \A p \in Pages : CountedAt(p)

ItemData ==
  /\ cfg \in Configs /\ DataOK(e) /\ ReqsOK /\ GetData /\ TableData /\ HdrData /\ WriteData /\ WriteLock
  /\ RescueData /\ CompactData /\ PassData /\ HdrsPoint /\ Counted
ItemInv == IInv /\ ItemData

-----------------------------------------------------------------------------
(* The functions of extstore.c, once more: what becomes of the items *)

\* A page that is as it was, with what was in it; one that has been freed; and
\* one that has been taken from a free list.
Same(s, t, p) ==
  /\ t.pg[p].version = s.pg[p].version
  /\ s.pg[p].closed => t.pg[p].closed
  /\ t.pg[p].active => s.pg[p].active
  /\ \A w \in 1 .. MaxWbufs, i \in Nat \ {0}, k \in Keys : In(s, p, w, i, k) => In(t, p, w, i, k)
Freed(t, p) == t.pg[p].version = 0 /\ ~t.pg[p].active
Fresh(s, t, p) == s.pg[p].version = 0 /\ t.pg[p].version = s.version

Ages(s, t) == t.version >= s.version /\ \A p \in Pages : Same(s, t, p) \/ Freed(t, p) \/ Fresh(s, t, p)

\* Nothing is counted less, and a full buffer stays where it is.
Counts(s, t, p) == t.pg[p].version = s.pg[p].version => t.pg[p].objs >= s.pg[p].objs
Buffers(s, t, p) == s.pg[p].full /\ s.pg[p].wbuf # NULL => t.pg[p].full /\ t.pg[p].wbuf # NULL
Steady(s, t) == DataOK(t) /\ Ages(s, t) /\ \A p \in Pages : Counts(s, t, p) /\ Buffers(s, t, p)

\* Pages and their contents are the same.
Bare(s, t) == t.pg = s.pg /\ t.disk = s.disk /\ t.version = s.version

\* What is done to queues and signals leaves the items alone.
LEMMA BareSteady ==
  ASSUME NEW s, DataOK(s), NEW t, Bare(s, t)
  PROVE  Steady(s, t)
<1>1. DataOK(t)
  BY DEF DataOK, PageData, Bare
<1>2. \A p \in Pages : Same(s, t, p) /\ Counts(s, t, p) /\ Buffers(s, t, p)
  BY DEF DataOK, PageData, Bare, Same, Counts, Buffers, In, Buffer
<1>3. Ages(s, t)
  BY <1>2 DEF Ages, Bare, DataOK
<1> QED BY <1>1, <1>2, <1>3 DEF Steady

\* It may also follow another step.
LEMMA BareAfter ==
  ASSUME NEW s, NEW t, NEW u, Bare(t, u)
  PROVE  /\ DataOK(t) => DataOK(u)
         /\ Ages(s, t) => Ages(s, u)
         /\ \A p \in Pages : (Counts(s, t, p) => Counts(s, u, p)) /\ (Buffers(s, t, p) => Buffers(s, u, p))
<1>1. DataOK(t) => DataOK(u)
  BY DEF DataOK, PageData, Bare
<1>2. Ages(s, t) => Ages(s, u)
  BY DEF Ages, Bare, Same, Freed, Fresh, In, Buffer
<1> QED BY <1>1, <1>2 DEF Bare, Counts, Buffers

\* A page is changed that keeps its version and its items.
PageKept(s, p, q) ==
  /\ PageData(s, q) /\ q.version = s.pg[p].version
  /\ s.pg[p].closed => q.closed
  /\ q.active => s.pg[p].active
  /\ q.written = s.pg[p].written /\ q.allocated >= s.pg[p].allocated
  /\ s.pg[p].wbuf # NULL => q.wbuf = s.pg[p].wbuf \/ \E x \in Items : q.wbuf = Append(s.pg[p].wbuf, x)

Repaged(s, t, p, q) == t.pg = [s.pg EXCEPT ![p] = q] /\ t.disk = s.disk /\ t.version = s.version

LEMMA PageAges ==
  ASSUME NEW s, Engine(s), DataOK(s), NEW t, NEW p, NEW q, Repaged(s, t, p, q),
         p \in Pages => PageKept(s, p, q)
  PROVE  DataOK(t) /\ Ages(s, t) /\ \A r \in Pages : t.pg[r] = IF r = p THEN q ELSE s.pg[r]
<1>1. \A r \in Pages : t.pg[r] = IF r = p THEN q ELSE s.pg[r]
  BY DEF Engine, Repaged
<1>2. DataOK(t)
  BY <1>1 DEF DataOK, PageData, PageKept, Repaged
<1>3. \A r \in Pages : r # p => Same(s, t, r)
  BY <1>1 DEF Same, In, Buffer, Repaged
<1>4. ASSUME p \in Pages PROVE Same(s, t, p)
  <2>1. ASSUME NEW w \in 1 .. MaxWbufs, NEW i \in Nat \ {0}, NEW k \in Keys, In(s, p, w, i, k)
        PROVE  In(t, p, w, i, k)
    <3>1. PICK b : b = Buffer(s, p, w)
      OBVIOUS
    <3>2. /\ w <= s.pg[p].allocated /\ s.pg[p].allocated \in Nat /\ q.allocated \in Nat
          /\ w <= q.allocated
      BY <1>4, <2>1 DEF In, DataOK, PageData, PageKept
    <3>3. CASE w = s.pg[p].written + 1
      <4>1. b = s.pg[p].wbuf /\ b \in Seq(Items) /\ b # NULL
        BY <1>4, <3>1, <3>2, <3>3, MemExtAssumption DEF Buffer, DataOK, PageData
      <4>2. Buffer(t, p, w) = q.wbuf
        BY <1>1, <1>4, <3>3 DEF Buffer, PageKept, Repaged
      <4>3. q.wbuf = b \/ \E x \in Items : q.wbuf = Append(b, x)
        BY <1>4, <4>1 DEF PageKept
      <4>4. i <= Len(b) /\ b[i].key = k
        BY <2>1, <3>1 DEF In
      <4>5. i <= Len(q.wbuf) /\ q.wbuf[i] = b[i]
        BY <4>1, <4>3, <4>4
      <4> QED BY <1>1, <1>4, <3>2, <4>2, <4>4, <4>5 DEF In
    <3>4. CASE w # s.pg[p].written + 1
      <4>1. Buffer(t, p, w) = b
        BY <1>1, <1>4, <3>1, <3>4 DEF Buffer, PageKept, Repaged
      <4> QED BY <1>1, <1>4, <2>1, <3>1, <3>2, <4>1 DEF In
    <3> QED BY <3>3, <3>4
  <2> QED BY <1>1, <1>4, <2>1 DEF Same, PageKept
<1>5. Ages(s, t)
  BY <1>3, <1>4 DEF Ages, DataOK, Repaged
<1> QED BY <1>1, <1>2, <1>5

\* It counts no less, and a full buffer stays.
PageMore(s, p, q) ==
  q.objs >= s.pg[p].objs /\ (s.pg[p].full /\ s.pg[p].wbuf # NULL => q.full /\ q.wbuf # NULL)

LEMMA PageSteady ==
  ASSUME NEW s, Engine(s), DataOK(s), NEW t, NEW p, NEW q, Repaged(s, t, p, q),
         p \in Pages => PageKept(s, p, q) /\ PageMore(s, p, q)
  PROVE  Steady(s, t) /\ \A r \in Pages : t.pg[r] = IF r = p THEN q ELSE s.pg[r]
<1>1. DataOK(t) /\ Ages(s, t) /\ \A r \in Pages : t.pg[r] = IF r = p THEN q ELSE s.pg[r]
  BY PageAges
<1>2. ASSUME NEW r \in Pages PROVE Counts(s, t, r) /\ Buffers(s, t, r)
  <2>1. CASE r = p
    BY <1>1, <2>1 DEF Counts, Buffers, PageMore
  <2>2. CASE r # p
    <3>1. t.pg[r] = s.pg[r] /\ s.pg[r].objs \in Nat
      BY <1>1, <2>2 DEF DataOK, PageData
    <3> QED BY <3>1 DEF Counts, Buffers
  <2> QED BY <2>1, <2>2
<1> QED BY <1>1, <1>2 DEF Steady

\* extstore_run_maint and extstore_submit.
LEMMA RunMaintBare == ASSUME NEW s, Engine(s) PROVE Bare(s, extstore_run_maint(s)) /\ extstore_run_maint(s).queue = s.queue
BY DEF Engine, EngineFields, Bare, extstore_run_maint

LEMMA SubmitBare ==
  ASSUME NEW s, Engine(s), NEW req
  PROVE  /\ Bare(s, extstore_submit(s, req))
         /\ \E u : extstore_submit(s, req).queue = [s.queue EXCEPT ![u] = Append(@, req)]
<1>1. PICK u : u = get_io_thread(s)
  OBVIOUS
<1> QED BY <1>1 DEF Engine, EngineFields, Bare, extstore_submit

\* The page whose count extstore_delete changes.
Lessened(s, t, at) ==
  \A p \in Pages : Counts(s, t, p) \/ (Leads(s, at, p) /\ t.pg[p].objs >= s.pg[p].objs - 1)

\* extstore_delete changes no item, and counts one less in the place's page.
LEMMA DeleteLess ==
  ASSUME NEW s, Engine(s), DataOK(s), NEW at
  PROVE  LET t == extstore_delete(s, at)
         IN  /\ DataOK(t) /\ Ages(s, t) /\ Lessened(s, t, at) /\ t.queue = s.queue
             /\ \A p \in Pages : Buffers(s, t, p)
<1> DEFINE n == IF s.pg[at.page].objs > 0 THEN s.pg[at.page].objs - 1 ELSE 0
           t == [s EXCEPT !.pg[at.page].objs = n]
           q == [s.pg[at.page] EXCEPT !.objs = n]
           d == extstore_delete(s, at)
<1>1. CASE ~SamePage(s, at)
  <2>1. d = s
    BY <1>1 DEF extstore_delete
  <2>2. Steady(s, s)
    BY BareSteady DEF Bare
  <2> QED BY <2>1, <2>2 DEF Steady, Lessened
<1>2. CASE SamePage(s, at)
  <2>1. /\ DOMAIN t = EngineFields /\ t.queue = s.queue /\ t.disk = s.disk /\ t.version = s.version
        /\ t.pg = [s.pg EXCEPT ![at.page] = q]
    BY DEF Engine, EngineFields
  <2>2. at.page \in Pages => n \in Nat /\ n >= s.pg[at.page].objs - 1
    BY DEF DataOK, PageData
  <2> HIDE DEF n
  <2>3. at.page \in Pages => /\ DOMAIN q = PageFields /\ q.objs = n
                             /\ \A f \in PageFields \ {"objs"} : q[f] = s.pg[at.page][f]
    BY DEF Engine, PageFields, FreePage
  <2>4. at.page \in Pages => PageData(s, q)
    BY <2>2, <2>3 DEF DataOK, PageData, PageFields, FreePage
  <2>5. at.page \in Pages => /\ q.version = s.pg[at.page].version /\ q.closed = s.pg[at.page].closed
                             /\ q.active = s.pg[at.page].active /\ q.written = s.pg[at.page].written
                             /\ q.allocated = s.pg[at.page].allocated /\ q.wbuf = s.pg[at.page].wbuf
                             /\ q.full = s.pg[at.page].full /\ s.pg[at.page].allocated \in Nat
    BY <2>3 DEF PageFields, FreePage, DataOK, PageData
  <2> HIDE DEF q, t
  <2>6. DataOK(t) /\ Ages(s, t) /\ \A r \in Pages : t.pg[r] = IF r = at.page THEN q ELSE s.pg[r]
    <3>1. at.page \in Pages => PageKept(s, at.page, q)
      BY <2>4, <2>5 DEF PageKept
    <3>2. Repaged(s, t, at.page, q)
      BY <2>1 DEF Repaged
    <3> QED BY <3>1, <3>2, PageAges
  <2>8. \A p \in Pages : Buffers(s, t, p)
    BY <2>5, <2>6 DEF Buffers
  <2>9. Lessened(s, t, at)
    <3> SUFFICES ASSUME NEW p \in Pages
                 PROVE  Counts(s, t, p) \/ (Leads(s, at, p) /\ t.pg[p].objs >= s.pg[p].objs - 1)
      BY DEF Lessened
    <3>1. CASE p = at.page
      BY <1>2, <2>2, <2>3, <2>6, <3>1 DEF Leads
    <3>2. CASE p # at.page
      BY <2>6, <3>2 DEF Counts, DataOK, PageData
    <3> QED BY <3>1, <3>2
  <2>10. Engine(t)
    <3>1. at.page \in Pages => DOMAIN q = PageFields /\ q.ref = s.pg[at.page].ref
            /\ q.version = s.pg[at.page].version /\ q.free = s.pg[at.page].free
      BY <2>3 DEF PageFields, FreePage
    <3>2. DOMAIN t = EngineFields /\ t.free = s.free /\ t.bucket = s.bucket
      BY DEF t, Engine, EngineFields
    <3> QED BY <2>1, <3>1, <3>2, PageCalm
  <2>11. Bare(t, d) /\ d.queue = t.queue
    <3>1. d = IF n = 0 THEN extstore_run_maint(t) ELSE t
      BY <1>2 DEF extstore_delete, t, n
    <3> QED BY <2>10, <3>1, RunMaintBare DEF Bare
  <2>12. DataOK(d) /\ Ages(s, d) /\ \A p \in Pages : Buffers(s, d, p)
    BY <2>6, <2>8, <2>11, BareAfter
  <2>13. Lessened(s, d, at)
    BY <2>9, <2>11, BareAfter DEF Lessened, Bare
  <2> QED BY <2>1, <2>11, <2>12, <2>13
<1> QED BY <1>1, <1>2

\* A page is closed.
LEMMA MarkSteady ==
  ASSUME NEW s, Engine(s), DataOK(s), NEW p \in Pages
  PROVE  LET t == [s EXCEPT !.pg[p].closed = TRUE]
         IN  /\ Steady(s, t) /\ Engine(t) /\ t.queue = s.queue /\ t.version = s.version /\ t.pg[p].closed
             /\ \A r \in Pages : /\ t.pg[r].version = s.pg[r].version /\ t.pg[r].active = s.pg[r].active
                               /\ t.pg[r].free = s.pg[r].free
<1> DEFINE q == [s.pg[p] EXCEPT !.closed = TRUE]
           t == [s EXCEPT !.pg[p].closed = TRUE]
<1>1. DOMAIN t = EngineFields /\ t.free = s.free /\ t.bucket = s.bucket /\ t.queue = s.queue
      /\ t.pg = [s.pg EXCEPT ![p] = q] /\ t.disk = s.disk /\ t.version = s.version
  BY DEF Engine, EngineFields
<1>2. /\ q.version = s.pg[p].version /\ q.closed = TRUE /\ q.objs = s.pg[p].objs
      /\ q.active = s.pg[p].active /\ q.written = s.pg[p].written
      /\ q.allocated = s.pg[p].allocated /\ q.wbuf = s.pg[p].wbuf
      /\ q.full = s.pg[p].full /\ q.free = s.pg[p].free
      /\ DOMAIN q = PageFields /\ q.ref = s.pg[p].ref
  BY DEF Engine, PageFields, FreePage
<1> HIDE DEF q, t
<1>3. Engine(t)
  BY <1>1, <1>2, PageCalm
<1>4. PageKept(s, p, q) /\ PageMore(s, p, q)
  BY <1>2 DEF PageKept, PageMore, DataOK, PageData
<1>5. Repaged(s, t, p, q)
  BY <1>1 DEF Repaged
<1>6. Steady(s, t) /\ \A r \in Pages : t.pg[r] = IF r = p THEN q ELSE s.pg[r]
  BY <1>4, <1>5, PageSteady
<1> QED BY <1>1, <1>2, <1>3, <1>6 DEF t

\* extstore_close_page leaves the page to the maintenance thread; no header
\* that leads to it passes its test any longer.
LEMMA CloseSteady ==
  ASSUME NEW s, Engine(s), DataOK(s), NEW at, at.page \in Pages
  PROVE  LET u == extstore_close_page(s, at)
         IN  Steady(s, u) /\ u.queue = s.queue /\ ~SamePage(u, at)
<1> DEFINE t == [s EXCEPT !.pg[at.page].closed = TRUE]
           u == extstore_close_page(s, at)
<1>1. CASE ~SamePage(s, at)
  <2>1. u = s
    BY <1>1 DEF extstore_close_page
  <2> QED BY <1>1, <2>1, BareSteady DEF Bare
<1>2. CASE SamePage(s, at)
  <2>1. u = extstore_run_maint(t)
    BY <1>2 DEF extstore_close_page
  <2>2. Steady(s, t) /\ Engine(t) /\ t.queue = s.queue /\ t.pg[at.page].closed
    BY MarkSteady
  <2> HIDE DEF t
  <2>3. Bare(t, u) /\ u.queue = t.queue
    BY <2>1, <2>2, RunMaintBare
  <2>4. Steady(s, u)
    BY <2>2, <2>3, BareAfter DEF Steady
  <2> QED BY <2>2, <2>3, <2>4 DEF SamePage, Bare
<1> QED BY <1>1, <1>2

\* The buffer that _submit_wbuf queues is full from then on.
LEMMA SubmitWbufSteady ==
  ASSUME NEW s, Engine(s), DataOK(s), NEW p \in Pages
  PROVE  LET u == submit_wbuf(s, p)
         IN  /\ Steady(s, u) /\ u.pg[p].full /\ u.pg[p].wbuf = s.pg[p].wbuf
             /\ \E v : u.queue = [s.queue EXCEPT ![v] = Append(@, [mode |-> "W", at |-> Place(p, 0, <<>>), who |-> NULL])]
<1> DEFINE q == [s.pg[p] EXCEPT !.full = TRUE]
           t == [s EXCEPT !.pg[p].full = TRUE]
           req == [mode |-> "W", at |-> Place(p, 0, <<>>), who |-> NULL]
           u == extstore_submit(t, req)
<1>1. DOMAIN t = EngineFields /\ t.free = s.free /\ t.bucket = s.bucket /\ t.queue = s.queue
      /\ t.pg = [s.pg EXCEPT ![p] = q] /\ t.disk = s.disk /\ t.version = s.version
  BY DEF Engine, EngineFields
<1>2. /\ q.version = s.pg[p].version /\ q.closed = s.pg[p].closed /\ q.objs = s.pg[p].objs
      /\ q.active = s.pg[p].active /\ q.written = s.pg[p].written
      /\ q.allocated = s.pg[p].allocated /\ q.wbuf = s.pg[p].wbuf /\ q.full /\ q.free = s.pg[p].free
  BY DEF Engine, PageFields, FreePage
<1>3. DOMAIN q = PageFields /\ q.ref = s.pg[p].ref /\ q.version = s.pg[p].version /\ q.free = s.pg[p].free
  BY DEF Engine, PageFields, FreePage
<1>4. u = submit_wbuf(s, p)
  BY DEF submit_wbuf
<1> HIDE DEF q, t, req
<1>5. Engine(t)
  BY <1>1, <1>3, PageCalm
<1>6. PageKept(s, p, q)
  BY <1>2 DEF PageKept, DataOK, PageData
<1>0. PageMore(s, p, q)
  BY <1>2 DEF PageMore, DataOK, PageData
<1>7. Repaged(s, t, p, q)
  BY <1>1 DEF Repaged
<1>8. Steady(s, t) /\ \A r \in Pages : t.pg[r] = IF r = p THEN q ELSE s.pg[r]
  BY <1>6, <1>0, <1>7, PageSteady
<1>10. Bare(t, u) /\ \E v : u.queue = [t.queue EXCEPT ![v] = Append(@, req)]
  BY <1>5, SubmitBare
<1> HIDE DEF u
<1>11. Steady(s, u)
  BY <1>8, <1>10, BareAfter DEF Steady
<1>12. u.pg[p].full /\ u.pg[p].wbuf = s.pg[p].wbuf
  BY <1>2, <1>8, <1>10 DEF Bare
<1> QED BY <1>1, <1>4, <1>10, <1>11, <1>12 DEF req

\* _allocate_wbuf gives an active page without a buffer an empty one.
LEMMA AllocateWbufSteady ==
  ASSUME NEW s, Engine(s), DataOK(s), NEW p \in Pages, s.pg[p].active, s.pg[p].wbuf = NULL,
         s.pg[p].allocated < cfg.wbufs
  PROVE  LET t == allocate_wbuf(s, p)
         IN  /\ Steady(s, t) /\ t.queue = s.queue /\ t.pg[p].active
             /\ t.pg[p].version = s.pg[p].version /\ t.version = s.version
             /\ t.pg[p].objs = s.pg[p].objs /\ \A r \in Pages : r # p => t.pg[r] = s.pg[r]
<1> DEFINE q == [s.pg[p] EXCEPT !.allocated = @ + 1, !.wbuf = <<>>, !.full = FALSE]
           t == [s EXCEPT !.wbufs = @ - 1, !.pg[p].allocated = @ + 1, !.pg[p].wbuf = <<>>, !.pg[p].full = FALSE]
<1>1. CASE s.wbufs = 0
  <2>1. allocate_wbuf(s, p) = s
    BY Zenon, <1>1 DEF allocate_wbuf
  <2> QED BY <2>1, BareSteady DEF Bare
<1>2. CASE s.wbufs # 0
  <2>1. allocate_wbuf(s, p) = t
    BY <1>2 DEF allocate_wbuf
  <2>2. t.queue = s.queue /\ t.disk = s.disk /\ t.version = s.version
        /\ t.pg = [s.pg EXCEPT ![p].allocated = @ + 1, ![p].wbuf = <<>>, ![p].full = FALSE]
    BY Zenon DEF Engine, EngineFields
  <2>3. t.pg = [s.pg EXCEPT ![p] = q]
    BY <2>2 DEF Engine
  <2>4. /\ q.version = s.pg[p].version /\ q.closed = s.pg[p].closed /\ q.objs = s.pg[p].objs
        /\ q.active = s.pg[p].active /\ q.written = s.pg[p].written
        /\ q.allocated = s.pg[p].allocated + 1 /\ q.wbuf = <<>> /\ q.free = s.pg[p].free
    BY DEF Engine, PageFields, FreePage
  <2> HIDE DEF q, t
  <2>5. PageData(s, q)
    <3>1. <<>> \in Seq(Items)
      BY EmptySeq
    <3>2. cfg.wbufs \in Nat
      BY MemExtAssumption DEF DataOK
    <3>3. NULL \notin Seq(Items)
      BY MemExtAssumption
    <3>4. /\ s.pg[p].allocated \in Nat /\ s.pg[p].allocated + 1 <= cfg.wbufs
          /\ s.pg[p].allocated = s.pg[p].written
      BY <3>2, <3>3 DEF DataOK, PageData
    <3>5. q.version \in Nat /\ q.version < s.version /\ (q.free <=> q.version = 0) /\ (q.active => ~q.free)
      BY <2>4 DEF DataOK, PageData
    <3>6. q.objs \in Nat /\ q.written \in Nat /\ q.allocated \in 0 .. cfg.wbufs /\ q.allocated = q.written + 1
      BY <2>4, <3>2, <3>4 DEF DataOK, PageData
    <3> QED BY <2>4, <3>1, <3>5, <3>6 DEF PageData
  <2>6. PageKept(s, p, q)
    BY <2>4, <2>5 DEF PageKept, DataOK, PageData
  <2>7. PageMore(s, p, q)
    BY <2>4 DEF PageMore, DataOK, PageData
  <2>8. Repaged(s, t, p, q)
    BY <2>2, <2>3 DEF Repaged
  <2>9. Steady(s, t) /\ \A r \in Pages : t.pg[r] = IF r = p THEN q ELSE s.pg[r]
    BY <2>6, <2>7, <2>8, PageSteady
  <2> QED BY <2>1, <2>2, <2>4, <2>9
<1> QED BY <1>1, <1>2

\* An item that is put at the end of a page's buffer is counted and found.
LEMMA AppendSteady ==
  ASSUME NEW s, Engine(s), DataOK(s), NEW p \in Pages, s.pg[p].wbuf # NULL, ~s.pg[p].full, NEW x \in Items
  PROVE  LET t == [s EXCEPT !.pg[p].wbuf = Append(@, x), !.pg[p].objs = @ + 1]
             w == s.pg[p].allocated
             i == Len(s.pg[p].wbuf) + 1
         IN  /\ Steady(s, t) /\ t.queue = s.queue
             /\ t.pg[p].version = s.pg[p].version /\ t.pg[p].objs = s.pg[p].objs + 1
             /\ PlaceData(t, Place(p, s.pg[p].version, <<w, i>>)) /\ In(t, p, w, i, x.key)
<1> DEFINE t == [s EXCEPT !.pg[p].wbuf = Append(@, x), !.pg[p].objs = @ + 1]
           q == [s.pg[p] EXCEPT !.wbuf = Append(@, x), !.objs = @ + 1]
           w == s.pg[p].allocated
           i == Len(s.pg[p].wbuf) + 1
           at == Place(p, s.pg[p].version, <<w, i>>)
<1>1. t.queue = s.queue /\ t.disk = s.disk /\ t.version = s.version
      /\ t.pg = [s.pg EXCEPT ![p].wbuf = Append(@, x), ![p].objs = @ + 1]
  BY DEF Engine, EngineFields
<1>2. t.pg = [s.pg EXCEPT ![p] = q]
  BY <1>1 DEF Engine
<1>3. /\ q.version = s.pg[p].version /\ q.closed = s.pg[p].closed /\ q.objs = s.pg[p].objs + 1
      /\ q.active = s.pg[p].active /\ q.written = s.pg[p].written
      /\ q.allocated = s.pg[p].allocated /\ q.wbuf = Append(s.pg[p].wbuf, x) /\ q.free = s.pg[p].free
  BY DEF Engine, PageFields, FreePage
<1>4. s.pg[p].wbuf \in Seq(Items) /\ s.pg[p].allocated = s.pg[p].written + 1 /\ s.pg[p].active
      /\ s.pg[p].written \in Nat
  BY DEF DataOK, PageData
<1>5. Append(s.pg[p].wbuf, x) \in Seq(Items) /\ Len(Append(s.pg[p].wbuf, x)) = i
      /\ Append(s.pg[p].wbuf, x)[i] = x /\ i \in Nat \ {0}
  BY <1>4, AppendProperties
<1> HIDE DEF q, t, i
<1>6. PageData(s, q)
  BY <1>3, <1>4, <1>5 DEF DataOK, PageData
<1>7. PageKept(s, p, q)
  BY <1>3, <1>6 DEF PageKept, DataOK, PageData
<1>0. PageMore(s, p, q)
  BY <1>3 DEF PageMore, DataOK, PageData
<1>8. Repaged(s, t, p, q)
  BY <1>1, <1>2 DEF Repaged
<1>9. Steady(s, t) /\ \A r \in Pages : t.pg[r] = IF r = p THEN q ELSE s.pg[r]
  BY <1>7, <1>0, <1>8, PageSteady
<1>11. In(t, p, w, i, x.key)
  <2>1. Buffer(t, p, w) = q.wbuf
    BY <1>3, <1>4, <1>9 DEF Buffer
  <2> QED BY <1>3, <1>4, <1>5, <1>9, <2>1 DEF In
<1>12. PlaceData(t, at)
  <2>1. w \in 1 .. MaxWbufs
    <3>1. MaxWbufs \in Nat
      BY MemExtAssumption
    <3>2. cfg.wbufs \in 1 .. MaxWbufs /\ w \in 0 .. cfg.wbufs
      BY DEF DataOK, PageData
    <3> QED BY <1>4, <3>1, <3>2
  <2>2. <<w, i>> \in Offs
    BY <1>5, <2>1 DEF Offs
  <2>3. s.pg[p].version \in 1 .. s.version - 1
    BY <1>4 DEF DataOK, PageData
  <2> QED BY <1>1, <2>2, <2>3 DEF PlaceData, Place
<1> QED BY <1>1, <1>3, <1>9, <1>11, <1>12 DEF t, i

\* The page that _allocate_page takes has no items yet, and a version that no
\* page had before.
LEMMA AllocatePageSteady ==
  ASSUME NEW s, Engine(s), DataOK(s), NEW b \in Buckets,
         \A f \in Buckets : s.free[f] # <<>> => s.pg[Head(s.free[f])].free
  PROVE  Steady(s, allocate_page(s, b)) /\ allocate_page(s, b).queue = s.queue
<1> DEFINE f == IF b # 0 /\ s.free[b] # <<>> THEN b ELSE 0
           p == Head(s.free[f])
           head == s.bucket[b]
           t == IF head # <<>> /\ s.pg[Head(head)].allocated # cfg.wbufs THEN [s EXCEPT !.failed = TRUE] ELSE s
           nv == next_version(s)
           v == s.version
           u == [t EXCEPT !.free[f] = Tail(@), !.bucket[b] = <<p>> \o @, !.version = nv,
                    !.pg[p].version = v, !.pg[p].active = TRUE, !.pg[p].free = FALSE,
                    !.pg[p].closed = FALSE, !.pg[p].bucket = b]
<1>1. f \in Buckets
  BY DEF Buckets
<1>2. Engine(t) /\ Bare(s, t) /\ t.queue = s.queue
  BY Zenon DEF Engine, EngineFields, Bare
<1>3. allocate_page(s, b) = IF s.free[f] = <<>> THEN extstore_run_maint(t) ELSE u
  BY Zenon DEF allocate_page
<1>4. CASE s.free[f] = <<>>
  <2> HIDE DEF t
  <2>1. Bare(s, extstore_run_maint(t)) /\ extstore_run_maint(t).queue = s.queue
    BY Zenon, <1>2, RunMaintBare DEF Bare
  <2> QED BY <1>3, <1>4, <2>1, BareSteady
<1>5. CASE s.free[f] # <<>>
  <2> HIDE DEF f
  <2>1. p \in Pages /\ s.pg[p].free
    <3>1. s.free[f] \in Seq(Pages)
      BY <1>1 DEF Engine
    <3> QED BY <1>1, <1>5, <3>1
  <2> HIDE DEF t, nv, v, p
  <2> DEFINE t1 == [t EXCEPT !.free[f] = Tail(@), !.bucket[b] = <<p>> \o @, !.version = nv]
             q == [s.pg[p] EXCEPT !.version = v, !.active = TRUE, !.free = FALSE, !.closed = FALSE, !.bucket = b]
  <2>2. DOMAIN t1 = EngineFields /\ t1.pg = s.pg /\ t1.queue = s.queue /\ t1.disk = s.disk /\ t1.version = nv
    BY Zenon, <1>2 DEF Engine, EngineFields, Bare
  <2>3. u = [t1 EXCEPT !.pg[p].version = v, !.pg[p].active = TRUE, !.pg[p].free = FALSE,
                       !.pg[p].closed = FALSE, !.pg[p].bucket = b]
    OBVIOUS
  <2> HIDE DEF t1, u
  <2>4. /\ u.queue = s.queue /\ u.disk = s.disk /\ u.version = nv
        /\ u.pg = [s.pg EXCEPT ![p].version = v, ![p].active = TRUE, ![p].free = FALSE,
                               ![p].closed = FALSE, ![p].bucket = b]
    BY <2>2, <2>3 DEF EngineFields
  <2>5. \A r \in Pages : u.pg[r] = IF r = p THEN q ELSE s.pg[r]
    <3>1. PICK g : g = s.pg
      OBVIOUS
    <3>2. DOMAIN g = Pages /\ q = [g[p] EXCEPT !.version = v, !.active = TRUE, !.free = FALSE, !.closed = FALSE, !.bucket = b]
      BY Zenon, <3>1 DEF Engine
    <3>3. u.pg = [g EXCEPT ![p].version = v, ![p].active = TRUE, ![p].free = FALSE, ![p].closed = FALSE, ![p].bucket = b]
      BY <2>4, <3>1
    <3> HIDE DEF q
    <3>4. u.pg = [g EXCEPT ![p] = q]
      BY <3>2, <3>3, <2>1
    <3> QED BY <3>1, <3>2, <3>4
  <2>6. /\ q.version = v /\ q.active /\ ~q.free /\ q.objs = s.pg[p].objs /\ q.written = s.pg[p].written
        /\ q.allocated = s.pg[p].allocated /\ q.wbuf = s.pg[p].wbuf
    BY <2>1 DEF Engine, PageFields, FreePage
  <2> HIDE DEF q
  <2>7. /\ v \in Nat \ {0} /\ nv = v + 1 /\ v = s.version /\ s.pg[p].version = 0
        /\ s.pg[p].wbuf = NULL /\ s.pg[p].allocated = s.pg[p].written
    BY <2>1 DEF DataOK, PageData, nv, v, next_version
  <2>8. DataOK(u)
    <3>0. \A r \in Pages : PageData(s, s.pg[r])
      BY DEF DataOK
    <3>1. PageData(u, q)
      <4>1. PageData(s, s.pg[p])
        BY <2>1, <3>0
      <4>2. u.version = v + 1
        BY <2>4, <2>7
      <4> QED BY <2>6, <2>7, <4>1, <4>2 DEF PageData
    <3>2. ASSUME NEW r \in Pages PROVE PageData(u, s.pg[r])
      <4>1. PageData(s, s.pg[r])
        BY <3>0
      <4>2. u.version = s.version + 1
        BY <2>4, <2>7
      <4> QED BY <2>7, <4>1, <4>2 DEF PageData
    <3>3. u.version \in Nat \ {0}
      BY <2>4, <2>7
    <3>4. \A r \in Pages : PageData(u, u.pg[r])
      BY <2>5, <3>1, <3>2
    <3>5. DOMAIN u.disk = Pages /\ \A r \in Pages : u.disk[r] \in [1 .. MaxWbufs -> Seq(Items)]
      BY <2>4 DEF DataOK
    <3> QED BY <3>3, <3>4, <3>5 DEF DataOK
  <2>9. ASSUME NEW r \in Pages
        PROVE  (Same(s, u, r) \/ Fresh(s, u, r)) /\ Counts(s, u, r) /\ Buffers(s, u, r)
    <3>1. CASE r = p
      BY <2>5, <2>6, <2>7, <3>1 DEF Fresh, Counts, Buffers
    <3>2. CASE r # p
      <4>0. s.pg[r].objs \in Nat
        BY DEF DataOK, PageData
      <4>1. u.pg[r] = s.pg[r] /\ u.disk = s.disk
        BY <2>4, <2>5, <3>2
      <4> QED BY <4>0, <4>1 DEF Same, Counts, Buffers, In, Buffer
    <3> QED BY <3>1, <3>2
  <2>10. u.version >= s.version
    BY <2>4, <2>7
  <2>11. Steady(s, u)
    BY <2>8, <2>9, <2>10 DEF Steady, Ages
  <2> QED BY <1>3, <1>5, <2>4, <2>11
<1> QED BY <1>4, <1>5

\* A buffer is read from disk as it was read before it was written there.
LEMMA WbufCbSteady ==
  ASSUME NEW s, Engine(s), DataOK(s), NEW p \in Pages, s.pg[p].wbuf # NULL, NEW d,
         DOMAIN d = EngineFields, d.pg = s.pg, d.version = s.version,
         d.disk = [s.disk EXCEPT ![p][s.pg[p].written + 1] = s.pg[p].wbuf]
  PROVE  LET u == wbuf_cb(d, p)
         IN  /\ DataOK(u) /\ Ages(s, u) /\ u.queue = d.queue
             /\ \A r \in Pages : Counts(s, u, r) /\ (r # p => Buffers(s, u, r))
<1> DEFINE n == s.pg[p].written + 1
           u == wbuf_cb(d, p)
           q == [s.pg[p] EXCEPT !.written = n, !.wbuf = NULL, !.active = IF n = cfg.wbufs THEN FALSE ELSE @]
<1>1. /\ s.pg[p].wbuf \in Seq(Items) /\ s.pg[p].allocated = n /\ s.pg[p].active /\ n \in Nat \ {0}
      /\ n \in 1 .. MaxWbufs /\ n <= cfg.wbufs
  <2>1. MaxWbufs \in Nat
    BY MemExtAssumption
  <2>2. PageData(s, s.pg[p]) /\ cfg.wbufs \in 1 .. MaxWbufs
    BY DEF DataOK
  <2> QED BY <2>1, <2>2 DEF PageData
<1> HIDE DEF n
<1>2. /\ u.version = s.version /\ u.queue = d.queue /\ u.disk = d.disk
      /\ u.pg = [s.pg EXCEPT ![p].written = n, ![p].wbuf = NULL,
                             ![p].active = IF n = cfg.wbufs THEN FALSE ELSE @]
  BY DEF wbuf_cb, EngineFields, n
<1>3. u.pg = [s.pg EXCEPT ![p] = q]
  BY <1>2 DEF Engine
<1>4. \A r \in Pages : u.pg[r] = IF r = p THEN q ELSE s.pg[r]
  BY <1>3 DEF Engine
<1>5. /\ q.version = s.pg[p].version /\ q.closed = s.pg[p].closed /\ q.objs = s.pg[p].objs
      /\ q.written = n /\ q.wbuf = NULL /\ q.allocated = s.pg[p].allocated
      /\ q.free = s.pg[p].free /\ (q.active => s.pg[p].active)
  BY DEF Engine, PageFields, FreePage
<1>6. /\ \A r \in Pages : u.disk[r] = IF r = p THEN [s.disk[p] EXCEPT ![n] = s.pg[p].wbuf] ELSE s.disk[r]
      /\ DOMAIN u.disk = Pages
  BY Zenon, <1>2 DEF DataOK, n
<1> HIDE DEF u, q
<1>7. DataOK(u)
  <2>1. PageData(u, q)
    BY <1>1, <1>2, <1>5 DEF DataOK, PageData
  <2>2. \A r \in Pages : PageData(u, s.pg[r])
    BY <1>2 DEF DataOK, PageData
  <2>3. \A r \in Pages : u.disk[r] \in [1 .. MaxWbufs -> Seq(Items)]
    <3>1. s.disk[p] \in [1 .. MaxWbufs -> Seq(Items)]
      BY DEF DataOK
    <3>2. PICK S : S = Seq(Items)
      OBVIOUS
    <3>3. [s.disk[p] EXCEPT ![n] = s.pg[p].wbuf] \in [1 .. MaxWbufs -> S]
      BY <1>1, <3>1, <3>2
    <3> QED BY <1>6, <3>2, <3>3 DEF DataOK
  <2> QED BY <1>2, <1>4, <1>6, <2>1, <2>2, <2>3 DEF DataOK
<1>8. Same(s, u, p)
  <2>1. ASSUME NEW w \in 1 .. MaxWbufs, NEW i \in Nat \ {0}, NEW k \in Keys, In(s, p, w, i, k)
        PROVE  In(u, p, w, i, k)
    <3>1. w <= n
      BY <1>1, <2>1 DEF In
    <3>2. Buffer(u, p, w) = u.disk[p][w]
      BY <1>1, <1>4, <1>5, <3>1 DEF Buffer
    <3>3. s.disk[p] \in [1 .. MaxWbufs -> Seq(Items)]
      BY DEF DataOK
    <3>4. u.disk[p][w] = Buffer(s, p, w)
      <4>1. CASE w = n
        BY <1>6, <3>3, <4>1 DEF Buffer, n
      <4>2. CASE w # n
        BY <1>6, <3>3, <4>2 DEF Buffer, n
      <4> QED BY <4>1, <4>2
    <3> QED BY <1>4, <1>5, <2>1, <3>2, <3>4 DEF In
  <2> QED BY <1>4, <1>5, <2>1 DEF Same
<1>9. ASSUME NEW r \in Pages, r # p PROVE Same(s, u, r) /\ Counts(s, u, r) /\ Buffers(s, u, r)
  <2>1. u.pg[r] = s.pg[r] /\ s.pg[r].objs \in Nat /\ u.disk[r] = s.disk[r]
    BY <1>4, <1>6, <1>9 DEF DataOK, PageData
  <2> QED BY <2>1 DEF Same, Counts, Buffers, In, Buffer
<1>10. Counts(s, u, p)
  BY <1>4, <1>5 DEF Counts, DataOK, PageData
<1>11. Ages(s, u)
  BY <1>2, <1>8, <1>9 DEF Ages, DataOK
<1> QED BY <1>2, <1>7, <1>9, <1>10, <1>11 DEF u

\* A page that is freed is not active, so that no buffer of it is left.
LEMMA FreePageSteady ==
  ASSUME NEW s, Engine(s), DataOK(s), NEW p \in Pages, ~s.pg[p].active, ~s.pg[p].free
  PROVE  Steady(s, free_page(s, p)) /\ free_page(s, p).queue = s.queue /\ free_page(s, p).version = s.version
<1> DEFINE q == [FreePage EXCEPT !.ref = s.pg[p].ref, !.wbuf = s.pg[p].wbuf, !.full = s.pg[p].full]
           u == free_page(s, p)
<1>1. u.queue = s.queue /\ u.disk = s.disk /\ u.version = s.version /\ u.pg = [s.pg EXCEPT ![p] = q]
  <2> HIDE DEF q
  <2>1. PICK b : b = s.pg[p].bucket
    OBVIOUS
  <2>2. u = [s EXCEPT !.bucket[b] = RemoveFirst(@, p), !.free[FreeBucket[p]] = <<p>> \o @, !.pg[p] = q]
    BY <2>1 DEF free_page, q
  <2> HIDE DEF u
  <2> QED BY <2>2 DEF Engine, EngineFields
<1>2. \A r \in Pages : u.pg[r] = IF r = p THEN q ELSE s.pg[r]
  BY <1>1 DEF Engine
<1>3. /\ q.version = 0 /\ q.objs = 0 /\ q.written = 0 /\ q.allocated = 0 /\ q.free = TRUE /\ q.active = FALSE
      /\ q.wbuf = s.pg[p].wbuf
  BY DEF FreePage
<1> HIDE DEF u, q
<1>4. s.pg[p].wbuf = NULL /\ s.pg[p].version # 0
  BY DEF DataOK, PageData
<1>5. DataOK(u)
  <2>1. PageData(u, q)
    BY <1>1, <1>3, <1>4, MemExtAssumption DEF DataOK, PageData
  <2>2. \A r \in Pages : PageData(u, s.pg[r])
    BY <1>1 DEF DataOK, PageData
  <2> QED BY <1>1, <1>2, <2>1, <2>2 DEF DataOK
<1>6. ASSUME NEW r \in Pages
      PROVE  (Same(s, u, r) \/ Freed(u, r)) /\ Counts(s, u, r) /\ Buffers(s, u, r)
  <2>1. CASE r = p
    BY <1>2, <1>3, <1>4, <2>1 DEF Freed, Counts, Buffers
  <2>2. CASE r # p
    <3>1. u.pg[r] = s.pg[r] /\ s.pg[r].objs \in Nat /\ u.disk = s.disk
      BY <1>1, <1>2, <2>2 DEF DataOK, PageData
    <3> QED BY <3>1 DEF Same, Counts, Buffers, In, Buffer
  <2> QED BY <2>1, <2>2
<1>7. Ages(s, u)
  BY <1>1, <1>6 DEF Ages, DataOK
<1> QED BY <1>1, <1>5, <1>6, <1>7 DEF Steady, u

\* A reference to a page is taken or given up.
LEMMA RefSteady ==
  ASSUME NEW s, Engine(s), DataOK(s), NEW p \in Pages, NEW n
  PROVE  Steady(s, [s EXCEPT !.pg[p].ref = n])
<1> DEFINE q == [s.pg[p] EXCEPT !.ref = n]
           t == [s EXCEPT !.pg[p].ref = n]
<1>1. Repaged(s, t, p, q)
  BY DEF Engine, EngineFields, Repaged
<1>2. \A f \in PageFields \ {"ref"} : q[f] = s.pg[p][f]
  BY DEF Engine
<1>3. PageKept(s, p, q) /\ PageMore(s, p, q)
  BY <1>2 DEF PageKept, PageMore, DataOK, PageData, PageFields, FreePage
<1> HIDE DEF q, t
<1>4. Steady(s, t)
  BY <1>1, <1>3, PageSteady
<1> QED BY <1>4 DEF t

-----------------------------------------------------------------------------
(* What a step of the engine keeps *)

\* A place stays a place, what is there stays there while the page has the
\* version, and a page that has lost the version does not get it back.
LEMMA AgedPlace ==
  ASSUME NEW s, NEW t, DataOK(s), DataOK(t), Ages(s, t), NEW at, PlaceData(s, at)
  PROVE  /\ PlaceData(t, at)
         /\ \A k \in Keys : Points(s, at, k) => Points(t, at, k)
         /\ SamePage(t, at) => SamePage(s, at) /\ Same(s, t, at.page)
<1> DEFINE p == at.page
<1>1. p \in Pages /\ at.version \in 1 .. s.version - 1 /\ at.off \in Offs /\ s.version \in Nat /\ t.version \in Nat
  BY DEF PlaceData, DataOK
<1>2. t.version >= s.version /\ (Same(s, t, p) \/ Freed(t, p) \/ Fresh(s, t, p))
  BY <1>1 DEF Ages
<1>3. PlaceData(t, at)
  BY <1>1, <1>2 DEF PlaceData
<1>4. ASSUME SamePage(t, at) PROVE SamePage(s, at) /\ Same(s, t, p)
  <2>1. t.pg[p].version = at.version /\ ~t.pg[p].closed
    BY <1>4 DEF SamePage
  <2>2. Same(s, t, p)
    BY <1>1, <1>2, <2>1 DEF Freed, Fresh
  <2> QED BY <2>1, <2>2 DEF Same, SamePage
<1>5. ASSUME NEW k \in Keys, Points(s, at, k), SamePage(t, at) PROVE In(t, p, at.off[1], at.off[2], k)
  <2>1. Same(s, t, p) /\ In(s, p, at.off[1], at.off[2], k)
    BY <1>4, <1>5 DEF Points
  <2>2. at.off[1] \in 1 .. MaxWbufs /\ at.off[2] \in Nat \ {0}
    BY <1>1 DEF Offs
  <2> QED BY <2>1, <2>2 DEF Same
<1> QED BY <1>3, <1>4, <1>5 DEF Points

\* A page that is written to its end stays so with its version.
LEMMA AgedRest ==
  ASSUME NEW s, NEW t, DataOK(s), DataOK(t), Ages(s, t), NEW p, NEW v, Rested(s, p, v)
  PROVE  Rested(t, p, v)
<1>1. p \in Pages /\ v \in Nat /\ v < s.version /\ s.version \in Nat /\ t.version \in Nat
  BY DEF Rested, DataOK
<1>2. t.version >= s.version /\ (Same(s, t, p) \/ Freed(t, p) \/ Fresh(s, t, p))
  BY <1>1 DEF Ages
<1>3. CASE Same(s, t, p)
  BY <1>1, <1>2, <1>3 DEF Rested, Same
<1>4. CASE Freed(t, p)
  BY <1>1, <1>2, <1>4 DEF Rested, Freed
<1>5. CASE Fresh(s, t, p)
  BY <1>1, <1>2, <1>5 DEF Rested, Fresh
<1> QED BY <1>2, <1>3, <1>4, <1>5

\* And a version that a page has lost is lost.
LEMMA AgedMiss ==
  ASSUME NEW s, NEW t, DataOK(s), DataOK(t), Ages(s, t), NEW at, at.page \in Pages,
         at.version \in 1 .. s.version - 1, SamePage(t, at)
  PROVE  SamePage(s, at)
<1>1. s.version \in Nat /\ t.version >= s.version /\ t.version \in Nat
  BY DEF DataOK, Ages
<1>2. Same(s, t, at.page) \/ Freed(t, at.page) \/ Fresh(s, t, at.page)
  BY DEF Ages
<1> QED BY <1>1, <1>2 DEF Same, Freed, Fresh, SamePage

\* Who uses a page after a step used it before, and the page has its version
\* still, when the headers and what is about to become one are the same.
LEMMA UsesFrame ==
  ASSUME HdrData, WriteData, TableOK, DataOK(e), DataOK(e'), Ages(e, e'), NEW k \in Keys, NEW p \in Pages,
         IsHdr(table'[k]) => IsHdr(table[k]) /\ hdr'[table'[k].val] = hdr[table[k].val],
         \A x \in Writers : wr'[x].pc = "ok" /\ wr'[x].key = k /\ (x = "compact" => HasHdr(k, cp.h)') =>
                              wr'[x] = wr[x] /\ (x = "compact" => HasHdr(k, cp.h)),
         Uses(k, p)'
  PROVE  Uses(k, p) /\ e'.pg[p].version = e.pg[p].version
<1>1. ASSUME NEW at, PlaceData(e, at), Leads(e', at, p)
      PROVE  Leads(e, at, p) /\ e'.pg[p].version = e.pg[p].version
  <2>1. SamePage(e, at) /\ Same(e, e', at.page) /\ at.page = p
    BY <1>1, AgedPlace DEF Leads
  <2> QED BY <2>1 DEF Leads, Same
<1>2. CASE IsHdr(table'[k]) /\ Leads(e', hdr'[table'[k].val], p)
  <2>1. IsHdr(table[k]) /\ Leads(e', hdr[table[k].val], p) /\ PlaceData(e, hdr[table[k].val])
    BY <1>2 DEF TableOK, HdrData
  <2> QED BY <1>1, <2>1 DEF Uses
<1>3. ASSUME NEW x \in Writers, Pending(x, k, p)' PROVE Uses(k, p) /\ e'.pg[p].version = e.pg[p].version
  <2>1. /\ wr[x].pc = "ok" /\ wr[x].key = k /\ Leads(e', wr[x].at, p) /\ (x = "compact" => HasHdr(k, cp.h))
        /\ PlaceData(e, wr[x].at)
    BY <1>3 DEF Pending, WriteData, WriterData
  <2>2. Leads(e, wr[x].at, p) /\ e'.pg[p].version = e.pg[p].version
    BY <1>1, <2>1
  <2> QED BY <2>1, <2>2 DEF Uses, Pending
<1> QED BY <1>2, <1>3 DEF Uses

\* How the users of a page and its count may change together.
Fewer(p) == \A k \in Keys : Uses(k, p)' => Uses(k, p)
Recount(p) ==
  \/ Emptied(p)'
  \/ \A k \in Keys : ~Uses(k, p)'
  \/ ~Emptied(p) /\ Fewer(p) /\ e'.pg[p].objs >= e.pg[p].objs
  \/ /\ ~Emptied(p) /\ Fewer(p) /\ e'.pg[p].objs >= e.pg[p].objs - 1
     /\ \E k \in Keys : Uses(k, p) /\ ~Uses(k, p)'
  \/ /\ ~Emptied(p) /\ e'.pg[p].objs >= e.pg[p].objs + 1
     /\ \E n \in Keys : \A k \in Keys : Uses(k, p)' => Uses(k, p) \/ k = n

LEMMA Recounted ==
  ASSUME Counted, DataOK(e), DataOK(e'), \A p \in Pages : Recount(p)
  PROVE  Counted'
<1> SUFFICES ASSUME NEW p \in Pages PROVE CountedAt(p)'
  BY DEF Counted
<1> DEFINE U == Users(p)
           V == Users(p)'
           n == e.pg[p].objs
           m == e'.pg[p].objs
<1>1. n \in Nat /\ m \in Nat
  BY DEF DataOK, PageData
<1>2. \A k : (k \in U <=> k \in Keys /\ Uses(k, p)) /\ (k \in V <=> k \in Keys /\ Uses(k, p)')
  BY DEF Users
<1>3. ~Emptied(p) => IsFiniteSet(U) /\ Cardinality(U) <= n
  BY DEF Counted, CountedAt
<1>4. (IsFiniteSet(V) /\ Cardinality(V) <= m) => CountedAt(p)'
  BY DEF CountedAt
<1>5. Recount(p)
  OBVIOUS
<1> HIDE DEF U, V, n, m
<1>6. CASE Emptied(p)'
  BY <1>6 DEF CountedAt
<1>7. CASE \A k \in Keys : ~Uses(k, p)'
  <2>1. V = {}
    BY <1>2, <1>7
  <2> QED BY <1>1, <1>4, <2>1, FS_EmptySet
<1>8. CASE ~Emptied(p) /\ Fewer(p) /\ m >= n
  <2>1. V \subseteq U
    BY <1>2, <1>8 DEF Fewer
  <2>2. IsFiniteSet(V) /\ Cardinality(V) <= Cardinality(U) /\ Cardinality(U) \in Nat /\ Cardinality(V) \in Nat
    BY <1>3, <1>8, <2>1, FS_Subset, FS_CardinalityType
  <2> QED BY <1>1, <1>3, <1>4, <1>8, <2>2
<1>9. CASE ~Emptied(p) /\ Fewer(p) /\ m >= n - 1 /\ \E k \in Keys : Uses(k, p) /\ ~Uses(k, p)'
  <2>1. PICK k \in Keys : Uses(k, p) /\ ~Uses(k, p)'
    BY <1>9
  <2>2. V \subseteq U \ {k} /\ k \in U
    BY <1>2, <1>9, <2>1 DEF Fewer
  <2>3. IsFiniteSet(U \ {k}) /\ Cardinality(U \ {k}) = Cardinality(U) - 1 /\ Cardinality(U) \in Nat
    BY <1>3, <1>9, <2>2, FS_RemoveElement, FS_CardinalityType
  <2>4. IsFiniteSet(V) /\ Cardinality(V) <= Cardinality(U \ {k}) /\ Cardinality(V) \in Nat
    BY <2>2, <2>3, FS_Subset, FS_CardinalityType
  <2> QED BY <1>1, <1>3, <1>4, <1>9, <2>3, <2>4
<1>10. CASE ~Emptied(p) /\ m >= n + 1 /\ \E x \in Keys : \A k \in Keys : Uses(k, p)' => Uses(k, p) \/ k = x
  <2>1. PICK x \in Keys : \A k \in Keys : Uses(k, p)' => Uses(k, p) \/ k = x
    BY <1>10
  <2>2. V \subseteq U \cup {x}
    BY <1>2, <2>1
  <2>3. IsFiniteSet(U \cup {x}) /\ Cardinality(U \cup {x}) <= Cardinality(U) + 1 /\ Cardinality(U) \in Nat
        /\ Cardinality(U \cup {x}) \in Nat
    <3>1. IsFiniteSet(U) /\ Cardinality(U) \in Nat
      BY <1>3, <1>10, FS_CardinalityType
    <3>2. IsFiniteSet(U \cup {x}) /\ (Cardinality(U \cup {x}) = Cardinality(U) \/ Cardinality(U \cup {x}) = Cardinality(U) + 1)
      BY <3>1, FS_AddElement
    <3> QED BY <3>1, <3>2
  <2>4. IsFiniteSet(V) /\ Cardinality(V) <= Cardinality(U \cup {x}) /\ Cardinality(V) \in Nat
    BY <2>2, <2>3, FS_Subset, FS_CardinalityType
  <2> QED BY <1>1, <1>3, <1>4, <1>10, <2>3, <2>4
<1> QED BY <1>5, <1>6, <1>7, <1>8, <1>9, <1>10 DEF Recount, n, m

\* What stays as it is when the variables it is about do.
LEMMA ItemFrames ==
  ASSUME ItemInv, DataOK(e'), Ages(e, e'), cfg' = cfg
  PROVE  /\ cfg' \in Configs /\ DataOK(e)'
         /\ UNCHANGED get => GetData'
         /\ UNCHANGED <<table, sets>> => TableData'
         /\ UNCHANGED <<table, hdr>> => HdrData'
         /\ \A x \in Writers : wr'[x] = wr[x] => WriterData(wr[x])'
         /\ UNCHANGED wr => WriteData'
         /\ UNCHANGED <<wr, table, lock>> => WriteLock'
         /\ UNCHANGED <<wr, cp, lock, hdr, table>> => RescueData'
         /\ UNCHANGED cp => CompactData'
         /\ UNCHANGED <<pdata, mt>> => PassData'
         /\ UNCHANGED <<table, hdr>> /\ (cp.pc # "offset" \/ (cp'.pc = cp.pc /\ cp'.h = cp.h)) => HdrsPoint'
<1> USE DEF ItemInv, ItemData
<1>1. cfg' \in Configs /\ DataOK(e)'
  BY Zenon DEF DataOK, PageData
<1>2. UNCHANGED get => GetData'
  BY DEF GetData
<1>3. UNCHANGED <<table, sets>> => TableData'
  BY DEF TableData, IsHdr
<1>4. ASSUME NEW at, PlaceData(e, at)
      PROVE  PlaceData(e', at) /\ \A k \in Keys : Points(e, at, k) => Points(e', at, k)
  BY <1>4, AgedPlace
<1>5. UNCHANGED <<table, hdr>> => HdrData'
  BY <1>4 DEF HdrData, IsHdr
<1>6. ASSUME NEW x \in Writers, wr'[x] = wr[x] PROVE WriterData(wr[x])'
  BY <1>4, <1>6 DEF WriteData, WriterData
<1>7. UNCHANGED wr => WriteData'
  BY <1>6 DEF WriteData
<1>8. UNCHANGED <<wr, table, lock>> => WriteLock'
  BY DEF WriteLock, IsHdr
<1>9. UNCHANGED <<wr, cp, lock, hdr, table>> => RescueData'
  BY DEF RescueData, Rescuing, HasHdr, IsHdr
<1>10. ASSUME NEW p, NEW v, Rested(e, p, v) PROVE Rested(e', p, v)
  BY <1>10, AgedRest
<1>11. ASSUME UNCHANGED cp PROVE CompactData'
  <2>1. Reading' = Reading
    BY <1>11 DEF Reading
  <2>2. cp.on /\ cp.miss => ~SamePage(e', Reading)
    <3> SUFFICES ASSUME cp.on, cp.miss, SamePage(e', Reading) PROVE FALSE
      OBVIOUS
    <3>1. Reading.page \in Pages /\ Reading.version \in 1 .. e.version - 1
      BY DEF CompactData, Rested, Reading, Place, DataOK
    <3> QED BY <3>1, AgedMiss DEF CompactData
  <2> QED BY <1>10, <1>11, <2>1, <2>2 DEF CompactData
<1>12. ASSUME UNCHANGED <<pdata, mt>> PROVE PassData'
  <2>1. mt.low # NULL => ~e'.pg[mt.low].active
    <3> SUFFICES ASSUME mt.low # NULL PROVE ~e'.pg[mt.low].active
      OBVIOUS
    <3>1. mt.low \in Pages /\ ~e.pg[mt.low].free /\ ~e.pg[mt.low].active
      BY DEF IInv, LowInUse, TypeInv, PassOK, PassData
    <3>2. e.pg[mt.low].version # 0
      BY <3>1 DEF DataOK, PageData
    <3> QED BY <3>1, <3>2 DEF Ages, Same, Freed, Fresh
  <2> QED BY <1>10, <1>12, <2>1 DEF PassData
<1>13. ASSUME UNCHANGED <<table, hdr>>, cp.pc # "offset" \/ (cp'.pc = cp.pc /\ cp'.h = cp.h) PROVE HdrsPoint'
  <2> SUFFICES ASSUME NEW k \in Keys, IsHdr(table[k]), ~Torn(k)' PROVE Points(e', hdr[table[k].val], k)
    BY <1>13 DEF HdrsPoint
  <2>1. ~Torn(k)
    BY <1>13 DEF Torn, HasHdr
  <2>2. PlaceData(e, hdr[table[k].val]) /\ Points(e, hdr[table[k].val], k)
    BY <2>1 DEF HdrsPoint, HdrData, IInv, TypeInv, TableOK
  <2> QED BY <1>4, <2>2
<1> QED BY <1>1, <1>2, <1>3, <1>5, <1>6, <1>7, <1>8, <1>9, <1>11, <1>12, <1>13

\* Counts stay right when nothing is counted less and no header changes.
LEMMA CountFrames ==
  ASSUME ItemInv, DataOK(e'), Ages(e, e'), UNCHANGED <<table, hdr>>,
         \A x \in Writers : wr'[x] = wr[x] \/ wr'[x].pc # "ok",
         cp'.h = cp.h \/ wr'["compact"].pc # "ok",
         \A p \in Pages : Counts(e, e', p) \/ Emptied(p)'
  PROVE  /\ \A p \in Pages, k \in Keys : Uses(k, p)' => Uses(k, p) /\ e'.pg[p].version = e.pg[p].version
         /\ cp'.on = cp.on /\ cp'.page = cp.page /\ cp'.version = cp.version => Counted'
<1> USE DEF ItemInv, ItemData
<1>1. ASSUME NEW p \in Pages, NEW k \in Keys, Uses(k, p)' PROVE Uses(k, p) /\ e'.pg[p].version = e.pg[p].version
  <2>1. TableOK
    BY DEF IInv, TypeInv
  <2>2. ASSUME NEW x \in Writers, wr'[x].pc = "ok", x = "compact" => HasHdr(k, cp.h)'
        PROVE  wr'[x] = wr[x] /\ (x = "compact" => HasHdr(k, cp.h))
    BY <2>2 DEF HasHdr
  <2> QED BY <1>1, <2>1, <2>2, UsesFrame
<1>2. ASSUME cp'.on = cp.on, cp'.page = cp.page, cp'.version = cp.version PROVE Counted'
  <2>1. ASSUME NEW p \in Pages PROVE Recount(p)
    <3>1. CASE e'.pg[p].version # e.pg[p].version
      BY <1>1, <3>1 DEF Recount
    <3>2. CASE e'.pg[p].version = e.pg[p].version
      BY <1>1, <1>2, <3>2 DEF Recount, Fewer, Emptied, Counts
    <3> QED BY <3>1, <3>2
  <2> QED BY <2>1, Recounted
<1> QED BY <1>1, <1>2

-----------------------------------------------------------------------------
(* Requests on their way *)

\* A request that is out was out before, in the place that f says.
LEMMA Moved ==
  ASSUME Once, NEW f,
         \A u \in IoThreads, i \in Nat :
           Out(u, i)' => f[u][i] \in Nat /\ Out(u, f[u][i]) /\ ReqAt(u, i)' = ReqAt(u, f[u][i]),
         \A u \in IoThreads, i, j \in Nat : Out(u, i)' /\ Out(u, j)' /\ f[u][i] = f[u][j] => i = j
  PROVE  Once'
<1> SUFFICES ASSUME NEW t \in IoThreads, NEW u \in IoThreads, NEW i \in Nat, NEW j \in Nat,
                    Out(t, i)', Out(u, j)', Alike(ReqAt(t, i)', ReqAt(u, j)')
             PROVE  t = u /\ i = j
  BY DEF Once, Alike
<1>1. Alike(ReqAt(t, f[t][i]), ReqAt(u, f[u][j]))
  OBVIOUS
<1>2. t = u /\ f[t][i] = f[u][j]
  BY <1>1 DEF Once
<1> QED BY <1>2

\* The requests of a queue.
LEMMA QueueShape ==
  ASSUME Engine(e), NEW t \in IoThreads
  PROVE  \E S : e.queue[t] \in Seq(S) /\ \A r \in S : r.mode = "R" => r.at.page \in Pages
BY DEF Engine, Requests

\* Nothing is queued, read or answered.
LEMMA ReqsSame ==
  ASSUME ReqsOK, e'.queue = e.queue, io' = io, \A r : Expected(r) => Expected(r)'
  PROVE  ReqsOK'
<1>1. \A t \in IoThreads, i \in Nat : (Out(t, i)' <=> Out(t, i)) /\ ReqAt(t, i)' = ReqAt(t, i)
  BY DEF Out, ReqAt
<1>2. Once'
  BY <1>1 DEF ReqsOK, Once, Alike
<1> QED BY <1>1, <1>2 DEF ReqsOK, Held

\* A request is queued for whom none is out.
LEMMA ReqsSubmit ==
  ASSUME ReqsOK, Engine(e), NEW v, NEW req, e'.queue = [e.queue EXCEPT ![v] = Append(@, req)], io' = io,
         \A r : Expected(r) => ~Alike(r, req) /\ Expected(r)', Expected(req)'
  PROVE  ReqsOK'
<1>1. ASSUME NEW t \in IoThreads, NEW i \in Nat, Out(t, i)'
      PROVE  \/ Out(t, i) /\ ReqAt(t, i)' = ReqAt(t, i)
             \/ t = v /\ i = Len(e.queue[t]) + 1 /\ ReqAt(t, i)' = req
  <2>1. CASE i = 0 \/ t # v
    BY <1>1, <2>1 DEF Out, ReqAt, Engine
  <2>2. CASE i # 0 /\ t = v
    <3>1. PICK S : e.queue[t] \in Seq(S)
      BY QueueShape
    <3>2. PICK q : q = e.queue[t]
      OBVIOUS
    <3>3. e'.queue[t] = Append(q, req)
      BY <2>2, <3>2 DEF Engine
    <3>4. i \in DOMAIN Append(q, req)
      BY <1>1, <2>2, <3>3 DEF Out
    <3>5. (i \in DOMAIN q /\ Append(q, req)[i] = q[i]) \/ (i = Len(q) + 1 /\ Append(q, req)[i] = req)
      BY <3>1, <3>2, <3>4
    <3> QED BY <2>2, <3>2, <3>3, <3>5 DEF Out, ReqAt
  <2> QED BY <2>1, <2>2
<1>2. \A t \in IoThreads, i \in Nat : Out(t, i) => ~Alike(ReqAt(t, i), req) /\ ~Alike(req, ReqAt(t, i))
  BY DEF ReqsOK, Alike
<1>3. Once'
  <2> SUFFICES ASSUME NEW t \in IoThreads, NEW u \in IoThreads, NEW i \in Nat, NEW j \in Nat,
                      Out(t, i)', Out(u, j)', Alike(ReqAt(t, i)', ReqAt(u, j)')
               PROVE  t = u /\ i = j
    BY DEF Once, Alike
  <2>1. CASE Out(t, i) /\ ReqAt(t, i)' = ReqAt(t, i) /\ Out(u, j) /\ ReqAt(u, j)' = ReqAt(u, j)
    BY <2>1 DEF ReqsOK, Once
  <2>2. CASE Out(t, i) /\ ReqAt(t, i)' = ReqAt(t, i) /\ ReqAt(u, j)' = req
    BY <1>2, <2>2
  <2>3. CASE ReqAt(t, i)' = req /\ Out(u, j) /\ ReqAt(u, j)' = ReqAt(u, j)
    BY <1>2, <2>3
  <2>4. CASE t = v /\ i = Len(e.queue[t]) + 1 /\ u = v /\ j = Len(e.queue[u]) + 1
    BY <2>4
  <2> QED BY <1>1, <2>1, <2>2, <2>3, <2>4
<1>4. ASSUME NEW t \in IoThreads, NEW i \in Nat, Out(t, i)' PROVE \A r : r = ReqAt(t, i)' => Expected(r)'
  BY <1>1, <1>4 DEF ReqsOK
<1> QED BY <1>3, <1>4 DEF ReqsOK, Held

\* A request leaves its queue: no other of its page or reader was out.
LEMMA ReqsPop ==
  ASSUME ReqsOK, Engine(e), NEW t \in IoThreads, e.queue[t] # <<>>, io' = io,
         e'.queue = [e.queue EXCEPT ![t] = Tail(@)],
         \A r : Expected(r) /\ ~Alike(r, Head(e.queue[t])) => Expected(r)'
  PROVE  ReqsOK'
<1> DEFINE f == [u \in IoThreads |-> [i \in Nat |-> IF u = t /\ i # 0 THEN i + 1 ELSE i]]
<1>1. PICK q : q = e.queue[t]
  OBVIOUS
<1>2. /\ \A u \in IoThreads : e'.queue[u] = IF u = t THEN Tail(q) ELSE e.queue[u]
      /\ DOMAIN q = 1 .. Len(q) /\ Len(q) \in Nat \ {0} /\ Head(q) = q[1]
      /\ \A i \in DOMAIN Tail(q) : i \in Nat \ {0} /\ i + 1 \in DOMAIN q /\ Tail(q)[i] = q[i + 1]
  <2>1. PICK S : q \in Seq(S)
    BY <1>1, QueueShape
  <2>2. q # <<>>
    BY <1>1
  <2>3. DOMAIN q = 1 .. Len(q) /\ Len(q) \in Nat \ {0} /\ Head(q) = q[1]
    BY <2>1, <2>2
  <2>4. \A i \in DOMAIN Tail(q) : i \in Nat \ {0} /\ i + 1 \in DOMAIN q /\ Tail(q)[i] = q[i + 1]
    BY <2>1, <2>2
  <2>5. \A u \in IoThreads : e'.queue[u] = IF u = t THEN Tail(q) ELSE e.queue[u]
    BY <1>1 DEF Engine
  <2> QED BY <2>3, <2>4, <2>5
<1>3. ASSUME NEW u \in IoThreads, NEW i \in Nat, Out(u, i)'
      PROVE  /\ f[u][i] \in Nat /\ Out(u, f[u][i]) /\ ReqAt(u, i)' = ReqAt(u, f[u][i])
             /\ u = t => f[u][i] # 1
  <2>1. CASE i = 0
    BY <1>3, <2>1 DEF Out, ReqAt
  <2>2. CASE i # 0 /\ u # t
    BY <1>2, <1>3, <2>2 DEF Out, ReqAt
  <2>3. CASE i # 0 /\ u = t
    <3>1. e'.queue[t] = Tail(q) /\ i \in DOMAIN Tail(q) /\ f[u][i] = i + 1
      BY <1>2, <1>3, <2>3 DEF Out
    <3>2. i + 1 \in DOMAIN q /\ Tail(q)[i] = q[i + 1] /\ i + 1 \in Nat /\ i + 1 # 0 /\ i + 1 # 1
      BY <1>2, <2>3, <3>1
    <3> HIDE DEF f
    <3> QED BY <1>1, <2>3, <3>1, <3>2 DEF Out, ReqAt
  <2> QED BY <2>1, <2>2, <2>3
<1>4. \A u \in IoThreads, i, j \in Nat : Out(u, i)' /\ Out(u, j)' /\ f[u][i] = f[u][j] => i = j
  OBVIOUS
<1> HIDE DEF f
<1>5. Once'
  BY <1>3, <1>4, Moved DEF ReqsOK
<1>6. ASSUME NEW u \in IoThreads, NEW i \in Nat, Out(u, i)' PROVE \A r : r = ReqAt(u, i)' => Expected(r)'
  <2>1. PICK j \in Nat : Out(u, j) /\ ReqAt(u, i)' = ReqAt(u, j) /\ (u = t => j # 1)
    BY <1>3, <1>6
  <2>2. Out(t, 1) /\ ReqAt(t, 1) = Head(q)
    BY <1>1, <1>2 DEF Out, ReqAt
  <2>3. ~Alike(ReqAt(u, j), Head(q))
    BY <2>1, <2>2 DEF ReqsOK, Once
  <2>4. Expected(ReqAt(u, j))
    BY <2>1 DEF ReqsOK
  <2> QED BY <1>1, <2>1, <2>3, <2>4
<1> QED BY <1>5, <1>6 DEF ReqsOK, Held

\* A request leaves its queue, and its page is going to be read.
LEMMA ReqsHold ==
  ASSUME ReqsOK, Engine(e), IoOK, NEW t \in IoThreads, e.queue[t] # <<>>, io[t].pc = "wait",
         io' = [io EXCEPT ![t] = [pc |-> "pread", req |-> Head(e.queue[t])]],
         e'.queue = [e.queue EXCEPT ![t] = Tail(@)], Head(e.queue[t]).mode = "R", \A r : Expected(r) => Expected(r)'
  PROVE  ReqsOK'
<1> DEFINE f == [u \in IoThreads |-> [i \in Nat |-> IF u = t THEN i + 1 ELSE i]]
<1>1. PICK q : q = e.queue[t]
  OBVIOUS
<1>2. /\ \A u \in IoThreads : e'.queue[u] = IF u = t THEN Tail(q) ELSE e.queue[u]
      /\ DOMAIN q = 1 .. Len(q) /\ Len(q) \in Nat \ {0} /\ Head(q) = q[1]
      /\ \A i \in DOMAIN Tail(q) : i \in Nat \ {0} /\ i + 1 \in DOMAIN q /\ Tail(q)[i] = q[i + 1]
      /\ \A u \in IoThreads : io'[u] = IF u = t THEN [pc |-> "pread", req |-> Head(q)] ELSE io[u]
  <2>1. PICK S : q \in Seq(S)
    BY <1>1, QueueShape
  <2>2. q # <<>>
    BY <1>1
  <2>3. DOMAIN q = 1 .. Len(q) /\ Len(q) \in Nat \ {0} /\ Head(q) = q[1]
    BY <2>1, <2>2
  <2>4. \A i \in DOMAIN Tail(q) : i \in Nat \ {0} /\ i + 1 \in DOMAIN q /\ Tail(q)[i] = q[i + 1]
    BY <2>1, <2>2
  <2>5. \A u \in IoThreads : e'.queue[u] = IF u = t THEN Tail(q) ELSE e.queue[u]
    BY <1>1 DEF Engine
  <2> QED BY <1>1, <2>3, <2>4, <2>5 DEF IoOK
<1>3. ASSUME NEW u \in IoThreads, NEW i \in Nat, Out(u, i)'
      PROVE  f[u][i] \in Nat /\ Out(u, f[u][i]) /\ ReqAt(u, i)' = ReqAt(u, f[u][i])
  <2>1. CASE u # t
    BY <1>2, <1>3, <2>1 DEF Out, ReqAt
  <2>2. CASE u = t /\ i = 0
    BY <1>1, <1>2, <2>2 DEF Out, ReqAt
  <2>3. CASE u = t /\ i # 0
    <3>1. e'.queue[t] = Tail(q) /\ i \in DOMAIN Tail(q) /\ f[u][i] = i + 1
      BY <1>2, <1>3, <2>3 DEF Out
    <3>2. i + 1 \in DOMAIN q /\ Tail(q)[i] = q[i + 1] /\ i + 1 \in Nat /\ i + 1 # 0 /\ i + 1 # 1
      BY <1>2, <2>3, <3>1
    <3> HIDE DEF f
    <3> QED BY <1>1, <2>3, <3>1, <3>2 DEF Out, ReqAt
  <2> QED BY <2>1, <2>2, <2>3
<1>4. \A u \in IoThreads, i, j \in Nat : Out(u, i)' /\ Out(u, j)' /\ f[u][i] = f[u][j] => i = j
  OBVIOUS
<1> HIDE DEF f
<1>5. Once'
  BY <1>3, <1>4, Moved DEF ReqsOK
<1>6. Held'
  BY <1>1, <1>2 DEF ReqsOK, Held
<1> QED BY <1>3, <1>5, <1>6 DEF ReqsOK

\* A read is answered; the page is still held.
LEMMA ReqsRead ==
  ASSUME ReqsOK, IoOK, NEW t \in IoThreads, io[t].pc = "pread", e'.queue = e.queue,
         io' = [io EXCEPT ![t] = [io[t] EXCEPT !.pc = "unref"]],
         \A r : Expected(r) /\ ~Alike(r, io[t].req) => Expected(r)'
  PROVE  ReqsOK'
<1>1. io'[t].pc = "unref" /\ \A u \in IoThreads : u # t => io'[u] = io[u]
  BY DEF IoOK
<1>2. ASSUME NEW u \in IoThreads, NEW i \in Nat, Out(u, i)'
      PROVE  Out(u, i) /\ ReqAt(u, i)' = ReqAt(u, i) /\ (u = t => i # 0)
  BY <1>1, <1>2 DEF Out, ReqAt
<1>3. Once'
  BY <1>2 DEF ReqsOK, Once, Alike
<1>4. ASSUME NEW u \in IoThreads, NEW i \in Nat, Out(u, i)' PROVE \A r : r = ReqAt(u, i)' => Expected(r)'
  <2>1. Out(t, 0) /\ ReqAt(t, 0) = io[t].req
    BY DEF Out, ReqAt
  <2>2. ~Alike(ReqAt(u, i), io[t].req)
    BY <1>2, <1>4, <2>1 DEF ReqsOK, Once
  <2>3. Expected(ReqAt(u, i))
    BY <1>2, <1>4 DEF ReqsOK
  <2> QED BY <1>2, <1>4, <2>2, <2>3
<1>5. Held'
  BY <1>1 DEF ReqsOK, Held
<1> QED BY <1>3, <1>4, <1>5 DEF ReqsOK

\* A page is held no longer.
LEMMA ReqsUnref ==
  ASSUME ReqsOK, IoOK, NEW t \in IoThreads, io[t].pc = "unref", e'.queue = e.queue,
         io' = [io EXCEPT ![t] = NoIo], \A r : Expected(r) => Expected(r)'
  PROVE  ReqsOK'
<1>1. io'[t].pc = "wait" /\ \A u \in IoThreads : u # t => io'[u] = io[u]
  BY DEF IoOK, NoIo
<1>2. ASSUME NEW u \in IoThreads, NEW i \in Nat, Out(u, i)'
      PROVE  Out(u, i) /\ ReqAt(u, i)' = ReqAt(u, i)
  BY <1>1, <1>2 DEF Out, ReqAt
<1>3. Once'
  BY <1>2 DEF ReqsOK, Once, Alike
<1>4. Held'
  BY <1>1 DEF ReqsOK, Held
<1> QED BY <1>2, <1>3, <1>4 DEF ReqsOK

\* What is out is expected still when buffers stay and nobody's wait ends.
LEMMA ExpectFrames ==
  ASSUME \A p \in Pages : Buffers(e, e', p),
         \A g \in Getters : get[g].pc = "wait" => get'[g].pc = "wait",
         Waiting => Waiting' /\ cp'.page = cp.page /\ cp'.version = cp.version /\ cp'.w = cp.w
  PROVE  \A r : Expected(r) => Expected(r)'
BY DEF Expected, OfPage, OfGet, OfCompactor, Buffers

-----------------------------------------------------------------------------
(* Steps that leave headers and writers alone *)

\* The parts of the invariant that say what a getter, the maintenance thread
\* or a request does are left to the step.
LEMMA Quiet ==
  ASSUME ItemInv, DataOK(e'), Ages(e, e'), \A p \in Pages : Counts(e, e', p),
         UNCHANGED <<cfg, table, hdr, wr, cp, lock, sets>>, ReqsOK', GetData', PassData'
  PROVE  ItemData'
<1>1. Counted'
  BY CountFrames
<1>2. cfg' \in Configs /\ DataOK(e)' /\ TableData' /\ HdrData' /\ WriteData' /\ WriteLock'
  BY ItemFrames
<1>3. RescueData' /\ CompactData' /\ HdrsPoint'
  BY ItemFrames
<1> QED BY <1>1, <1>2, <1>3 DEF ItemData

\* The compactor, when it writes no item, may change what it reads.
LEMMA Turn ==
  ASSUME ItemInv, DataOK(e'), Ages(e, e'), UNCHANGED <<cfg, table, hdr, wr, lock, sets>>,
         ~Rescuing, ~Rescuing', ReqsOK', GetData', PassData', CompactData', Counted'
  PROVE  ItemData'
<1>1. cp.pc # "offset" /\ wr["compact"].pc = "idle"
  BY DEF ItemInv, ItemData, Rescuing, RescueData
<1>2. cfg' \in Configs /\ DataOK(e)' /\ TableData' /\ HdrData' /\ WriteData' /\ WriteLock' /\ HdrsPoint'
  BY <1>1, ItemFrames
<1>3. RescueData'
  BY <1>1 DEF RescueData, Rescuing
<1> QED BY <1>2, <1>3 DEF ItemData

\* Counts, when the compactor goes on with its page, or leaves or takes one.
LEMMA TurnCounts ==
  ASSUME ItemInv, DataOK(e'), Ages(e, e'), UNCHANGED <<table, hdr, wr>>, ~Rescuing,
         \A p \in Pages : Counts(e, e', p)
  PROVE  /\ cp'.on = cp.on /\ cp'.page = cp.page /\ cp'.version = cp.version => Counted'
         /\ ~cp.on => Counted'
         /\ ~SamePage(e', Reading) => Counted'
<1>1. wr["compact"].pc = "idle" /\ wr' = wr
  BY DEF ItemInv, ItemData, Rescuing, RescueData
<1>2. \A p \in Pages, k \in Keys : Uses(k, p)' => Uses(k, p) /\ e'.pg[p].version = e.pg[p].version
  BY <1>1, CountFrames
<1>3. cp'.on = cp.on /\ cp'.page = cp.page /\ cp'.version = cp.version => Counted'
  BY <1>1, CountFrames
<1>4. ASSUME ~cp.on \/ ~SamePage(e', Reading), NEW p \in Pages PROVE Recount(p)
  <2>1. CASE e'.pg[p].version # e.pg[p].version
    BY <1>2, <2>1 DEF Recount
  <2>2. CASE e'.pg[p].version = e.pg[p].version /\ ~Emptied(p)
    BY <1>2, <2>2 DEF Recount, Fewer, Counts
  <2>3. CASE e'.pg[p].version = e.pg[p].version /\ Emptied(p)
    <3>1. e'.pg[p].closed
      BY <1>4, <2>3 DEF Emptied, SamePage, Reading, Place
    <3>2. \A k \in Keys : ~Uses(k, p)'
      BY <3>1 DEF Uses, Pending, Leads, SamePage
    <3> QED BY <3>2 DEF Recount
  <2> QED BY <2>1, <2>2, <2>3
<1>5. ~cp.on \/ ~SamePage(e', Reading) => Counted'
  BY <1>4, Recounted DEF ItemInv, ItemData
<1> QED BY <1>3, <1>5

\* A value in memory, or none, takes the place of headers, of which one is
\* no longer counted.
LEMMA Removed ==
  ASSUME ItemInv, UNCHANGED <<cfg, hdr, wr, cp, lock, pdata, mt, io>>,
         \A j \in Keys : IsHdr(table'[j]) => table'[j] = table[j],
         NEW k \in Keys, e' = e \/ (e' = STORAGE_delete(e, table[k]) /\ ~IsHdr(table'[k])),
         TableData', GetData', \A g \in Getters : get[g].pc = "wait" => get'[g].pc = "wait"
  PROVE  ItemData'
<1> USE DEF ItemInv, ItemData
<1> DEFINE at == hdr[table[k].val]
<1>1. Engine(e) /\ TableOK
  BY DEF IInv, TypeInv
<1>2. /\ DataOK(e') /\ Ages(e, e') /\ e'.queue = e.queue /\ \A p \in Pages : Buffers(e, e', p)
      /\ \/ \A p \in Pages : Counts(e, e', p)
         \/ IsHdr(table[k]) /\ ~IsHdr(table'[k]) /\ Lessened(e, e', at)
  <2>1. CASE e' = e \/ ~IsHdr(table[k])
    <3>1. e' = e
      BY <2>1 DEF STORAGE_delete
    <3> QED BY <1>1, <3>1, BareSteady DEF Steady, Bare
  <2>2. CASE IsHdr(table[k]) /\ ~IsHdr(table'[k]) /\ e' = STORAGE_delete(e, table[k])
    <3>1. e' = extstore_delete(e, at)
      BY <2>2 DEF STORAGE_delete
    <3> QED BY <1>1, <2>2, <3>1, DeleteLess
  <2> QED BY <2>1, <2>2
<1>3. \A h : \A j \in Keys : HasHdr(j, h)' => HasHdr(j, h) /\ table'[j] = table[j]
  BY DEF HasHdr
<1>4. ReqsOK'
  <2>1. \A r : Expected(r) => Expected(r)'
    BY <1>2, ExpectFrames DEF Waiting
  <2> QED BY <1>2, <2>1, ReqsSame
<1>5. HdrData'
  <2>1. \A i \in DOMAIN hdr : PlaceData(e', hdr[i])
    BY <1>2, AgedPlace DEF HdrData
  <2> QED BY <2>1 DEF HdrData
<1>6. WriteLock'
  BY DEF WriteLock, WriteData, WriterData, Writers
<1>7. RescueData'
  BY <1>3 DEF RescueData, Rescuing
<1>8. HdrsPoint'
  <2> SUFFICES ASSUME NEW j \in Keys, IsHdr(table'[j]), ~Torn(j)' PROVE Points(e', hdr[table[j].val], j)
    BY DEF HdrsPoint
  <2>1. ~Torn(j) /\ IsHdr(table[j])
    BY DEF Torn, HasHdr
  <2> QED BY <1>1, <1>2, <2>1, AgedPlace DEF HdrsPoint, HdrData, TableOK
<1>9. Counted'
  <2>1. ASSUME NEW p \in Pages, NEW j \in Keys, Uses(j, p)' PROVE Uses(j, p) /\ e'.pg[p].version = e.pg[p].version
    BY <1>1, <1>2, <1>3, <2>1, UsesFrame
  <2>2. ASSUME NEW p \in Pages PROVE Recount(p)
    <3>1. CASE e'.pg[p].version # e.pg[p].version
      BY <2>1, <3>1 DEF Recount
    <3>2. CASE Emptied(p) /\ e'.pg[p].version = e.pg[p].version
      BY <3>2 DEF Recount, Emptied
    <3>3. CASE ~Emptied(p) /\ Counts(e, e', p) /\ e'.pg[p].version = e.pg[p].version
      BY <2>1, <3>3 DEF Recount, Fewer, Counts
    <3>4. CASE ~Emptied(p) /\ IsHdr(table[k]) /\ ~IsHdr(table'[k]) /\ Leads(e, at, p) /\ e'.pg[p].objs >= e.pg[p].objs - 1
      <4>1. Uses(k, p)
        BY <3>4 DEF Uses
      <4>2. ~Uses(k, p)'
        BY <3>4 DEF Uses, Pending, WriteLock, HasHdr, Writers
      <4> QED BY <2>1, <3>4, <4>1, <4>2 DEF Recount, Fewer
    <3> QED BY <1>2, <3>1, <3>2, <3>3, <3>4 DEF Lessened
  <2> QED BY <1>2, <2>2, Recounted
<1>10. cfg' \in Configs /\ DataOK(e)' /\ WriteData' /\ CompactData' /\ PassData'
  BY <1>2, ItemFrames
<1> QED BY <1>4, <1>5, <1>6, <1>7, <1>8, <1>9, <1>10

-----------------------------------------------------------------------------
(* Commands *)

\* Nothing in the engine changes.
LEMMA EngineStays ==
  ASSUME ItemInv, e' = e
  PROVE  DataOK(e') /\ Ages(e, e') /\ \A p \in Pages : Counts(e, e', p) /\ Buffers(e, e', p)
BY BareSteady DEF ItemInv, ItemData, Steady, Bare

LEMMA SetStep == ASSUME ItemInv, NEW k \in Keys, Set(k) PROVE ItemData'
<1>1. /\ DOMAIN table = Keys /\ table' = [table EXCEPT ![k] = InMem(sets')] /\ sets' = sets + 1
      /\ e' = STORAGE_delete(e, table[k]) /\ UNCHANGED <<cfg, hdr, wr, cp, lock, pdata, mt, io, get>>
  BY DEF Set, Clients, ItemInv, IInv, TypeInv, TableOK
<1>2. ~IsHdr(table'[k]) /\ \A j \in Keys : IsHdr(table'[j]) => table'[j] = table[j]
  BY <1>1, NotHdr
<1>3. TableData'
  <2>1. sets' \in Nat /\ InMem(sets').val = sets'
    BY <1>1 DEF ItemInv, ItemData, TableData, InMem
  <2> QED BY <1>1, <2>1 DEF ItemInv, ItemData, TableData, IsHdr
<1>4. GetData'
  BY <1>1 DEF ItemInv, ItemData, GetData
<1> QED BY <1>1, <1>2, <1>3, <1>4, Removed

LEMMA UnlinkStep == ASSUME ItemInv, NEW k \in Keys, Unlink(k) PROVE ItemData'
<1>1. /\ DOMAIN table = Keys /\ table' = [table EXCEPT ![k] = NULL] /\ sets' = sets
      /\ e' = STORAGE_delete(e, table[k]) /\ UNCHANGED <<cfg, hdr, wr, cp, lock, pdata, mt, io, get>>
  BY DEF Unlink, Clients, ItemInv, IInv, TypeInv, TableOK
<1>2. ~IsHdr(table'[k]) /\ \A j \in Keys : IsHdr(table'[j]) => table'[j] = table[j]
  BY <1>1, NotHdr
<1>3. TableData'
  BY <1>1 DEF ItemInv, ItemData, TableData, IsHdr
<1>4. GetData'
  BY <1>1 DEF ItemInv, ItemData, GetData
<1> QED BY <1>1, <1>2, <1>3, <1>4, Removed

\* A get goes on, and does not wait.
LEMMA GetGoesOn ==
  ASSUME ItemInv, NEW g \in Getters, NEW x, GetIs(g, x), UNCHANGED <<cfg, e, table, hdr, lock, sets, pdata, mt, io, wr, cp>>,
         get[g].pc # "wait", x.pc # "idle" => x.key \in Keys, x.pc = "done" => x.miss
  PROVE  ItemData'
<1>1. DOMAIN get = Getters /\ get' = [get EXCEPT ![g] = x]
  BY DEF ItemInv, IInv, TypeInv, GetsOK, GetIs
<1>2. get'[g] = x /\ \A f \in Getters : f # g => get'[f] = get[f]
  BY <1>1
<1>3. GetData'
  BY <1>2 DEF ItemInv, ItemData, GetData
<1>4. DataOK(e') /\ Ages(e, e') /\ \A p \in Pages : Counts(e, e', p) /\ Buffers(e, e', p)
  BY EngineStays
<1>5. \A r : Expected(r) => Expected(r)'
  BY <1>2, <1>4, ExpectFrames DEF Waiting
<1>6. ReqsOK'
  BY <1>5, ReqsSame DEF ItemInv, ItemData
<1>7. PassData'
  BY <1>4, ItemFrames
<1> QED BY <1>3, <1>4, <1>6, <1>7, Quiet

LEMMA GetBeginStep == ASSUME ItemInv, NEW g \in Getters, NEW k \in Keys, GetBegin(g, k) PROVE ItemData'
BY GetGoesOn DEF GetBegin, Clients, NoGet

LEMMA GetPageStep == ASSUME ItemInv, NEW g \in Getters, GetPage(g) PROVE ItemData'
<1> DEFINE x == [get[g] EXCEPT !.pc = "offset", !.at = Place(hdr[get[g].h].page, hdr[get[g].h].version, NULL)]
<1>1. x.pc = "offset" /\ x.key = get[g].key
  BY DEF ItemInv, IInv, TypeInv, GetsOK, NoGet
<1>2. get[g].key \in Keys /\ get[g].pc = "page" /\ GetIs(g, x)
  BY DEF ItemInv, ItemData, GetData, GetPage
<1> HIDE DEF x
<1> QED BY <1>1, <1>2, GetGoesOn DEF GetPage, Clients

LEMMA GetSubmitStep == ASSUME ItemInv, NEW g \in Getters, GetSubmit(g) PROVE ItemData'
<1> DEFINE at == [get[g].at EXCEPT !.off = hdr[get[g].h].off]
           x == [get[g] EXCEPT !.pc = "wait", !.at = at]
           req == [mode |-> "R", at |-> at, who |-> g]
<1>1. /\ get[g].pc = "offset" /\ e' = extstore_submit(e, req) /\ get' = [get EXCEPT ![g] = x]
      /\ UNCHANGED <<cfg, table, hdr, lock, sets, pdata, mt, io, wr, cp>>
  BY DEF GetSubmit, GetIs, Clients
<1>2. DOMAIN get = Getters /\ PlaceOK(get[g].at) /\ get[g].h \in DOMAIN hdr /\ DOMAIN get[g] = DOMAIN NoGet
  BY <1>1 DEF ItemInv, IInv, TypeInv, GetsOK
<1>3. x.pc = "wait" /\ x.key = get[g].key
  BY <1>2 DEF NoGet
<1>4. req.mode = "R" /\ req.who = g /\ req.at.page \in Pages /\ req.at.off \in Offs
  BY <1>2 DEF PlaceOK, PlaceFields, ItemInv, ItemData, HdrData, PlaceData
<1> HIDE DEF x, req, at
<1>5. get'[g] = x /\ \A f \in Getters : f # g => get'[f] = get[f]
  BY <1>1, <1>2
<1>6. GetData'
  BY <1>1, <1>3, <1>5 DEF ItemInv, ItemData, GetData
<1>7. Engine(e) /\ DataOK(e)
  BY DEF ItemInv, ItemData, IInv, TypeInv
<1>8. Bare(e, e') /\ \E u : e'.queue = [e.queue EXCEPT ![u] = Append(@, req)]
  BY <1>1, <1>7, SubmitBare
<1>9. DataOK(e') /\ Ages(e, e') /\ \A p \in Pages : Counts(e, e', p) /\ Buffers(e, e', p)
  BY <1>7, <1>8, BareSteady DEF Steady
<1>10. \A r : Expected(r) => ~Alike(r, req) /\ Expected(r)'
  <2>1. \A r : Expected(r) => Expected(r)'
    BY <1>1, <1>5, <1>9, ExpectFrames DEF Waiting
  <2>2. \A r : Expected(r) => ~Alike(r, req)
    <3>1. g # "compact" /\ "R" # "W"
      BY MemExtAssumption DEF Writers
    <3> QED BY <1>1, <1>4, <3>1 DEF Expected, OfPage, OfGet, OfCompactor, Alike
  <2> QED BY <2>1, <2>2
<1>11. PICK r : r = req
  OBVIOUS
<1>12. Expected(r)'
  BY <1>3, <1>4, <1>5, <1>11 DEF Expected, OfGet
<1>13. ReqsOK'
  BY <1>1, <1>7, <1>8, <1>10, <1>11, <1>12, ReqsSubmit DEF ItemInv, ItemData
<1>14. PassData'
  BY <1>1, <1>9, ItemFrames
<1> QED BY <1>1, <1>6, <1>9, <1>13, <1>14, Quiet

LEMMA GetEndStep == ASSUME ItemInv, NEW g \in Getters, NEW recache \in BOOLEAN, GetEnd(g, recache) PROVE ItemData'
<1> DEFINE x == get[g]
           again == recache /\ cfg.recache /\ ~x.miss /\ Linked(x) /\ lock[x.item.key] = NULL
           gone == [table EXCEPT ![x.key] = IF Linked(x) THEN NULL ELSE @]
<1>1. /\ x.pc = "done" /\ e' = IF again THEN STORAGE_delete(e, table[x.key]) ELSE e
      /\ table' = IF x.miss THEN gone
                  ELSE IF again THEN [gone EXCEPT ![x.item.key] = InMem(x.item.val)] ELSE table
      /\ get' = [get EXCEPT ![g] = NoGet] /\ UNCHANGED <<cfg, hdr, wr, cp, lock, pdata, mt, io, sets>>
  BY DEF GetEnd, GetIs, Clients
<1>2. DOMAIN table = Keys /\ DOMAIN get = Getters
  BY DEF ItemInv, IInv, TypeInv, TableOK, GetsOK
<1>3. x.key \in Keys /\ (~x.miss => x.item \in Items)
  BY <1>1 DEF ItemInv, ItemData, GetData
<1>4. DOMAIN gone = Keys /\ \A j \in Keys : gone[j] = IF j = x.key /\ Linked(x) THEN NULL ELSE table[j]
  BY <1>2
<1>5. again => x.item.key \in Keys /\ x.item.val \in Nat
  BY <1>3 DEF Items
<1>6. \A j \in Keys : \/ table'[j] = table[j]
                      \/ table'[j] = NULL
                      \/ again /\ table'[j] = InMem(x.item.val)
  BY <1>1, <1>4, <1>5
<1>7. again => ~IsHdr(table'[x.key])
  <2> SUFFICES ASSUME again PROVE ~IsHdr(table'[x.key])
    OBVIOUS
  <2>1. gone[x.key] = NULL
    BY <1>3, <1>4
  <2>2. table' = [gone EXCEPT ![x.item.key] = InMem(x.item.val)]
    BY <1>1
  <2> HIDE DEF gone
  <2>3. table'[x.key] = NULL \/ table'[x.key] = InMem(x.item.val)
    BY <1>3, <1>4, <2>1, <2>2
  <2> QED BY <2>3, NotHdr
<1>8. e' = e \/ (e' = STORAGE_delete(e, table[x.key]) /\ ~IsHdr(table'[x.key]))
  BY <1>1, <1>7
<1>9. get'[g] = NoGet /\ \A f \in Getters : f # g => get'[f] = get[f]
  BY <1>1, <1>2
<1>10. GetData'
  BY <1>9 DEF ItemInv, ItemData, GetData, NoGet
<1>11. \A f \in Getters : get[f].pc = "wait" => get'[f].pc = "wait"
  BY <1>1, <1>9
<1> HIDE DEF again, gone
<1>12. \A j \in Keys : IsHdr(table'[j]) => table'[j] = table[j]
  BY <1>6, NotHdr
<1>13. TableData'
  <2>1. again => InMem(x.item.val).val \in Nat
    BY <1>5 DEF InMem
  <2> QED BY <1>1, <1>6, <2>1 DEF ItemInv, ItemData, TableData, IsHdr
<1> QED BY <1>1, <1>3, <1>8, <1>10, <1>11, <1>12, <1>13, Removed

-----------------------------------------------------------------------------
(* The writers *)

LEMMA WritersShape ==
  ItemInv => DOMAIN wr = Writers /\ \A x \in Writers : DOMAIN wr[x] = {"pc", "page", "at", "key", "item"}
BY DEF ItemInv, IInv, TypeInv, WritersOK, NoWrite

\* A request goes on, and has written nothing.
LEMMA WriterMoves ==
  ASSUME ItemInv, NEW x \in Writers, DataOK(e'), Ages(e, e'), \A p \in Pages : Counts(e, e', p), ReqsOK',
         UNCHANGED <<cfg, pdata, mt, io, table, hdr, lock, cp, get, sets>>,
         wr[x].pc \notin {"idle", "ok"}, NEW w, wr' = [wr EXCEPT ![x] = w], w.pc \notin {"idle", "ok"},
         w.key = wr[x].key, w.item = wr[x].item
  PROVE  ItemData'
<1>1. wr'[x] = w /\ \A y \in Writers : y # x => wr'[y] = wr[y]
  BY WritersShape
<1>2. Counted'
  BY <1>1, CountFrames
<1>3. cfg' \in Configs /\ DataOK(e)' /\ GetData' /\ TableData' /\ HdrData' /\ CompactData' /\ PassData' /\ HdrsPoint'
  BY ItemFrames
<1>4. WriteData'
  <2>1. ASSUME NEW y \in Writers PROVE WriterData(wr[y])'
    <3>1. CASE y = x
      BY <1>1, <3>1 DEF ItemInv, ItemData, WriteData, WriterData
    <3>2. CASE y # x
      BY <1>1, <3>2, ItemFrames
    <3> QED BY <3>1, <3>2
  <2> QED BY <2>1 DEF WriteData
<1>5. WriteLock'
  BY <1>1 DEF ItemInv, ItemData, WriteLock, Writers
<1>6. RescueData'
  <2>1. CASE x = "compact"
    BY <1>1, <2>1 DEF ItemInv, ItemData, RescueData, Rescuing, HasHdr
  <2>2. CASE x # "compact"
    BY <1>1, <2>2 DEF ItemInv, ItemData, RescueData, Rescuing, HasHdr, Writers
  <2> QED BY <2>1, <2>2
<1> QED BY <1>2, <1>3, <1>4, <1>5, <1>6 DEF ItemData

\* Nothing is queued.
LEMMA NoneQueued ==
  ASSUME ItemInv, e'.queue = e.queue, UNCHANGED <<io, get, cp, cfg>>, \A p \in Pages : Buffers(e, e', p)
  PROVE  ReqsOK'
<1>1. \A r : Expected(r) => Expected(r)'
  BY ExpectFrames DEF Waiting
<1> QED BY <1>1, ReqsSame DEF ItemInv, ItemData

\* The bucket gets a new page, or none is free.
LEMMA PageTaken ==
  ASSUME ItemInv, NEW b \in Buckets
  PROVE  Steady(e, allocate_page(e, b)) /\ allocate_page(e, b).queue = e.queue
<1>1. Engine(e) /\ DataOK(e) /\ TypeInv /\ FreeListed
  BY DEF ItemInv, ItemData, IInv, TypeInv
<1>2. \A f \in Buckets : e.free[f] # <<>> => e.pg[Head(e.free[f])].free
  <2> SUFFICES ASSUME NEW f \in Buckets, e.free[f] # <<>> PROVE e.pg[Head(e.free[f])].free
    OBVIOUS
  <2>1. e.free[f] \in Seq(Pages)
    BY <1>1 DEF Engine
  <2>2. 1 \in DOMAIN e.free[f] /\ Head(e.free[f]) = e.free[f][1]
    BY <2>1
  <2> QED BY <1>1, <2>2, FreeEntries
<1> QED BY <1>1, <1>2, AllocatePageSteady

LEMMA RequestPageStep == ASSUME ItemInv, NEW x \in Writers, RequestPage(x) PROVE ItemData'
<1> DEFINE b == BucketOf(x)
           s == IF e.bucket[b] = <<>> THEN allocate_page(e, b) ELSE e
<1>1. /\ wr[x].pc = "request" /\ e' = s /\ UNCHANGED <<cfg, pdata, mt, io, table, hdr, lock, cp, get, sets>>
      /\ wr' = IF s.bucket[b] = <<>> THEN Refused(x)
               ELSE [wr EXCEPT ![x].pc = "page", ![x].page = Head(s.bucket[b])]
  BY DEF RequestPage, Writing
<1>2. b \in Buckets
  BY DEF BucketOf, Buckets
<1>3. Steady(e, s) /\ s.queue = e.queue
  <2>1. Steady(e, e)
    BY BareSteady DEF ItemInv, ItemData, Bare
  <2> QED BY <1>2, <2>1, PageTaken
<1> HIDE DEF b, s
<1>4. PICK w : /\ wr' = [wr EXCEPT ![x] = w] /\ w.pc \in {"fail", "page"}
               /\ w.key = wr[x].key /\ w.item = wr[x].item
  <2>1. CASE s.bucket[b] = <<>>
    <3> DEFINE w == [wr[x] EXCEPT !.pc = "fail"]
    <3>1. wr' = [wr EXCEPT ![x] = w]
      BY <1>1, <2>1 DEF Refused
    <3>2. w.pc = "fail" /\ w.key = wr[x].key /\ w.item = wr[x].item
      BY WritersShape
    <3> QED BY <3>1, <3>2
  <2>2. CASE s.bucket[b] # <<>>
    <3> DEFINE w == [wr[x] EXCEPT !.pc = "page", !.page = Head(s.bucket[b])]
    <3>1. wr' = [wr EXCEPT ![x] = w]
      BY <1>1, <2>2, WritersShape
    <3>2. w.pc = "page" /\ w.key = wr[x].key /\ w.item = wr[x].item
      BY WritersShape
    <3> QED BY <3>1, <3>2
  <2> QED BY <2>1, <2>2
<1>5. DataOK(e') /\ Ages(e, e') /\ \A p \in Pages : Counts(e, e', p) /\ Buffers(e, e', p)
  BY <1>1, <1>3 DEF Steady
<1>6. ReqsOK'
  BY <1>1, <1>3, <1>5, NoneQueued
<1> QED BY <1>1, <1>4, <1>5, <1>6, WriterMoves

\* The request is refused, or the page found full.
LEMMA RefusedOne ==
  ASSUME ItemInv, NEW x \in Writers, wr' = Refused(x) \/ wr' = [wr EXCEPT ![x].pc = "full"]
  PROVE  \E w : /\ wr' = [wr EXCEPT ![x] = w] /\ w.pc \in {"fail", "full"}
                /\ w.key = wr[x].key /\ w.item = wr[x].item
<1>1. ASSUME NEW c, wr' = [wr EXCEPT ![x] = [wr[x] EXCEPT !.pc = c]], c \in {"fail", "full"}
      PROVE  \E w : /\ wr' = [wr EXCEPT ![x] = w] /\ w.pc \in {"fail", "full"}
                    /\ w.key = wr[x].key /\ w.item = wr[x].item
  <2> DEFINE w == [wr[x] EXCEPT !.pc = c]
  <2>1. w.pc = c /\ w.key = wr[x].key /\ w.item = wr[x].item
    BY WritersShape
  <2> QED BY <1>1, <2>1
<1> QED BY <1>1 DEF Refused

LEMMA RequestFullStep == ASSUME ItemInv, NEW x \in Writers, RequestFull(x) PROVE ItemData'
<1>1. wr[x].pc = "page" /\ wr' = [wr EXCEPT ![x].pc = "full"] /\ e' = e
      /\ UNCHANGED <<cfg, pdata, mt, io, table, hdr, lock, cp, get, sets>>
  BY DEF RequestFull, Writing
<1>2. PICK w : /\ wr' = [wr EXCEPT ![x] = w] /\ w.pc \in {"fail", "full"}
               /\ w.key = wr[x].key /\ w.item = wr[x].item
  BY <1>1, RefusedOne
<1>3. DataOK(e') /\ Ages(e, e') /\ \A p \in Pages : Counts(e, e', p) /\ Buffers(e, e', p)
  BY <1>1, EngineStays
<1>4. ReqsOK'
  BY <1>1, <1>3, NoneQueued
<1> QED BY <1>1, <1>2, <1>3, <1>4, WriterMoves

LEMMA RequestNextStep == ASSUME ItemInv, NEW x \in Writers, RequestNext(x) PROVE ItemData'
<1>1. wr[x].pc = "full" /\ wr' = Refused(x) /\ e' = allocate_page(e, BucketOf(x))
      /\ UNCHANGED <<cfg, pdata, mt, io, table, hdr, lock, cp, get, sets>>
  BY DEF RequestNext, Writing
<1>2. PICK w : /\ wr' = [wr EXCEPT ![x] = w] /\ w.pc \in {"fail", "full"}
               /\ w.key = wr[x].key /\ w.item = wr[x].item
  BY <1>1, RefusedOne
<1>3. BucketOf(x) \in Buckets
  BY DEF BucketOf, Buckets
<1>4. Steady(e, e') /\ e'.queue = e.queue
  BY <1>1, <1>3, PageTaken
<1>5. DataOK(e') /\ Ages(e, e') /\ \A p \in Pages : Counts(e, e', p) /\ Buffers(e, e', p)
  BY <1>4 DEF Steady
<1>6. ReqsOK'
  BY <1>1, <1>4, <1>5, NoneQueued
<1> QED BY <1>1, <1>2, <1>5, <1>6, WriterMoves

\* An item has been copied into the page's buffer, and counted.
LEMMA WriterWrote ==
  ASSUME ItemInv, NEW x \in Writers, DataOK(e'), Ages(e, e'), \A p \in Pages : Counts(e, e', p), ReqsOK',
         UNCHANGED <<cfg, pdata, mt, io, table, hdr, lock, cp, get, sets>>, wr[x].pc = "page",
         NEW at, wr' = Wrote(x, at), PlaceData(e', at), Points(e', at, wr[x].key),
         e'.pg[at.page].version = e.pg[at.page].version, e'.pg[at.page].objs >= e.pg[at.page].objs + 1
  PROVE  ItemData'
<1> USE DEF ItemInv, ItemData
<1> DEFINE w == [wr[x] EXCEPT !.pc = "ok", !.at = at]
<1>1. wr'[x] = w /\ \A y \in Writers : y # x => wr'[y] = wr[y]
  BY WritersShape DEF Wrote
<1>2. w.pc = "ok" /\ w.at = at /\ w.key = wr[x].key /\ w.item = wr[x].item
  BY WritersShape
<1> HIDE DEF w
<1>3. wr[x].key \in Keys /\ wr[x].item \in Items /\ wr[x].item.key = wr[x].key
  BY DEF WriteData, WriterData
<1>4. cfg' \in Configs /\ DataOK(e)' /\ GetData' /\ TableData' /\ HdrData' /\ CompactData' /\ PassData' /\ HdrsPoint'
  BY ItemFrames
<1>5. WriteData'
  <2>1. ASSUME NEW y \in Writers PROVE WriterData(wr[y])'
    <3>1. CASE y = x
      BY <1>1, <1>2, <1>3, <3>1 DEF WriterData
    <3>2. CASE y # x
      BY <1>1, <3>2, ItemFrames
    <3> QED BY <3>1, <3>2
  <2> QED BY <2>1 DEF WriteData
<1>6. WriteLock'
  BY <1>1, <1>2 DEF WriteLock, Writers
<1>7. RescueData'
  <2>1. CASE x = "compact"
    BY <1>1, <1>2, <2>1 DEF RescueData, Rescuing, HasHdr
  <2>2. CASE x # "compact"
    BY <1>1, <2>2 DEF RescueData, Rescuing, HasHdr, Writers
  <2> QED BY <2>1, <2>2
<1>8. Counted'
  <2>1. TableOK
    BY DEF IInv, TypeInv
  <2>2. ASSUME NEW p \in Pages, NEW k \in Keys, Uses(k, p)', k # wr[x].key \/ p # at.page
        PROVE  Uses(k, p) /\ e'.pg[p].version = e.pg[p].version
    <3>1. CASE k # wr[x].key
      BY <1>1, <1>2, <2>1, <2>2, <3>1, UsesFrame DEF HasHdr
    <3>2. CASE p # at.page
      <4>1. ASSUME NEW q, PlaceData(e, q), Leads(e', q, p)
            PROVE  Leads(e, q, p) /\ e'.pg[p].version = e.pg[p].version
        <5>1. SamePage(e, q) /\ Same(e, e', q.page) /\ q.page = p
          BY <4>1, AgedPlace DEF Leads
        <5> QED BY <5>1 DEF Leads, Same
      <4>2. CASE IsHdr(table[k]) /\ Leads(e', hdr[table[k].val], p)
        BY <2>1, <4>1, <4>2 DEF Uses, TableOK, HdrData
      <4>3. ASSUME NEW y \in Writers, Pending(y, k, p)' PROVE Uses(k, p) /\ e'.pg[p].version = e.pg[p].version
        <5>1. y # x /\ wr'[y] = wr[y]
          BY <1>1, <1>2, <3>2, <4>3 DEF Pending, Leads
        <5>2. wr[y].pc = "ok" /\ wr[y].key = k /\ Leads(e', wr[y].at, p) /\ PlaceData(e, wr[y].at)
              /\ (y = "compact" => HasHdr(k, cp.h))
          BY <4>3, <5>1 DEF Pending, HasHdr, WriteData, WriterData
        <5>3. Leads(e, wr[y].at, p) /\ e'.pg[p].version = e.pg[p].version
          BY <4>1, <5>2
        <5> QED BY <5>2, <5>3 DEF Uses, Pending
      <4> QED BY <2>2, <4>2, <4>3 DEF Uses
    <3> QED BY <2>2, <3>1, <3>2
  <2>3. ASSUME NEW p \in Pages PROVE Recount(p)
    <3>1. CASE p = at.page
      BY <1>3, <2>2, <3>1 DEF Recount, Emptied
    <3>2. CASE p # at.page /\ e'.pg[p].version # e.pg[p].version
      BY <2>2, <3>2 DEF Recount
    <3>3. CASE p # at.page /\ e'.pg[p].version = e.pg[p].version
      BY <2>2, <3>3 DEF Recount, Fewer, Emptied, Counts
    <3> QED BY <3>1, <3>2, <3>3
  <2> QED BY <2>3, Recounted
<1> QED BY <1>4, <1>5, <1>6, <1>7, <1>8

\* Steps after each other that give no version.
LEMMA AgesTwice ==
  ASSUME NEW s, NEW t, NEW u, DataOK(t), DataOK(u), Ages(s, t), Ages(t, u), t.version = s.version, u.version = t.version
  PROVE  Ages(s, u)
<1>1. u.version \in Nat /\ u.version >= s.version
  BY DEF DataOK, Ages
<1>2. ASSUME NEW p \in Pages PROVE Same(s, u, p) \/ Freed(u, p) \/ Fresh(s, u, p)
  <2>1. t.pg[p].version < t.version /\ u.pg[p].version < u.version /\ (t.pg[p].active => t.pg[p].version # 0)
    BY DEF DataOK, PageData
  <2>2. ~Fresh(t, u, p)
    BY <1>1, <2>1 DEF Fresh, DataOK, PageData
  <2>3. Same(t, u, p) \/ Freed(u, p)
    BY <2>2 DEF Ages
  <2>4. Same(s, t, p) \/ Freed(t, p) \/ Fresh(s, t, p)
    BY DEF Ages
  <2>5. CASE Same(t, u, p) /\ Same(s, t, p)
    BY <2>5 DEF Same
  <2>6. CASE Same(t, u, p) /\ ~Same(s, t, p)
    BY <2>4, <2>6 DEF Same, Freed, Fresh
  <2> QED BY <2>3, <2>5, <2>6
<1> QED BY <1>1, <1>2 DEF Ages

\* A page that is written to, but for its buffer.
Opened(s, p) ==
  /\ Engine(s) /\ DataOK(s) /\ Ages(e, s) /\ s.version = e.version /\ s.queue = e.queue
  /\ s.pg[p].version = e.pg[p].version /\ s.pg[p].objs = e.pg[p].objs
  /\ \A r \in Pages : r # p => s.pg[r] = e.pg[r]

\* The item is copied when there is room, or the request refused.
LEMMA Copied ==
  ASSUME ItemInv, NEW x \in Writers, NEW s, NEW p \in Pages, Opened(s, p), \A r \in Pages : Buffers(e, s, r),
         UNCHANGED <<cfg, pdata, mt, io, table, hdr, lock, cp, get, sets>>, wr[x].pc = "page",
         IF HasRoom(s.pg[p])
         THEN /\ e' = [s EXCEPT !.pg[p].wbuf = Append(@, wr[x].item), !.pg[p].objs = @ + 1]
              /\ wr' = Wrote(x, Place(p, e.pg[p].version, <<s.pg[p].allocated, Len(s.pg[p].wbuf) + 1>>))
         ELSE e' = s /\ wr' = Refused(x)
  PROVE  ItemData'
<1>1. DataOK(e) /\ Engine(e) /\ wr[x].item \in Items /\ wr[x].key = wr[x].item.key
  BY DEF ItemInv, ItemData, IInv, TypeInv, WriteData, WriterData
<1>2. CASE HasRoom(s.pg[p])
  <2> DEFINE t == [s EXCEPT !.pg[p].wbuf = Append(@, wr[x].item), !.pg[p].objs = @ + 1]
             w == s.pg[p].allocated
             i == Len(s.pg[p].wbuf) + 1
             at == Place(p, s.pg[p].version, <<w, i>>)
  <2>1. s.pg[p].wbuf # NULL /\ ~s.pg[p].full
    BY <1>2 DEF HasRoom
  <2>2. /\ Steady(s, t) /\ t.queue = s.queue
        /\ t.pg[p].version = s.pg[p].version /\ t.pg[p].objs = s.pg[p].objs + 1
        /\ PlaceData(t, at) /\ In(t, p, w, i, wr[x].item.key)
    BY Zenon, <1>1, <2>1, AppendSteady DEF Opened
  <2>3. t.version = s.version /\ \A r \in Pages : r # p => t.pg[r] = s.pg[r]
    BY DEF Opened, Engine, EngineFields
  <2>4. e' = t /\ wr' = Wrote(x, at)
    BY <1>2 DEF Opened
  <2>5. at.page = p /\ at.off[1] = w /\ at.off[2] = i
    BY DEF Place
  <2> HIDE DEF t, at, w, i
  <2>6. Ages(e, e') /\ DataOK(e')
    BY <2>2, <2>3, <2>4, AgesTwice DEF Opened, Steady
  <2>7. \A r \in Pages : r # p => e'.pg[r] = e.pg[r]
    BY Zenon, <2>3, <2>4 DEF Opened
  <2>8. e'.pg[p].version = e.pg[p].version /\ e'.pg[p].objs = e.pg[p].objs + 1 /\ \A r \in Pages : e.pg[r].objs \in Nat
    BY <1>1, <2>2, <2>4 DEF Opened, DataOK, PageData
  <2>9. \A r \in Pages : Counts(e, e', r) /\ Buffers(e, e', r)
    <3>1. ASSUME NEW r \in Pages PROVE Counts(e, e', r)
      BY <2>7, <2>8 DEF Counts
    <3>2. ASSUME NEW r \in Pages PROVE Buffers(e, e', r)
      BY <2>2, <2>4 DEF Buffers, Steady
    <3> QED BY <3>1, <3>2
  <2>10. ReqsOK'
    BY <2>2, <2>4, <2>9, NoneQueued DEF Opened
  <2>11. PlaceData(e', at) /\ Points(e', at, wr[x].key)
    BY <1>1, <2>2, <2>4, <2>5 DEF Points
  <2>12. PICK a : a = at
    OBVIOUS
  <2>13. e'.pg[a.page].version = e.pg[a.page].version /\ e'.pg[a.page].objs >= e.pg[a.page].objs + 1
    BY <2>5, <2>8, <2>12
  <2> QED BY <2>4, <2>6, <2>9, <2>10, <2>11, <2>12, <2>13, WriterWrote
<1>3. CASE ~HasRoom(s.pg[p])
  <2>1. e' = s /\ wr' = Refused(x)
    BY <1>3
  <2>2. PICK w : /\ wr' = [wr EXCEPT ![x] = w] /\ w.pc \in {"fail", "full"}
                 /\ w.key = wr[x].key /\ w.item = wr[x].item
    BY <2>1, RefusedOne
  <2>3. \A r \in Pages : Counts(e, e', r)
    <3>1. \A r \in Pages : e'.pg[r].objs = e.pg[r].objs /\ e.pg[r].objs \in Nat
      BY <1>1, <2>1 DEF Opened, DataOK, PageData
    <3> QED BY <3>1 DEF Counts
  <2>4. ReqsOK'
    BY <2>1, NoneQueued DEF Opened
  <2> QED BY <2>1, <2>2, <2>3, <2>4, WriterMoves DEF Opened
<1> QED BY <1>2, <1>3

\* A full buffer is on its way to the disk once.
LEMMA FullSubmitted ==
  ASSUME ItemInv, NEW p \in Pages, ~e.pg[p].full, e.pg[p].wbuf # NULL, e' = submit_wbuf(e, p),
         UNCHANGED <<io, get, cp, cfg>>
  PROVE  Steady(e, e') /\ ReqsOK'
<1> DEFINE req == [mode |-> "W", at |-> Place(p, 0, <<>>), who |-> NULL]
<1>1. DataOK(e) /\ Engine(e) /\ ReqsOK
  BY DEF ItemInv, ItemData, IInv, TypeInv
<1>2. PICK v : /\ Steady(e, e') /\ e'.pg[p].full /\ e'.pg[p].wbuf = e.pg[p].wbuf
               /\ e'.queue = [e.queue EXCEPT ![v] = Append(@, req)]
  BY <1>1, SubmitWbufSteady
<1>3. req.mode = "W" /\ req.at.page = p
  BY DEF Place
<1> HIDE DEF req
<1>4. \A r : Expected(r) => Expected(r)'
  BY <1>2, ExpectFrames DEF Steady, Waiting
<1>5. \A r : Expected(r) => ~Alike(r, req)
  <2>1. "R" # "W"
    OBVIOUS
  <2> QED BY <1>3, <2>1 DEF Expected, OfPage, OfGet, OfCompactor, Alike
<1>6. PICK r : r = req
  OBVIOUS
<1>7. Expected(r)'
  BY <1>2, <1>3, <1>6 DEF Expected, OfPage
<1>8. ReqsOK'
  BY <1>1, <1>2, <1>4, <1>5, <1>6, <1>7, ReqsSubmit
<1> QED BY <1>2, <1>8

LEMMA RequestWriteStep == ASSUME ItemInv, NEW x \in Writers, RequestWrite(x) PROVE ItemData'
<1> DEFINE p == wr[x].page
           q == e.pg[p]
           s == IF q.wbuf # NULL /\ ~q.full /\ Len(q.wbuf) >= cfg.items THEN submit_wbuf(e, p)
                ELSE IF q.wbuf = NULL /\ q.allocated < cfg.wbufs THEN allocate_wbuf(e, p) ELSE e
           n == s.pg[p].allocated
<1>1. /\ wr[x].pc = "page" /\ ~PageFull(q)
      /\ IF HasRoom(s.pg[p])
         THEN /\ e' = [s EXCEPT !.pg[p].wbuf = Append(@, wr[x].item), !.pg[p].objs = @ + 1]
              /\ wr' = Wrote(x, Place(p, q.version, <<n, Len(s.pg[p].wbuf) + 1>>))
         ELSE e' = s /\ wr' = Refused(x)
      /\ UNCHANGED <<cfg, pdata, mt, io, table, hdr, lock, cp, get, sets>>
  BY Zenon DEF RequestWrite, Writing
<1>2. p \in Pages /\ Engine(e) /\ DataOK(e)
  BY Zenon, <1>1 DEF ItemInv, ItemData, IInv, TypeInv, WritersOK
<1>3. PICK y : y = s
  OBVIOUS
<1>4. CASE q.wbuf # NULL /\ ~q.full /\ Len(q.wbuf) >= cfg.items
  <2>1. s = submit_wbuf(e, p)
    BY <1>4
  <2>2. submit_wbuf(e, p).pg[p].full
    BY <1>2, SubmitWbufSteady
  <2>3. ~HasRoom(s.pg[p])
    BY Zenon, <2>1, <2>2 DEF HasRoom
  <2>4. e' = submit_wbuf(e, p) /\ wr' = Refused(x)
    BY <1>1, <2>1, <2>3
  <2>5. Steady(e, e') /\ ReqsOK'
    BY <1>1, <1>2, <1>4, <2>4, FullSubmitted
  <2>6. PICK w : /\ wr' = [wr EXCEPT ![x] = w] /\ w.pc \in {"fail", "full"}
                 /\ w.key = wr[x].key /\ w.item = wr[x].item
    BY <2>4, RefusedOne
  <2> QED BY Zenon, <1>1, <2>5, <2>6, WriterMoves DEF Steady
<1>5. CASE q.wbuf = NULL /\ q.allocated < cfg.wbufs
  <2>1. s = allocate_wbuf(e, p)
    BY <1>5
  <2>2. q.active
    BY Zenon, <1>1 DEF PageFull
  <2>3. Steady(e, s) /\ s.queue = e.queue /\ s.pg[p].version = e.pg[p].version /\ s.version = e.version
    BY <1>2, <1>5, <2>1, <2>2, AllocateWbufSteady
  <2>4. Engine(s)
    BY <1>2, <2>1, AllocateWbufCalm
  <2>5. s.pg[p].objs = e.pg[p].objs /\ \A r \in Pages : r # p => s.pg[r] = e.pg[r]
    BY <1>2, <1>5, <2>1, <2>2, AllocateWbufSteady
  <2> HIDE DEF s
  <2>6. Opened(y, p) /\ \A r \in Pages : Buffers(e, y, r)
    BY <1>3, <2>3, <2>4, <2>5 DEF Opened, Steady
  <2> QED BY Zenon, <1>1, <1>2, <1>3, <2>6, Copied
<1>6. CASE ~(q.wbuf # NULL /\ ~q.full /\ Len(q.wbuf) >= cfg.items) /\ ~(q.wbuf = NULL /\ q.allocated < cfg.wbufs)
  <2>1. s = e
    BY <1>6
  <2> HIDE DEF s
  <2>2. Steady(e, e)
    BY <1>2, BareSteady DEF Bare
  <2>3. Opened(y, p) /\ \A r \in Pages : Buffers(e, y, r)
    BY <1>2, <1>3, <2>1, <2>2 DEF Opened, Steady
  <2> QED BY Zenon, <1>1, <1>2, <1>3, <2>3, Copied
<1> QED BY <1>4, <1>5, <1>6

LEMMA RequestStep == ASSUME ItemInv, NEW x \in Writers, Request(x) PROVE ItemData'
BY RequestPageStep, RequestFullStep, RequestNextStep, RequestWriteStep DEF Request

LEMMA StorageWriteStep ==
  ASSUME ItemInv, NEW k \in Keys, NEW solo \in BOOLEAN, StorageWrite(k, solo) PROVE ItemData'
<1> USE DEF ItemInv, ItemData
<1> DEFINE item == [key |-> k, val |-> table[k].val, solo |-> solo]
           w == [NoWrite EXCEPT !.pc = "request", !.key = k, !.item = item]
<1>1. /\ wr["write"].pc = "idle" /\ lock[k] = NULL /\ table[k] # NULL /\ ~IsHdr(table[k])
      /\ lock' = [lock EXCEPT ![k] = "write"] /\ wr' = [wr EXCEPT !["write"] = w]
      /\ UNCHANGED <<cfg, e, pdata, mt, io, table, hdr, cp, get, sets>>
  BY DEF StorageWrite, Requested
<1>2. w.pc = "request" /\ w.key = k /\ w.item = item
  BY DEF NoWrite
<1>3. item \in Items /\ item.key = k
  BY <1>1 DEF TableData, Items
<1> HIDE DEF w, item
<1>4. "write" \in Writers /\ "compact" \in Writers /\ NULL \notin Writers
  BY MemExtAssumption DEF Writers
<1>5. wr'["write"] = w /\ wr'["compact"] = wr["compact"]
  BY <1>1, <1>4, WritersShape
<1>6. lock'[k] = "write" /\ DOMAIN lock' = Keys /\ \A j \in Keys : j # k => lock'[j] = lock[j]
  BY <1>1 DEF WriteLock
<1>7. DataOK(e') /\ Ages(e, e') /\ \A p \in Pages : Counts(e, e', p) /\ Buffers(e, e', p)
  BY <1>1, EngineStays
<1>8. cfg' \in Configs /\ DataOK(e)' /\ GetData' /\ TableData' /\ HdrData' /\ CompactData' /\ PassData' /\ HdrsPoint'
  BY <1>1, <1>7, ItemFrames
<1>9. ReqsOK'
  BY <1>1, <1>7, NoneQueued
<1>10. WriteData'
  <2>1. WriterData(wr["write"])'
    BY <1>2, <1>3, <1>5 DEF WriterData
  <2>2. WriterData(wr["compact"])'
    BY <1>1, <1>4, <1>5, <1>7, ItemFrames
  <2> QED BY <2>1, <2>2 DEF WriteData, Writers
<1>11. WriteLock'
  BY <1>1, <1>2, <1>5, <1>6 DEF WriteLock
<1>12. RescueData'
  <2>1. Rescuing => wr["compact"].key # k /\ wr["compact"].key \in Keys
    BY <1>1, <1>4 DEF RescueData, WriteData, WriterData
  <2> QED BY <1>1, <1>5, <1>6, <2>1 DEF RescueData, Rescuing, HasHdr
<1>13. Counted'
  <2>1. \A x \in Writers : wr'[x] = wr[x] \/ wr'[x].pc # "ok"
    BY <1>2, <1>5 DEF Writers
  <2> QED BY <1>1, <1>7, <2>1, CountFrames
<1> QED BY <1>8, <1>9, <1>10, <1>11, <1>12, <1>13

\* The header takes the item's place, if it has been written; the writer is
\* done with it in any case.
LEMMA StorageWrittenStep == ASSUME ItemInv, StorageWritten PROVE ItemData'
<1> USE DEF ItemInv, ItemData
<1> DEFINE x == wr["write"]
           n == [page |-> x.at.page, version |-> x.at.version, off |-> x.at.off, val |-> x.item.val]
<1>1. /\ x.pc \in {"ok", "fail"} /\ lock' = [lock EXCEPT ![x.key] = NULL] /\ wr' = [wr EXCEPT !["write"] = NoWrite]
      /\ x.pc = "ok" => hdr' = Append(hdr, n) /\ table' = [table EXCEPT ![x.key] = InHdr(Len(hdr'))]
      /\ x.pc # "ok" => UNCHANGED <<hdr, table>>
      /\ UNCHANGED <<cfg, e, pdata, mt, io, cp, get, sets>>
  BY DEF StorageWritten
<1>2. "write" \in Writers /\ "compact" \in Writers /\ DOMAIN table = Keys
  BY DEF Writers, IInv, TypeInv, TableOK
<1>3. wr'["write"] = NoWrite /\ wr'["compact"] = wr["compact"] /\ NoWrite.pc = "idle"
  BY <1>1, <1>2, WritersShape DEF NoWrite
<1>4. x.key \in Keys /\ lock[x.key] = "write" /\ ~IsHdr(table[x.key])
  BY <1>1, <1>2 DEF WriteLock, WriteData, WriterData
<1>5. DOMAIN lock' = Keys /\ \A j \in Keys : j # x.key => lock'[j] = lock[j]
  BY <1>1 DEF WriteLock
<1>6. DataOK(e') /\ Ages(e, e') /\ \A p \in Pages : Counts(e, e', p) /\ Buffers(e, e', p)
  BY <1>1, EngineStays
<1>7. cfg' \in Configs /\ DataOK(e)' /\ GetData' /\ CompactData' /\ PassData'
  BY <1>1, <1>6, ItemFrames
<1>8. ReqsOK'
  BY <1>1, <1>6, NoneQueued
<1>9. WriteData'
  <2>1. WriterData(wr["write"])'
    BY <1>3 DEF WriterData
  <2>2. WriterData(wr["compact"])'
    BY <1>1, <1>2, <1>3, <1>6, ItemFrames
  <2> QED BY <2>1, <2>2 DEF WriteData, Writers
<1>10. WriteLock'
  BY <1>3, <1>5 DEF WriteLock
<1>11. Rescuing => wr["compact"].key # x.key /\ wr["compact"].key \in Keys
  BY <1>2, <1>4 DEF RescueData, WriteData, WriterData
<1>12. CASE x.pc # "ok"
  <2>1. UNCHANGED <<hdr, table>>
    BY <1>1, <1>12
  <2>2. TableData' /\ HdrData' /\ HdrsPoint'
    BY <1>1, <1>6, <2>1, ItemFrames
  <2>3. RescueData'
    BY <1>1, <1>3, <1>5, <1>11, <2>1 DEF RescueData, Rescuing, HasHdr
  <2>4. Counted'
    <3>1. \A y \in Writers : wr'[y] = wr[y] \/ wr'[y].pc # "ok"
      BY <1>3 DEF Writers
    <3> QED BY <1>1, <1>6, <2>1, <3>1, CountFrames
  <2> QED BY <1>7, <1>8, <1>9, <1>10, <2>2, <2>3, <2>4
<1>13. CASE x.pc = "ok"
  <2>1. hdr' = Append(hdr, n) /\ table' = [table EXCEPT ![x.key] = InHdr(Len(hdr'))]
    BY <1>1, <1>13
  <2>2. n.page = x.at.page /\ n.version = x.at.version /\ n.off = x.at.off
    OBVIOUS
  <2> HIDE DEF n
  <2>3. PICK m : m = Len(hdr')
    OBVIOUS
  <2>4. /\ m \notin DOMAIN hdr /\ DOMAIN hdr' = DOMAIN hdr \cup {m}
        /\ hdr'[m] = n /\ \A i \in DOMAIN hdr : hdr'[i] = hdr[i]
    <3>1. PICK S : hdr \in Seq(S)
      BY DEF IInv, TypeInv, HdrOK
    <3>2. Len(hdr') = Len(hdr) + 1 /\ Len(hdr) \in Nat /\ DOMAIN hdr = 1 .. Len(hdr)
      BY <2>1, <3>1
    <3>3. DOMAIN hdr' = 1 .. Len(hdr) + 1 /\ hdr'[Len(hdr) + 1] = n /\ \A i \in 1 .. Len(hdr) : hdr'[i] = hdr[i]
      BY <2>1, <3>1
    <3> QED BY <2>3, <3>2, <3>3
  <2>5. /\ table'[x.key] = NULL \/ (IsHdr(table'[x.key]) /\ table'[x.key].val = m)
        /\ \A j \in Keys : j # x.key => table'[j] = table[j]
    <3>1. table'[x.key] = InHdr(m) /\ \A j \in Keys : j # x.key => table'[j] = table[j]
      BY <1>2, <1>4, <2>1, <2>3
    <3> QED BY <3>1 DEF IsHdr, InHdr
  <2>6. \A j \in Keys, h \in DOMAIN hdr : HasHdr(j, h)' => j # x.key /\ HasHdr(j, h)
    BY <2>4, <2>5, NotHdr DEF HasHdr
  <2>7. PlaceData(e, x.at) /\ Points(e, x.at, x.key)
    BY <1>2, <1>13 DEF WriteData, WriterData
  <2>8. \A j \in Keys : IsHdr(table[j]) => table[j].val \in DOMAIN hdr /\ PlaceData(e, hdr[table[j].val])
    BY DEF IInv, TypeInv, TableOK, HdrData
  <2>9. TableData'
    BY <1>1, <2>5, NotHdr DEF TableData
  <2>10. HdrData'
    <3>1. \A i \in DOMAIN hdr' : PlaceData(e', hdr'[i])
      BY <1>1, <2>2, <2>4, <2>7 DEF HdrData, PlaceData
    <3>2. \A i, j \in Keys : IsHdr(table'[i]) /\ IsHdr(table'[j]) /\ table'[i].val = table'[j].val => i = j
      BY <2>4, <2>5, <2>8, NotHdr DEF HdrData
    <3> QED BY <3>1, <3>2 DEF HdrData
  <2>11. RescueData'
    BY <1>1, <1>3, <1>5, <1>11, <2>4, <2>6 DEF RescueData, Rescuing
  <2>12. HdrsPoint'
    <3> SUFFICES ASSUME NEW j \in Keys, IsHdr(table'[j]), ~Torn(j)' PROVE Points(e', hdr'[table'[j].val], j)
      BY DEF HdrsPoint
    <3>1. CASE j = x.key
      BY Zenon, <1>1, <2>2, <2>4, <2>5, <2>7, <3>1, NotHdr DEF Points, SamePage
    <3>2. CASE j # x.key
      <4>1. IsHdr(table[j]) /\ ~Torn(j) /\ hdr'[table'[j].val] = hdr[table[j].val]
        BY <1>1, <2>4, <2>5, <2>8, <3>2 DEF Torn, HasHdr
      <4> QED BY <1>1, <4>1 DEF HdrsPoint
    <3> QED BY <3>1, <3>2
  <2>13. Counted'
    <3>1. ASSUME NEW p \in Pages, NEW k \in Keys, Uses(k, p)' PROVE Uses(k, p)
      <4>1. CASE k # x.key
        <5>1. IsHdr(table'[k]) => IsHdr(table[k]) /\ hdr'[table'[k].val] = hdr[table[k].val]
          BY <2>4, <2>5, <2>8, <4>1
        <5>2. \A y \in Writers : Pending(y, k, p)' => Pending(y, k, p)
          BY <1>1, <1>3, <2>5, <4>1 DEF Pending, HasHdr, Writers
        <5> QED BY <1>1, <2>5, <3>1, <4>1, <5>1, <5>2 DEF Uses
      <4>2. CASE k = x.key
        <5>1. CASE Leads(e, x.at, p)
          <6>1. Pending("write", k, p)
            BY <1>13, <4>2, <5>1 DEF Pending
          <6> QED BY <1>2, <6>1 DEF Uses
        <5>2. CASE ~Leads(e, x.at, p)
          <6>1. IsHdr(table'[k]) => ~Leads(e', hdr'[table'[k].val], p)
            BY Zenon, <1>1, <2>2, <2>4, <2>5, <4>2, <5>2, NotHdr DEF Leads, SamePage
          <6>2. PICK y \in Writers : Pending(y, k, p)'
            BY <3>1, <6>1 DEF Uses
          <6>3. y = "compact" /\ wr["compact"].pc # "idle" /\ wr["compact"].key = k
            BY <1>3, <6>2 DEF Pending, Writers
          <6> QED BY <1>11, <4>2, <6>3 DEF RescueData
        <5> QED BY <5>1, <5>2
      <4> QED BY <4>1, <4>2
    <3>2. \A p \in Pages : Recount(p)
      BY <1>1, <1>6, <3>1 DEF Recount, Fewer, Counts, Emptied
    <3> QED BY <1>6, <3>2, Recounted
  <2> QED BY <1>7, <1>8, <1>9, <1>10, <2>9, <2>10, <2>11, <2>12, <2>13
<1> QED BY <1>12, <1>13

-----------------------------------------------------------------------------
(* I/O threads *)

\* What waits in front of a queue is expected.
LEMMA HeadExpected ==
  ASSUME ItemInv, NEW t \in IoThreads, e.queue[t] # <<>>
  PROVE  Expected(Head(e.queue[t]))
<1>1. PICK q : q = e.queue[t]
  OBVIOUS
<1>2. Engine(e) /\ ReqsOK
  BY DEF ItemInv, ItemData, IInv, TypeInv
<1>3. PICK S : q \in Seq(S)
  BY <1>1, <1>2, QueueShape
<1>4. 1 \in DOMAIN q /\ Head(q) = q[1]
  BY <1>1, <1>3
<1>5. Out(t, 1) /\ ReqAt(t, 1) = Head(q)
  BY <1>1, <1>4 DEF Out, ReqAt
<1>6. 1 \in Nat
  OBVIOUS
<1> QED BY <1>1, <1>2, <1>5, <1>6 DEF ReqsOK

\* Who gets an answer: a get that waits, or the compactor.
LEMMA AnswerTo ==
  ASSUME ItemInv, NEW req, Expected(req), req.mode = "R", NEW data, Callback(req, data)
  PROVE  \/ /\ OfGet(req) /\ cp' = cp
            /\ LET item == IF data = NULL \/ (data # NULL /\ req.at.off[2] > Len(data)) THEN NULL ELSE data[req.at.off[2]]
               IN  get' = [get EXCEPT ![req.who] = [@ EXCEPT !.pc = "done", !.miss = (item = NULL), !.item = item]]
         \/ /\ OfCompactor(req) /\ get' = get
            /\ cp' = [cp EXCEPT !.done = TRUE, !.miss = @ \/ data = NULL, !.buf = IF data = NULL THEN @ ELSE data]
<1>1. OfGet(req) \/ OfCompactor(req)
  BY DEF Expected, OfPage
<1>2. OfGet(req) => req.who # "compact"
  BY MemExtAssumption DEF OfGet, Writers
<1>3. OfCompactor(req) => req.who = "compact"
  BY DEF OfCompactor
<1> QED BY <1>1, <1>2, <1>3 DEF Callback

\* The others go on waiting.
LEMMA AnswerExpects ==
  ASSUME ItemInv, NEW req, Expected(req), req.mode = "R", NEW data, Callback(req, data), cfg' = cfg,
         \A p \in Pages : Buffers(e, e', p)
  PROVE  \A r : Expected(r) /\ ~Alike(r, req) => Expected(r)'
<1> SUFFICES ASSUME NEW r, Expected(r), ~Alike(r, req) PROVE Expected(r)'
  OBVIOUS
<1>1. DOMAIN get = Getters
  BY DEF ItemInv, IInv, TypeInv, GetsOK
<1>2. OfPage(r) => OfPage(r)'
  BY DEF OfPage, Buffers
<1>3. r.mode = "R" => r.who # req.who
  BY DEF Alike
<1>4. r.mode # "R" => OfPage(r)
  BY DEF Expected, OfGet, OfCompactor
<1>5. CASE OfGet(req) /\ cp' = cp /\ \E x : get' = [get EXCEPT ![req.who] = x]
  <2>1. PICK x : get' = [get EXCEPT ![req.who] = x]
    BY <1>5
  <2>2. \A g \in Getters : g # req.who => get'[g] = get[g]
    BY <1>1, <2>1
  <2>3. OfGet(r) => OfGet(r)'
    BY <1>3, <2>2 DEF OfGet
  <2>4. OfCompactor(r) => OfCompactor(r)'
    BY <1>5 DEF OfCompactor, Waiting
  <2> QED BY <1>2, <2>3, <2>4 DEF Expected
<1>6. CASE OfCompactor(req) /\ get' = get
  <2>1. ~OfCompactor(r)
    BY <1>3, <1>6 DEF OfCompactor
  <2>2. OfGet(r) => OfGet(r)'
    BY <1>6 DEF OfGet
  <2> QED BY <1>2, <2>1, <2>2 DEF Expected
<1> QED BY Zenon, <1>5, <1>6, AnswerTo

\* A read is answered: with items, or with none when the page was not there.
LEMMA Answered ==
  ASSUME ItemInv, NEW req, Expected(req), req.mode = "R", NEW data, Callback(req, data),
         data = NULL \/ data \in Seq(Items), OfCompactor(req) /\ data = NULL => ~SamePage(e', Reading),
         DataOK(e'), Ages(e, e'), \A p \in Pages : Counts(e, e', p), ReqsOK',
         UNCHANGED <<cfg, pdata, mt, table, hdr, lock, wr, sets>>
  PROVE  ItemData'
<1> USE DEF ItemInv, ItemData
<1>1. PassData'
  BY ItemFrames
<1>2. ASSUME OfGet(req), cp' = cp,
             LET item == IF data = NULL \/ (data # NULL /\ req.at.off[2] > Len(data)) THEN NULL ELSE data[req.at.off[2]]
             IN  get' = [get EXCEPT ![req.who] = [@ EXCEPT !.pc = "done", !.miss = (item = NULL), !.item = item]]
      PROVE  ItemData'
  <2> DEFINE n == req.at.off[2]
             item == IF data = NULL \/ (data # NULL /\ n > Len(data)) THEN NULL ELSE data[n]
  <2>1. PICK g \in Getters : g = req.who
    BY <1>2 DEF OfGet
  <2>2. n \in Nat \ {0}
    BY <1>2 DEF OfGet, Offs
  <2>3. item = NULL \/ item \in Items
    BY <2>2
  <2> HIDE DEF item
  <2>4. /\ DOMAIN get = Getters /\ DOMAIN get[g] = DOMAIN NoGet
        /\ get' = [get EXCEPT ![g] = [get[g] EXCEPT !.pc = "done", !.miss = (item = NULL), !.item = item]]
    BY <1>2, <2>1 DEF IInv, TypeInv, GetsOK, item
  <2>5. get[g].key \in Keys
    BY <1>2, <2>1 DEF OfGet, GetData
  <2>6. /\ get'[g].pc = "done" /\ get'[g].key = get[g].key /\ get'[g].item = item /\ (get'[g].miss <=> item = NULL)
        /\ \A f \in Getters : f # g => get'[f] = get[f]
    BY <2>4 DEF NoGet
  <2>7. GetData'
    BY <2>3, <2>5, <2>6 DEF GetData
  <2> QED BY <1>1, <1>2, <2>7, Quiet
<1>3. ASSUME OfCompactor(req), get' = get,
             cp' = [cp EXCEPT !.done = TRUE, !.miss = @ \/ data = NULL, !.buf = IF data = NULL THEN @ ELSE data]
      PROVE  ItemData'
  <2>1. DOMAIN cp = CpFields
    BY CpDomain DEF IInv
  <2>2. /\ \A f \in CpFields \ {"done", "miss", "buf"} : cp'[f] = cp[f]
        /\ cp'.buf = IF data = NULL THEN cp.buf ELSE data
    BY <1>3, <2>1 DEF CpFields
  <2>3. cp'.miss <=> (cp.miss \/ data = NULL)
    BY <1>3, <2>1 DEF CpFields
  <2>4. /\ cp'.pc = cp.pc /\ cp'.on = cp.on /\ cp'.page = cp.page /\ cp'.version = cp.version
        /\ cp'.w = cp.w /\ cp'.n = cp.n /\ cp'.h = cp.h
    BY <2>2 DEF CpFields
  <2>5. cp.pc = "top" /\ cp.on /\ ~cp.miss
    BY <1>3 DEF OfCompactor, Waiting
  <2>6. ~Rescuing /\ ~Rescuing'
    BY <2>4, <2>5 DEF Rescuing
  <2>7. CompactData'
    <3>1. Rested(e', cp.page, cp.version)
      BY <2>5, AgedRest DEF CompactData
    <3>2. Reading' = Reading
      BY <2>4 DEF Reading
    <3>3. cp'.miss => ~SamePage(e', Reading)
      BY <1>3, <2>3, <2>5
    <3> QED BY <2>2, <2>4, <3>1, <3>2, <3>3 DEF CompactData
  <2>8. Counted'
    BY <2>4, <2>6, TurnCounts
  <2>9. GetData'
    BY <1>3, ItemFrames
  <2> QED BY <1>1, <2>6, <2>7, <2>8, <2>9, Turn
<1> QED BY Zenon, <1>2, <1>3, AnswerTo

\* A page that is read is not one that the compactor waits for and that is
\* written to still.
LEMMA RestedRead ==
  ASSUME ItemInv, NEW req, OfCompactor(req)
  PROVE  /\ req.at = Reading /\ cp.w \in 1 .. MaxWbufs /\ cp.page \in Pages
         /\ ~Readable(req.at) => ~SamePage(e, Reading)
         /\ Readable(req.at) => ~Unwritten(req.at)
<1>1. cp.on /\ req.at = Reading /\ cp.w \in 1 .. cfg.wbufs
  BY DEF OfCompactor, Waiting, Reading
<1>2. cp.version # 0 /\ Rested(e, cp.page, cp.version)
  BY <1>1 DEF ItemInv, ItemData, CompactData
<1>3. cp.w \in 1 .. MaxWbufs
  BY <1>1, MemExtAssumption DEF ItemInv, ItemData, DataOK
<1>4. Reading.page = cp.page /\ Reading.version = cp.version /\ cp.page \in Pages
  BY <1>2 DEF Reading, Place, Rested
<1>5. e.pg[cp.page].free => e.pg[cp.page].version = 0
  BY <1>4 DEF ItemInv, ItemData, DataOK, PageData
<1>6. ~Readable(req.at) => ~SamePage(e, Reading)
  BY <1>1, <1>2, <1>4, <1>5 DEF Readable, SamePage
<1>7. Readable(req.at) => ~Unwritten(req.at)
  BY <1>1, <1>2, <1>4 DEF Readable, Unwritten, SamePage, Rested
<1> QED BY <1>1, <1>3, <1>4, <1>6, <1>7

\* Nothing but the queue changes.
LEMMA PoppedBare ==
  ASSUME ItemInv, NEW t \in IoThreads
  PROVE  /\ Bare(e, Popped(t)) /\ DOMAIN Popped(t) = EngineFields
         /\ Popped(t).queue = [e.queue EXCEPT ![t] = Tail(@)]
BY DEF ItemInv, IInv, TypeInv, Engine, EngineFields, Popped, Bare

LEMMA IoMissStep == ASSUME ItemInv, NEW t \in IoThreads, IoMiss(t) PROVE ItemData'
<1>1. PICK req : req = Head(e.queue[t])
  OBVIOUS
<1>2. /\ io' = io /\ e.queue[t] # <<>> /\ req.mode = "R" /\ ~Readable(req.at) /\ e' = Popped(t)
      /\ Callback(req, NULL) /\ UNCHANGED <<cfg, pdata, mt, table, hdr, lock, wr, sets>>
  BY <1>1 DEF IoMiss, Io
<1>3. Expected(req)
  BY <1>1, <1>2, HeadExpected
<1>4. Engine(e) /\ DataOK(e) /\ ReqsOK
  BY DEF ItemInv, ItemData, IInv, TypeInv
<1>5. Bare(e, e') /\ e'.queue = [e.queue EXCEPT ![t] = Tail(@)]
  BY <1>2, PoppedBare
<1>6. DataOK(e') /\ Ages(e, e') /\ \A p \in Pages : Counts(e, e', p) /\ Buffers(e, e', p)
  BY <1>4, <1>5, BareSteady DEF Steady
<1>7. \A r : Expected(r) /\ ~Alike(r, Head(e.queue[t])) => Expected(r)'
  BY <1>1, <1>2, <1>3, <1>6, AnswerExpects
<1>8. ReqsOK'
  BY <1>2, <1>4, <1>5, <1>7, ReqsPop
<1>9. OfCompactor(req) => ~SamePage(e', Reading)
  BY Zenon, <1>2, <1>5, RestedRead DEF SamePage, Bare
<1> QED BY <1>2, <1>3, <1>6, <1>8, <1>9, Answered

LEMMA IoBufferStep == ASSUME ItemInv, NEW t \in IoThreads, IoBuffer(t) PROVE ItemData'
<1>1. PICK req : req = Head(e.queue[t])
  OBVIOUS
<1> DEFINE q == e.pg[req.at.page]
           there == q.wbuf # NULL /\ req.at.off[1] = q.written + 1
           data == IF there THEN q.wbuf ELSE NULL
<1>2. /\ io' = io /\ e.queue[t] # <<>> /\ req.mode = "R" /\ Readable(req.at) /\ Unwritten(req.at)
      /\ e' = [Popped(t) EXCEPT !.failed = @ \/ ~there]
      /\ Callback(req, data) /\ UNCHANGED <<cfg, pdata, mt, table, hdr, lock, wr, sets>>
  BY Zenon, <1>1 DEF IoBuffer, Io
<1>3. Expected(req)
  BY Zenon, <1>1, <1>2, HeadExpected
<1>4. Engine(e) /\ DataOK(e) /\ ReqsOK
  BY DEF ItemInv, ItemData, IInv, TypeInv
<1>5. Bare(e, e') /\ e'.queue = [e.queue EXCEPT ![t] = Tail(@)]
  BY <1>2, PoppedBare DEF Bare, EngineFields
<1>6. DataOK(e') /\ Ages(e, e') /\ \A p \in Pages : Counts(e, e', p) /\ Buffers(e, e', p)
  BY <1>4, <1>5, BareSteady DEF Steady
<1>7. data = NULL \/ data \in Seq(Items)
  <2>1. req.at.page \in Pages
    BY <1>2, <1>3, RestedRead DEF Expected, OfPage, OfGet
  <2> QED BY <1>4, <2>1 DEF DataOK, PageData
<1>8. PICK d : d = data
  OBVIOUS
<1> HIDE DEF data
<1>9. \A r : Expected(r) /\ ~Alike(r, Head(e.queue[t])) => Expected(r)'
  BY Zenon, <1>1, <1>2, <1>3, <1>6, <1>8, AnswerExpects
<1>10. ReqsOK'
  BY <1>2, <1>4, <1>5, <1>9, ReqsPop
<1>11. ~OfCompactor(req)
  BY Zenon, <1>2, RestedRead
<1> QED BY <1>2, <1>3, <1>6, <1>7, <1>8, <1>10, <1>11, Answered

LEMMA IoHoldStep == ASSUME ItemInv, NEW t \in IoThreads, IoHold(t) PROVE ItemData'
<1>1. PICK req : req = Head(e.queue[t])
  OBVIOUS
<1>2. /\ io[t].pc = "wait" /\ e.queue[t] # <<>> /\ req.mode = "R"
      /\ e' = [Popped(t) EXCEPT !.pg[req.at.page].ref = @ + 1]
      /\ io' = [io EXCEPT ![t] = [pc |-> "pread", req |-> Head(e.queue[t])]]
      /\ UNCHANGED <<cfg, pdata, mt, table, hdr, lock, wr, sets, get, cp>>
  BY Zenon, <1>1 DEF IoHold, IoIs, Io
<1>3. Engine(e) /\ DataOK(e) /\ ReqsOK /\ IoOK
  BY DEF ItemInv, ItemData, IInv, TypeInv
<1>4. Expected(req)
  BY Zenon, <1>1, <1>2, HeadExpected
<1>5. PICK p \in Pages : p = req.at.page
  <2>1. OfCompactor(req) => req.at.page \in Pages
    BY RestedRead DEF OfCompactor, Place
  <2> QED BY <1>2, <1>4, <2>1 DEF Expected, OfPage, OfGet
<1>6. PICK n : n = e.pg[p].ref + 1
  OBVIOUS
<1>7. Bare([e EXCEPT !.pg[p].ref = n], e') /\ e'.queue = [e.queue EXCEPT ![t] = Tail(@)]
  BY <1>2, <1>3, <1>5, <1>6 DEF Popped, Bare, Engine, EngineFields
<1>8. Steady(e, [e EXCEPT !.pg[p].ref = n])
  BY <1>3, RefSteady
<1>9. DataOK(e') /\ Ages(e, e') /\ \A r \in Pages : Counts(e, e', r) /\ Buffers(e, e', r)
  BY <1>7, <1>8, BareAfter DEF Steady
<1>10. \A r : Expected(r) => Expected(r)'
  BY Zenon, <1>2, <1>9, ExpectFrames DEF Waiting
<1>11. ReqsOK'
  BY Zenon, <1>1, <1>2, <1>3, <1>7, <1>10, ReqsHold
<1>12. GetData' /\ PassData'
  BY <1>2, <1>9, ItemFrames
<1> QED BY <1>2, <1>9, <1>11, <1>12, Quiet

LEMMA IoReadStep == ASSUME ItemInv, NEW t \in IoThreads, IoRead(t) PROVE ItemData'
<1>1. PICK req : req = io[t].req
  OBVIOUS
<1>2. PICK data : data = e.disk[req.at.page][req.at.off[1]]
  OBVIOUS
<1>3. /\ io[t].pc = "pread" /\ Callback(req, data) /\ io' = [io EXCEPT ![t] = [io[t] EXCEPT !.pc = "unref"]] /\ e' = e
      /\ UNCHANGED <<cfg, pdata, mt, table, hdr, lock, wr, sets>>
  BY Zenon, <1>1, <1>2 DEF IoRead, IoIs, Io
<1>4. Engine(e) /\ DataOK(e) /\ ReqsOK /\ IoOK
  BY DEF ItemInv, ItemData, IInv, TypeInv
<1>5. Expected(req)
  <2>1. Out(t, 0) /\ ReqAt(t, 0) = req /\ 0 \in Nat
    BY <1>1, <1>3 DEF Out, ReqAt
  <2> QED BY <1>4, <2>1 DEF ReqsOK
<1>6. req.mode = "R"
  BY <1>1, <1>3, <1>4 DEF ReqsOK, Held
<1>7. DataOK(e') /\ Ages(e, e') /\ \A p \in Pages : Counts(e, e', p) /\ Buffers(e, e', p)
  BY <1>3, EngineStays
<1>8. data \in Seq(Items)
  <2>1. req.at.page \in Pages /\ req.at.off[1] \in 1 .. MaxWbufs
    <3>1. CASE OfGet(req)
      BY <3>1 DEF OfGet, Offs
    <3>2. CASE OfCompactor(req)
      <4>1. Reading.off[1] = cp.w /\ Reading.page = cp.page
        BY DEF Reading, Place
      <4> QED BY <3>2, <4>1, RestedRead
    <3> QED BY <1>5, <1>6, <3>1, <3>2 DEF Expected, OfPage
  <2> QED BY <1>2, <1>4, <2>1 DEF DataOK
<1>9. data # NULL
  BY <1>8, MemExtAssumption
<1>10. \A r : Expected(r) /\ ~Alike(r, io[t].req) => Expected(r)'
  BY <1>1, <1>3, <1>5, <1>6, <1>7, AnswerExpects
<1>11. ReqsOK'
  BY <1>3, <1>4, <1>10, ReqsRead
<1> QED BY <1>3, <1>5, <1>6, <1>7, <1>8, <1>9, <1>11, Answered

LEMMA IoUnrefStep == ASSUME ItemInv, NEW t \in IoThreads, IoUnref(t) PROVE ItemData'
<1>1. PICK p : p = io[t].req.at.page
  OBVIOUS
<1>2. PICK n : n = e.pg[p].ref - 1
  OBVIOUS
<1>3. /\ io[t].pc = "unref" /\ e' = [e EXCEPT !.pg[p].ref = n] /\ io' = [io EXCEPT ![t] = NoIo]
      /\ UNCHANGED <<cfg, pdata, mt, table, hdr, lock, wr, sets, get, cp>>
  BY <1>1, <1>2 DEF IoUnref, IoIs, Io
<1>4. Engine(e) /\ DataOK(e) /\ ReqsOK /\ IoOK /\ p \in Pages
  BY <1>1, <1>3 DEF ItemInv, ItemData, IInv, TypeInv, IoOK
<1>5. Steady(e, e') /\ e'.queue = e.queue
  BY <1>3, <1>4, RefSteady DEF Engine, EngineFields
<1>6. DataOK(e') /\ Ages(e, e') /\ \A r \in Pages : Counts(e, e', r) /\ Buffers(e, e', r)
  BY <1>5 DEF Steady
<1>7. \A r : Expected(r) => Expected(r)'
  BY <1>3, <1>6, ExpectFrames DEF Waiting
<1>8. ReqsOK'
  BY <1>3, <1>4, <1>5, <1>7, ReqsUnref
<1>9. GetData' /\ PassData'
  BY <1>3, <1>6, ItemFrames
<1> QED BY <1>3, <1>6, <1>8, <1>9, Quiet

LEMMA IoWriteStep == ASSUME ItemInv, NEW t \in IoThreads, IoWrite(t) PROVE ItemData'
<1>1. PICK req : req = Head(e.queue[t])
  OBVIOUS
<1>2. PICK p : p = req.at.page
  OBVIOUS
<1> DEFINE d == [Popped(t) EXCEPT !.disk[p][e.pg[p].written + 1] = e.pg[p].wbuf]
<1>3. /\ e.queue[t] # <<>> /\ req.mode = "W" /\ e' = wbuf_cb(d, p) /\ io' = io
      /\ UNCHANGED <<cfg, pdata, mt, table, hdr, lock, wr, sets, get, cp>>
  BY Zenon, <1>1, <1>2 DEF IoWrite, Io
<1>4. Engine(e) /\ DataOK(e) /\ ReqsOK
  BY DEF ItemInv, ItemData, IInv, TypeInv
<1>5. p \in Pages /\ e.pg[p].full /\ e.pg[p].wbuf # NULL
  BY Zenon, <1>1, <1>2, <1>3, HeadExpected DEF Expected, OfPage, OfGet, OfCompactor
<1>6. /\ DOMAIN d = EngineFields /\ d.pg = e.pg /\ d.version = e.version /\ d.queue = [e.queue EXCEPT ![t] = Tail(@)]
      /\ d.disk = [e.disk EXCEPT ![p][e.pg[p].written + 1] = e.pg[p].wbuf]
  BY <1>4 DEF Popped, Engine, EngineFields
<1>7. PICK y : y = d
  OBVIOUS
<1> HIDE DEF d
<1>8. /\ DataOK(e') /\ Ages(e, e') /\ e'.queue = [e.queue EXCEPT ![t] = Tail(@)]
      /\ \A r \in Pages : Counts(e, e', r) /\ (r # p => Buffers(e, e', r))
  <2>1. /\ DOMAIN y = EngineFields /\ y.pg = e.pg /\ y.version = e.version
        /\ y.disk = [e.disk EXCEPT ![p][e.pg[p].written + 1] = e.pg[p].wbuf]
    BY <1>6, <1>7
  <2>2. DataOK(wbuf_cb(y, p)) /\ Ages(e, wbuf_cb(y, p)) /\ wbuf_cb(y, p).queue = y.queue
        /\ \A r \in Pages : Counts(e, wbuf_cb(y, p), r) /\ (r # p => Buffers(e, wbuf_cb(y, p), r))
    BY <1>4, <1>5, <2>1, WbufCbSteady
  <2> QED BY <1>3, <1>6, <1>7, <2>2
<1>9. ASSUME NEW r, Expected(r), ~Alike(r, req) PROVE Expected(r)'
  <2>1. CASE OfPage(r)
    <3>1. r.at.page # p
      BY <1>2, <1>3, <1>9, <2>1 DEF Alike, OfPage
    <3> QED BY <1>8, <2>1, <3>1 DEF Expected, OfPage, Buffers
  <2>2. CASE OfGet(r)
    BY <1>3, <2>2 DEF Expected, OfGet
  <2>3. CASE OfCompactor(r)
    BY <1>3, <2>3 DEF Expected, OfCompactor, Waiting
  <2> QED BY <1>9, <2>1, <2>2, <2>3 DEF Expected
<1>10. ReqsOK'
  BY <1>1, <1>3, <1>4, <1>8, <1>9, ReqsPop
<1>11. GetData' /\ PassData'
  BY <1>3, <1>8, ItemFrames
<1> QED BY <1>3, <1>8, <1>10, <1>11, Quiet

LEMMA IoStep == ASSUME ItemInv, NEW t \in IoThreads, IoThread(t) PROVE ItemData'
BY IoMissStep, IoBufferStep, IoHoldStep, IoReadStep, IoUnrefStep, IoWriteStep DEF IoThread

-----------------------------------------------------------------------------
(* The maintenance thread *)

\* A page that is not written to stays so while it is not taken again.
LEMMA StaysWritten ==
  ASSUME DataOK(e), Ages(e, e'), NEW p \in Pages, ~e.pg[p].active, ~e.pg[p].free
  PROVE  ~e'.pg[p].active
<1>1. e.pg[p].version # 0
  BY DEF DataOK, PageData
<1> QED BY <1>1 DEF Ages, Same, Freed, Fresh

\* The maintenance thread does nothing to who is served.
LEMMA Maintains ==
  ASSUME ItemInv, Steady(e, e'), e'.queue = e.queue, Maintaining, PassData'
  PROVE  ItemData'
<1>1. UNCHANGED <<cfg, io, table, hdr, lock, wr, cp, get, sets>>
  BY DEF Maintaining
<1>2. DataOK(e') /\ Ages(e, e') /\ \A p \in Pages : Counts(e, e', p) /\ Buffers(e, e', p)
  BY DEF Steady
<1>3. ReqsOK'
  BY <1>1, <1>2, NoneQueued
<1>4. GetData'
  BY <1>1, <1>2, ItemFrames
<1> QED BY <1>1, <1>2, <1>3, <1>4, Quiet

LEMMA MaintWakeData == ASSUME ItemInv, MaintWake PROVE ItemData'
<1>1. /\ e' = [e EXCEPT !.maint = "scan"] /\ UNCHANGED pdata /\ Maintaining
      /\ mt' = [NoPass EXCEPT !.todo = Ascending(Pages), !.evict = (e.free[0] = <<>>)]
  BY DEF MaintWake
<1>2. Bare(e, e') /\ e'.queue = e.queue
  BY <1>1 DEF ItemInv, IInv, TypeInv, Engine, EngineFields, Bare
<1>3. Steady(e, e')
  BY <1>2, BareSteady DEF ItemInv, ItemData
<1>4. mt'.low = NULL /\ DOMAIN mt'.pd = Pages /\ \A p \in Pages : mt'.pd[p] = 0
  BY <1>1 DEF NoPass
<1>5. PassData'
  <2>1. \A p \in Pages : Rested(e', p, pdata[p])
    BY <1>3, AgedRest DEF ItemInv, ItemData, PassData, Steady
  <2>2. \A p \in Pages : Rested(e', p, 0)
    BY <1>3 DEF Rested, Steady, DataOK
  <2> QED BY <1>1, <1>4, <2>1, <2>2 DEF ItemInv, ItemData, PassData
<1> QED BY <1>1, <1>2, <1>3, <1>5, Maintains

\* What is served was written to its end, and so was the page to be evicted.
LEMMA MaintPageData == ASSUME ItemInv, MaintPage PROVE ItemData'
<1> USE DEF ItemInv, ItemData
<1>1. PICK p : p = Head(mt.todo)
  OBVIOUS
<1> DEFINE q == e.pg[p]
           rests == ~q.active /\ ~q.free
           serves == rests /\ q.objs > 0 /\ ~q.closed
           lower == mt.low = NULL \/ (mt.low # NULL /\ q.version < e.pg[mt.low].version)
           frees == rests /\ Unused(q)
<1>2. /\ mt.todo # <<>> /\ e' = (IF frees THEN free_page(e, p) ELSE e) /\ Maintaining /\ UNCHANGED pdata
      /\ mt' = [mt EXCEPT !.todo = Tail(@), !.evict = @ /\ ~frees,
                          !.pd[p] = IF serves THEN q.version ELSE 0,
                          !.low = IF serves /\ FreeBucket[p] = 0 /\ lower THEN p ELSE @]
  BY <1>1 DEF MaintPage
<1>3. Engine(e) /\ DataOK(e) /\ DOMAIN mt = DOMAIN NoPass /\ DOMAIN mt.pd = Pages
  BY Zenon DEF IInv, TypeInv, PassOK, PassData
<1>4. p \in Pages
  BY <1>1, <1>2 DEF IInv, TypeInv, PassOK
<1>5. Steady(e, e') /\ e'.queue = e.queue
  <2>1. CASE frees
    BY <1>2, <1>3, <1>4, <2>1, FreePageSteady
  <2>2. CASE ~frees
    BY <1>2, <1>3, <2>2, BareSteady DEF Bare
  <2> QED BY <2>1, <2>2
<1>6. /\ mt'.pd = [mt.pd EXCEPT ![p] = IF serves THEN q.version ELSE 0]
      /\ mt'.low = mt.low \/ (serves /\ mt'.low = p)
  BY <1>2, <1>3 DEF NoPass
<1> HIDE DEF frees, lower
<1>7. DataOK(e') /\ Ages(e, e')
  BY Zenon, <1>5 DEF Steady
<1>8. PassData'
  <2>1. \A r \in Pages : Rested(e', r, pdata[r]) /\ Rested(e', r, mt.pd[r])
    BY <1>3, <1>7, AgedRest DEF PassData
  <2>2. Rested(e', p, IF serves THEN q.version ELSE 0)
    <3>1. Rested(e, p, 0)
      BY <1>3, <1>4 DEF Rested, DataOK
    <3>2. serves => Rested(e, p, q.version)
      BY <1>3, <1>4 DEF Rested, DataOK, PageData
    <3> QED BY <1>3, <1>7, <3>1, <3>2, AgedRest
  <2>3. mt'.low # NULL => ~e'.pg[mt'.low].active
    <3>1. CASE mt'.low = mt.low
      <4>1. mt.low # NULL => mt.low \in Pages /\ ~e.pg[mt.low].active /\ ~e.pg[mt.low].free
        BY DEF IInv, TypeInv, PassOK, PassData, LowInUse
      <4> QED BY <1>3, <1>7, <3>1, <4>1, StaysWritten
    <3>2. CASE serves /\ mt'.low = p
      BY <1>3, <1>4, <1>7, <3>2, StaysWritten
    <3> QED BY <1>6, <3>1, <3>2
  <2>4. DOMAIN mt'.pd = Pages /\ \A r \in Pages : mt'.pd[r] = IF r = p THEN (IF serves THEN q.version ELSE 0) ELSE mt.pd[r]
    BY <1>3, <1>6
  <2>5. \A r \in Pages : Rested(e', r, mt'.pd[r])
    <3> HIDE DEF serves
    <3> QED BY <2>1, <2>2, <2>4
  <2> QED BY <1>2, <2>1, <2>3, <2>4, <2>5 DEF PassData
<1> QED BY <1>2, <1>5, <1>8, Maintains

LEMMA SteadyTwice ==
  ASSUME NEW s, NEW t, NEW u, DataOK(s), Steady(s, t), Steady(t, u), t.version = s.version, u.version = t.version,
         \A p \in Pages : t.pg[p].version = s.pg[p].version
  PROVE  Steady(s, u)
<1>1. Ages(s, u) /\ DataOK(u)
  BY AgesTwice DEF Steady
<1>2. ASSUME NEW p \in Pages PROVE Counts(s, u, p) /\ Buffers(s, u, p)
  <2>1. s.pg[p].objs \in Nat /\ t.pg[p].objs \in Nat /\ u.pg[p].objs \in Nat
    BY <1>1 DEF Steady, DataOK, PageData
  <2>2. Counts(s, t, p) /\ Counts(t, u, p) /\ Buffers(s, t, p) /\ Buffers(t, u, p)
    BY DEF Steady
  <2> QED BY <2>1, <2>2 DEF Counts, Buffers
<1> QED BY <1>1, <1>2 DEF Steady

LEMMA MaintEndData == ASSUME ItemInv, MaintEnd PROVE ItemData'
<1> USE DEF ItemInv, ItemData
<1>1. PICK p : p = mt.low
  OBVIOUS
<1> DEFINE evicts == mt.evict /\ p # NULL /\ ~e.pg[p].closed
           c == [e EXCEPT !.pg[p].closed = TRUE]
           s == IF evicts THEN c ELSE e
           f == IF evicts /\ e.pg[p].ref = 0 THEN free_page(s, p) ELSE s
<1>2. e' = [f EXCEPT !.maint = "wait"] /\ mt' = NoPass /\ pdata' = mt.pd /\ Maintaining
  BY <1>1 DEF MaintEnd
<1>3. Engine(e) /\ DataOK(e)
  BY DEF IInv, TypeInv
<1>4. Steady(e, e) /\ (p # NULL => p \in Pages /\ ~e.pg[p].active /\ ~e.pg[p].free)
  BY <1>1, <1>3, BareSteady DEF Bare, IInv, TypeInv, PassOK, LowInUse, PassData
<1>5. Engine(f) /\ Steady(e, f) /\ f.queue = e.queue
  <2>1. ASSUME p # NULL
        PROVE  /\ Engine(c) /\ Steady(e, c) /\ c.queue = e.queue /\ c.version = e.version
               /\ ~c.pg[p].active /\ ~c.pg[p].free
               /\ \A r \in Pages : c.pg[r].version = e.pg[r].version
    BY <1>3, <1>4, <2>1, MarkSteady
  <2> HIDE DEF c
  <2>2. CASE evicts /\ e.pg[p].ref = 0
    <3>1. p \in Pages /\ Engine(c) /\ DataOK(c)
      BY <1>4, <2>1, <2>2 DEF Steady
    <3>2. Steady(c, free_page(c, p)) /\ free_page(c, p).queue = c.queue /\ free_page(c, p).version = c.version
      BY <2>1, <2>2, <3>1, FreePageSteady
    <3>3. Engine(free_page(c, p))
      BY <3>1, FreePageGivesBack
    <3>4. Steady(e, free_page(c, p))
      BY <1>3, <2>1, <2>2, <3>2, SteadyTwice
    <3> QED BY <2>1, <2>2, <3>2, <3>3, <3>4
  <2>3. CASE evicts /\ e.pg[p].ref # 0
    BY <2>1, <2>3
  <2>4. CASE ~evicts
    BY <1>3, <1>4, <2>4
  <2> QED BY <2>2, <2>3, <2>4
<1> HIDE DEF f
<1>6. Bare(f, e') /\ e'.queue = f.queue
  BY <1>2, <1>5 DEF Engine, EngineFields, Bare
<1>7. Steady(e, e')
  BY <1>5, <1>6, BareAfter DEF Steady
<1>8. PassData'
  <2>1. \A r \in Pages : Rested(e', r, mt.pd[r])
    BY <1>3, <1>7, AgedRest DEF PassData, Steady
  <2>2. \A r \in Pages : Rested(e', r, 0)
    BY <1>7 DEF Rested, Steady, DataOK
  <2>3. mt'.low = NULL /\ DOMAIN mt'.pd = Pages /\ \A r \in Pages : mt'.pd[r] = 0
    BY <1>2 DEF NoPass
  <2> QED BY <1>2, <2>1, <2>2, <2>3 DEF PassData
<1> QED BY <1>2, <1>5, <1>6, <1>7, <1>8, Maintains

-----------------------------------------------------------------------------
(* The compactor reads *)

\* The compactor does nothing to those it does not serve.
LEMMA Expects ==
  ASSUME ItemInv, ~Waiting, \A p \in Pages : Buffers(e, e', p), get' = get
  PROVE  \A r : Expected(r) => Expected(r)'
BY ExpectFrames

\* A step in which it writes no item.
LEMMA CompactTurn ==
  ASSUME ItemInv, ~Rescuing, ~Rescuing', Steady(e, e'), Compacting, UNCHANGED <<hdr, lock, wr>>,
         ReqsOK', CompactData', Counted'
  PROVE  ItemData'
<1>1. UNCHANGED <<cfg, pdata, mt, io, table, get, sets, hdr, lock, wr>>
  BY DEF Compacting
<1>2. DataOK(e') /\ Ages(e, e')
  BY DEF Steady
<1>3. GetData' /\ PassData'
  BY <1>1, <1>2, ItemFrames
<1> QED BY <1>1, <1>2, <1>3, Turn

\* It stays with its page.
LEMMA PageStays ==
  ASSUME ItemInv, DataOK(e'), Ages(e, e'), cp'.on = cp.on, cp'.page = cp.page, cp'.version = cp.version,
         cp'.miss = cp.miss \/ ~cp'.miss, cp'.pc # "top" => cp.on,
         cp'.n \in Nat \ {0}, cp'.w \in Nat \ {0}, cp'.buf \in Seq(Items)
  PROVE  CompactData'
<1> USE DEF ItemInv, ItemData
<1>1. cp.on => cp.version # 0 /\ Rested(e', cp.page, cp.version)
  BY AgedRest DEF CompactData
<1>2. cp.on /\ cp.miss => ~SamePage(e', Reading)
  <2> SUFFICES ASSUME cp.on, cp.miss, SamePage(e', Reading) PROVE FALSE
    OBVIOUS
  <2>1. Reading.page \in Pages /\ Reading.version \in 1 .. e.version - 1
    BY DEF CompactData, Rested, Reading, Place, DataOK
  <2> QED BY <2>1, AgedMiss DEF CompactData
<1>3. SamePage(e', Reading') <=> SamePage(e', Reading)
  BY DEF SamePage, Reading, Place
<1> QED BY <1>1, <1>2, <1>3 DEF CompactData

\* It asks for a buffer of its page.
LEMMA Asked ==
  ASSUME ItemInv, NEW x, x.page \in Pages, e' = extstore_run_maint(Ask(x)), ~Waiting, UNCHANGED <<cfg, io, get>>,
         Waiting', cp'.page = x.page, cp'.version = x.version, cp'.w = x.w
  PROVE  Steady(e, e') /\ ReqsOK'
<1>1. PICK req : req = [mode |-> "R", at |-> Place(x.page, x.version, <<x.w, 0>>), who |-> "compact"]
  OBVIOUS
<1>2. req.mode = "R" /\ req.at.page \in Pages /\ req.who = "compact"
  BY <1>1 DEF Place
<1>3. Engine(e) /\ DataOK(e) /\ ReqsOK
  BY DEF ItemInv, ItemData, IInv, TypeInv
<1>4. PICK s : s = Ask(x) /\ s = extstore_submit(e, req)
  BY <1>1 DEF Ask
<1>5. Bare(e, s) /\ \E u : s.queue = [e.queue EXCEPT ![u] = Append(@, req)]
  BY <1>3, <1>4, SubmitBare
<1>6. Engine(s)
  BY <1>2, <1>3, <1>4, SubmitCalm
<1>7. Bare(s, e') /\ e'.queue = s.queue
  BY <1>4, <1>6, RunMaintBare
<1>8. Steady(e, e')
  BY <1>3, <1>5, <1>7, BareSteady, BareAfter DEF Steady
<1>9. \A r : Expected(r) => ~Alike(r, req) /\ Expected(r)'
  <2>1. \A r : Expected(r) => Expected(r)'
    BY <1>8, Expects DEF Steady
  <2>2. "compact" \notin Getters /\ "R" # "W"
    BY MemExtAssumption DEF Writers
  <2> QED BY Zenon, <1>2, <2>1, <2>2 DEF Expected, OfPage, OfGet, OfCompactor, Alike
<1>10. Expected(req)'
  BY <1>1 DEF Expected, OfCompactor
<1>11. ReqsOK'
  BY <1>3, <1>5, <1>7, <1>9, <1>10, ReqsSubmit
<1> QED BY <1>8, <1>11

LEMMA CompactStartData == ASSUME ItemInv, NEW p \in Pages, CompactStart(p) PROVE ItemData'
<1> USE DEF ItemInv, ItemData
<1>1. PICK x : x = [NotCompacting EXCEPT !.on = TRUE, !.page = p, !.version = pdata[p], !.submitted = TRUE]
  OBVIOUS
<1>2. /\ cp.pc = "top" /\ ~cp.on /\ pdata[p] # 0 /\ cp' = x /\ e' = extstore_run_maint(Ask(x))
      /\ Compacting /\ UNCHANGED <<hdr, lock, wr>>
  BY <1>1 DEF CompactStart
<1>3. UNCHANGED <<cfg, io, get, pdata>>
  BY <1>2 DEF Compacting
<1>4. /\ x.on = TRUE /\ x.page = p /\ x.version = pdata[p] /\ x.submitted = TRUE /\ x.pc = "top" /\ x.w = 1
      /\ x.done = FALSE /\ x.miss = FALSE /\ x.n = 1 /\ x.buf = <<>>
  BY <1>1 DEF NotCompacting
<1>5. ~Waiting /\ ~Rescuing /\ ~Rescuing'
  BY <1>2, <1>4 DEF Waiting, Rescuing
<1>6. Waiting'
  <2>1. 1 \in 1 .. cfg.wbufs
    BY MemExtAssumption DEF DataOK
  <2> QED BY <1>2, <1>3, <1>4, <2>1 DEF Waiting
<1>7. Steady(e, e') /\ ReqsOK'
  BY <1>2, <1>3, <1>4, <1>5, <1>6, Asked
<1>8. CompactData'
  <2>1. Rested(e', p, pdata[p])
    BY <1>7, AgedRest DEF PassData, Steady
  <2>2. <<>> \in Seq(Items)
    BY EmptySeq
  <2> QED BY <1>2, <1>4, <2>1, <2>2 DEF CompactData
<1>9. Counted'
  BY <1>2, <1>5, <1>7, TurnCounts DEF Compacting, Steady
<1> QED BY <1>2, <1>5, <1>7, <1>8, <1>9, CompactTurn

\* Maintenance is asked for.
LEMMA MaintAsked == ASSUME ItemInv, e' = extstore_run_maint(e) PROVE Steady(e, e') /\ e'.queue = e.queue /\ e'.pg = e.pg
BY RunMaintBare, BareSteady DEF ItemInv, ItemData, IInv, TypeInv, Bare

LEMMA CompactIdleData == ASSUME ItemInv, CompactIdle PROVE ItemData'
<1>1. e' = extstore_run_maint(e) /\ UNCHANGED <<cfg, pdata, mt, io, table, get, sets, cp, hdr, lock, wr>>
  BY DEF CompactIdle, Compacting
<1>2. DataOK(e') /\ Ages(e, e') /\ e'.queue = e.queue /\ \A p \in Pages : Counts(e, e', p) /\ Buffers(e, e', p)
  BY <1>1, MaintAsked DEF Steady
<1>3. ReqsOK'
  BY <1>1, <1>2, NoneQueued
<1>4. GetData' /\ PassData'
  BY <1>1, <1>2, ItemFrames
<1> QED BY <1>1, <1>2, <1>3, <1>4, Quiet

LEMMA CpShape == ItemInv => DOMAIN cp = CpFields
BY CpDomain DEF ItemInv, IInv

LEMMA CompactSubmitData == ASSUME ItemInv, CompactSubmit PROVE ItemData'
<1> USE DEF ItemInv, ItemData
<1>1. /\ cp.pc = "top" /\ cp.on /\ cp.w <= cfg.wbufs /\ ~cp.done /\ ~cp.submitted
      /\ cp' = [cp EXCEPT !.submitted = TRUE, !.miss = FALSE] /\ e' = extstore_run_maint(Ask(cp))
      /\ Compacting /\ UNCHANGED <<hdr, lock, wr>>
  BY DEF CompactSubmit
<1>2. UNCHANGED <<cfg, io, get, table>>
  BY <1>1 DEF Compacting
<1>3. /\ cp'.submitted = TRUE /\ cp'.miss = FALSE
      /\ \A f \in CpFields \ {"submitted", "miss"} : cp'[f] = cp[f]
  BY <1>1, CpShape DEF CpFields
<1>4. /\ cp'.pc = cp.pc /\ cp'.on = cp.on /\ cp'.page = cp.page /\ cp'.version = cp.version /\ cp'.w = cp.w
      /\ cp'.done = cp.done /\ cp'.buf = cp.buf /\ cp'.n = cp.n /\ cp'.h = cp.h
  BY <1>3 DEF CpFields
<1>5. ~Waiting /\ ~Rescuing /\ ~Rescuing'
  BY <1>1, <1>4 DEF Waiting, Rescuing
<1>6. cp.page \in Pages /\ cp.w \in 1 .. cfg.wbufs
  BY <1>1, MemExtAssumption DEF CompactData, Rested, DataOK
<1>7. Waiting'
  BY <1>1, <1>2, <1>3, <1>4, <1>6 DEF Waiting
<1>8. PICK x : x = cp
  OBVIOUS
<1>9. Steady(e, e') /\ ReqsOK'
  BY <1>1, <1>2, <1>4, <1>5, <1>6, <1>7, <1>8, Asked
<1>10. CompactData'
  BY <1>1, <1>3, <1>4, <1>9, PageStays DEF CompactData, Steady
<1>11. Counted'
  BY <1>1, <1>2, <1>4, <1>5, <1>9, TurnCounts DEF Steady
<1> QED BY <1>1, <1>5, <1>9, <1>10, <1>11, CompactTurn

\* The page is behind the compactor: it was gone, or is closed now.
LEMMA CompactEndData == ASSUME ItemInv, CompactEnd PROVE ItemData'
<1> USE DEF ItemInv, ItemData
<1>1. /\ cp.pc = "top" /\ cp.on /\ cp' = NotCompacting /\ Compacting /\ UNCHANGED <<hdr, lock, wr>>
      /\ \/ cp.miss /\ e' = extstore_run_maint(e)
         \/ ~cp.miss /\ ~cp.submitted /\ e' = extstore_run_maint(extstore_close_page(e, Reading))
  BY DEF CompactEnd
<1>2. UNCHANGED <<cfg, io, get, table>>
  BY <1>1 DEF Compacting
<1>3. ~Waiting /\ ~Rescuing /\ ~Rescuing'
  BY <1>1 DEF Waiting, Rescuing, NotCompacting
<1>4. Engine(e) /\ DataOK(e) /\ Reading.page \in Pages
  BY <1>1 DEF IInv, TypeInv, CompactData, Rested, Reading, Place
<1>5. Steady(e, e') /\ e'.queue = e.queue /\ ~SamePage(e', Reading)
  <2>1. CASE cp.miss /\ e' = extstore_run_maint(e)
    BY <1>1, <2>1, MaintAsked DEF CompactData, SamePage
  <2>2. CASE e' = extstore_run_maint(extstore_close_page(e, Reading))
    <3>1. PICK s : s = extstore_close_page(e, Reading) /\ Steady(e, s) /\ s.queue = e.queue /\ ~SamePage(s, Reading)
      BY <1>4, CloseSteady
    <3>2. Engine(s)
      BY <1>4, <3>1, ClosePageCalm
    <3>3. Bare(s, e') /\ e'.queue = s.queue
      BY <2>2, <3>1, <3>2, RunMaintBare
    <3>4. Steady(e, e')
      BY <3>1, <3>3, BareAfter DEF Steady
    <3> QED BY <3>1, <3>3, <3>4 DEF SamePage, Bare
  <2> QED BY <1>1, <2>1, <2>2
<1>6. ReqsOK'
  <2>1. \A r : Expected(r) => Expected(r)'
    BY <1>2, <1>3, <1>5, Expects DEF Steady
  <2> QED BY <1>2, <1>5, <2>1, ReqsSame
<1>7. CompactData'
  <2>1. <<>> \in Seq(Items)
    BY EmptySeq
  <2> QED BY <1>1, <2>1 DEF CompactData, NotCompacting
<1>8. Counted'
  BY <1>1, <1>2, <1>3, <1>5, TurnCounts DEF Steady
<1> QED BY <1>1, <1>3, <1>5, <1>6, <1>7, <1>8, CompactTurn

LEMMA ReadbackBeginData == ASSUME ItemInv, ReadbackBegin PROVE ItemData'
<1> USE DEF ItemInv, ItemData
<1>1. /\ cp.pc = "top" /\ cp.on /\ cp.done /\ cp' = [cp EXCEPT !.pc = "entry", !.n = 1]
      /\ Compacting /\ UNCHANGED <<e, hdr, lock, wr>>
  BY DEF ReadbackBegin
<1>2. UNCHANGED <<cfg, io, get, table>>
  BY <1>1 DEF Compacting
<1>3. /\ cp'.pc = "entry" /\ cp'.n = 1 /\ cp'.on = cp.on /\ cp'.page = cp.page /\ cp'.version = cp.version
      /\ cp'.w = cp.w /\ cp'.buf = cp.buf /\ cp'.miss = cp.miss
  BY <1>1, CpShape DEF CpFields
<1>4. ~Waiting /\ ~Rescuing /\ ~Rescuing'
  BY <1>1, <1>3 DEF Waiting, Rescuing
<1>5. Steady(e, e') /\ e'.queue = e.queue
  BY <1>1, EngineStays DEF Steady
<1>6. ReqsOK'
  <2>1. \A r : Expected(r) => Expected(r)'
    BY <1>2, <1>4, <1>5, Expects DEF Steady
  <2> QED BY <1>2, <1>5, <2>1, ReqsSame
<1>7. CompactData'
  BY <1>1, <1>3, <1>5, PageStays DEF CompactData, Steady
<1>8. Counted'
  BY <1>1, <1>2, <1>3, <1>4, <1>5, TurnCounts DEF Steady
<1> QED BY <1>1, <1>4, <1>5, <1>6, <1>7, <1>8, CompactTurn

LEMMA ReadbackEndData == ASSUME ItemInv, ReadbackEnd PROVE ItemData'
<1> USE DEF ItemInv, ItemData
<1>1. /\ cp.pc = "entry" /\ e' = extstore_run_maint(e) /\ Compacting /\ UNCHANGED <<hdr, lock, wr>>
      /\ cp' = [cp EXCEPT !.pc = "top", !.w = @ + 1, !.done = FALSE, !.submitted = FALSE, !.buf = <<>>]
  BY DEF ReadbackEnd
<1>2. UNCHANGED <<cfg, io, get, table>>
  BY <1>1 DEF Compacting
<1>3. /\ cp'.pc = "top" /\ cp'.n = cp.n /\ cp'.on = cp.on /\ cp'.page = cp.page /\ cp'.version = cp.version
      /\ cp'.w = cp.w + 1 /\ cp'.buf = <<>> /\ cp'.miss = cp.miss
  BY <1>1, CpShape DEF CpFields
<1>4. ~Waiting /\ ~Rescuing /\ ~Rescuing'
  BY <1>1, <1>3 DEF Waiting, Rescuing
<1>5. Steady(e, e') /\ e'.queue = e.queue
  BY <1>1, MaintAsked
<1>6. ReqsOK'
  <2>1. \A r : Expected(r) => Expected(r)'
    BY <1>2, <1>4, <1>5, Expects DEF Steady
  <2> QED BY <1>2, <1>5, <2>1, ReqsSame
<1>7. CompactData'
  <2>1. <<>> \in Seq(Items)
    BY EmptySeq
  <2> QED BY <1>1, <1>3, <1>5, <2>1, PageStays DEF CompactData, Steady
<1>8. Counted'
  BY <1>1, <1>2, <1>3, <1>4, <1>5, TurnCounts DEF Steady
<1> QED BY <1>1, <1>4, <1>5, <1>6, <1>7, <1>8, CompactTurn

-----------------------------------------------------------------------------
(* The compactor writes *)

\* It goes on with the next item.
LEMMA PassedBy ==
  ASSUME ItemInv, cp' = Passed, cp.pc # "top", DataOK(e'), Ages(e, e')
  PROVE  /\ CompactData' /\ ~Rescuing' /\ cp'.on = cp.on /\ cp'.page = cp.page /\ cp'.version = cp.version
         /\ cp'.pc = "entry"
<1>1. /\ cp'.pc = "entry" /\ cp'.n = cp.n + 1 /\ cp'.on = cp.on /\ cp'.page = cp.page /\ cp'.version = cp.version
      /\ cp'.w = cp.w /\ cp'.buf = cp.buf /\ cp'.miss = cp.miss
  BY CpShape DEF Passed, CpFields
<1>2. CompactData'
  BY <1>1, PageStays DEF ItemInv, ItemData, CompactData
<1> QED BY <1>1, <1>2 DEF Rescuing

\* Who writes the item, and its lock, is the compactor's own.
LEMMA CompactorWrites ==
  ASSUME ItemInv, NEW w, wr' = [wr EXCEPT !["compact"] = w]
  PROVE  wr'["compact"] = w /\ wr'["write"] = wr["write"]
BY WritersShape DEF Writers

\* A step in which the compactor neither asks for a buffer nor has asked for one.
LEMMA RescueFrames ==
  ASSUME ItemInv, cp.pc # "top", Steady(e, e'), e'.queue = e.queue, Compacting
  PROVE  cfg' \in Configs /\ DataOK(e)' /\ ReqsOK' /\ GetData' /\ TableData' /\ PassData'
<1>1. UNCHANGED <<cfg, pdata, mt, io, table, get, sets>>
  BY DEF Compacting
<1>2. DataOK(e') /\ Ages(e, e')
  BY DEF Steady
<1>3. ReqsOK'
  <2>1. \A r : Expected(r) => Expected(r)'
    BY <1>1, Expects DEF Steady, Waiting
  <2> QED BY <1>1, <2>1, ReqsSame DEF ItemInv, ItemData
<1>4. cfg' \in Configs /\ DataOK(e)' /\ GetData' /\ TableData' /\ PassData'
  BY <1>1, <1>2, ItemFrames
<1> QED BY <1>3, <1>4

LEMMA ReadbackData == ASSUME ItemInv, NEW drop \in BOOLEAN, Readback(drop) PROVE ItemData'
<1> USE DEF ItemInv, ItemData
<1>1. PICK item : item = cp.buf[cp.n]
  OBVIOUS
<1> DEFINE k == item.key
           valid == StillValid(table[k])
           write == valid /\ ~drop
<1>2. /\ cp.pc = "entry" /\ cp.n <= Len(cp.buf) /\ lock[k] = NULL
      /\ e' = IF valid THEN extstore_delete(e, Reading) ELSE e
      /\ cp' = IF write THEN [cp EXCEPT !.pc = "write", !.h = table[k].val, !.tries = Tries] ELSE Passed
      /\ wr' = IF write THEN Requested("compact", k, item) ELSE wr
      /\ lock' = [lock EXCEPT ![k] = IF write THEN "compact" ELSE NULL]
      /\ Compacting /\ UNCHANGED hdr
  BY <1>1 DEF Readback
<1>3. UNCHANGED <<cfg, pdata, mt, io, table, get, sets>>
  BY <1>2 DEF Compacting
<1>4. Engine(e) /\ DataOK(e) /\ cp.on /\ wr["compact"].pc = "idle" /\ ~Rescuing
  BY <1>2 DEF IInv, TypeInv, CompactData, RescueData, Rescuing
<1>5. item \in Items /\ k \in Keys
  <2>1. item \in Items
    BY <1>1, <1>2 DEF CompactData
  <2> QED BY Zenon, <2>1 DEF Items
<1>6. DataOK(e') /\ Ages(e, e') /\ Lessened(e, e', Reading) /\ e'.queue = e.queue /\ \A p \in Pages : Buffers(e, e', p)
  <2>1. CASE valid
    BY <1>2, <1>4, <2>1, DeleteLess
  <2>2. CASE ~valid
    BY <1>2, <2>2, EngineStays DEF Lessened
  <2> QED BY <2>1, <2>2
<1>7. /\ cp'.on = cp.on /\ cp'.page = cp.page /\ cp'.version = cp.version /\ CompactData'
      /\ cp'.pc \in {"entry", "write"} /\ (cp'.pc = "write" <=> write)
      /\ write => cp'.n = cp.n /\ cp'.buf = cp.buf /\ cp'.h = table[k].val
  <2>1. CASE write
    <3>1. /\ cp'.pc = "write" /\ cp'.n = cp.n /\ cp'.on = cp.on /\ cp'.page = cp.page /\ cp'.version = cp.version
          /\ cp'.w = cp.w /\ cp'.buf = cp.buf /\ cp'.miss = cp.miss /\ cp'.h = table[k].val
      BY <1>2, <2>1, CpShape DEF CpFields
    <3>2. CompactData'
      BY <1>4, <1>6, <3>1, PageStays DEF CompactData
    <3> QED BY <2>1, <3>1, <3>2
  <2>2. CASE ~write
    BY <1>2, <1>6, <2>2, PassedBy
  <2> QED BY <2>1, <2>2
<1> DEFINE w == [NoWrite EXCEPT !.pc = "request", !.key = k, !.item = item]
<1>8. w.pc = "request" /\ w.key = k /\ w.item = item
  BY DEF NoWrite
<1> HIDE DEF w
<1>9. wr'["write"] = wr["write"] /\ wr'["compact"] = IF write THEN w ELSE wr["compact"]
  BY <1>2, CompactorWrites DEF Requested, w
<1>10. /\ DOMAIN lock' = Keys /\ \A j \in Keys : j # k => lock'[j] = lock[j]
       /\ lock'[k] = IF write THEN "compact" ELSE NULL
  BY <1>2, <1>5 DEF WriteLock
<1>11. cfg' \in Configs /\ DataOK(e)' /\ GetData' /\ TableData' /\ HdrData' /\ PassData' /\ HdrsPoint'
  BY <1>2, <1>3, <1>6, ItemFrames
<1>12. ReqsOK'
  <2>1. \A r : Expected(r) => Expected(r)'
    BY <1>2, <1>3, <1>6, Expects DEF Waiting
  <2> QED BY <1>3, <1>6, <2>1, ReqsSame
<1>13. WriteData'
  <2>1. WriterData(wr["write"])'
    BY <1>3, <1>6, <1>9, ItemFrames DEF Writers
  <2>2. WriterData(wr["compact"])'
    BY <1>4, <1>5, <1>8, <1>9 DEF WriterData
  <2> QED BY <2>1, <2>2 DEF WriteData, Writers
<1>14. WriteLock'
  <2>1. wr["write"].pc # "idle" => wr["write"].key \in Keys /\ wr["write"].key # k
    BY <1>2, MemExtAssumption DEF WriteLock, WriteData, WriterData, Writers
  <2> QED BY <1>3, <1>9, <1>10, <2>1 DEF WriteLock
<1>15. RescueData'
  <2>1. CASE write
    <3>1. IsHdr(table[k]) /\ table[k].val \in DOMAIN hdr
      BY <1>5, <2>1 DEF StillValid, IInv, TypeInv, TableOK
    <3>2. \A j \in Keys : IsHdr(table'[j]) /\ table'[j].val = cp'.h => j = k
      BY <1>3, <1>5, <1>7, <2>1, <3>1 DEF HdrData
    <3>3. wr'["compact"].pc = "request" /\ wr'["compact"].key = k /\ lock'[k] = "compact" /\ hdr' = hdr
      BY Zenon, <1>2, <1>8, <1>9, <1>10, <2>1
    <3>4. cp'.pc = "write" /\ cp'.n <= Len(cp'.buf) /\ cp'.buf[cp'.n].key = k /\ cp'.h \in DOMAIN hdr
      BY <1>1, <1>2, <1>7, <2>1, <3>1
    <3> QED BY <3>2, <3>3, <3>4 DEF RescueData, Rescuing, HasHdr
  <2>2. CASE ~write
    BY Zenon, <1>4, <1>7, <1>9, <2>2 DEF RescueData, Rescuing
  <2> QED BY <2>1, <2>2
<1>16. Counted'
  <2>1. ASSUME NEW p \in Pages PROVE Counts(e, e', p) \/ Emptied(p)'
    BY <1>4, <1>6, <1>7 DEF Lessened, Leads, SamePage, Reading, Place, Counts, Emptied
  <2>2. \A x \in Writers : wr'[x] = wr[x] \/ wr'[x].pc # "ok"
    BY <1>8, <1>9 DEF Writers
  <2>3. wr'["compact"].pc # "ok"
    BY <1>4, <1>8, <1>9
  <2> QED BY <1>2, <1>3, <1>6, <1>7, <2>1, <2>2, <2>3, CountFrames
<1> QED BY <1>7, <1>11, <1>12, <1>13, <1>14, <1>15, <1>16

\* The compactor is done with an item and gives its lock up.
LEMMA Released ==
  ASSUME ItemInv, Rescuing, e' = e, cp' = Passed, lock' = Unlocked, wr' = [wr EXCEPT !["compact"] = NoWrite],
         Compacting, HdrData', HdrsPoint', Counted'
  PROVE  ItemData'
<1> USE DEF ItemInv, ItemData
<1>1. UNCHANGED <<cfg, pdata, mt, io, table, get, sets>> /\ cp.pc # "top"
  BY DEF Compacting, Rescuing
<1>2. Steady(e, e') /\ e'.queue = e.queue
  BY EngineStays DEF Steady
<1>3. DataOK(e') /\ Ages(e, e')
  BY <1>2 DEF Steady
<1>4. CompactData' /\ ~Rescuing'
  BY <1>1, <1>3, PassedBy
<1>5. cfg' \in Configs /\ DataOK(e)' /\ ReqsOK' /\ GetData' /\ TableData' /\ PassData'
  BY <1>1, <1>2, RescueFrames
<1>6. wr'["compact"].pc = "idle" /\ wr'["write"] = wr["write"]
  BY CompactorWrites DEF NoWrite
<1>7. WriteData'
  <2>1. WriterData(wr["write"])'
    BY <1>1, <1>3, <1>6, ItemFrames DEF Writers
  <2>2. WriterData(wr["compact"])'
    BY <1>6 DEF WriterData
  <2> QED BY <2>1, <2>2 DEF WriteData, Writers
<1>8. WriteLock'
  <2>1. lock' = [lock EXCEPT ![wr["compact"].key] = NULL] /\ lock[wr["compact"].key] = "compact"
    BY DEF Unlocked, RescueData
  <2>2. wr["write"].pc # "idle" => wr["write"].key \in Keys /\ wr["write"].key # wr["compact"].key
    BY <2>1 DEF WriteLock, WriteData, WriterData, Writers
  <2> QED BY <1>1, <1>6, <2>1, <2>2 DEF WriteLock
<1>9. RescueData'
  BY <1>4, <1>6 DEF RescueData, Rescuing
<1> QED BY <1>4, <1>5, <1>7, <1>8, <1>9

\* No header changes: the item stays where it was, or is lost.
LEMMA LeftThere ==
  ASSUME ItemInv, cp.pc = "write", UNCHANGED <<e, hdr>>, cp' = Passed, lock' = Unlocked,
         wr' = [wr EXCEPT !["compact"] = NoWrite], Compacting
  PROVE  ItemData'
<1>1. UNCHANGED <<cfg, table>> /\ Rescuing
  BY DEF Compacting, Rescuing
<1>2. DataOK(e') /\ Ages(e, e') /\ \A p \in Pages : Counts(e, e', p)
  BY EngineStays
<1>3. HdrData' /\ HdrsPoint'
  BY <1>1, <1>2, ItemFrames
<1>4. wr'["compact"].pc = "idle" /\ wr'["write"] = wr["write"]
  BY CompactorWrites DEF NoWrite
<1>5. cp'.on = cp.on /\ cp'.page = cp.page /\ cp'.version = cp.version
  BY <1>2, PassedBy
<1>6. Counted'
  <2>1. \A x \in Writers : wr'[x] = wr[x] \/ wr'[x].pc # "ok"
    BY <1>4 DEF Writers
  <2> QED BY <1>1, <1>2, <1>4, <1>5, <2>1, CountFrames
<1> QED BY <1>1, <1>3, <1>6, Released

LEMMA RescueFailsData == ASSUME ItemInv, RescueFails PROVE ItemData'
<1> USE DEF ItemInv, ItemData
<1> DEFINE x == wr["compact"]
<1>1. /\ cp.pc = "write" /\ x.pc = "fail" /\ Compacting /\ UNCHANGED <<e, hdr>>
      /\ IF cp.tries > 1
         THEN wr' = Requested("compact", x.key, x.item) /\ cp' = [cp EXCEPT !.tries = @ - 1] /\ UNCHANGED lock
         ELSE wr' = [wr EXCEPT !["compact"] = NoWrite] /\ cp' = Passed /\ lock' = Unlocked
  BY DEF RescueFails
<1>2. CASE ~(cp.tries > 1)
  BY <1>1, <1>2, LeftThere
<1>3. CASE cp.tries > 1
  <2>1. UNCHANGED <<cfg, pdata, mt, io, table, get, sets, lock>>
    BY <1>1, <1>3 DEF Compacting
  <2> DEFINE w == [NoWrite EXCEPT !.pc = "request", !.key = x.key, !.item = x.item]
  <2>2. w.pc = "request" /\ w.key = x.key /\ w.item = x.item
    BY DEF NoWrite
  <2> HIDE DEF w
  <2>3. wr'["compact"] = w /\ wr'["write"] = wr["write"]
    BY <1>1, <1>3, CompactorWrites DEF Requested, w
  <2>4. /\ cp'.pc = cp.pc /\ cp'.n = cp.n /\ cp'.on = cp.on /\ cp'.page = cp.page /\ cp'.version = cp.version
        /\ cp'.w = cp.w /\ cp'.buf = cp.buf /\ cp'.miss = cp.miss /\ cp'.h = cp.h
    BY <1>1, <1>3, CpShape DEF CpFields
  <2>5. Steady(e, e') /\ e'.queue = e.queue
    BY <1>1, EngineStays DEF Steady
  <2>6. DataOK(e') /\ Ages(e, e') /\ \A p \in Pages : Counts(e, e', p)
    BY <2>5 DEF Steady
  <2>7. cfg' \in Configs /\ DataOK(e)' /\ ReqsOK' /\ GetData' /\ TableData' /\ PassData'
    BY <1>1, <2>5, RescueFrames
  <2>8. HdrData' /\ HdrsPoint'
    BY <1>1, <2>1, <2>6, ItemFrames
  <2>9. CompactData'
    BY <1>1, <2>4, <2>6, PageStays DEF CompactData
  <2>10. WriteData'
    <3>1. WriterData(wr["write"])'
      BY <2>1, <2>3, <2>6, ItemFrames DEF Writers
    <3>2. WriterData(wr["compact"])'
      BY <1>1, <2>2, <2>3 DEF WriteData, WriterData, Writers
    <3> QED BY <3>1, <3>2 DEF WriteData, Writers
  <2>11. WriteLock'
    BY <2>1, <2>3 DEF WriteLock
  <2>12. RescueData'
    BY <1>1, <2>1, <2>2, <2>3, <2>4 DEF RescueData, Rescuing, HasHdr
  <2>13. Counted'
    <3>1. \A y \in Writers : wr'[y] = wr[y] \/ wr'[y].pc # "ok"
      BY <2>2, <2>3 DEF Writers
    <3> QED BY <1>1, <2>1, <2>4, <2>6, <3>1, CountFrames
  <2> QED BY <2>7, <2>8, <2>9, <2>10, <2>11, <2>12, <2>13
<1> QED BY <1>2, <1>3

\* First the page and its version: the header leads where the item has been
\* written, once its offset follows.
LEMMA RescuePageData == ASSUME ItemInv, RescuePage PROVE ItemData'
<1> USE DEF ItemInv, ItemData
<1> DEFINE x == wr["compact"]
<1>1. /\ cp.pc = "write" /\ x.pc = "ok" /\ Compacting /\ e' = e
      /\ IF x.item.solo
         THEN /\ hdr' = [hdr EXCEPT ![cp.h].page = x.at.page, ![cp.h].version = x.at.version]
              /\ cp' = [cp EXCEPT !.pc = "offset"]
              /\ UNCHANGED <<lock, wr>>
         ELSE cp' = Passed /\ lock' = Unlocked /\ wr' = [wr EXCEPT !["compact"] = NoWrite] /\ UNCHANGED hdr
  BY DEF RescuePage
<1>2. CASE ~x.item.solo
  BY <1>1, <1>2, LeftThere
<1>3. CASE x.item.solo
  <2>1. UNCHANGED <<cfg, pdata, mt, io, table, get, sets, lock, wr>> /\ Rescuing
    BY <1>1, <1>3 DEF Compacting, Rescuing
  <2> DEFINE n == [hdr[cp.h] EXCEPT !.page = x.at.page, !.version = x.at.version]
  <2>2. cp.h \in DOMAIN hdr
    BY <2>1 DEF RescueData
  <2>3. n.page = x.at.page /\ n.version = x.at.version /\ n.off = hdr[cp.h].off
    BY <2>2, HdrPlace DEF IInv, PlaceFields
  <2>4. hdr' = [hdr EXCEPT ![cp.h] = n]
    BY <1>1, <1>3, <2>2
  <2> HIDE DEF n
  <2>5. /\ DOMAIN hdr' = DOMAIN hdr /\ hdr'[cp.h] = n
        /\ \A i \in DOMAIN hdr : i # cp.h => hdr'[i] = hdr[i]
    BY <2>2, <2>4
  <2>6. /\ cp'.pc = "offset" /\ cp'.n = cp.n /\ cp'.on = cp.on /\ cp'.page = cp.page /\ cp'.version = cp.version
        /\ cp'.w = cp.w /\ cp'.buf = cp.buf /\ cp'.miss = cp.miss /\ cp'.h = cp.h
    BY <1>1, <1>3, CpShape DEF CpFields
  <2>7. Steady(e, e') /\ e'.queue = e.queue
    BY <1>1, EngineStays DEF Steady
  <2>8. DataOK(e') /\ Ages(e, e') /\ \A p \in Pages : Counts(e, e', p)
    BY <2>7 DEF Steady
  <2>9. cfg' \in Configs /\ DataOK(e)' /\ ReqsOK' /\ GetData' /\ TableData' /\ PassData'
    BY <1>1, <2>7, RescueFrames
  <2>10. CompactData'
    BY <1>1, <2>6, <2>8, PageStays DEF CompactData
  <2>11. WriteData' /\ WriteLock'
    BY <2>1, <2>8, ItemFrames
  <2>12. PlaceData(e, x.at) /\ x.key \in Keys
    BY <1>1 DEF WriteData, WriterData, Writers
  <2>13. \A j \in Keys : IsHdr(table[j]) => table[j].val \in DOMAIN hdr
    BY DEF IInv, TypeInv, TableOK
  <2>14. HdrData'
    BY <1>1, <2>1, <2>2, <2>3, <2>5, <2>12 DEF HdrData, PlaceData
  <2>15. RescueData'
    BY <1>1, <2>1, <2>2, <2>3, <2>5, <2>6 DEF RescueData, Rescuing, HasHdr
  <2>16. HdrsPoint'
    <3> SUFFICES ASSUME NEW j \in Keys, IsHdr(table[j]), ~Torn(j)' PROVE Points(e', hdr'[table[j].val], j)
      BY <2>1 DEF HdrsPoint
    <3>1. table[j].val # cp.h /\ ~Torn(j)
      BY <1>1, <2>1, <2>6 DEF Torn, HasHdr
    <3> QED BY <1>1, <2>5, <2>13, <3>1 DEF HdrsPoint
  <2>17. Counted'
    <3>1. ASSUME NEW p \in Pages, NEW k \in Keys, Uses(k, p)' PROVE Uses(k, p)
      <4>1. \A y \in Writers : Pending(y, k, p)' => Pending(y, k, p)
        BY <1>1, <2>1, <2>6 DEF Pending, HasHdr
      <4>2. CASE IsHdr(table[k]) /\ Leads(e', hdr'[table[k].val], p)
        <5>1. CASE table[k].val # cp.h
          BY <1>1, <2>5, <2>13, <4>2, <5>1 DEF Uses
        <5>2. CASE table[k].val = cp.h
          <6>1. k = x.key
            BY <2>1, <4>2, <5>2 DEF RescueData, HasHdr
          <6>2. Leads(e, x.at, p)
            BY <1>1, <2>3, <2>5, <4>2, <5>2 DEF Leads, SamePage
          <6>3. Pending("compact", k, p)
            BY <1>1, <4>2, <5>2, <6>1, <6>2 DEF Pending, HasHdr
          <6> QED BY <6>3 DEF Uses, Writers
        <5> QED BY <5>1, <5>2
      <4> QED BY <2>1, <3>1, <4>1, <4>2 DEF Uses
    <3>2. \A p \in Pages : Recount(p)
      BY <1>1, <2>6, <2>8, <3>1 DEF Recount, Fewer, Counts, Emptied
    <3> QED BY <2>8, <3>2, Recounted
  <2> QED BY <2>9, <2>10, <2>11, <2>14, <2>15, <2>16, <2>17
<1> QED BY <1>2, <1>3

\* Then the offset: the header leads to the item.
LEMMA RescueOffsetData == ASSUME ItemInv, RescueOffset PROVE ItemData'
<1> USE DEF ItemInv, ItemData
<1> DEFINE x == wr["compact"]
           n == [hdr[cp.h] EXCEPT !.off = x.at.off]
<1>1. /\ cp.pc = "offset" /\ e' = e /\ hdr' = [hdr EXCEPT ![cp.h].off = x.at.off]
      /\ cp' = Passed /\ lock' = Unlocked /\ wr' = [wr EXCEPT !["compact"] = NoWrite] /\ Compacting
  BY DEF RescueOffset
<1>2. Rescuing /\ table' = table
  BY <1>1 DEF Rescuing, Compacting
<1>3. cp.h \in DOMAIN hdr /\ x.pc = "ok" /\ hdr[cp.h].page = x.at.page /\ hdr[cp.h].version = x.at.version
      /\ \A j \in Keys : HasHdr(j, cp.h) => j = x.key
  BY <1>1, <1>2 DEF RescueData
<1>4. n.page = x.at.page /\ n.version = x.at.version /\ n.off = x.at.off
  BY <1>3, HdrPlace DEF IInv, PlaceFields
<1>5. hdr' = [hdr EXCEPT ![cp.h] = n]
  BY <1>1, <1>3
<1> HIDE DEF n
<1>6. /\ DOMAIN hdr' = DOMAIN hdr /\ hdr'[cp.h] = n
      /\ \A i \in DOMAIN hdr : i # cp.h => hdr'[i] = hdr[i]
  BY <1>3, <1>5
<1>7. DataOK(e') /\ Ages(e, e') /\ \A p \in Pages : Counts(e, e', p)
  BY <1>1, EngineStays
<1>8. PlaceData(e, x.at) /\ Points(e, x.at, x.key)
  BY <1>3 DEF WriteData, WriterData, Writers
<1>9. \A j \in Keys : IsHdr(table[j]) => table[j].val \in DOMAIN hdr
  BY DEF IInv, TypeInv, TableOK
<1>10. HdrData'
  BY <1>1, <1>2, <1>3, <1>4, <1>6, <1>8 DEF HdrData, PlaceData
<1>11. HdrsPoint'
  <2> SUFFICES ASSUME NEW j \in Keys, IsHdr(table[j]) PROVE Points(e', hdr'[table[j].val], j)
    BY Zenon, <1>2 DEF HdrsPoint
  <2>1. CASE table[j].val = cp.h
    <3>1. j = x.key
      BY <1>3, <2>1 DEF HasHdr
    <3> QED BY <1>1, <1>4, <1>6, <1>8, <2>1, <3>1 DEF Points, SamePage
  <2>2. CASE table[j].val # cp.h
    <3>1. ~Torn(j)
      BY <2>2 DEF Torn, HasHdr
    <3> QED BY <1>1, <1>6, <1>9, <2>2, <3>1 DEF HdrsPoint
  <2> QED BY <2>1, <2>2
<1>12. cp'.on = cp.on /\ cp'.page = cp.page /\ cp'.version = cp.version
  BY <1>1, <1>7, PassedBy
<1>13. wr'["compact"].pc = "idle" /\ wr'["write"] = wr["write"]
  BY <1>1, CompactorWrites DEF NoWrite
<1>14. Counted'
  <2>1. ASSUME NEW p \in Pages, NEW k \in Keys, Uses(k, p)' PROVE Uses(k, p)
    <3>1. \A y \in Writers : Pending(y, k, p)' => Pending(y, k, p)
      BY Zenon, <1>1, <1>13 DEF Pending, Writers
    <3>2. CASE IsHdr(table[k]) /\ Leads(e', hdr'[table[k].val], p)
      <4>1. hdr'[table[k].val].page = hdr[table[k].val].page /\ hdr'[table[k].val].version = hdr[table[k].val].version
        BY <1>3, <1>4, <1>6, <1>9, <3>2
      <4> QED BY <1>1, <3>2, <4>1 DEF Uses, Leads, SamePage
    <3> QED BY <1>2, <2>1, <3>1, <3>2 DEF Uses
  <2>2. \A p \in Pages : Recount(p)
    BY <1>1, <1>7, <1>12, <2>1 DEF Recount, Fewer, Counts, Emptied
  <2> QED BY <1>7, <2>2, Recounted
<1> QED BY <1>1, <1>2, <1>10, <1>11, <1>14, Released

LEMMA CompactorStep == ASSUME ItemInv, CompactThread PROVE ItemData'
<1>1. "compact" \in Writers
  BY DEF Writers
<1> QED BY <1>1, CompactStartData, CompactIdleData, CompactSubmitData, CompactEndData, ReadbackBeginData, ReadbackEndData,
           ReadbackData, RescueFailsData, RescuePageData, RescueOffsetData, RequestStep DEF CompactThread

-----------------------------------------------------------------------------
(* Every step *)

\* Nothing is written or found at first.
LEMMA InitItems == Init => ItemData
<1> SUFFICES ASSUME Init PROVE ItemData
  OBVIOUS
<1> USE DEF Init
<1>1. /\ e.pg = [p \in Pages |-> FreePage] /\ e.disk = [p \in Pages |-> [w \in 1 .. MaxWbufs |-> <<>>]]
      /\ e.version = 1 /\ e.queue = [t \in IoThreads |-> <<>>]
  OBVIOUS
<1>2. cfg \in Configs /\ cfg.wbufs \in 1 .. MaxWbufs
  BY MemExtAssumption
<1>3. DataOK(e)
  <2>1. 0 \in 0 .. cfg.wbufs
    BY <1>2, MemExtAssumption
  <2>2. \A p \in Pages : PageData(e, e.pg[p])
    BY <1>1, <2>1 DEF PageData, FreePage
  <2>3. <<>> \in Seq(Items)
    BY EmptySeq
  <2>4. DOMAIN e.disk = Pages /\ \A p \in Pages : e.disk[p] \in [1 .. MaxWbufs -> Seq(Items)]
    BY <1>1, <2>3
  <2> HIDE DEF Init
  <2>5. e.version \in Nat \ {0}
    BY <1>1
  <2> QED BY <1>2, <2>2, <2>4, <2>5 DEF DataOK
<1>4. ReqsOK
  <2>1. \A t \in IoThreads, i \in Nat : ~Out(t, i)
    BY <1>1 DEF Out, NoIo
  <2> QED BY <2>1 DEF ReqsOK, Once, Held, NoIo
<1>5. \A k \in Keys : table[k] = NULL /\ ~IsHdr(table[k])
  BY DEF IsHdr
<1>6. \A x \in Writers : wr[x].pc = "idle"
  BY DEF NoWrite
<1>7. GetData /\ TableData
  BY <1>5 DEF GetData, NoGet, TableData
<1>8. HdrData /\ HdrsPoint
  BY <1>5 DEF HdrData, HdrsPoint
<1>9. WriteData
  BY <1>6 DEF WriteData, WriterData
<1>10. WriteLock
  BY <1>6 DEF WriteLock, Writers
<1>11. RescueData
  BY <1>6 DEF RescueData, Rescuing, NotCompacting, Writers
<1>12. CompactData
  <2>1. cp.n = 1 /\ cp.w = 1 /\ cp.buf = <<>> /\ cp.pc = "top" /\ cp.on = FALSE
    BY DEF NotCompacting
  <2>2. cp.buf \in Seq(Items)
    BY <2>1, EmptySeq
  <2> QED BY <2>1, <2>2 DEF CompactData
<1>13. PassData
  BY <1>1 DEF PassData, Rested, NoPass
<1>14. Counted
  <2>1. \A p \in Pages : Users(p) = {}
    BY <1>5, <1>6 DEF Users, Uses, Pending
  <2>2. \A p \in Pages : e.pg[p].objs = 0
    BY <1>1 DEF FreePage
  <2> HIDE DEF Init
  <2>3. \A p \in Pages : CountedAt(p)
    BY <2>1, <2>2, FS_EmptySet DEF CountedAt
  <2> QED BY <2>3 DEF Counted
<1> QED BY <1>2, <1>3, <1>4, <1>7, <1>8, <1>9, <1>10, <1>11, <1>12, <1>13, <1>14 DEF ItemData

\* Every step keeps the items where they are looked for.
LEMMA NextItems == ItemInv /\ [Next]_vars => ItemInv'
<1> SUFFICES ASSUME ItemInv, [Next]_vars PROVE ItemData'
  BY NextInv DEF ItemInv
<1>1. ASSUME NEW k \in Keys, Set(k) \/ Unlink(k) \/ \E solo \in BOOLEAN : StorageWrite(k, solo) PROVE ItemData'
  BY <1>1, SetStep, UnlinkStep, StorageWriteStep
<1>2. ASSUME NEW g \in Getters, Getter(g) \/ \E k \in Keys : GetBegin(g, k) PROVE ItemData'
  BY <1>2, GetBeginStep, GetPageStep, GetSubmitStep, GetEndStep DEF Getter
<1>3. ASSUME WriteThread PROVE ItemData'
  BY <1>3, RequestStep, StorageWrittenStep DEF WriteThread, Writers
<1>4. ASSUME CompactThread PROVE ItemData'
  BY <1>4, CompactorStep
<1>5. ASSUME MaintThread PROVE ItemData'
  BY <1>5, MaintWakeData, MaintPageData, MaintEndData DEF MaintThread
<1>6. ASSUME NEW t \in IoThreads, IoThread(t) PROVE ItemData'
  BY <1>6, IoStep
<1>7. ASSUME UNCHANGED vars PROVE ItemData'
  <2>1. e' = e /\ UNCHANGED <<cfg, table, hdr, wr, cp, lock, sets, io, get, pdata, mt>>
    BY <1>7 DEF vars
  <2>2. DataOK(e') /\ Ages(e, e') /\ \A p \in Pages : Counts(e, e', p) /\ Buffers(e, e', p)
    BY <2>1, EngineStays
  <2>3. ReqsOK'
    BY <2>1, <2>2, NoneQueued
  <2>4. GetData' /\ PassData'
    BY <2>1, <2>2, ItemFrames
  <2> QED BY <2>1, <2>2, <2>3, <2>4, Quiet
<1> QED BY <1>1, <1>2, <1>3, <1>4, <1>5, <1>6, <1>7 DEF Next

\* A header that is not being changed, and whose page has its version, leads to
\* an item of its key.
LEMMA ItemsFound == ItemInv => HeaderPoints
<1> SUFFICES ASSUME ItemInv, NEW k \in Live PROVE Stored(hdr[table[k].val]) # NULL /\ Stored(hdr[table[k].val]).key = k
  BY DEF HeaderPoints
<1> USE DEF ItemInv, ItemData
<1>1. PICK at : at = hdr[table[k].val]
  OBVIOUS
<1>2. k \in Keys /\ IsHdr(table[k]) /\ lock[k] # "compact" /\ SamePage(e, at)
  BY <1>1 DEF Live
<1>3. ~Torn(k)
  BY <1>2 DEF Torn, RescueData, Rescuing
<1>4. PlaceData(e, at) /\ Points(e, at, k)
  BY <1>1, <1>2, <1>3 DEF HdrsPoint, HdrData, IInv, TypeInv, TableOK
<1>5. PICK p, w, i : p = at.page /\ w = at.off[1] /\ i = at.off[2]
  OBVIOUS
<1>6. p \in Pages /\ w \in 1 .. MaxWbufs /\ i \in Nat \ {0}
  BY <1>4, <1>5 DEF PlaceData, Offs
<1>7. w <= e.pg[p].allocated /\ i <= Len(Buffer(e, p, w)) /\ Buffer(e, p, w)[i].key = k
  BY <1>2, <1>4, <1>5 DEF Points, In
<1>8. PICK buf : buf = Buffer(e, p, w)
  OBVIOUS
<1>9. buf \in Seq(Items) /\ (w = e.pg[p].written + 1 => e.pg[p].wbuf # NULL)
  <2>1. PageData(e, e.pg[p]) /\ e.disk[p] \in [1 .. MaxWbufs -> Seq(Items)]
    BY <1>6 DEF DataOK
  <2>2. CASE w = e.pg[p].written + 1
    <3>1. e.pg[p].wbuf \in Seq(Items)
      BY <1>7, <2>1, <2>2 DEF PageData
    <3> QED BY <1>8, <2>2, <3>1, MemExtAssumption DEF Buffer
  <2>3. CASE w # e.pg[p].written + 1
    BY <1>6, <1>8, <2>1, <2>3 DEF Buffer
  <2> QED BY <2>2, <2>3
<1>10. Stored(at) = buf[i]
  BY <1>5, <1>7, <1>8, <1>9 DEF Stored, Buffer
<1>11. buf[i] \in Items
  BY <1>6, <1>7, <1>8, <1>9
<1> QED BY <1>1, <1>7, <1>8, <1>10, <1>11, MemExtAssumption

\* A page that is not being compacted counts the headers that lead to it.
LEMMA HeadersCounted == ItemInv => CountCovers
<1> SUFFICES ASSUME ItemInv, NEW p \in Pages, ~(cp.on /\ cp.page = p /\ cp.version = e.pg[p].version)
             PROVE  e.pg[p].objs >= Cardinality({k \in Live : hdr[table[k].val].page = p})
  BY DEF CountCovers
<1> DEFINE L == {k \in Live : hdr[table[k].val].page = p}
<1>1. IsFiniteSet(Users(p)) /\ Cardinality(Users(p)) <= e.pg[p].objs
  BY DEF ItemInv, ItemData, Counted, CountedAt, Emptied
<1>2. L \subseteq Users(p)
  BY DEF Live, Users, Uses, Leads
<1>3. e.pg[p].objs \in Nat
  BY DEF ItemInv, ItemData, DataOK, PageData
<1>4. IsFiniteSet(L) /\ Cardinality(L) <= Cardinality(Users(p))
  BY <1>1, <1>2, FS_Subset
<1>5. Cardinality(L) \in Nat /\ Cardinality(Users(p)) \in Nat
  BY <1>1, <1>4, FS_CardinalityType
<1> QED BY <1>1, <1>3, <1>4, <1>5

\* A header that passes the test of the page's version leads to an item of its
\* own key: extstore_write_request puts items where nothing has been found yet,
\* a buffer keeps its items when it is flushed, a freed page comes back with a
\* new version, and the compactor, which changes the header of an item in two
\* assignments, holds the item's lock.
THEOREM HeadersPoint == Spec => []HeaderPoints
<1>1. Init => ItemInv
  BY InitInv, InitItems DEF ItemInv
<1> QED BY <1>1, NextItems, ItemsFound, PTL DEF Spec

\* A page that is not being compacted counts at least the headers that lead to
\* it: extstore_write_request counts an item before its header is there, and
\* extstore_delete, which stops at zero, is called once for a header.
THEOREM CountsCover == Spec => []CountCovers
<1>1. Init => ItemInv
  BY InitInv, InitItems DEF ItemInv
<1> QED BY <1>1, NextItems, HeadersCounted, PTL DEF Spec
=============================================================================

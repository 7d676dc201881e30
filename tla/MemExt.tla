------------------------------- MODULE MemExt -------------------------------
(***************************************************************************)
(* memcached's storage on flash: extstore.c (pages, write buffers, I/O and *)
(* maintenance threads), storage.c (the thread that moves items to flash   *)
(* and the compactor), and the reads of memcached.c.  A value on flash is  *)
(* found through a header item in the hash table: page, version and offset.*)
(*                                                                         *)
(* The engine is one record e; what a thread does under the mutex of a     *)
(* page or of the engine is one action, and the functions of extstore.c    *)
(* are operators from engine to engine.  An offset is the number of the    *)
(* write buffer in the page and of the item in it.  Page 0 is left out:    *)
(* the loop that fills the free list never reaches it.                     *)
(*                                                                         *)
(* All items are of one size, so the CRC of an item that is read where     *)
(* another one should be is right; where there was none it is wrong.       *)
(*                                                                         *)
(* A member of Configs has the fields                                      *)
(*   wbufs, items   write buffers in a page and items in a buffer          *)
(*   drop, recache  settings.ext_drop_unread, ext_recache_rate             *)
(*   shared         items may be referred to while they are written        *)
(*   sets, gets, hdrs, compacts  bounds on commands, items written to      *)
(*                  flash and compactions                                  *)
(***************************************************************************)
EXTENDS Integers, Sequences, FiniteSets, SequencesExt

CONSTANTS
  Pages,       \* page ids, 1 .. page_count - 1
  FreeBucket,  \* the free bucket of each page's device, 0 for the default
  WbufCount,   \* settings.ext_wbuf_count
  IoThreads,   \* 0 .. io_threadcount - 1
  Keys,
  Getters,     \* connections that get
  Tries,       \* attempts of the compactor to write an item, 10 in the code
  MaxWbufs,    \* bound: of cfg.wbufs
  Configs,     \* settings and bounds of a behaviour, see below
  NULL

\* PAGE_BUCKET_DEFAULT and PAGE_BUCKET_COMPACT, and who writes to them.
Buckets == {0, 1}
Writers == {"write", "compact"}
BucketOf(x) == IF x = "write" THEN 0 ELSE 1

\* An item as it is written: with its reference count, see StorageWrite.
Items == [key : Keys, val : Nat, solo : BOOLEAN]

ASSUME MemExtAssumption ==
  /\ Pages \subseteq Nat \ {0} /\ FreeBucket \in [Pages -> Buckets]
  /\ WbufCount \in Nat \ {0} /\ MaxWbufs \in Nat
  /\ \A x \in Configs : x.wbufs \in 1 .. MaxWbufs /\ x.items \in Nat \ {0}
  /\ IoThreads \subseteq Nat /\ IoThreads # {} /\ Tries \in Nat \ {0}
  /\ IsFiniteSet(Pages) /\ IsFiniteSet(IoThreads)
  /\ NULL \notin Keys \cup Getters \cup Writers /\ Getters \cap Writers = {}
  /\ NULL \notin Items /\ NULL \notin Seq(Items)

VARIABLES
  cfg,
  e,      \* the engine
  pdata,  \* stats.page_data: the version of each page that may be compacted
  mt,     \* locals of the maintenance thread
  io,     \* what each I/O thread is doing
  table,  \* the hash table: NULL, a value in memory, or a header
  hdr,    \* the header items so far
  lock,   \* item locks
  wr,     \* extstore_write_request of the two writers
  cp,     \* the compactor
  get,    \* the gets
  sets, gets, compacts

vars == <<cfg, e, pdata, mt, io, table, hdr, lock, wr, cp, get, sets, gets, compacts>>

InMem(v) == [in |-> "mem", val |-> v]
InHdr(h) == [in |-> "hdr", val |-> h]
IsHdr(x) == x # NULL /\ x.in = "hdr"
Place(p, v, off) == [page |-> p, version |-> v, off |-> off]

FreePage == [version |-> 0, ref |-> 0, allocated |-> 0, written |-> 0, wbuf |-> NULL, full |-> FALSE,
             objs |-> 0, bucket |-> 0, active |-> FALSE, closed |-> FALSE, free |-> TRUE]
NoIo == [pc |-> "wait", req |-> NULL]
NoWrite == [pc |-> "idle", page |-> NULL, at |-> NULL, key |-> NULL, item |-> NULL]
NotCompacting == [pc |-> "top", on |-> FALSE, page |-> NULL, version |-> 0, w |-> 1, done |-> FALSE,
                  submitted |-> FALSE, miss |-> FALSE, buf |-> <<>>, n |-> 1, h |-> NULL, tries |-> 0]
NoGet == [pc |-> "idle", key |-> NULL, h |-> NULL, at |-> NULL, miss |-> FALSE, item |-> NULL]

NoPass == [todo |-> <<>>, evict |-> FALSE, low |-> NULL, pd |-> [p \in Pages |-> 0]]

Ascending(s) == CHOOSE q \in [1 .. Cardinality(s) -> s] : \A i, j \in DOMAIN q : i < j => q[i] < q[j]

Init ==
  /\ cfg \in Configs
  /\ e = [pg |-> [p \in Pages |-> FreePage],
          disk |-> [p \in Pages |-> [w \in 1 .. MaxWbufs |-> <<>>]],
          version |-> 1, bucket |-> [b \in Buckets |-> <<>>],
          free |-> [b \in Buckets |-> Ascending({p \in Pages : FreeBucket[p] = b})],
          wbufs |-> WbufCount, queue |-> [t \in IoThreads |-> <<>>],
          maint |-> "wait", failed |-> FALSE]
  /\ pdata = [p \in Pages |-> 0]
  /\ mt = NoPass
  /\ io = [t \in IoThreads |-> NoIo]
  /\ table = [k \in Keys |-> NULL] /\ hdr = <<>> /\ lock = [k \in Keys |-> NULL]
  /\ wr = [x \in Writers |-> NoWrite] /\ cp = NotCompacting /\ get = [g \in Getters |-> NoGet]
  /\ sets = 0 /\ gets = 0 /\ compacts = 0

-----------------------------------------------------------------------------
(* extstore.c: from engine to engine *)

\* Mutation: nobody wakes the maintenance thread.
extstore_run_maint_lost(s) == s
\* A signal that finds the thread at work is lost.
extstore_run_maint(s) == IF s.maint = "wait" THEN [s EXCEPT !.maint = "wake"] ELSE s

\* Mutation: a page keeps the version of its first use.
next_version_kept(s) == s.version
next_version(s) == s.version + 1

allocate_page(s, b) ==
  LET f == IF b # 0 /\ s.free[b] # <<>> THEN b ELSE 0
      p == Head(s.free[f])
      head == s.bucket[b]
      t == IF head # <<>> /\ s.pg[Head(head)].allocated # cfg.wbufs THEN [s EXCEPT !.failed = TRUE] ELSE s
  IN IF s.free[f] = <<>> THEN extstore_run_maint(t)
     ELSE [t EXCEPT !.free[f] = Tail(@), !.bucket[b] = <<p>> \o @, !.version = next_version(s),
                    !.pg[p].version = s.version, !.pg[p].active = TRUE, !.pg[p].free = FALSE,
                    !.pg[p].closed = FALSE, !.pg[p].bucket = b]

allocate_wbuf(s, p) ==
  IF s.wbufs = 0 THEN s
  ELSE [s EXCEPT !.wbufs = @ - 1, !.pg[p].allocated = @ + 1, !.pg[p].wbuf = <<>>, !.pg[p].full = FALSE]

\* The shortest queue, and the first of several.
get_io_thread(s) ==
  CHOOSE t \in IoThreads : \A u \in IoThreads :
    Len(s.queue[t]) < Len(s.queue[u]) \/ (Len(s.queue[t]) = Len(s.queue[u]) /\ t <= u)

extstore_submit(s, req) == [s EXCEPT !.queue[get_io_thread(s)] = Append(@, req)]

submit_wbuf(s, p) ==
  extstore_submit([s EXCEPT !.pg[p].full = TRUE], [mode |-> "W", at |-> Place(p, 0, <<>>), who |-> NULL])

wbuf_cb(s, p) ==
  LET n == s.pg[p].written + 1
  IN [s EXCEPT !.pg[p].written = n, !.pg[p].wbuf = NULL, !.wbufs = @ + 1,
               !.pg[p].active = IF n = cfg.wbufs THEN FALSE ELSE @]

\* Mutation: the version of the page is not compared.
SamePage_any(s, at) == ~s.pg[at.page].closed
SamePage(s, at) == ~s.pg[at.page].closed /\ s.pg[at.page].version = at.version

extstore_delete(s, at) ==
  LET n == IF s.pg[at.page].objs > 0 THEN s.pg[at.page].objs - 1 ELSE 0
      t == [s EXCEPT !.pg[at.page].objs = n]
  IN IF ~SamePage(s, at) THEN s ELSE IF n = 0 THEN extstore_run_maint(t) ELSE t

extstore_close_page(s, at) ==
  IF SamePage(s, at) THEN extstore_run_maint([s EXCEPT !.pg[at.page].closed = TRUE]) ELSE s

free_page(s, p) ==
  LET b == s.pg[p].bucket
  IN [s EXCEPT !.bucket[b] = RemoveFirst(@, p), !.free[FreeBucket[p]] = <<p>> \o @,
               !.pg[p] = [FreePage EXCEPT !.ref = s.pg[p].ref, !.wbuf = s.pg[p].wbuf, !.full = s.pg[p].full]]

\* STORAGE_delete, for an item that may be a header.
STORAGE_delete(s, x) == IF IsHdr(x) THEN extstore_delete(s, hdr[x.val]) ELSE s

-----------------------------------------------------------------------------
(* Commands of the workers that change the hash table *)

Clients == UNCHANGED <<cfg, pdata, mt, io, wr, cp>>

\* do_store_item; every set stores a value of its own.
Set(k) ==
  /\ sets < cfg.sets /\ lock[k] = NULL
  /\ sets' = sets + 1
  /\ e' = STORAGE_delete(e, table[k])
  /\ table' = [table EXCEPT ![k] = InMem(sets')]
  /\ Clients /\ UNCHANGED <<hdr, lock, get, gets, compacts>>

\* A delete, an eviction, an expiry.
Unlink(k) ==
  /\ cfg.unlink /\ lock[k] = NULL /\ IsHdr(table[k])
  /\ e' = STORAGE_delete(e, table[k])
  /\ table' = [table EXCEPT ![k] = NULL]
  /\ Clients /\ UNCHANGED <<hdr, lock, get, sets, gets, compacts>>

-----------------------------------------------------------------------------
(* _get_extstore: the header is read after the item lock has been given up. *)

GetIs(g, x) == get' = [get EXCEPT ![g] = x]

GetBegin(g, k) ==
  /\ get[g].pc = "idle" /\ gets < cfg.gets /\ lock[k] = NULL /\ IsHdr(table[k])
  /\ gets' = gets + 1
  /\ GetIs(g, [NoGet EXCEPT !.pc = "page", !.key = k, !.h = table[k].val])
  /\ Clients /\ UNCHANGED <<e, table, hdr, lock, sets, compacts>>

\* A page that goes with another page's version would be a miss.
GetPage(g) ==
  LET x == get[g]
  IN /\ x.pc = "page"
     /\ GetIs(g, [x EXCEPT !.pc = "offset", !.at = Place(hdr[x.h].page, hdr[x.h].version, NULL)])
     /\ Clients /\ UNCHANGED <<e, table, hdr, lock, sets, gets, compacts>>

GetSubmit(g) ==
  LET x == get[g]
      at == [x.at EXCEPT !.off = hdr[x.h].off]
  IN /\ x.pc = "offset"
     /\ e' = extstore_submit(e, [mode |-> "R", at |-> at, who |-> g])
     /\ GetIs(g, [x EXCEPT !.pc = "wait", !.at = at])
     /\ Clients /\ UNCHANGED <<table, hdr, lock, sets, gets, compacts>>

Linked(x) == table[x.key] = InHdr(x.h)

\* recache_or_free: after a miss the header goes; a value that was read may
\* take the header's place, if nobody has the lock.
GetEnd(g, recache) ==
  LET x == get[g]
      again == recache /\ cfg.recache /\ ~x.miss /\ Linked(x) /\ lock[x.item.key] = NULL
      gone == [table EXCEPT ![x.key] = IF Linked(x) THEN NULL ELSE @]
  IN /\ x.pc = "done"
     /\ x.miss => lock[x.key] = NULL
     /\ e' = IF again THEN STORAGE_delete(e, table[x.key]) ELSE e
     /\ table' = IF x.miss THEN gone
                 ELSE IF again THEN [gone EXCEPT ![x.item.key] = InMem(x.item.val)] ELSE table
     /\ GetIs(g, NoGet)
     /\ Clients /\ UNCHANGED <<hdr, lock, sets, gets, compacts>>

-----------------------------------------------------------------------------
(* extstore_write_request and extstore_write, for both writers *)

\* The item is written, or the request has failed; the caller goes on.
Wrote(x, at) == [wr EXCEPT ![x] = [@ EXCEPT !.pc = "ok", !.at = at]]
Refused(x) == [wr EXCEPT ![x] = [@ EXCEPT !.pc = "fail"]]

Writing == UNCHANGED <<cfg, pdata, mt, io, table, hdr, lock, cp, get, sets, gets, compacts>>

\* With the engine's mutex: the bucket's current page, or a new one.
RequestPage(x) ==
  LET b == BucketOf(x)
      s == IF e.bucket[b] = <<>> THEN allocate_page(e, b) ELSE e
  IN /\ wr[x].pc = "request"
     /\ e' = s
     /\ wr' = IF s.bucket[b] = <<>> THEN Refused(x)
              ELSE [wr EXCEPT ![x].pc = "page", ![x].page = Head(s.bucket[b])]
     /\ Writing

PageFull(q) == ~q.active \/ ((q.wbuf = NULL \/ q.full) /\ q.allocated >= cfg.wbufs)

RequestFull(x) ==
  /\ wr[x].pc = "page" /\ PageFull(e.pg[wr[x].page])
  /\ wr' = [wr EXCEPT ![x].pc = "full"]
  /\ UNCHANGED e /\ Writing

RequestNext(x) ==
  /\ wr[x].pc = "full"
  /\ e' = allocate_page(e, BucketOf(x))
  /\ wr' = Refused(x)
  /\ Writing

HasRoom(q) == q.wbuf # NULL /\ ~q.full /\ Len(q.wbuf) < cfg.items

\* With the page's mutex: a full buffer is submitted, a new one taken, and
\* the item copied into it.
RequestWrite(x) ==
  LET p == wr[x].page
      q == e.pg[p]
      s == IF q.wbuf # NULL /\ ~q.full /\ Len(q.wbuf) >= cfg.items THEN submit_wbuf(e, p)
           ELSE IF q.wbuf = NULL /\ q.allocated < cfg.wbufs THEN allocate_wbuf(e, p) ELSE e
      n == s.pg[p].allocated
  IN /\ wr[x].pc = "page" /\ ~PageFull(q)
     /\ IF HasRoom(s.pg[p])
        THEN /\ e' = [s EXCEPT !.pg[p].wbuf = Append(@, wr[x].item), !.pg[p].objs = @ + 1]
             /\ wr' = Wrote(x, Place(p, q.version, <<n, Len(s.pg[p].wbuf) + 1>>))
        ELSE e' = s /\ wr' = Refused(x)
     /\ Writing

Request(x) == RequestPage(x) \/ RequestFull(x) \/ RequestNext(x) \/ RequestWrite(x)
Requested(x, k, item) == [wr EXCEPT ![x] = [NoWrite EXCEPT !.pc = "request", !.key = k, !.item = item]]

-----------------------------------------------------------------------------
(* storage_write: an item from the tail of COLD, locked all the time.  solo *)
(* says that its reference count, which is written with it, was 2.         *)

StorageWrite(k, solo) ==
  /\ wr["write"].pc = "idle" /\ Len(hdr) < cfg.hdrs /\ (solo \/ cfg.shared)
  /\ lock[k] = NULL /\ table[k] # NULL /\ ~IsHdr(table[k])
  /\ lock' = [lock EXCEPT ![k] = "write"]
  /\ wr' = Requested("write", k, [key |-> k, val |-> table[k].val, solo |-> solo])
  /\ UNCHANGED <<cfg, e, pdata, mt, io, table, hdr, cp, get, sets, gets, compacts>>

StorageWritten ==
  LET x == wr["write"]
  IN /\ x.pc \in {"ok", "fail"}
     /\ IF x.pc = "ok"
        THEN /\ hdr' = Append(hdr, [page |-> x.at.page, version |-> x.at.version, off |-> x.at.off,
                                    val |-> x.item.val])
             /\ table' = [table EXCEPT ![x.key] = InHdr(Len(hdr'))]
        ELSE UNCHANGED <<hdr, table>>
     /\ lock' = [lock EXCEPT ![x.key] = NULL]
     /\ wr' = [wr EXCEPT !["write"] = NoWrite]
     /\ UNCHANGED <<cfg, e, pdata, mt, io, cp, get, sets, gets, compacts>>

-----------------------------------------------------------------------------
(* extstore_io_thread *)

IoIs(t, x) == io' = [io EXCEPT ![t] = x]
Io == UNCHANGED <<cfg, pdata, mt, table, hdr, lock, wr, sets, gets, compacts>>
Popped(t) == [e EXCEPT !.queue[t] = Tail(@)]

\* _get_extstore_cb and _storage_compact_cb; data is NULL when nothing was read.
Callback(req, data) ==
  IF req.who = "compact"
  THEN /\ cp' = [cp EXCEPT !.done = TRUE, !.miss = @ \/ data = NULL, !.buf = IF data = NULL THEN @ ELSE data]
       /\ UNCHANGED get
  ELSE LET n == req.at.off[2]
           item == IF data = NULL \/ (data # NULL /\ n > Len(data)) THEN NULL ELSE data[n]
       IN /\ get' = [get EXCEPT ![req.who] = [@ EXCEPT !.pc = "done", !.miss = (item = NULL), !.item = item]]
          /\ UNCHANGED cp

Readable(at) == ~e.pg[at.page].free /\ SamePage(e, at)
Unwritten(at) == e.pg[at.page].active /\ at.off[1] > e.pg[at.page].written

\* The page is not what it was.
IoMiss(t) ==
  /\ io[t].pc = "wait" /\ e.queue[t] # <<>> /\ Head(e.queue[t]).mode = "R" /\ ~Readable(Head(e.queue[t]).at)
  /\ e' = Popped(t)
  /\ Callback(Head(e.queue[t]), NULL)
  /\ Io /\ UNCHANGED io

\* _read_from_wbuf, with its assertions.
IoBuffer(t) ==
  LET req == Head(e.queue[t])
      q == e.pg[req.at.page]
      there == q.wbuf # NULL /\ req.at.off[1] = q.written + 1
  IN /\ io[t].pc = "wait" /\ e.queue[t] # <<>> /\ req.mode = "R"
     /\ Readable(req.at) /\ Unwritten(req.at)
     /\ e' = [Popped(t) EXCEPT !.failed = @ \/ ~there]
     /\ Callback(req, IF there THEN q.wbuf ELSE NULL)
     /\ Io /\ UNCHANGED io

\* A reference keeps the page while it is read.
IoHold(t) ==
  LET req == Head(e.queue[t])
  IN /\ io[t].pc = "wait" /\ e.queue[t] # <<>> /\ req.mode = "R"
     /\ Readable(req.at) /\ ~Unwritten(req.at)
     /\ e' = [Popped(t) EXCEPT !.pg[req.at.page].ref = @ + 1]
     /\ IoIs(t, [pc |-> "pread", req |-> req])
     /\ Io /\ UNCHANGED <<get, cp>>

IoRead(t) ==
  LET req == io[t].req
  IN /\ io[t].pc = "pread"
     /\ Callback(req, e.disk[req.at.page][req.at.off[1]])
     /\ IoIs(t, [io[t] EXCEPT !.pc = "unref"])
     /\ Io /\ UNCHANGED e

IoUnref(t) ==
  /\ io[t].pc = "unref"
  /\ e' = [e EXCEPT !.pg[io[t].req.at.page].ref = @ - 1]
  /\ IoIs(t, NoIo)
  /\ Io /\ UNCHANGED <<get, cp>>

\* pwrite and _wbuf_cb: until then reads are served from the buffer.
IoWrite(t) ==
  LET p == Head(e.queue[t]).at.page
  IN /\ io[t].pc = "wait" /\ e.queue[t] # <<>> /\ Head(e.queue[t]).mode = "W"
     /\ e' = wbuf_cb([Popped(t) EXCEPT !.disk[p][e.pg[p].written + 1] = e.pg[p].wbuf], p)
     /\ Io /\ UNCHANGED <<io, get, cp>>

IoThread(t) == IoMiss(t) \/ IoBuffer(t) \/ IoHold(t) \/ IoRead(t) \/ IoUnref(t) \/ IoWrite(t)

-----------------------------------------------------------------------------
(* extstore_maint_thread *)

Maintaining == UNCHANGED <<cfg, io, table, hdr, lock, wr, cp, get, sets, gets, compacts>>

MaintWake ==
  /\ e.maint = "wake"
  /\ e' = [e EXCEPT !.maint = "scan"]
  /\ mt' = [NoPass EXCEPT !.todo = Ascending(Pages), !.evict = (e.free[0] = <<>>)]
  /\ Maintaining /\ UNCHANGED pdata

\* Mutation of Unused: references are not looked at.
Unused_referenced(q) == q.objs = 0 \/ q.closed
Unused(q) == (q.objs = 0 \/ q.closed) /\ q.ref = 0

MaintPage ==
  LET p == Head(mt.todo)
      q == e.pg[p]
      rests == ~q.active /\ ~q.free
      serves == rests /\ q.objs > 0 /\ ~q.closed
      lower == mt.low = NULL \/ (mt.low # NULL /\ q.version < e.pg[mt.low].version)
      frees == rests /\ Unused(q)
  IN /\ e.maint = "scan" /\ mt.todo # <<>>
     /\ mt' = [mt EXCEPT !.todo = Tail(@), !.evict = @ /\ ~frees,
                         !.pd[p] = IF serves THEN q.version ELSE 0,
                         !.low = IF serves /\ FreeBucket[p] = 0 /\ lower THEN p ELSE @]
     /\ e' = IF frees THEN free_page(e, p) ELSE e
     /\ Maintaining /\ UNCHANGED pdata

\* The oldest page is evicted when none was free or became free.
MaintEnd ==
  LET p == mt.low
      evicts == mt.evict /\ p # NULL /\ ~e.pg[p].closed
      s == IF evicts THEN [e EXCEPT !.pg[p].closed = TRUE] ELSE e
  IN /\ e.maint = "scan" /\ mt.todo = <<>>
     /\ e' = [(IF evicts /\ e.pg[p].ref = 0 THEN free_page(s, p) ELSE s) EXCEPT !.maint = "wait"]
     /\ pdata' = mt.pd
     /\ mt' = NoPass
     /\ Maintaining

MaintThread == MaintWake \/ MaintPage \/ MaintEnd

-----------------------------------------------------------------------------
(* storage_compact_thread *)

Compacting == UNCHANGED <<cfg, pdata, mt, io, table, get, sets, gets>>
Reading == Place(cp.page, cp.version, <<cp.w, 0>>)
Ask(x) == extstore_submit(e, [mode |-> "R", at |-> Place(x.page, x.version, <<x.w, 0>>), who |-> "compact"])

\* Every turn of the loop ends at its head, where maintenance is asked for and
\* the thread sleeps (pc "top").

\* storage_compact_check, on what the maintenance thread has left: which page
\* is fragmented enough depends on sizes.  The read of its first buffer follows.
CompactStart(p) ==
  LET x == [NotCompacting EXCEPT !.on = TRUE, !.page = p, !.version = pdata[p], !.submitted = TRUE]
  IN /\ cp.pc = "top" /\ ~cp.on /\ pdata[p] # 0 /\ compacts < cfg.compacts
     /\ compacts' = compacts + 1
     /\ cp' = x /\ e' = extstore_run_maint(Ask(x))
     /\ Compacting /\ UNCHANGED <<hdr, lock, wr>>

CompactIdle ==
  /\ cp.pc = "top" /\ (cp.on => cp.submitted /\ ~cp.done)
  /\ e' = extstore_run_maint(e)
  /\ Compacting /\ UNCHANGED <<cp, hdr, lock, wr, compacts>>

\* The next buffer of the page is read.
CompactSubmit ==
  /\ cp.pc = "top" /\ cp.on /\ cp.w <= cfg.wbufs /\ ~cp.done /\ ~cp.submitted
  /\ cp' = [cp EXCEPT !.submitted = TRUE, !.miss = FALSE]
  /\ e' = extstore_run_maint(Ask(cp))
  /\ Compacting /\ UNCHANGED <<hdr, lock, wr, compacts>>

\* The read was a miss, or the page is at its end.
CompactEnd ==
  /\ cp.pc = "top" /\ cp.on
  /\ \/ cp.miss /\ e' = extstore_run_maint(e)
     \/ /\ ~cp.miss /\ ~cp.submitted /\ cp.w > cfg.wbufs
        /\ e' = extstore_run_maint(extstore_close_page(e, Reading))
  /\ cp' = NotCompacting
  /\ Compacting /\ UNCHANGED <<hdr, lock, wr, compacts>>

ReadbackBegin ==
  /\ cp.pc = "top" /\ cp.on /\ ~cp.miss /\ cp.submitted /\ cp.done
  /\ cp' = [cp EXCEPT !.pc = "entry", !.n = 1]
  /\ Compacting /\ UNCHANGED <<e, hdr, lock, wr, compacts>>

\* The item is done with: the next one, or the next buffer.
Passed == [cp EXCEPT !.pc = "entry", !.n = @ + 1, !.h = NULL]
ReadbackEnd ==
  /\ cp.pc = "entry" /\ cp.n > Len(cp.buf)
  /\ cp' = [cp EXCEPT !.pc = "top", !.w = @ + 1, !.done = FALSE, !.submitted = FALSE, !.buf = <<>>]
  /\ e' = extstore_run_maint(e)
  /\ Compacting /\ UNCHANGED <<hdr, lock, wr, compacts>>

\* storage_compact_readback's test: the header is in this page.  The header is
\* referred to while the item is written, in the hash table or not (cp.h).
StillValid(x) == IsHdr(x) /\ hdr[x.val].page = cp.page /\ hdr[x.val].version = cp.version

Readback(drop) ==
  LET item == cp.buf[cp.n]
      valid == StillValid(table[item.key])
      write == valid /\ ~drop
  IN /\ cp.pc = "entry" /\ cp.n <= Len(cp.buf) /\ lock[item.key] = NULL
     /\ drop => cfg.drop
     /\ e' = IF valid THEN extstore_delete(e, Reading) ELSE e
     /\ cp' = IF write THEN [cp EXCEPT !.pc = "write", !.h = table[item.key].val, !.tries = Tries] ELSE Passed
     /\ wr' = IF write THEN Requested("compact", item.key, item) ELSE wr
     /\ lock' = [lock EXCEPT ![item.key] = IF write THEN "compact" ELSE NULL]
     /\ Compacting /\ UNCHANGED <<hdr, compacts>>

Unlocked == [lock EXCEPT ![cp.buf[cp.n].key] = NULL]

\* No buffer: after a while again, and in the end the item is lost.
RescueFails ==
  LET x == wr["compact"]
  IN /\ cp.pc = "write" /\ x.pc = "fail"
     /\ IF cp.tries > 1
        THEN wr' = Requested("compact", x.key, x.item) /\ cp' = [cp EXCEPT !.tries = @ - 1] /\ UNCHANGED lock
        ELSE wr' = [wr EXCEPT !["compact"] = NoWrite] /\ cp' = Passed /\ lock' = Unlocked
     /\ Compacting /\ UNCHANGED <<e, hdr, compacts>>

\* The reference count that is tested is the one that was written with the item.
RescuePage ==
  LET x == wr["compact"]
  IN /\ cp.pc = "write" /\ x.pc = "ok"
     /\ IF x.item.solo
        THEN /\ hdr' = [hdr EXCEPT ![cp.h].page = x.at.page, ![cp.h].version = x.at.version]
             /\ cp' = [cp EXCEPT !.pc = "offset"]
             /\ UNCHANGED <<lock, wr>>
        ELSE cp' = Passed /\ lock' = Unlocked /\ wr' = [wr EXCEPT !["compact"] = NoWrite] /\ UNCHANGED hdr
     /\ Compacting /\ UNCHANGED <<e, compacts>>

RescueOffset ==
  LET x == wr["compact"]
  IN /\ cp.pc = "offset"
     /\ hdr' = [hdr EXCEPT ![cp.h].off = x.at.off]
     /\ cp' = Passed /\ lock' = Unlocked /\ wr' = [wr EXCEPT !["compact"] = NoWrite]
     /\ Compacting /\ UNCHANGED <<e, compacts>>

CompactThread ==
  \/ (\E p \in Pages : CompactStart(p)) \/ CompactIdle \/ CompactSubmit \/ CompactEnd
  \/ ReadbackBegin \/ ReadbackEnd
  \/ (\E drop \in BOOLEAN : Readback(drop)) \/ RescueFails \/ RescuePage \/ RescueOffset
  \/ Request("compact")

WriteThread == Request("write") \/ StorageWritten

Getter(g) == GetPage(g) \/ GetSubmit(g) \/ (\E recache \in BOOLEAN : GetEnd(g, recache))

Next ==
  \/ \E k \in Keys : Set(k) \/ Unlink(k) \/ \E solo \in BOOLEAN : StorageWrite(k, solo)
  \/ \E g \in Getters : Getter(g) \/ \E k \in Keys : GetBegin(g, k)
  \/ WriteThread \/ CompactThread \/ MaintThread
  \/ \E t \in IoThreads : IoThread(t)

\* Threads run; commands, and items to be written, may not come.
Fairness ==
  /\ WF_vars(WriteThread) /\ WF_vars(CompactThread) /\ WF_vars(MaintThread)
  /\ \A t \in IoThreads : WF_vars(IoThread(t))
  /\ \A g \in Getters : WF_vars(Getter(g))

Spec == Init /\ [][Next]_vars /\ Fairness

-----------------------------------------------------------------------------
(* Properties *)

\* What a read at a place would find.
Stored(at) ==
  LET q == e.pg[at.page]
      buf == IF q.wbuf # NULL /\ at.off[1] = q.written + 1 THEN q.wbuf ELSE e.disk[at.page][at.off[1]]
  IN IF at.off[2] <= Len(buf) THEN buf[at.off[2]] ELSE NULL

\* Headers in the hash table that the compactor is not just changing and whose
\* page is in use with their version.
Live == {k \in Keys : IsHdr(table[k]) /\ lock[k] # "compact" /\ SamePage(e, hdr[table[k].val])}

(* While an I/O thread reads from a page, without its mutex, the page is   *)
(* neither freed nor used again, although the maintenance thread may close *)
(* it and the compactor or a delete may empty it.                          *)
ReadIntact ==
  \A t \in IoThreads : io[t].pc = "pread" =>
    e.pg[io[t].req.at.page].version = io[t].req.at.version

(* A header that passes the test of the page's version leads to an item of *)
(* its own key: pages are used again and again, buffers are flushed and    *)
(* items moved by the compactor while headers are not looked at.           *)
HeaderPoints ==
  \A k \in Live : LET x == Stored(hdr[table[k].val]) IN x # NULL /\ x.key = k

(* A page counts at least the headers that lead to it, so that none is     *)
(* freed as empty with values in it; while it is compacted its count runs  *)
(* ahead, and it is closed afterwards.                                     *)
CountCovers ==
  \A p \in Pages : ~(cp.on /\ cp.page = p /\ cp.version = e.pg[p].version) =>
    e.pg[p].objs >= Cardinality({k \in Live : hdr[table[k].val].page = p})

(* Room comes back: when the default free list is empty and a page of it   *)
(* is written to its end, some page is freed, although signals to the      *)
(* maintenance thread get lost and pages that are being read must wait.    *)
RoomReturns ==
  (e.free[0] = <<>> /\ \E p \in Pages : FreeBucket[p] = 0 /\ ~e.pg[p].active /\ ~e.pg[p].free)
    ~> (e.free[0] # <<>>)

(* "Item header is still completely valid": what a header leads to is the  *)
(* value that was stored last, not an older one of the key.                *)
HeaderCurrent ==
  \A k \in Live : LET h == hdr[table[k].val] IN Stored(h) # NULL => Stored(h).val = h.val

(* A get is answered with a value of the key it asked for, and no          *)
(* assertion of extstore.c fails.                                          *)
OwnData ==
  /\ ~e.failed
  /\ \A g \in Getters : get[g].pc = "done" /\ ~get[g].miss => get[g].item.key = get[g].key
=============================================================================

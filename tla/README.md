# A TLA+ model of skq-bench

skq-bench is the benchmark suite of SKQ, a scalable kqueue for FreeBSD. It
holds a libevent replacement on top of kqueue (`evcompat`), a memcached changed
to run all its workers on one event base of that library (`mem`) beside the
original (`memcached`), the load generator for both (`mutilate`), a distributed
load generator (`pingpong/dismember`) with the server it drives
(`pingpong/ppd`), and a micro-benchmark of kqueue itself (`scaled`). All are
concurrent programs whose correctness rests on who may be given an event or an
item, when it is given back and who waits for whom. This directory models them,
checks the models with TLC and proves most of their safety invariants with TLAPS.

## Inventory

| part | source | state | operations |
|---|---|---|---|
| event library | `evcompat/event.c` | per event: state bits `EVS_ACTIVE`, `EVS_PENDING`, `owner`, `epoch`, fd and type, a mutex, a condition variable; per base: a kqueue | `event_set`, `event_add`, `event_del`, `event_base_loop` |
| connection pacing | `dismember.cc` 121-367 | per connection: `state`, `depth`, `timer_expired`, `next_send`; a one-shot kernel timer | `ev_loop`, `kqconn_state_machine`, `kqconn_cleanup` |
| control protocol | `dismember.cc` 369-1010 | control connections, `mt_kq` with a one-second timer, `cur_time`, barriers, counters | `prepare_clients`, `wait_master_prepare`, `send_master_ok`, `wait_clients_ok`, main loop, `client_send_qps`, `client_stop`, `master_recv_qps` |
| request generators | `reqgen.*`, `Generator.*` | random sources, buffers | `send_req`, `read_resp`, `generate` |
| server | `ppd.cc`, `reqproc.cc` | kqueues, `cur_thread`, a hint with a request processor per connection | accept loop, `work_thread`, `handle_event`, `drop_conn`, `proc_req` |
| kqueue benchmark | `scaled.c` | kqueues, an event array per thread that is also its change list, an exit pipe | `worker_thread`, start, stop and join in `main` |
| wire messages | `util.h`, `msg.proto` | none | `readbuf`, `writebuf`, `readmsg`, `writemsg` |
| items | `mem/memcached.c`, `items.c`, `assoc.c`, `crawler.c` | items with flags, reference count, CAS id; hash table, LRU queues, bump buffers, item locks | storage commands, `do_item_get`, `do_item_alloc`, `lru_pull_tail`, bumps, crawler, `flush_all` |
| threads and connections | `mem/thread.c`, `memcached.c`, and `memcached/` | notify pipes, connection queues, a state machine and an event per connection, `init_count`, `worker_hang_lock` | `dispatch_conn_new`, `redispatch_conn`, `thread_libevent_process`, `drive_machine`, `pause_threads` |
| slab allocator | `mem/slabs.c` | pages and free lists per class, the page being moved | `do_slabs_alloc`, `do_slabs_free`, `slabs_reassign`, `slab_rebalance_*` |
| storage on flash | `mem/extstore.c`, `storage.c` | pages with version, count and references; write buffers; I/O queues; header items | `storage_write`, `extstore_write_request`, reads, `_wbuf_cb`, maintenance, compaction |
| mutilate | `mutilate.cc`, `Connection.cc`, `Protocol.cc` | agent sockets, barriers, per connection a read and a write state, a timer and a queue of operations | `agent`, `prep_agent`, `sync_agent`, `go`, `do_mutilate`, callbacks |
| tracing, orchestration | `dtrace/`, `scripts/` | none | |

`mem/` and `memcached/` have `items.c`, `slabs.c`, `extstore.c`, `storage.c`,
`assoc.c` and `crawler.c` in common, byte for byte; the modules about them are
mapped to `mem/`. They differ in `thread.c` and `memcached.c`, where `mem` has one
event base, and `MemWorkers` models both.

How they interact: `mem` calls the event library from its worker threads and
from inside handlers; the library calls the handlers back. `dismember` processes
talk to each other over the control connections and to `ppd` (or `mem`) over
load connections; `mutilate` processes talk to each other over ZeroMQ and to
`mem` or `memcached` over load connections. Everything blocks in `kevent`; the kernel decides which
thread gets an event.

What is hard in this code:

- an event is fetched from the kqueue before it is locked and marked, and
  handlers may delete and re-add it while a batch is being run;
- a delivered event is withheld from other threads until somebody gives it back
  (`EV_ENABLE`, or the next `kevent` call under SKQ), so a forgotten path loses a
  descriptor for ever;
- the loop keeps the locks of a whole batch;
- the pacing relies on a flag that mirrors a timer in the kernel;
- the control protocol has seven blocking waits, one kqueue for messages and
  ticks, and processes that may die;
- descriptors, and the hints attached to them, are used again;
- memcached sends values from the item itself, without a lock, and protects them
  by reference counts that commands, the LRU maintainer, the page mover and the
  crawler all change;
- pages of memory and of flash are emptied and used again while they are in use;
- a worker parks a connection with data already read, or hands it to another
  thread through a queue and a pipe;
- mutilate matches answers to requests by their order alone and synchronizes all
  threads of all processes several times a run.

What makes each part correct: one handler per event at a time, no assertion
fails, no event is lost, `event_del` returns; the depth is what is outstanding
and every connection has a wakeup; load starts when everybody is connected and
the reported number is the sum of everybody's; a connection has one worker and a
live hint, and every request is answered; the benchmark
stops; memcached is a key-value store that does each command at one instant, no
item is freed or changed under a reader, no chunk or page is lost, what a client
sent is served; mutilate measures in step and ends. `PROJECT.json` lists the hazards line by line.

## Modules

`MC*` modules extend a model with TLC's symmetry sets and the settings of the
runs; they add nothing else. `*Proof` modules hold the theorems about a model and
their proofs.
Definitions named in comments as "Mutation of ..." are faulty variants of the
definition that follows them. They are not part of any specification; each one
shows that a property notices the fault.

### EvCompat (evcompat/event.c)

Variables `state`, `owner`, `epoch`, `lk` are the fields of `struct event`.
`ident` is the fd and filter of an event; timers get fresh negative ids from
`timer_base`. `kn`, `knIdent` and `holder` are the knote in the kernel.
`evlist`, `epochs`, `idx`, `enlist` are the locals of `event_base_loop`, `pc`
says where each thread is, `kev` is the call of `event_add` or `event_del` in
progress. `failed` names the assertion that failed; nothing happens after that.

| action | code |
|---|---|
| `KeventEnter`, `KeventReturn` | the `kevent` call: SKQ takes back what the thread held; a batch of up to `NEVENT` ready events, in any order |
| `Mark`, `MarkFails` | first loop over the batch, one event per step |
| `HandlerReturn`, `HandlerDel`, `HandlerReadd`, `HandlerAddOther` | second loop: the handler reads, and may delete its own or another event, set it up again and add it, or add an unused one |
| `Complete` | third loop: epoch test, one-shot deletion, enlist, signal; the lock is kept |
| `Enable`, `Unlock` | `EV_ENABLE` of the enlist, then all locks |
| `Del`, `DelRetry`, `SpuriousWake` | `event_del` up to its wait on `stop_cv`, and from its wakeup |
| `AddCheck`, `AddCommit`, `AddFails` | the unlocked test of `event_add`, then its locked part |
| `CallDel`, `CallAdd` | other threads call the library |

A critical section that takes and drops one lock is one action. The constant
`HandlerOps` says what handlers do, and `Callers` which other threads call the
library: the comment above `event_add` says it is not thread safe with respect
to one event, so an event is added by one thread at a time, in every run.

External: the kernel. A stock kqueue disables an `EV_DISPATCH` knote when it
returns it; SKQ withholds a returned knote until the same thread calls `kevent`
again. Deletion and addition work on the pair of identifier and filter.

Left out: `EVLOOP_ONCE`, the `EINTR` return of `kevent`, `event_base_free`,
`event_cleanup`, `event_kq_dump`.

`EvLease` is what the library promises to a program whose loops share a base,
without owners, epochs, locks or a kernel: the set of queued events, and for each
loop the set of events leased to it. A loop is granted a queued event nobody has
(or one that was deleted after the kernel returned it, which the code does not
notice), and returns it; `event_del` of another thread takes effect only when no
loop has the event, `event_add` revokes a lease. In `ImplementsLease` the leases of a
loop are the events of its live slots, those whose recorded epoch is the event's.

### KqConn (dismember.cc, one worker thread)

One worker and its connections. `ReadEvent`, `TimerEvent`, `EofEvent`,
`ReadFails` and `StopEvent` are what `kevent` can return; `Wait`, `Due`, `Limit`,
`Throttle`, `SendEarly` and `Send` are the turns of the `while` loop of
`kqconn_state_machine`, one action each because each reads the clock again. The
clock, the kernel's timers (`Fire`) and the server (`Respond`, `Segment`) are the
environment. The server may close or reset a connection at any time. In the
difficult setting (`env = Adversity`) the clock may be set back, sends may fail
and HTTP responses come in segments.

### DismemberCtl (dismember.cc, main threads)

One master, any number of clients, worker threads in each. A control connection
is two FIFO queues. The main threads' places are the blocking calls of the code;
a loop that writes to every client is one action per client. `timer` is a tick
that waits in `mt_kq`; ticks that nobody fetches coalesce. `Abort` is `E()`.
`TimerHits` lets a tick be what the exchange of counts finds; `MayCrash` lets
clients die. The order in which `SendStart`, `SendStop` and `PrepareClient` visit
the clients is left open. That `writebuf` of the ACK fails because the client
died since its count was read is not modelled; it ends like the other failures.
The division of target QPS and connection ids is data that the protocol only
carries.

### Ppd (ppd.cc, reqproc.cc)

Descriptors are used again, hints are numbered by the accepted connection.
`sharing` selects a kqueue per worker, a shared stock kqueue with `EV_DISPATCH`,
or a shared SKQ. `KeventEnter` applies the change list, `KeventReturn` takes a
batch of events with the state the connections have at that moment, `NextEvent`
is one round of the loop, `ReadRequest`/`ReadFails`/`WriteResponse`/`WriteFails`
are `proc_req`, `Drop` is `drop_conn`. A client sends a request in two parts,
because `readmsg` blocks between them. A malformed request makes `proc_req`
return `EINVAL`.

### Scaled (scaled.c)

Pipes that are always readable, an exit pipe, threads with the array `kev` that
`kevent` fills and takes its changes from. Counters saturate at `MaxCnt`.
`ExitFrees` is an assumption on SKQ: what an exited thread was given is given to
others. `Exits` needs it, because a thread that sees the exit pipe never calls
`kevent` again.

### MemCache and KvSpec (memcached.c, items.c)

The memory is one record `m` (items, hash table, queues, bump buffers, `cas_id`)
and the functions of items.c are operators from memory to memory, under their
names. A worker's command `c[w]` holds the references it keeps between two
actions. What happens under an item lock is one action, except where the code
allocates inside it (`append`, `prepend`, an `incr` that does not fit): there
`ilock` keeps the lock and other workers and evictions come in between.

| action | code |
|---|---|
| `GetCmd`, `Reply`, `Drop` | lookup, building the answer, dropping the reference when it is sent |
| `UpdateCmd`, `AllocTake`, `AllocPull`, `AllocFail`, `OomGet`, `OomUnlink` | the command line of a store: allocate, evict and try again, or give up |
| `NreadDone`, `NreadBad`, `CopyBegin`, `Supersede` | the data block has come: `do_store_item` |
| `DeltaCmd`, `SupersedeDelta` | `do_add_delta`, in place or with a new item |
| `DeleteCmd`, `TouchCmd`, `FlushLive`, `FlushCas`, `Tick` | the other commands and the clock |
| `Juggle`, `Bump`, `Crawl` | the maintainer and the crawler, one item per step |

`KvSpec` is what the commands promise: each command happens at one instant, every
stored value gets a fresh CAS id, keys may be lost at any time and do not come
back. `ImplementsKv` is the refinement: `store` is what a lookup would find now
(linked, not expired, not flushed), `reply` the last answer, taken from the
moment the value is found. It does not hold of every mix: see the disagreements
about `append` below. Beside counters it leaves open which id a `gets` tells;
`CasWithinOne` says what is true of that.

Abstracted: values are short sequences of digits below `Word`, which stands for
2^64; there is one slab class; TEMP_LRU, slab chunks of large items and the
size limits of the LRU segments are left out (the maintainer may move any tail).

### MemWorkers (thread.c, memcached.c, both versions)

`cfg.shared` tells the one base of `mem/` from a base per worker. The main thread
posts new connections and the flash I/O thread returns them (`Post`, `CqPush`,
`PipeWrite`); a worker is at `kevent` (`Fetch`), in a handler, or at
`worker_hang_lock`. `drive_machine` is one action per state (`NewCmd`, `Waiting`,
`SetRead`, `ReadNetwork`, `Parse`, `Nread`, `Swallow`, `Write`, `Detach`,
`Close`); with the fault `send` an answer may fail to be sent and the connection
is closed. `PauseLock`, `PauseWrite`, `PauseDone`, `Resume` are the maintenance
thread. `Fetch`, `Entry`, `NextHandler`, `Enable` and `EventAdd` are the event
library reduced to what a connection sees of it; `EvCompat` has the rest. A
client sends tokens (a command line or a data block); the kernel is external.

### MemSlabs (slabs.c)

`slots`, `slab_list`, `it` are free lists, page lists and chunk headers; `rb` is
`slab_rebal` with the mover's locals. A worker's command goes through allocate,
write key, lock, link, lock again and give its own reference back, and through
lookup, send, unreference, free, one action each, because the mover looks at the flags and counts between them. The mover's
look at a chunk (`MoveFromSlab`, `MoveBusy`, `SawLinked`), its attempt at the item
lock (`MoveLocked`, `MoveReferenced`, `MoveFromLru`), and the copy or the eviction
(`Rescue`, `Evict`) are separate steps; `slab_rebalance_finish` hands the page over.

### MemExt (extstore.c, storage.c, memcached.c)

The engine is a record `e`: pages with version, counts, references and write
buffer, free lists, queues and what is on the disk. `StorageWrite`,
`RequestPage`, `RequestFull`, `RequestNext`, `RequestWrite`, `StorageWritten` are
the write path, `GetBegin` to `GetEnd` a get, `Io*` an I/O thread, `Maint*` the
maintenance thread with eviction, `Compact*`, `Readback*`, `Rescue*` the
compactor. The two assignments of the compactor to a header and the two reads of
it by a get are separate actions: nothing orders them. The compactor keeps a
reference to the header item it is going to change (`cp.h`), whether or not the item
is still in the hash table. Items have one size, so
the CRC of an item found in another one's place is right.

### Mutilate (mutilate.cc, Connection.cc, Protocol.cc)

The protocol is what each side has still to say and hear, in order
(`prep_agent`, `sync_agent`, `finish_agent`, `AgentServe`); `Program` is the
sequence of phases of `do_mutilate`, and every thread is at one of them with the
state of its connection: `drive_write_machine`, `Read*`, `TimerEvent`. Time is two
facts, `late` and `expired`. A process without threads has nobody to go through
`Program`; `go` then synchronizes once, and only in the master (`WithoutThreads`).

The server is external, and kind: it answers in order, its answers arrive whole (that
`handle_response` returns false on part of one, Protocol.cc:60 and 94, and goes on at
the next event is left out), and it answers no `get` with an error line, which
Protocol.cc:78 would take for a line of a value and wait on. `Records` is positive,
as `args_to_options` sees to (mutilate.cc:1076).

## Runs

Deadlock is checked in `MemCache`. It is off in the others: with a bounded number
of arrivals, calls or requests each program comes to rest in `kevent` (a server
with nothing to serve), has ended, or has exited on an assertion. What could block
for ever is stated as `WaitsUntangled`, `NoStrandedKnote`, `WakeupPending` and by
the liveness properties.

Where a program has variants (the kernel with or without FKQMULTI, a kqueue per
thread or a shared one, a calm or a difficult environment of the load generator,
the options of mutilate, the settings of flash storage),
the variant is a variable that `Init` chooses and no step changes, so that one run
covers them all.

| run | what it checks | result |
|---|---|---|
| `EvHandlers` | two loops, a persistent and a one-shot event, batches of two, two arrivals each, handlers that delete, re-add and add; both kernels: `ExclusiveOwner`, `ActiveHasOwner`, `NoAssertFails`, `WaitsUntangled` | hold |
| `EvCallers` | a caller adds and deletes a timer beside two loops and their handlers; both kernels: `NoStrandedKnote`, `ImplementsLease`, `ReadyHandled`, `DelReturns` | hold |
| `KqConn` | one connection, both settings: `DepthIsOutstanding`, `WakeupPending`, `DueIsSent` | hold |
| `Ctl` | two clients that may die, ticks anywhere: `LoadAfterAllConnected`, `AggregateIsSum`, `Completes` | hold |
| `Ppd` | two workers in the three modes: `OneWorker`, `HintAlive`, `Answered` | hold |
| `Scaled` | two threads in the three modes: `LoadKept`, `Exits` | hold |
| `MemCache` | two workers, five mixes of three commands, four with counters beside `gets` and `cas`: `RefcountExact`, `ReaderStable`, `CasWithinOne`, `ImplementsKv` | hold |
| `MemWorkers` | two workers, six settings of both versions: `PauseSafe`, `DriverAlone`, `InSync`, `Served`, `PauseReturns` | hold |
| `MemSlabs` | a page of two chunks is moved under two workers with three commands on two keys: `ChunkOnce`, `PageClear`, `ReaderIntact`, `MoveEnds` | hold |
| `MemExt` | two pages, a writer, a get, maintenance and compactor, five settings: `ReadIntact`, `HeaderPoints`, `CountCovers`, `RoomReturns` | hold |
| `Mutilate` | master and up to two agents, two rounds, six sets of options, agents with threads: `InStep`, `StartTogether`, `Aligned`, `Finishes` | hold |
| `MemShared` | `OneDriver` with the shared base of `mem/` | violated: an event is re-added before its handler is done with the connection |

The other configurations (`EvDeadlock`, `EvBatch`, `KqHttp`, `CtlTick`, `PpdError`,
`MemCas`, `MutThreadless`, `SlabPool`, `ExtStale`, `ExtTorn`) each show one of the disagreements below. The modules state further invariants that no run lists, to
keep the list short, and that can be added to the same configurations: `TypeOK`
(in six modules), `RunsQueuedOnly` (`EvHandlers.cfg`), `TimerTracked` and `NoPanic`
(`KqConn.cfg`), `CountedBeforeClose` and `NoAbort` (`Ctl.cfg`), `NotStranded`,
`DropFindsKnote` and `NoHintLeak` (`Ppd.cfg`), `OneThread` (`Scaled.cfg`), `QueueMatches` (`MemWorkers.cfg`). Of these all but
`CountedBeforeClose` and `NoAbort` are proved.

Bounds and why they are enough:

- two loops and two events suffice for every exclusion and lock-order question,
  which are about pairs; batches of two reach the window between two events of a
  batch; two arrivals make an event ready again while it is being handled; two
  calls are one deletion and one addition, what the epoch is for;
- connections of a worker share only its `kevent` calls, so one is enough for
  pacing; with gaps of 1 and 2 and a clock that may run on unobserved there are
  requests already late, due at the next tick, and due while a response is out. A gap of 0 is left to
  the code's generators: it would let `DueIsSent` be true of the same time twice;
- two clients are enough for a message of one to overtake the other's; three
  ticks are a warm-up, a counted second and one tick too many;
- two descriptors and two accepted connections let a descriptor be used again,
  or both be served at once;
- two threads and three pipes with two events per call let a thread hold two
  pipes while the other has the third;
- two workers and two keys give every pair of commands on one key and an eviction
  of another; three chunks are one short of what two stores in progress and two
  linked items need, so allocation evicts and fails. Each menu of `MemCache` has
  the commands and the background work of a few hazards, because all of them at
  once is out of TLC's reach. `Word = 3` makes `incr` wrap around. The last menu has
  `incr`, `gets` and `cas` together, with four commands (two to make the value, an `incr`
  and a `gets` or `cas` around it), and no `decr`: with three values one count is
  told from two;
- two workers and two descriptors let a descriptor be used again while its old
  owner still has work queued; `ReqsPerEvent = 1` makes every second pipelined
  command a yield; one pause meets workers anywhere;
- a page of two chunks has one chunk before and one behind the mover; three
  commands put two stores, and a delete or a get, around it; `MaxLoops = 1` reaches the
  forced unlinking;
- two pages of flash: one is written while the other is evicted, read or
  compacted, and the first write after that uses a page again. Pages of one or two
  buffers with one item each; two items in a page are in `ExtStale` and `ExtTorn`;
- two agents let one finish while the other runs; two threads in an agent need the
  barrier; two rounds let the messages of one meet those of the next. The sets of
  options have masters with and without a thread (without one there is no warm-up)
  and agents with one or two; the other cases are those of `MutThreadless.cfg`.

`NoAssertFails` (and `RunsQueuedOnly`) are claimed for programs in which only a
handler deletes or re-adds its own event, the way memcached uses the library.
`WaitsUntangled` is claimed for any batches, where handlers delete no other event;
without its condition on batches that share two events it is `NoWaitCycle`, which
`EvDeadlock.cfg` violates. `CasIdentifies` is claimed where nothing counts,
`CasWithinOne` always; `ImplementsKv` where `append` or an allocating `incr` is kept
apart from expiry and `flush_all`, as in the menus of `MemCache`, and without a word on
the ids that `gets` tells beside counters. The
theorems below carry these as hypotheses. `DepthIsOutstanding`,
`WakeupPending` and `DueIsSent` are claimed for the calm setting. `Completes` is
claimed unless a client died or a tick hit the exchange of counts. `DriverAlone`,
`InSync`, `Served` and `PauseReturns` are claimed for a base per worker;
`PauseReturns` also only for a pause that begins when no worker is still at the
lock of an earlier one. `CountCovers` leaves out the page that is being
compacted.

### Further disagreements

These were met while modelling. Those with a configuration of their own are shown
by running it:

- `EvDeadlock.cfg`, `NoWaitCycle` with batches of two: event.c:400 says "Here we
  actually allow an active event to be re-added so that apps can manipulate events
  inside the event handler". A re-added event is delivered to a second loop at
  once, so two loops can complete batches with the same two events in different
  order, each keeping the locks it took (event.c:325): they wait for each other.
- `EvBatch.cfg`, `RunsQueuedOnly`: event.c:231 "IT requires that when an event is
  active and changed, no more IO is done on the file descriptor". A handler that
  deletes the next event of its batch does not stop that event's handler
  (event.c:319).
- `KqHttp.cfg`, `NoExtraResponse`: reqgen.cc:236 "consume everything" is one read;
  a response in two segments is counted twice (dismember.cc:220).
- `CtlTick.cfg`, `OnlyConnectionsFail`: `client_send_qps` and `master_recv_qps`
  read a message from whatever `mt_kq` returns, which includes the periodic timer
  (dismember.cc:603, 914); a tick ends the process with "Failed to receive ack
  from master" (:604).
- `PpdError.cfg`, `ErrorEndsConnection`: ppd.cc:166 drops a connection when
  "proc_req returned error" is negative; a request that cannot be parsed returns
  `EINVAL` (reqproc.cc:141), which is positive.
- `MemCas.cfg`, `CasIdentifies` with `gets` and an `incr` that needs a new item:
  memcached.c:4405 "Overwrite the older item's CAS with our new CAS" changes the
  superseded item while a `gets` builds its answer from it: the client gets the old
  value with the new value's id, and its `cas` (doc/protocol.txt:170, "no one else
  has updated since I last fetched it") overwrites the increment.
- `MutThreadless.cfg`, `InStep`: mutilate.cc:145 and 147 have master and
  agents synchronize before the warm-up and before the run. A master with
  `--threads=0` takes part once (mutilate.cc:730), with `--warmup` its agents make
  two, and one of them ends "out of sync". An agent without threads does not
  synchronize at all and takes the master's `sync_req` for the request for its
  statistics.
- `SlabPool.cfg`, `PageClear` when a page is taken from the pool (`slabs reassign
  0 X`): slabs.c:1140 "At this point the stolen slab is completely clear" does not
  hold, because a worker may take that page from the pool while it is moved.
- `ExtStale.cfg`, `HeaderCurrent`: storage.c:352 "Item header is still completely
  valid." follows from a comparison of page and version, not of the offset. When a
  key was written twice to a page, compaction rescues the older copy over the newer.
- `ExtTorn.cfg`, `OwnData`: storage.c:382 tests the reference count of the copy it
  read from flash where it means the header item's, so a header is changed while a
  get reads it without a lock (memcached.c:3911): the get may combine the page of
  one place with the offset of another.

The others are stated as properties, or were read off the code, and have no
configuration:

- `ImplementsKv` when an `append` or an `incr` that allocates runs while the item
  expires or `flush_all` hits: the new item takes the old one's place with a new
  time, and the value that was gone is back. doc/protocol.txt:1113 says that
  `flush_all` makes existing items invalid. The menus of `MemCache` keep the two
  apart.
- A pause with the shared base: a worker whose batch holds two notify pipes with a
  `p` blocks at the first, and the pause is never granted (`PauseReturns` with
  `shared` and `batch = 2`).
- A `set` with `noreply` and no memory: `out_of_memory` answers nothing, and the
  order to "swallow the data line" (memcached.c:4183) is not followed, so the data
  is parsed as commands (`InSync` with `setq` in the scripts).
- An error line in answer to a mutilate `get` leaves the operation open
  (Protocol.cc:78), and the connection waits for an `END` that does not come
  (`Aligned` and `Finishes`, with such an answer in `Answers`).
- With the ASCII protocol a `get` miss whose `END` is read together with the end
  of the load is not counted as one.

- `EnableCannotFail`: event.c:362 says of `EV_ENABLE` that it "CANNOT fail". If
  another thread deletes and re-adds a timer event between the return of `kevent`
  and the marking, the timer has a new id and the enable fails (`Callers` not
  empty, one timer event).
- `NotActiveAtMark`: event.c:304 says a fetched event that is active "implies a
  bug in our code". The same interference makes two loops fetch one event. The
  comment above `event_add` warns against manipulating one event from two
  threads, so this is a limit of use.
- `RunsQueuedOnly` with `Callers` not empty: test.c:388 expects that an event
  "doesn't work after deletion"; a loop that fetched it and has not marked it
  still runs its handler after `event_del` returned.
- `NeverEarly`: dismember.cc:181 "the above condition cannot be true" holds only
  while CLOCK_REALTIME is not set back (`Adversity = {"stepback"}`).
- `SkippedGoesOn`: dismember.cc:193 "effectively skipping this packet"; the depth
  has been raised already, and with a limit of one the connection waits for a
  response that will not come (`Adversity = {"sendfail"}`).
- `ClientsStopped`: the master waits for clients "to exit" (dismember.cc:429) by
  waiting for their connections to close, which a client does before it stops its
  threads (dismember.cc:966).
- `CrashEnds`: a client's death is an error in the main loop (dismember.cc:940),
  but `master_recv_qps` skips the event (dismember.cc:382) and waits for ever.
- `ResponseEncoded` with `Mode = 2`: `rdb_proc::proc_req` writes its read buffer
  without serializing the response into it (reqproc.cc:297).
- `ModeKnown` with `Mode = 3`: the usage text says "2 - HTTP, 3 - RDB"
  (ppd.cc:246); const.h has them the other way round and the server knows no HTTP
  mode.

### Fairness

- EvCompat: weak fairness of each thread's steps, that is, threads are scheduled,
  handlers return and a free mutex is obtained. Arrivals, calls and spurious
  wakeups are not fair.
- KqConn: weak fairness of the worker, of timers and of a server that answers;
  strong fairness of reading and timer events, because `kevent` keeps its ready
  events in a queue and serves each of them in turn, while the worker is not
  always in `kevent`. The clock need not advance.
- DismemberCtl: weak fairness of every main thread and worker, of the timer and of
  the delivery of what is in a queue. `Count` and `Crash` are not fair.
- Ppd: weak fairness of workers; strong fairness of an event being returned to
  some worker, for the same reason; clients finish the request they began and
  read responses. Without the last assumption a worker blocks in `recv` for ever,
  because `readbuf` has no time limit on the server's side.
- Scaled: weak fairness of threads, strong fairness of each event for a thread
  that keeps asking.
- MemCache: none; its properties are safety.
- MemWorkers: weak fairness of workers, of main's and the I/O thread's posts, and
  of maintenance once it began. Clients, hangups and expansions need not come.
- MemSlabs: weak fairness of the mover; strong fairness of a worker's steps,
  because the mover sleeps a millisecond after every busy chunk (slabs.c:1220) and
  releases both locks: a worker that waits gets them.
- MemExt: weak fairness of every thread; commands need not come. The compactor's
  loop signals maintenance each time it sleeps (storage.c:468), which is why a lost
  signal does not matter.
- Mutilate: weak fairness of threads, of message and answer delivery, and of time.

## Proofs

Each `*Proof` module extends the module it is about and proves its theorems for
every value of the constants, from that module's `ASSUME` only (`ConstAssumption`,
`PpdAssumption`, ...). The assumptions say what the command lines and the operating
system ensure: there is a worker, numbers of threads and batches are positive,
identifiers of different kinds differ, sets of threads, workers, pages and pipes are
finite. Every theorem has the form `Spec => []Inv` and follows from an inductive
invariant `IInv` in the same way: `Init => IInv`, one lemma per group of actions for
`IInv /\ [Next]_vars => IInv'`, and `IInv => Inv`. Each of these invariants was
checked by TLC on the runs of its module before it was proved.

| module | theorems | the property of a run they state |
|---|---|---|
| `EvCompatProof` | `TypeCorrect`, `OneHandler`, `ActiveOwned`, `NoneStranded`, `AssertsHold`, `OnlyTangledDeadlock`, `LeaseImplemented` | `ExclusiveOwner`, `ActiveHasOwner`, `NoStrandedKnote`, `NoAssertFails`, `WaitsUntangled`, `ImplementsLease` |
| `KqConnProof` | `TypeCorrect`, `DepthCounts`, `NoLostWakeup`, `TimersTracked` | `DepthIsOutstanding`, `WakeupPending` |
| `DismemberCtlProof` | `TypeCorrect`, `NoEarlyLoad`, `ResultIsSum` | `LoadAfterAllConnected`, `AggregateIsSum` |
| `PpdProof` | `TypeCorrect`, `ConnectionOneWorker`, `HintsAlive`, `DropSucceeds`, `NothingLost` | `OneWorker`, `HintAlive` |
| `ScaledProof` | `TypeCorrect`, `PipeOneThread`, `LoadIsKept` | `LoadKept` |
| `MemWorkersProof` | `TypeCorrect`, `PauseIsSafe`, `OwnerDrives`, `QueuesInStep`, `StreamInSync` | `PauseSafe`, `DriverAlone`, `InSync` |
| `MemExtProof` | `TypeCorrect`, `PageHeldIntact`, `RefsAndFreeLists`, `HeadersPoint`, `CountsCover` | `ReadIntact`, `HeaderPoints`, `CountCovers` |
| `MemCacheProof` | `CacheInvariant`, `CacheRefcountExact`, `CacheReaderStable`, `CacheCasWithinOne`, `CacheCasIdentifies` | `RefcountExact`, `ReaderStable`, `CasWithinOne` |

### EvCompat

`TypeOK` alone is not inductive: that `active[i]` is an event needs the index to
be inside the batch. `BatchOK` says so: the index is inside the batch, an epoch
has been recorded for each event marked so far, no event is in a batch twice (the
kernel returns a knote once per call).

`ExclusiveOwner` is about two threads and says nothing about the state they
share, so it is not inductive. The strengthening is `LiveOwned /\ ActiveHasOwner`.
`LiveOwned` ties each slot of a batch to the event: the recorded epoch is never
ahead of the event's, and if they are equal the event is active and owned by the
slot's thread. Two live slots of one event then have the same owner, and `BatchOK`
makes them one slot. `ActiveHasOwner` is the converse, and is what marking needs:
an event about to be marked is not active, so no slot of any thread is live for
it. The steps that matter are `Mark` (the new slot is live, no other one becomes
so), `Changed` (the epoch grows, so every slot recorded before is dead),
and `Complete` (the slot leaves the tracked ones as the event leaves the active
ones). Every other action is handled by a frame lemma: it leaves states, owners
and epochs alone and moves a thread inside one phase of its batch.

`NoStrandedKnote` names a thread in any of a dozen places. The invariant (`HeldInv`)
says what each of them still has to do: a slot of a batch is `Due` while it is not yet
marked, is live, or is in the list of events to enable; with the legacy kernel a
delivered knote has a due slot in the batch of its holder, with FKQMULTI its holder
is not in `kevent`, whose next call returns it. A slot stops being due when
somebody deletes or adds its event (the epoch grows, and the knote is deleted or
armed anew), when `Complete` ends a one-shot event, or at the `EV_ENABLE` of the
batch; those are the steps where the proof has to look at knotes.

`AssertsHold` has two hypotheses (`HandlersOnly`): no handler deletes an event
other than its own and no thread outside the loops calls in. They are what memcached
does; `EvBatch.cfg` shows the theorem fails without the first. Under them
`SafeInv` says that the event of every due slot is queued and withheld, under the
ident the batch recorded, and active only if the slot is live (`SlotsHeld`); that
the slots behind the running handler are all live (`Handling`); that a knote
exists exactly for the queued events, under their idents (`KnotesMatch`), so that no
`EV_ENABLE` or `EV_DELETE` misses one; and that an event between its
deletion and its re-adding has one thread working on it (`Adders`). The theorem also
states `RunsQueuedOnly`.

`OnlyTangledDeadlock` is about circles of any length and batches of any size. Its
hypothesis is that handlers delete no event but their own; its condition, that no
loop has two events in its batch that other loops have fetched as well, is about the
batches of the moment and not about `NEVENT`. A thread that keeps a lock across
steps keeps it for an event of its batch it has completed (`LocksHeld`), and if it
waits, it waits for the lock of a later one (`HolderWaits`). So if somebody in the
circle keeps a lock, everybody after him does: each waits for an event of its batch
that the next has completed, and has completed another that the one before waits for,
two different events that are in a neighbour's batch too. Otherwise all wait in
`event_del`, each in a handler for the owner of its own event, which is active and in
that owner's batch (`OwnersActive`, `DelWaits`, `DeleterWaits`): such an owner's batch
has the event of the one before, which is his, and his own, which is the next one's.
Either way somebody has two shared events (`CircleTangled`).

`LeaseImplemented` maps every step to one of `EvLease` or to a stutter. Most leave
events and slots alone (`Kept`, `LoopSlots`, `ApiSlots`, `OutsideSlots`). `Mark` is a
grant, because an event with a live slot anywhere is active (`LiveOwned`) and an
active one is not marked; `Complete` is a return when the slot is live, and of nothing
otherwise; a deletion or addition revokes, because the epoch of an active event moves
past all recorded ones and an inactive one has no live slot. That `event_add` finds
its event unqueued needs `OneAdder`: the adders of an event are one at a time, which
`event_add` asks of its callers.

### KqConn

`WakeupPending` is about the moment the worker is in `kevent`; in between a
connection may well have no timer. The invariant therefore speaks of every
connection the state machine is not running for (`AllParked`): it waits with a timer
that has not expired, or its depth is at the limit. `Tracked` turns the first into a
timer that is armed or has fired, `Outstanding` (the depth is what is in flight or
has arrived) turns the second into a response that must come. `SendingDue`, that what
was due on entry to STATE_SENDING still is, holds because the calm clock does not
run backwards, and keeps `NoPanic` inductive. The properties of the run are claimed
for the calm setting; `TimersTracked` holds in the difficult one too.

### DismemberCtl

`LoadAfterAllConnected` relates workers of different processes, which never
communicate. The invariant follows the chain that orders them: workers run only past
their process's barrier (`WorkersOK`), an OK in a queue or noted by the master comes
from a client past its barrier (`OksOK`), and anything but the options in a queue to a
client, or any place behind START, means that all processes are past their barrier
(`StartOK`). Crashes, failing exchanges and ticks at any moment are included.

`AggregateIsSum` holds where the master is done; before that the counts are in parts at
the clients, on their way and in the result. `CountInv` says that what a client has
written and the master has not read is at most one message, the OK or the count, and
which one its place says (`UpOK`), that the master has seen all OKs before anybody is
told anything further (`AckedOK`, `OrderOK`), and that there is a set of clients whose
counts, and only theirs, are in the result, each of which has sent its count and has
nothing more on the way (`Tallied`, `TallyOK`). The master is done when that set has as
many members as there are clients. `MapThenSumSet` chooses a recursive function on
finite sets; that one exists and sums as it should (nothing, one more client, equal
summands) is proved without the induction theorems, by a smallest counterexample.

### Ppd and Scaled

Exclusion does not come from a lock but from what withholds a knote: the worker's
own kqueue, `EV_DISPATCH`, or SKQ. `Claimed` says for each of the three how a worker's
claim shows in the state of the knote; since it names one worker, two workers never
claim the same one. The invariants say that every event a worker has in its batch, and
everything it is going to enable, is claimed by it (`WorkerInv`; `LeftClaimed` and
`EnableClaimed`). In `Ppd` a knote carries the hint it was registered with
(`Registered`), which gives `HintAlive` although descriptors are used again.
`NothingLost` needs the converse as well (`NothingStuck`): a disabled or held knote has
a worker that will enable it. It is stated for the modes the server knows; with
another one the server exits on its first request.

### MemWorkers

`PauseIsSafe` counts: while the maintenance thread has `worker_hang_lock`,
`init_count` is at most the number of workers that hang at it, so that the count it
waits for means all of them. It needs no other fact about connections.

`OwnerDrives` is stated for a base per worker (`MemShared` shows that it fails with the
shared base). A connection is either away (closed, in a queue or about to be put into
one, with the flash I/O threads) and then not registered, or busy with one worker, its
home (`Held`, `Off`, `Apart`); a worker does not handle a connection that waits in its
batch as well (`Sole`); a connection is posted at most once (`OnceQueued`,
`OncePushed`) and one that returns from flash goes to the worker it left (`Back`).

`QueuesInStep` compares counts of two sequences, the pipe and the queue, whose
changes are two steps of the poster and two of the worker; `Unread` says that a
worker that was told of its pipe finds a byte there.

`StreamInSync` is about what a client has sent and drive_machine has not executed: the
buffer, the socket and the rest of the script, one after the other (`Stream`). Tokens
only move along it or leave its front, so that "a data block comes first" can be
followed through every state: it does exactly when `rlbytes` or `sbytes` is not zero
(`Due`), and then the connection is in `conn_nread`, in `conn_swallow`, or writes the
error before it swallows (`Synced`). Waiting for input, leaving a worker out of turns
and closing keep that. A connection that goes to the I/O thread and
comes back, or a descriptor that is used again, is in a state of its own while no worker
has it (`Stages`); that nobody else changes it meanwhile is `Owned`, the
invariant of `OwnerDrives`. The hypothesis `Orderly(cfg)` is about clients: scripts
are whole commands, and where memory may be short (`oom`) none has `setq`. It is
constant in a behaviour, all configurations of `MemWorkers` with a base per worker satisfy it, and
without its second half the theorem is false (see the second list of disagreements).

### MemExt

`ReadIntact` is about the version of a page that an I/O thread reads without its
mutex. A version changes only when `_allocate_page` takes a page from a free list, a page
gets there only when the pass of the maintenance thread frees it, which tests the
reference count. So the invariant has `RefsCounted` (the count is the number of
threads that hold the page), `HeldInUse` (what is held is in use and has the version
asked for), `FreeListed` (what is in a free list is marked as free, once, in the list
of its device) and `LowInUse` (the page chosen for eviction is still in use at the end
of the pass, and is behind it). Most steps do none of the three things; they are
handled through `Calm`, a relation between two states of the engine that every
function of extstore.c but `_allocate_page` (`Taken`) and `_free_page` (`GivenBack`)
satisfies, with one lemma per function.

`HeaderPoints` and `CountCovers` need to know what is in every buffer of every page, and
who is going to refer to it; they are proved together from `ItemInv`:

- `DataOK`: a page is in use exactly with a version below the next one, and has at most
  one buffer that is not on disk, the one after those written. A step leaves a page as
  it was up to buffers that have been added to, flushed or counted (`Same`), frees
  it (`Freed`) or takes it with the next version (`Fresh`); `Ages` says so of all pages,
  and is what the two properties are kept by in steps that change no header.
- `ReqsOK`: a page has at most one write queued, and a reader at most one read
  queued or under way, and each is expected by the page's full buffer or by who
  waits. Without it a second `_wbuf_cb` would count a buffer that is not there.
- `HdrData`, `HdrsPoint`: no two keys have the same header item; every header leads
  to an item of its key or to a page that is gone, but for the one whose page the
  compactor has changed and whose offset it has not (`Torn`).
- `WriteData`, `WriteLock`, `RescueData`: what a writer was told to have written is
  there; the item that `storage_write` writes stays locked and in memory, the
  compactor's stays locked, and the header it holds (`cp.h`) is that item's or nobody's.
  The header is in use by the compactor even when its key has been deleted or set
  again meanwhile, and is then changed without effect.
- `CompactData`, `PassData`: a page that is compacted had been written to its end when
  its version was noted, so nobody writes to it while it has that version.
- `Counted`: a page counts at least the headers that lead there and the items that
  have been written and whose header is still to come (`Users`), except in the page that
  is being compacted (`Emptied`), where the compactor counts down first.

`Ascending` orders the pages of a device; that a finite set of naturals can be
ordered is proved from the well-foundedness of `<` on the naturals, by a smallest
counterexample.

### MemCache

`RefcountExact` is nearly inductive for the memory alone, but not for the commands: to
know that a step leaves the counts right one has to know what the command holds. The
invariant has four parts. `TypeInv` gives shapes. `Life(m, Refs)` is about
the memory, with the number of outside references to each chunk as a parameter: the
count is that number and one more for a linked item, a chunk is free exactly when it is
zero, what is linked is in the hash table under a key of its own and once in the queue
it names. `AllFit` says of every command which references it has at its step, that they
are to items of its key, that an item about to be replaced is linked and its key locked
by this worker, that a value is read into an item that is not linked, and that a get's
item has the value it was found with. `Alone` says that nobody else has the item a
value is read into.

Because the functions of items.c work in the middle of a command, where the counts are
off by the references just taken, each has a lemma for any parameter of `Life`: linking
adds one to the count, `do_item_remove` takes a reference out of the parameter, an
entry in a bump buffer puts one in (`LinkLife`, `UnlinkLife`, `RemoveLife`, ...).
The walk of `lru_pull_tail` is five such visits. Counting references is
counting sets (`RefsWith`, `EntryTaken`): a worker's own are taken out first
(`Others`), then those of its next state are added.

What others notice of a step is a relation between two memories, `Evolves`: values and
keys change only in an item `n`, which the worker alone has, new in the hash table is
only `n`, under a fresh CAS id, and items leave the hash table only if their key is
unlocked or the worker's own. Every action is shown to be such a step (one lemma
`...Steps` or `...Around` per action), and one lemma each for workers (`WorkerStep`)
and for the background (`BackgroundStep`) derives the invariant from that. An `incr`
in place is the interesting case: it may write to a linked item because a count of
two means that the hash table and this command are the only ones to refer to it.

A counter that is replaced by a new item writes the new item's id to the old one
(memcached.c:4405), so an id does not always name one value (`MemCas.cfg`).
`CacheCasWithinOne` says, for every mix of commands, what it does name: the value that
was told, or one count of it. Its invariant (`CasInv`) has three parts: no item in the
hash table has an id above `cas_id`; a counter that waits for its new item has
counted from the item it is about to replace, which its lock keeps as it is; and an id
that was told, or would be told by a gets that is building its answer, is not above
`cas_id` and names the value or one count of it among the items of its key
(`Ident`). A step that replaces a counter gives the old item an id that only the new
item has, whose value is one count of the old one's (`Superseded`). Where nothing
counts, `CasIdentifies` is the same statement: `CacheCasIdentifies` is a corollary
with `~Counting` as its hypothesis.

### Only model-checked

- Liveness (`ReadyHandled`, `DelReturns`, `DueIsSent`, `Completes`, `Answered`,
  `Exits`, `Served`, `PauseReturns`, `MoveEnds`, `RoomReturns`, `Finishes`): the
  prover has no support here for fairness and `ENABLED`.
- The invariants of `MemSlabs`: the mover cuts chunks out of free lists with `SelectSeq`
  and the first lists are made with `FlattenSeq`; the prover knows neither, so the
  module first has to say what they leave in terms of positions.
- `HeaderCurrent` and `OwnData` of `MemExt`, which `ExtStale` and `ExtTorn` refute.
- The invariants of `Mutilate`: the order of a connection's answers goes through
  `SelectSeq` and bursts of operations through `FoldLeft`, and what these compute
  cannot be proved without induction over data.
- The refinement `ImplementsKv`. It does not hold for every value of `Menus` (see the
  second list of disagreements), and what it needs instead, that no item expires while
  its replacement is allocated, is a condition on schedules and not on constants.

## Plan

1. *Done*: `EvCompat` and the lease it implements, `KqConn`, `DismemberCtl`, `Ppd`, `Scaled`; `MemCache` and the
   specification `KvSpec` it implements, `MemWorkers`, `MemSlabs`, `MemExt`,
   `Mutilate`, with their runs; the theorems above.
2. Proofs: `ChunkOnce` of `MemSlabs`.
3. The division of the target QPS and of connection ids in `prepare_clients`
   (dismember.cc:538, where a product is computed in an `int`), against exact
   arithmetic.

## Not modelled

- Of `mem` and `memcached`: UDP, TLS and SASL, the idle timeout, the connection
  limit and `accept_new_conns`, items of several chunks, `incr` with an initial
  value, TEMP_LRU and the low-TTL and chunked buckets of flash, the crawler's own
  thread and its other modes, the hash table's buckets, the logger, statistics,
  the slab automover's decisions, command lines, `testapp.c` and the text of
  commands. Most of what is left of these directories is parsing, formatting,
  statistics, option handling and tests; the share of source lines that the
  modules stand for stays far below a third for that reason, and because the files
  that `memcached/` shares with `mem/` are mapped once.
- Read and not covered: `conn_close` runs `event_cleanup`, which destroys the lock
  that `event_base_loop` takes after the handler; `redispatch_conn` reads
  `is_priority` of a queue entry another thread may have freed; the signal to the
  hash table's maintenance thread is sent without its lock.
- Of `mutilate`: key and value generators, distributions, statistics, the search
  for a peak, `evdns`.
- `Generator.*` and the payloads of `reqgen.*`: numerical distributions and
  contents of messages.
- Command lines, CPU affinity, statistics output, `dtrace`, `scripts`: no state
  that the properties depend on.
- Weak memory: the unlocked reads (`event_add`'s test of `EVS_PENDING`, the
  handler pointer) are atomic reads in the model.

## Running

    tlc -workers 2 -config EvHandlers.cfg MCEvCompat
    tlc -workers 2 -config MemCache.cfg MCMemCache
    tlc -workers 2 -config ExtTorn.cfg MCMemExt
    tlapm EvCompatProof.tla

----------------------------- MODULE MemWorkers -----------------------------
(***************************************************************************)
(* The threads and connections of memcached, in both of the repository's   *)
(* versions: memcached/, where every worker has an event base, and mem/,   *)
(* where all workers run event_base_loop on one evcompat base.  cfg.shared *)
(* says which.  The main thread accepts and dispatches connections over    *)
(* the notify pipes, workers drive the connections' state machines         *)
(* (drive_machine, one action per state), an extstore I/O thread hands     *)
(* connections back, and the hash table's maintenance thread pauses all    *)
(* workers.                                                                *)
(*                                                                         *)
(* The input of a connection is a sequence of tokens: "get", "set" (a      *)
(* command line whose data block is the next token), "setq" (with noreply) *)
(* and "data".                                                             *)
(*                                                                         *)
(* A member of Configs has the fields                                      *)
(*   shared   one base for all workers (mem/), or one each (memcached/)    *)
(*   batch    events a worker gets at once (NEVENT in mem/)                *)
(*   scripts  what a client may send                                       *)
(*   faults   "oom": item_alloc may fail; "ext": values may be on flash;   *)
(*            "pri": clients may have priority (mem/ only);                *)
(*            "send": sending an answer may fail                           *)
(*   accepts  bound on the connections that are accepted                   *)
(*   pauses   bound on the expansions of the hash table                    *)
(***************************************************************************)
EXTENDS Integers, Sequences, FiniteSets

CONSTANTS
  N,             \* settings.num_threads
  Conns,         \* file descriptors connections can have
  Configs,       \* the settings and the bounds of a behaviour, see below
  ReqsPerEvent,  \* settings.reqs_per_event, 20 in the code
  NULL

Threads == 0 .. N - 1

ASSUME MemWorkersAssumption ==
  /\ N \in Nat \ {0} /\ ReqsPerEvent \in Nat \ {0}
  /\ NULL \notin Conns \cup Threads /\ Conns \cap Threads = {} /\ NULL \notin {"R", "W"}
  /\ \A s \in Configs : s.scripts \subseteq Seq({"get", "set", "setq", "data"})

VARIABLES
  cfg,         \* the member of Configs this behaviour is about
  pipe,        \* bytes in the notify pipes, "c" or "p"
  cq,          \* the connection queues, one per pipe
  last_thread,
  poster,      \* main and the I/O thread in dispatch_conn_new and redispatch_conn
  wk,          \* the workers
  cn,          \* the connections
  init_count,
  hang,        \* worker_hang_lock is held by the maintenance thread
  maint,       \* where the maintenance thread is
  accepts, pauses

vars == <<cfg, pipe, cq, last_thread, poster, wk, cn, init_count, hang, maint, accepts, pauses>>

NoConn == [open |-> FALSE, state |-> "conn_closed", go |-> "conn_new_cmd", script |-> <<>>,
           sock |-> <<>>, eof |-> FALSE, rbuf |-> <<>>, rl |-> 0, sb |-> 0, noreply |-> FALSE,
           io |-> "none", reg |-> NULL, armed |-> FALSE, epoch |-> 0, home |-> NULL,
           thread |-> NULL, pri |-> FALSE, bad |-> FALSE]

NewWorker == [pc |-> "start", batch |-> <<>>, at |-> 1, conn |-> NULL, nreqs |-> 0]
Posters == {"main", "io"}
Resting == [pc |-> "idle", conn |-> NULL, mode |-> NULL, tid |-> 0]

Init ==
  /\ cfg \in Configs
  /\ pipe = [i \in Threads |-> <<>>] /\ cq = [i \in Threads |-> <<>>]
  /\ last_thread = N - 1
  /\ poster = [p \in Posters |-> IF p = "main" THEN [Resting EXCEPT !.pc = "init"] ELSE Resting]
  /\ wk = [t \in Threads |-> NewWorker]
  /\ cn = [c \in Conns |-> NoConn]
  /\ init_count = 0 /\ hang = FALSE /\ maint = "idle"
  /\ accepts = 0 /\ pauses = 0

-----------------------------------------------------------------------------
(* Dispatching: dispatch_conn_new and redispatch_conn *)

\* memcached_thread_init waits for the registration of every worker.
MainInit ==
  /\ poster["main"].pc = "init" /\ init_count = N
  /\ poster' = [poster EXCEPT !["main"] = Resting]
  /\ UNCHANGED <<cfg, pipe, cq, last_thread, wk, cn, init_count, hang, maint, accepts, pauses>>

\* Mutation of Post: a connection is given back to the next thread.
PostNext(p, c, mode) ==
  LET tid == (last_thread + 1) % N
  IN /\ last_thread' = tid
     /\ poster' = [poster EXCEPT ![p] = [pc |-> "push", conn |-> c, mode |-> mode, tid |-> tid]]

\* The next thread's turn; memcached/ gives a connection back to its own thread.
Post(p, c, mode) ==
  LET own == mode = "redispatch" /\ ~cfg.shared
      tid == IF own THEN cn[c].thread ELSE (last_thread + 1) % N
  IN /\ last_thread' = IF own THEN last_thread ELSE tid
     /\ poster' = [poster EXCEPT ![p] = [pc |-> "push", conn |-> c, mode |-> mode, tid |-> tid]]

\* drive_machine in conn_listening: a client connects and gets a descriptor.
Accept(c, script, pri) ==
  /\ poster["main"].pc = "idle" /\ ~cn[c].open /\ accepts < cfg.accepts
  /\ pri => "pri" \in cfg.faults
  /\ accepts' = accepts + 1
  /\ cn' = [cn EXCEPT ![c].open = TRUE, ![c].script = script, ![c].sock = <<>>, ![c].eof = FALSE,
                      ![c].pri = pri]
  /\ Post("main", c, "new")
  /\ UNCHANGED <<cfg, pipe, cq, wk, init_count, hang, maint, pauses>>

\* The I/O thread has read the value and gives the connection back.
IoDone(c) ==
  /\ poster["io"].pc = "idle" /\ cn[c].io = "queued"
  /\ cn' = [cn EXCEPT ![c].io = "done"]
  /\ Post("io", c, "redispatch")
  /\ UNCHANGED <<cfg, pipe, cq, wk, init_count, hang, maint, accepts, pauses>>

\* Mutation of Pushes: the pipe is written first and the queue afterwards.
PushesLate(p, push) == IF push THEN poster[p].pc = "write" ELSE poster[p].pc = "push"

\* The step of p that is the push to the queue, or the write to the pipe.
Pushes(p, push) == IF push THEN poster[p].pc = "push" ELSE poster[p].pc = "write"

Advance(p) ==
  poster' = [poster EXCEPT ![p] = IF @.pc = "push" THEN [@ EXCEPT !.pc = "write"] ELSE Resting]

CqPush(p) ==
  LET x == poster[p]
  IN /\ Pushes(p, TRUE)
     /\ cq' = [cq EXCEPT ![x.tid] = Append(@, [conn |-> x.conn, mode |-> x.mode])]
     /\ Advance(p)
     /\ UNCHANGED <<cfg, pipe, last_thread, wk, cn, init_count, hang, maint, accepts, pauses>>

PipeWrite(p) ==
  LET x == poster[p]
  IN /\ Pushes(p, FALSE)
     /\ pipe' = [pipe EXCEPT ![x.tid] = Append(@, "c")]
     /\ Advance(p)
     /\ UNCHANGED <<cfg, cq, last_thread, wk, cn, init_count, hang, maint, accepts, pauses>>

-----------------------------------------------------------------------------
(* Clients *)

Send(c) ==
  /\ cn[c].open /\ cn[c].script # <<>>
  /\ cn' = [cn EXCEPT ![c].sock = Append(@, Head(cn[c].script)), ![c].script = Tail(@)]
  /\ UNCHANGED <<cfg, pipe, cq, last_thread, poster, wk, init_count, hang, maint, accepts, pauses>>

Hangup(c) ==
  /\ cn[c].open /\ cn[c].script = <<>> /\ ~cn[c].eof
  /\ cn' = [cn EXCEPT ![c].eof = TRUE]
  /\ UNCHANGED <<cfg, pipe, cq, last_thread, poster, wk, init_count, hang, maint, accepts, pauses>>

-----------------------------------------------------------------------------
(* pause_threads and the maintenance thread of assoc.c *)

\* pause_threads(PAUSE_ALL_THREADS) up to the wait: init_lock keeps workers
\* from registering before every pipe is written.
PauseLock ==
  /\ maint = "idle" /\ pauses < cfg.pauses /\ poster["main"].pc # "init"
  /\ hang' = TRUE /\ maint' = "locked" /\ pauses' = pauses + 1
  /\ UNCHANGED <<cfg, pipe, cq, last_thread, poster, wk, cn, init_count, accepts>>

\* Mutation of ResetCount: the count of the last registration is kept.
ResetCount_kept(n) == n
ResetCount(n) == 0

\* Mutation of Notified: the loop starts at 1.
NotifiedLate == Threads \ {0}
Notified == Threads

PauseWrite ==
  /\ maint = "locked"
  /\ init_count' = ResetCount(init_count)
  /\ pipe' = [i \in Threads |-> IF i \in Notified THEN Append(pipe[i], "p") ELSE pipe[i]]
  /\ maint' = "wait"
  /\ UNCHANGED <<cfg, cq, last_thread, poster, wk, cn, hang, accepts, pauses>>

PauseDone ==
  /\ maint = "wait" /\ init_count >= N
  /\ maint' = "swap"
  /\ UNCHANGED <<cfg, pipe, cq, last_thread, poster, wk, cn, init_count, hang, accepts, pauses>>

\* assoc_expand is done: pause_threads(RESUME_ALL_THREADS).
Resume ==
  /\ maint = "swap"
  /\ maint' = "idle" /\ hang' = FALSE
  /\ UNCHANGED <<cfg, pipe, cq, last_thread, poster, wk, cn, init_count, accepts, pauses>>

-----------------------------------------------------------------------------
(* event_base_loop *)

Quiet == UNCHANGED <<cfg, last_thread, poster, hang, maint, accepts, pauses>>
Still == UNCHANGED <<pipe, cq, init_count>> /\ Quiet

Readable(c) == cn[c].sock # <<>> \/ cn[c].eof
InBatch(e) == \E t \in Threads : \E n \in DOMAIN wk[t].batch : wk[t].batch[n].ev = e

\* What kevent can return to t: its own pipe and connections, or anybody's.
Ready(t) ==
  {i \in Threads : (cfg.shared \/ i = t) /\ pipe[i] # <<>> /\ ~InBatch(i)}
    \cup {c \in Conns : /\ cfg.shared \/ cn[c].home = t
                        /\ cn[c].armed /\ cn[c].reg # NULL
                        /\ cn[c].reg = "R" => Readable(c)}

Entry(e) == [ev |-> e, epoch |-> IF e \in Conns THEN cn[e].epoch ELSE 0]

Fetch(t) ==
  /\ wk[t].pc = "loop"
  /\ \E a, b \in Ready(t) :
       /\ a # b => cfg.batch > 1
       /\ wk' = [wk EXCEPT ![t] = [NewWorker EXCEPT !.pc = "next",
                   !.batch = IF a = b THEN <<Entry(a)>> ELSE <<Entry(a), Entry(b)>>]]
       /\ cn' = [c \in Conns |-> IF c \in {a, b} THEN [cn[c] EXCEPT !.armed = FALSE] ELSE cn[c]]
  /\ Still

Current(t) == wk[t].batch[wk[t].at].ev
More(t) == wk[t].pc = "next" /\ wk[t].at <= Len(wk[t].batch)

\* All handlers have run: what they have not changed is enabled again.
Enable(t) ==
  /\ wk[t].pc = "next" /\ wk[t].at > Len(wk[t].batch)
  /\ cn' = [c \in Conns |->
              IF \E n \in DOMAIN wk[t].batch : wk[t].batch[n] = Entry(c)
              THEN [cn[c] EXCEPT !.armed = TRUE] ELSE cn[c]]
  /\ wk' = [wk EXCEPT ![t] = [NewWorker EXCEPT !.pc = "loop"]]
  /\ Still

Goto(t, pc, c) == wk' = [wk EXCEPT ![t].pc = pc, ![t].conn = c]
NextHandler(t) == wk' = [wk EXCEPT ![t].pc = "next", ![t].at = @ + 1, ![t].conn = NULL]

-----------------------------------------------------------------------------
(* The notify pipe: thread_libevent_process *)

\* register_thread_initialized, at the start and on a "p"; then the hang lock.
Register(t) ==
  /\ wk[t].pc = "start" \/ (More(t) /\ Current(t) \in Threads /\ Head(pipe[Current(t)]) = "p")
  /\ pipe' = IF wk[t].pc = "start" THEN pipe ELSE [pipe EXCEPT ![Current(t)] = Tail(@)]
  /\ init_count' = init_count + 1
  /\ wk' = [wk EXCEPT ![t].pc = "hang"]
  /\ Quiet /\ UNCHANGED <<cq, cn>>

Unhang(t) ==
  /\ wk[t].pc = "hang" /\ ~hang
  /\ IF wk[t].batch = <<>> THEN wk' = [wk EXCEPT ![t].pc = "loop"] ELSE NextHandler(t)
  /\ Still /\ UNCHANGED cn

\* event_add, for a connection whose event is not registered.
EventAdd(c, home) == [cn[c] EXCEPT !.reg = "R", !.armed = TRUE, !.epoch = @ + 1, !.home = home]

\* A "c": a new connection is set up, a redispatched one is added again.
ReadPipe(t) ==
  LET i == Current(t)
      x == Head(cq[i])
  IN /\ More(t) /\ i \in Threads /\ Head(pipe[i]) = "c"
     /\ pipe' = [pipe EXCEPT ![i] = Tail(@)]
     /\ cq' = [cq EXCEPT ![i] = IF @ = <<>> THEN @ ELSE Tail(@)]
     /\ IF cq[i] = <<>> THEN NextHandler(t) /\ UNCHANGED cn
        ELSE /\ cn' = [cn EXCEPT ![x.conn] =
                  IF x.mode = "redispatch" THEN [EventAdd(x.conn, cn[x.conn].thread) EXCEPT !.state = "conn_new_cmd"]
                  ELSE [EventAdd(x.conn, t) EXCEPT !.state = "conn_new_cmd", !.go = "conn_new_cmd",
                          !.rbuf = <<>>, !.rl = 0, !.sb = 0, !.noreply = FALSE, !.io = "none"]]
             /\ Goto(t, IF x.mode = "new" THEN "new" ELSE "readd", x.conn)
     /\ Quiet /\ UNCHANGED init_count

\* After conn_new: c->thread = me.
SetThread(t) ==
  /\ wk[t].pc = "new"
  /\ cn' = [cn EXCEPT ![wk[t].conn].thread = t]
  /\ NextHandler(t) /\ Still

Driving(t, c) == wk' = [wk EXCEPT ![t].pc = "drive", ![t].conn = c, ![t].nreqs = ReqsPerEvent]

\* After the event_add of conn_worker_readd: the answer is sent.
Readd(t) ==
  LET c == wk[t].conn
  IN /\ wk[t].pc = "readd"
     /\ cn' = [cn EXCEPT ![c].state = "conn_mwrite", ![c].thread = t]
     /\ Driving(t, c) /\ Still

\* event_handler; in mem/ the connection now belongs to this thread.
EventHandler(t) ==
  LET c == Current(t)
  IN /\ More(t) /\ c \in Conns
     /\ cn' = [cn EXCEPT ![c].thread = IF cfg.shared THEN t ELSE @]
     /\ Driving(t, c) /\ Still

-----------------------------------------------------------------------------
(* drive_machine *)

In(t, c, state) == wk[t].pc = "drive" /\ wk[t].conn = c /\ cn[c].state = state

\* update_event: the flags of a priority client never compare equal.
Updated(x, f) ==
  IF x.reg = f /\ ~x.pri THEN x
  ELSE [x EXCEPT !.reg = f, !.armed = TRUE, !.epoch = @ + 1]

Becomes(t, c, x) == cn' = [cn EXCEPT ![c] = x] /\ UNCHANGED wk /\ Still
Stops(t, c, x) == cn' = [cn EXCEPT ![c] = x] /\ NextHandler(t) /\ Still

\* out_string
Says(x) ==
  IF x.noreply THEN [x EXCEPT !.noreply = FALSE, !.state = "conn_new_cmd"]
  ELSE [x EXCEPT !.state = "conn_write", !.go = "conn_new_cmd"]

\* Mutation of Yield: no write event is asked for.
Yield_forgets(x) == x
\* Out of turns: a write event stands for the commands read already.
Yield(x) == IF x.rbuf # <<>> THEN Updated(x, "W") ELSE x

NewCmd(t, c) ==
  LET x == cn[c]
  IN /\ In(t, c, "conn_new_cmd")
     /\ \/ /\ wk[t].nreqs > 0
           /\ wk' = [wk EXCEPT ![t].nreqs = @ - 1]
           /\ cn' = [cn EXCEPT ![c].state = IF x.rbuf # <<>> THEN "conn_parse_cmd" ELSE "conn_waiting"]
           /\ Still
        \/ wk[t].nreqs = 0 /\ Stops(t, c, Yield(x))

\* The event is added again before the state is written.
Waiting(t, c) ==
  /\ In(t, c, "conn_waiting")
  /\ cn' = [cn EXCEPT ![c] = Updated(@, "R")]
  /\ wk' = [wk EXCEPT ![t].pc = "setread"]
  /\ Still

SetRead(t, c) ==
  /\ wk[t].pc = "setread" /\ wk[t].conn = c
  /\ Stops(t, c, [cn[c] EXCEPT !.state = "conn_read"])

\* try_read_network
ReadNetwork(t, c) ==
  LET x == cn[c]
  IN /\ In(t, c, "conn_read")
     /\ Becomes(t, c, IF x.sock # <<>> THEN [x EXCEPT !.rbuf = @ \o x.sock, !.sock = <<>>, !.state = "conn_parse_cmd"]
                      ELSE IF x.eof THEN [x EXCEPT !.state = "conn_closing"]
                      ELSE [x EXCEPT !.state = "conn_waiting"])

\* Mutation of NoMemory: the data block is left in the input.
NoMemory_unread(x) == Says(x)

\* process_update_command when item_alloc fails: the data block is swallowed.
NoMemory(x) == [Says(x) EXCEPT !.go = "conn_swallow", !.sb = 1]

\* The command whose line is first in the buffer, and whether memory is short.
Execute(x, fail, ext) ==
  LET y == [x EXCEPT !.rbuf = Tail(@), !.noreply = (Head(x.rbuf) = "setq")]
  IN CASE Head(x.rbuf) = "get" -> [y EXCEPT !.state = "conn_mwrite", !.io = IF ext THEN "want" ELSE "none"]
       [] Head(x.rbuf) \in {"set", "setq"} -> IF fail THEN NoMemory(y)
                                              ELSE [y EXCEPT !.state = "conn_nread", !.rl = 1]
       [] Head(x.rbuf) = "data" -> [Says(y) EXCEPT !.bad = TRUE]

Parse(t, c) ==
  LET x == cn[c]
  IN /\ In(t, c, "conn_parse_cmd")
     /\ \/ x.rbuf = <<>> /\ Becomes(t, c, [x EXCEPT !.state = "conn_waiting"])
        \/ /\ x.rbuf # <<>>
           /\ \E fail, ext \in BOOLEAN :
                /\ fail => "oom" \in cfg.faults
                /\ ext => "ext" \in cfg.faults
                /\ Becomes(t, c, Execute(x, fail, ext))

\* n bytes are wanted: from the buffer, or else from the socket.
Take(x, y) ==
  IF x.rbuf # <<>> THEN [y EXCEPT !.rbuf = Tail(@)] ELSE [y EXCEPT !.sock = Tail(@)]

\* The socket has nothing yet, or nothing any more.
Starved(t, c, x) ==
  /\ x.rbuf = <<>> /\ x.sock = <<>>
  /\ IF x.eof THEN Becomes(t, c, [x EXCEPT !.state = "conn_closing"])
     ELSE Stops(t, c, Updated(x, "R"))

Nread(t, c) ==
  LET x == cn[c]
  IN /\ In(t, c, "conn_nread")
     /\ \/ x.rl = 0 /\ Becomes(t, c, Says(x))
        \/ x.rl > 0 /\ (x.rbuf # <<>> \/ x.sock # <<>>) /\ Becomes(t, c, Take(x, [x EXCEPT !.rl = 0]))
        \/ x.rl > 0 /\ Starved(t, c, x)

Swallow(t, c) ==
  LET x == cn[c]
  IN /\ In(t, c, "conn_swallow")
     /\ \/ x.sb = 0 /\ Becomes(t, c, [x EXCEPT !.state = "conn_new_cmd"])
        \/ x.sb > 0 /\ (x.rbuf # <<>> \/ x.sock # <<>>) /\ Becomes(t, c, Take(x, [x EXCEPT !.sb = 0]))
        \/ x.sb > 0 /\ Starved(t, c, x)

\* transmit: a full socket buffer asks for a write event, which says it is not;
\* an error, of sendmsg or of update_event, closes the connection.
Write(t, c) ==
  LET x == cn[c]
  IN /\ wk[t].pc = "drive" /\ wk[t].conn = c /\ x.state \in {"conn_write", "conn_mwrite"}
     /\ x.io # "want"
     /\ \/ Becomes(t, c, [x EXCEPT !.io = "none",
                            !.state = IF x.state = "conn_mwrite" THEN "conn_new_cmd" ELSE x.go])
        \/ x.reg # "W" /\ Stops(t, c, Updated(x, "W"))
        \/ "send" \in cfg.faults /\ Becomes(t, c, [x EXCEPT !.io = "none", !.state = "conn_closing"])

\* The value is on flash: the connection leaves the base until it is read.
Detach(t, c) ==
  /\ In(t, c, "conn_mwrite") /\ cn[c].io = "want"
  /\ Stops(t, c, [cn[c] EXCEPT !.state = "conn_watch", !.reg = NULL, !.armed = FALSE,
                               !.epoch = @ + 1, !.io = "queued"])

\* conn_close up to close(sfd), after which the descriptor may be used again.
Close(t, c) ==
  /\ In(t, c, "conn_closing")
  /\ Stops(t, c, [cn[c] EXCEPT !.open = FALSE, !.state = "conn_closed", !.reg = NULL,
                               !.armed = FALSE, !.epoch = @ + 1, !.sock = <<>>, !.rbuf = <<>>])

Watch(t, c) == In(t, c, "conn_watch") /\ Stops(t, c, cn[c])

DriveMachine(t, c) ==
  \/ NewCmd(t, c) \/ Waiting(t, c) \/ SetRead(t, c) \/ ReadNetwork(t, c) \/ Parse(t, c)
  \/ Nread(t, c) \/ Swallow(t, c) \/ Write(t, c) \/ Detach(t, c) \/ Close(t, c) \/ Watch(t, c)

Worker(t) ==
  \/ Fetch(t) \/ Enable(t) \/ Register(t) \/ Unhang(t) \/ ReadPipe(t) \/ SetThread(t)
  \/ Readd(t) \/ EventHandler(t) \/ \E c \in Conns : DriveMachine(t, c)

Poster(p) == CqPush(p) \/ PipeWrite(p)
IoThread == \E c \in Conns : IoDone(c)
Maintenance == PauseWrite \/ PauseDone \/ Resume

Next ==
  \/ \E t \in Threads : Worker(t)
  \/ \E p \in Posters : Poster(p)
  \/ MainInit \/ IoThread \/ Maintenance \/ PauseLock
  \/ \E c \in Conns, s \in cfg.scripts, pri \in BOOLEAN : Accept(c, s, pri)
  \/ \E c \in Conns : Send(c) \/ Hangup(c)

\* Threads that can run do; clients, new connections and expansions may not come.
Fairness ==
  /\ \A t \in Threads : WF_vars(Worker(t))
  /\ \A p \in Posters : WF_vars(Poster(p))
  /\ WF_vars(MainInit) /\ WF_vars(IoThread) /\ WF_vars(Maintenance)

Spec == Init /\ [][Next]_vars /\ Fairness

-----------------------------------------------------------------------------
(* Properties *)

TypeOK ==
  /\ cfg \in Configs /\ last_thread \in Threads
  /\ \A i \in Threads : /\ \A n \in DOMAIN pipe[i] : pipe[i][n] \in {"c", "p"}
                        /\ \A n \in DOMAIN cq[i] : cq[i][n].conn \in Conns
  /\ init_count \in Nat /\ hang \in BOOLEAN
  /\ \A c \in Conns : cn[c].reg \in {NULL, "R", "W"} /\ cn[c].thread \in Threads \cup {NULL}

(* While the maintenance thread exchanges the hash tables (assoc_expand    *)
(* between PAUSE_ALL_THREADS and RESUME_ALL_THREADS) no worker is outside  *)
(* worker_hang_lock, whatever it had been doing when the pause began.      *)
PauseSafe == maint = "swap" => \A t \in Threads : wk[t].pc = "hang"

Count(q, b) == Cardinality({n \in DOMAIN q : q[n] = b})
Between(i) == Cardinality({p \in Posters : poster[p].pc = "write" /\ poster[p].tid = i})

(* Every entry of a connection queue has its byte in the notify pipe, or a *)
(* thread about to write it, although two threads post and any worker may  *)
(* read: cq_pop never returns NULL and no connection is left in a queue.   *)
QueueMatches == \A i \in Threads : Len(cq[i]) = Count(pipe[i], "c") + Between(i)

Drives(t, c) == wk[t].pc \in {"drive", "setread"} /\ wk[t].conn = c
Handles(t, c) == (wk[t].pc \in {"new", "readd"} /\ wk[t].conn = c) \/ Drives(t, c)

(* Two threads are never in drive_machine for the same connection:         *)
(* event_add says "we just need to guarantee that only one thread handles  *)
(* an event at a time".  update_event adds the event again, and the thread *)
(* that did goes on to write c->state.                                     *)
OneDriver == \A c \in Conns, t, u \in Threads : Drives(t, c) /\ Drives(u, c) => t = u

(* With an event base for each worker a connection is handled only by the  *)
(* thread its event is registered with, also when it has been to flash and *)
(* back or when its descriptor was used again for another client.          *)
DriverAlone ==
  ~cfg.shared => \A t \in Threads, c \in Conns : Handles(t, c) => cn[c].home = t

(* The data block of a set is never taken for a command, also when there   *)
(* was no memory for it or it came in pieces, across events.               *)
InSync == ~cfg.shared => \A c \in Conns : ~cn[c].bad

(* What a client has sent is read and executed, although a worker leaves a *)
(* connection after reqs_per_event commands and the commands it has read   *)
(* already make no socket readable: unless the threads are paused for ever.*)
Served ==
  ~cfg.shared /\ []<>(maint = "idle") =>
    \A c \in Conns : (cn[c].rbuf \o cn[c].sock # <<>>) ~> (cn[c].rbuf \o cn[c].sock = <<>> \/ ~cn[c].open)

(* A pause that begins when no worker is still at the lock of an earlier   *)
(* one is granted: with an event base each, every worker gets to its "p".  *)
PauseReturns ==
  ~cfg.shared =>
    ((maint = "locked" /\ \A t \in Threads : wk[t].pc # "hang") ~> (maint = "swap"))
=============================================================================

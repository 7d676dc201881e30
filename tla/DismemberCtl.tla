---------------------------- MODULE DismemberCtl ----------------------------
(***************************************************************************)
(* The control protocol of the load generator (pingpong/dismember): a      *)
(* master process sends its options to the client processes, all of them   *)
(* connect their worker threads to the server, the master starts and stops *)
(* the measurement and adds up what everybody counted.                     *)
(*                                                                         *)
(* Each process has a main thread, whose place is pc, and worker threads.  *)
(* A control connection is a pair of FIFO queues.  The main thread waits   *)
(* in one kqueue, mt_kq, for its control connections and, once the test    *)
(* runs, for a periodic timer of one second.                               *)
(***************************************************************************)
EXTENDS Integers, Sequences, FiniteSets, FiniteSetsExt

CONSTANTS
  Master,      \* the process started with -a
  Clients,     \* the processes started with -A
  Threads,     \* the worker threads of each process
  Warmup,      \* options.warmup
  Duration,    \* options.duration
  MaxTime,     \* bound on cur_time of any process
  MaxOps,      \* bound on the operations a process counts
  TimerHits,   \* TRUE: the QPS exchange can find a tick in mt_kq
  MayCrash     \* TRUE: a client can die

ASSUME CtlAssumption ==
  /\ IsFiniteSet(Clients) /\ Clients # {}
  /\ Master \notin Clients
  /\ IsFiniteSet(Threads) /\ Threads # {}
  /\ Warmup \in Nat /\ Duration \in Nat \ {0}
  /\ MaxTime \in Nat /\ MaxTime >= Warmup + Duration
  /\ MaxOps \in Nat
  /\ TimerHits \in BOOLEAN /\ MayCrash \in BOOLEAN

Procs == Clients \cup {Master}
Peers(p) == IF p = Master THEN Clients ELSE {Master}
Links == (Clients \X {Master}) \cup ({Master} \X Clients)

\* MSG_TEST_* and the two messages that are not tagged: the options and a count.
Msg == [tag : {"OPTIONS", "OK", "START", "STOP", "ACK", "QPS"}, qps : 0..MaxOps]
Plain(tag) == [tag |-> tag, qps |-> 0]

VARIABLES
  pc,        \* where the main thread of each process is
  worker,    \* where the worker threads are
  chan,      \* chan[<<p, q>>]: what p wrote and q has not read
  timer,     \* a tick waits in mt_kq
  cur_time,
  cnt,       \* the sum of the perf counters of a process
  todo,      \* clients the master's current loop has not written to yet
  acked,     \* wait_clients_ok: acked
  tot,       \* master_recv_qps: tot
  gone,      \* client_stop: the connections counted in stop_cnt
  local,     \* a process's qps when it left the main loop
  qps,       \* the master's qps
  failed     \* why a process called E(), or "none"

ctlvars == <<todo, acked, tot, gone, qps>>
loadvars == <<worker, timer, cur_time, cnt, local>>
vars == <<pc, chan, failed, ctlvars, loadvars>>

-----------------------------------------------------------------------------
(* Helpers *)

\* The control connections of p are closed: p ended, or is a client that has
\* closed master_fd.
Closed(p) == pc[p] \in {"exit", "crashed", "done"} \/ (p # Master /\ pc[p] = "join")

Write(p, q, m) == chan' = [chan EXCEPT ![<<p, q>>] = Append(@, m)]
Read(q, p) == chan' = [chan EXCEPT ![<<q, p>>] = Tail(@)]
Readable(q, p) == chan[<<q, p>>] # <<>>
Goto(p, place) == pc' = [pc EXCEPT ![p] = place]

\* E(): the process exits with its threads.
Abort(p, why) ==
  /\ Goto(p, "exit")
  /\ failed' = [failed EXCEPT ![p] = why]
  /\ worker' = [worker EXCEPT ![p] = [t \in Threads |-> "exited"]]

Spawn(p) == worker' = [worker EXCEPT ![p] = [t \in Threads |-> "connecting"]]
AllWorkers(p, place) == \A t \in Threads : worker[p][t] = place

-----------------------------------------------------------------------------
(* Worker threads *)

Connect(p, t) ==
  /\ worker[p][t] = "connecting"
  /\ worker' = [worker EXCEPT ![p][t] = "ready"]
  /\ UNCHANGED <<pc, chan, failed, ctlvars, timer, cur_time, cnt, local>>

\* A response is counted once the warm-up is over.
Count(p, t) ==
  /\ worker[p][t] = "running"
  /\ cur_time[p] >= Warmup
  /\ cnt[p] < MaxOps
  /\ cnt' = [cnt EXCEPT ![p] = @ + 1]
  /\ UNCHANGED <<pc, chan, failed, ctlvars, worker, timer, cur_time, local>>

\* The thread reads 'e' from its pipe.
Stop(p, t) ==
  /\ pc[p] = "join"
  /\ worker[p][t] = "running"
  /\ worker' = [worker EXCEPT ![p][t] = "exited"]
  /\ UNCHANGED <<pc, chan, failed, ctlvars, timer, cur_time, cnt, local>>

-----------------------------------------------------------------------------
(* Setting up: prepare_clients, wait_master_prepare, the barriers *)

\* One round of the loop of prepare_clients.
PrepareClient(c) ==
  /\ pc[Master] = "prepare"
  /\ c \in todo
  /\ Write(Master, c, Plain("OPTIONS"))
  /\ todo' = todo \ {c}
  /\ IF todo = {c}
     THEN Goto(Master, "prepare_barrier") /\ Spawn(Master)
     ELSE UNCHANGED <<pc, worker>>
  /\ UNCHANGED <<failed, acked, tot, gone, qps, timer, cur_time, cnt, local>>

WaitMasterPrepare(c) ==
  /\ pc[c] = "prepare"
  /\ Readable(Master, c)
  /\ Read(Master, c)
  /\ Goto(c, "prepare_barrier")
  /\ Spawn(c)
  /\ UNCHANGED <<failed, ctlvars, timer, cur_time, cnt, local>>

PrepareBarrier(p) ==
  /\ pc[p] = "prepare_barrier"
  /\ AllWorkers(p, "ready")
  /\ Goto(p, IF p = Master THEN "wait_ok" ELSE "send_ok")
  /\ UNCHANGED <<chan, failed, ctlvars, loadvars>>

\* send_master_ok.
SendOk(c) ==
  /\ pc[c] = "send_ok"
  /\ Write(c, Master, Plain("OK"))
  /\ Goto(c, "wait_start")
  /\ UNCHANGED <<failed, ctlvars, loadvars>>

WaitStart(c) ==
  /\ pc[c] = "wait_start"
  /\ Readable(Master, c)
  /\ Read(Master, c)
  /\ IF Head(chan[<<Master, c>>]).tag = "START"
     THEN Goto(c, "ok_barrier") /\ UNCHANGED <<failed, worker>>
     ELSE Abort(c, "start")
  /\ UNCHANGED <<ctlvars, timer, cur_time, cnt, local>>

\* Mutation of WaitOk: the loop ends one client early.
WaitOkShort(c) ==
  /\ pc[Master] = "wait_ok"
  /\ Readable(c, Master)
  /\ Read(c, Master)
  /\ acked' = acked \cup {c}
  /\ IF Cardinality(acked') + 1 >= Cardinality(Clients)
     THEN Goto(Master, "send_start") /\ todo' = Clients
     ELSE UNCHANGED <<pc, todo>>
  /\ UNCHANGED <<failed, worker, tot, gone, qps, timer, cur_time, cnt, local>>

\* One round of the loop of wait_clients_ok.
WaitOk(c) ==
  /\ pc[Master] = "wait_ok"
  /\ Readable(c, Master)
  /\ Read(c, Master)
  /\ IF Head(chan[<<c, Master>>]).tag # "OK" \/ c \in acked
     THEN Abort(Master, "ok") /\ UNCHANGED <<acked, todo>>
     ELSE /\ acked' = acked \cup {c}
          /\ IF acked' = Clients
             THEN Goto(Master, "send_start") /\ todo' = Clients
             ELSE UNCHANGED <<pc, todo>>
          /\ UNCHANGED <<failed, worker>>
  /\ UNCHANGED <<tot, gone, qps, timer, cur_time, cnt, local>>

\* START to each client, after all of them are ready.
SendStart(c) ==
  /\ pc[Master] = "send_start"
  /\ c \in todo
  /\ Write(Master, c, Plain("START"))
  /\ todo' = todo \ {c}
  /\ IF todo = {c} THEN Goto(Master, "ok_barrier") ELSE UNCHANGED pc
  /\ UNCHANGED <<failed, acked, tot, gone, qps, loadvars>>

\* The timer is added to mt_kq and ok_barrier lets the workers run.
OkBarrier(p) ==
  /\ pc[p] = "ok_barrier"
  /\ Goto(p, "run")
  /\ worker' = [worker EXCEPT ![p] = [t \in Threads |-> "running"]]
  /\ UNCHANGED <<chan, failed, ctlvars, timer, cur_time, cnt, local>>

-----------------------------------------------------------------------------
(* The main loop *)

TestOver(p) == p = Master /\ cur_time[p] >= Duration + Warmup

\* The periodic timer expires; expirations that nobody fetched are one event.
Tick(p) ==
  /\ pc[p] \in {"run", "join", "send_stop", "recv_qps", "wait_eof", "send_qps", "wait_ack"}
  /\ ~timer[p]
  /\ cur_time[p] < MaxTime
  /\ timer' = [timer EXCEPT ![p] = TRUE]
  /\ UNCHANGED <<pc, chan, failed, ctlvars, worker, cur_time, cnt, local>>

\* Mutation of LoopTick: a tick is counted twice.
LoopTickTwice(p) ==
  /\ pc[p] = "run"
  /\ ~TestOver(p)
  /\ timer[p]
  /\ timer' = [timer EXCEPT ![p] = FALSE]
  /\ cur_time' = [cur_time EXCEPT ![p] = @ + 2]
  /\ UNCHANGED <<pc, chan, failed, ctlvars, worker, cnt, local>>

\* The main loop fetches a tick; it counts one second whatever kev.data says.
LoopTick(p) ==
  /\ pc[p] = "run"
  /\ ~TestOver(p)
  /\ timer[p]
  /\ timer' = [timer EXCEPT ![p] = FALSE]
  /\ cur_time' = [cur_time EXCEPT ![p] = @ + 1]
  /\ UNCHANGED <<pc, chan, failed, ctlvars, worker, cnt, local>>

\* A control connection is readable: only STOP is expected.
LoopMessage(p, q) ==
  /\ pc[p] = "run"
  /\ ~TestOver(p)
  /\ q \in Peers(p)
  /\ Readable(q, p) /\ ~Closed(q)
  /\ Read(q, p)
  /\ IF Head(chan[<<q, p>>]).tag = "STOP"
     THEN /\ Goto(p, "send_qps")
          /\ local' = [local EXCEPT ![p] = cnt[p]]
          /\ UNCHANGED <<failed, worker>>
     ELSE Abort(p, "message") /\ UNCHANGED local
  /\ UNCHANGED <<ctlvars, timer, cur_time, cnt>>

\* EV_EOF in the main loop.
LoopEof(p, q) ==
  /\ pc[p] = "run"
  /\ ~TestOver(p)
  /\ q \in Peers(p)
  /\ Closed(q)
  /\ Abort(p, "disconnected")
  /\ UNCHANGED <<chan, ctlvars, timer, cur_time, cnt, local>>

\* The master's time is over: it adds up its counters and stops its threads.
LoopEnd ==
  /\ pc[Master] = "run"
  /\ TestOver(Master)
  /\ Goto(Master, "join")
  /\ local' = [local EXCEPT ![Master] = cnt[Master]]
  /\ qps' = cnt[Master]
  /\ UNCHANGED <<chan, failed, todo, acked, tot, gone, worker, timer, cur_time, cnt>>

\* The threads are joined.
Join(p) ==
  /\ pc[p] = "join"
  /\ AllWorkers(p, "exited")
  /\ Goto(p, IF p = Master THEN "send_stop" ELSE "done")
  /\ todo' = IF p = Master THEN Clients ELSE todo
  /\ UNCHANGED <<chan, failed, acked, tot, gone, qps, loadvars>>

-----------------------------------------------------------------------------
(* Stopping: client_send_qps, client_stop, master_recv_qps *)

\* Mutation of SendQps: the client does not wait for the ACK.
SendQpsNoWait(c) ==
  /\ pc[c] = "send_qps"
  /\ Write(c, Master, [tag |-> "QPS", qps |-> local[c]])
  /\ Goto(c, "join")
  /\ UNCHANGED <<failed, ctlvars, loadvars>>

SendQps(c) ==
  /\ pc[c] = "send_qps"
  /\ Write(c, Master, [tag |-> "QPS", qps |-> local[c]])
  /\ Goto(c, "wait_ack")
  /\ UNCHANGED <<failed, ctlvars, loadvars>>

\* The ACK is read and master_fd closed.
WaitAck(c) ==
  /\ pc[c] = "wait_ack"
  /\ Readable(Master, c)
  /\ Read(Master, c)
  /\ IF Head(chan[<<Master, c>>]).tag = "ACK"
     THEN Goto(c, "join") /\ UNCHANGED <<failed, worker>>
     ELSE Abort(c, "ack")
  /\ UNCHANGED <<ctlvars, timer, cur_time, cnt, local>>

SendStop(c) ==
  /\ pc[Master] = "send_stop"
  /\ c \in todo
  /\ Write(Master, c, Plain("STOP"))
  /\ todo' = todo \ {c}
  /\ IF todo = {c} THEN Goto(Master, "recv_qps") ELSE UNCHANGED pc
  /\ UNCHANGED <<failed, acked, tot, gone, qps, loadvars>>

\* Mutations of RecvQps: the last count is not added; no ACK is sent.
RecvQpsLast(c) ==
  /\ pc[Master] = "recv_qps"
  /\ Readable(c, Master) /\ ~Closed(c)
  /\ qps' = IF tot + 1 = Cardinality(Clients) THEN qps ELSE qps + Head(chan[<<c, Master>>]).qps
  /\ chan' = [chan EXCEPT ![<<c, Master>>] = Tail(@),
                          ![<<Master, c>>] = Append(@, Plain("ACK"))]
  /\ tot' = tot + 1
  /\ IF tot' = Cardinality(Clients) THEN Goto(Master, "wait_eof") ELSE UNCHANGED pc
  /\ UNCHANGED <<failed, todo, acked, gone, loadvars>>

RecvQpsNoAck(c) ==
  /\ pc[Master] = "recv_qps"
  /\ Readable(c, Master) /\ ~Closed(c)
  /\ qps' = qps + Head(chan[<<c, Master>>]).qps
  /\ Read(c, Master)
  /\ tot' = tot + 1
  /\ IF tot' = Cardinality(Clients) THEN Goto(Master, "wait_eof") ELSE UNCHANGED pc
  /\ UNCHANGED <<failed, todo, acked, gone, loadvars>>

\* One round of master_recv_qps.
RecvQps(c) ==
  /\ pc[Master] = "recv_qps"
  /\ Readable(c, Master) /\ ~Closed(c)
  /\ qps' = qps + Head(chan[<<c, Master>>]).qps
  /\ chan' = [chan EXCEPT ![<<c, Master>>] = Tail(@),
                          ![<<Master, c>>] = Append(@, Plain("ACK"))]
  /\ tot' = tot + 1
  /\ IF tot' = Cardinality(Clients) THEN Goto(Master, "wait_eof") ELSE UNCHANGED pc
  /\ UNCHANGED <<failed, todo, acked, gone, loadvars>>

\* EV_EOF in master_recv_qps is skipped; the event stays in the kqueue.
RecvEof(c) ==
  /\ pc[Master] = "recv_qps"
  /\ Closed(c)
  /\ UNCHANGED vars

\* The loop of client_stop counts the connections that close.
WaitEof(c) ==
  /\ pc[Master] = "wait_eof"
  /\ c \notin gone
  /\ Closed(c)
  /\ gone' = gone \cup {c}
  /\ IF gone' = Clients THEN Goto(Master, "done") ELSE UNCHANGED pc
  /\ UNCHANGED <<chan, failed, todo, acked, tot, qps, loadvars>>

\* It ignores every other event.
WaitEofTick ==
  /\ pc[Master] = "wait_eof"
  /\ timer[Master]
  /\ timer' = [timer EXCEPT ![Master] = FALSE]
  /\ UNCHANGED <<pc, chan, failed, ctlvars, worker, cur_time, cnt, local>>

\* A tick is the event that master_recv_qps or client_send_qps gets: recv on
\* TIMER_FD fails.
ExchangeTick(p) ==
  /\ TimerHits
  /\ pc[p] \in {"recv_qps", "wait_ack"}
  /\ timer[p]
  /\ Abort(p, "tick")
  /\ UNCHANGED <<chan, ctlvars, timer, cur_time, cnt, local>>

-----------------------------------------------------------------------------
(* Failures *)

Crash(c) ==
  /\ MayCrash
  /\ pc[c] \notin {"prepare", "exit", "crashed", "done"}
  /\ Goto(c, "crashed")
  /\ worker' = [worker EXCEPT ![c] = [t \in Threads |-> "exited"]]
  /\ UNCHANGED <<chan, failed, ctlvars, timer, cur_time, cnt, local>>

\* readbuf or writebuf fails because the other end is closed.
IoFails(p, q) ==
  /\ q \in Peers(p)
  /\ Closed(q)
  /\ \/ pc[p] \in {"wait_ok", "wait_start", "wait_ack"} /\ ~Readable(q, p)
     \/ pc[p] \in {"send_start", "send_stop"} /\ q \in todo
     \/ pc[p] \in {"send_ok", "send_qps"}
  /\ Abort(p, "io")
  /\ UNCHANGED <<chan, ctlvars, timer, cur_time, cnt, local>>

-----------------------------------------------------------------------------
Init ==
  /\ pc = [p \in Procs |-> "prepare"]
  /\ worker = [p \in Procs |-> [t \in Threads |-> "none"]]
  /\ chan = [l \in Links |-> <<>>]
  /\ timer = [p \in Procs |-> FALSE]
  /\ cur_time = [p \in Procs |-> 0]
  /\ cnt = [p \in Procs |-> 0]
  /\ todo = Clients
  /\ acked = {}
  /\ tot = 0
  /\ gone = {}
  /\ local = [p \in Procs |-> 0]
  /\ qps = 0
  /\ failed = [p \in Procs |-> "none"]

ClientStep(c) ==
  \/ WaitMasterPrepare(c) \/ SendOk(c) \/ WaitStart(c) \/ SendQps(c) \/ WaitAck(c)

MasterStep(c) ==
  \/ PrepareClient(c) \/ WaitOk(c) \/ SendStart(c) \/ SendStop(c)
  \/ RecvQps(c) \/ RecvEof(c) \/ WaitEof(c)

\* What a main thread does whichever process it belongs to.
MainStep(p) ==
  \/ PrepareBarrier(p) \/ OkBarrier(p) \/ LoopTick(p) \/ Join(p) \/ ExchangeTick(p)
  \/ \E q \in Peers(p) : LoopMessage(p, q) \/ LoopEof(p, q) \/ IoFails(p, q)

WorkerStep(p, t) == Connect(p, t) \/ Stop(p, t)

Next ==
  \/ \E c \in Clients : ClientStep(c) \/ MasterStep(c) \/ Crash(c)
  \/ \E p \in Procs : MainStep(p) \/ Tick(p)
  \/ \E p \in Procs, t \in Threads : WorkerStep(p, t) \/ Count(p, t)
  \/ LoopEnd \/ WaitEofTick

Spec == Init /\ [][Next]_vars

\* Threads are scheduled, connections to the server are established, the timer
\* ticks, and the kqueue returns every event that stays ready.
Fairness ==
  /\ \A c \in Clients :
       /\ WF_vars(ClientStep(c))
       /\ WF_vars(PrepareClient(c) \/ WaitOk(c) \/ SendStart(c) \/ SendStop(c))
       /\ WF_vars(RecvQps(c)) /\ WF_vars(WaitEof(c))
  /\ \A p \in Procs :
       /\ WF_vars(PrepareBarrier(p) \/ OkBarrier(p) \/ Join(p))
       /\ WF_vars(Tick(p)) /\ WF_vars(LoopTick(p))
       /\ \A q \in Peers(p) :
            WF_vars(LoopMessage(p, q)) /\ WF_vars(LoopEof(p, q)) /\ WF_vars(IoFails(p, q))
       /\ \A t \in Threads : WF_vars(WorkerStep(p, t))
  /\ WF_vars(LoopEnd)

FairSpec == Spec /\ Fairness

-----------------------------------------------------------------------------
(* Properties *)

\* The values of the main threads' locals and of what the processes share.
TypeOK ==
  /\ pc \in [Procs -> {"prepare", "prepare_barrier", "wait_ok", "send_ok", "send_start",
                       "wait_start", "ok_barrier", "run", "send_qps", "wait_ack", "join",
                       "send_stop", "recv_qps", "wait_eof", "done", "exit", "crashed"}]
  /\ worker \in [Procs -> [Threads -> {"none", "connecting", "ready", "running", "exited"}]]
  /\ chan \in [Links -> Seq(Msg)]
  /\ timer \in [Procs -> BOOLEAN]
  /\ cur_time \in [Procs -> 0..MaxTime]
  /\ cnt \in [Procs -> 0..MaxOps]
  /\ local \in [Procs -> 0..MaxOps]
  /\ todo \subseteq Clients /\ acked \subseteq Clients /\ gone \subseteq Clients
  /\ tot \in 0..Cardinality(Clients)
  /\ qps \in Nat
  /\ failed \in [Procs -> {"none", "start", "ok", "message", "disconnected", "ack", "tick", "io"}]

\* "client and master all establish connections to the server" before START: no
\* worker of any process sends load while another one is still connecting.
LoadAfterAllConnected ==
  (\E p \in Procs, t \in Threads : worker[p][t] = "running")
    => \A p \in Procs, t \in Threads : worker[p][t] \notin {"none", "connecting"}

\* A client that closed its control connection in good order has been counted:
\* the master has added its number before it sees the connection close.
CountedBeforeClose ==
  pc[Master] \in {"recv_qps", "wait_eof", "done"}
    => Cardinality({c \in Clients : pc[c] \in {"join", "done"}}) <= tot

\* The result is the sum of what every process counted up to its own STOP, each
\* client once.
AggregateIsSum ==
  pc[Master] = "done"
    => qps = local[Master] + MapThenSumSet(LAMBDA c : local[c], Clients)

\* A client died, or a process took a tick for a message.
Disturbed == (\E c \in Clients : pc[c] = "crashed") \/ (\E p \in Procs : failed[p] = "tick")

\* Unless that happened, nobody meets a message or an end of file it calls E()
\* for.
NoAbort == Disturbed \/ \A p \in Procs : failed[p] = "none"

\* "Failed to receive ack from master" and "Failed to read from master_fd or
\* message invalid" are said of connections: where no process fails before it,
\* no process calls E() for a tick of its own timer.
OnlyConnectionsFail == \A p \in Procs : failed[p] # "tick"

\* "Error waiting for clients to exit": when the master is done the clients'
\* threads have stopped sending.
ClientsStopped ==
  pc[Master] = "done" => \A c \in Clients : ~\E t \in Threads : worker[c][t] = "running"

\* Undisturbed, the protocol runs to its end in every process.
Completes == <>(Disturbed \/ \A p \in Procs : pc[p] = "done")

\* "Client or master %d disconnected" is an error: the master does not go on
\* for ever once a client has died.
CrashEnds == \A c \in Clients : pc[c] = "crashed" ~> pc[Master] \in {"done", "exit"}
=============================================================================

-------------------------- MODULE MemWorkersProof --------------------------
(* Proofs about MemWorkers for any number of workers and descriptors, any  *)
(* batch length and any configuration.                                     *)
EXTENDS MemWorkers, FiniteSetTheorems, SequenceTheorems, TLAPS

-----------------------------------------------------------------------------
(* Shapes of the workers and of the connections *)

Fields == DOMAIN NoConn
Tokens == {"get", "set", "setq", "data"}
Text == Seq(Tokens)
ConnOK(x) ==
  /\ DOMAIN x = Fields /\ x.epoch \in Nat /\ x.thread \in Threads \cup {NULL}
  /\ x.reg \in {NULL, "R", "W"} /\ x.script \in Text /\ x.sock \in Text /\ x.rbuf \in Text
EntryRec == [ev : Conns \cup Threads, epoch : Nat]
WorkerOK(w) ==
  /\ DOMAIN w = {"pc", "batch", "at", "conn", "nreqs"}
  /\ w.batch \in Seq(EntryRec) /\ w.at \in Nat /\ w.at > 0

\* The helpers of drive_machine leave alone who a connection belongs to.
Keeps(x, y) ==
  /\ ConnOK(y) /\ y.open = x.open /\ y.home = x.home /\ y.thread = x.thread
  /\ y.io = "queued" => x.io = "queued"

\* update_event.
LEMMA UpdatedKeeps ==
  ASSUME NEW x, ConnOK(x), NEW f \in {"R", "W"}
  PROVE  Keeps(x, Updated(x, f))
BY DEF Keeps, Updated, ConnOK, Fields, NoConn

\* out_string, and what follows it when memory is short.
LEMMA SaysKeeps ==
  ASSUME NEW x, ConnOK(x)
  PROVE  Keeps(x, Says(x)) /\ Keeps(x, NoMemory(x)) /\ Keeps(x, [Says(x) EXCEPT !.bad = TRUE])
<1>1. Keeps(x, Says(x))
  BY DEF Keeps, Says, ConnOK, Fields, NoConn
<1> HIDE DEF Says
<1> QED  BY <1>1 DEF Keeps, NoMemory, ConnOK, Fields, NoConn

\* A text that is not empty.
LEMMA TextTail ==
  ASSUME NEW s \in Text, s # <<>>
  PROVE  Head(s) \in Tokens /\ Tail(s) \in Text
BY DEF Text

\* The commands, and taking a token from the buffer or the socket.
LEMMA ExecuteKeeps ==
  ASSUME NEW x, ConnOK(x), x.rbuf # <<>>, NEW fail \in BOOLEAN, NEW ext \in BOOLEAN
  PROVE  Keeps(x, Execute(x, fail, ext))
<1> DEFINE y == [x EXCEPT !.rbuf = Tail(@), !.noreply = (Head(x.rbuf) = "setq")]
<1>0. Head(x.rbuf) \in Tokens /\ Tail(x.rbuf) \in Text
  BY TextTail DEF ConnOK
<1>1. Keeps(x, y)
  BY <1>0 DEF Keeps, ConnOK, Fields, NoConn
<1>2. Execute(x, fail, ext) =
        CASE Head(x.rbuf) = "get" -> [y EXCEPT !.state = "conn_mwrite", !.io = IF ext THEN "want" ELSE "none"]
          [] Head(x.rbuf) \in {"set", "setq"} -> IF fail THEN NoMemory(y)
                                                 ELSE [y EXCEPT !.state = "conn_nread", !.rl = 1]
          [] Head(x.rbuf) = "data" -> [Says(y) EXCEPT !.bad = TRUE]
  BY DEF Execute
<1> HIDE DEF y
<1>3. Keeps(y, [y EXCEPT !.state = "conn_mwrite", !.io = IF ext THEN "want" ELSE "none"])
  BY <1>1 DEF Keeps, ConnOK, Fields, NoConn
<1>4. Keeps(y, [y EXCEPT !.state = "conn_nread", !.rl = 1])
  BY <1>1 DEF Keeps, ConnOK, Fields, NoConn
<1>5. Keeps(y, NoMemory(y)) /\ Keeps(y, [Says(y) EXCEPT !.bad = TRUE])
  BY <1>1, SaysKeeps DEF Keeps
<1>6. \A z : Keeps(y, z) => Keeps(x, z)
  BY <1>1 DEF Keeps
<1>7. Keeps(y, Execute(x, fail, ext))
  BY <1>0, <1>2, <1>3, <1>4, <1>5 DEF Tokens
<1> QED  BY <1>6, <1>7

\* Taking the next token from the buffer or the socket leaves the owner alone.
LEMMA TakeKeeps ==
  ASSUME NEW x, NEW y, ConnOK(y), y.rbuf = x.rbuf, y.sock = x.sock, x.rbuf # <<>> \/ x.sock # <<>>
  PROVE  Keeps(y, Take(x, y))
<1>1. (x.rbuf # <<>> => Tail(y.rbuf) \in Text) /\ (x.sock # <<>> => Tail(y.sock) \in Text)
  BY TextTail DEF ConnOK
<1> QED  BY <1>1 DEF Take, Keeps, ConnOK, Fields, NoConn

-----------------------------------------------------------------------------
(* How the workers move *)

\* Only t moves, within the batch it has.
Moves(t) ==
  /\ DOMAIN wk' = DOMAIN wk /\ \A u \in Threads \ {t} : wk'[u] = wk[u]
  /\ WorkerOK(wk'[t]) /\ wk'[t].batch = wk[t].batch

\* Returning to the loop over the batch, and entering a handler.
LEMMA NextHandlerMoves ==
  ASSUME DOMAIN wk = Threads, NEW t \in Threads, WorkerOK(wk[t]), NextHandler(t)
  PROVE  Moves(t) /\ wk'[t].pc = "next" /\ wk'[t].at = wk[t].at + 1
BY DEF NextHandler, Moves, WorkerOK

\* Going to another state within a handler.
LEMMA GotoMoves ==
  ASSUME DOMAIN wk = Threads, NEW t \in Threads, WorkerOK(wk[t]), NEW p, NEW c, Goto(t, p, c)
  PROVE  Moves(t) /\ wk'[t].pc = p /\ wk'[t].conn = c /\ wk'[t].at = wk[t].at
BY DEF Goto, Moves, WorkerOK

\* Going on in drive_machine.
LEMMA DrivingMoves ==
  ASSUME DOMAIN wk = Threads, NEW t \in Threads, WorkerOK(wk[t]), NEW c, Driving(t, c)
  PROVE  Moves(t) /\ wk'[t].pc = "drive" /\ wk'[t].conn = c /\ wk'[t].at = wk[t].at
BY DEF Driving, Moves, WorkerOK

-----------------------------------------------------------------------------
(* What any step of drive_machine does *)

ConnsOK == DOMAIN cn = Conns /\ \A c \in Conns : ConnOK(cn[c])
WorkersOK == DOMAIN wk = Threads /\ \A t \in Threads : WorkerOK(wk[t])

\* Only c changes, into y.
Only(c, y) == DOMAIN cn' = Conns /\ cn'[c] = y /\ \A d \in Conns \ {c} : cn'[d] = cn[d]
Goes(t, c) == wk'[t].pc \in {"drive", "setread"} /\ wk'[t].conn = c /\ wk'[t].at = wk[t].at
Returns(t) == wk'[t].pc = "next" /\ wk'[t].at = wk[t].at + 1

\* The connection leaves the base, for the I/O thread or for ever.
Leaves(x, y) ==
  /\ ConnOK(y) /\ y.reg = NULL /\ y.home = x.home /\ y.thread = x.thread
  /\ (y.open = x.open /\ y.io = "queued") \/ (~y.open /\ y.io = x.io)

Driven(t, c) ==
  /\ wk[t].pc \in {"drive", "setread"} /\ wk[t].conn = c
  /\ Moves(t) /\ Still
  /\ \E y : /\ Only(c, y)
            /\ \/ Keeps(cn[c], y) /\ (Goes(t, c) \/ Returns(t))
               \/ Leaves(cn[c], y) /\ Returns(t)

\* Staying in the loop of drive_machine, and leaving it.
LEMMA BecomesDriven ==
  ASSUME ConnsOK, WorkersOK, NEW t \in Threads, NEW c \in Conns, NEW y,
         wk[t].pc = "drive", wk[t].conn = c, Keeps(cn[c], y), Becomes(t, c, y)
  PROVE  Driven(t, c)
<1>1. Only(c, y) /\ Still /\ wk' = wk
  BY DEF Becomes, Only, ConnsOK
<1>2. Moves(t) /\ Goes(t, c)
  BY <1>1 DEF Moves, Goes, WorkersOK
<1> QED  BY <1>1, <1>2 DEF Driven

\* The end of drive_machine, whatever it leaves in the connection.
LEMMA StopsDriven ==
  ASSUME ConnsOK, WorkersOK, NEW t \in Threads, NEW c \in Conns, NEW y,
         wk[t].pc \in {"drive", "setread"}, wk[t].conn = c,
         Keeps(cn[c], y) \/ Leaves(cn[c], y), Stops(t, c, y)
  PROVE  Driven(t, c)
<1>1. Only(c, y) /\ Still /\ NextHandler(t)
  BY DEF Stops, Only, ConnsOK
<1>2. Moves(t) /\ Returns(t)
  BY <1>1, NextHandlerMoves DEF WorkersOK, Returns
<1> QED  BY <1>1, <1>2 DEF Driven

\* Setting the state of a connection.
LEMMA StateKeeps ==
  ASSUME NEW x, ConnOK(x), NEW s
  PROVE  Keeps(x, [x EXCEPT !.state = s])
BY DEF Keeps, ConnOK, Fields, NoConn

\* conn_new_cmd.
LEMMA NewCmdDriven ==
  ASSUME ConnsOK, WorkersOK, NEW t \in Threads, NEW c \in Conns, NewCmd(t, c)
  PROVE  Driven(t, c)
<1> DEFINE x == cn[c]
           s == IF x.rbuf # <<>> THEN "conn_parse_cmd" ELSE "conn_waiting"
<1>1. ConnOK(x) /\ wk[t].pc = "drive" /\ wk[t].conn = c
  BY DEF ConnsOK, NewCmd, In
<1>2. CASE wk[t].nreqs = 0 /\ Stops(t, c, Yield(x))
  <2>1. Keeps(x, x)
    BY <1>1 DEF Keeps
  <2>2. Keeps(x, Yield(x))
    BY <1>1, <2>1, UpdatedKeeps DEF Yield
  <2> QED  BY <1>1, <1>2, <2>2, StopsDriven
<1>3. CASE /\ wk' = [wk EXCEPT ![t].nreqs = @ - 1]
           /\ cn' = [cn EXCEPT ![c].state = s] /\ Still
  <2>1. Only(c, [x EXCEPT !.state = s])
    BY <1>3 DEF Only, ConnsOK
  <2>2. Keeps(x, [x EXCEPT !.state = s])
    BY <1>1, StateKeeps
  <2>3. Moves(t) /\ Goes(t, c)
    BY <1>1, <1>3 DEF Moves, Goes, WorkersOK, WorkerOK
  <2> QED  BY <1>1, <1>3, <2>1, <2>2, <2>3 DEF Driven
<1> QED  BY <1>2, <1>3 DEF NewCmd

\* conn_waiting.
LEMMA WaitingDriven ==
  ASSUME ConnsOK, WorkersOK, NEW t \in Threads, NEW c \in Conns, Waiting(t, c)
  PROVE  Driven(t, c)
<1>1. ConnOK(cn[c]) /\ wk[t].pc = "drive" /\ wk[t].conn = c /\ Still
  BY DEF ConnsOK, Waiting, In
<1>2. Keeps(cn[c], Updated(cn[c], "R")) /\ Only(c, Updated(cn[c], "R"))
  BY <1>1, UpdatedKeeps DEF Waiting, Only, ConnsOK
<1>3. Moves(t) /\ Goes(t, c)
  BY <1>1 DEF Waiting, Moves, Goes, WorkersOK, WorkerOK
<1> QED  BY <1>1, <1>2, <1>3 DEF Driven

\* The socket has nothing.
LEMMA StarvedDriven ==
  ASSUME ConnsOK, WorkersOK, NEW t \in Threads, NEW c \in Conns,
         wk[t].pc = "drive", wk[t].conn = c, Starved(t, c, cn[c])
  PROVE  Driven(t, c)
<1>1. ConnOK(cn[c])
  BY DEF ConnsOK
<1>2. CASE Becomes(t, c, [cn[c] EXCEPT !.state = "conn_closing"])
  BY <1>1, <1>2, StateKeeps, BecomesDriven
<1>3. CASE Stops(t, c, Updated(cn[c], "R"))
  BY <1>1, <1>3, UpdatedKeeps, StopsDriven
<1> QED  BY <1>2, <1>3 DEF Starved

\* The states in which input is read.
LEMMA InputDriven ==
  ASSUME ConnsOK, WorkersOK, NEW t \in Threads, NEW c \in Conns,
         ReadNetwork(t, c) \/ Parse(t, c) \/ Nread(t, c) \/ Swallow(t, c)
  PROVE  Driven(t, c)
<1> DEFINE x == cn[c]
<1>1. ConnOK(x) /\ wk[t].pc = "drive" /\ wk[t].conn = c
  BY DEF ConnsOK, ReadNetwork, Parse, Nread, Swallow, In
<1>2. CASE ReadNetwork(t, c)
  <2>1. CASE x.sock # <<>>
    <3> DEFINE y == [x EXCEPT !.rbuf = @ \o x.sock, !.sock = <<>>, !.state = "conn_parse_cmd"]
    <3>1. x.rbuf \o x.sock \in Text /\ <<>> \in Text
      BY <1>1 DEF ConnOK, Text
    <3>2. Keeps(x, y)
      BY <1>1, <3>1 DEF Keeps, ConnOK, Fields, NoConn
    <3>3. Becomes(t, c, y)
      BY <1>2, <2>1 DEF ReadNetwork
    <3> QED  BY <1>1, <3>2, <3>3, BecomesDriven
  <2>2. CASE x.sock = <<>>
    <3>1. PICK s : Becomes(t, c, [x EXCEPT !.state = s])
      BY <1>2, <2>2 DEF ReadNetwork
    <3> QED  BY <1>1, <3>1, StateKeeps, BecomesDriven
  <2> QED  BY <2>1, <2>2
<1>3. CASE Parse(t, c)
  <2>1. CASE Becomes(t, c, [x EXCEPT !.state = "conn_waiting"])
    BY <1>1, <2>1, StateKeeps, BecomesDriven
  <2>2. CASE x.rbuf # <<>> /\ \E fail, ext \in BOOLEAN : Becomes(t, c, Execute(x, fail, ext))
    <3>1. PICK fail \in BOOLEAN, ext \in BOOLEAN : Becomes(t, c, Execute(x, fail, ext))
      BY <2>2
    <3>2. Keeps(x, Execute(x, fail, ext))
      BY <1>1, <2>2, ExecuteKeeps
    <3> QED  BY <1>1, <3>1, <3>2, BecomesDriven
  <2> QED  BY <1>3, <2>1, <2>2 DEF Parse
<1>4. CASE Nread(t, c)
  <2>1. CASE Becomes(t, c, Says(x))
    BY <1>1, <2>1, SaysKeeps, BecomesDriven
  <2>2. CASE (x.rbuf # <<>> \/ x.sock # <<>>) /\ Becomes(t, c, Take(x, [x EXCEPT !.rl = 0]))
    <3> DEFINE y == [x EXCEPT !.rl = 0]
    <3>1. Keeps(x, y) /\ y.rbuf = x.rbuf /\ y.sock = x.sock
      BY <1>1 DEF Keeps, ConnOK, Fields, NoConn
    <3> HIDE DEF y
    <3>2. Keeps(y, Take(x, y))
      BY <2>2, <3>1, TakeKeeps DEF Keeps
    <3>3. Keeps(x, Take(x, y))
      BY <3>1, <3>2 DEF Keeps
    <3> QED  BY <1>1, <2>2, <3>3, BecomesDriven DEF y
  <2>3. CASE Starved(t, c, x)
    BY <1>1, <2>3, StarvedDriven
  <2> QED  BY <1>4, <2>1, <2>2, <2>3 DEF Nread
<1>5. CASE Swallow(t, c)
  <2>1. CASE Becomes(t, c, [x EXCEPT !.state = "conn_new_cmd"])
    BY <1>1, <2>1, StateKeeps, BecomesDriven
  <2>2. CASE (x.rbuf # <<>> \/ x.sock # <<>>) /\ Becomes(t, c, Take(x, [x EXCEPT !.sb = 0]))
    <3> DEFINE y == [x EXCEPT !.sb = 0]
    <3>1. Keeps(x, y) /\ y.rbuf = x.rbuf /\ y.sock = x.sock
      BY <1>1 DEF Keeps, ConnOK, Fields, NoConn
    <3> HIDE DEF y
    <3>2. Keeps(y, Take(x, y))
      BY <2>2, <3>1, TakeKeeps DEF Keeps
    <3>3. Keeps(x, Take(x, y))
      BY <3>1, <3>2 DEF Keeps
    <3> QED  BY <1>1, <2>2, <3>3, BecomesDriven DEF y
  <2>3. CASE Starved(t, c, x)
    BY <1>1, <2>3, StarvedDriven
  <2> QED  BY <1>5, <2>1, <2>2, <2>3 DEF Swallow
<1> QED  BY <1>2, <1>3, <1>4, <1>5

\* The states in which an answer is sent or the connection is left.
LEMMA OutputDriven ==
  ASSUME ConnsOK, WorkersOK, NEW t \in Threads, NEW c \in Conns,
         SetRead(t, c) \/ Write(t, c) \/ Detach(t, c) \/ Close(t, c) \/ Watch(t, c)
  PROVE  Driven(t, c)
<1> DEFINE x == cn[c]
<1>1. ConnOK(x) /\ wk[t].pc \in {"drive", "setread"} /\ wk[t].conn = c
  BY DEF ConnsOK, SetRead, Write, Detach, Close, Watch, In
<1>2. CASE SetRead(t, c)
  BY <1>1, <1>2, StateKeeps, StopsDriven DEF SetRead
<1>3. CASE Write(t, c)
  <2>1. wk[t].pc = "drive"
    BY <1>3 DEF Write
  <2>2. CASE Stops(t, c, Updated(x, "W"))
    BY <1>1, <2>2, UpdatedKeeps, StopsDriven
  <2>3. ASSUME NEW s, Becomes(t, c, [x EXCEPT !.io = "none", !.state = s])
        PROVE  Driven(t, c)
    <3>1. Keeps(x, [x EXCEPT !.io = "none", !.state = s])
      BY <1>1 DEF Keeps, ConnOK, Fields, NoConn
    <3> QED  BY <1>1, <2>1, <2>3, <3>1, BecomesDriven
  <2>4. CASE Becomes(t, c, [x EXCEPT !.io = "none", !.state = "conn_closing"])
    BY <2>3, <2>4, Zenon
  <2>5. CASE Becomes(t, c, [x EXCEPT !.io = "none",
                              !.state = IF x.state = "conn_mwrite" THEN "conn_new_cmd" ELSE x.go])
    BY <2>3, <2>5, Zenon
  <2> QED  BY <1>3, <2>2, <2>4, <2>5, Zenon DEF Write
<1>4. CASE Detach(t, c)
  <2> DEFINE y == [x EXCEPT !.state = "conn_watch", !.reg = NULL, !.armed = FALSE,
                            !.epoch = @ + 1, !.io = "queued"]
  <2>1. Leaves(x, y)
    BY <1>1 DEF Leaves, ConnOK, Fields, NoConn
  <2>2. Stops(t, c, y)
    BY <1>4 DEF Detach
  <2> QED  BY <1>1, <2>1, <2>2, StopsDriven
<1>5. CASE Close(t, c)
  <2> DEFINE y == [x EXCEPT !.open = FALSE, !.state = "conn_closed", !.reg = NULL,
                            !.armed = FALSE, !.epoch = @ + 1, !.sock = <<>>, !.rbuf = <<>>]
  <2>0. <<>> \in Text
    BY DEF Text
  <2>1. Leaves(x, y)
    BY <1>1, <2>0 DEF Leaves, ConnOK, Fields, NoConn
  <2>2. Stops(t, c, y)
    BY <1>5 DEF Close
  <2> QED  BY <1>1, <2>1, <2>2, StopsDriven
<1>6. CASE Watch(t, c)
  BY <1>1, <1>6, StopsDriven DEF Watch, Keeps
<1> QED  BY <1>2, <1>3, <1>4, <1>5, <1>6

\* Any state of drive_machine.
LEMMA DriveMachineDriven ==
  ASSUME ConnsOK, WorkersOK, NEW t \in Threads, NEW c \in Conns, DriveMachine(t, c)
  PROVE  Driven(t, c)
BY NewCmdDriven, WaitingDriven, InputDriven, OutputDriven DEF DriveMachine

-----------------------------------------------------------------------------
(* The shape of the state *)

QueueRec == [conn : Conns, mode : {"new", "redispatch"}]
PosterOK(x) ==
  /\ DOMAIN x = {"pc", "conn", "mode", "tid"} /\ x.tid \in Threads \cup {NULL}
  /\ x.pc = "push" => x.conn \in Conns /\ x.mode \in {"new", "redispatch"}
PostersOK == DOMAIN poster = Posters /\ \A p \in Posters : PosterOK(poster[p])
HandlersOK == \A t \in Threads : wk[t].pc \in {"new", "readd", "drive", "setread"} => wk[t].conn \in Conns

TypeInv ==
  /\ cfg \in Configs /\ ConnsOK /\ WorkersOK /\ HandlersOK /\ PostersOK
  /\ cq \in [Threads -> Seq(QueueRec)] /\ last_thread \in Threads

\* The shapes hold initially.
LEMMA InitType == Init => TypeInv
<1> SUFFICES ASSUME Init PROVE TypeInv
  OBVIOUS
<1>1. N \in Nat /\ N > 0 /\ N - 1 \in Threads /\ 0 \in Threads
  BY MemWorkersAssumption DEF Threads
<1>2. <<>> \in Text /\ <<>> \in Seq(EntryRec) /\ <<>> \in Seq(QueueRec)
  BY DEF Text
<1>3. ConnOK(NoConn)
  BY <1>2 DEF ConnOK, NoConn, Fields
<1>4. WorkerOK(NewWorker) /\ NewWorker.pc = "start"
  BY <1>2 DEF WorkerOK, NewWorker
<1>5. ConnsOK /\ WorkersOK /\ HandlersOK
  BY <1>3, <1>4 DEF Init, ConnsOK, WorkersOK, HandlersOK
<1>6. PosterOK(Resting) /\ PosterOK([Resting EXCEPT !.pc = "init"])
  BY <1>1 DEF PosterOK, Resting
<1>7. PostersOK
  BY <1>6 DEF Init, PostersOK
<1>8. cq \in [Threads -> Seq(QueueRec)]
  BY <1>2 DEF Init
<1> QED  BY <1>1, <1>5, <1>7, <1>8 DEF Init, TypeInv

\* Posting: who gets the connection and what the poster holds.
LEMMA PostFacts ==
  ASSUME TypeInv, NEW p \in Posters, NEW c \in Conns, NEW m \in {"new", "redispatch"}, Post(p, c, m)
  PROVE  /\ PostersOK' /\ last_thread' \in Threads
         /\ \A q \in Posters \ {p} : poster'[q] = poster[q]
         /\ poster'[p].pc = "push" /\ poster'[p].conn = c /\ poster'[p].mode = m
         /\ m = "redispatch" /\ ~cfg.shared => poster'[p].tid = cn[c].thread
<1> DEFINE own == m = "redispatch" /\ ~cfg.shared
           tid == IF own THEN cn[c].thread ELSE (last_thread + 1) % N
<1>1. (last_thread + 1) % N \in Threads
  BY MemWorkersAssumption DEF TypeInv, Threads
<1>2. tid \in Threads \cup {NULL} /\ last_thread' \in Threads
  BY <1>1 DEF Post, TypeInv, ConnsOK, ConnOK
<1>3. poster' = [poster EXCEPT ![p] = [pc |-> "push", conn |-> c, mode |-> m, tid |-> tid]]
  BY DEF Post
<1>4. own => tid = cn[c].thread
  OBVIOUS
<1> HIDE DEF tid
<1> QED  BY <1>2, <1>3, <1>4 DEF TypeInv, PostersOK, PosterOK

\* The main thread going on to its next notification.
LEMMA AdvanceFacts ==
  ASSUME TypeInv, NEW p \in Posters, Advance(p)
  PROVE  /\ PostersOK'
         /\ \A q \in Posters \ {p} : poster'[q] = poster[q]
         /\ poster'[p].pc # "push"
<1>1. 0 \in Threads
  BY MemWorkersAssumption DEF Threads
<1>2. CASE poster[p].pc = "push"
  BY <1>2 DEF Advance, TypeInv, PostersOK, PosterOK
<1>3. CASE poster[p].pc # "push"
  BY <1>1, <1>3 DEF Advance, TypeInv, PostersOK, PosterOK, Resting
<1> QED  BY <1>2, <1>3

\* The steps outside the workers.
LEMMA OutsideType ==
  ASSUME TypeInv,
         \/ \E p \in Posters : Poster(p)
         \/ MainInit \/ IoThread \/ Maintenance \/ PauseLock
         \/ \E c \in Conns, s \in cfg.scripts, pri \in BOOLEAN : Accept(c, s, pri)
         \/ \E c \in Conns : Send(c) \/ Hangup(c)
  PROVE  TypeInv'
<1>1. ASSUME NEW p \in Posters, CqPush(p) PROVE TypeInv'
  <2>1. poster[p].pc = "push" /\ Advance(p) /\ UNCHANGED <<cfg, last_thread, wk, cn>>
    BY <1>1 DEF CqPush, Pushes
  <2>2. [conn |-> poster[p].conn, mode |-> poster[p].mode] \in QueueRec
    BY <2>1 DEF TypeInv, PostersOK, PosterOK, QueueRec
  <2> DEFINE e == [conn |-> poster[p].conn, mode |-> poster[p].mode]
             S == Seq(QueueRec)
  <2> HIDE DEF e
  <2>a. \A q \in S : Append(q, e) \in S
    BY <2>2 DEF e
  <2>b. cq' = [cq EXCEPT ![poster[p].tid] = Append(@, e)] /\ cq \in [Threads -> S]
    BY <1>1 DEF CqPush, TypeInv, e
  <2> HIDE DEF S
  <2>3. cq' \in [Threads -> S]
    BY <2>a, <2>b
  <2> USE DEF S
  <2> QED  BY <2>1, <2>3, AdvanceFacts DEF TypeInv, ConnsOK, WorkersOK, HandlersOK
<1>2. ASSUME NEW p \in Posters, PipeWrite(p) PROVE TypeInv'
  BY <1>2, AdvanceFacts DEF PipeWrite, TypeInv, ConnsOK, WorkersOK, HandlersOK
<1>3. CASE MainInit
  <2>1. 0 \in Threads
    BY MemWorkersAssumption DEF Threads
  <2>2. PostersOK'
    BY <1>3, <2>1 DEF MainInit, TypeInv, PostersOK, PosterOK, Resting
  <2> QED  BY <1>3, <2>2 DEF MainInit, TypeInv, ConnsOK, WorkersOK, HandlersOK
<1>4. ASSUME NEW c \in Conns, IoDone(c) PROVE TypeInv'
  <2>1. Post("io", c, "redispatch") /\ cn' = [cn EXCEPT ![c].io = "done"]
        /\ UNCHANGED <<cfg, cq, wk>>
    BY <1>4 DEF IoDone
  <2>2. ConnsOK'
    BY <2>1 DEF TypeInv, ConnsOK, ConnOK, Fields, NoConn
  <2> QED  BY <2>1, <2>2, PostFacts DEF TypeInv, WorkersOK, HandlersOK, Posters
<1>5. CASE Maintenance \/ PauseLock
  BY <1>5 DEF Maintenance, PauseLock, PauseWrite, PauseDone, Resume, TypeInv, ConnsOK, WorkersOK, HandlersOK,
     PostersOK
<1>6. ASSUME NEW c \in Conns, NEW s \in cfg.scripts, NEW pri \in BOOLEAN, Accept(c, s, pri) PROVE TypeInv'
  <2>0. cfg \in Configs
    BY DEF TypeInv
  <2>a. cfg.scripts \subseteq Text
    BY <2>0, MemWorkersAssumption DEF Text, Tokens
  <2>1. s \in Text /\ <<>> \in Text
    BY <2>a DEF Text
  <2>2. /\ cn' = [cn EXCEPT ![c].open = TRUE, ![c].script = s, ![c].sock = <<>>, ![c].eof = FALSE,
                            ![c].pri = pri]
        /\ Post("main", c, "new") /\ UNCHANGED <<cfg, cq, wk>>
    BY <1>6 DEF Accept
  <2>3. ConnsOK'
    BY <2>1, <2>2 DEF TypeInv, ConnsOK, ConnOK, Fields, NoConn
  <2> QED  BY <2>2, <2>3, PostFacts DEF TypeInv, WorkersOK, HandlersOK, Posters
<1>7. ASSUME NEW c \in Conns, Send(c) PROVE TypeInv'
  <2>1. cn[c].script \in Text /\ cn[c].sock \in Text /\ cn[c].script # <<>>
    BY <1>7 DEF Send, TypeInv, ConnsOK, ConnOK
  <2>2. Append(cn[c].sock, Head(cn[c].script)) \in Text /\ Tail(cn[c].script) \in Text
    BY <2>1, TextTail DEF Text
  <2> DEFINE a == Append(cn[c].sock, Head(cn[c].script))
             b == Tail(cn[c].script)
             x == [cn[c] EXCEPT !.sock = a, !.script = b]
  <2>a. cn' = [cn EXCEPT ![c] = x]
    BY <1>7 DEF Send, TypeInv, ConnsOK
  <2>b. ConnOK(x)
    <3> HIDE DEF a, b
    <3>1. ConnOK(cn[c]) /\ a \in Text /\ b \in Text
      BY <2>2 DEF TypeInv, ConnsOK, a, b
    <3>2. ConnOK([cn[c] EXCEPT !.sock = a])
      BY <3>1 DEF ConnOK, Fields, NoConn
    <3>3. \A y : ConnOK(y) => ConnOK([y EXCEPT !.script = b])
      BY <3>1 DEF ConnOK, Fields, NoConn
    <3>4. x = [[cn[c] EXCEPT !.sock = a] EXCEPT !.script = b]
      BY <3>1 DEF ConnOK, Fields, NoConn
    <3> QED  BY <3>2, <3>3, <3>4
  <2> HIDE DEF x
  <2>3. ConnsOK'
    BY <2>a, <2>b DEF TypeInv, ConnsOK
  <2> QED  BY <1>7, <2>3 DEF Send, TypeInv, WorkersOK, HandlersOK, PostersOK
<1>8. ASSUME NEW c \in Conns, Hangup(c) PROVE TypeInv'
  <2>1. ConnsOK'
    BY <1>8 DEF Hangup, TypeInv, ConnsOK, ConnOK, Fields, NoConn
  <2> QED  BY <1>8, <2>1 DEF Hangup, TypeInv, WorkersOK, HandlersOK, PostersOK
<1> QED  BY <1>1, <1>2, <1>3, <1>4, <1>5, <1>6, <1>7, <1>8 DEF Poster, IoThread

\* y has what x has of the things the workers share connections by.
SameOwner(x, y) == ConnOK(y) /\ y.open = x.open /\ y.io = x.io /\ y.reg = x.reg /\ y.home = x.home
SameConns ==
  DOMAIN cn' = Conns /\ \A c \in Conns : SameOwner(cn[c], cn'[c]) /\ cn'[c].thread = cn[c].thread

\* Only t changes, into w.
Becoming(t, w) == DOMAIN wk' = Threads /\ wk'[t] = w /\ \A u \in Threads \ {t} : wk'[u] = wk[u]

\* A call of kevent returns one or two different ready events.
LEMMA FetchFacts ==
  ASSUME TypeInv, NEW t \in Threads, Fetch(t)
  PROVE  /\ SameConns /\ Still
         /\ \E a, b \in Ready(t) : \E w :
              /\ Becoming(t, w) /\ WorkerOK(w) /\ w.pc = "next" /\ w.at = 1
              /\ \/ a = b /\ DOMAIN w.batch = {1} /\ w.batch[1].ev = a
                 \/ a # b /\ DOMAIN w.batch = {1, 2} /\ w.batch[1].ev = a /\ w.batch[2].ev = b
<1>1. PICK a \in Ready(t), b \in Ready(t) :
        /\ wk' = [wk EXCEPT ![t] = [NewWorker EXCEPT !.pc = "next",
                    !.batch = IF a = b THEN <<Entry(a)>> ELSE <<Entry(a), Entry(b)>>]]
        /\ cn' = [c \in Conns |-> IF c \in {a, b} THEN [cn[c] EXCEPT !.armed = FALSE] ELSE cn[c]]
  BY DEF Fetch
<1>2. SameConns /\ Still
  <2>1. Still
    BY DEF Fetch
  <2>2. \A c \in Conns : ConnOK(cn[c])
    BY DEF TypeInv, ConnsOK
  <2>3. SameConns
    BY <1>1, <2>2 DEF SameConns, SameOwner, ConnOK, Fields, NoConn
  <2> QED  BY <2>1, <2>3
<1>3. a \in Conns \cup Threads /\ b \in Conns \cup Threads
  BY DEF Ready
<1>4. \A e \in Conns \cup Threads : Entry(e) \in EntryRec /\ Entry(e).ev = e
  BY DEF Entry, EntryRec, TypeInv, ConnsOK, ConnOK
<1> DEFINE B == IF a = b THEN <<Entry(a)>> ELSE <<Entry(a), Entry(b)>>
           w == [NewWorker EXCEPT !.pc = "next", !.batch = B]
<1>5. B \in Seq(EntryRec)
  BY <1>3, <1>4
<1>6. \/ a = b /\ DOMAIN B = {1} /\ B[1].ev = a
      \/ a # b /\ DOMAIN B = {1, 2} /\ B[1].ev = a /\ B[2].ev = b
  <2>1. CASE a = b
    <3>1. B = <<Entry(a)>>
      BY <2>1
    <3>2. DOMAIN B = {1} /\ B[1] = Entry(a)
      BY <3>1
    <3> QED  BY <1>3, <1>4, <2>1, <3>2
  <2>2. CASE a # b
    <3>1. B = <<Entry(a), Entry(b)>>
      BY <2>2
    <3>2. DOMAIN B = {1, 2} /\ B[1] = Entry(a) /\ B[2] = Entry(b)
      BY <3>1
    <3> QED  BY <1>3, <1>4, <2>2, <3>2
  <2> QED  BY <2>1, <2>2
<1> HIDE DEF B
<1>7. WorkerOK(w) /\ w.pc = "next" /\ w.at = 1 /\ w.batch = B
  BY <1>5 DEF WorkerOK, NewWorker
<1>8. Becoming(t, w)
  BY <1>1 DEF TypeInv, WorkersOK, Becoming, B
<1> HIDE DEF w
<1> QED  BY <1>2, <1>6, <1>7, <1>8

\* The end of a batch arms connections again and touches nothing else of them.
LEMMA EnableFacts ==
  ASSUME TypeInv, NEW t \in Threads, Enable(t)
  PROVE  /\ SameConns /\ Still
         /\ \E w : Becoming(t, w) /\ WorkerOK(w) /\ w.pc = "loop" /\ w.batch = <<>>
<1>1. \A c \in Conns : ConnOK(cn[c])
  BY DEF TypeInv, ConnsOK
<1>2. /\ \A c \in Conns : cn'[c] \in {[cn[c] EXCEPT !.armed = TRUE], cn[c]}
      /\ DOMAIN cn' = Conns /\ Still
  BY DEF Enable
<1>3. SameConns
  BY <1>1, <1>2 DEF SameConns, SameOwner, ConnOK, Fields, NoConn
<1> DEFINE w == [NewWorker EXCEPT !.pc = "loop"]
<1>4. <<>> \in Seq(EntryRec)
  OBVIOUS
<1>5. WorkerOK(w) /\ w.pc = "loop" /\ w.batch = <<>>
  BY <1>4 DEF WorkerOK, NewWorker
<1>6. Becoming(t, w)
  BY DEF Enable, TypeInv, WorkersOK, Becoming
<1> HIDE DEF w
<1> QED  BY <1>2, <1>3, <1>5, <1>6

\* register_thread_initialized, up to the lock.
LEMMA RegisterFacts ==
  ASSUME TypeInv, NEW t \in Threads, Register(t)
  PROVE  /\ Moves(t) /\ wk'[t].pc = "hang" /\ wk'[t].at = wk[t].at
         /\ Quiet /\ UNCHANGED <<cq, cn>> /\ init_count' = init_count + 1
         /\ wk[t].pc \in {"start", "next"}
<1>1. wk' = [wk EXCEPT ![t].pc = "hang"] /\ Quiet /\ UNCHANGED <<cq, cn>> /\ init_count' = init_count + 1
      /\ wk[t].pc \in {"start", "next"}
  BY DEF Register, More
<1> QED  BY <1>1 DEF TypeInv, WorkersOK, WorkerOK, Moves

\* Past the lock a worker goes on where it was.
LEMMA UnhangFacts ==
  ASSUME TypeInv, NEW t \in Threads, Unhang(t)
  PROVE  /\ Moves(t) /\ Still /\ UNCHANGED cn /\ wk[t].pc = "hang" /\ ~hang
         /\ (wk'[t].pc = "loop" /\ wk'[t].at = wk[t].at) \/ Returns(t)
<1>1. CASE wk' = [wk EXCEPT ![t].pc = "loop"]
  BY <1>1 DEF Unhang, TypeInv, WorkersOK, WorkerOK, Moves
<1>2. CASE NextHandler(t)
  BY <1>2, NextHandlerMoves DEF Unhang, TypeInv, WorkersOK, Returns
<1> QED  BY <1>1, <1>2 DEF Unhang

\* A queue that has something: its head, and what the rest is.
LEMMA QueueTail ==
  ASSUME NEW q \in Seq(QueueRec), q # <<>>
  PROVE  /\ Len(Tail(q)) = Len(q) - 1 /\ Len(q) \in Nat
         /\ Head(q) = q[1] /\ 1 \in DOMAIN q /\ Head(q) \in QueueRec /\ Tail(q) \in Seq(QueueRec)
         /\ \A n \in DOMAIN Tail(q) : n + 1 \in DOMAIN q /\ Tail(q)[n] = q[n + 1] /\ n \in Nat \ {0}
<1>1. Len(q) \in Nat /\ Len(q) > 0 /\ DOMAIN q = 1 .. Len(q) /\ Head(q) = q[1] /\ q[1] \in QueueRec
  OBVIOUS
<1>2. Tail(q) \in Seq(QueueRec) /\ Len(Tail(q)) = Len(q) - 1
  OBVIOUS
<1>3. \A n \in 1 .. Len(Tail(q)) : Tail(q)[n] = q[n + 1]
  BY <1>1, <1>2
<1>4. DOMAIN Tail(q) = 1 .. Len(Tail(q))
  BY <1>2
<1> QED  BY <1>1, <1>2, <1>3, <1>4

\* The connection a worker takes out of queue i.
Taken(t, i, c) ==
  /\ cq[i] # <<>> /\ c = Head(cq[i]).conn /\ cq' = [cq EXCEPT ![i] = Tail(@)]
  /\ wk'[t].pc \in {"new", "readd"} /\ wk'[t].conn = c /\ wk'[t].at = wk[t].at
  /\ \E y : /\ Only(c, y) /\ ConnOK(y) /\ y.open = cn[c].open /\ y.thread = cn[c].thread
            /\ y.io \in {"none", cn[c].io}
            /\ y.home = IF Head(cq[i]).mode = "redispatch" THEN cn[c].thread ELSE t

\* thread_libevent_process takes a connection from the queue, or nothing.
LEMMA ReadPipeFacts ==
  ASSUME TypeInv, NEW t \in Threads, ReadPipe(t)
  PROVE  /\ Moves(t) /\ Quiet /\ UNCHANGED init_count /\ More(t) /\ Current(t) \in Threads
         /\ \/ UNCHANGED <<cq, cn>> /\ Returns(t)
            \/ \E c \in Conns : Taken(t, Current(t), c)
<1> DEFINE i == Current(t)
           x == Head(cq[i])
           c == x.conn
<1>1. Quiet /\ UNCHANGED init_count /\ More(t) /\ i \in Threads
      /\ cq' = [cq EXCEPT ![i] = IF @ = <<>> THEN @ ELSE Tail(@)]
      /\ IF cq[i] = <<>> THEN NextHandler(t) /\ UNCHANGED cn
         ELSE /\ cn' = [cn EXCEPT ![c] =
                  IF x.mode = "redispatch" THEN [EventAdd(c, cn[c].thread) EXCEPT !.state = "conn_new_cmd"]
                  ELSE [EventAdd(c, t) EXCEPT !.state = "conn_new_cmd", !.go = "conn_new_cmd",
                          !.rbuf = <<>>, !.rl = 0, !.sb = 0, !.noreply = FALSE, !.io = "none"]]
              /\ Goto(t, IF x.mode = "new" THEN "new" ELSE "readd", c)
  BY DEF ReadPipe
<1>2. cq \in [Threads -> Seq(QueueRec)] /\ DOMAIN wk = Threads /\ WorkerOK(wk[t])
  BY DEF TypeInv, WorkersOK
<1> HIDE DEF i
<1>3. CASE cq[i] = <<>>
  <2>1. cq' = cq /\ UNCHANGED cn /\ NextHandler(t)
    BY <1>1, <1>2, <1>3
  <2> QED  BY <1>1, <1>2, <2>1, NextHandlerMoves DEF Returns, i
<1>4. CASE cq[i] # <<>>
  <2>1. x \in QueueRec
    BY <1>1, <1>2, <1>4, QueueTail
  <2>2. c \in Conns /\ ConnOK(cn[c]) /\ DOMAIN cn = Conns
    BY <2>1 DEF QueueRec, TypeInv, ConnsOK
  <2>3. cq' = [cq EXCEPT ![i] = Tail(@)]
    BY <1>1, <1>2, <1>4
  <2>4. Goto(t, IF x.mode = "new" THEN "new" ELSE "readd", c)
    BY <1>1, <1>4
  <2>5. Moves(t) /\ wk'[t].pc \in {"new", "readd"} /\ wk'[t].conn = c /\ wk'[t].at = wk[t].at
    BY <1>2, <2>4, GotoMoves
  <2> DEFINE y == cn'[c]
  <2>6. Only(c, y)
    BY <1>1, <1>4, <2>2 DEF Only
  <2>7. /\ ConnOK(y) /\ y.open = cn[c].open /\ y.thread = cn[c].thread
        /\ y.io \in {"none", cn[c].io}
        /\ y.home = IF x.mode = "redispatch" THEN cn[c].thread ELSE t
    <3> DEFINE d == cn[c]
    <3>1. CASE x.mode = "redispatch"
      <4>1. y = [[d EXCEPT !.reg = "R", !.armed = TRUE, !.epoch = @ + 1, !.home = d.thread]
                   EXCEPT !.state = "conn_new_cmd"]
        BY <1>1, <1>4, <2>2, <3>1 DEF EventAdd
      <4>2. ConnOK(d)
        BY <2>2
      <4> HIDE DEF y, d
      <4>3. /\ ConnOK(y) /\ y.open = d.open /\ y.thread = d.thread /\ y.io = d.io /\ y.home = d.thread
        BY <4>1, <4>2 DEF ConnOK, Fields, NoConn
      <4> QED  BY <3>1, <4>3 DEF d
    <3>2. CASE x.mode # "redispatch"
      <4> DEFINE z == [d EXCEPT !.reg = "R", !.armed = TRUE, !.epoch = @ + 1, !.home = t]
                 v == [z EXCEPT !.state = "conn_new_cmd", !.go = "conn_new_cmd", !.rbuf = <<>>, !.rl = 0]
      <4>1. y = [v EXCEPT !.sb = 0, !.noreply = FALSE, !.io = "none"]
        BY <1>1, <1>4, <2>2, <3>2 DEF EventAdd
      <4>2. ConnOK(d) /\ <<>> \in Text
        BY <2>2 DEF Text
      <4> HIDE DEF y, d
      <4>a. ConnOK(z) /\ z.open = d.open /\ z.thread = d.thread /\ z.home = t
        BY <4>2 DEF ConnOK, Fields, NoConn
      <4> HIDE DEF z
      <4>b. ConnOK(v) /\ v.open = d.open /\ v.thread = d.thread /\ v.home = t
        BY <4>2, <4>a DEF ConnOK, Fields, NoConn
      <4> HIDE DEF v
      <4>3. /\ ConnOK(y) /\ y.open = d.open /\ y.thread = d.thread /\ y.io = "none" /\ y.home = t
        BY <4>1, <4>b DEF ConnOK, Fields, NoConn
      <4> QED  BY <3>2, <4>3 DEF d
    <3> QED  BY <3>1, <3>2
  <2> HIDE DEF y
  <2>8. Taken(t, i, c)
    BY <1>4, <2>3, <2>5, <2>6, <2>7 DEF Taken
  <2> QED  BY <1>1, <2>2, <2>5, <2>8 DEF i
<1> QED  BY <1>3, <1>4

\* The worker's handler changes the thread of its connection, if anything.
Claims(t, c) ==
  \E y : /\ Only(c, y) /\ SameOwner(cn[c], y) /\ y.thread \in {t, cn[c].thread}

\* What follows a connection taken from the queue: it is given to the worker.
LEMMA HandlerFacts ==
  ASSUME TypeInv, NEW t \in Threads, SetThread(t) \/ Readd(t)
  PROVE  /\ Moves(t) /\ Still /\ wk[t].pc \in {"new", "readd"} /\ wk[t].conn \in Conns
         /\ Returns(t) \/ Goes(t, wk[t].conn)
         /\ Claims(t, wk[t].conn)
<1> DEFINE c == wk[t].conn
<1>1. wk[t].pc \in {"new", "readd"} /\ c \in Conns /\ Still
  BY DEF SetThread, Readd, TypeInv, HandlersOK
<1>2. DOMAIN wk = Threads /\ WorkerOK(wk[t]) /\ ConnOK(cn[c]) /\ DOMAIN cn = Conns
  BY <1>1 DEF TypeInv, WorkersOK, ConnsOK
<1>3. CASE SetThread(t)
  <2>1. NextHandler(t) /\ cn' = [cn EXCEPT ![c] = [cn[c] EXCEPT !.thread = t]]
    BY <1>3 DEF SetThread
  <2>2. SameOwner(cn[c], [cn[c] EXCEPT !.thread = t]) /\ [cn[c] EXCEPT !.thread = t].thread = t
    BY <1>2 DEF SameOwner, ConnOK, Fields, NoConn
  <2>3. Only(c, [cn[c] EXCEPT !.thread = t])
    BY <1>1, <1>2, <2>1 DEF Only
  <2> QED  BY <1>1, <1>2, <2>1, <2>2, <2>3, NextHandlerMoves DEF Claims, Returns
<1>4. CASE Readd(t)
  <2> DEFINE y == [cn[c] EXCEPT !.state = "conn_mwrite", !.thread = t]
  <2>1. Driving(t, c) /\ cn' = [cn EXCEPT ![c] = y]
    BY <1>4 DEF Readd
  <2>2. SameOwner(cn[c], y) /\ y.thread = t
    BY <1>2 DEF SameOwner, ConnOK, Fields, NoConn
  <2>3. Only(c, y)
    BY <1>1, <1>2, <2>1 DEF Only
  <2> HIDE DEF y
  <2>4. Claims(t, c)
    BY <2>2, <2>3 DEF Claims
  <2> QED  BY <1>1, <1>2, <2>1, <2>4, DrivingMoves DEF Goes
<1> QED  BY <1>3, <1>4

\* event_handler drives the connection the event is about.
LEMMA EventHandlerFacts ==
  ASSUME TypeInv, NEW t \in Threads, EventHandler(t)
  PROVE  /\ Moves(t) /\ Still /\ More(t) /\ Current(t) \in Conns
         /\ Goes(t, Current(t)) /\ wk'[t].pc = "drive"
         /\ Claims(t, Current(t))
<1> DEFINE c == Current(t)
           y == [cn[c] EXCEPT !.thread = IF cfg.shared THEN t ELSE @]
<1>1. More(t) /\ c \in Conns /\ Still /\ Driving(t, c) /\ cn' = [cn EXCEPT ![c] = y]
  BY DEF EventHandler
<1>2. DOMAIN wk = Threads /\ WorkerOK(wk[t]) /\ ConnOK(cn[c]) /\ DOMAIN cn = Conns
  BY <1>1 DEF TypeInv, WorkersOK, ConnsOK
<1>3. SameOwner(cn[c], y) /\ y.thread \in {t, cn[c].thread}
  BY <1>2 DEF SameOwner, ConnOK, Fields, NoConn
<1>4. Only(c, y)
  BY <1>1, <1>2 DEF Only
<1> HIDE DEF y
<1> QED  BY <1>1, <1>2, <1>3, <1>4, DrivingMoves DEF Claims, Goes

\* The types follow from what a step changes.
LEMMA MovesType ==
  ASSUME TypeInv, NEW t \in Threads, Moves(t), ConnsOK', cq' \in [Threads -> Seq(QueueRec)], Quiet,
         wk'[t].pc \in {"new", "readd", "drive", "setread"} => wk'[t].conn \in Conns
  PROVE  TypeInv'
<1>1. WorkersOK' /\ HandlersOK'
  BY DEF TypeInv, Moves, WorkersOK, HandlersOK
<1> QED  BY <1>1 DEF TypeInv, Quiet, PostersOK

\* A step that replaces one connection by one of the right shape.
LEMMA OnlyType ==
  ASSUME ConnsOK, NEW c \in Conns, NEW y, Only(c, y), ConnOK(y)
  PROVE  ConnsOK'
BY DEF ConnsOK, Only

\* A worker keeps the shapes.
LEMMA WorkerType ==
  ASSUME TypeInv, NEW t \in Threads, Worker(t)
  PROVE  TypeInv'
<1>0. ConnsOK /\ WorkersOK /\ HandlersOK /\ cq \in [Threads -> Seq(QueueRec)]
  BY DEF TypeInv
<1>1. ASSUME NEW w, Becoming(t, w), WorkerOK(w), w.pc \in {"next", "loop"}, SameConns, Still
      PROVE  TypeInv'
  <2>1. WorkersOK' /\ HandlersOK'
    BY <1>0, <1>1 DEF Becoming, WorkersOK, HandlersOK
  <2>2. ConnsOK'
    BY <1>1 DEF SameConns, SameOwner, ConnsOK
  <2> QED  BY <1>1, <2>1, <2>2 DEF Still, Quiet, TypeInv, PostersOK
<1>2. CASE Fetch(t) \/ Enable(t)
  BY <1>1, <1>2, FetchFacts, EnableFacts
<1>3. CASE Register(t) \/ Unhang(t)
  <2>1. Moves(t) /\ UNCHANGED <<cn, cq>> /\ Quiet /\ wk'[t].pc \in {"hang", "loop", "next"}
    BY <1>3, RegisterFacts, UnhangFacts DEF Still, Returns
  <2>2. ConnsOK'
    BY <1>0, <2>1 DEF ConnsOK
  <2> QED  BY <1>0, <2>1, <2>2, MovesType
<1>4. CASE ReadPipe(t)
  <2>1. Moves(t) /\ Quiet /\ Current(t) \in Threads
    BY <1>4, ReadPipeFacts
  <2>2. CASE UNCHANGED <<cq, cn>> /\ Returns(t)
    <3>1. ConnsOK'
      BY <1>0, <2>2 DEF ConnsOK
    <3> QED  BY <1>0, <2>1, <2>2, <3>1, MovesType DEF Returns
  <2>3. ASSUME NEW c \in Conns, Taken(t, Current(t), c) PROVE TypeInv'
    <3>1. ConnsOK'
      BY <1>0, <2>3, OnlyType DEF Taken
    <3> DEFINE S == Seq(QueueRec)
    <3>2. Tail(cq[Current(t)]) \in S
      BY <1>0, <2>1, <2>3, QueueTail DEF Taken
    <3>3. cq \in [Threads -> S]
      BY <1>0
    <3> HIDE DEF S
    <3>4. cq' \in [Threads -> S]
      BY <2>3, <3>2, <3>3 DEF Taken
    <3>5. wk'[t].conn \in Conns
      BY <2>3 DEF Taken
    <3> QED  BY <2>1, <3>1, <3>4, <3>5, MovesType DEF S
  <2> QED  BY <1>4, <2>2, <2>3, ReadPipeFacts
<1>5. ASSUME NEW c \in Conns, Moves(t), Still, Claims(t, c), Returns(t) \/ Goes(t, c)
      PROVE  TypeInv'
  <2>1. ConnsOK'
    BY <1>0, <1>5, OnlyType DEF Claims, SameOwner
  <2> QED  BY <1>0, <1>5, <2>1, MovesType DEF Returns, Goes, Still
<1>6. CASE SetThread(t) \/ Readd(t)
  BY <1>5, <1>6, HandlerFacts
<1>7. CASE EventHandler(t)
  BY <1>5, <1>7, EventHandlerFacts
<1>8. ASSUME NEW c \in Conns, DriveMachine(t, c) PROVE TypeInv'
  <2>1. Driven(t, c)
    BY <1>0, <1>8, DriveMachineDriven
  <2>2. ConnsOK'
    BY <1>0, <2>1, OnlyType DEF Driven, Keeps, Leaves
  <2>3. Moves(t) /\ Quiet /\ cq' = cq /\ (Goes(t, c) \/ Returns(t))
    BY <2>1 DEF Driven, Still
  <2> QED  BY <1>0, <2>2, <2>3, MovesType DEF Goes, Returns
<1> QED  BY <1>2, <1>3, <1>4, <1>6, <1>7, <1>8 DEF Worker

\* Every step keeps the shapes.
LEMMA NextType == TypeInv /\ [Next]_vars => TypeInv'
<1>1. ASSUME TypeInv, Next PROVE TypeInv'
  BY <1>1, WorkerType, OutsideType DEF Next
<1>2. ASSUME TypeInv, UNCHANGED vars PROVE TypeInv'
  BY <1>2 DEF vars, TypeInv, ConnsOK, WorkersOK, HandlersOK, PostersOK
<1> QED  BY <1>1, <1>2

-----------------------------------------------------------------------------
(* Pausing the workers *)

Hanging == {t \in Threads : wk[t].pc = "hang"}

\* The maintenance thread holds worker_hang_lock, and a worker that has counted itself
\* since the count was reset has not got past that lock.
PauseInv ==
  /\ init_count \in Nat /\ hang \in BOOLEAN
  /\ maint # "idle" => hang
  /\ maint \in {"wait", "swap"} => init_count <= Cardinality(Hanging)
  /\ maint = "swap" => init_count >= N

\* There are N workers.
LEMMA ThreadsFinite == IsFiniteSet(Threads) /\ Cardinality(Threads) = N
BY FS_Interval, MemWorkersAssumption DEF Threads

\* The workers at the lock can be counted.
LEMMA HangingFinite == IsFiniteSet(Hanging) /\ Cardinality(Hanging) \in Nat
BY ThreadsFinite, FS_Subset, FS_CardinalityType DEF Hanging

\* While the lock is held a worker step leaves those at the lock where they are.
LEMMA HangingKept ==
  ASSUME TypeInv, NEW t \in Threads, Worker(t), hang = TRUE
  PROVE  /\ \A u \in Threads \ {t} : wk'[u] = wk[u]
         /\ wk[t].pc # "hang" /\ Quiet
         /\ init_count' = init_count \/ (init_count' = init_count + 1 /\ wk'[t].pc = "hang")
<1>0. ConnsOK /\ WorkersOK
  BY DEF TypeInv
<1>1. CASE Fetch(t)
  BY <1>1, FetchFacts DEF Fetch, Still, Becoming
<1>2. CASE Enable(t)
  BY <1>2, EnableFacts DEF Enable, Still, Becoming
<1>3. CASE Register(t)
  BY <1>3, RegisterFacts DEF Moves
<1>4. CASE Unhang(t)
  BY <1>4, UnhangFacts
<1>5. CASE ReadPipe(t)
  BY <1>5, ReadPipeFacts DEF Moves, More
<1>6. CASE SetThread(t) \/ Readd(t)
  BY <1>6, HandlerFacts DEF Moves, Still
<1>7. CASE EventHandler(t)
  BY <1>7, EventHandlerFacts DEF Moves, Still, More
<1>8. ASSUME NEW c \in Conns, DriveMachine(t, c)
      PROVE  /\ \A u \in Threads \ {t} : wk'[u] = wk[u]
             /\ wk[t].pc # "hang" /\ Quiet /\ init_count' = init_count
  BY <1>0, <1>8, DriveMachineDriven DEF Driven, Moves, Still
<1> QED  BY <1>1, <1>2, <1>3, <1>4, <1>5, <1>6, <1>7, <1>8 DEF Worker

\* init_count, whatever a worker does.
LEMMA CountStep ==
  ASSUME TypeInv, NEW t \in Threads, Worker(t)
  PROVE  init_count' \in {init_count, init_count + 1} /\ Quiet
<1>0. ConnsOK /\ WorkersOK
  BY DEF TypeInv
<1>1. CASE Fetch(t) \/ Enable(t) \/ Unhang(t) \/ SetThread(t) \/ Readd(t) \/ EventHandler(t)
  BY <1>1, FetchFacts, EnableFacts, UnhangFacts, HandlerFacts, EventHandlerFacts DEF Still
<1>2. CASE Register(t) \/ ReadPipe(t)
  BY <1>2, RegisterFacts, ReadPipeFacts
<1>3. ASSUME NEW c \in Conns, DriveMachine(t, c) PROVE init_count' = init_count /\ Quiet
  BY <1>0, <1>3, DriveMachineDriven DEF Driven, Still
<1> QED  BY <1>1, <1>2, <1>3 DEF Worker

\* No pause is on initially.
LEMMA InitPause == Init => PauseInv
<1> SUFFICES ASSUME Init PROVE PauseInv
  OBVIOUS
<1>1. init_count = 0 /\ hang \in BOOLEAN
  BY DEF Init
<1>2. maint = "idle"
  BY DEF Init
<1> QED  BY <1>1, <1>2 DEF PauseInv

\* Every step keeps what is known about a pause.
LEMMA PauseStep == TypeInv /\ PauseInv /\ [Next]_vars => PauseInv'
<1> SUFFICES ASSUME TypeInv, PauseInv, [Next]_vars PROVE PauseInv'
  OBVIOUS
<1> USE DEF PauseInv
<1>1. ASSUME NEW t \in Threads, Worker(t) PROVE PauseInv'
  <2>1. init_count' \in {init_count, init_count + 1} /\ hang' = hang /\ maint' = maint
    BY <1>1, CountStep DEF Quiet
  <2>2. CASE maint \notin {"wait", "swap"}
    BY <2>1, <2>2
  <2>3. CASE maint \in {"wait", "swap"}
    <3>1. hang = TRUE
      BY <2>3
    <3>2. /\ \A u \in Threads \ {t} : wk'[u] = wk[u]
          /\ wk[t].pc # "hang"
          /\ init_count' = init_count \/ (init_count' = init_count + 1 /\ wk'[t].pc = "hang")
      BY <1>1, <3>1, HangingKept
    <3>3. CASE wk'[t].pc = "hang"
      <4>1. Hanging' = Hanging \cup {t} /\ t \notin Hanging
        BY <3>2, <3>3 DEF Hanging
      <4>2. Cardinality(Hanging') = Cardinality(Hanging) + 1
        BY <4>1, HangingFinite, FS_AddElement
      <4> DEFINE k == Cardinality(Hanging)
      <4>3. k \in Nat /\ init_count \in Nat /\ init_count <= k /\ (maint = "swap" => init_count >= N) /\ N \in Nat
        BY <2>3, HangingFinite, MemWorkersAssumption
      <4>4. init_count' <= k + 1 /\ init_count' >= init_count /\ init_count' \in Nat
        BY <2>1, <4>3
      <4> QED  BY <2>1, <2>3, <4>2, <4>3, <4>4
    <3>4. CASE wk'[t].pc # "hang"
      <4>1. Hanging' = Hanging
        BY <3>2, <3>4 DEF Hanging
      <4> QED  BY <2>1, <2>3, <3>2, <3>4, <4>1, HangingFinite
    <3> QED  BY <3>3, <3>4
  <2> QED  BY <2>2, <2>3
<1>2. CASE PauseLock
  BY <1>2 DEF PauseLock
<1>3. CASE PauseWrite
  <2>1. init_count' = 0 /\ maint' = "wait" /\ hang' = hang /\ maint = "locked" /\ wk' = wk
    BY <1>3 DEF PauseWrite, ResetCount
  <2>2. Hanging' = Hanging
    BY <2>1 DEF Hanging
  <2> QED  BY <2>1, <2>2, HangingFinite
<1>4. CASE PauseDone
  BY <1>4 DEF PauseDone, Hanging
<1>5. CASE Resume
  BY <1>5 DEF Resume
<1>6. CASE UNCHANGED <<wk, init_count, hang, maint>>
  BY <1>6 DEF Hanging
<1>7. \/ \E t \in Threads : Worker(t)
      \/ PauseLock \/ PauseWrite \/ PauseDone \/ Resume
      \/ UNCHANGED <<wk, init_count, hang, maint>>
  <2>1. (\E p \in Posters : Poster(p)) => UNCHANGED <<wk, init_count, hang, maint>>
    BY DEF Poster, CqPush, PipeWrite
  <2>2. MainInit \/ IoThread \/ UNCHANGED vars => UNCHANGED <<wk, init_count, hang, maint>>
    BY DEF MainInit, IoThread, IoDone, vars
  <2>3. ASSUME NEW c \in Conns, NEW s \in cfg.scripts, NEW pri \in BOOLEAN, Accept(c, s, pri)
        PROVE  UNCHANGED <<wk, init_count, hang, maint>>
    BY <2>3 DEF Accept
  <2>4. ASSUME NEW c \in Conns, Send(c) \/ Hangup(c)
        PROVE  UNCHANGED <<wk, init_count, hang, maint>>
    BY <2>4 DEF Send, Hangup
  <2> QED  BY <2>1, <2>2, <2>3, <2>4 DEF Next, Maintenance
<1> QED  BY <1>1, <1>2, <1>3, <1>4, <1>5, <1>6, <1>7

(* While the maintenance thread exchanges the hash tables every worker is  *)
(* at worker_hang_lock, in both versions, for any number of workers and    *)
(* whatever the workers were doing when pause_threads wrote their pipes.   *)
THEOREM PauseIsSafe == Spec => []PauseSafe
<1>2. TypeInv /\ PauseInv => PauseSafe
  <2> SUFFICES ASSUME PauseInv, maint = "swap", NEW t \in Threads PROVE wk[t].pc = "hang"
    BY DEF PauseSafe
  <2>1. init_count >= N /\ init_count <= Cardinality(Hanging) /\ init_count \in Nat
    BY DEF PauseInv
  <2>2. Cardinality(Hanging) >= Cardinality(Threads)
    BY <2>1, ThreadsFinite, HangingFinite, MemWorkersAssumption
  <2>3. Hanging \subseteq Threads
    BY DEF Hanging
  <2>4. Cardinality(Hanging) <= Cardinality(Threads)
    BY <2>3, ThreadsFinite, FS_Subset
  <2>5. Cardinality(Hanging) = Cardinality(Threads)
    BY <2>2, <2>4, HangingFinite, ThreadsFinite, MemWorkersAssumption
  <2>6. Hanging = Threads
    BY <2>3, <2>5, ThreadsFinite, FS_Subset
  <2> QED  BY <2>6 DEF Hanging
<1> QED  BY <1>2, InitPause, InitType, NextType, PauseStep, PTL DEF Spec

-----------------------------------------------------------------------------
(* Who has a connection, when every worker has an event base of its own *)

\* A thread is about to push c to a queue, or c is in one.
InQueue(c) == \E i \in Threads : \E n \in DOMAIN cq[i] : cq[i][n].conn = c
InHand(c) == \E p \in Posters : poster[p].pc = "push" /\ poster[p].conn = c
Posted(c) == InQueue(c) \/ InHand(c)

\* No worker has c: it is closed, on its way to a worker, or with the I/O threads.
Away(c) == ~cn[c].open \/ Posted(c) \/ cn[c].io = "queued"

\* The batch of t has an event of e that t has yet to handle.
Waits(t, e) ==
  \E n \in DOMAIN wk[t].batch :
    wk[t].batch[n].ev = e /\ (n > wk[t].at \/ (n = wk[t].at /\ wk[t].pc = "next"))
Busy(t, c) == Handles(t, c) \/ Waits(t, c)

Held == \A t \in Threads, c \in Conns : Busy(t, c) => cn[c].home = t /\ ~Away(c)
Sole == \A t \in Threads, c \in Conns : ~(Handles(t, c) /\ Waits(t, c))
BatchOK(w, t) ==
  \A n \in DOMAIN w.batch :
    /\ w.batch[n].ev \in Threads => w.batch[n].ev = t
    /\ \A m \in DOMAIN w.batch : w.batch[n].ev = w.batch[m].ev => n = m
Batches == \A t \in Threads : BatchOK(wk[t], t)
Off == \A c \in Conns : Away(c) => cn[c].reg = NULL
Apart ==
  \A c \in Conns : /\ Posted(c) => cn[c].open /\ cn[c].io # "queued"
                   /\ cn[c].io = "queued" => cn[c].open
OnceQueued ==
  \A i, j \in Threads : \A n \in DOMAIN cq[i], m \in DOMAIN cq[j] :
    cq[i][n].conn = cq[j][m].conn => i = j /\ n = m
OncePushed ==
  \A p \in Posters : poster[p].pc = "push" =>
    /\ ~InQueue(poster[p].conn)
    /\ \A q \in Posters : poster[q].pc = "push" /\ poster[q].conn = poster[p].conn => p = q
Back ==
  /\ \A i \in Threads : \A n \in DOMAIN cq[i] :
       cq[i][n].mode = "redispatch" => cn[cq[i][n].conn].thread = i
  /\ \A p \in Posters : poster[p].pc = "push" /\ poster[p].mode = "redispatch" =>
       cn[poster[p].conn].thread = poster[p].tid

Owned == Held /\ Sole /\ Batches /\ Off /\ Apart /\ OnceQueued /\ OncePushed /\ Back

\* What became of connection c in a step of worker t that touched no queue.
Untouched(c) == UNCHANGED <<cn[c].open, cn[c].io, cn[c].reg, cn[c].thread>>
Touched(t, c) == Busy(t, c) /\ cn'[c].open = cn[c].open /\ (cn'[c].io = "queued" => cn[c].io = "queued")
Left(t, c) ==
  /\ Busy(t, c) /\ ~Busy(t, c)' /\ cn'[c].reg = NULL
  /\ (cn'[c].open = cn[c].open /\ cn'[c].io = "queued") \/ (~cn'[c].open /\ cn'[c].io = cn[c].io)

\* A worker that only drives, leaves or receives connections of its own keeps
\* the ownership of all.
LEMMA WorkerOwned ==
  ASSUME TypeInv, Owned, NEW t \in Threads, UNCHANGED <<cq, poster>>,
         \A u \in Threads \ {t} : wk'[u] = wk[u], BatchOK(wk'[t], t),
         \A c \in Conns :
           /\ cn'[c].home = cn[c].home
           /\ Untouched(c) \/ Touched(t, c) \/ Left(t, c)
           /\ Busy(t, c)' => Busy(t, c) \/ (cn[c].reg # NULL /\ cn[c].home = t)
           /\ ~(Handles(t, c)' /\ Waits(t, c)')
  PROVE  Owned'
<1> USE DEF Owned
<1>1. \A c \in Conns : Posted(c)' <=> Posted(c)
  BY DEF Posted, InQueue, InHand
<1>2. \A u \in Threads \ {t}, c \in Conns : (Busy(u, c)' <=> Busy(u, c)) /\ (Handles(u, c)' <=> Handles(u, c))
                                           /\ (Waits(u, c)' <=> Waits(u, c))
  BY DEF Busy, Handles, Drives, Waits
<1>3. \A c \in Conns : Busy(t, c) => cn[c].home = t /\ ~Away(c)
  BY DEF Held
<1>4. Held'
  <2> SUFFICES ASSUME NEW u \in Threads, NEW c \in Conns, Busy(u, c)' PROVE cn'[c].home = u /\ ~Away(c)'
    BY DEF Held
  <2>1. CASE u = t
    <3>1. cn[c].home = t /\ ~Away(c)
      BY <1>3, <2>1 DEF Off
    <3>2. Untouched(c) \/ Touched(t, c)
      BY <2>1 DEF Left
    <3> QED  BY <1>1, <2>1, <3>1, <3>2 DEF Away, Untouched, Touched
  <2>2. CASE u # t
    <3>1. cn[c].home = u /\ ~Away(c)
      BY <1>2, <2>2 DEF Held
    <3>2. Untouched(c)
      BY <1>3, <2>2, <3>1 DEF Touched, Left
    <3> QED  BY <1>1, <3>1, <3>2 DEF Away, Untouched
  <2> QED  BY <2>1, <2>2
<1>5. Sole'
  BY <1>2 DEF Sole
<1>6. Batches'
  BY DEF Batches, BatchOK
<1>7. Off'
  <2> SUFFICES ASSUME NEW c \in Conns, Away(c)' PROVE cn'[c].reg = NULL
    BY DEF Off
  <2>1. CASE Untouched(c)
    BY <1>1, <2>1 DEF Untouched, Away, Off
  <2>2. CASE Touched(t, c)
    BY <1>1, <1>3, <2>2 DEF Touched, Away
  <2>3. CASE Left(t, c)
    BY <2>3 DEF Left
  <2> QED  BY <2>1, <2>2, <2>3
<1>8. Apart'
  BY <1>1, <1>3 DEF Apart, Untouched, Touched, Left, Away
<1>9. OnceQueued' /\ OncePushed'
  BY DEF OnceQueued, OncePushed, InQueue
<1>10. \A c \in Conns : Posted(c) => cn'[c].thread = cn[c].thread
  BY <1>3 DEF Away, Untouched, Touched, Left
<1>11. Back'
  <2>1. ASSUME NEW i \in Threads, NEW n \in DOMAIN cq[i], cq[i][n].mode = "redispatch"
        PROVE  cn'[cq[i][n].conn].thread = i
    <3>0. cq[i] \in Seq(QueueRec)
      BY DEF TypeInv
    <3>a. cq[i][n] \in QueueRec
      BY <3>0
    <3>1. cq[i][n].conn \in Conns /\ Posted(cq[i][n].conn)
      BY <3>a DEF QueueRec, Posted, InQueue
    <3> QED  BY <1>10, <2>1, <3>1 DEF Back
  <2>2. ASSUME NEW p \in Posters, poster[p].pc = "push", poster[p].mode = "redispatch"
        PROVE  cn'[poster[p].conn].thread = poster[p].tid
    <3>1. poster[p].conn \in Conns /\ Posted(poster[p].conn)
      BY <2>2 DEF TypeInv, PostersOK, PosterOK, Posted, InHand
    <3> QED  BY <1>10, <2>2, <3>1 DEF Back
  <2> QED  BY <2>1, <2>2 DEF Back
<1> QED  BY <1>4, <1>5, <1>6, <1>7, <1>8, <1>9, <1>11

\* t leaves the event it is at behind.
Passed(t) == Moves(t) /\ (Returns(t) \/ (wk'[t].at = wk[t].at /\ wk'[t].pc # "next"))
Later(t, e) == \E n \in DOMAIN wk[t].batch : n > wk[t].at /\ wk[t].batch[n].ev = e

\* After a step of a handler no new event waits in the batch.
LEMMA PassedWaits ==
  ASSUME TypeInv, NEW t \in Threads, Passed(t)
  PROVE  /\ \A e : Waits(t, e)' => Later(t, e)
         /\ \A e : Later(t, e) => Waits(t, e)
         /\ wk'[t].batch = wk[t].batch /\ \A u \in Threads \ {t} : wk'[u] = wk[u]
<1>1. wk[t].batch \in Seq(EntryRec) /\ wk[t].at \in Nat
  BY DEF TypeInv, WorkersOK, WorkerOK
<1>2. \A n \in DOMAIN wk[t].batch : n \in Nat
  BY <1>1
<1>3. /\ wk'[t].batch = wk[t].batch
      /\ \/ wk'[t].pc = "next" /\ wk'[t].at = wk[t].at + 1
         \/ wk'[t].at = wk[t].at /\ wk'[t].pc # "next"
  BY DEF Passed, Moves, Returns
<1>4. \A e : Waits(t, e)' => Later(t, e)
  <2> SUFFICES ASSUME NEW e, NEW n \in DOMAIN wk[t].batch, wk[t].batch[n].ev = e,
                      n > wk'[t].at \/ (n = wk'[t].at /\ wk'[t].pc = "next")
               PROVE  Later(t, e)
    BY <1>3 DEF Waits
  <2>1. n > wk[t].at
    BY <1>1, <1>2, <1>3
  <2> QED  BY <2>1 DEF Later
<1>5. \A e : Later(t, e) => Waits(t, e)
  BY DEF Later, Waits
<1> QED  BY <1>3, <1>4, <1>5 DEF Passed, Moves

\* The same, with the batch still in order.
LEMMA PassedFacts ==
  ASSUME TypeInv, Owned, NEW t \in Threads, Passed(t)
  PROVE  /\ \A e : Waits(t, e)' => Later(t, e)
         /\ \A e : Later(t, e) => Waits(t, e)
         /\ BatchOK(wk'[t], t) /\ \A u \in Threads \ {t} : wk'[u] = wk[u]
<1>1. BatchOK(wk'[t], t)
  BY PassedWaits DEF Owned, Batches, BatchOK
<1> QED  BY <1>1, PassedWaits

\* A worker goes on with a connection it has, or leaves it.
LEMMA DrivenOwned ==
  ASSUME TypeInv, Owned, NEW t \in Threads, NEW c \in Conns, Driven(t, c)
  PROVE  Owned'
<1>1. wk[t].pc \in {"drive", "setread"} /\ wk[t].conn = c /\ Moves(t) /\ (Goes(t, c) \/ Returns(t))
      /\ UNCHANGED <<cq, poster>>
  BY DEF Driven, Still, Quiet
<1>2. Passed(t)
  BY <1>1 DEF Passed, Goes
<1>3. Handles(t, c) /\ Busy(t, c) /\ \A d \in Conns : Handles(t, d)' => d = c
  BY <1>1 DEF Handles, Drives, Busy, Goes, Returns
<1>4. ~Later(t, c) /\ \A d \in Conns : Busy(t, d)' => Busy(t, d)
  BY <1>2, <1>3, PassedFacts DEF Busy, Owned, Sole
<1>5. \A d \in Conns : ~(Handles(t, d)' /\ Waits(t, d)')
  BY <1>2, <1>3, <1>4, PassedFacts
<1>6. PICK y : /\ Only(c, y)
               /\ \/ Keeps(cn[c], y)
                  \/ Leaves(cn[c], y) /\ Returns(t)
  BY DEF Driven
<1>7. \A d \in Conns \ {c} : cn'[d] = cn[d] 
  BY <1>6 DEF Only
<1>8. cn'[c].home = cn[c].home /\ (Touched(t, c) \/ Left(t, c))
  <2>1. CASE Keeps(cn[c], y)
    BY <1>3, <1>6, <2>1 DEF Only, Keeps, Touched
  <2>2. CASE Leaves(cn[c], y) /\ Returns(t)
    <3>1. ~Busy(t, c)'
      BY <1>2, <1>4, <2>2, PassedFacts DEF Busy, Handles, Drives, Returns
    <3> QED  BY <1>3, <1>6, <2>2, <3>1 DEF Only, Leaves, Left
  <2> QED  BY <1>6, <2>1, <2>2
<1>9. \A d \in Conns : cn'[d].home = cn[d].home /\ (Untouched(d) \/ Touched(t, d) \/ Left(t, d))
  BY <1>7, <1>8 DEF Untouched
<1> QED  BY <1>1, <1>2, <1>4, <1>5, <1>9, PassedFacts, WorkerOwned

\* The handlers that only say whose the connection is.
LEMMA ClaimsOwned ==
  ASSUME TypeInv, Owned, NEW t \in Threads, SetThread(t) \/ Readd(t) \/ EventHandler(t)
  PROVE  Owned'
<1>1. PICK c \in Conns : /\ Claims(t, c) /\ Moves(t) /\ UNCHANGED <<cq, poster>>
                         /\ Returns(t) \/ Goes(t, c)
                         /\ Busy(t, c) /\ ~Later(t, c)
  <2>1. CASE SetThread(t) \/ Readd(t)
    <3> DEFINE c == wk[t].conn
    <3>1. Claims(t, c) /\ Moves(t) /\ Still /\ (Returns(t) \/ Goes(t, c)) /\ c \in Conns
          /\ wk[t].pc \in {"new", "readd"}
      BY <2>1, HandlerFacts
    <3>2. Handles(t, c)
      BY <3>1 DEF Handles
    <3>3. ~Waits(t, c)
      BY <3>1, <3>2 DEF Owned, Sole
    <3>4. ~Later(t, c)
      BY <3>3 DEF Later, Waits
    <3> QED  BY <3>1, <3>2, <3>4 DEF Still, Quiet, Busy
  <2>2. CASE EventHandler(t)
    <3> DEFINE c == Current(t)
    <3>1. Claims(t, c) /\ Moves(t) /\ Still /\ Goes(t, c) /\ c \in Conns /\ More(t)
      BY <2>2, EventHandlerFacts
    <3>2. /\ wk[t].batch \in Seq(EntryRec) /\ wk[t].at \in Nat /\ wk[t].at > 0
          /\ wk[t].pc = "next" /\ wk[t].at <= Len(wk[t].batch)
      BY <3>1 DEF TypeInv, WorkersOK, WorkerOK, More
    <3>3. BatchOK(wk[t], t)
      BY DEF Owned, Batches
    <3>4. wk[t].at \in DOMAIN wk[t].batch
      BY <3>2
    <3>5. Waits(t, c)
      BY <3>2, <3>4 DEF Waits, Current
    <3>6. ~Later(t, c)
      BY <3>2, <3>3, <3>4 DEF Later, Current, BatchOK
    <3> QED  BY <3>1, <3>5, <3>6 DEF Still, Quiet, Busy
  <2> QED  BY <2>1, <2>2
<1>2. Passed(t)
  BY <1>1 DEF Passed, Goes
<1>3. \A d \in Conns : Handles(t, d)' => d = c
  BY <1>1 DEF Handles, Drives, Goes, Returns
<1>4. \A d \in Conns : Busy(t, d)' => Busy(t, d)
  BY <1>1, <1>2, <1>3, PassedFacts DEF Busy
<1>5. \A d \in Conns : ~(Handles(t, d)' /\ Waits(t, d)')
  BY <1>1, <1>2, <1>3, PassedFacts
<1>6. \A d \in Conns : cn'[d].home = cn[d].home /\ (Untouched(d) \/ Touched(t, d) \/ Left(t, d))
  BY <1>1 DEF Claims, Only, SameOwner, Untouched, Touched
<1> QED  BY <1>1, <1>2, <1>4, <1>5, <1>6, PassedFacts, WorkerOwned

\* kevent, the end of a batch, the pause, and a byte without an entry.
LEMMA LoopOwned ==
  ASSUME TypeInv, Owned, ~cfg.shared, NEW t \in Threads,
         \/ Fetch(t) \/ Enable(t) \/ Register(t) \/ Unhang(t)
         \/ ReadPipe(t) /\ UNCHANGED <<cq, cn>>
  PROVE  Owned'
<1>1. CASE Fetch(t)
  <2>1. SameConns /\ UNCHANGED <<cq, poster>>
    BY <1>1, FetchFacts DEF Still, Quiet
  <2>2. PICK a \in Ready(t), b \in Ready(t) : \E w :
          /\ Becoming(t, w) /\ WorkerOK(w) /\ w.pc = "next" /\ w.at = 1
          /\ \/ a = b /\ DOMAIN w.batch = {1} /\ w.batch[1].ev = a
             \/ a # b /\ DOMAIN w.batch = {1, 2} /\ w.batch[1].ev = a /\ w.batch[2].ev = b
    BY <1>1, FetchFacts
  <2>a. PICK w :
          /\ Becoming(t, w) /\ w.pc = "next" /\ w.at = 1
          /\ \/ a = b /\ DOMAIN w.batch = {1} /\ w.batch[1].ev = a
             \/ a # b /\ DOMAIN w.batch = {1, 2} /\ w.batch[1].ev = a /\ w.batch[2].ev = b
    BY <2>2
  <2>3. \A e \in Ready(t) : /\ e \in Threads => e = t
                            /\ e \in Conns => cn[e].home = t /\ cn[e].reg # NULL
    <3>1. Conns \cap Threads = {}
      BY MemWorkersAssumption
    <3> QED  BY <3>1 DEF Ready
  <2>4. BatchOK(wk'[t], t)
    BY <2>a, <2>3 DEF Becoming, BatchOK
  <2>5. \A d \in Conns : ~Handles(t, d)' /\ (Waits(t, d)' => d \in {a, b})
    BY <2>a DEF Becoming, Handles, Drives, Waits
  <2>6. \A d \in Conns : cn'[d].home = cn[d].home /\ Untouched(d)
    BY <2>1 DEF SameConns, SameOwner, Untouched
  <2>7. \A d \in Conns : /\ Busy(t, d)' => cn[d].reg # NULL /\ cn[d].home = t
                         /\ ~(Handles(t, d)' /\ Waits(t, d)')
    BY <2>3, <2>5 DEF Busy
  <2> QED  BY <2>1, <2>a, <2>4, <2>6, <2>7, WorkerOwned DEF Becoming
<1>2. CASE Enable(t)
  <2>1. SameConns /\ UNCHANGED <<cq, poster>>
    BY <1>2, EnableFacts DEF Still, Quiet
  <2>2. PICK w : Becoming(t, w) /\ w.pc = "loop" /\ w.batch = <<>>
    BY <1>2, EnableFacts
  <2>a. wk'[t].pc = "loop" /\ DOMAIN wk'[t].batch = {}
    BY <2>2 DEF Becoming
  <2>3. BatchOK(wk'[t], t) /\ \A d \in Conns : ~Handles(t, d)' /\ ~Waits(t, d)'
    BY <2>a DEF Handles, Drives, Waits, BatchOK
  <2>4. \A d \in Conns : cn'[d].home = cn[d].home /\ Untouched(d)
    BY <2>1 DEF SameConns, SameOwner, Untouched
  <2> QED  BY <2>1, <2>2, <2>3, <2>4, WorkerOwned DEF Becoming, Busy
<1>3. CASE Register(t) \/ Unhang(t) \/ (ReadPipe(t) /\ UNCHANGED <<cq, cn>>)
  <2>1. UNCHANGED <<cq, cn, poster>> /\ Passed(t) /\ wk'[t].pc \in {"hang", "loop", "next"}
    <3>1. CASE Register(t)
      BY <3>1, RegisterFacts DEF Passed, Quiet
    <3>2. CASE Unhang(t)
      BY <3>2, UnhangFacts DEF Passed, Still, Quiet, Returns
    <3>3. CASE ReadPipe(t) /\ UNCHANGED <<cq, cn>>
      <4>1. Moves(t) /\ Quiet /\ Current(t) \in Threads
        BY <3>3, ReadPipeFacts
      <4>2. Returns(t)
        <5>1. SUFFICES ASSUME NEW c \in Conns, Taken(t, Current(t), c) PROVE FALSE
          BY <3>3, ReadPipeFacts
        <5>2. cq[Current(t)] \in Seq(QueueRec) /\ cq[Current(t)] # <<>>
          BY <4>1, <5>1 DEF Taken, TypeInv
        <5>3. Tail(cq[Current(t)]) = cq[Current(t)]
          BY <3>3, <4>1, <5>1 DEF Taken, TypeInv
        <5>4. \A q \in Seq(QueueRec) : q # <<>> => Tail(q) # q
          <6> SUFFICES ASSUME NEW q \in Seq(QueueRec), q # <<>> PROVE Tail(q) # q
            OBVIOUS
          <6>1. Len(Tail(q)) # Len(q)
            BY QueueTail
          <6> QED  BY <6>1, Zenon
        <5> QED  BY <5>2, <5>3, <5>4
      <4> QED  BY <3>3, <4>1, <4>2 DEF Passed, Quiet, Returns
    <3> QED  BY <1>3, <3>1, <3>2, <3>3
  <2>2. \A d \in Conns : ~Handles(t, d)' /\ (Waits(t, d)' => Waits(t, d))
    BY <2>1, PassedFacts DEF Handles, Drives
  <2>3. \A d \in Conns : cn'[d].home = cn[d].home /\ Untouched(d)
    BY <2>1 DEF Untouched
  <2> QED  BY <2>1, <2>2, <2>3, PassedFacts, WorkerOwned DEF Busy
<1> QED  BY <1>1, <1>2, <1>3

\* A worker takes a connection out of its queue.
LEMMA TakenOwned ==
  ASSUME TypeInv, Owned, ~cfg.shared, NEW t \in Threads, ReadPipe(t),
         NEW c \in Conns, Taken(t, Current(t), c)
  PROVE  Owned'
<1> USE DEF Owned
<1> DEFINE i == Current(t)
           F(j, n) == IF j = i THEN n + 1 ELSE n
<1>1. Moves(t) /\ UNCHANGED poster /\ More(t) /\ i \in Threads
  BY ReadPipeFacts DEF Quiet
<1>2. i = t
  <2>1. wk[t].at \in DOMAIN wk[t].batch
    BY <1>1 DEF TypeInv, WorkersOK, WorkerOK, More
  <2> QED  BY <1>1, <2>1 DEF Batches, BatchOK, Current
<1> HIDE DEF i
<1>3. cq[i] \in Seq(QueueRec) /\ cq[i] # <<>> /\ cq' = [cq EXCEPT ![i] = Tail(@)] /\ cq \in [Threads -> Seq(QueueRec)]
  BY <1>1 DEF Taken, TypeInv, i
<1>4. c = cq[i][1].conn /\ 1 \in DOMAIN cq[i]
  BY <1>3, QueueTail DEF Taken, i
<1>5. \A j \in Threads : \A n \in DOMAIN cq'[j] :
        F(j, n) \in DOMAIN cq[j] /\ cq'[j][n] = cq[j][F(j, n)] /\ n \in Nat \ {0}
  <2> SUFFICES ASSUME NEW j \in Threads, NEW n \in DOMAIN cq'[j]
               PROVE  F(j, n) \in DOMAIN cq[j] /\ cq'[j][n] = cq[j][F(j, n)] /\ n \in Nat \ {0}
    OBVIOUS
  <2>1. CASE j = i
    <3>1. cq'[j] = Tail(cq[i])
      BY <1>3, <2>1
    <3> QED  BY <1>3, <2>1, <3>1, QueueTail
  <2>2. CASE j # i
    <3>1. cq'[j] = cq[j] /\ cq[j] \in Seq(QueueRec)
      BY <1>3, <2>2
    <3>2. DOMAIN cq[j] = 1 .. Len(cq[j]) /\ Len(cq[j]) \in Nat
      BY <3>1
    <3> QED  BY <2>2, <3>1, <3>2
  <2> QED  BY <2>1, <2>2
<1>6. Posted(c) /\ Away(c)
  BY <1>1, <1>4 DEF Posted, InQueue, Away
<1>7. cn[c].open /\ cn[c].io # "queued" /\ \A u \in Threads : ~Busy(u, c)
  BY <1>6 DEF Apart, Held
<1>8. \A d \in Conns : InQueue(d)' => InQueue(d) /\ d # c
  <2> SUFFICES ASSUME NEW d \in Conns, NEW j \in Threads, NEW n \in DOMAIN cq'[j], cq'[j][n].conn = d
               PROVE  InQueue(d) /\ d # c
    BY DEF InQueue
  <2>1. F(j, n) \in DOMAIN cq[j] /\ cq[j][F(j, n)].conn = d /\ n \in Nat \ {0}
    BY <1>5
  <2>2. ~(j = i /\ F(j, n) = 1)
    BY <2>1
  <2> HIDE DEF F
  <2> QED  BY <1>1, <1>4, <2>1, <2>2 DEF InQueue, OnceQueued
<1>9. ~InHand(c) /\ \A d \in Conns : InHand(d)' <=> InHand(d)
  <2>1. InQueue(c)
    BY <1>1, <1>4 DEF InQueue
  <2> QED  BY <1>1, <2>1 DEF InHand, OncePushed
<1>10. ~Posted(c)' /\ \A d \in Conns : Posted(d)' => Posted(d)
  BY <1>8, <1>9 DEF Posted
<1>11. PICK y : /\ Only(c, y) /\ y.open = cn[c].open /\ y.thread = cn[c].thread
                /\ y.io \in {"none", cn[c].io}
                /\ y.home = IF Head(cq[i]).mode = "redispatch" THEN cn[c].thread ELSE t
  BY DEF Taken, i
<1>12. cn'[c] = y /\ y.home = t /\ ~Away(c)'
  <2>1. Head(cq[i]).mode = "redispatch" => cn[c].thread = i
    BY <1>1, <1>3, <1>4, QueueTail DEF Back
  <2> QED  BY <1>2, <1>7, <1>10, <1>11, <2>1 DEF Only, Away
<1>13. \A d \in Conns \ {c} : cn'[d] = cn[d]
  BY <1>11 DEF Only
<1>14. \A d \in Conns \ {c} : Away(d)' => Away(d)
  BY <1>10, <1>13 DEF Away
<1>15. Passed(t) /\ wk'[t].conn = c /\ wk'[t].pc \in {"new", "readd"}
  BY <1>1 DEF Passed, Taken
<1>16. \A u \in Threads, d \in Conns : Busy(u, d)' => Busy(u, d) \/ (u = t /\ d = c)
  BY <1>15, PassedFacts DEF Busy, Handles, Drives, Waits
<1>17. Held'
  BY <1>7, <1>12, <1>13, <1>14, <1>16 DEF Held
<1>18. Sole'
  <2>1. \A d \in Conns : Handles(t, d)' => d = c
    BY <1>15 DEF Handles, Drives
  <2>2. ~Waits(t, c)'
    BY <1>7, <1>15, PassedFacts DEF Busy
  <2>3. \A u \in Threads \ {t}, d \in Conns : ~(Handles(u, d)' /\ Waits(u, d)')
    BY <1>15, PassedFacts DEF Sole, Handles, Drives, Waits
  <2> QED  BY <2>1, <2>2, <2>3 DEF Sole
<1>19. Batches'
  BY <1>15, PassedFacts DEF Batches, BatchOK
<1>20. Off'
  BY <1>12, <1>13, <1>14 DEF Off
<1>21. Apart'
  BY <1>7, <1>10, <1>11, <1>12, <1>13 DEF Apart
<1>22. OnceQueued'
  <2> SUFFICES ASSUME NEW j \in Threads, NEW k \in Threads, NEW n \in DOMAIN cq'[j], NEW m \in DOMAIN cq'[k],
                      cq'[j][n].conn = cq'[k][m].conn
               PROVE  j = k /\ n = m
    BY DEF OnceQueued
  <2>1. /\ F(j, n) \in DOMAIN cq[j] /\ F(k, m) \in DOMAIN cq[k] /\ n \in Nat /\ m \in Nat
        /\ cq[j][F(j, n)].conn = cq[k][F(k, m)].conn
    BY <1>5
  <2>2. j = k /\ F(j, n) = F(k, m)
    <3> HIDE DEF F
    <3> QED  BY <2>1 DEF OnceQueued
  <2> QED  BY <2>1, <2>2
<1>23. OncePushed'
  <2> SUFFICES ASSUME NEW p \in Posters, poster[p].pc = "push"
               PROVE  ~InQueue(poster[p].conn)'
    BY <1>1 DEF OncePushed
  <2>1. poster[p].conn \in Conns /\ ~InQueue(poster[p].conn)
    BY DEF OncePushed, TypeInv, PostersOK, PosterOK
  <2> QED  BY <1>1, <1>8, <2>1
<1>24. \A d \in Conns : cn'[d].thread = cn[d].thread
  BY <1>11, <1>12, <1>13
<1>25. Back'
  <2>1. ASSUME NEW j \in Threads, NEW n \in DOMAIN cq'[j], cq'[j][n].mode = "redispatch"
        PROVE  cn'[cq'[j][n].conn].thread = j
    <3>1. F(j, n) \in DOMAIN cq[j] /\ cq'[j][n] = cq[j][F(j, n)] /\ cq[j] \in Seq(QueueRec)
      BY <1>3, <1>5
    <3> HIDE DEF F
    <3>2. cq[j][F(j, n)] \in QueueRec
      BY <3>1
    <3> QED  BY <1>24, <2>1, <3>1, <3>2 DEF Back, QueueRec
  <2>2. ASSUME NEW p \in Posters, poster[p].pc = "push", poster[p].mode = "redispatch"
        PROVE  cn'[poster[p].conn].thread = poster[p].tid
    BY <1>24, <2>2 DEF Back, TypeInv, PostersOK, PosterOK
  <2> QED  BY <1>1, <2>1, <2>2 DEF Back
<1> QED  BY <1>17, <1>18, <1>19, <1>20, <1>21, <1>22, <1>23, <1>25

\* Nothing that matters to a worker gets worse: the parts that are not about queues.
LEMMA AwayLess ==
  ASSUME Owned, UNCHANGED wk, \A c \in Conns : Away(c)' => Away(c),
         \A c \in Conns : cn'[c].home = cn[c].home /\ cn'[c].reg = cn[c].reg
  PROVE  Held' /\ Sole' /\ Batches' /\ Off'
<1>1. \A t \in Threads, c \in Conns : /\ Handles(t, c)' <=> Handles(t, c)
                                      /\ Waits(t, c)' <=> Waits(t, c)
                                      /\ Busy(t, c)' <=> Busy(t, c)
  BY DEF Handles, Drives, Waits, Busy
<1>2. Held' /\ Sole' /\ Off'
  BY <1>1 DEF Owned, Held, Sole, Off
<1>3. Batches'
  BY DEF Owned, Batches, BatchOK
<1> QED  BY <1>2, <1>3

\* Steps that leave alone the workers, the queues and what the posters push.
LEMMA FrameOwned ==
  ASSUME TypeInv, Owned, UNCHANGED <<wk, cq>>, SameConns,
         \A p \in Posters : poster'[p] = poster[p] \/ (poster[p].pc # "push" /\ poster'[p].pc # "push")
  PROVE  Owned'
<1>1. \A c \in Conns : /\ Posted(c)' <=> Posted(c)
                       /\ Away(c)' <=> Away(c)
  BY DEF Posted, InQueue, InHand, Away, SameConns, SameOwner
<1>2. Held' /\ Sole' /\ Batches' /\ Off'
  BY <1>1, AwayLess DEF SameConns, SameOwner
<1>3. Apart'
  BY <1>1 DEF Owned, Apart, SameConns, SameOwner
<1>4. OnceQueued' /\ OncePushed'
  BY DEF Owned, OnceQueued, OncePushed, InQueue
<1>5. \A i \in Threads : \A n \in DOMAIN cq[i] : cq[i][n].conn \in Conns
  <2>1. \A i \in Threads : cq[i] \in Seq(QueueRec)
    BY DEF TypeInv
  <2>2. \A i \in Threads : \A n \in DOMAIN cq[i] : cq[i][n] \in QueueRec
    BY <2>1
  <2> QED  BY <2>2 DEF QueueRec
<1>6. Back'
  BY <1>5 DEF Owned, Back, SameConns, TypeInv, PostersOK, PosterOK
<1> QED  BY <1>2, <1>3, <1>4, <1>6 DEF Owned

\* A connection that no worker has is posted.
LEMMA PostOwned ==
  ASSUME TypeInv, Owned, ~cfg.shared, UNCHANGED <<wk, cq>>,
         NEW p \in Posters, poster[p].pc # "push", NEW c \in Conns, NEW m \in {"new", "redispatch"},
         Post(p, c, m), Away(c), ~Posted(c),
         NEW y, Only(c, y), y.open, y.io # "queued", y.home = cn[c].home, y.reg = cn[c].reg,
         y.thread = cn[c].thread
  PROVE  Owned'
<1>1. /\ \A q \in Posters \ {p} : poster'[q] = poster[q]
      /\ poster'[p].pc = "push" /\ poster'[p].conn = c /\ poster'[p].mode = m
      /\ m = "redispatch" => poster'[p].tid = cn[c].thread
  BY PostFacts
<1>2. \A d \in Conns : (InQueue(d)' <=> InQueue(d)) /\ (Posted(d)' <=> Posted(d) \/ d = c)
  BY <1>1 DEF Posted, InQueue, InHand
<1>3. cn'[c] = y /\ \A d \in Conns \ {c} : cn'[d] = cn[d]
  BY DEF Only
<1>4. \A d \in Conns : Away(d)' => Away(d)
  BY <1>2, <1>3 DEF Away
<1>5. \A d \in Conns : cn'[d].home = cn[d].home /\ cn'[d].reg = cn[d].reg /\ cn'[d].thread = cn[d].thread
  BY <1>3
<1>6. Held' /\ Sole' /\ Batches' /\ Off'
  BY <1>4, <1>5, AwayLess
<1>7. Apart'
  BY <1>2, <1>3 DEF Owned, Apart
<1>8. OnceQueued'
  BY DEF Owned, OnceQueued
<1>9. ~InQueue(c) /\ ~InHand(c)
  BY DEF Posted
<1>10. OncePushed'
  <2> SUFFICES ASSUME NEW q \in Posters, poster'[q].pc = "push"
               PROVE  /\ ~InQueue(poster[q].conn)'
                      /\ \A r \in Posters : poster'[r].pc = "push" /\ poster'[r].conn = poster'[q].conn => q = r
    BY DEF OncePushed
  <2>1. poster'[q].conn \in Conns
    BY <1>1 DEF TypeInv, PostersOK, PosterOK
  <2>2. ~InQueue(poster[q].conn)'
    <3> DEFINE d == poster'[q].conn
    <3>1. ~InQueue(d)
      BY <1>1, <1>9 DEF Owned, OncePushed
    <3> QED  BY <3>1 DEF InQueue
  <2>3. \A r \in Posters : poster'[r].pc = "push" /\ poster'[r].conn = poster'[q].conn => q = r
    BY <1>1, <1>9 DEF Owned, OncePushed, InHand
  <2> QED  BY <2>2, <2>3
<1>11. \A i \in Threads : \A n \in DOMAIN cq[i] : cq[i][n].conn \in Conns
  <2>1. \A i \in Threads : cq[i] \in Seq(QueueRec)
    BY DEF TypeInv
  <2>2. \A i \in Threads : \A n \in DOMAIN cq[i] : cq[i][n] \in QueueRec
    BY <2>1
  <2> QED  BY <2>2 DEF QueueRec
<1>12. Back'
  <2>1. ASSUME NEW i \in Threads, NEW n \in DOMAIN cq[i], cq[i][n].mode = "redispatch"
        PROVE  cn'[cq[i][n].conn].thread = i
    BY <1>5, <1>11, <2>1 DEF Owned, Back
  <2>2. ASSUME NEW q \in Posters, poster'[q].pc = "push", poster'[q].mode = "redispatch"
        PROVE  cn'[poster'[q].conn].thread = poster'[q].tid
    <3>1. CASE q = p
      BY <1>1, <1>5, <2>2, <3>1
    <3>2. CASE q # p
      <4>1. poster'[q] = poster[q] /\ poster[q].conn \in Conns
        BY <1>1, <2>2, <3>2 DEF TypeInv, PostersOK, PosterOK
      <4> QED  BY <1>5, <2>2, <4>1 DEF Owned, Back
    <3> QED  BY <3>1, <3>2
  <2> QED  BY <2>1, <2>2 DEF Back
<1> QED  BY <1>6, <1>7, <1>8, <1>10, <1>12 DEF Owned

\* A posted connection is put in the queue.
LEMMA PushOwned ==
  ASSUME TypeInv, Owned, NEW p \in Posters, CqPush(p)
  PROVE  Owned'
<1> DEFINE c == poster[p].conn
           k == poster[p].tid
           e == [conn |-> c, mode |-> poster[p].mode]
<1>1. /\ poster[p].pc = "push" /\ Advance(p) /\ UNCHANGED <<wk, cn>>
      /\ cq' = [cq EXCEPT ![k] = Append(@, e)]
  BY DEF CqPush, Pushes
<1>2. (\A q \in Posters \ {p} : poster'[q] = poster[q]) /\ poster'[p].pc # "push"
  BY <1>1, AdvanceFacts
<1>3. c \in Conns /\ e.conn = c /\ e.mode = poster[p].mode
  BY <1>1 DEF TypeInv, PostersOK, PosterOK
<1> HIDE DEF e
<1>4. \A i \in Threads : cq[i] \in Seq(QueueRec) /\ i \in DOMAIN cq
  BY DEF TypeInv
<1>5. \A i \in Threads : \A n \in DOMAIN cq'[i] :
        \/ n \in DOMAIN cq[i] /\ cq'[i][n] = cq[i][n]
        \/ i = k /\ n = Len(cq[i]) + 1 /\ cq'[i][n] = e
  <2> SUFFICES ASSUME NEW i \in Threads, NEW n \in DOMAIN cq'[i]
               PROVE  \/ n \in DOMAIN cq[i] /\ cq'[i][n] = cq[i][n]
                      \/ i = k /\ n = Len(cq[i]) + 1 /\ cq'[i][n] = e
    OBVIOUS
  <2>1. CASE i # k
    BY <1>1, <1>4, <2>1
  <2>2. CASE i = k
    <3>1. cq'[i] = Append(cq[i], e) /\ cq[i] \in Seq(QueueRec)
      BY <1>1, <1>4, <2>2
    <3>2. e \in QueueRec
      BY <1>1 DEF e, TypeInv, PostersOK, PosterOK, QueueRec
    <3>3. /\ DOMAIN Append(cq[i], e) = 1 .. Len(cq[i]) + 1 /\ DOMAIN cq[i] = 1 .. Len(cq[i])
          /\ Len(cq[i]) \in Nat
          /\ \A j \in 1 .. Len(cq[i]) : Append(cq[i], e)[j] = cq[i][j]
          /\ Append(cq[i], e)[Len(cq[i]) + 1] = e
      BY <3>1, <3>2, AppendProperties
    <3> QED  BY <2>2, <3>1, <3>3
  <2> QED  BY <2>1, <2>2
<1>6. \A d \in Conns : /\ InQueue(d)' => InQueue(d) \/ d = c
                       /\ Posted(d)' => Posted(d)
  <2>1. \A d \in Conns : InQueue(d)' => InQueue(d) \/ d = c
    BY <1>3, <1>5 DEF InQueue
  <2>2. InHand(c) /\ \A d \in Conns : InHand(d)' => InHand(d)
    BY <1>1, <1>2 DEF InHand
  <2> QED  BY <2>1, <2>2 DEF Posted
<1>7. Held' /\ Sole' /\ Batches' /\ Off'
  <2>1. \A d \in Conns : Away(d)' => Away(d)
    BY <1>1, <1>6 DEF Away
  <2> QED  BY <1>1, <2>1, AwayLess
<1>8. Apart'
  BY <1>1, <1>6 DEF Owned, Apart
<1>9. ~InQueue(c)
  BY <1>1 DEF Owned, OncePushed
<1>10. OnceQueued'
  <2> SUFFICES ASSUME NEW i \in Threads, NEW j \in Threads, NEW n \in DOMAIN cq'[i], NEW m \in DOMAIN cq'[j],
                      cq'[i][n].conn = cq'[j][m].conn
               PROVE  i = j /\ n = m
    BY DEF OnceQueued
  <2>1. CASE n \in DOMAIN cq[i] /\ cq'[i][n] = cq[i][n] /\ m \in DOMAIN cq[j] /\ cq'[j][m] = cq[j][m]
    BY <2>1 DEF Owned, OnceQueued
  <2>2. CASE n \in DOMAIN cq[i] /\ cq'[i][n] = cq[i][n] /\ cq'[j][m] = e
    BY <1>3, <1>9, <2>2 DEF InQueue
  <2>3. CASE cq'[i][n] = e /\ m \in DOMAIN cq[j] /\ cq'[j][m] = cq[j][m]
    BY <1>3, <1>9, <2>3 DEF InQueue
  <2>4. CASE i = k /\ n = Len(cq[i]) + 1 /\ j = k /\ m = Len(cq[j]) + 1
    BY <2>4
  <2> QED  BY <1>5, <2>1, <2>2, <2>3, <2>4
<1>11. OncePushed'
  <2> SUFFICES ASSUME NEW q \in Posters, poster'[q].pc = "push"
               PROVE  /\ ~InQueue(poster[q].conn)'
                      /\ \A r \in Posters : poster'[r].pc = "push" /\ poster'[r].conn = poster'[q].conn => q = r
    BY DEF OncePushed
  <2>1. q # p /\ poster'[q] = poster[q] /\ poster[q].conn \in Conns
    BY <1>2 DEF TypeInv, PostersOK, PosterOK
  <2>2. poster[q].conn # c /\ ~InQueue(poster[q].conn)
    BY <1>1, <2>1 DEF Owned, OncePushed
  <2>3. ~InQueue(poster[q].conn)'
    BY <1>3, <1>5, <2>1, <2>2 DEF InQueue
  <2>4. \A r \in Posters : poster'[r].pc = "push" /\ poster'[r].conn = poster'[q].conn => q = r
    BY <1>2, <2>1 DEF Owned, OncePushed
  <2> QED  BY <2>3, <2>4
<1>12. Back'
  <2>1. ASSUME NEW i \in Threads, NEW n \in DOMAIN cq'[i], cq'[i][n].mode = "redispatch"
        PROVE  cn'[cq'[i][n].conn].thread = i
    BY <1>1, <1>3, <1>5, <2>1 DEF Owned, Back
  <2>2. ASSUME NEW q \in Posters, poster'[q].pc = "push", poster'[q].mode = "redispatch"
        PROVE  cn'[poster'[q].conn].thread = poster'[q].tid
    BY <1>1, <1>2, <2>2 DEF Owned, Back
  <2> QED  BY <2>1, <2>2 DEF Back
<1> QED  BY <1>7, <1>8, <1>10, <1>11, <1>12 DEF Owned

\* Nobody has a connection initially.
LEMMA InitOwned == Init => Owned
<1> SUFFICES ASSUME Init PROVE Owned
  OBVIOUS
<1>1. \A c \in Conns : /\ ~cn[c].open /\ cn[c].io = "none" /\ cn[c].reg = NULL
  BY DEF Init, NoConn
<1>2. \A t \in Threads : wk[t].pc = "start" /\ DOMAIN wk[t].batch = {}
  <2>1. \A t \in Threads : wk[t].pc = "start" /\ wk[t].batch = <<>>
    BY DEF Init, NewWorker
  <2> QED  BY <2>1
<1>3. \A i \in Threads : DOMAIN cq[i] = {}
  <2>1. \A i \in Threads : cq[i] = <<>>
    BY DEF Init
  <2> QED  BY <2>1
<1>4. \A p \in Posters : poster[p].pc # "push"
  BY DEF Init, Resting
<1>5. \A c : ~Posted(c)
  BY <1>3, <1>4 DEF Posted, InQueue, InHand
<1>6. \A t \in Threads, c \in Conns : ~Handles(t, c) /\ ~Waits(t, c)
  BY <1>2 DEF Handles, Drives, Waits
<1>7. Held /\ Sole /\ Batches /\ Off /\ Apart
  BY <1>1, <1>2, <1>5, <1>6 DEF Held, Sole, Batches, BatchOK, Off, Apart, Busy
<1>8. OnceQueued /\ OncePushed /\ Back
  BY <1>3, <1>4 DEF OnceQueued, OncePushed, Back
<1> QED  BY <1>7, <1>8 DEF Owned

\* The steps outside the workers.
LEMMA OutsideOwned ==
  ASSUME TypeInv, Owned, ~cfg.shared,
         \/ \E p \in Posters : Poster(p)
         \/ MainInit \/ IoThread \/ Maintenance \/ PauseLock
         \/ \E c \in Conns, s \in cfg.scripts, pri \in BOOLEAN : Accept(c, s, pri)
         \/ \E c \in Conns : Send(c) \/ Hangup(c)
  PROVE  Owned'
<1>0. DOMAIN cn = Conns /\ \A c \in Conns : ConnOK(cn[c])
  BY DEF TypeInv, ConnsOK
<1>1. ASSUME UNCHANGED <<wk, cq, cn>>,
             \A p \in Posters : poster'[p] = poster[p] \/ (poster[p].pc # "push" /\ poster'[p].pc # "push")
      PROVE  Owned'
  BY <1>0, <1>1, FrameOwned DEF SameConns, SameOwner
<1>2. ASSUME NEW p \in Posters, CqPush(p) PROVE Owned'
  BY <1>2, PushOwned
<1>3. ASSUME NEW p \in Posters, PipeWrite(p) PROVE Owned'
  <2>1. poster[p].pc = "write" /\ Advance(p) /\ UNCHANGED <<wk, cq, cn>>
    BY <1>3 DEF PipeWrite, Pushes
  <2> QED  BY <1>1, <2>1, AdvanceFacts
<1>4. CASE MainInit
  BY <1>1, <1>4 DEF MainInit, TypeInv, PostersOK, Resting
<1>5. CASE Maintenance \/ PauseLock
  BY <1>1, <1>5 DEF Maintenance, PauseLock, PauseWrite, PauseDone, Resume
<1>6. ASSUME NEW c \in Conns, IoDone(c) PROVE Owned'
  <2> DEFINE y == [cn[c] EXCEPT !.io = "done"]
  <2>1. /\ poster["io"].pc = "idle" /\ cn[c].io = "queued" /\ cn' = [cn EXCEPT ![c] = y]
        /\ Post("io", c, "redispatch") /\ UNCHANGED <<wk, cq>>
    BY <1>6 DEF IoDone
  <2>2. Away(c) /\ ~Posted(c) /\ cn[c].open
    BY <2>1 DEF Away, Owned, Apart
  <2>3. y.open /\ y.io # "queued" /\ y.home = cn[c].home /\ y.reg = cn[c].reg /\ y.thread = cn[c].thread
    BY <1>0, <2>2 DEF ConnOK, Fields, NoConn
  <2>4. Only(c, y)
    BY <1>0, <2>1 DEF Only
  <2> HIDE DEF y
  <2> QED  BY <2>1, <2>2, <2>3, <2>4, PostOwned DEF Posters
<1>7. ASSUME NEW c \in Conns, NEW s \in cfg.scripts, NEW pri \in BOOLEAN, Accept(c, s, pri) PROVE Owned'
  <2> DEFINE y == [cn[c] EXCEPT !.open = TRUE, !.script = s, !.sock = <<>>, !.eof = FALSE, !.pri = pri]
  <2>1. /\ poster["main"].pc = "idle" /\ ~cn[c].open /\ cn' = [cn EXCEPT ![c] = y]
        /\ Post("main", c, "new") /\ UNCHANGED <<wk, cq>>
    BY <1>7 DEF Accept
  <2>2. Away(c) /\ ~Posted(c) /\ cn[c].io # "queued"
    BY <2>1 DEF Away, Owned, Apart
  <2>3. y.open /\ y.io # "queued" /\ y.home = cn[c].home /\ y.reg = cn[c].reg /\ y.thread = cn[c].thread
    BY <1>0, <2>2 DEF ConnOK, Fields, NoConn
  <2>4. Only(c, y)
    BY <1>0, <2>1 DEF Only
  <2> HIDE DEF y
  <2> QED  BY <2>1, <2>2, <2>3, <2>4, PostOwned DEF Posters
<1>8. ASSUME NEW c \in Conns, Send(c) \/ Hangup(c) PROVE Owned'
  <2>1. TypeInv'
    BY <1>8, OutsideType
  <2>2. UNCHANGED <<wk, cq, poster>>
    BY <1>8 DEF Send, Hangup
  <2>3. cn'[c].home = cn[c].home /\ cn'[c].thread = cn[c].thread /\ cn'[c].open = cn[c].open
        /\ cn'[c].io = cn[c].io /\ cn'[c].reg = cn[c].reg
    <3>1. CASE Send(c)
      <4>1. cn' = [cn EXCEPT ![c].sock = Append(@, Head(cn[c].script)), ![c].script = Tail(@)]
        BY <3>1 DEF Send
      <4> QED  BY <1>0, <4>1 DEF ConnOK, Fields, NoConn
    <3>2. CASE Hangup(c)
      <4>1. cn' = [cn EXCEPT ![c].eof = TRUE]
        BY <3>2 DEF Hangup
      <4> QED  BY <1>0, <4>1 DEF ConnOK, Fields, NoConn
    <3> QED  BY <1>8, <3>1, <3>2
  <2>4. \A d \in Conns \ {c} : cn'[d] = cn[d]
    BY <1>0, <1>8 DEF Send, Hangup
  <2>5. SameConns
    BY <2>1, <2>3, <2>4 DEF SameConns, SameOwner, TypeInv, ConnsOK
  <2> QED  BY <2>2, <2>5, FrameOwned
<1> QED  BY <1>2, <1>3, <1>4, <1>5, <1>6, <1>7, <1>8 DEF Poster, IoThread

\* With a base per worker every step keeps the ownership of connections.
LEMMA NextOwned == TypeInv /\ ~cfg.shared /\ Owned /\ [Next]_vars => Owned'
<1> SUFFICES ASSUME TypeInv, ~cfg.shared, Owned, [Next]_vars PROVE Owned'
  OBVIOUS
<1>0. ConnsOK /\ WorkersOK
  BY DEF TypeInv
<1>1. ASSUME NEW t \in Threads, Worker(t) PROVE Owned'
  <2>1. CASE ReadPipe(t)
    BY <2>1, ReadPipeFacts, LoopOwned, TakenOwned
  <2>2. ASSUME NEW c \in Conns, DriveMachine(t, c) PROVE Owned'
    BY <1>0, <2>2, DriveMachineDriven, DrivenOwned
  <2> QED  BY <1>1, <2>1, <2>2, LoopOwned, ClaimsOwned DEF Worker
<1>2. CASE UNCHANGED vars
  <2>1. SameConns
    BY <1>0, <1>2 DEF vars, SameConns, SameOwner, ConnsOK
  <2> QED  BY <1>2, <2>1, FrameOwned DEF vars
<1> QED  BY <1>1, <1>2, OutsideOwned DEF Next

\* The configuration never changes.
LEMMA CfgKept == ASSUME TypeInv, [Next]_vars PROVE cfg' = cfg
<1>1. ASSUME NEW t \in Threads, Worker(t) PROVE cfg' = cfg
  BY <1>1, CountStep DEF Quiet
<1>2. ASSUME NEW p \in Posters, Poster(p) PROVE cfg' = cfg
  BY <1>2 DEF Poster, CqPush, PipeWrite
<1>a. CASE MainInit \/ IoThread \/ UNCHANGED vars
  BY <1>a DEF MainInit, IoThread, IoDone, vars
<1>b. CASE Maintenance \/ PauseLock
  BY <1>b DEF Maintenance, PauseWrite, PauseDone, Resume, PauseLock
<1>3. ASSUME NEW c \in Conns, NEW s \in cfg.scripts, NEW pri \in BOOLEAN, Accept(c, s, pri)
      PROVE  cfg' = cfg
  BY <1>3 DEF Accept
<1>4. ASSUME NEW c \in Conns, Send(c) \/ Hangup(c) PROVE cfg' = cfg
  BY <1>4 DEF Send, Hangup
<1> QED  BY <1>1, <1>2, <1>a, <1>b, <1>3, <1>4 DEF Next

(* With an event base for each worker a connection is handled only by the  *)
(* thread whose base its event is with: however many workers there are,    *)
(* however the events of a batch, the I/O thread's redispatches and the    *)
(* reuse of a closed descriptor interleave.                                *)
THEOREM OwnerDrives == Spec => []DriverAlone
<1>1. Init => TypeInv /\ (~cfg.shared => Owned)
  BY InitType, InitOwned
<1>2. TypeInv /\ (~cfg.shared => Owned) /\ [Next]_vars => (~cfg.shared => Owned)'
  <2> SUFFICES ASSUME TypeInv, ~cfg.shared => Owned, [Next]_vars, ~cfg'.shared PROVE Owned'
    OBVIOUS
  <2>1. cfg' = cfg
    BY CfgKept
  <2> QED  BY <2>1, NextOwned
<1>3. (~cfg.shared => Owned) => DriverAlone
  BY DEF DriverAlone, Owned, Held, Busy
<1> QED  BY <1>1, <1>2, <1>3, NextType, PTL DEF Spec

-----------------------------------------------------------------------------
(* The notify pipes *)

Pipe == Seq({"c", "p"})
PipesOK == pipe \in [Threads -> Pipe]

\* A pipe that a worker was told to be readable has a byte for it, and no other event
\* in any worker's batch is for that pipe.
Unread == \A t, i \in Threads : Waits(t, i) => pipe[i] # <<>>
Alone ==
  \A t, u \in Threads : \A n \in DOMAIN wk[t].batch, m \in DOMAIN wk[u].batch :
    wk[t].batch[n].ev \in Threads /\ wk[t].batch[n].ev = wk[u].batch[m].ev => t = u /\ n = m

PipeInv == PipesOK /\ Unread /\ Alone

\* How many bytes b there are when one comes or goes.
LEMMA CountFacts ==
  ASSUME NEW q \in Pipe, NEW b
  PROVE  /\ Count(q, b) \in Nat
         /\ \A x \in {"c", "p"} : Count(Append(q, x), b) = Count(q, b) + (IF x = b THEN 1 ELSE 0)
         /\ q # <<>> => Count(Tail(q), b) = Count(q, b) - (IF Head(q) = b THEN 1 ELSE 0)
<1> DEFINE At(r) == {n \in DOMAIN r : r[n] = b}
<1>1. Len(q) \in Nat /\ DOMAIN q = 1 .. Len(q)
  BY DEF Pipe
<1>2. IsFiniteSet(At(q)) /\ Count(q, b) = Cardinality(At(q))
  <2>1. IsFiniteSet(1 .. Len(q)) /\ At(q) \in SUBSET (1 .. Len(q))
    BY <1>1, FS_Interval
  <2>2. IsFiniteSet(At(q))
    BY <2>1, FS_Subset
  <2> QED  BY <2>2 DEF Count
<1>3. Count(q, b) \in Nat
  BY <1>2, FS_CardinalityType
<1>4. ASSUME NEW x \in {"c", "p"}
      PROVE  Count(Append(q, x), b) = Count(q, b) + (IF x = b THEN 1 ELSE 0)
  <2>1. /\ DOMAIN Append(q, x) = 1 .. Len(q) + 1 /\ Append(q, x)[Len(q) + 1] = x
        /\ \A n \in 1 .. Len(q) : Append(q, x)[n] = q[n]
    BY <1>1 DEF Pipe
  <2>2. At(Append(q, x)) = IF x = b THEN At(q) \cup {Len(q) + 1} ELSE At(q)
    BY <1>1, <2>1
  <2>3. Len(q) + 1 \notin At(q)
    BY <1>1
  <2> HIDE DEF At
  <2>4. Cardinality(At(q) \cup {Len(q) + 1}) = Cardinality(At(q)) + 1
    BY <1>2, <2>3, FS_AddElement
  <2>5. Count(Append(q, x), b) = Cardinality(At(Append(q, x)))
    BY DEF Count, At
  <2> QED  BY <1>2, <1>3, <2>2, <2>4, <2>5
<1>5. ASSUME q # <<>>
      PROVE  Count(Tail(q), b) = Count(q, b) - (IF Head(q) = b THEN 1 ELSE 0)
  <2>1. /\ Len(q) > 0 /\ DOMAIN Tail(q) = 1 .. Len(q) - 1 /\ Head(q) = q[1]
        /\ \A n \in 1 .. Len(q) - 1 : Tail(q)[n] = q[n + 1]
    <3>1. /\ Tail(q) \in Pipe /\ Len(Tail(q)) = Len(q) - 1
          /\ \A n \in 1 .. Len(Tail(q)) : Tail(q)[n] = q[n + 1]
      BY <1>5, HeadTailProperties DEF Pipe
    <3>2. Len(q) > 0 /\ Head(q) = q[1]
      BY <1>1, <1>5 DEF Pipe
    <3>3. DOMAIN Tail(q) = 1 .. Len(Tail(q))
      BY <3>1 DEF Pipe
    <3> QED  BY <3>1, <3>2, <3>3
  <2> DEFINE f == [n \in At(Tail(q)) |-> n + 1]
             R == At(q) \ {1}
  <2>2. \A n \in At(Tail(q)) : n + 1 \in R /\ n \in Nat
    BY <1>1, <2>1
  <2>3. \A m \in R : m - 1 \in At(Tail(q)) /\ m = (m - 1) + 1
    BY <1>1, <2>1
  <2>4. IsFiniteSet(R) /\ Cardinality(R) = IF 1 \in At(q) THEN Cardinality(At(q)) - 1 ELSE Cardinality(At(q))
    BY <1>2, FS_RemoveElement
  <2>5. 1 \in At(q) <=> Head(q) = b
    BY <1>1, <2>1
  <2> DEFINE g == [m \in R |-> m - 1]
  <2>a. \A m \in R : m \in Int
    BY <1>1
  <2> HIDE DEF At, R
  <2>6. g \in [R -> At(Tail(q))]
    BY <2>3
  <2>7. \A m, n \in R : g[m] = g[n] => m = n
    BY <2>a
  <2>8. \A n \in At(Tail(q)) : \E m \in R : g[m] = n
    BY <2>2, <2>a
  <2> HIDE DEF g
  <2>9. ExistsBijection(R, At(Tail(q)))
    BY <2>6, <2>7, <2>8 DEF ExistsBijection, Bijection, Injection, Surjection, IsInjective
  <2>10. Cardinality(At(Tail(q))) = Cardinality(R)
    BY <2>4, <2>9, FS_Bijection
  <2>11. Count(Tail(q), b) = Cardinality(At(Tail(q)))
    BY DEF Count, At
  <2>12. CASE Head(q) = b
    BY <1>2, <2>4, <2>5, <2>10, <2>11, <2>12
  <2>13. CASE Head(q) # b
    BY <1>2, <1>3, <2>4, <2>5, <2>10, <2>11, <2>13
  <2> QED  BY <2>12, <2>13
<1> QED  BY <1>3, <1>4, <1>5

\* t reads a byte b of the pipe whose event it handles.
Reads(t, b) ==
  /\ Passed(t) /\ More(t) /\ Current(t) \in Threads /\ Head(pipe[Current(t)]) = b
  /\ pipe' = [pipe EXCEPT ![Current(t)] = Tail(@)]

\* A worker leaves pipes and queues alone, or takes a byte and, if it is a c, a
\* connection.
LEMMA WorkerPipes ==
  ASSUME TypeInv, NEW t \in Threads, Worker(t)
  PROVE  \/ UNCHANGED <<pipe, cq>> /\ (Passed(t) \/ Fetch(t) \/ Enable(t))
         \/ Reads(t, "p") /\ cq' = cq
         \/ Reads(t, "c") /\ cq' = [cq EXCEPT ![Current(t)] = IF @ = <<>> THEN @ ELSE Tail(@)]
<1>0. ConnsOK /\ WorkersOK
  BY DEF TypeInv
<1>1. CASE Fetch(t) \/ Enable(t)
  BY <1>1, FetchFacts, EnableFacts DEF Still
<1>2. CASE Register(t)
  <2>1. Passed(t) /\ cq' = cq
    BY <1>2, RegisterFacts DEF Passed
  <2>2. CASE wk[t].pc = "start"
    BY <1>2, <2>1, <2>2 DEF Register
  <2>3. CASE wk[t].pc # "start"
    BY <1>2, <2>1, <2>3 DEF Register, Reads
  <2> QED  BY <2>2, <2>3
<1>3. CASE Unhang(t)
  BY <1>3, UnhangFacts DEF Passed, Still
<1>4. CASE ReadPipe(t)
  <2>1. Passed(t)
    BY <1>4, ReadPipeFacts DEF Passed, Taken
  <2> QED  BY <1>4, <2>1 DEF ReadPipe, Reads
<1>5. CASE SetThread(t) \/ Readd(t)
  BY <1>5, HandlerFacts DEF Passed, Still, Goes
<1>6. CASE EventHandler(t)
  BY <1>6, EventHandlerFacts DEF Passed, Still, Goes
<1>7. ASSUME NEW c \in Conns, DriveMachine(t, c) PROVE UNCHANGED <<pipe, cq>> /\ Passed(t)
  <2>1. Driven(t, c)
    BY <1>0, <1>7, DriveMachineDriven
  <2> QED  BY <2>1 DEF Driven, Passed, Still, Goes
<1> QED  BY <1>1, <1>2, <1>3, <1>4, <1>5, <1>6, <1>7 DEF Worker

\* The worker that reads is the only one that was to read.
LEMMA ReadsFacts ==
  ASSUME TypeInv, PipeInv, NEW t \in Threads, NEW b, Reads(t, b)
  PROVE  /\ pipe[Current(t)] \in Pipe /\ pipe[Current(t)] # <<>>
         /\ PipeInv'
<1>0. PICK i : i = Current(t)
  OBVIOUS
<1>1. wk[t].batch \in Seq(EntryRec) /\ wk[t].at \in DOMAIN wk[t].batch /\ wk[t].pc = "next" /\ wk[t].at \in Nat
  BY DEF Reads, More, TypeInv, WorkersOK, WorkerOK
<1>2. i \in Threads /\ i = wk[t].batch[wk[t].at].ev
  BY <1>0 DEF Reads, Current
<1>3. Waits(t, i)
  BY <1>1, <1>2 DEF Waits
<1>4. pipe[i] \in Pipe /\ pipe[i] # <<>>
  BY <1>2, <1>3 DEF PipeInv, PipesOK, Unread
<1>5. Passed(t) /\ pipe' = [pipe EXCEPT ![i] = Tail(@)]
  BY <1>0 DEF Reads
<1>6. PipesOK'
  <2>1. Tail(pipe[i]) \in Pipe
    BY <1>4, HeadTailProperties DEF Pipe
  <2> QED  BY <1>5, <2>1 DEF PipeInv, PipesOK
<1>7. \A u \in Threads : wk'[u].batch = wk[u].batch
  BY <1>5, PassedWaits
<1>8. Alone'
  BY <1>7 DEF PipeInv, Alone
<1>9. \A u \in Threads : ~Waits(u, i)'
  <2>1. ~Waits(t, i)'
    <3>1. \A n \in DOMAIN wk[t].batch : wk[t].batch[n].ev = i => n = wk[t].at
      BY <1>1, <1>2 DEF PipeInv, Alone
    <3>2. ~Later(t, i)
      BY <1>1, <3>1 DEF Later
    <3> QED  BY <1>5, <3>2, PassedWaits
  <2>2. ASSUME NEW u \in Threads \ {t} PROVE ~Waits(u, i)'
    <3>1. wk'[u] = wk[u]
      BY <1>5, PassedWaits
    <3>2. \A n \in DOMAIN wk[u].batch : wk[u].batch[n].ev # i
      BY <1>1, <1>2 DEF PipeInv, Alone
    <3> QED  BY <3>1, <3>2 DEF Waits
  <2> QED  BY <2>1, <2>2
<1>10. Unread'
  <2>1. \A u, j \in Threads : Waits(u, j)' => Waits(u, j)
    <3>1. \A j \in Threads : Waits(t, j)' => Waits(t, j)
      BY <1>5, PassedWaits
    <3>2. \A u \in Threads \ {t}, j \in Threads : Waits(u, j)' => Waits(u, j)
      BY <1>5, PassedWaits DEF Waits
    <3> QED  BY <3>1, <3>2
  <2> QED  BY <1>5, <1>9, <2>1 DEF PipeInv, PipesOK, Unread
<1> QED  BY <1>0, <1>4, <1>6, <1>8, <1>10 DEF PipeInv

\* A worker takes a byte only from the pipe it was told to be readable.
LEMMA WorkerPipeInv ==
  ASSUME TypeInv, PipeInv, NEW t \in Threads, Worker(t)
  PROVE  PipeInv'
<1>1. CASE UNCHANGED pipe /\ Passed(t)
  <2>1. \A u, j \in Threads : Waits(u, j)' => Waits(u, j)
    <3>1. \A j \in Threads : Waits(t, j)' => Waits(t, j)
      BY <1>1, PassedWaits
    <3>2. \A u \in Threads \ {t}, j \in Threads : Waits(u, j)' => Waits(u, j)
      BY <1>1, PassedWaits DEF Waits
    <3> QED  BY <3>1, <3>2
  <2>2. \A u \in Threads : wk'[u].batch = wk[u].batch
    BY <1>1, PassedWaits
  <2> QED  BY <1>1, <2>1, <2>2 DEF PipeInv, PipesOK, Unread, Alone
<1>2. CASE UNCHANGED pipe /\ Fetch(t)
  <2>1. PICK a \in Ready(t), b \in Ready(t) : \E w :
          /\ Becoming(t, w) /\ WorkerOK(w) /\ w.pc = "next" /\ w.at = 1
          /\ \/ a = b /\ DOMAIN w.batch = {1} /\ w.batch[1].ev = a
             \/ a # b /\ DOMAIN w.batch = {1, 2} /\ w.batch[1].ev = a /\ w.batch[2].ev = b
    BY <1>2, FetchFacts
  <2>2. PICK w : /\ Becoming(t, w)
                 /\ \/ a = b /\ DOMAIN w.batch = {1} /\ w.batch[1].ev = a
                    \/ a # b /\ DOMAIN w.batch = {1, 2} /\ w.batch[1].ev = a /\ w.batch[2].ev = b
    BY <2>1
  <2>3. \A e \in Ready(t) \cap Threads : pipe[e] # <<>> /\ ~InBatch(e)
    <3>1. Conns \cap Threads = {}
      BY MemWorkersAssumption
    <3> QED  BY <3>1 DEF Ready
  <2>4. \A n \in DOMAIN w.batch : w.batch[n].ev \in {a, b}
    BY <2>2
  <2>5. \A n, m \in DOMAIN w.batch : w.batch[n].ev = w.batch[m].ev => n = m
    BY <2>2
  <2>6. wk'[t] = w /\ \A u \in Threads \ {t} : wk'[u] = wk[u]
    BY <2>2 DEF Becoming
  <2>7. Unread'
    <3>1. \A j \in Threads : Waits(t, j)' => j \in {a, b}
      BY <2>4, <2>6 DEF Waits
    <3>2. \A u \in Threads \ {t}, j \in Threads : Waits(u, j)' => Waits(u, j)
      BY <2>6 DEF Waits
    <3> QED  BY <1>2, <2>3, <3>1, <3>2 DEF PipeInv, Unread
  <2>8. Alone'
    <3> SUFFICES ASSUME NEW u \in Threads, NEW v \in Threads,
                        NEW n \in DOMAIN wk'[u].batch, NEW m \in DOMAIN wk'[v].batch,
                        wk'[u].batch[n].ev \in Threads, wk'[u].batch[n].ev = wk'[v].batch[m].ev
                 PROVE  u = v /\ n = m
      BY DEF Alone
    <3>1. CASE u = t /\ v = t
      BY <2>5, <2>6, <3>1
    <3>2. CASE u = t /\ v # t
      BY <2>3, <2>4, <2>6, <3>2 DEF InBatch
    <3>3. CASE u # t /\ v = t
      BY <2>3, <2>4, <2>6, <3>3 DEF InBatch
    <3>4. CASE u # t /\ v # t
      BY <2>6, <3>4 DEF PipeInv, Alone
    <3> QED  BY <3>1, <3>2, <3>3, <3>4
  <2> QED  BY <1>2, <2>7, <2>8 DEF PipeInv, PipesOK
<1>3. CASE UNCHANGED pipe /\ Enable(t)
  <2>1. PICK w : Becoming(t, w) /\ w.batch = <<>>
    BY <1>3, EnableFacts
  <2>2. DOMAIN wk'[t].batch = {} /\ \A u \in Threads \ {t} : wk'[u] = wk[u]
    BY <2>1 DEF Becoming
  <2>3. Alone' /\ Unread'
    BY <1>3, <2>2 DEF PipeInv, Unread, Alone, Waits
  <2> QED  BY <1>3, <2>3 DEF PipeInv, PipesOK
<1> QED  BY <1>1, <1>2, <1>3, WorkerPipes, ReadsFacts

\* Those between the queue and the pipe of thread i.
Pushed(i) == {p \in Posters : poster[p].pc = "write" /\ poster[p].tid = i}

\* There are two posters.
LEMMA PushedFinite ==
  ASSUME NEW S \in SUBSET Posters
  PROVE  IsFiniteSet(S) /\ Cardinality(S) \in Nat
<1>1. IsFiniteSet(Posters)
  <2>1. IsFiniteSet({"main"})
    BY FS_Singleton
  <2>2. Posters = {"main"} \cup {"io"}
    BY DEF Posters
  <2> QED  BY <2>1, <2>2, FS_AddElement
<1> QED  BY <1>1, FS_Subset, FS_CardinalityType

\* A worker's step keeps every queue in step with its pipe.
LEMMA WorkerMatches ==
  ASSUME TypeInv, PipeInv, QueueMatches, NEW t \in Threads, Worker(t)
  PROVE  QueueMatches'
<1> SUFFICES ASSUME NEW j \in Threads
             PROVE  Len(cq'[j]) = Count(pipe'[j], "c") + Cardinality(Pushed(j)')
  BY DEF QueueMatches, Between, Pushed
<1>1. Pushed(j)' = Pushed(j) /\ Cardinality(Pushed(j)) \in Nat
  <2>1. poster' = poster
    BY CountStep DEF Quiet
  <2>2. Pushed(j) \in SUBSET Posters
    BY DEF Pushed
  <2> QED  BY <2>1, <2>2, PushedFinite DEF Pushed
<1>2. Len(cq[j]) = Count(pipe[j], "c") + Cardinality(Pushed(j))
  BY DEF QueueMatches, Between, Pushed
<1>3. cq[j] \in Seq(QueueRec) /\ pipe[j] \in Pipe /\ j \in DOMAIN cq /\ j \in DOMAIN pipe
  BY DEF TypeInv, PipeInv, PipesOK
<1>4. CASE UNCHANGED <<pipe, cq>>
  BY <1>1, <1>2, <1>4
<1>5. CASE Reads(t, "p") /\ cq' = cq
  <2>1. CASE Current(t) = j
    <3>1. pipe'[j] = Tail(pipe[j]) /\ pipe[j] # <<>> /\ Head(pipe[j]) = "p"
      BY <1>3, <1>5, <2>1, ReadsFacts DEF Reads
    <3>2. Count(pipe'[j], "c") = Count(pipe[j], "c") /\ Count(pipe[j], "c") \in Nat
      BY <1>3, <3>1, CountFacts
    <3> QED  BY <1>1, <1>2, <1>5, <3>2
  <2>2. CASE Current(t) # j
    <3>1. pipe'[j] = pipe[j]
      BY <1>3, <1>5, <2>2 DEF Reads
    <3> QED  BY <1>1, <1>2, <1>5, <3>1
  <2> QED  BY <2>1, <2>2
<1>6. CASE Reads(t, "c") /\ cq' = [cq EXCEPT ![Current(t)] = IF @ = <<>> THEN @ ELSE Tail(@)]
  <2>1. CASE Current(t) = j
    <3>1. pipe'[j] = Tail(pipe[j]) /\ pipe[j] # <<>> /\ Head(pipe[j]) = "c"
      BY <1>3, <1>6, <2>1, ReadsFacts DEF Reads
    <3>2. Count(pipe'[j], "c") = Count(pipe[j], "c") - 1 /\ Count(pipe[j], "c") \in Nat
          /\ Count(Tail(pipe[j]), "c") \in Nat
      <4>1. Tail(pipe[j]) \in Pipe
        BY <1>3, <3>1, HeadTailProperties DEF Pipe
      <4> QED  BY <1>3, <3>1, <4>1, CountFacts
    <3>3. Len(cq[j]) > 0
      BY <1>1, <1>2, <3>1, <3>2
    <3>4. cq[j] # <<>>
      BY <3>3
    <3>5. cq'[j] = Tail(cq[j])
      BY <1>3, <1>6, <2>1, <3>4
    <3>6. Len(cq'[j]) = Len(cq[j]) - 1
      BY <1>3, <3>4, <3>5, QueueTail
    <3> QED  BY <1>1, <1>2, <3>2, <3>6
  <2>2. CASE Current(t) # j
    <3>1. pipe'[j] = pipe[j] /\ cq'[j] = cq[j]
      BY <1>3, <1>6, <2>2 DEF Reads
    <3> QED  BY <1>1, <1>2, <3>1
  <2> QED  BY <2>1, <2>2
<1> QED  BY <1>4, <1>5, <1>6, WorkerPipes

\* So do the posters, the maintenance thread and the clients.
LEMMA OutsideMatches ==
  ASSUME TypeInv, PipeInv, QueueMatches,
         \/ \E p \in Posters : Poster(p)
         \/ MainInit \/ IoThread \/ Maintenance \/ PauseLock \/ UNCHANGED vars
         \/ \E c \in Conns, s \in cfg.scripts, pri \in BOOLEAN : Accept(c, s, pri)
         \/ \E c \in Conns : Send(c) \/ Hangup(c)
  PROVE  PipeInv' /\ QueueMatches'
<1>1. \A j \in Threads : /\ Len(cq[j]) = Count(pipe[j], "c") + Cardinality(Pushed(j))
                         /\ cq[j] \in Seq(QueueRec) /\ pipe[j] \in Pipe /\ j \in DOMAIN cq /\ j \in DOMAIN pipe
                         /\ IsFiniteSet(Pushed(j)) /\ Cardinality(Pushed(j)) \in Nat
  BY PushedFinite DEF QueueMatches, Between, Pushed, TypeInv, PipeInv, PipesOK
<1>2. ASSUME UNCHANGED wk, PipesOK', \A j \in Threads : pipe[j] # <<>> => pipe'[j] # <<>>
      PROVE  PipeInv'
  BY <1>2 DEF PipeInv, Unread, Alone, Waits
<1>3. ASSUME UNCHANGED <<wk, pipe, cq>>, \A j \in Threads : Pushed(j)' = Pushed(j)
      PROVE  PipeInv' /\ QueueMatches'
  <2>1. QueueMatches'
    BY <1>1, <1>3 DEF QueueMatches, Between, Pushed
  <2> QED  BY <1>2, <1>3, <2>1 DEF PipeInv, PipesOK
<1>4. ASSUME NEW p \in Posters, CqPush(p) PROVE PipeInv' /\ QueueMatches'
  <2> DEFINE e == [conn |-> poster[p].conn, mode |-> poster[p].mode]
  <2>1. /\ poster[p].pc = "push" /\ poster' = [poster EXCEPT ![p] = [@ EXCEPT !.pc = "write"]]
        /\ UNCHANGED <<wk, pipe>> /\ cq' = [cq EXCEPT ![poster[p].tid] = Append(@, e)]
    BY <1>4 DEF CqPush, Pushes, Advance
  <2>2. /\ poster'[p].pc = "write" /\ poster'[p].tid = poster[p].tid
        /\ \A q \in Posters \ {p} : poster'[q] = poster[q]
    BY <2>1 DEF TypeInv, PostersOK, PosterOK
  <2>3. PipeInv'
    BY <1>2, <2>1 DEF PipeInv, PipesOK
  <2>4. ASSUME NEW j \in Threads PROVE Len(cq'[j]) = Count(pipe'[j], "c") + Cardinality(Pushed(j)')
    <3>1. CASE j = poster[p].tid
      <4>1. Pushed(j)' = Pushed(j) \cup {p} /\ p \notin Pushed(j)
        BY <2>1, <2>2, <3>1 DEF Pushed
      <4>2. Cardinality(Pushed(j)') = Cardinality(Pushed(j)) + 1
        BY <1>1, <4>1, FS_AddElement
      <4>3. cq'[j] = Append(cq[j], e)
        BY <1>1, <2>1, <3>1
      <4>4. e \in QueueRec
        BY <2>1 DEF TypeInv, PostersOK, PosterOK, QueueRec
      <4> HIDE DEF e
      <4>5. Len(cq'[j]) = Len(cq[j]) + 1
        BY <1>1, <4>3, <4>4, AppendProperties
      <4> QED  BY <1>1, <2>1, <4>2, <4>5, CountFacts
    <3>2. CASE j # poster[p].tid
      <4>1. Pushed(j)' = Pushed(j) /\ cq'[j] = cq[j]
        BY <1>1, <2>1, <2>2, <3>2 DEF Pushed
      <4> QED  BY <1>1, <2>1, <4>1
    <3> QED  BY <3>1, <3>2
  <2> QED  BY <2>3, <2>4 DEF QueueMatches, Between, Pushed
<1>5. ASSUME NEW p \in Posters, PipeWrite(p) PROVE PipeInv' /\ QueueMatches'
  <2>1. /\ poster[p].pc = "write" /\ poster' = [poster EXCEPT ![p] = Resting]
        /\ UNCHANGED <<wk, cq>> /\ pipe' = [pipe EXCEPT ![poster[p].tid] = Append(@, "c")]
    BY <1>5 DEF PipeWrite, Pushes, Advance
  <2>2. poster'[p].pc = "idle" /\ \A q \in Posters \ {p} : poster'[q] = poster[q]
    BY <2>1 DEF TypeInv, PostersOK, Resting
  <2>3. \A j \in Threads : Append(pipe[j], "c") \in Pipe /\ Append(pipe[j], "c") # <<>>
    BY <1>1, AppendProperties DEF Pipe
  <2>4. \A j \in Threads : pipe'[j] = IF j = poster[p].tid THEN Append(pipe[j], "c") ELSE pipe[j]
    BY <1>1, <2>1
  <2>5. PipesOK'
    <3>1. DOMAIN pipe' = Threads /\ pipe' = [j \in Threads |-> pipe'[j]]
      BY <2>1 DEF PipeInv, PipesOK
    <3>2. \A j \in Threads : pipe'[j] \in Pipe
      BY <1>1, <2>3, <2>4
    <3> HIDE DEF Pipe
    <3> QED  BY <3>1, <3>2 DEF PipesOK
  <2>6. PipeInv'
    BY <1>2, <2>1, <2>3, <2>4, <2>5
  <2>7. ASSUME NEW j \in Threads PROVE Len(cq'[j]) = Count(pipe'[j], "c") + Cardinality(Pushed(j)')
    <3>1. CASE j = poster[p].tid
      <4>1. Pushed(j)' = Pushed(j) \ {p} /\ p \in Pushed(j)
        BY <2>1, <2>2, <3>1 DEF Pushed
      <4>2. Cardinality(Pushed(j)') = Cardinality(Pushed(j)) - 1
        BY <1>1, <4>1, FS_RemoveElement
      <4>3. Count(pipe'[j], "c") = Count(pipe[j], "c") + 1 /\ Count(pipe[j], "c") \in Nat
        BY <1>1, <2>4, <3>1, CountFacts
      <4> QED  BY <1>1, <2>1, <4>2, <4>3
    <3>2. CASE j # poster[p].tid
      <4>1. Pushed(j)' = Pushed(j) /\ pipe'[j] = pipe[j]
        BY <2>1, <2>2, <2>4, <3>2 DEF Pushed
      <4> QED  BY <1>1, <2>1, <4>1
    <3> QED  BY <3>1, <3>2
  <2> QED  BY <2>6, <2>7 DEF QueueMatches, Between, Pushed
<1>6. CASE PauseWrite
  <2>1. pipe' = [i \in Threads |-> Append(pipe[i], "p")] /\ UNCHANGED <<wk, cq, poster>>
    BY <1>6 DEF PauseWrite, Notified
  <2>2. \A j \in Threads : Append(pipe[j], "p") \in Pipe /\ Append(pipe[j], "p") # <<>>
    <3>1. ASSUME NEW q \in Pipe PROVE Append(q, "p") \in Pipe /\ Append(q, "p") # <<>>
      BY AppendProperties DEF Pipe
    <3> QED  BY <1>1, <3>1
  <2>3. PipeInv'
    BY <1>2, <2>1, <2>2 DEF PipesOK
  <2>4. \A j \in Threads : Count(pipe'[j], "c") = Count(pipe[j], "c")
    BY <1>1, <2>1, CountFacts
  <2> QED  BY <1>1, <2>1, <2>3, <2>4 DEF QueueMatches, Between, Pushed
<1>7. CASE PauseDone \/ Resume \/ PauseLock \/ UNCHANGED vars
  <2>1. UNCHANGED <<wk, pipe, cq, poster>>
    BY <1>7 DEF PauseDone, Resume, PauseLock, vars
  <2> QED  BY <1>3, <2>1 DEF Pushed
<1>8. CASE MainInit
  <2>1. UNCHANGED <<wk, pipe, cq>> /\ poster["main"].pc = "init"
        /\ poster' = [poster EXCEPT !["main"] = Resting]
    BY <1>8 DEF MainInit
  <2>2. \A j \in Threads : Pushed(j)' = Pushed(j)
    BY <2>1 DEF Pushed, TypeInv, PostersOK, Resting
  <2> QED  BY <1>3, <2>1, <2>2
<1>9. ASSUME NEW p \in Posters, NEW c \in Conns, NEW m \in {"new", "redispatch"}, Post(p, c, m),
             poster[p].pc = "idle", UNCHANGED <<wk, pipe, cq>>
      PROVE  PipeInv' /\ QueueMatches'
  <2>1. \A j \in Threads : Pushed(j)' = Pushed(j)
    BY <1>9, PostFacts DEF Pushed
  <2> QED  BY <1>3, <1>9, <2>1
<1>10. ASSUME NEW c \in Conns, IoDone(c) PROVE PipeInv' /\ QueueMatches'
  BY <1>9, <1>10 DEF IoDone, Posters
<1>11. ASSUME NEW c \in Conns, NEW s \in cfg.scripts, NEW pri \in BOOLEAN, Accept(c, s, pri)
       PROVE  PipeInv' /\ QueueMatches'
  BY <1>9, <1>11 DEF Accept, Posters
<1>12. ASSUME NEW c \in Conns, Send(c) \/ Hangup(c) PROVE PipeInv' /\ QueueMatches'
  <2>1. UNCHANGED <<wk, pipe, cq, poster>>
    BY <1>12 DEF Send, Hangup
  <2> QED  BY <1>3, <2>1 DEF Pushed
<1> QED  BY <1>4, <1>5, <1>6, <1>7, <1>8, <1>10, <1>11, <1>12 DEF Poster, IoThread, Maintenance

\* Pipes and queues are empty initially.
LEMMA InitPipes == Init => PipeInv /\ QueueMatches
<1> SUFFICES ASSUME Init PROVE PipeInv /\ QueueMatches
  OBVIOUS
<1>1. \A i \in Threads : pipe[i] = <<>> /\ cq[i] = <<>>
  BY DEF Init
<1>2. \A t \in Threads : DOMAIN wk[t].batch = {}
  <2>1. \A t \in Threads : wk[t].batch = <<>>
    BY DEF Init, NewWorker
  <2> QED  BY <2>1
<1>3. PipesOK
  <2>1. <<>> \in Pipe
    BY DEF Pipe
  <2> QED  BY <2>1 DEF Init, PipesOK
<1>4. PipeInv
  BY <1>2, <1>3 DEF PipeInv, Unread, Alone, Waits
<1>5. \A i \in Threads : Pushed(i) = {}
  BY DEF Init, Pushed, Resting
<1>6. ASSUME NEW i \in Threads PROVE Len(cq[i]) = Count(pipe[i], "c") + Between(i)
  <2>1. {n \in DOMAIN pipe[i] : pipe[i][n] = "c"} = {}
    BY <1>1
  <2>2. Count(pipe[i], "c") = 0 /\ Between(i) = 0
    BY <1>5, <2>1, FS_EmptySet DEF Count, Between, Pushed
  <2> QED  BY <1>1, <2>2
<1> QED  BY <1>4, <1>6 DEF QueueMatches

\* Every step keeps pipes and queues in step.
LEMMA NextPipes == TypeInv /\ PipeInv /\ QueueMatches /\ [Next]_vars => PipeInv' /\ QueueMatches'
BY WorkerPipeInv, WorkerMatches, OutsideMatches DEF Next

(* Every connection in a queue has its byte in the pipe, or somebody about *)
(* to write it, whichever worker reads the pipe: cq_pop in                 *)
(* thread_libevent_process never finds the queue empty, and no worker      *)
(* reads a pipe without a byte.                                            *)
THEOREM QueuesInStep == Spec => [](QueueMatches /\ Unread)
<1>1. PipeInv => Unread
  BY DEF PipeInv
<1> QED  BY <1>1, InitType, NextType, InitPipes, NextPipes, PTL DEF Spec

(* Every state has the types that TypeOK names.                            *)
THEOREM TypeCorrect == Spec => []TypeOK
<1>1. TypeInv /\ PipeInv /\ PauseInv => TypeOK
  <2> SUFFICES ASSUME TypeInv, PipeInv, PauseInv PROVE TypeOK
    OBVIOUS
  <2>1. \A i \in Threads : cq[i] \in Seq(QueueRec) /\ pipe[i] \in Seq({"c", "p"})
    BY DEF TypeInv, PipeInv, PipesOK, Pipe
  <2>2. \A i \in Threads : \A n \in DOMAIN cq[i] : cq[i][n] \in QueueRec
    BY <2>1
  <2>3. \A i \in Threads : \A n \in DOMAIN pipe[i] : pipe[i][n] \in {"c", "p"}
    BY <2>1
  <2>4. \A c \in Conns : cn[c].reg \in {NULL, "R", "W"} /\ cn[c].thread \in Threads \cup {NULL}
    BY DEF TypeInv, ConnsOK, ConnOK
  <2>5. cfg \in Configs /\ last_thread \in Threads /\ init_count \in Nat /\ hang \in BOOLEAN
    BY DEF TypeInv, PauseInv
  <2> QED  BY <2>2, <2>3, <2>4, <2>5 DEF TypeOK, QueueRec
<1>2. Init => PauseInv
  BY InitPause
<1> QED  BY <1>1, <1>2, InitType, NextType, InitPipes, NextPipes, PauseStep, PTL DEF Spec

-----------------------------------------------------------------------------
(* What a client has sent, and how far drive_machine has come with it *)

\* The tokens a connection has yet to execute: read, received and not sent.
Stream(x) == x.rbuf \o x.sock \o x.script

\* Data blocks follow the lines of storage commands and stand nowhere else; b
\* says whether one comes first.
Storing == {"set", "setq"}
Paired(q, b) == \A i \in DOMAIN q : q[i] = "data" <=> IF i = 1 THEN b ELSE q[i - 1] \in Storing

\* Where memory may be short, no storage command has noreply.
Fits(q, b, f) == Paired(q, b) /\ ("oom" \in f => \A i \in DOMAIN q : q[i] # "setq")

\* What clients send in a configuration is a sequence of whole commands.
Orderly(s) == \A q \in s.scripts : Fits(q, FALSE, s.faults)

\* A data block is wanted: it is stored, or swallowed.
Due(x) == x.rl > 0 \/ x.sb > 0

\* The state of a connection says what comes next in its input.
Synced(x, f) ==
  /\ ~x.bad /\ x.rl \in {0, 1} /\ x.sb \in {0, 1}
  /\ ~x.open => x.state = "conn_closed"
  /\ x.state = "conn_closed" => x.rbuf = <<>>
  /\ x.open /\ x.state = "conn_closed" => Fits(Stream(x), FALSE, f)
  /\ x.state \notin {"conn_closed", "conn_closing"} =>
       /\ Fits(Stream(x), Due(x), f)
       /\ x.rl > 0 => x.state = "conn_nread"
       /\ x.sb > 0 => x.state = "conn_swallow" \/ (x.state = "conn_write" /\ x.go = "conn_swallow")
       /\ x.go \in {"conn_new_cmd", "conn_swallow"}

\* A connection on its way to a worker is new, or its value was read.
Stage(mode) == IF mode = "redispatch" THEN "conn_watch" ELSE "conn_closed"
Stages ==
  /\ \A c \in Conns : cn[c].io = "queued" => cn[c].state = "conn_watch"
  /\ \A i \in Threads : \A n \in DOMAIN cq[i] : cn[cq[i][n].conn].state = Stage(cq[i][n].mode)
  /\ \A p \in Posters : poster[p].pc = "push" => cn[poster[p].conn].state = Stage(poster[p].mode)
  /\ \A t \in Threads : /\ wk[t].pc = "readd" => cn[wk[t].conn].state = "conn_new_cmd"
                        /\ wk[t].pc = "setread" => cn[wk[t].conn].state = "conn_waiting"

AllSynced == \A c \in Conns : Synced(cn[c], cfg.faults)

\* A stream that is not empty: its first token, and the rest of it.
LEMMA FitsTail ==
  ASSUME NEW q \in Text, q # <<>>, NEW b, NEW f, Fits(q, b, f)
  PROVE  /\ Head(q) \in Tokens /\ Tail(q) \in Text /\ (Head(q) = "data" <=> b)
         /\ "oom" \in f => Head(q) # "setq"
         /\ Fits(Tail(q), Head(q) \in Storing, f)
<1>1. /\ Head(q) \in Tokens /\ Tail(q) \in Text /\ Head(q) = q[1] /\ Len(q) \in Nat /\ Len(q) > 0
      /\ DOMAIN q = 1 .. Len(q) /\ Len(Tail(q)) = Len(q) - 1 /\ DOMAIN Tail(q) = 1 .. Len(q) - 1
      /\ \A i \in 1 .. Len(q) - 1 : Tail(q)[i] = q[i + 1]
  BY HeadTailProperties, LenProperties DEF Text
<1>2. 1 \in DOMAIN q
  BY <1>1
<1>3. (q[1] = "data" <=> b) /\ ("oom" \in f => q[1] # "setq")
  BY <1>2 DEF Fits, Paired
<1>4. ASSUME NEW i \in DOMAIN Tail(q)
      PROVE  /\ Tail(q)[i] = "data" <=> IF i = 1 THEN Head(q) \in Storing ELSE Tail(q)[i - 1] \in Storing
             /\ "oom" \in f => Tail(q)[i] # "setq"
  <2>1. i + 1 \in DOMAIN q /\ i + 1 # 1 /\ (i + 1) - 1 = i /\ Tail(q)[i] = q[i + 1]
        /\ (i # 1 => Tail(q)[i - 1] = q[i])
    <3>1. i \in Int /\ i >= 1 /\ i <= Len(q) - 1
      BY <1>1
    <3>2. i # 1 => i - 1 \in 1 .. Len(q) - 1 /\ (i - 1) + 1 = i
      BY <1>1, <3>1
    <3> QED BY <1>1, <3>1, <3>2
  <2>2. q[i + 1] = "data" <=> q[i] \in Storing
    BY <2>1 DEF Fits, Paired
  <2>3. "oom" \in f => q[i + 1] # "setq"
    BY <2>1 DEF Fits
  <2> QED BY <1>1, <2>1, <2>2, <2>3
<1>5. Fits(Tail(q), Head(q) \in Storing, f)
  BY <1>4 DEF Fits, Paired
<1> QED BY <1>1, <1>3, <1>5

\* Taking the first token, from where it is.
LEMMA TailConcat ==
  ASSUME NEW a \in Text, NEW b \in Text, a # <<>>
  PROVE  Tail(a) \o b = Tail(a \o b) /\ Head(a \o b) = Head(a) /\ a \o b # <<>> /\ a \o b \in Text
<1>1. /\ Head(a) = a[1] /\ Tail(a) \in Text /\ Len(Tail(a)) = Len(a) - 1 /\ Len(a) \in Nat /\ Len(a) > 0
      /\ \A i \in 1 .. Len(a) - 1 : Tail(a)[i] = a[i + 1]
  BY HeadTailProperties, LenProperties DEF Text
<1>2. /\ a \o b \in Text /\ Len(a \o b) = Len(a) + Len(b) /\ Len(b) \in Nat
      /\ \A i \in 1 .. Len(a) + Len(b) : (a \o b)[i] = IF i <= Len(a) THEN a[i] ELSE b[i - Len(a)]
  BY ConcatProperties, LenProperties DEF Text
<1>3. /\ Tail(a) \o b \in Text /\ Len(Tail(a) \o b) = Len(a) - 1 + Len(b)
      /\ \A i \in 1 .. Len(a) - 1 + Len(b) :
           (Tail(a) \o b)[i] = IF i <= Len(a) - 1 THEN Tail(a)[i] ELSE b[i - (Len(a) - 1)]
  BY <1>1, ConcatProperties DEF Text
<1>4. a \o b # <<>> /\ Head(a \o b) = (a \o b)[1]
  BY <1>1, <1>2 DEF Text
<1>5. /\ Tail(a \o b) \in Text /\ Len(Tail(a \o b)) = Len(a) + Len(b) - 1
      /\ \A i \in 1 .. Len(a) + Len(b) - 1 : Tail(a \o b)[i] = (a \o b)[i + 1]
  BY <1>2, <1>4, HeadTailProperties DEF Text
<1>6. ASSUME NEW i \in 1 .. Len(a) + Len(b) - 1 PROVE (Tail(a) \o b)[i] = Tail(a \o b)[i]
  <2>1. i \in Int /\ i >= 1 /\ i <= Len(a) + Len(b) - 1
    BY <1>1, <1>2
  <2>2. i \in 1 .. Len(a) - 1 + Len(b) /\ i + 1 \in 1 .. Len(a) + Len(b) /\ (i + 1) - Len(a) = i - (Len(a) - 1)
    BY <1>1, <1>2, <2>1
  <2>3. CASE i <= Len(a) - 1
    <3>1. i \in 1 .. Len(a) - 1 /\ i + 1 <= Len(a)
      BY <1>1, <2>1, <2>3
    <3> QED BY <1>1, <1>2, <1>3, <1>5, <2>2, <2>3, <3>1
  <2>4. CASE ~(i <= Len(a) - 1)
    <3>1. ~(i + 1 <= Len(a))
      BY <1>1, <2>1, <2>4
    <3> QED BY <1>2, <1>3, <1>5, <2>2, <2>4, <3>1
  <2> QED BY <2>3, <2>4
<1>7. Tail(a) \o b = Tail(a \o b)
  <2>1. Len(Tail(a) \o b) = Len(Tail(a \o b)) /\ Len(Tail(a) \o b) = Len(a) + Len(b) - 1
    BY <1>1, <1>2, <1>3, <1>5
  <2> HIDE DEF Text
  <2>2. \A i \in 1 .. Len(Tail(a) \o b) : (Tail(a) \o b)[i] = Tail(a \o b)[i]
    BY <1>6, <2>1
  <2> QED BY <1>3, <1>5, <2>1, <2>2, SeqEqual DEF Text
<1>8. 1 \in 1 .. Len(a) + Len(b) /\ 1 <= Len(a)
  BY <1>1, <1>2
<1>9. Head(a \o b) = Head(a)
  BY <1>1, <1>2, <1>4, <1>8
<1> QED BY <1>2, <1>4, <1>7, <1>9

\* Tokens move from the client to the socket and to the buffer in order.
LEMMA StreamFacts ==
  ASSUME NEW a \in Text, NEW s \in Text, NEW r \in Text
  PROVE  /\ a \o s \o r \in Text
         /\ (a \o s) \o <<>> \o r = a \o s \o r
         /\ <<>> \o <<>> \o r = r
         /\ a # <<>> => /\ a \o s \o r # <<>> /\ Head(a \o s \o r) = Head(a)
                        /\ Tail(a) \o s \o r = Tail(a \o s \o r)
         /\ a = <<>> /\ s # <<>> => /\ a \o s \o r # <<>> /\ Head(a \o s \o r) = Head(s)
                                    /\ a \o Tail(s) \o r = Tail(a \o s \o r)
         /\ r # <<>> => a \o Append(s, Head(r)) \o Tail(r) = a \o s \o r
<1>1. \A x, y \in Text : x \o y \in Text
  BY ConcatProperties DEF Text
<1>2. \A x \in Text : x \o <<>> = x /\ <<>> \o x = x
  BY ConcatEmptySeq DEF Text
<1>3. ASSUME NEW x \in Text, NEW y \in Text, NEW z \in Text PROVE (x \o y) \o z = x \o (y \o z)
  <2>1. x \in Seq(Tokens) /\ y \in Seq(Tokens) /\ z \in Seq(Tokens)
    BY DEF Text
  <2> QED BY <2>1, ConcatAssociative
<1>4. <<>> \in Text
  BY EmptySeq DEF Text
<1>5. a \o s \o r \in Text /\ (a \o s) \o <<>> \o r = a \o s \o r /\ <<>> \o <<>> \o r = r
  BY <1>1, <1>2, <1>4
<1>6. ASSUME a # <<>>
      PROVE  /\ a \o s \o r # <<>> /\ Head(a \o s \o r) = Head(a)
             /\ Tail(a) \o s \o r = Tail(a \o s \o r)
  <2>0. Tail(a) \in Text
    BY <1>6, TextTail
  <2>a. a \o s \o r = a \o (s \o r)
    BY <1>3
  <2>1. s \o r \in Text /\ a \o s \o r = a \o (s \o r) /\ Tail(a) \in Text
    BY <1>1, <2>0, <2>a
  <2>2. Tail(a) \o s \o r = Tail(a) \o (s \o r)
    BY <1>3, <2>1
  <2>3. PICK b \in Text : b = s \o r
    BY <2>1
  <2>4. Tail(a) \o b = Tail(a \o b) /\ Head(a \o b) = Head(a) /\ a \o b # <<>>
    BY <1>6, TailConcat
  <2> QED BY <2>1, <2>2, <2>3, <2>4, Zenon
<1>7. ASSUME a = <<>>, s # <<>>
      PROVE  /\ a \o s \o r # <<>> /\ Head(a \o s \o r) = Head(s)
             /\ a \o Tail(s) \o r = Tail(a \o s \o r)
  <2>1. Tail(s) \in Text
    BY <1>7, TextTail
  <2>2. a \o s = s /\ a \o Tail(s) = Tail(s)
    BY <1>2, <1>7, <2>1
  <2> QED BY <1>7, <2>2, TailConcat
<1>8. ASSUME r # <<>> PROVE a \o Append(s, Head(r)) \o Tail(r) = a \o s \o r
  <2>1. Head(r) \in Tokens /\ Tail(r) \in Text
    BY <1>8, TextTail
  <2>2. <<Head(r)>> \in Text /\ Append(s, Head(r)) = s \o <<Head(r)>>
    BY <2>1, AppendIsConcat DEF Text
  <2>3. r = <<Head(r)>> \o Tail(r)
    BY <1>8 DEF Text
  <2>4. PICK h \in Text, v \in Text : h = <<Head(r)>> /\ v = Tail(r)
    BY <2>1, <2>2
  <2>a. a \o s \in Text
    BY <1>1
  <2>b. (a \o s) \o h = a \o (s \o h)
    BY <1>3
  <2>5. a \o (s \o h) = (a \o s) \o h /\ a \o s \in Text
    BY <2>a, <2>b
  <2>6. ((a \o s) \o h) \o v = (a \o s) \o (h \o v)
    BY <1>3, <2>5
  <2>7. a \o Append(s, Head(r)) \o Tail(r) = (a \o s) \o (h \o v)
    BY <2>2, <2>4, <2>5, <2>6, Zenon
  <2> QED BY <2>3, <2>4, <2>7, Zenon
<1> QED BY <1>5, <1>6, <1>7, <1>8

-----------------------------------------------------------------------------
(* What each state of drive_machine does to the input *)

Ended == {"conn_closed", "conn_closing"}
SameInput(x, y) ==
  /\ y.open = x.open /\ y.rbuf = x.rbuf /\ y.sock = x.sock /\ y.script = x.script
  /\ y.rl = x.rl /\ y.sb = x.sb /\ y.go = x.go /\ y.bad = x.bad

\* Nothing is due, or what is due is wanted in this state.
LEMMA MakeSynced ==
  ASSUME NEW y, NEW f, y.open, ~y.bad, y.rl \in {0, 1}, y.sb \in {0, 1}, y.state \notin Ended,
         y.go \in {"conn_new_cmd", "conn_swallow"}, Fits(Stream(y), Due(y), f),
         y.rl = 1 => y.state = "conn_nread",
         y.sb = 1 => y.state = "conn_swallow" \/ (y.state = "conn_write" /\ y.go = "conn_swallow")
  PROVE  Synced(y, f)
<1>1. (y.rl > 0 => y.rl = 1) /\ (y.sb > 0 => y.sb = 1)
  OBVIOUS
<1> QED BY <1>1 DEF Synced, Ended

\* Going to another state of drive_machine without touching the input.
LEMMA SameSynced ==
  ASSUME NEW x, NEW y, NEW f, Synced(x, f), SameInput(x, y),
         \/ y.state = x.state
         \/ x.open /\ x.state \notin Ended /\ y.state = "conn_closing"
         \/ x.open /\ x.state \notin Ended /\ ~Due(x) /\ y.state # "conn_closed"
         \/ x.open /\ x.state = "conn_write" /\ y.state = x.go
  PROVE  Synced(y, f)
<1>1. Stream(y) = Stream(x) /\ Due(y) = Due(x)
  BY DEF SameInput, Stream, Due
<1>2. CASE y.state = x.state
  BY <1>1, <1>2 DEF SameInput, Synced
<1>3. CASE x.open /\ x.state \notin Ended /\ y.state = "conn_closing"
  BY <1>1, <1>3 DEF SameInput, Synced, Ended
<1>4. CASE x.open /\ x.state \notin Ended /\ ~Due(x) /\ y.state # "conn_closed"
  <2>1. x.rl = 0 /\ x.sb = 0
    BY <1>4 DEF Synced, Due
  <2> QED BY <1>1, <1>4, <2>1 DEF SameInput, Synced, Ended
<1>5. CASE x.open /\ x.state = "conn_write" /\ y.state = x.go
  <2>1. x.rl = 0 /\ x.go \in {"conn_new_cmd", "conn_swallow"}
    BY <1>5 DEF Synced
  <2> QED BY <1>1, <1>5, <2>1 DEF SameInput, Synced
<1> QED BY <1>2, <1>3, <1>4, <1>5

\* update_event registers the connection and leaves its input alone.
LEMMA UpdatedSame ==
  ASSUME NEW x, ConnOK(x), NEW r \in {"R", "W"}
  PROVE  SameInput(x, Updated(x, r)) /\ Updated(x, r).state = x.state /\ Updated(x, r).io = x.io
BY DEF SameInput, Updated, ConnOK, Fields, NoConn

\* A connection in a state of drive_machine, with nothing but the next command due.
AtCommand(x, f) == Synced(x, f) /\ x.open /\ x.state \notin Ended /\ ~Due(x)

\* The states in which a command line is expected.
LEMMA CommandStates ==
  ASSUME NEW x, NEW f, Synced(x, f), x.open,
         \/ x.state \in {"conn_new_cmd", "conn_waiting", "conn_read", "conn_parse_cmd", "conn_mwrite", "conn_watch"}
         \/ x.state = "conn_nread" /\ x.rl = 0
         \/ x.state = "conn_swallow" /\ x.sb = 0
  PROVE  AtCommand(x, f)
<1>1. x.rl \in {0, 1} /\ x.sb \in {0, 1} /\ x.state \notin Ended
  BY DEF Synced, Ended
<1>2. x.rl = 0 /\ x.sb = 0
  BY <1>1 DEF Synced, Ended
<1> QED BY <1>1, <1>2 DEF AtCommand, Due

\* out_string, when the next token is a command: the state is conn_write or, with
\* noreply, conn_new_cmd.
LEMMA SaysSynced ==
  ASSUME NEW x, ConnOK(x), NEW f, ~x.bad, x.open, x.rl = 0, x.sb = 0,
         x.go \in {"conn_new_cmd", "conn_swallow"}, Fits(Stream(x), FALSE, f)
  PROVE  Synced(Says(x), f) /\ Says(x).io = x.io /\ Says(x).open
<1> DEFINE y == Says(x)
<1>1. /\ y.open = x.open /\ y.rbuf = x.rbuf /\ y.sock = x.sock /\ y.script = x.script
      /\ y.rl = x.rl /\ y.sb = x.sb /\ y.bad = x.bad /\ y.io = x.io
      /\ y.state \in {"conn_new_cmd", "conn_write"}
      /\ y.state = "conn_write" => y.go = "conn_new_cmd"
      /\ y.go \in {x.go, "conn_new_cmd"}
  BY DEF Says, ConnOK, Fields, NoConn
<1> HIDE DEF y
<1>2. Stream(y) = Stream(x) /\ (FALSE <=> Due(y)) /\ y.state \notin Ended
  BY <1>1 DEF Stream, Due, Ended
<1>3. Fits(Stream(y), Due(y), f)
  BY <1>2 DEF Fits, Paired
<1>4. /\ y.open /\ ~y.bad /\ y.rl = 0 /\ y.sb = 0 /\ y.go \in {"conn_new_cmd", "conn_swallow"}
      /\ y.state \notin Ended
  BY <1>1, <1>2
<1>5. Synced(y, f)
  <2>1. y.open
    BY <1>4
  <2>2. ~y.bad
    BY <1>4
  <2>3. y.rl \in {0, 1} /\ y.sb \in {0, 1} /\ y.rl # 1 /\ y.sb # 1
    BY <1>4
  <2>4. y.go \in {"conn_new_cmd", "conn_swallow"} /\ y.state \notin Ended
    BY <1>4
  <2> QED BY <1>3, <2>1, <2>2, <2>3, <2>4, MakeSynced
<1> QED BY <1>1, <1>5 DEF y

\* What is known of the next token in the stream.
LEMMA NextToken ==
  ASSUME NEW x, ConnOK(x), NEW f, Synced(x, f), x.open, x.state \notin Ended, x.rbuf # <<>> \/ x.sock # <<>>
  PROVE  LET h == Head(IF x.rbuf # <<>> THEN x.rbuf ELSE x.sock)
             s == IF x.rbuf # <<>> THEN Tail(x.rbuf) \o x.sock \o x.script
                  ELSE x.rbuf \o Tail(x.sock) \o x.script
         IN  /\ h \in Tokens /\ (h = "data" <=> Due(x)) /\ ("oom" \in f => h # "setq")
             /\ Fits(s, h \in Storing, f)
<1> DEFINE h == Head(IF x.rbuf # <<>> THEN x.rbuf ELSE x.sock)
           s == IF x.rbuf # <<>> THEN Tail(x.rbuf) \o x.sock \o x.script
                ELSE x.rbuf \o Tail(x.sock) \o x.script
<1>1. x.rbuf \in Text /\ x.sock \in Text /\ x.script \in Text
  BY DEF ConnOK
<1>2. Fits(Stream(x), Due(x), f)
  BY DEF Synced, Ended
<1>3. Stream(x) \in Text /\ Stream(x) # <<>> /\ Head(Stream(x)) = h /\ s = Tail(Stream(x))
  <2>1. PICK a \in Text, b \in Text, r \in Text : a = x.rbuf /\ b = x.sock /\ r = x.script
    BY <1>1
  <2>2. Stream(x) = a \o b \o r /\ a \o b \o r \in Text
    BY <2>1, StreamFacts DEF Stream
  <2>3. CASE a # <<>>
    <3>1. h = Head(a) /\ s = Tail(a) \o b \o r
      BY <2>1, <2>3
    <3>2. a \o b \o r # <<>> /\ Head(a \o b \o r) = Head(a) /\ Tail(a) \o b \o r = Tail(a \o b \o r)
      BY <2>3, StreamFacts
    <3> HIDE DEF h, s
    <3> QED BY <2>2, <3>1, <3>2, Zenon
  <2>4. CASE a = <<>>
    <3>1. h = Head(b) /\ s = a \o Tail(b) \o r
      BY <2>1, <2>4
    <3>0. b # <<>>
      BY <2>1, <2>4
    <3>2. a \o b \o r # <<>> /\ Head(a \o b \o r) = Head(b) /\ a \o Tail(b) \o r = Tail(a \o b \o r)
      BY <2>4, <3>0, StreamFacts
    <3> HIDE DEF h, s
    <3> QED BY <2>2, <3>1, <3>2, Zenon
  <2> QED BY <2>3, <2>4
<1> HIDE DEF h, s
<1>4. /\ Head(Stream(x)) \in Tokens /\ (Head(Stream(x)) = "data" <=> Due(x))
      /\ "oom" \in f => Head(Stream(x)) # "setq"
      /\ Fits(Tail(Stream(x)), Head(Stream(x)) \in Storing, f)
  BY <1>2, <1>3, FitsTail
<1>5. h \in Tokens /\ (h = "data" <=> Due(x)) /\ ("oom" \in f => h # "setq") /\ Fits(s, h \in Storing, f)
  BY <1>3, <1>4
<1> QED BY <1>5 DEF h, s

\* A command line is executed: never a data block, and the block of a storage
\* command is stored, or swallowed when there is no memory.
LEMMA ExecuteSynced ==
  ASSUME NEW x, ConnOK(x), NEW f, AtCommand(x, f), x.rbuf # <<>>,
         NEW fail \in BOOLEAN, fail => "oom" \in f, NEW ext \in BOOLEAN
  PROVE  /\ Synced(Execute(x, fail, ext), f) /\ Execute(x, fail, ext).open
         /\ Execute(x, fail, ext).io \in {x.io, "want", "none"}
<1> DEFINE h == Head(x.rbuf)
           z == [x EXCEPT !.rbuf = Tail(@), !.noreply = (h = "setq")]
<1>1. /\ h \in {"get", "set", "setq"} /\ (fail => h # "setq")
      /\ Fits(Tail(x.rbuf) \o x.sock \o x.script, h \in Storing, f)
  BY NextToken DEF AtCommand, Tokens
<1>2. x.rl = 0 /\ x.sb = 0 /\ ~x.bad /\ x.open /\ x.go \in {"conn_new_cmd", "conn_swallow"}
  BY DEF AtCommand, Synced, Due, Ended
<1>3. /\ DOMAIN z = Fields /\ z.rbuf = Tail(x.rbuf) /\ z.sock = x.sock /\ z.script = x.script
      /\ z.rl = 0 /\ z.sb = 0 /\ ~z.bad /\ z.open /\ z.io = x.io /\ z.go = x.go
      /\ z.noreply = (h = "setq")
  BY <1>2 DEF ConnOK, Fields, NoConn
<1>4. Execute(x, fail, ext) =
        CASE h = "get" -> [z EXCEPT !.state = "conn_mwrite", !.io = IF ext THEN "want" ELSE "none"]
          [] h \in {"set", "setq"} -> IF fail THEN NoMemory(z)
                                      ELSE [z EXCEPT !.state = "conn_nread", !.rl = 1]
          [] h = "data" -> [Says(z) EXCEPT !.bad = TRUE]
  BY DEF Execute
<1> HIDE DEF z, h
<1>5. Fits(Stream(z), h \in Storing, f)
  BY <1>1, <1>3 DEF Stream
<1>6. CASE h = "get"
  <2>1. PICK y : y = [z EXCEPT !.state = "conn_mwrite", !.io = IF ext THEN "want" ELSE "none"]
    OBVIOUS
  <2>2. SameInput(z, y) /\ y.state = "conn_mwrite" /\ y.io \in {"want", "none"}
    BY <1>3, <2>1 DEF SameInput, Fields, NoConn
  <2>3. Stream(y) = Stream(z) /\ (h \in Storing <=> Due(y)) /\ y.state \notin Ended
    BY <1>3, <1>6, <2>2 DEF SameInput, Stream, Due, Storing, Ended
  <2>8. Fits(Stream(y), Due(y), f)
    BY <1>5, <2>3 DEF Fits, Paired
  <2>4. Synced(y, f)
    BY <1>2, <1>3, <2>8, <2>2, <2>3 DEF Synced, SameInput, Ended
  <2> QED BY <1>3, <1>4, <1>6, <2>1, <2>2, <2>4 DEF SameInput
<1>7. CASE h \in {"set", "setq"} /\ ~fail
  <2>1. PICK y : y = [z EXCEPT !.state = "conn_nread", !.rl = 1]
    OBVIOUS
  <2>2. /\ y.open = z.open /\ y.rbuf = z.rbuf /\ y.sock = z.sock /\ y.script = z.script
        /\ y.rl = 1 /\ y.sb = 0 /\ y.go = z.go /\ ~y.bad /\ y.io = z.io /\ y.state = "conn_nread"
    BY <1>3, <2>1 DEF Fields, NoConn
  <2>3. Stream(y) = Stream(z) /\ (h \in Storing <=> Due(y)) /\ y.state \notin Ended
    BY <1>7, <2>2 DEF Stream, Due, Storing, Ended
  <2>8. Fits(Stream(y), Due(y), f)
    BY <1>5, <2>3 DEF Fits, Paired
  <2>4. Synced(y, f)
    BY <1>2, <1>3, <2>8, <2>2, <2>3 DEF Synced, Ended
  <2> QED BY <1>3, <1>4, <1>7, <2>1, <2>2, <2>4
<1>8. CASE h \in {"set", "setq"} /\ fail
  <2>1. h = "set" /\ z.noreply = FALSE
    BY <1>1, <1>3, <1>8
  <2>2. PICK y : y = NoMemory(z)
    OBVIOUS
  <2>3. y = [[z EXCEPT !.state = "conn_write", !.go = "conn_new_cmd"] EXCEPT !.go = "conn_swallow", !.sb = 1]
    BY <2>1, <2>2 DEF NoMemory, Says
  <2>4. /\ y.open = z.open /\ y.rbuf = z.rbuf /\ y.sock = z.sock /\ y.script = z.script
        /\ y.rl = 0 /\ y.sb = 1 /\ y.go = "conn_swallow" /\ ~y.bad /\ y.io = z.io /\ y.state = "conn_write"
    BY <1>3, <2>3 DEF Fields, NoConn
  <2>5. Stream(y) = Stream(z) /\ (h \in Storing <=> Due(y)) /\ y.state \notin Ended
    BY <1>8, <2>4 DEF Stream, Due, Storing, Ended
  <2>8. Fits(Stream(y), Due(y), f)
    BY <1>5, <2>5 DEF Fits, Paired
  <2>6. Synced(y, f)
    BY <1>2, <1>3, <2>8, <2>4, <2>5 DEF Synced, Ended
  <2> QED BY <1>3, <1>4, <1>8, <2>2, <2>4, <2>6
<1> QED BY <1>1, <1>6, <1>7, <1>8

\* The data block is taken from the buffer, or else from the socket.
LEMMA TakeSynced ==
  ASSUME NEW x, ConnOK(x), NEW f, Synced(x, f), x.open, x.rbuf # <<>> \/ x.sock # <<>>,
         NEW y, ConnOK(y), y.rbuf = x.rbuf, y.sock = x.sock, y.script = x.script, y.open, ~y.bad,
         y.go = x.go, y.io = x.io, y.state = x.state, y.rl = 0, y.sb = 0,
         x.state \in {"conn_nread", "conn_swallow"}, Due(x)
  PROVE  Synced(Take(x, y), f) /\ Take(x, y).io = x.io /\ Take(x, y).open
<1>1. PICK z : z = Take(x, y)
  OBVIOUS
<1>2. /\ z.open /\ z.script = x.script /\ z.rl = 0 /\ z.sb = 0 /\ ~z.bad /\ z.go = x.go /\ z.io = x.io
      /\ z.state = x.state
      /\ IF x.rbuf # <<>> THEN z.rbuf = Tail(x.rbuf) /\ z.sock = x.sock
         ELSE z.rbuf = x.rbuf /\ z.sock = Tail(x.sock)
  BY <1>1 DEF Take, ConnOK, Fields, NoConn
<1>3. Fits(Stream(z), FALSE, f)
  <2> DEFINE h == Head(IF x.rbuf # <<>> THEN x.rbuf ELSE x.sock)
             s == IF x.rbuf # <<>> THEN Tail(x.rbuf) \o x.sock \o x.script
                  ELSE x.rbuf \o Tail(x.sock) \o x.script
  <2>1. x.state \notin Ended
    BY DEF Ended
  <2>2. h = "data" /\ Fits(s, h \in Storing, f)
    BY <2>1, NextToken
  <2>3. s = Stream(z)
    BY <1>2 DEF Stream
  <2> HIDE DEF h, s
  <2>4. h \in Storing <=> FALSE
    BY <2>2 DEF Storing
  <2> QED BY <2>2, <2>3, <2>4 DEF Fits, Paired
<1>4. (FALSE <=> Due(z)) /\ z.go \in {"conn_new_cmd", "conn_swallow"} /\ z.state \notin Ended
  BY <1>2 DEF Due, Synced, Ended
<1>6. Fits(Stream(z), Due(z), f)
  BY <1>3, <1>4 DEF Fits, Paired
<1>5. Synced(z, f)
  <2>1. z.open
    BY <1>2
  <2>2. ~z.bad
    BY <1>2
  <2>3. z.rl \in {0, 1} /\ z.sb \in {0, 1} /\ z.rl # 1 /\ z.sb # 1
    BY <1>2
  <2> QED BY <1>4, <1>6, <2>1, <2>2, <2>3, MakeSynced
<1> QED BY <1>1, <1>2, <1>5

\* What has been received is read.
LEMMA ReadSynced ==
  ASSUME NEW x, ConnOK(x), NEW f, AtCommand(x, f)
  PROVE  LET y == [x EXCEPT !.rbuf = @ \o x.sock, !.sock = <<>>, !.state = "conn_parse_cmd"]
         IN  Synced(y, f) /\ y.io = x.io /\ y.open
<1> DEFINE y == [x EXCEPT !.rbuf = @ \o x.sock, !.sock = <<>>, !.state = "conn_parse_cmd"]
<1>1. /\ y.open = x.open /\ y.script = x.script /\ y.rl = x.rl /\ y.sb = x.sb /\ y.bad = x.bad /\ y.go = x.go
      /\ y.io = x.io /\ y.state = "conn_parse_cmd" /\ y.rbuf = x.rbuf \o x.sock /\ y.sock = <<>>
  BY DEF ConnOK, Fields, NoConn
<1> HIDE DEF y
<1>2. Stream(y) = Stream(x)
  BY <1>1, StreamFacts DEF Stream, ConnOK
<1>3. Due(y) = Due(x)
  BY <1>1 DEF Due
<1>4. Synced(y, f) /\ y.io = x.io /\ y.open
  BY <1>1, <1>2, <1>3 DEF Synced, AtCommand, Ended, Due
<1> QED BY <1>4 DEF y

\* A connection that is in order, and with the I/O thread only in conn_watch.
Sound(y, f) == Synced(y, f) /\ (y.io = "queued" => y.state = "conn_watch")
Proceeds(t, c, f) ==
  /\ Sound(cn'[c], f)
  /\ wk'[t].pc \in {"drive", "next", "setread"}
  /\ wk'[t].pc = "setread" => cn'[c].state = "conn_waiting"

\* Staying in the loop of drive_machine, and leaving it.
LEMMA EndsProceed ==
  ASSUME ConnsOK, WorkersOK, NEW t \in Threads, NEW c \in Conns, NEW f, NEW y, Sound(y, f),
         (wk[t].pc = "drive" /\ Becomes(t, c, y)) \/ Stops(t, c, y)
  PROVE  Proceeds(t, c, f)
<1>1. cn'[c] = y
  BY DEF Becomes, Stops, ConnsOK
<1>2. wk'[t].pc \in {"drive", "next"}
  BY NextHandlerMoves DEF Becomes, Stops, WorkersOK
<1> QED BY <1>1, <1>2 DEF Proceeds

\* A new state, and the answer that was with the I/O thread is sent.
At(x, s) == [x EXCEPT !.state = s]
Sent(x, s) == [x EXCEPT !.io = "none", !.state = s]
LEMMA StateSame ==
  ASSUME NEW x, ConnOK(x), NEW s
  PROVE  /\ SameInput(x, At(x, s)) /\ At(x, s).state = s /\ At(x, s).io = x.io
         /\ SameInput(x, Sent(x, s)) /\ Sent(x, s).state = s /\ Sent(x, s).io = "none"
BY DEF At, Sent, SameInput, ConnOK, Fields, NoConn

\* The states that leave the input alone.
LEMMA QuietProceeds ==
  ASSUME ConnsOK, WorkersOK, NEW t \in Threads, NEW c \in Conns, NEW f, Synced(cn[c], f),
         cn[c].open, cn[c].io # "queued", wk[t].pc = "setread" => cn[c].state = "conn_waiting",
         NewCmd(t, c) \/ Waiting(t, c) \/ SetRead(t, c) \/ Write(t, c) \/ Watch(t, c)
  PROVE  Proceeds(t, c, f)
<1> DEFINE x == cn[c]
<1>1. ConnOK(x) /\ x.open /\ x.io # "queued" /\ Synced(x, f)
  BY DEF ConnsOK
<1> HIDE DEF x
<1>2. ASSUME NEW y, SameInput(x, y), y.io = x.io, y.state = x.state PROVE Sound(y, f)
  BY <1>1, <1>2, SameSynced DEF Sound
<1>3. ASSUME NEW y, SameInput(x, y), y.io # "queued", AtCommand(x, f), y.state # "conn_closed"
      PROVE  Sound(y, f)
  <2>1. x.open /\ x.state \notin Ended /\ ~Due(x)
    BY <1>3 DEF AtCommand
  <2> QED BY <1>1, <1>3, <2>1, SameSynced DEF Sound
<1>4. Sound(x, f) /\ Sound(Updated(x, "R"), f) /\ Sound(Updated(x, "W"), f)
  BY <1>1, <1>2, UpdatedSame DEF Sound
<1>5. CASE NewCmd(t, c)
  <2>1. wk[t].pc = "drive" /\ x.state = "conn_new_cmd"
    BY <1>5 DEF NewCmd, In, x
  <2>2. CASE Stops(t, c, Yield(x))
    <3>1. Sound(Yield(x), f)
      BY <1>4 DEF Yield
    <3> QED BY <2>2, <3>1, EndsProceed
  <2>3. CASE /\ wk' = [wk EXCEPT ![t].nreqs = @ - 1]
             /\ cn' = [cn EXCEPT ![c].state = IF x.rbuf # <<>> THEN "conn_parse_cmd" ELSE "conn_waiting"]
    <3>1. PICK s \in {"conn_parse_cmd", "conn_waiting"} : s = IF x.rbuf # <<>> THEN "conn_parse_cmd" ELSE "conn_waiting"
      OBVIOUS
    <3>2. cn'[c] = [x EXCEPT !.state = s] /\ wk'[t].pc = "drive"
      BY <2>1, <2>3, <3>1 DEF ConnsOK, WorkersOK, WorkerOK, x
    <3>3. AtCommand(x, f)
      BY <1>1, <2>1, CommandStates
    <3>4. PICK y : y = At(x, s)
      OBVIOUS
    <3>5. SameInput(x, y) /\ y.state = s /\ y.io \in {x.io, "none"}
      BY <1>1, <3>4, StateSame
    <3>6. Sound(y, f)
      BY <1>1, <1>3, <3>3, <3>5
    <3> QED BY <3>2, <3>4, <3>6 DEF Proceeds, At
  <2> QED BY <1>5, <2>2, <2>3 DEF NewCmd, x
<1>6. CASE Waiting(t, c)
  <2>1. x.state = "conn_waiting" /\ cn'[c] = Updated(x, "R") /\ wk'[t].pc = "setread"
    BY <1>6 DEF Waiting, In, ConnsOK, WorkersOK, WorkerOK, x
  <2>2. Updated(x, "R").state = x.state
    BY <1>1, UpdatedSame
  <2> QED BY <1>4, <2>1, <2>2 DEF Proceeds
<1>7. CASE SetRead(t, c)
  <2>1. x.state = "conn_waiting" /\ Stops(t, c, [x EXCEPT !.state = "conn_read"])
    BY <1>7 DEF SetRead, x
  <2>2. AtCommand(x, f)
    BY <1>1, <2>1, CommandStates
  <2>3. PICK y : y = At(x, "conn_read")
    OBVIOUS
  <2>4. SameInput(x, y) /\ y.io \in {x.io, "none"} /\ y.state = "conn_read"
    BY <1>1, <2>3, StateSame
  <2>5. Sound(y, f)
    BY <1>1, <1>3, <2>2, <2>4
  <2> QED BY <2>1, <2>3, <2>5, EndsProceed DEF At
<1>8. CASE Write(t, c)
  <2>1. wk[t].pc = "drive" /\ x.state \in {"conn_write", "conn_mwrite"}
    BY <1>8 DEF Write, x
  <2>2. CASE Stops(t, c, Updated(x, "W"))
    BY <1>4, <2>2, EndsProceed
  <2>3. CASE Becomes(t, c, [x EXCEPT !.io = "none",
                              !.state = IF x.state = "conn_mwrite" THEN "conn_new_cmd" ELSE x.go])
    <3>1. PICK s : s = IF x.state = "conn_mwrite" THEN "conn_new_cmd" ELSE x.go
      OBVIOUS
    <3>2. PICK y : y = Sent(x, s)
      OBVIOUS
    <3>3. SameInput(x, y) /\ y.state = s /\ y.io = "none"
      BY <1>1, <3>2, StateSame
    <3>4. Sound(y, f)
      <4>1. CASE x.state = "conn_mwrite"
        <5>1. AtCommand(x, f)
          BY <1>1, <4>1, CommandStates
        <5> QED BY <1>3, <3>1, <3>3, <4>1, <5>1
      <4>2. CASE x.state = "conn_write"
        BY <1>1, <3>1, <3>3, <4>2, SameSynced DEF Sound
      <4> QED BY <2>1, <4>1, <4>2
    <3>5. Becomes(t, c, y)
      BY <2>3, <3>1, <3>2 DEF Sent
    <3> QED BY <2>1, <3>4, <3>5, EndsProceed
  <2>4. CASE Becomes(t, c, [x EXCEPT !.io = "none", !.state = "conn_closing"])
    <3>1. PICK y : y = Sent(x, "conn_closing")
      OBVIOUS
    <3>2. SameInput(x, y) /\ y.state = "conn_closing" /\ y.io = "none"
      BY <1>1, <3>1, StateSame
    <3>3. x.state \notin Ended
      BY <2>1 DEF Ended
    <3>4. Synced(y, f)
      BY <1>1, <3>2, <3>3, SameSynced
    <3>5. Sound(y, f)
      BY <3>2, <3>4 DEF Sound
    <3>6. Becomes(t, c, y)
      BY <2>4, <3>1 DEF Sent
    <3> QED BY <2>1, <3>5, <3>6, EndsProceed
  <2> QED BY <1>8, <2>2, <2>3, <2>4 DEF Write, x
<1>9. CASE Watch(t, c)
  BY <1>4, <1>9, EndsProceed DEF Watch, x
<1> QED BY <1>5, <1>6, <1>7, <1>8, <1>9

\* Leaving the base, and closing.
LEMMA LeaveProceeds ==
  ASSUME ConnsOK, WorkersOK, NEW t \in Threads, NEW c \in Conns, NEW f, Synced(cn[c], f),
         cn[c].open, cn[c].io # "queued", Detach(t, c) \/ Close(t, c)
  PROVE  Proceeds(t, c, f)
<1> DEFINE x == cn[c]
<1>1. ConnOK(x) /\ x.open /\ x.io # "queued" /\ Synced(x, f)
  BY DEF ConnsOK
<1> HIDE DEF x
<1>2. CASE Detach(t, c)
  <2>1. PICK y : y = [x EXCEPT !.state = "conn_watch", !.reg = NULL, !.armed = FALSE,
                               !.epoch = @ + 1, !.io = "queued"]
    OBVIOUS
  <2>2. x.state = "conn_mwrite" /\ Stops(t, c, y)
    BY <1>2, <2>1 DEF Detach, In, x
  <2>3. SameInput(x, y) /\ y.state = "conn_watch"
    BY <1>1, <2>1 DEF SameInput, ConnOK, Fields, NoConn
  <2>4. x.open /\ x.state \notin Ended /\ ~Due(x)
    BY <1>1, <2>2, CommandStates DEF AtCommand
  <2>5. Sound(y, f)
    BY <1>1, <2>3, <2>4, SameSynced DEF Sound
  <2> QED BY <2>2, <2>5, EndsProceed
<1>3. CASE Close(t, c)
  <2>1. PICK y : y = [x EXCEPT !.open = FALSE, !.state = "conn_closed", !.reg = NULL,
                               !.armed = FALSE, !.epoch = @ + 1, !.sock = <<>>, !.rbuf = <<>>]
    OBVIOUS
  <2>2. Stops(t, c, y)
    BY <1>3, <2>1 DEF Close, x
  <2>3. /\ y.open = FALSE /\ y.state = "conn_closed" /\ y.rbuf = <<>> /\ y.io = x.io
        /\ y.bad = x.bad /\ y.rl = x.rl /\ y.sb = x.sb
    BY <1>1, <2>1 DEF ConnOK, Fields, NoConn
  <2>4. ~x.bad /\ x.rl \in {0, 1} /\ x.sb \in {0, 1}
    BY <1>1 DEF Synced
  <2>5. ~y.bad /\ y.rl \in {0, 1} /\ y.sb \in {0, 1}
    BY <2>3, <2>4
  <2>6. Sound(y, f)
    BY <1>1, <2>3, <2>5 DEF Sound, Synced
  <2> QED BY <2>2, <2>6, EndsProceed
<1> QED BY <1>2, <1>3

\* The states in which input is read.
LEMMA InputProceeds ==
  ASSUME ConnsOK, WorkersOK, NEW t \in Threads, NEW c \in Conns, Synced(cn[c], cfg.faults),
         cn[c].open, cn[c].io # "queued",
         ReadNetwork(t, c) \/ Parse(t, c) \/ Nread(t, c) \/ Swallow(t, c)
  PROVE  Proceeds(t, c, cfg.faults)
<1> DEFINE x == cn[c]
           f == cfg.faults
<1>1. ConnOK(x) /\ x.open /\ x.io # "queued" /\ Synced(x, f) /\ wk[t].pc = "drive"
  BY DEF ConnsOK, ReadNetwork, Parse, Nread, Swallow, In
<1>2. /\ ~x.bad /\ x.rl \in {0, 1} /\ x.sb \in {0, 1}
      /\ x.state \notin Ended => x.go \in {"conn_new_cmd", "conn_swallow"} /\ Fits(Stream(x), Due(x), f)
      /\ x.state = "conn_nread" => x.sb = 0
      /\ x.state = "conn_swallow" => x.rl = 0
  <2>1. ~x.bad /\ x.rl \in {0, 1} /\ x.sb \in {0, 1}
    BY <1>1 DEF Synced
  <2>2. x.state \notin Ended => x.go \in {"conn_new_cmd", "conn_swallow"} /\ Fits(Stream(x), Due(x), f)
    BY <1>1 DEF Synced, Ended
  <2>3. (x.state = "conn_nread" => ~(x.sb > 0)) /\ (x.state = "conn_swallow" => ~(x.rl > 0))
    BY <1>1 DEF Synced
  <2> QED BY <2>1, <2>2, <2>3
<1> SUFFICES Proceeds(t, c, f)
  OBVIOUS
<1> HIDE DEF x, f
\* A state in which a command is expected next.
<1>3. ASSUME AtCommand(x, f), NEW s \in {"conn_waiting", "conn_closing", "conn_new_cmd"},
             Becomes(t, c, [x EXCEPT !.state = s])
      PROVE  Proceeds(t, c, f)
  <2>1. PICK y : y = At(x, s)
    OBVIOUS
  <2>2. SameInput(x, y) /\ y.io \in {x.io, "none"} /\ y.state = s
    BY <1>1, <2>1, StateSame
  <2>3. x.open /\ x.state \notin Ended /\ ~Due(x) /\ y.state # "conn_closed"
    BY <1>3, <2>2 DEF AtCommand
  <2>4. Sound(y, f)
    BY <1>1, <2>2, <2>3, SameSynced DEF Sound
  <2> QED BY <1>1, <1>3, <2>1, <2>4, EndsProceed DEF At
<1>4. ASSUME Starved(t, c, x), x.state \notin Ended PROVE Proceeds(t, c, f)
  <2>1. CASE Stops(t, c, Updated(x, "R"))
    <3>1. PICK y : y = Updated(x, "R")
      OBVIOUS
    <3>2. SameInput(x, y) /\ y.io = x.io /\ y.state = x.state
      BY <1>1, <3>1, UpdatedSame
    <3>3. Sound(y, f)
      BY <1>1, <3>2, SameSynced DEF Sound
    <3> QED BY <2>1, <3>1, <3>3, EndsProceed
  <2>2. CASE Becomes(t, c, [x EXCEPT !.state = "conn_closing"])
    <3>1. PICK y : y = At(x, "conn_closing")
      OBVIOUS
    <3>2. SameInput(x, y) /\ y.io \in {x.io, "none"} /\ y.state = "conn_closing"
      BY <1>1, <3>1, StateSame
    <3>3. Sound(y, f)
      BY <1>1, <1>4, <3>2, SameSynced DEF Sound
    <3> QED BY <1>1, <2>2, <3>1, <3>3, EndsProceed DEF At
  <2> QED BY <1>4, <2>1, <2>2 DEF Starved
\* The block that is due is there.
<1>5. ASSUME NEW y, ConnOK(y), y.rbuf = x.rbuf, y.sock = x.sock, y.script = x.script, y.open = x.open,
             y.bad = x.bad, y.go = x.go, y.io = x.io, y.state = x.state, y.rl = 0, y.sb = 0,
             x.state \in {"conn_nread", "conn_swallow"}, x.rl > 0 \/ x.sb > 0,
             x.rbuf # <<>> \/ x.sock # <<>>, Becomes(t, c, Take(x, y))
      PROVE  Proceeds(t, c, f)
  <2>1. y.open
    BY <1>1, <1>5
  <2>2. ~y.bad
    BY <1>2, <1>5
  <2>3. Due(x)
    BY <1>5 DEF Due
  <2>4. Synced(Take(x, y), f) /\ Take(x, y).io = x.io
    BY <1>1, <1>5, <2>1, <2>2, <2>3, TakeSynced
  <2>5. Sound(Take(x, y), f)
    BY <1>1, <2>4 DEF Sound
  <2> QED BY <1>1, <1>5, <2>5, EndsProceed
<1>6. CASE ReadNetwork(t, c)
  <2>1. x.state = "conn_read"
    BY <1>6 DEF ReadNetwork, In, x
  <2>2. AtCommand(x, f)
    BY <1>1, <2>1, CommandStates
  <2>3. CASE x.sock # <<>>
    <3>1. PICK y : y = [x EXCEPT !.rbuf = @ \o x.sock, !.sock = <<>>, !.state = "conn_parse_cmd"]
      OBVIOUS
    <3>2. Becomes(t, c, y)
      BY <1>6, <2>3, <3>1 DEF ReadNetwork, x
    <3>3. Sound(y, f)
      BY <1>1, <2>2, <3>1, ReadSynced DEF Sound
    <3> QED BY <1>1, <3>2, <3>3, EndsProceed
  <2>4. CASE x.sock = <<>>
    <3>1. \E s \in {"conn_waiting", "conn_closing"} : Becomes(t, c, [x EXCEPT !.state = s])
      BY <1>6, <2>4 DEF ReadNetwork, x
    <3> QED BY <1>3, <2>2, <3>1
  <2> QED BY <2>3, <2>4
<1>7. CASE Parse(t, c)
  <2>1. x.state = "conn_parse_cmd"
    BY <1>7 DEF Parse, In, x
  <2>2. AtCommand(x, f)
    BY <1>1, <2>1, CommandStates
  <2>3. CASE Becomes(t, c, [x EXCEPT !.state = "conn_waiting"])
    BY <1>3, <2>2, <2>3
  <2>4. ASSUME x.rbuf # <<>>, NEW fail \in BOOLEAN, NEW ext \in BOOLEAN, fail => "oom" \in f,
               Becomes(t, c, Execute(x, fail, ext))
        PROVE  Proceeds(t, c, f)
    <3>1. PICK y : y = Execute(x, fail, ext)
      OBVIOUS
    <3>2. Synced(y, f) /\ y.io # "queued"
      BY <1>1, <2>2, <2>4, <3>1, ExecuteSynced
    <3>3. Sound(y, f)
      BY <3>2 DEF Sound
    <3> QED BY <1>1, <2>4, <3>1, <3>3, EndsProceed
  <2> QED BY <1>7, <2>3, <2>4 DEF Parse, x, f
<1>8. CASE Nread(t, c)
  <2>1. x.state = "conn_nread" /\ x.state \notin Ended /\ x.sb = 0
    BY <1>2, <1>8 DEF Nread, In, x, Ended
  <2>2. CASE x.rl = 0 /\ Becomes(t, c, Says(x))
    <3>1. Fits(Stream(x), FALSE, f)
      <4>1. Fits(Stream(x), Due(x), f) /\ (Due(x) <=> FALSE)
        BY <1>2, <2>1, <2>2 DEF Due
      <4> QED BY <4>1 DEF Fits, Paired
    <3>2. x.go \in {"conn_new_cmd", "conn_swallow"} /\ x.open
      BY <1>1, <1>2, <2>1
    <3>3. ~x.bad
      BY <1>2
    <3>4. Synced(Says(x), f) /\ Says(x).io = x.io
      BY <1>1, <2>1, <2>2, <3>1, <3>2, <3>3, SaysSynced
    <3>5. Sound(Says(x), f)
      BY <1>1, <3>4 DEF Sound
    <3> QED BY <1>1, <2>2, <3>5, EndsProceed
  <2>3. CASE x.rl > 0 /\ (x.rbuf # <<>> \/ x.sock # <<>>) /\ Becomes(t, c, Take(x, [x EXCEPT !.rl = 0]))
    <3>1. PICK y : y = [x EXCEPT !.rl = 0]
      OBVIOUS
    <3>2. /\ ConnOK(y) /\ y.rbuf = x.rbuf /\ y.sock = x.sock /\ y.script = x.script /\ y.open = x.open
          /\ y.bad = x.bad /\ y.go = x.go /\ y.io = x.io /\ y.state = x.state /\ y.rl = 0 /\ y.sb = 0
      BY <1>1, <2>1, <3>1 DEF ConnOK, Fields, NoConn
    <3> QED BY <1>5, <2>1, <2>3, <3>1, <3>2
  <2>4. CASE Starved(t, c, x)
    BY <1>4, <2>1, <2>4
  <2> QED BY <1>8, <2>2, <2>3, <2>4 DEF Nread, x
<1>9. CASE Swallow(t, c)
  <2>1. x.state = "conn_swallow" /\ x.state \notin Ended /\ x.rl = 0
    BY <1>2, <1>9 DEF Swallow, In, x, Ended
  <2>2. CASE x.sb = 0 /\ Becomes(t, c, [x EXCEPT !.state = "conn_new_cmd"])
    <3>1. AtCommand(x, f)
      BY <1>1, <2>1, <2>2, CommandStates
    <3> QED BY <1>3, <2>2, <3>1
  <2>3. CASE x.sb > 0 /\ (x.rbuf # <<>> \/ x.sock # <<>>) /\ Becomes(t, c, Take(x, [x EXCEPT !.sb = 0]))
    <3>1. PICK y : y = [x EXCEPT !.sb = 0]
      OBVIOUS
    <3>2. /\ ConnOK(y) /\ y.rbuf = x.rbuf /\ y.sock = x.sock /\ y.script = x.script /\ y.open = x.open
          /\ y.bad = x.bad /\ y.go = x.go /\ y.io = x.io /\ y.state = x.state /\ y.rl = 0 /\ y.sb = 0
      BY <1>1, <2>1, <3>1 DEF ConnOK, Fields, NoConn
    <3> QED BY <1>5, <2>1, <2>3, <3>1, <3>2
  <2>4. CASE Starved(t, c, x)
    BY <1>4, <2>1, <2>4
  <2> QED BY <1>9, <2>2, <2>3, <2>4 DEF Swallow, x
<1> QED BY <1>6, <1>7, <1>8, <1>9

\* Any state of drive_machine.
LEMMA DriveProceeds ==
  ASSUME ConnsOK, WorkersOK, NEW t \in Threads, NEW c \in Conns, Synced(cn[c], cfg.faults),
         cn[c].open, cn[c].io # "queued", wk[t].pc = "setread" => cn[c].state = "conn_waiting",
         DriveMachine(t, c)
  PROVE  Proceeds(t, c, cfg.faults)
BY QuietProceeds, LeaveProceeds, InputProceeds DEF DriveMachine

-----------------------------------------------------------------------------
(* The input of all connections *)

SyncInv == AllSynced /\ Stages

\* A worker's step that changes one connection, which nobody else has.
LEMMA OneChanged ==
  ASSUME TypeInv, SyncInv, NEW t \in Threads, NEW c \in Conns, NEW y, Only(c, y), Sound(y, cfg.faults),
         UNCHANGED <<cfg, poster>>, ~Posted(c)',
         \A i \in Threads : \A n \in DOMAIN cq'[i] : \E m \in DOMAIN cq[i] : cq'[i][n] = cq[i][m],
         \A u \in Threads \ {t} : wk'[u] = wk[u] /\ ~Handles(u, c),
         wk'[t].pc \in {"readd", "setread"} => wk'[t].conn = c,
         wk'[t].pc = "readd" => y.state = "conn_new_cmd",
         wk'[t].pc = "setread" => y.state = "conn_waiting"
  PROVE  SyncInv'
<1>1. cn'[c] = y /\ \A d \in Conns \ {c} : cn'[d] = cn[d]
  BY DEF Only
<1>2. AllSynced'
  <2>1. \A d \in Conns : Synced(cn'[d], cfg.faults)
    BY <1>1 DEF SyncInv, AllSynced, Sound
  <2> QED BY <2>1 DEF AllSynced
<1>3. \A d \in Conns : cn'[d].io = "queued" => cn'[d].state = "conn_watch"
  BY <1>1 DEF SyncInv, Stages, Sound
<1>4. ASSUME NEW i \in Threads, NEW n \in DOMAIN cq'[i]
      PROVE  cn'[cq'[i][n].conn].state = Stage(cq'[i][n].mode)
  <2>1. PICK m \in DOMAIN cq[i] : cq'[i][n] = cq[i][m]
    OBVIOUS
  <2>2. cq[i][m].conn \in Conns
    <3>1. cq[i] \in Seq(QueueRec)
      BY DEF TypeInv
    <3>2. cq[i][m] \in QueueRec
      BY <3>1
    <3> QED BY <3>2 DEF QueueRec
  <2>3. cq'[i][n].conn # c
    BY DEF Posted, InQueue
  <2> QED BY <1>1, <2>1, <2>2, <2>3 DEF SyncInv, Stages
<1>5. ASSUME NEW p \in Posters, poster[p].pc = "push"
      PROVE  cn'[poster[p].conn].state = Stage(poster[p].mode)
  <2>1. poster[p].conn \in Conns
    BY <1>5 DEF TypeInv, PostersOK, PosterOK
  <2>2. poster[p].conn # c
    BY <1>5 DEF Posted, InHand
  <2> QED BY <1>1, <1>5, <2>1, <2>2 DEF SyncInv, Stages
<1>6. ASSUME NEW u \in Threads
      PROVE  /\ wk'[u].pc = "readd" => cn'[wk'[u].conn].state = "conn_new_cmd"
             /\ wk'[u].pc = "setread" => cn'[wk'[u].conn].state = "conn_waiting"
  <2>1. CASE u = t
    BY <1>1, <2>1
  <2>2. CASE u # t /\ wk[u].pc \in {"readd", "setread"}
    <3>1. wk[u].conn \in Conns /\ wk[u].conn # c /\ wk'[u] = wk[u]
      BY <2>2 DEF TypeInv, HandlersOK, Handles, Drives
    <3> QED BY <1>1, <3>1 DEF SyncInv, Stages
  <2>3. CASE u # t /\ wk[u].pc \notin {"readd", "setread"}
    BY <2>3
  <2> QED BY <2>1, <2>2, <2>3
<1> QED BY <1>2, <1>3, <1>4, <1>5, <1>6 DEF SyncInv, Stages

\* A step that leaves the states and the inputs of all connections alone.
LEMMA NoneChanged ==
  ASSUME TypeInv, SyncInv, NEW t \in Threads, UNCHANGED <<cfg, poster, cq>>,
         \A d \in Conns : SameInput(cn[d], cn'[d]) /\ cn'[d].state = cn[d].state /\ cn'[d].io = cn[d].io,
         \A u \in Threads \ {t} : wk'[u] = wk[u], wk'[t].pc \notin {"readd", "setread"}
  PROVE  SyncInv'
<1>1. AllSynced'
  <2>1. \A d \in Conns : Synced(cn'[d], cfg.faults)
    BY SameSynced DEF SyncInv, AllSynced
  <2> QED BY <2>1 DEF AllSynced
<1>2. \A i \in Threads : \A n \in DOMAIN cq[i] : cq[i][n].conn \in Conns
  <2>1. \A i \in Threads : cq[i] \in Seq(QueueRec)
    BY DEF TypeInv
  <2>2. \A i \in Threads : \A n \in DOMAIN cq[i] : cq[i][n] \in QueueRec
    BY <2>1
  <2> QED BY <2>2 DEF QueueRec
<1>3. \A p \in Posters : poster[p].pc = "push" => poster[p].conn \in Conns
  BY DEF TypeInv, PostersOK, PosterOK
<1>4. \A u \in Threads : wk[u].pc \in {"readd", "setread"} => wk[u].conn \in Conns
  BY DEF TypeInv, HandlersOK
<1>5. Stages'
  BY <1>2, <1>3, <1>4 DEF SyncInv, Stages
<1> QED BY <1>1, <1>5 DEF SyncInv

\* A worker has a connection to itself.
LEMMA BusyAlone ==
  ASSUME TypeInv, Owned, NEW t \in Threads, NEW c \in Conns, Busy(t, c)
  PROVE  /\ cn[c].open /\ cn[c].io # "queued" /\ ~Posted(c)
         /\ \A u \in Threads \ {t} : ~Handles(u, c)
BY DEF Owned, Held, Away, Busy

\* What a call of kevent, and the end of a batch, do to a connection.
Armed(x, b) == [x EXCEPT !.armed = b]

\* The loop over the events, the pause, and a byte without an entry.
LEMMA LoopSynced ==
  ASSUME TypeInv, SyncInv, NEW t \in Threads,
         \/ Fetch(t) \/ Enable(t) \/ Register(t) \/ Unhang(t)
         \/ ReadPipe(t) /\ UNCHANGED <<cq, cn>> /\ Returns(t)
  PROVE  SyncInv'
<1>1. \A d \in Conns : /\ SameInput(cn[d], cn[d])
                       /\ \A b : /\ SameInput(cn[d], Armed(cn[d], b))
                                 /\ Armed(cn[d], b).state = cn[d].state /\ Armed(cn[d], b).io = cn[d].io
  BY DEF Armed, SameInput, TypeInv, ConnsOK, ConnOK, Fields, NoConn
<1>2. CASE Fetch(t)
  <2>1. Still /\ \E w : Becoming(t, w) /\ w.pc = "next"
    BY <1>2, FetchFacts
  <2>2. \A d \in Conns : cn'[d] = cn[d] \/ cn'[d] = Armed(cn[d], FALSE)
    BY <1>2 DEF Fetch, Armed
  <2>3. \A d \in Conns : SameInput(cn[d], cn'[d]) /\ cn'[d].state = cn[d].state /\ cn'[d].io = cn[d].io
    BY <1>1, <2>2
  <2>4. /\ UNCHANGED <<cfg, poster, cq>> /\ \A u \in Threads \ {t} : wk'[u] = wk[u]
        /\ wk'[t].pc \notin {"readd", "setread"}
    BY <2>1 DEF Still, Quiet, Becoming
  <2> QED BY <2>3, <2>4, NoneChanged
<1>3. CASE Enable(t)
  <2>1. Still /\ \E w : Becoming(t, w) /\ w.pc = "loop"
    BY <1>3, EnableFacts
  <2>2. \A d \in Conns : cn'[d] = cn[d] \/ cn'[d] = Armed(cn[d], TRUE)
    BY <1>3 DEF Enable, Armed
  <2>3. \A d \in Conns : SameInput(cn[d], cn'[d]) /\ cn'[d].state = cn[d].state /\ cn'[d].io = cn[d].io
    BY <1>1, <2>2
  <2>4. /\ UNCHANGED <<cfg, poster, cq>> /\ \A u \in Threads \ {t} : wk'[u] = wk[u]
        /\ wk'[t].pc \notin {"readd", "setread"}
    BY <2>1 DEF Still, Quiet, Becoming
  <2> QED BY <2>3, <2>4, NoneChanged
<1>4. CASE Register(t)
  BY <1>1, <1>4, RegisterFacts, NoneChanged DEF Quiet, Moves
<1>5. CASE Unhang(t)
  BY <1>1, <1>5, UnhangFacts, NoneChanged DEF Still, Quiet, Moves, Returns
<1>6. CASE ReadPipe(t) /\ UNCHANGED <<cq, cn>> /\ Returns(t)
  BY <1>1, <1>6, ReadPipeFacts, NoneChanged DEF Quiet, Moves, Returns
<1> QED BY <1>2, <1>3, <1>4, <1>5, <1>6

\* A worker goes on with a connection it has, or leaves it.
LEMMA DriveSynced ==
  ASSUME TypeInv, Owned, SyncInv, NEW t \in Threads, NEW c \in Conns, DriveMachine(t, c)
  PROVE  SyncInv'
<1>1. ConnsOK /\ WorkersOK
  BY DEF TypeInv
<1>2. Driven(t, c)
  BY <1>1, DriveMachineDriven
<1>3. PICK y : Only(c, y) /\ (Goes(t, c) \/ Returns(t)) /\ Moves(t) /\ Still
  BY <1>2 DEF Driven
<1>4. Handles(t, c) /\ Busy(t, c)
  BY <1>2 DEF Driven, Handles, Drives, Busy
<1>5. cn[c].open /\ cn[c].io # "queued" /\ ~Posted(c) /\ \A u \in Threads \ {t} : ~Handles(u, c)
  BY <1>4, BusyAlone
<1>6. Synced(cn[c], cfg.faults) /\ (wk[t].pc = "setread" => cn[c].state = "conn_waiting")
  BY <1>2 DEF SyncInv, AllSynced, Stages, Driven
<1>7. Proceeds(t, c, cfg.faults)
  BY <1>1, <1>5, <1>6, DriveProceeds
<1>8. Sound(y, cfg.faults) /\ (wk'[t].pc = "setread" => y.state = "conn_waiting" /\ wk'[t].conn = c)
      /\ wk'[t].pc # "readd"
  BY <1>3, <1>7 DEF Proceeds, Only, Goes, Returns
<1>9. UNCHANGED <<cfg, poster, cq>> /\ ~Posted(c)' /\ \A u \in Threads \ {t} : wk'[u] = wk[u]
  BY <1>3, <1>5 DEF Still, Quiet, Moves, Posted, InQueue, InHand
<1> QED BY <1>3, <1>5, <1>8, <1>9, OneChanged

\* The handlers that say whose the connection is; a value that was read is sent.
LEMMA ClaimsSynced ==
  ASSUME TypeInv, Owned, SyncInv, NEW t \in Threads, SetThread(t) \/ Readd(t) \/ EventHandler(t)
  PROVE  SyncInv'
<1>1. ASSUME NEW c \in Conns, NEW y, Busy(t, c), Only(c, y), Synced(y, cfg.faults), y.io = cn[c].io,
             Still, Moves(t), wk'[t].pc \in {"next", "drive"}
      PROVE  SyncInv'
  <2>1. cn[c].io # "queued" /\ ~Posted(c) /\ \A u \in Threads \ {t} : ~Handles(u, c)
    BY <1>1, BusyAlone
  <2>2. Sound(y, cfg.faults)
    BY <1>1, <2>1 DEF Sound
  <2>3. UNCHANGED <<cfg, poster, cq>> /\ ~Posted(c)' /\ \A u \in Threads \ {t} : wk'[u] = wk[u]
    BY <1>1, <2>1 DEF Still, Quiet, Moves, Posted, InQueue, InHand
  <2>4. wk'[t].pc \notin {"readd", "setread"}
    BY <1>1
  <2> QED BY <1>1, <2>1, <2>2, <2>3, <2>4, OneChanged
<1>2. ASSUME NEW x, ConnOK(x), NEW u, Synced(x, cfg.faults)
      PROVE  LET y == [x EXCEPT !.thread = u] IN Synced(y, cfg.faults) /\ y.io = x.io
  <2>1. PICK y : y = [x EXCEPT !.thread = u]
    OBVIOUS
  <2>2. SameInput(x, y) /\ y.state = x.state /\ y.io = x.io
    BY <1>2, <2>1 DEF SameInput, ConnOK, Fields, NoConn
  <2> QED BY <1>2, <2>1, <2>2, SameSynced
<1>3. ConnsOK /\ WorkersOK /\ \A c \in Conns : ConnOK(cn[c]) /\ Synced(cn[c], cfg.faults)
  BY DEF TypeInv, ConnsOK, SyncInv, AllSynced
<1>4. CASE SetThread(t)
  <2> DEFINE c == wk[t].conn
  <2>1. c \in Conns /\ wk[t].pc = "new" /\ Moves(t) /\ Still /\ NextHandler(t)
    BY <1>4, HandlerFacts DEF SetThread
  <2>2. Only(c, [cn[c] EXCEPT !.thread = t])
    BY <1>3, <1>4, <2>1 DEF SetThread, Only, ConnsOK
  <2>3. Busy(t, c) /\ wk'[t].pc = "next"
    BY <1>3, <2>1, NextHandlerMoves DEF Busy, Handles, WorkersOK
  <2> HIDE DEF c
  <2>4. PICK y : y = [cn[c] EXCEPT !.thread = t]
    OBVIOUS
  <2>5. Synced(y, cfg.faults) /\ y.io = cn[c].io
    BY <1>2, <1>3, <2>1, <2>4
  <2> QED BY <1>1, <2>1, <2>2, <2>3, <2>4, <2>5
<1>5. CASE EventHandler(t)
  <2> DEFINE c == Current(t)
  <2>1. c \in Conns /\ More(t) /\ Moves(t) /\ Still /\ wk'[t].pc = "drive"
    BY <1>5, EventHandlerFacts
  <2>2. PICK u : Only(c, [cn[c] EXCEPT !.thread = u])
    BY <1>3, <1>5, <2>1 DEF EventHandler, Only, ConnsOK
  <2>3. Busy(t, c)
    <3>1. wk[t].batch \in Seq(EntryRec) /\ wk[t].at \in Nat /\ wk[t].at > 0
      BY <1>3 DEF WorkersOK, WorkerOK
    <3>2. wk[t].at \in DOMAIN wk[t].batch
      BY <2>1, <3>1 DEF More
    <3> QED BY <2>1, <3>2 DEF Busy, Waits, Current, More
  <2> HIDE DEF c
  <2>4. PICK y : y = [cn[c] EXCEPT !.thread = u]
    OBVIOUS
  <2>5. Synced(y, cfg.faults) /\ y.io = cn[c].io
    BY <1>2, <1>3, <2>1, <2>4
  <2> QED BY <1>1, <2>1, <2>2, <2>3, <2>4, <2>5
<1>6. CASE Readd(t)
  <2> DEFINE c == wk[t].conn
  <2>1. c \in Conns /\ wk[t].pc = "readd" /\ Moves(t) /\ Still /\ Driving(t, c)
    BY <1>6, HandlerFacts DEF Readd
  <2>2. Only(c, [cn[c] EXCEPT !.state = "conn_mwrite", !.thread = t])
    BY <1>3, <1>6, <2>1 DEF Readd, Only, ConnsOK
  <2>3. Busy(t, c) /\ wk'[t].pc = "drive"
    BY <1>3, <2>1, DrivingMoves DEF Busy, Handles, WorkersOK
  <2>4. cn[c].state = "conn_new_cmd"
    BY <2>1 DEF SyncInv, Stages
  <2> HIDE DEF c
  <2>5. PICK y : y = [cn[c] EXCEPT !.state = "conn_mwrite", !.thread = t]
    OBVIOUS
  <2>6. SameInput(cn[c], y) /\ y.state = "conn_mwrite" /\ y.io = cn[c].io
    BY <1>3, <2>1, <2>5 DEF SameInput, ConnOK, Fields, NoConn
  <2>7. cn[c].open
    BY <2>1, <2>3, BusyAlone
  <2>8. cn[c].state \notin Ended /\ ~Due(cn[c])
    BY <1>3, <2>1, <2>4, <2>7, CommandStates DEF AtCommand
  <2>9. Synced(y, cfg.faults)
    BY <1>3, <2>1, <2>6, <2>7, <2>8, SameSynced
  <2> QED BY <1>1, <2>1, <2>2, <2>3, <2>5, <2>6, <2>9
<1> QED BY <1>4, <1>5, <1>6

\* A connection is taken out of its queue: a new one has everything before it, one
\* that comes back has its next command.
LEMMA TakenSynced ==
  ASSUME TypeInv, Owned, Owned', SyncInv, ~cfg.shared, NEW t \in Threads, ReadPipe(t),
         NEW c \in Conns, Taken(t, Current(t), c)
  PROVE  SyncInv'
<1> DEFINE i == Current(t)
           m == Head(cq[i]).mode
           x == cn[c]
           y == cn'[c]
           f == cfg.faults
<1>1. Moves(t) /\ Quiet /\ i \in Threads
  BY ReadPipeFacts
<1>2. cq[i] \in Seq(QueueRec) /\ cq[i] # <<>> /\ cq' = [cq EXCEPT ![i] = Tail(@)] /\ cq \in [Threads -> Seq(QueueRec)]
  BY <1>1 DEF Taken, TypeInv
<1>3. c = cq[i][1].conn /\ 1 \in DOMAIN cq[i] /\ m = cq[i][1].mode /\ m \in {"new", "redispatch"}
  BY <1>2, QueueTail DEF Taken, QueueRec
<1>4. Posted(c) /\ x.state = Stage(m)
  BY <1>1, <1>3 DEF Posted, InQueue, SyncInv, Stages
<1>5. x.open /\ x.io # "queued" /\ \A u \in Threads : ~Handles(u, c)
  BY <1>4 DEF Owned, Apart, Held, Away, Busy
<1>6. Only(c, y)
  BY DEF Taken, Only
<1>7. ConnOK(x) /\ Synced(x, f) /\ DOMAIN cn = Conns
  BY DEF TypeInv, ConnsOK, SyncInv, AllSynced
<1>8. wk'[t].pc = IF m = "new" THEN "new" ELSE "readd"
  BY <1>1, <1>2 DEF ReadPipe, Goto, TypeInv, WorkersOK, WorkerOK
<1>9. Handles(t, c)'
  BY DEF Taken, Handles
<1>10. ~Posted(c)'
  BY <1>9 DEF Owned, Held, Away, Busy
<1>11. y = IF m = "redispatch" THEN [EventAdd(c, x.thread) EXCEPT !.state = "conn_new_cmd"]
           ELSE [EventAdd(c, t) EXCEPT !.state = "conn_new_cmd", !.go = "conn_new_cmd",
                   !.rbuf = <<>>, !.rl = 0, !.sb = 0, !.noreply = FALSE, !.io = "none"]
  BY <1>2, <1>3, <1>7 DEF ReadPipe, Taken
<1>12. Sound(y, f) /\ y.state = "conn_new_cmd"
  <2>1. CASE m = "redispatch"
    <3>1. y = [[x EXCEPT !.reg = "R", !.armed = TRUE, !.epoch = @ + 1, !.home = x.thread]
                 EXCEPT !.state = "conn_new_cmd"]
      BY <1>11, <2>1 DEF EventAdd
    <3> HIDE DEF y, x
    <3>2. SameInput(x, y) /\ y.io = x.io /\ y.state = "conn_new_cmd"
      BY <1>7, <3>1 DEF SameInput, ConnOK, Fields, NoConn
    <3>3. x.state = "conn_watch"
      BY <1>4, <2>1 DEF Stage
    <3>4. x.state \notin Ended /\ ~Due(x)
      BY <1>5, <1>7, <3>3, CommandStates DEF AtCommand
    <3>5. Synced(y, f)
      BY <1>5, <1>7, <3>2, <3>4, SameSynced
    <3> QED BY <1>5, <3>2, <3>5 DEF Sound
  <2>2. CASE m = "new"
    <3> DEFINE z == [x EXCEPT !.reg = "R", !.armed = TRUE, !.epoch = @ + 1, !.home = t]
               v == [z EXCEPT !.state = "conn_new_cmd", !.go = "conn_new_cmd", !.rbuf = <<>>, !.rl = 0]
    <3>1. y = [v EXCEPT !.sb = 0, !.noreply = FALSE, !.io = "none"]
      BY <1>11, <2>2 DEF EventAdd
    <3> HIDE DEF y, x, f
    <3>2. /\ DOMAIN z = Fields /\ z.open = x.open /\ z.sock = x.sock /\ z.script = x.script /\ z.bad = x.bad
      BY <1>7 DEF ConnOK, Fields, NoConn
    <3> HIDE DEF z
    <3>3. /\ DOMAIN v = Fields /\ v.open = x.open /\ v.sock = x.sock /\ v.script = x.script /\ v.bad = x.bad
          /\ v.state = "conn_new_cmd" /\ v.go = "conn_new_cmd" /\ v.rbuf = <<>> /\ v.rl = 0
      BY <3>2 DEF Fields, NoConn
    <3> HIDE DEF v
    <3>4. /\ y.open = x.open /\ y.sock = x.sock /\ y.script = x.script /\ y.bad = x.bad
          /\ y.state = "conn_new_cmd" /\ y.go = "conn_new_cmd" /\ y.rbuf = <<>> /\ y.rl = 0
          /\ y.sb = 0 /\ y.io = "none"
      BY <3>1, <3>3 DEF Fields, NoConn
    <3>5. x.state = "conn_closed" /\ x.rbuf = <<>> /\ Fits(Stream(x), FALSE, f)
      BY <1>4, <1>5, <1>7, <2>2 DEF Stage, Synced
    <3>6. Stream(y) = Stream(x) /\ (FALSE <=> Due(y)) /\ y.state \notin Ended
      BY <3>4, <3>5 DEF Stream, Due, Ended
    <3>7. Fits(Stream(y), Due(y), f)
      BY <3>5, <3>6 DEF Fits, Paired
    <3>8. y.open
      BY <1>5, <3>4
    <3>9. ~y.bad
      BY <1>7, <3>4 DEF Synced
    <3>10. /\ y.rl \in {0, 1} /\ y.sb \in {0, 1} /\ y.rl # 1 /\ y.sb # 1
           /\ y.go \in {"conn_new_cmd", "conn_swallow"} /\ y.state \notin Ended
      BY <3>4, <3>6
    <3>11. Synced(y, f)
      BY <3>7, <3>8, <3>9, <3>10, MakeSynced
    <3> QED BY <3>4, <3>11 DEF Sound
  <2> QED BY <1>3, <2>1, <2>2
<1> HIDE DEF y, m
<1>13. ASSUME NEW j \in Threads, NEW n \in DOMAIN cq'[j] PROVE \E k \in DOMAIN cq[j] : cq'[j][n] = cq[j][k]
  <2>1. CASE j = i
    <3>1. cq'[j] = Tail(cq[i])
      BY <1>2, <2>1
    <3>2. n + 1 \in DOMAIN cq[i] /\ cq'[j][n] = cq[i][n + 1]
      BY <1>2, <3>1, QueueTail
    <3> QED BY <2>1, <3>2
  <2>2. CASE j # i
    BY <1>2, <2>2
  <2> QED BY <2>1, <2>2
<1>14. /\ UNCHANGED <<cfg, poster>> /\ \A u \in Threads \ {t} : wk'[u] = wk[u] /\ ~Handles(u, c)
       /\ wk'[t].pc # "setread" /\ wk'[t].conn = c
  BY <1>1, <1>5 DEF Quiet, Moves, Taken
<1> QED BY <1>6, <1>10, <1>12, <1>13, <1>14, OneChanged

\* Everything a worker does.
LEMMA WorkerSynced ==
  ASSUME TypeInv, Owned, Owned', SyncInv, ~cfg.shared, NEW t \in Threads, Worker(t)
  PROVE  SyncInv'
<1>1. CASE ReadPipe(t)
  <2>1. CASE UNCHANGED <<cq, cn>> /\ Returns(t)
    BY <1>1, <2>1, LoopSynced
  <2>2. ASSUME NEW c \in Conns, Taken(t, Current(t), c) PROVE SyncInv'
    BY <1>1, <2>2, TakenSynced
  <2> QED BY <1>1, <2>1, <2>2, ReadPipeFacts
<1>2. CASE \E c \in Conns : DriveMachine(t, c)
  BY <1>2, DriveSynced
<1>3. CASE SetThread(t) \/ Readd(t) \/ EventHandler(t)
  BY <1>3, ClaimsSynced
<1>4. CASE Fetch(t) \/ Enable(t) \/ Register(t) \/ Unhang(t)
  BY <1>4, LoopSynced
<1> QED BY <1>1, <1>2, <1>3, <1>4 DEF Worker

\* The posters move connections and leave them as they are; clients add whole
\* commands.
LEMMA OutsideSynced ==
  ASSUME TypeInv, SyncInv, Orderly(cfg),
         \/ \E p \in Posters : Poster(p)
         \/ MainInit \/ IoThread \/ Maintenance \/ PauseLock \/ UNCHANGED vars
         \/ \E c \in Conns, s \in cfg.scripts, pri \in BOOLEAN : Accept(c, s, pri)
         \/ \E c \in Conns : Send(c) \/ Hangup(c)
  PROVE  SyncInv'
<1>1. \A i \in Threads : cq[i] \in Seq(QueueRec) /\ \A n \in DOMAIN cq[i] : cq[i][n].conn \in Conns
  <2>1. \A i \in Threads : cq[i] \in Seq(QueueRec)
    BY DEF TypeInv
  <2>2. \A i \in Threads : \A n \in DOMAIN cq[i] : cq[i][n] \in QueueRec
    BY <2>1
  <2> QED BY <2>1, <2>2 DEF QueueRec
<1>2. \A p \in Posters : poster[p].pc = "push" => poster[p].conn \in Conns /\ poster[p].mode \in {"new", "redispatch"}
  BY DEF TypeInv, PostersOK, PosterOK
<1>3. \A u \in Threads : wk[u].pc \in {"readd", "setread"} => wk[u].conn \in Conns
  BY DEF TypeInv, HandlersOK
<1>4. \A d \in Conns : ConnOK(cn[d]) /\ Synced(cn[d], cfg.faults) /\ DOMAIN cn = Conns
  BY DEF TypeInv, ConnsOK, SyncInv, AllSynced
\* Connections keep their states, and whoever posts one posts it in the right one.
<1>5. ASSUME UNCHANGED <<cfg, wk>>,
             \A d \in Conns : /\ cn'[d].state = cn[d].state /\ Synced(cn'[d], cfg.faults)
                              /\ cn'[d].io = "queued" => cn[d].io = "queued",
             \A i \in Threads : \A n \in DOMAIN cq'[i] :
               \/ \E k \in DOMAIN cq[i] : cq'[i][n] = cq[i][k]
               \/ \E p \in Posters : /\ poster[p].pc = "push"
                                     /\ cq'[i][n] = [conn |-> poster[p].conn, mode |-> poster[p].mode],
             \A p \in Posters : poster'[p].pc = "push" =>
               \/ poster'[p] = poster[p]
               \/ poster'[p].conn \in Conns /\ cn[poster'[p].conn].state = Stage(poster'[p].mode)
      PROVE  SyncInv'
  <2>1. AllSynced'
    BY <1>5 DEF AllSynced
  <2>2. \A d \in Conns : cn'[d].io = "queued" => cn'[d].state = "conn_watch"
    BY <1>5 DEF SyncInv, Stages
  <2>3. ASSUME NEW i \in Threads, NEW n \in DOMAIN cq'[i]
        PROVE  cn'[cq'[i][n].conn].state = Stage(cq'[i][n].mode)
    <3>1. CASE \E k \in DOMAIN cq[i] : cq'[i][n] = cq[i][k]
      BY <1>1, <1>5, <3>1 DEF SyncInv, Stages
    <3>2. ASSUME NEW p \in Posters, poster[p].pc = "push",
                 cq'[i][n] = [conn |-> poster[p].conn, mode |-> poster[p].mode]
          PROVE  cn'[cq'[i][n].conn].state = Stage(cq'[i][n].mode)
      <4>1. cq'[i][n].conn = poster[p].conn /\ cq'[i][n].mode = poster[p].mode
        BY <3>2
      <4> QED BY <1>2, <1>5, <3>2, <4>1 DEF SyncInv, Stages
    <3> QED BY <1>5, <3>1, <3>2
  <2>4. \A p \in Posters : poster'[p].pc = "push" => cn'[poster'[p].conn].state = Stage(poster'[p].mode)
    BY <1>2, <1>5 DEF SyncInv, Stages
  <2>5. \A u \in Threads : /\ wk'[u].pc = "readd" => cn'[wk'[u].conn].state = "conn_new_cmd"
                           /\ wk'[u].pc = "setread" => cn'[wk'[u].conn].state = "conn_waiting"
    BY <1>3, <1>5 DEF SyncInv, Stages
  <2> QED BY <2>1, <2>2, <2>3, <2>4, <2>5 DEF SyncInv, Stages
<1>6. ASSUME NEW p \in Posters, CqPush(p) PROVE SyncInv'
  <2> DEFINE e == [conn |-> poster[p].conn, mode |-> poster[p].mode]
  <2>1. poster[p].pc = "push" /\ Advance(p) /\ UNCHANGED <<cfg, wk, cn>>
        /\ cq' = [cq EXCEPT ![poster[p].tid] = Append(@, e)]
    BY <1>6 DEF CqPush, Pushes
  <2>2. e \in QueueRec
    BY <1>2, <2>1 DEF QueueRec
  <2> HIDE DEF e
  <2>3. ASSUME NEW i \in Threads, NEW n \in DOMAIN cq'[i]
        PROVE  (\E k \in DOMAIN cq[i] : cq'[i][n] = cq[i][k]) \/ cq'[i][n] = e
    <3>1. i \in DOMAIN cq
      BY DEF TypeInv
    <3>2. CASE i = poster[p].tid
      <4>1. cq'[i] = Append(cq[i], e)
        BY <2>1, <3>1, <3>2
      <4>2. /\ Len(cq'[i]) = Len(cq[i]) + 1 /\ cq'[i] \in Seq(QueueRec) /\ Len(cq[i]) \in Nat
            /\ cq'[i][Len(cq[i]) + 1] = e /\ \A k \in 1 .. Len(cq[i]) : cq'[i][k] = cq[i][k]
        BY <1>1, <2>2, <4>1, AppendProperties
      <4>3. DOMAIN cq'[i] = 1 .. Len(cq[i]) + 1 /\ DOMAIN cq[i] = 1 .. Len(cq[i])
        BY <1>1, <4>2
      <4> QED BY <4>2, <4>3
    <3>3. CASE i # poster[p].tid
      BY <2>1, <3>1, <3>3
    <3> QED BY <3>2, <3>3
  <2>4. \A q \in Posters : poster'[q].pc = "push" => poster'[q] = poster[q]
    BY <2>1, AdvanceFacts
  <2>5. \A i \in Threads : \A n \in DOMAIN cq'[i] :
          \/ \E k \in DOMAIN cq[i] : cq'[i][n] = cq[i][k]
          \/ \E q \in Posters : /\ poster[q].pc = "push"
                                /\ cq'[i][n] = [conn |-> poster[q].conn, mode |-> poster[q].mode]
    BY <2>1, <2>3 DEF e
  <2> QED BY <1>4, <1>5, <2>1, <2>4, <2>5
<1>7. ASSUME NEW p \in Posters, PipeWrite(p) PROVE SyncInv'
  <2>1. Advance(p) /\ UNCHANGED <<cfg, wk, cn, cq>>
    BY <1>7 DEF PipeWrite
  <2>2. \A q \in Posters : poster'[q].pc = "push" => poster'[q] = poster[q]
    BY <2>1, AdvanceFacts
  <2> QED BY <1>4, <1>5, <2>1, <2>2
<1>8. CASE MainInit \/ Maintenance \/ PauseLock \/ UNCHANGED vars
  <2>1. UNCHANGED <<cfg, wk, cn, cq>>
    BY <1>8 DEF MainInit, Maintenance, PauseWrite, PauseDone, Resume, PauseLock, vars
  <2>2. \A q \in Posters : poster'[q].pc = "push" => poster'[q] = poster[q]
    BY <1>8 DEF MainInit, Maintenance, PauseWrite, PauseDone, Resume, PauseLock, vars, Resting, TypeInv, PostersOK
  <2> QED BY <1>4, <1>5, <2>1, <2>2
<1>9. ASSUME NEW c \in Conns, IoDone(c) PROVE SyncInv'
  <2>1. cn[c].io = "queued" /\ Post("io", c, "redispatch") /\ UNCHANGED <<cfg, wk, cq>>
        /\ cn' = [cn EXCEPT ![c].io = "done"]
    BY <1>9 DEF IoDone
  <2>2. cn[c].state = Stage("redispatch")
    BY <2>1 DEF SyncInv, Stages, Stage
  <2>3. SameInput(cn[c], cn'[c]) /\ cn'[c].state = cn[c].state /\ cn'[c].io = "done"
    BY <1>4, <2>1 DEF SameInput, ConnOK, Fields, NoConn
  <2>4. Synced(cn'[c], cfg.faults)
    BY <1>4, <2>3, SameSynced
  <2>5. \A d \in Conns \ {c} : cn'[d] = cn[d]
    BY <2>1
  <2>6. \A q \in Posters : \/ poster'[q] = poster[q]
                           \/ poster'[q].conn \in Conns /\ cn[poster'[q].conn].state = Stage(poster'[q].mode)
    <3>1. "io" \in Posters
      BY DEF Posters
    <3> QED BY <2>1, <2>2, <3>1, PostFacts
  <2> QED BY <1>4, <1>5, <2>1, <2>3, <2>4, <2>5, <2>6
<1>10. ASSUME NEW c \in Conns, NEW s \in cfg.scripts, NEW pri \in BOOLEAN, Accept(c, s, pri)
       PROVE  SyncInv'
  <2>1. /\ ~cn[c].open /\ Post("main", c, "new") /\ UNCHANGED <<cfg, wk, cq>>
        /\ cn' = [cn EXCEPT ![c].open = TRUE, ![c].script = s, ![c].sock = <<>>, ![c].eof = FALSE,
                            ![c].pri = pri]
    BY <1>10 DEF Accept
  <2>2. cn[c].state = "conn_closed" /\ cn[c].rbuf = <<>>
    BY <1>4, <2>1 DEF Synced
  <2>3. /\ cn'[c].open /\ cn'[c].script = s /\ cn'[c].sock = <<>> /\ cn'[c].rbuf = <<>>
        /\ cn'[c].state = cn[c].state /\ cn'[c].io = cn[c].io /\ cn'[c].bad = cn[c].bad
        /\ cn'[c].rl = cn[c].rl /\ cn'[c].sb = cn[c].sb
    BY <1>4, <2>1, <2>2 DEF ConnOK, Fields, NoConn
  <2>4. s \in Text
    BY MemWorkersAssumption DEF TypeInv, Text, Tokens
  <2>5. Stream(cn'[c]) = s
    BY <2>3, <2>4, StreamFacts DEF Stream
  <2>6. Fits(Stream(cn'[c]), FALSE, cfg.faults)
    BY <2>5 DEF Orderly
  <2>7. cn[c].rl \in {0, 1} /\ cn[c].sb \in {0, 1} /\ ~cn[c].bad
    BY <1>4 DEF Synced
  <2>8. cn'[c].rl \in {0, 1} /\ cn'[c].sb \in {0, 1} /\ cn'[c].state = "conn_closed"
    BY <2>2, <2>3, <2>7
  <2>9. ~cn'[c].bad
    BY <2>3, <2>7
  <2>10. Synced(cn'[c], cfg.faults)
    BY <2>3, <2>6, <2>8, <2>9 DEF Synced
  <2>11. \A d \in Conns \ {c} : cn'[d] = cn[d]
    <3>1. PICK y : y = [cn[c] EXCEPT !.open = TRUE, !.script = s, !.sock = <<>>, !.eof = FALSE, !.pri = pri]
      OBVIOUS
    <3>2. cn' = [cn EXCEPT ![c] = y]
      BY <1>4, <2>1, <3>1
    <3> QED BY <3>2
  <2>12. \A q \in Posters : \/ poster'[q] = poster[q]
                            \/ poster'[q].conn \in Conns /\ cn[poster'[q].conn].state = Stage(poster'[q].mode)
    <3>1. "main" \in Posters /\ Stage("new") = "conn_closed"
      BY DEF Posters, Stage
    <3> QED BY <2>1, <2>2, <3>1, PostFacts
  <2> QED BY <1>4, <1>5, <2>1, <2>3, <2>10, <2>11, <2>12
<1>11. ASSUME NEW c \in Conns, Send(c) PROVE SyncInv'
  <2> DEFINE x == cn[c]
             a == Append(x.sock, Head(x.script))
             b == Tail(x.script)
  <2>1. UNCHANGED <<cfg, wk, cq, poster>> /\ x.script # <<>>
        /\ cn' = [cn EXCEPT ![c].sock = Append(@, Head(cn[c].script)), ![c].script = Tail(@)]
    BY <1>11 DEF Send
  <2>2. /\ cn'[c].open = x.open /\ cn'[c].state = x.state /\ cn'[c].io = x.io /\ cn'[c].bad = x.bad
        /\ cn'[c].rl = x.rl /\ cn'[c].sb = x.sb /\ cn'[c].go = x.go /\ cn'[c].rbuf = x.rbuf
        /\ cn'[c].sock = a /\ cn'[c].script = b
    <3>1. cn'[c] = [[x EXCEPT !.sock = a] EXCEPT !.script = b]
      BY <1>4, <2>1 DEF ConnOK, Fields, NoConn
    <3> HIDE DEF a, b, x
    <3> QED BY <1>4, <3>1 DEF ConnOK, Fields, NoConn, x
  <2>3. Stream(cn'[c]) = Stream(x)
    <3>1. x.rbuf \in Text /\ x.sock \in Text /\ x.script \in Text
      BY <1>4 DEF ConnOK
    <3>2. PICK r \in Text, s \in Text, q \in Text : r = x.rbuf /\ s = x.sock /\ q = x.script
      BY <3>1
    <3>a. q # <<>>
      BY <2>1, <3>2
    <3>3. r \o Append(s, Head(q)) \o Tail(q) = r \o s \o q
      BY <3>a, StreamFacts
    <3> QED BY <2>2, <3>2, <3>3 DEF Stream
  <2> HIDE DEF a, b, x
  <2>4. Due(cn'[c]) = Due(x)
    BY <2>2 DEF Due
  <2>5. Synced(x, cfg.faults)
    BY <1>4 DEF x
  <2>6. Synced(cn'[c], cfg.faults)
    BY <2>2, <2>3, <2>4, <2>5 DEF Synced
  <2>7. \A d \in Conns \ {c} : cn'[d] = cn[d]
    <3>1. PICK y : y = [cn[c] EXCEPT !.sock = Append(@, Head(cn[c].script)), !.script = Tail(@)]
      OBVIOUS
    <3>2. cn' = [cn EXCEPT ![c] = y]
      BY <1>4, <2>1, <3>1
    <3> QED BY <3>2
  <2> QED BY <1>4, <1>5, <2>1, <2>2, <2>6, <2>7 DEF x
<1>12. ASSUME NEW c \in Conns, Hangup(c) PROVE SyncInv'
  <2>1. UNCHANGED <<cfg, wk, cq, poster>> /\ cn' = [cn EXCEPT ![c].eof = TRUE]
    BY <1>12 DEF Hangup
  <2>2. SameInput(cn[c], cn'[c]) /\ cn'[c].state = cn[c].state /\ cn'[c].io = cn[c].io
    BY <1>4, <2>1 DEF SameInput, ConnOK, Fields, NoConn
  <2>3. Synced(cn'[c], cfg.faults)
    BY <1>4, <2>2, SameSynced
  <2>4. \A d \in Conns \ {c} : cn'[d] = cn[d]
    BY <2>1
  <2> QED BY <1>4, <1>5, <2>1, <2>2, <2>3, <2>4
<1> QED BY <1>6, <1>7, <1>8, <1>9, <1>10, <1>11, <1>12 DEF Poster, IoThread

\* No connection is open initially.
LEMMA InitSynced == Init => SyncInv
<1> SUFFICES ASSUME Init PROVE SyncInv
  OBVIOUS
<1>1. \A c \in Conns : cn[c] = NoConn
  BY DEF Init
<1>2. /\ NoConn.open = FALSE /\ NoConn.state = "conn_closed" /\ NoConn.rbuf = <<>> /\ NoConn.bad = FALSE
      /\ NoConn.rl = 0 /\ NoConn.sb = 0 /\ NoConn.io = "none"
  BY DEF NoConn
<1>3. Synced(NoConn, cfg.faults)
  BY <1>2 DEF Synced
<1>4. \A i \in Threads : DOMAIN cq[i] = {}
  BY DEF Init
<1>5. (\A p \in Posters : poster[p].pc # "push") /\ \A t \in Threads : wk[t].pc = "start"
  BY DEF Init, Resting, NewWorker
<1> QED BY <1>1, <1>2, <1>3, <1>4, <1>5 DEF SyncInv, AllSynced, Stages

(* The data block of a set is never taken for a command, with an event     *)
(* base for each worker: whatever the workers, the I/O thread and the      *)
(* clients do, and wherever a worker leaves a connection, drive_machine    *)
(* wants a block in conn_nread or conn_swallow exactly when one comes next *)
(* in what the client has sent.  Clients send whole commands, and where    *)
(* item_alloc may fail none with noreply: there out_string goes back to    *)
(* conn_new_cmd at once and the block is never swallowed.                  *)
THEOREM StreamInSync == Spec => [](Orderly(cfg) => InSync)
<1> DEFINE Whole == ~cfg.shared /\ Orderly(cfg)
<1>1. Init => TypeInv /\ (Whole => Owned /\ SyncInv)
  BY InitType, InitOwned, InitSynced
<1>2. TypeInv /\ (Whole => Owned /\ SyncInv) /\ [Next]_vars => (Whole => Owned /\ SyncInv)'
  <2> SUFFICES ASSUME TypeInv, Whole => Owned /\ SyncInv, [Next]_vars, Whole' PROVE Owned' /\ SyncInv'
    OBVIOUS
  <2>1. cfg' = cfg
    BY CfgKept
  <2>2. Whole /\ Owned /\ SyncInv
    BY <2>1
  <2>3. Owned'
    BY <2>2, NextOwned
  <2> QED BY <2>2, <2>3, WorkerSynced, OutsideSynced DEF Next
<1>3. (Whole => Owned /\ SyncInv) => (Orderly(cfg) => InSync)
  BY DEF InSync, SyncInv, AllSynced, Synced
<1> QED BY <1>1, <1>2, <1>3, NextType, PTL DEF Spec
=============================================================================

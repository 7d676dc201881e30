------------------------- MODULE DismemberCtlProof -------------------------
(* Proofs about DismemberCtl for any number of clients and worker threads,  *)
(* with and without crashes and ticks in the final exchange.                *)
EXTENDS DismemberCtl, FiniteSetTheorems, SequenceTheorems, WellFoundedInduction, TLAPS

-----------------------------------------------------------------------------
(* Type correctness *)

\* A tick that waits leaves room for one more second.
TimeOK == \A p \in Procs : timer[p] => cur_time[p] < MaxTime

\* While the master receives counts, some are missing.
TotOK == pc[Master] \notin {"wait_eof", "done", "exit"} => tot < Cardinality(Clients)

TypeInv == TypeOK /\ TimeOK /\ TotOK

\* What writing to a queue does.
LEMMA AppendFacts ==
  ASSUME NEW M, NEW s \in Seq(M), NEW m \in M
  PROVE  /\ Append(s, m) \in Seq(M) /\ Append(s, m) # <<>>
         /\ \A i \in 1..Len(Append(s, m)) :
              Append(s, m)[i] = m \/ (i \in 1..Len(s) /\ Append(s, m)[i] = s[i])
<1>1. Len(s) \in Nat /\ Append(s, m) \in Seq(M) /\ Len(Append(s, m)) = Len(s) + 1
  BY AppendProperties, LenProperties
<1>2. Append(s, m)[Len(s) + 1] = m /\ \A i \in 1..Len(s) : Append(s, m)[i] = s[i]
  BY AppendProperties
<1>3. Append(s, m) # <<>>
  BY <1>1
<1>4. \A i \in 1..Len(s) + 1 : i = Len(s) + 1 \/ i \in 1..Len(s)
  BY <1>1
<1> QED  BY <1>1, <1>2, <1>3, <1>4

\* What reading from a queue does.
LEMMA TailFacts ==
  ASSUME NEW M, NEW s \in Seq(M), s # <<>>
  PROVE  /\ Head(s) \in M /\ Head(s) = s[1] /\ 1 \in 1..Len(s) /\ Tail(s) \in Seq(M)
         /\ \A i \in 1..Len(Tail(s)) : i + 1 \in 1..Len(s) /\ Tail(s)[i] = s[i + 1]
<1>1. Len(s) \in Nat \ {0} /\ Tail(s) \in Seq(M) /\ Len(Tail(s)) = Len(s) - 1
  BY HeadTailProperties, EmptySeq, LenProperties
<1> QED  BY <1>1, HeadTailProperties, ElementOfSeq

\* The links of the control connections.
LEMMA LinkFacts ==
  ASSUME NEW c \in Clients
  PROVE  /\ <<c, Master>> \in Links /\ <<Master, c>> \in Links /\ <<c, Master>> # <<Master, c>>
         /\ c \in Procs /\ Master \in Procs /\ c # Master
BY CtlAssumption DEF Links, Procs

\* The peers of a process, and the links between them.
LEMMA PeerFacts ==
  ASSUME NEW p \in Procs, NEW q \in Peers(p)
  PROVE  q \in Procs /\ <<q, p>> \in Links /\ <<p, q>> \in Links
BY CtlAssumption DEF Peers, Procs, Links

\* The messages.
LEMMA MsgFacts ==
  /\ \A tag \in {"OPTIONS", "OK", "START", "STOP", "ACK"} : Plain(tag) \in Msg /\ Plain(tag).tag = tag
  /\ \A n \in 0..MaxOps : [tag |-> "QPS", qps |-> n] \in Msg
BY CtlAssumption DEF Plain, Msg

PCs == {"prepare", "prepare_barrier", "wait_ok", "send_ok", "send_start",
        "wait_start", "ok_barrier", "run", "send_qps", "wait_ack", "join",
        "send_stop", "recv_qps", "wait_eof", "done", "exit", "crashed"}

\* A queue written to, or read, keeps its type.
LEMMA ChanType ==
  ASSUME TypeOK, NEW l \in Links
  PROVE  /\ chan[l] \in Seq(Msg)
         /\ \A m \in Msg : [chan EXCEPT ![l] = Append(@, m)] \in [Links -> Seq(Msg)]
         /\ chan[l] # <<>> => /\ [chan EXCEPT ![l] = Tail(@)] \in [Links -> Seq(Msg)]
                              /\ Head(chan[l]) \in Msg
<1>1. chan[l] \in Seq(Msg) /\ chan \in [Links -> Seq(Msg)]
  BY DEF TypeOK
<1>2. \A m \in Msg : Append(chan[l], m) \in Seq(Msg)
  BY <1>1, AppendFacts
<1>3. chan[l] # <<>> => Tail(chan[l]) \in Seq(Msg) /\ Head(chan[l]) \in Msg
  BY <1>1, TailFacts
<1> QED  BY <1>1, <1>2, <1>3

\* A process that exits keeps the type invariant.
LEMMA AbortType ==
  ASSUME TypeInv, NEW p \in Procs,
         NEW why \in {"start", "ok", "message", "disconnected", "ack", "tick", "io"}, Abort(p, why)
  PROVE  /\ pc' \in [Procs -> PCs]
         /\ failed' \in [Procs -> {"none", "start", "ok", "message", "disconnected", "ack", "tick", "io"}]
         /\ worker' \in [Procs -> [Threads -> {"none", "connecting", "ready", "running", "exited"}]]
         /\ \A q \in Procs : pc'[q] \in {pc[q], "exit"}
BY DEF TypeInv, TypeOK, PCs, Abort, Goto

\* Worker threads keep the type invariant.
LEMMA WorkerType ==
  ASSUME TypeInv, NEW p \in Procs, NEW t \in Threads, WorkerStep(p, t) \/ Count(p, t)
  PROVE  TypeInv'
<1>1. CASE Connect(p, t)
  BY <1>1 DEF Connect, TypeInv, TypeOK, TimeOK, TotOK, ctlvars
<1>2. CASE Stop(p, t)
  BY <1>2 DEF Stop, TypeInv, TypeOK, TimeOK, TotOK, ctlvars
<1>3. CASE Count(p, t)
  <2>1. cnt[p] + 1 \in 0..MaxOps
    BY <1>3, CtlAssumption DEF Count, TypeInv, TypeOK
  <2> QED  BY <1>3, <2>1 DEF Count, TypeInv, TypeOK, TimeOK, TotOK, ctlvars
<1> QED  BY <1>1, <1>2, <1>3 DEF WorkerStep

\* The steps of a client's main thread keep the type invariant.
LEMMA ClientType ==
  ASSUME TypeInv, NEW c \in Clients, ClientStep(c)
  PROVE  TypeInv'
<1> USE DEF TypeInv
<1>0. /\ c \in Procs /\ c # Master /\ <<Master, c>> \in Links /\ <<c, Master>> \in Links /\ Master \in Procs
  BY LinkFacts
<1>1. CASE WaitMasterPrepare(c)
  <2>1. chan' \in [Links -> Seq(Msg)]
    BY <1>0, <1>1, ChanType DEF WaitMasterPrepare, Read, Readable
  <2> QED  BY <1>0, <1>1, <2>1 DEF WaitMasterPrepare, TypeOK, TimeOK, TotOK, Goto, Spawn, ctlvars
<1>2. CASE SendOk(c)
  <2>1. chan' \in [Links -> Seq(Msg)]
    BY <1>0, <1>2, ChanType, MsgFacts DEF SendOk, Write
  <2> QED  BY <1>0, <1>2, <2>1 DEF SendOk, TypeOK, TimeOK, TotOK, Goto, ctlvars, loadvars
<1>3. CASE WaitStart(c)
  <2>1. chan' \in [Links -> Seq(Msg)]
    BY <1>0, <1>3, ChanType DEF WaitStart, Read, Readable
  <2>2. /\ pc' \in [Procs -> PCs]
        /\ failed' \in [Procs -> {"none", "start", "ok", "message", "disconnected", "ack", "tick", "io"}]
        /\ worker' \in [Procs -> [Threads -> {"none", "connecting", "ready", "running", "exited"}]]
        /\ pc'[Master] = pc[Master]
    <3>1. CASE Head(chan[<<Master, c>>]).tag = "START"
      BY <1>0, <1>3, <3>1 DEF WaitStart, TypeOK, Goto, PCs
    <3>2. CASE Head(chan[<<Master, c>>]).tag # "START"
      <4>1. Abort(c, "start")
        BY <1>3, <3>2 DEF WaitStart
      <4>2. pc'[Master] = pc[Master]
        BY <1>0, <4>1 DEF Abort, Goto, TypeOK
      <4> QED  BY <1>0, <4>1, <4>2, AbortType
    <3> QED  BY <3>1, <3>2
  <2> QED  BY <1>3, <2>1, <2>2 DEF WaitStart, TypeOK, TimeOK, TotOK, ctlvars, PCs
<1>4. CASE SendQps(c)
  <2>1. chan' \in [Links -> Seq(Msg)]
    BY <1>0, <1>4, ChanType, MsgFacts DEF SendQps, Write, TypeOK
  <2> QED  BY <1>0, <1>4, <2>1 DEF SendQps, TypeOK, TimeOK, TotOK, Goto, ctlvars, loadvars
<1>5. CASE WaitAck(c)
  <2>1. chan' \in [Links -> Seq(Msg)]
    BY <1>0, <1>5, ChanType DEF WaitAck, Read, Readable
  <2>2. /\ pc' \in [Procs -> PCs]
        /\ failed' \in [Procs -> {"none", "start", "ok", "message", "disconnected", "ack", "tick", "io"}]
        /\ worker' \in [Procs -> [Threads -> {"none", "connecting", "ready", "running", "exited"}]]
        /\ pc'[Master] = pc[Master]
    BY <1>0, <1>5, AbortType DEF WaitAck, TypeOK, Goto, PCs, Abort
  <2> QED  BY <1>5, <2>1, <2>2 DEF WaitAck, TypeOK, TimeOK, TotOK, ctlvars, PCs
<1> QED  BY <1>1, <1>2, <1>3, <1>4, <1>5 DEF ClientStep

\* The steps of the master's loops over its clients keep the type invariant.
LEMMA MasterType ==
  ASSUME TypeInv, NEW c \in Clients, MasterStep(c)
  PROVE  TypeInv'
<1> USE DEF TypeInv
<1>0. /\ c \in Procs /\ c # Master /\ <<Master, c>> \in Links /\ <<c, Master>> \in Links /\ Master \in Procs
      /\ <<c, Master>> # <<Master, c>>
  BY LinkFacts
<1>1. CASE PrepareClient(c)
  <2>1. chan' \in [Links -> Seq(Msg)]
    BY <1>0, <1>1, ChanType, MsgFacts DEF PrepareClient, Write
  <2>2. /\ pc' \in [Procs -> PCs] /\ TotOK'
        /\ worker' \in [Procs -> [Threads -> {"none", "connecting", "ready", "running", "exited"}]]
    <3>1. /\ pc \in [Procs -> PCs] /\ pc[Master] = "prepare" /\ tot' = tot /\ TotOK
          /\ worker \in [Procs -> [Threads -> {"none", "connecting", "ready", "running", "exited"}]]
      BY <1>1 DEF PrepareClient, TypeOK, PCs
    <3>2. CASE todo = {c}
      BY <1>0, <1>1, <3>1, <3>2 DEF PrepareClient, TotOK, Goto, Spawn, PCs
    <3>3. CASE todo # {c}
      BY <1>1, <3>1, <3>3 DEF PrepareClient, TotOK
    <3> QED  BY <3>2, <3>3
  <2> QED  BY <1>1, <2>1, <2>2 DEF PrepareClient, TypeOK, TimeOK, PCs
<1>2. CASE WaitOk(c)
  <2>1. chan' \in [Links -> Seq(Msg)]
    BY <1>0, <1>2, ChanType DEF WaitOk, Read, Readable
  <2>2. /\ pc' \in [Procs -> PCs]
        /\ failed' \in [Procs -> {"none", "start", "ok", "message", "disconnected", "ack", "tick", "io"}]
        /\ worker' \in [Procs -> [Threads -> {"none", "connecting", "ready", "running", "exited"}]]
    BY <1>0, <1>2, AbortType DEF WaitOk, TypeOK, Goto, PCs
  <2>3. acked' \subseteq Clients /\ todo' \subseteq Clients
    BY <1>2 DEF WaitOk, TypeOK
  <2> QED  BY <1>2, <2>1, <2>2, <2>3 DEF WaitOk, TypeOK, TimeOK, TotOK, PCs
<1>3. CASE SendStart(c)
  <2>1. chan' \in [Links -> Seq(Msg)]
    BY <1>0, <1>3, ChanType, MsgFacts DEF SendStart, Write
  <2> QED  BY <1>0, <1>3, <2>1 DEF SendStart, TypeOK, TimeOK, TotOK, Goto, loadvars
<1>4. CASE SendStop(c)
  <2>1. chan' \in [Links -> Seq(Msg)]
    BY <1>0, <1>4, ChanType, MsgFacts DEF SendStop, Write
  <2> QED  BY <1>0, <1>4, <2>1 DEF SendStop, TypeOK, TimeOK, TotOK, Goto, loadvars
<1>5. CASE RecvQps(c)
  <2>1. /\ chan[<<c, Master>>] \in Seq(Msg) /\ chan[<<c, Master>>] # <<>> /\ chan[<<Master, c>>] \in Seq(Msg)
    BY <1>0, <1>5 DEF RecvQps, Readable, TypeOK
  <2>2. /\ Tail(chan[<<c, Master>>]) \in Seq(Msg) /\ Head(chan[<<c, Master>>]) \in Msg
        /\ Append(chan[<<Master, c>>], Plain("ACK")) \in Seq(Msg)
    BY <2>1, TailFacts, AppendFacts, MsgFacts
  <2>3. chan' \in [Links -> Seq(Msg)]
    <3> DEFINE S == Seq(Msg)
               a == Tail(chan[<<c, Master>>])
               b == Append(chan[<<Master, c>>], Plain("ACK"))
    <3>1. chan \in [Links -> S] /\ a \in S /\ b \in S
      BY <2>2 DEF TypeOK
    <3>2. chan' = [[chan EXCEPT ![<<c, Master>>] = a] EXCEPT ![<<Master, c>>] = b]
      BY <1>0, <1>5, <3>1 DEF RecvQps
    <3> HIDE DEF S, a, b
    <3>3. chan' \in [Links -> S]
      BY <1>0, <3>1, <3>2
    <3> QED  BY <3>3 DEF S
  <2>4. qps' \in Nat
    <3>1. Head(chan[<<c, Master>>]).qps \in Nat
      BY <2>2, CtlAssumption DEF Msg
    <3>2. qps \in Nat /\ qps' = qps + Head(chan[<<c, Master>>]).qps
      BY <1>5 DEF RecvQps, TypeOK
    <3> QED  BY <3>1, <3>2
  <2>5. tot' \in 0..Cardinality(Clients) /\ Cardinality(Clients) \in Nat
    BY <1>5, CtlAssumption, FS_CardinalityType DEF RecvQps, TypeOK, TotOK
  <2>6. pc' \in [Procs -> PCs] /\ TotOK'
    <3>1. /\ pc \in [Procs -> PCs] /\ pc[Master] = "recv_qps" /\ tot \in 0..Cardinality(Clients)
          /\ tot' = tot + 1 /\ tot < Cardinality(Clients)
      BY <1>5 DEF RecvQps, TypeOK, TotOK, PCs
    <3>2. CASE tot' = Cardinality(Clients)
      BY <1>0, <1>5, <3>1, <3>2 DEF RecvQps, TotOK, Goto, PCs
    <3>3. CASE tot' # Cardinality(Clients)
      <4>1. pc' = pc
        BY <1>5, <3>3 DEF RecvQps
      <4> QED  BY <2>5, <3>1, <3>3, <4>1 DEF TotOK
    <3> QED  BY <3>2, <3>3
  <2> QED  BY <1>5, <2>3, <2>4, <2>5, <2>6 DEF RecvQps, TypeOK, TimeOK, loadvars, PCs
<1>6. CASE RecvEof(c)
  BY <1>6 DEF RecvEof, vars, ctlvars, loadvars, TypeOK, TimeOK, TotOK
<1>7. CASE WaitEof(c)
  BY <1>0, <1>7 DEF WaitEof, TypeOK, TimeOK, TotOK, Goto, loadvars
<1> QED  BY <1>1, <1>2, <1>3, <1>4, <1>5, <1>6, <1>7 DEF MasterStep

\* The steps every main thread takes keep the type invariant.
LEMMA MainType ==
  ASSUME TypeInv, NEW p \in Procs, MainStep(p) \/ Tick(p)
  PROVE  TypeInv'
<1> USE DEF TypeInv
<1>0. Master \in Procs
  BY DEF Procs
<1>1. CASE PrepareBarrier(p)
  BY <1>0, <1>1 DEF PrepareBarrier, TypeOK, TimeOK, TotOK, Goto, ctlvars, loadvars
<1>2. CASE OkBarrier(p)
  BY <1>0, <1>2 DEF OkBarrier, TypeOK, TimeOK, TotOK, Goto, ctlvars
<1>3. CASE LoopTick(p)
  <2>1. cur_time[p] + 1 \in 0..MaxTime
    BY <1>3, CtlAssumption DEF LoopTick, TypeOK, TimeOK
  <2>2. cur_time' \in [Procs -> 0..MaxTime] /\ timer' \in [Procs -> BOOLEAN] /\ TimeOK'
    BY <1>3, <2>1 DEF LoopTick, TypeOK, TimeOK
  <2> QED  BY <1>3, <2>2 DEF LoopTick, TypeOK, TotOK, ctlvars
<1>4. CASE Join(p)
  BY <1>0, <1>4 DEF Join, TypeOK, TimeOK, TotOK, Goto, loadvars
<1>5. CASE ExchangeTick(p)
  BY <1>0, <1>5, AbortType DEF ExchangeTick, TypeOK, TimeOK, TotOK, ctlvars, PCs
<1>6. ASSUME NEW q \in Peers(p), LoopEof(p, q) \/ IoFails(p, q) PROVE TypeInv'
  BY <1>0, <1>6, AbortType DEF LoopEof, IoFails, TypeOK, TimeOK, TotOK, ctlvars, PCs
<1>7. ASSUME NEW q \in Peers(p), LoopMessage(p, q) PROVE TypeInv'
  <2>1. chan' \in [Links -> Seq(Msg)]
    BY <1>7, PeerFacts, ChanType DEF LoopMessage, Read, Readable
  <2>2. /\ pc' \in [Procs -> PCs]
        /\ failed' \in [Procs -> {"none", "start", "ok", "message", "disconnected", "ack", "tick", "io"}]
        /\ worker' \in [Procs -> [Threads -> {"none", "connecting", "ready", "running", "exited"}]]
        /\ local' \in [Procs -> 0..MaxOps]
        /\ TotOK'
    <3>1. CASE Head(chan[<<q, p>>]).tag = "STOP"
      <4>1. /\ pc[p] = "run" /\ pc' = [pc EXCEPT ![p] = "send_qps"]
            /\ local' = [local EXCEPT ![p] = cnt[p]] /\ UNCHANGED <<failed, worker, tot>>
        BY <1>7, <3>1 DEF LoopMessage, Goto, ctlvars
      <4>2. pc' \in [Procs -> PCs] /\ local' \in [Procs -> 0..MaxOps]
        BY <4>1 DEF TypeOK, PCs
      <4>3. TotOK'
        BY <1>0, <4>1 DEF TypeOK, TotOK
      <4> QED  BY <4>1, <4>2, <4>3 DEF TypeOK
    <3>2. CASE Head(chan[<<q, p>>]).tag # "STOP"
      BY <1>0, <1>7, <3>2, AbortType DEF LoopMessage, TypeOK, TotOK, ctlvars
    <3> QED  BY <3>1, <3>2
  <2> QED  BY <1>7, <2>1, <2>2 DEF LoopMessage, TypeOK, TimeOK, ctlvars, PCs
<1>8. CASE Tick(p)
  BY <1>8 DEF Tick, TypeOK, TimeOK, TotOK, ctlvars
<1> QED  BY <1>1, <1>2, <1>3, <1>4, <1>5, <1>6, <1>7, <1>8 DEF MainStep

\* The type invariant holds initially.
LEMMA InitType == Init => TypeInv
<1> SUFFICES ASSUME Init PROVE TypeInv
  OBVIOUS
<1>1. Cardinality(Clients) \in Nat /\ Cardinality(Clients) # 0
  BY CtlAssumption, FS_CardinalityType, FS_EmptySet
<1>2. <<>> \in Seq(Msg)
  OBVIOUS
<1> QED  BY <1>1, <1>2, CtlAssumption DEF Init, TypeInv, TypeOK, TimeOK, TotOK, Procs

\* Every step keeps the type invariant.
LEMMA NextType == TypeInv /\ [Next]_vars => TypeInv'
<1> SUFFICES ASSUME TypeInv, [Next]_vars PROVE TypeInv'
  OBVIOUS
<1>0. Master \in Procs /\ Clients \subseteq Procs
  BY DEF Procs
<1>1. ASSUME NEW c \in Clients, Crash(c) PROVE TypeInv'
  BY <1>0, <1>1, LinkFacts DEF Crash, TypeInv, TypeOK, TimeOK, TotOK, Goto, ctlvars
<1>2. CASE LoopEnd
  <2>1. cnt[Master] \in 0..MaxOps /\ cnt[Master] \in Nat
    BY <1>0, CtlAssumption DEF TypeInv, TypeOK
  <2> QED  BY <1>0, <1>2, <2>1 DEF LoopEnd, TypeInv, TypeOK, TimeOK, TotOK, Goto
<1>3. CASE WaitEofTick
  BY <1>0, <1>3 DEF WaitEofTick, TypeInv, TypeOK, TimeOK, TotOK, ctlvars
<1>4. CASE UNCHANGED vars
  BY <1>4 DEF vars, ctlvars, loadvars, TypeInv, TypeOK, TimeOK, TotOK
<1> QED  BY <1>1, <1>2, <1>3, <1>4, WorkerType, ClientType, MasterType, MainType DEF Next

-----------------------------------------------------------------------------
(* No load before everybody is connected *)

\* The process has passed its first barrier: its workers have connected.
Past(p) == pc[p] \notin {"prepare", "prepare_barrier"}
AllPast == \A p \in Procs : Past(p)

\* The workers of a process run only between its second barrier and the join.
WorkersOK ==
  \A p \in Procs, t \in Threads :
    /\ Past(p) => worker[p][t] \notin {"none", "connecting"}
    /\ worker[p][t] = "running" => pc[p] \in {"run", "send_qps", "wait_ack", "join"}

\* What a client wrote, and the master has taken note of, was written past the
\* client's barrier.
OksOK == \A c \in Clients : c \in acked \/ chan[<<c, Master>>] # <<>> => Past(c)

\* Something other than the options is on its way to the client.
Ordered(c) == \E i \in 1..Len(chan[<<Master, c>>]) : chan[<<Master, c>>][i].tag # "OPTIONS"

\* Places the master, or a client, reaches only once START was sent.
Early == {"prepare", "prepare_barrier", "wait_ok", "send_ok", "wait_start", "exit", "crashed"}

\* START is sent, and taken for the permission to run, only when all processes
\* are past their barrier.
StartOK ==
  /\ \A p \in Procs : pc[p] \notin Early => AllPast
  /\ \A c \in Clients : Ordered(c) => AllPast

IInv == TypeInv /\ WorkersOK /\ OksOK /\ StartOK

\* The invariant is enough for LoadAfterAllConnected.
LEMMA LoadFromIInv == IInv => LoadAfterAllConnected
<1> SUFFICES ASSUME IInv, NEW p \in Procs, NEW t \in Threads, worker[p][t] = "running"
             PROVE  \A q \in Procs, u \in Threads : worker[q][u] \notin {"none", "connecting"}
  BY DEF LoadAfterAllConnected
<1>1. pc[p] \notin Early
  BY DEF IInv, WorkersOK, Early
<1>2. AllPast
  BY <1>1 DEF IInv, StartOK
<1> QED  BY <1>2 DEF IInv, WorkersOK, AllPast

\* The invariant holds initially.
LEMMA InitInv == Init => IInv
<1> SUFFICES ASSUME Init PROVE IInv
  OBVIOUS
<1>1. WorkersOK
  BY DEF Init, WorkersOK, Past
<1>2. \A c \in Clients : chan[<<c, Master>>] = <<>> /\ chan[<<Master, c>>] = <<>>
  BY LinkFacts DEF Init
<1>3. OksOK
  BY <1>2 DEF Init, OksOK
<1>4. \A c \in Clients : ~Ordered(c)
  <2>1. 1..Len(<<>>) = {}
    OBVIOUS
  <2> QED  BY <1>2, <2>1 DEF Ordered
<1>5. StartOK
  BY <1>4 DEF Init, StartOK, Early
<1> QED  BY <1>1, <1>3, <1>5, InitType DEF IInv

\* What each step must be shown to do: barriers are not undone, the workers follow
\* their process, and permissions to run come from permissions to run.
LEMMA StepInv ==
  ASSUME IInv, TypeInv', WorkersOK',
         \A p \in Procs : Past(p) => Past(p)',
         \A c \in Clients : c \in acked' \/ chan'[<<c, Master>>] # <<>>
                           => c \in acked \/ chan[<<c, Master>>] # <<>> \/ Past(c)',
         \A c \in Clients : Ordered(c)' => Ordered(c) \/ AllPast,
         \A p \in Procs : pc'[p] \notin Early => pc[p] \notin Early \/ AllPast
  PROVE  IInv'
<1>1. AllPast => AllPast'
  BY DEF AllPast
<1>2. OksOK'
  BY LinkFacts DEF IInv, OksOK
<1>3. StartOK'
  BY <1>1 DEF IInv, StartOK
<1> QED  BY <1>2, <1>3 DEF IInv

\* Steps that write and read nothing are judged by what they do to pc and to the
\* workers.
LEMMA QuietInv ==
  ASSUME IInv, TypeInv', WorkersOK', UNCHANGED <<chan, acked>>,
         \A p \in Procs : Past(p) => Past(p)',
         \A p \in Procs : pc'[p] \notin Early => pc[p] \notin Early \/ AllPast
  PROVE  IInv'
<1>1. \A c \in Clients : Ordered(c)' => Ordered(c)
  BY DEF Ordered
<1> QED  BY <1>1, StepInv

\* Reading a queue brings nothing new into it.
LEMMA ReadFrame ==
  ASSUME TypeOK, NEW l \in Links, chan[l] # <<>>, chan' = [chan EXCEPT ![l] = Tail(@)]
  PROVE  /\ \A c \in Clients : chan'[<<c, Master>>] # <<>> => chan[<<c, Master>>] # <<>>
         /\ \A c \in Clients : Ordered(c)' => Ordered(c)
<1>1. chan[l] \in Seq(Msg) /\ \A k \in Links : chan'[k] = IF k = l THEN Tail(chan[l]) ELSE chan[k]
  BY DEF TypeOK
<1>2. \A i \in 1..Len(Tail(chan[l])) : i + 1 \in 1..Len(chan[l]) /\ Tail(chan[l])[i] = chan[l][i + 1]
  BY <1>1, TailFacts
<1>3. \A c \in Clients : chan'[<<c, Master>>] # <<>> => chan[<<c, Master>>] # <<>>
  BY <1>1, LinkFacts
<1>4. ASSUME NEW c \in Clients, Ordered(c)' PROVE Ordered(c)
  <2>1. CASE <<Master, c>> = l
    <3>1. chan'[<<Master, c>>] = Tail(chan[<<Master, c>>])
      BY <1>1, <2>1
    <3>2. PICK i \in 1..Len(Tail(chan[<<Master, c>>])) : Tail(chan[<<Master, c>>])[i].tag # "OPTIONS"
      BY <1>4, <3>1 DEF Ordered
    <3>3. i + 1 \in 1..Len(chan[<<Master, c>>]) /\ chan[<<Master, c>>][i + 1].tag # "OPTIONS"
      BY <1>2, <2>1, <3>2
    <3> QED  BY <3>3 DEF Ordered
  <2>2. CASE <<Master, c>> # l
    BY <1>1, <1>4, <2>2, LinkFacts DEF Ordered
  <2> QED  BY <2>1, <2>2
<1> QED  BY <1>3, <1>4

\* Writing m to the queue l.
LEMMA WriteFrame ==
  ASSUME TypeOK, NEW l \in Links, NEW m \in Msg, chan' = [chan EXCEPT ![l] = Append(@, m)]
  PROVE  /\ \A c \in Clients : chan'[<<c, Master>>] # <<>> => chan[<<c, Master>>] # <<>> \/ l = <<c, Master>>
         /\ \A c \in Clients : Ordered(c)' => Ordered(c) \/ (l = <<Master, c>> /\ m.tag # "OPTIONS")
<1>1. chan[l] \in Seq(Msg) /\ \A k \in Links : chan'[k] = IF k = l THEN Append(chan[l], m) ELSE chan[k]
  BY DEF TypeOK
<1>2. \A i \in 1..Len(Append(chan[l], m)) :
        Append(chan[l], m)[i] = m \/ (i \in 1..Len(chan[l]) /\ Append(chan[l], m)[i] = chan[l][i])
  BY <1>1, AppendFacts
<1>3. \A c \in Clients : chan'[<<c, Master>>] # <<>> => chan[<<c, Master>>] # <<>> \/ l = <<c, Master>>
  BY <1>1, LinkFacts
<1>4. ASSUME NEW c \in Clients, Ordered(c)'
      PROVE  Ordered(c) \/ (l = <<Master, c>> /\ m.tag # "OPTIONS")
  <2>1. CASE <<Master, c>> = l
    <3>1. chan'[<<Master, c>>] = Append(chan[<<Master, c>>], m)
      BY <1>1, <2>1
    <3>2. PICK i \in 1..Len(Append(chan[<<Master, c>>], m)) : Append(chan[<<Master, c>>], m)[i].tag # "OPTIONS"
      BY <1>4, <3>1 DEF Ordered
    <3> QED  BY <1>2, <2>1, <3>2 DEF Ordered
  <2>2. CASE <<Master, c>> # l
    BY <1>1, <1>4, <2>2, LinkFacts DEF Ordered
  <2> QED  BY <2>1, <2>2
<1> QED  BY <1>3, <1>4

\* A process that exits stops its workers and gives nobody a permission.
LEMMA AbortFrame ==
  ASSUME IInv, NEW p \in Procs, NEW why, Abort(p, why)
  PROVE  /\ WorkersOK'
         /\ \A q \in Procs : (Past(q) => Past(q)') /\ (pc'[q] \notin Early => pc[q] \notin Early)
<1>1. /\ \A q \in Procs : pc'[q] = IF q = p THEN "exit" ELSE pc[q]
      /\ \A q \in Procs : worker'[q] = IF q = p THEN [t \in Threads |-> "exited"] ELSE worker[q]
  BY DEF Abort, Goto, IInv, TypeInv, TypeOK
<1>2. WorkersOK'
  BY <1>1 DEF IInv, WorkersOK, Past
<1> QED  BY <1>1, <1>2 DEF Past, Early

\* A main thread that goes on, its workers unchanged.
LEMMA GotoFrame ==
  ASSUME IInv, NEW p \in Procs, NEW place \in PCs, Goto(p, place), UNCHANGED worker,
         Past(p) /\ place \notin {"prepare", "prepare_barrier"},
         pc[p] \in {"run", "send_qps", "wait_ack", "join"} =>
           place \in {"run", "send_qps", "wait_ack", "join"} \/ AllWorkers(p, "exited")
  PROVE  /\ WorkersOK'
         /\ \A q \in Procs : Past(q) => Past(q)'
         /\ \A q \in Procs \ {p} : pc'[q] = pc[q]
         /\ pc'[p] = place
<1>1. \A q \in Procs : pc'[q] = IF q = p THEN place ELSE pc[q]
  BY DEF Goto, IInv, TypeInv, TypeOK
<1>2. WorkersOK'
  BY <1>1 DEF IInv, WorkersOK, Past, AllWorkers
<1> QED  BY <1>1, <1>2 DEF Past

\* Worker threads.
LEMMA WorkerInv ==
  ASSUME IInv, TypeInv', NEW p \in Procs, NEW t \in Threads, WorkerStep(p, t) \/ Count(p, t)
  PROVE  IInv'
<1>1. UNCHANGED <<pc, chan, acked>>
  BY DEF WorkerStep, Connect, Stop, Count, ctlvars
<1>2. CASE UNCHANGED worker
  BY <1>1, <1>2, QuietInv DEF IInv, WorkersOK, Past
<1>3. CASE WorkerStep(p, t)
  <2>1. \A q \in Procs, u \in Threads :
          \/ worker'[q][u] = worker[q][u]
          \/ worker'[q][u] \in {"ready", "exited"}
    <3>1. worker \in [Procs -> [Threads -> {"none", "connecting", "ready", "running", "exited"}]]
      BY DEF IInv, TypeInv, TypeOK
    <3>2. PICK v \in {"ready", "exited"} : worker' = [worker EXCEPT ![p][t] = v]
      BY <1>3 DEF WorkerStep, Connect, Stop
    <3>3. \A q \in Procs : worker'[q] = IF q = p THEN [worker[p] EXCEPT ![t] = v] ELSE worker[q]
      BY <3>1, <3>2
    <3>4. \A u \in Threads : [worker[p] EXCEPT ![t] = v][u] = IF u = t THEN v ELSE worker[p][u]
      BY <3>1
    <3> QED  BY <3>3, <3>4
  <2>2. WorkersOK'
    BY <1>1, <2>1 DEF IInv, WorkersOK, Past
  <2> QED  BY <1>1, <2>2, QuietInv DEF Past
<1> QED  BY <1>2, <1>3 DEF Count

\* The steps of a client: OK is written past the barrier, and START was sent when
\* all were past theirs.
LEMMA ClientInv ==
  ASSUME IInv, TypeInv', NEW c \in Clients, ClientStep(c)
  PROVE  IInv'
<1> USE DEF IInv
<1>0. /\ c \in Procs /\ c # Master /\ <<Master, c>> \in Links /\ <<c, Master>> \in Links /\ Master \in Procs
      /\ TypeOK
  BY LinkFacts DEF TypeInv
<1>1. CASE WaitMasterPrepare(c)
  <2>1. chan' = [chan EXCEPT ![<<Master, c>>] = Tail(@)] /\ chan[<<Master, c>>] # <<>> /\ acked' = acked
    BY <1>1 DEF WaitMasterPrepare, Read, Readable, ctlvars
  <2>2. pc[c] = "prepare" /\ \A q \in Procs : pc'[q] = IF q = c THEN "prepare_barrier" ELSE pc[q]
    BY <1>0, <1>1 DEF WaitMasterPrepare, Goto, TypeOK
  <2>3. \A q \in Procs : worker'[q] = IF q = c THEN [t \in Threads |-> "connecting"] ELSE worker[q]
    BY <1>0, <1>1 DEF WaitMasterPrepare, Spawn, TypeOK
  <2>4. WorkersOK'
    BY <2>2, <2>3 DEF WorkersOK, Past
  <2>5. \A q \in Procs : (Past(q) => Past(q)') /\ (pc'[q] \notin Early => pc[q] \notin Early)
    BY <2>2 DEF Past, Early
  <2> QED  BY <1>0, <2>1, <2>4, <2>5, ReadFrame, StepInv
<1>2. CASE SendOk(c)
  <2>1. /\ chan' = [chan EXCEPT ![<<c, Master>>] = Append(@, Plain("OK"))] /\ acked' = acked
        /\ pc[c] = "send_ok" /\ Goto(c, "wait_start") /\ UNCHANGED worker
    BY <1>2 DEF SendOk, Write, ctlvars, loadvars
  <2>2. /\ WorkersOK' /\ \A q \in Procs : Past(q) => Past(q)'
        /\ \A q \in Procs \ {c} : pc'[q] = pc[q]
        /\ pc'[c] = "wait_start"
    BY <1>0, <2>1, GotoFrame DEF Past, PCs
  <2>3. /\ \A d \in Clients : chan'[<<d, Master>>] # <<>> => chan[<<d, Master>>] # <<>> \/ d = c
        /\ \A d \in Clients : Ordered(d)' => Ordered(d)
    BY <1>0, <2>1, WriteFrame, MsgFacts, LinkFacts
  <2>4. Past(c)' /\ \A q \in Procs : pc'[q] \notin Early => pc[q] \notin Early
    BY <2>2 DEF Past, Early
  <2> QED  BY <2>1, <2>2, <2>3, <2>4, StepInv
<1>3. CASE WaitStart(c)
  <2>1. chan' = [chan EXCEPT ![<<Master, c>>] = Tail(@)] /\ chan[<<Master, c>>] # <<>> /\ acked' = acked
    BY <1>3 DEF WaitStart, Read, Readable, ctlvars
  <2>2. CASE Head(chan[<<Master, c>>]).tag = "START"
    <3>1. pc[c] = "wait_start" /\ Goto(c, "ok_barrier") /\ UNCHANGED worker
      BY <1>3, <2>2 DEF WaitStart
    <3>2. AllPast
      <4>1. 1 \in 1..Len(chan[<<Master, c>>]) /\ chan[<<Master, c>>][1].tag = "START"
        BY <1>0, <2>1, <2>2, TailFacts DEF TypeOK
      <4>2. Ordered(c)
        BY <4>1 DEF Ordered
      <4> QED  BY <4>2 DEF StartOK
    <3>3. WorkersOK' /\ \A q \in Procs : Past(q) => Past(q)'
      BY <1>0, <3>1, GotoFrame DEF Past, PCs
    <3> QED  BY <1>0, <2>1, <3>2, <3>3, ReadFrame, StepInv
  <2>3. CASE Head(chan[<<Master, c>>]).tag # "START"
    <3>1. Abort(c, "start")
      BY <1>3, <2>3 DEF WaitStart
    <3> QED  BY <1>0, <2>1, <3>1, AbortFrame, ReadFrame, StepInv
  <2> QED  BY <2>2, <2>3
<1>4. CASE SendQps(c)
  <2>1. /\ chan' = [chan EXCEPT ![<<c, Master>>] = Append(@, [tag |-> "QPS", qps |-> local[c]])]
        /\ acked' = acked /\ pc[c] = "send_qps" /\ Goto(c, "wait_ack") /\ UNCHANGED worker
        /\ [tag |-> "QPS", qps |-> local[c]] \in Msg
    BY <1>0, <1>4, MsgFacts DEF SendQps, Write, ctlvars, loadvars, TypeOK
  <2>2. /\ WorkersOK' /\ \A q \in Procs : Past(q) => Past(q)'
        /\ \A q \in Procs \ {c} : pc'[q] = pc[q]
        /\ pc'[c] = "wait_ack"
    BY <1>0, <2>1, GotoFrame DEF Past, PCs
  <2>3. /\ \A d \in Clients : chan'[<<d, Master>>] # <<>> => chan[<<d, Master>>] # <<>> \/ d = c
        /\ \A d \in Clients : Ordered(d)' => Ordered(d)
    BY <1>0, <2>1, WriteFrame, LinkFacts
  <2>4. Past(c)' /\ \A q \in Procs : pc'[q] \notin Early => pc[q] \notin Early
    BY <2>1, <2>2 DEF Past, Early
  <2> QED  BY <2>1, <2>2, <2>3, <2>4, StepInv
<1>5. CASE WaitAck(c)
  <2>1. chan' = [chan EXCEPT ![<<Master, c>>] = Tail(@)] /\ chan[<<Master, c>>] # <<>> /\ acked' = acked
        /\ pc[c] = "wait_ack"
    BY <1>5 DEF WaitAck, Read, Readable, ctlvars
  <2>2. CASE Head(chan[<<Master, c>>]).tag = "ACK"
    <3>1. Goto(c, "join") /\ UNCHANGED worker
      BY <1>5, <2>2 DEF WaitAck
    <3>2. /\ WorkersOK' /\ \A q \in Procs : Past(q) => Past(q)'
          /\ \A q \in Procs \ {c} : pc'[q] = pc[q]
      BY <1>0, <2>1, <3>1, GotoFrame DEF Past, PCs
    <3>3. \A q \in Procs : pc'[q] \notin Early => pc[q] \notin Early
      BY <2>1, <3>2 DEF Early
    <3> QED  BY <1>0, <2>1, <3>2, <3>3, ReadFrame, StepInv
  <2>3. CASE Head(chan[<<Master, c>>]).tag # "ACK"
    <3>1. Abort(c, "ack")
      BY <1>5, <2>3 DEF WaitAck
    <3> QED  BY <1>0, <2>1, <3>1, AbortFrame, ReadFrame, StepInv
  <2> QED  BY <2>2, <2>3
<1> QED  BY <1>1, <1>2, <1>3, <1>4, <1>5 DEF ClientStep

\* The steps of the master: START goes out once every client is known to be past
\* its barrier.
LEMMA MasterInv ==
  ASSUME IInv, TypeInv', NEW c \in Clients, MasterStep(c)
  PROVE  IInv'
<1> USE DEF IInv
<1>0. /\ c \in Procs /\ c # Master /\ <<Master, c>> \in Links /\ <<c, Master>> \in Links /\ Master \in Procs
      /\ <<c, Master>> # <<Master, c>> /\ TypeOK
  BY LinkFacts DEF TypeInv
<1>1. CASE PrepareClient(c)
  <2>1. /\ chan' = [chan EXCEPT ![<<Master, c>>] = Append(@, Plain("OPTIONS"))] /\ acked' = acked
        /\ pc[Master] = "prepare"
    BY <1>1 DEF PrepareClient, Write
  <2>2. /\ \A d \in Clients : chan'[<<d, Master>>] # <<>> => chan[<<d, Master>>] # <<>>
        /\ \A d \in Clients : Ordered(d)' => Ordered(d)
    BY <1>0, <2>1, WriteFrame, MsgFacts, LinkFacts
  <2>3. \/ UNCHANGED <<pc, worker>>
        \/ /\ \A q \in Procs : pc'[q] = IF q = Master THEN "prepare_barrier" ELSE pc[q]
           /\ \A q \in Procs : worker'[q] = IF q = Master THEN [t \in Threads |-> "connecting"] ELSE worker[q]
    BY <1>0, <1>1 DEF PrepareClient, Goto, Spawn, TypeOK
  <2>4. WorkersOK'
    BY <2>1, <2>3 DEF WorkersOK, Past
  <2>5. \A q \in Procs : (Past(q) => Past(q)') /\ (pc'[q] \notin Early => pc[q] \notin Early)
    BY <2>1, <2>3 DEF Past, Early
  <2> QED  BY <2>1, <2>2, <2>4, <2>5, StepInv
<1>2. CASE WaitOk(c)
  <2>1. /\ chan' = [chan EXCEPT ![<<c, Master>>] = Tail(@)] /\ chan[<<c, Master>>] # <<>>
        /\ pc[Master] = "wait_ok"
    BY <1>2 DEF WaitOk, Read, Readable
  <2>2. CASE Head(chan[<<c, Master>>]).tag # "OK" \/ c \in acked
    <3>1. Abort(Master, "ok") /\ acked' = acked
      BY <1>2, <2>2 DEF WaitOk
    <3> QED  BY <1>0, <2>1, <3>1, AbortFrame, ReadFrame, StepInv
  <2>3. CASE ~(Head(chan[<<c, Master>>]).tag # "OK" \/ c \in acked)
    <3>1. /\ acked' = acked \cup {c} /\ UNCHANGED worker
          /\ IF acked' = Clients THEN Goto(Master, "send_start") ELSE UNCHANGED pc
      BY <1>2, <2>3 DEF WaitOk
    <3>2. /\ \A d \in Clients : chan'[<<d, Master>>] # <<>> => chan[<<d, Master>>] # <<>>
          /\ \A d \in Clients : Ordered(d)' => Ordered(d)
      BY <1>0, <2>1, ReadFrame
    <3>3. CASE acked' = Clients
      <4>1. \A d \in Clients : Past(d)
        BY <2>1, <3>1, <3>3 DEF OksOK
      <4>2. AllPast
        BY <2>1, <4>1 DEF AllPast, Past, Procs
      <4>3. Goto(Master, "send_start")
        BY <3>1, <3>3
      <4>4. WorkersOK' /\ \A q \in Procs : Past(q) => Past(q)'
        BY <1>0, <2>1, <3>1, <4>3, GotoFrame DEF Past, PCs
      <4> QED  BY <2>1, <3>1, <3>2, <4>2, <4>4, StepInv
    <3>4. CASE acked' # Clients
      <4>1. pc' = pc
        BY <3>1, <3>4
      <4>2. WorkersOK' /\ \A q \in Procs : Past(q) => Past(q)'
        BY <3>1, <4>1 DEF WorkersOK, Past
      <4> QED  BY <2>1, <3>1, <3>2, <4>1, <4>2, StepInv
    <3> QED  BY <3>3, <3>4
  <2> QED  BY <2>2, <2>3
<1>3. CASE SendStart(c) \/ SendStop(c)
  <2>1. PICK m \in Msg : chan' = [chan EXCEPT ![<<Master, c>>] = Append(@, m)]
    BY <1>3, MsgFacts DEF SendStart, SendStop, Write
  <2>2. /\ acked' = acked /\ UNCHANGED worker /\ pc[Master] \in {"send_start", "send_stop"}
        /\ UNCHANGED pc \/ \E place \in {"ok_barrier", "recv_qps"} : Goto(Master, place)
    BY <1>3 DEF SendStart, SendStop, loadvars
  <2>3. AllPast
    BY <1>0, <2>2 DEF StartOK, Early
  <2>4. /\ WorkersOK' /\ \A q \in Procs : Past(q) => Past(q)'
    <3>1. CASE UNCHANGED pc
      BY <2>2, <3>1 DEF WorkersOK, Past
    <3>2. ASSUME NEW place \in {"ok_barrier", "recv_qps"}, Goto(Master, place)
          PROVE  WorkersOK' /\ \A q \in Procs : Past(q) => Past(q)'
      BY <1>0, <2>2, <3>2, GotoFrame DEF Past, PCs
    <3> QED  BY <2>2, <3>1, <3>2
  <2>5. \A d \in Clients : chan'[<<d, Master>>] # <<>> => chan[<<d, Master>>] # <<>>
    BY <1>0, <2>1, WriteFrame, LinkFacts
  <2> QED  BY <2>2, <2>3, <2>4, <2>5, StepInv
<1>4. CASE RecvQps(c)
  <2>1. /\ pc[Master] = "recv_qps" /\ acked' = acked /\ UNCHANGED worker
        /\ UNCHANGED pc \/ Goto(Master, "wait_eof")
        /\ chan[<<c, Master>>] # <<>>
    BY <1>4 DEF RecvQps, loadvars, Readable
  <2>2. AllPast
    BY <1>0, <2>1 DEF StartOK, Early
  <2>3. WorkersOK' /\ \A q \in Procs : Past(q) => Past(q)'
    <3>1. CASE UNCHANGED pc
      BY <2>1, <3>1 DEF WorkersOK, Past
    <3>2. CASE Goto(Master, "wait_eof")
      BY <1>0, <2>1, <3>2, GotoFrame DEF Past, PCs
    <3> QED  BY <2>1, <3>1, <3>2
  <2>4. \A d \in Clients : chan'[<<d, Master>>] # <<>> => chan[<<d, Master>>] # <<>>
    <3>1. \A l \in Links : l # <<c, Master>> /\ l # <<Master, c>> => chan'[l] = chan[l]
      <4> DEFINE a == Tail(chan[<<c, Master>>])
                 b == Append(chan[<<Master, c>>], Plain("ACK"))
                 S == Seq(Msg)
      <4>1. chan \in [Links -> S] /\ chan' = [[chan EXCEPT ![<<c, Master>>] = a] EXCEPT ![<<Master, c>>] = b]
        BY <1>0, <1>4 DEF RecvQps, TypeOK
      <4> HIDE DEF a, b, S
      <4> QED  BY <1>0, <4>1
    <3> QED  BY <2>1, <3>1, LinkFacts
  <2> QED  BY <2>1, <2>2, <2>3, <2>4, StepInv
<1>5. CASE RecvEof(c)
  BY <1>5, QuietInv DEF RecvEof, vars, ctlvars, loadvars, WorkersOK, Past
<1>6. CASE WaitEof(c)
  <2>1. /\ pc[Master] = "wait_eof" /\ UNCHANGED <<chan, acked, worker>>
        /\ UNCHANGED pc \/ Goto(Master, "done")
    BY <1>6 DEF WaitEof, loadvars
  <2>2. AllPast
    BY <1>0, <2>1 DEF StartOK, Early
  <2>3. WorkersOK' /\ \A q \in Procs : Past(q) => Past(q)'
    <3>1. CASE UNCHANGED pc
      BY <2>1, <3>1 DEF WorkersOK, Past
    <3>2. CASE Goto(Master, "done")
      BY <1>0, <2>1, <3>2, GotoFrame DEF Past, PCs
    <3> QED  BY <2>1, <3>1, <3>2
  <2> QED  BY <2>1, <2>2, <2>3, QuietInv
<1> QED  BY <1>1, <1>2, <1>3, <1>4, <1>5, <1>6 DEF MasterStep

\* The steps every main thread takes.
LEMMA MainInv ==
  ASSUME IInv, TypeInv', NEW p \in Procs, MainStep(p) \/ Tick(p)
  PROVE  IInv'
<1> USE DEF IInv
<1>0. TypeOK
  BY DEF TypeInv
<1>1. CASE PrepareBarrier(p)
  <2>1. /\ pc[p] = "prepare_barrier" /\ AllWorkers(p, "ready") /\ UNCHANGED <<chan, acked, worker>>
        /\ \E place \in {"wait_ok", "send_ok"} : Goto(p, place)
    BY <1>1 DEF PrepareBarrier, ctlvars, loadvars
  <2>2. \A q \in Procs : IF q = p THEN pc'[q] \in {"wait_ok", "send_ok"} ELSE pc'[q] = pc[q]
    BY <1>0, <2>1 DEF Goto, TypeOK
  <2>3. WorkersOK'
    BY <2>1, <2>2 DEF WorkersOK, Past, AllWorkers
  <2>4. \A q \in Procs : (Past(q) => Past(q)') /\ (pc'[q] \notin Early => pc[q] \notin Early)
    BY <2>2 DEF Past, Early
  <2> QED  BY <2>1, <2>3, <2>4, QuietInv
<1>2. CASE OkBarrier(p)
  <2>1. /\ pc[p] = "ok_barrier" /\ UNCHANGED <<chan, acked>>
        /\ \A q \in Procs : pc'[q] = IF q = p THEN "run" ELSE pc[q]
        /\ \A q \in Procs : worker'[q] = IF q = p THEN [t \in Threads |-> "running"] ELSE worker[q]
    BY <1>0, <1>2 DEF OkBarrier, Goto, ctlvars, TypeOK
  <2>2. WorkersOK'
    BY <2>1 DEF WorkersOK, Past
  <2>3. \A q \in Procs : (Past(q) => Past(q)') /\ (pc'[q] \notin Early => pc[q] \notin Early)
    BY <2>1 DEF Past, Early
  <2> QED  BY <2>1, <2>2, <2>3, QuietInv
<1>3. CASE LoopTick(p) \/ Tick(p)
  BY <1>3, QuietInv DEF LoopTick, Tick, ctlvars, WorkersOK, Past
<1>4. CASE Join(p)
  <2>1. /\ pc[p] = "join" /\ AllWorkers(p, "exited") /\ UNCHANGED <<chan, acked, worker>>
        /\ \E place \in {"send_stop", "done"} : Goto(p, place)
    BY <1>4 DEF Join, loadvars
  <2>2. /\ WorkersOK' /\ \A q \in Procs : Past(q) => Past(q)'
        /\ \A q \in Procs \ {p} : pc'[q] = pc[q]
    BY <2>1, GotoFrame DEF Past, PCs
  <2>3. \A q \in Procs : pc'[q] \notin Early => pc[q] \notin Early
    BY <2>1, <2>2 DEF Early
  <2> QED  BY <2>1, <2>2, <2>3, QuietInv
<1>5. CASE ExchangeTick(p)
  BY <1>5, AbortFrame, QuietInv DEF ExchangeTick, ctlvars
<1>6. ASSUME NEW q \in Peers(p), LoopEof(p, q) \/ IoFails(p, q) PROVE IInv'
  BY <1>6, AbortFrame, QuietInv DEF LoopEof, IoFails, ctlvars
<1>7. ASSUME NEW q \in Peers(p), LoopMessage(p, q) PROVE IInv'
  <2>1. /\ pc[p] = "run" /\ <<q, p>> \in Links /\ chan[<<q, p>>] # <<>> /\ acked' = acked
        /\ chan' = [chan EXCEPT ![<<q, p>>] = Tail(@)]
    BY <1>7, PeerFacts DEF LoopMessage, Read, Readable, ctlvars
  <2>2. CASE Head(chan[<<q, p>>]).tag = "STOP"
    <3>1. Goto(p, "send_qps") /\ UNCHANGED worker
      BY <1>7, <2>2 DEF LoopMessage
    <3>2. /\ WorkersOK' /\ \A r \in Procs : Past(r) => Past(r)'
          /\ \A r \in Procs \ {p} : pc'[r] = pc[r]
      BY <2>1, <3>1, GotoFrame DEF Past, PCs
    <3>3. \A r \in Procs : pc'[r] \notin Early => pc[r] \notin Early
      BY <2>1, <3>2 DEF Early
    <3> QED  BY <1>0, <2>1, <3>2, <3>3, ReadFrame, StepInv
  <2>3. CASE Head(chan[<<q, p>>]).tag # "STOP"
    <3>1. Abort(p, "message")
      BY <1>7, <2>3 DEF LoopMessage
    <3> QED  BY <1>0, <2>1, <3>1, AbortFrame, ReadFrame, StepInv
  <2> QED  BY <2>2, <2>3
<1> QED  BY <1>1, <1>2, <1>3, <1>4, <1>5, <1>6, <1>7 DEF MainStep

\* Every step keeps the invariant.
LEMMA NextInv == IInv /\ [Next]_vars => IInv'
<1> SUFFICES ASSUME IInv, [Next]_vars PROVE IInv'
  OBVIOUS
<1>0. TypeInv' /\ TypeOK /\ Master \in Procs /\ Clients \subseteq Procs
  BY NextType DEF IInv, TypeInv, Procs
<1>1. ASSUME NEW c \in Clients, Crash(c) PROVE IInv'
  <2>1. /\ UNCHANGED <<chan, acked>>
        /\ \A q \in Procs : pc'[q] = IF q = c THEN "crashed" ELSE pc[q]
        /\ \A q \in Procs : worker'[q] = IF q = c THEN [t \in Threads |-> "exited"] ELSE worker[q]
    BY <1>0, <1>1 DEF Crash, Goto, ctlvars, TypeOK
  <2>2. WorkersOK'
    BY <2>1 DEF IInv, WorkersOK, Past
  <2>3. \A q \in Procs : (Past(q) => Past(q)') /\ (pc'[q] \notin Early => pc[q] \notin Early)
    BY <2>1 DEF Past, Early
  <2> QED  BY <1>0, <2>1, <2>2, <2>3, QuietInv
<1>2. CASE LoopEnd
  <2>1. pc[Master] = "run" /\ Goto(Master, "join") /\ UNCHANGED <<chan, acked, worker>>
    BY <1>2 DEF LoopEnd
  <2>2. /\ WorkersOK' /\ \A q \in Procs : Past(q) => Past(q)'
        /\ \A q \in Procs \ {Master} : pc'[q] = pc[q]
    BY <1>0, <2>1, GotoFrame DEF Past, PCs
  <2>3. \A q \in Procs : pc'[q] \notin Early => pc[q] \notin Early
    BY <2>1, <2>2 DEF Early
  <2> QED  BY <1>0, <2>1, <2>2, <2>3, QuietInv
<1>3. CASE WaitEofTick
  BY <1>0, <1>3, QuietInv DEF WaitEofTick, ctlvars, IInv, WorkersOK, Past
<1>4. CASE UNCHANGED vars
  BY <1>0, <1>4, QuietInv DEF vars, ctlvars, loadvars, IInv, WorkersOK, Past
<1> QED  BY <1>0, <1>1, <1>2, <1>3, <1>4, WorkerInv, ClientInv, MasterInv, MainInv DEF Next

-----------------------------------------------------------------------------
(* Sums over finite sets: what the fold of the result computes *)

\* The sum of f over S, and the element the fold takes first.
Sum(f, S) == MapThenSumSet(LAMBDA c : f[c], S)
Some(S) == CHOOSE x \in S : TRUE

\* g gives every subset of S its sum, as the fold over S computes it.
IsSums(f, S, g) == g = [s \in SUBSET S |-> IF s = {} THEN 0 ELSE f[Some(s)] + g[s \ {Some(s)}]]
Sums(f, S) == CHOOSE g : IsSums(f, S, g)

\* A set of natural numbers has a least element.
LEMMA LeastExists ==
  ASSUME NEW S \in SUBSET Nat, S # {}
  PROVE  \E x \in S : \A y \in S : x <= y
<1>1. PICK x \in S : \A y \in S : ~(<<y, x>> \in OpToRel(<, Nat))
  BY WFMin, NatLessThanWellFounded
<1>2. \A y \in S : ~(y < x)
  BY <1>1 DEF OpToRel
<1> QED  BY <1>2

\* Of the finite sets in a set some is smallest: if any is in it, one whose
\* smaller finite sets are not.
LEMMA SmallestExists ==
  ASSUME NEW B, NEW S \in B, IsFiniteSet(S)
  PROVE  \E s \in B : /\ IsFiniteSet(s)
                      /\ \A t \in B : IsFiniteSet(t) => ~(Cardinality(t) < Cardinality(s))
<1> DEFINE N == {n \in Nat : \E s \in B : IsFiniteSet(s) /\ Cardinality(s) = n}
<1>1. \A s : IsFiniteSet(s) => Cardinality(s) \in Nat
  BY FS_CardinalityType
<1>2. Cardinality(S) \in N
  BY <1>1
<1>3. PICK n \in N : \A m \in N : n <= m
  BY <1>2, LeastExists
<1>4. PICK s \in B : IsFiniteSet(s) /\ Cardinality(s) = n
  OBVIOUS
<1>5. ASSUME NEW t \in B, IsFiniteSet(t) PROVE ~(Cardinality(t) < Cardinality(s))
  BY <1>1, <1>3, <1>4, <1>5
<1> QED  BY <1>4, <1>5

\* The element the fold takes next leaves a smaller set.
LEMMA SomeFacts ==
  ASSUME NEW s, IsFiniteSet(s), s # {}
  PROVE  /\ Some(s) \in s /\ IsFiniteSet(s \ {Some(s)}) 
         /\ Cardinality(s \ {Some(s)}) < Cardinality(s)
<1>1. Some(s) \in s
  BY DEF Some
<1>2. /\ IsFiniteSet(s \ {Some(s)}) /\ Cardinality(s \ {Some(s)}) = Cardinality(s) - 1
      /\ Cardinality(s) \in Nat
  BY <1>1, FS_RemoveElement, FS_CardinalityType
<1> QED  BY <1>1, <1>2

\* The fold.
LEMMA SumIs == ASSUME NEW f, NEW S PROVE Sum(f, S) = Sums(f, S)[S]
BY DEF Sum, MapThenSumSet, MapThenFoldSet, Sums, IsSums, Some

\* A subset has the same sum in two folds whose values are the same on it.
LEMMA SumsAgree ==
  ASSUME NEW f, NEW S, NEW g, IsSums(f, S, g), NEW f2, NEW S2, NEW g2, IsSums(f2, S2, g2),
         NEW s, s \subseteq S, s \subseteq S2, IsFiniteSet(s), \A x \in s : f[x] = f2[x]
  PROVE  g[s] = g2[s]
<1> DEFINE B == {t \in SUBSET s : g[t] # g2[t]}
<1>1. ASSUME B # {} PROVE FALSE
  <2>0. \A t \in SUBSET s : IsFiniteSet(t)
    BY FS_Subset
  <2>1. PICK t \in B : /\ IsFiniteSet(t)
                       /\ \A u \in B : IsFiniteSet(u) => ~(Cardinality(u) < Cardinality(t))
    <3>1. PICK r \in B : IsFiniteSet(r)
      BY <1>1, <2>0
    <3> HIDE DEF B
    <3> QED  BY <3>1, SmallestExists
  <2>2. /\ g[t] = IF t = {} THEN 0 ELSE f[Some(t)] + g[t \ {Some(t)}]
        /\ g2[t] = IF t = {} THEN 0 ELSE f2[Some(t)] + g2[t \ {Some(t)}]
    BY DEF IsSums
  <2>3. t # {}
    BY <2>2
  <2>4. Some(t) \in t /\ t \ {Some(t)} \notin B
    BY <2>1, <2>3, SomeFacts
  <2> QED  BY <2>2, <2>3, <2>4
<1> QED  BY <1>1

\* A finite set has its sums: were it the smallest that has not, they could be
\* put together from those of its subsets.
LEMMA SumsExist ==
  ASSUME NEW f, NEW S, IsFiniteSet(S)
  PROVE  IsSums(f, S, Sums(f, S))
<1> DEFINE B == {s \in SUBSET S : ~\E g : IsSums(f, s, g)}
<1>1. ASSUME B # {} PROVE FALSE
  <2>0. \A t \in SUBSET S : IsFiniteSet(t)
    BY FS_Subset
  <2>1. PICK s \in B : /\ IsFiniteSet(s)
                       /\ \A u \in B : IsFiniteSet(u) => ~(Cardinality(u) < Cardinality(s))
    <3>1. PICK r \in B : IsFiniteSet(r)
      BY <1>1, <2>0
    <3> HIDE DEF B
    <3> QED  BY <3>1, SmallestExists
  <2> DEFINE H(u) == Sums(f, u)[u]
             g == [t \in SUBSET s |-> IF t = {} THEN 0 ELSE f[Some(t)] + H(t \ {Some(t)})]
  <2>2. ASSUME NEW u \in SUBSET s, u # s PROVE IsSums(f, u, Sums(f, u))
    <3>1. IsFiniteSet(u) /\ Cardinality(u) < Cardinality(s)
      BY <2>1, <2>2, FS_Subset, FS_CardinalityType
    <3>2. \E h : IsSums(f, u, h)
      BY <2>1, <2>2, <3>1
    <3> QED  BY <3>2 DEF Sums
  <2>3. ASSUME NEW t \in SUBSET s, t # {} PROVE H(t \ {Some(t)}) = g[t \ {Some(t)}]
    <3> DEFINE u == t \ {Some(t)}
    <3>1. IsFiniteSet(t) /\ u \in SUBSET s /\ u # s /\ IsFiniteSet(u)
      BY <2>0, <2>3, SomeFacts
    <3>2. H(u) = IF u = {} THEN 0 ELSE f[Some(u)] + Sums(f, u)[u \ {Some(u)}]
      BY <2>2, <3>1 DEF IsSums
    <3>3. CASE u = {}
      BY <3>1, <3>2, <3>3
    <3>4. CASE u # {}
      <4> DEFINE v == u \ {Some(u)}
      <4>1. v \in SUBSET u /\ v \in SUBSET s /\ v # s /\ IsFiniteSet(v)
        BY <3>1, <3>4, SomeFacts
      <4>2. IsSums(f, u, Sums(f, u)) /\ IsSums(f, v, Sums(f, v))
        BY <2>2, <3>1, <4>1
      <4>3. Sums(f, u)[v] = Sums(f, v)[v]
        <5>1. \E gu, gv : gu = Sums(f, u) /\ gv = Sums(f, v) /\ IsSums(f, u, gu) /\ IsSums(f, v, gv)
          BY <4>2
        <5>2. v \subseteq u /\ v \subseteq v /\ IsFiniteSet(v) /\ \A e \in v : f[e] = f[e]
          BY <4>1
        <5> HIDE DEF u, v
        <5> QED  BY <5>1, <5>2, SumsAgree
      <4>4. g[u] = f[Some(u)] + H(v)
        BY <3>1, <3>4
      <4> QED  BY <3>2, <3>4, <4>3, <4>4
    <3> QED  BY <3>3, <3>4
  <2>4. IsSums(f, s, g)
    <3>1. \A t \in SUBSET s : (IF t = {} THEN 0 ELSE f[Some(t)] + H(t \ {Some(t)}))
                              = IF t = {} THEN 0 ELSE f[Some(t)] + g[t \ {Some(t)}]
      BY <2>3
    <3> QED  BY <3>1, Zenon DEF IsSums
  <2> QED  BY <2>1, <2>4
<1>2. \E g : IsSums(f, S, g)
  BY <1>1
<1> QED  BY <1>2 DEF Sums

\* Sums do not depend on values elsewhere.
LEMMA SumSame ==
  ASSUME NEW f, NEW g, NEW S, IsFiniteSet(S), \A x \in S : f[x] = g[x]
  PROVE  Sum(f, S) = Sum(g, S)
BY SumIs, SumsExist, SumsAgree

\* The sum of a set is that of a set it takes one element from, and that element.
LEMMA SumStep ==
  ASSUME NEW f, NEW S, IsFiniteSet(S)
  PROVE  Sum(f, S) = IF S = {} THEN 0 ELSE f[Some(S)] + Sum(f, S \ {Some(S)})
<1>1. Sum(f, S) = IF S = {} THEN 0 ELSE f[Some(S)] + Sums(f, S)[S \ {Some(S)}]
  <2>1. PICK g : g = Sums(f, S) /\ IsSums(f, S, g)
    BY SumsExist
  <2>2. g[S] = IF S = {} THEN 0 ELSE f[Some(S)] + g[S \ {Some(S)}]
    BY <2>1 DEF IsSums
  <2> QED  BY <2>1, <2>2, SumIs
<1>2. CASE S # {}
  <2> DEFINE T == S \ {Some(S)}
  <2>1. IsFiniteSet(T) /\ T \subseteq S
    BY <1>2, SomeFacts
  <2>2. Sums(f, S)[T] = Sums(f, T)[T]
    BY <2>1, SumsExist, SumsAgree
  <2> QED  BY <1>1, <1>2, <2>2, SumIs
<1> QED  BY <1>1, <1>2

\* Sums of natural numbers are natural numbers.
LEMMA SumType ==
  ASSUME NEW f, NEW S, IsFiniteSet(S), \A x \in S : f[x] \in Nat
  PROVE  Sum(f, S) \in Nat
<1> DEFINE B == {s \in SUBSET S : Sum(f, s) \notin Nat}
<1>1. ASSUME B # {} PROVE FALSE
  <2>0. \A t \in SUBSET S : IsFiniteSet(t)
    BY FS_Subset
  <2>1. PICK s \in B : /\ IsFiniteSet(s)
                       /\ \A u \in B : IsFiniteSet(u) => ~(Cardinality(u) < Cardinality(s))
    <3>1. PICK r \in B : IsFiniteSet(r)
      BY <1>1, <2>0
    <3> HIDE DEF B
    <3> QED  BY <3>1, SmallestExists
  <2>2. Sum(f, s) = IF s = {} THEN 0 ELSE f[Some(s)] + Sum(f, s \ {Some(s)})
    BY <2>1, SumStep
  <2>3. s # {}
    BY <2>2
  <2>4. Some(s) \in s /\ s \ {Some(s)} \notin B
    BY <2>1, <2>3, SomeFacts
  <2>5. f[Some(s)] \in Nat /\ Sum(f, s \ {Some(s)}) \in Nat
    BY <2>4
  <2> QED  BY <2>2, <2>3, <2>5
<1> QED  BY <1>1

\* Whatever order the fold takes, one element more adds its value.
LEMMA SumAdd ==
  ASSUME NEW f, NEW S, IsFiniteSet(S), \A x \in S : f[x] \in Nat, NEW c \in S
  PROVE  Sum(f, S) = f[c] + Sum(f, S \ {c})
<1> DEFINE B == {s \in SUBSET S : \E x \in s : Sum(f, s) # f[x] + Sum(f, s \ {x})}
<1>1. ASSUME B # {} PROVE FALSE
  <2>0. \A t \in SUBSET S : IsFiniteSet(t) /\ Sum(f, t) \in Nat
    BY FS_Subset, SumType
  <2>1. PICK s \in B : /\ IsFiniteSet(s)
                       /\ \A u \in B : IsFiniteSet(u) => ~(Cardinality(u) < Cardinality(s))
    <3>1. PICK r \in B : IsFiniteSet(r)
      BY <1>1, <2>0
    <3> HIDE DEF B
    <3> QED  BY <3>1, SmallestExists
  <2>2. PICK x \in s : Sum(f, s) # f[x] + Sum(f, s \ {x})
    OBVIOUS
  <2> DEFINE y == Some(s)
  <2>3. Sum(f, s) = f[y] + Sum(f, s \ {y}) /\ y \in s
    BY <2>1, <2>2, SumStep, SomeFacts
  <2> HIDE DEF y
  <2>4. x # y
    BY <2>2, <2>3
  <2>5. s \ {x} \notin B /\ s \ {y} \notin B
    <3>1. \A z \in s : IsFiniteSet(s \ {z}) /\ Cardinality(s \ {z}) = Cardinality(s) - 1 /\ Cardinality(s) \in Nat
      BY <2>1, FS_RemoveElement, FS_CardinalityType
    <3>2. ASSUME NEW z \in s, s \ {z} \in B PROVE FALSE
      <4>1. IsFiniteSet(s \ {z}) /\ ~(Cardinality(s \ {z}) < Cardinality(s))
        BY <2>1, <3>1, <3>2
      <4>2. Cardinality(s \ {z}) = Cardinality(s) - 1 /\ Cardinality(s) \in Nat
        BY <3>1
      <4> HIDE DEF B
      <4> QED  BY <4>1, <4>2
    <3> QED  BY <2>3, <3>2
  <2>6. /\ Sum(f, s \ {x}) = f[y] + Sum(f, (s \ {x}) \ {y})
        /\ Sum(f, s \ {y}) = f[x] + Sum(f, (s \ {y}) \ {x})
    BY <2>3, <2>4, <2>5
  <2>7. (s \ {x}) \ {y} = (s \ {y}) \ {x} /\ (s \ {x}) \ {y} \in SUBSET S
    OBVIOUS
  <2>8. f[x] \in Nat /\ f[y] \in Nat /\ Sum(f, (s \ {x}) \ {y}) \in Nat
    BY <2>0, <2>3, <2>7
  <2>9. Sum(f, (s \ {x}) \ {y}) = Sum(f, (s \ {y}) \ {x})
    BY <2>7
  <2> DEFINE r == Sum(f, (s \ {x}) \ {y})
             rx == Sum(f, s \ {x})
             ry == Sum(f, s \ {y})
             all == Sum(f, s)
  <2>10. /\ all # f[x] + rx /\ all = f[y] + ry /\ rx = f[y] + r /\ ry = f[x] + r
         /\ f[x] \in Nat /\ f[y] \in Nat /\ r \in Nat
    BY <2>2, <2>3, <2>6, <2>8, <2>9
  <2> HIDE DEF r, rx, ry, all
  <2> QED  BY <2>10
<1> QED  BY <1>1

-----------------------------------------------------------------------------
(* The result *)

\* What a client wrote and the master has not read.
Up(c) == chan[<<c, Master>>]

\* As long as a client is connected that is its OK, which the master has not
\* seen, or its count, or nothing.
UpOK ==
  \A c \in Clients : ~Closed(c) =>
    \/ Up(c) = <<>>
    \/ pc[c] = "wait_start" /\ c \notin acked /\ Up(c) = <<Plain("OK")>>
    \/ pc[c] = "wait_ack" /\ Up(c) = <<[tag |-> "QPS", qps |-> local[c]]>>

\* A client whose OK was seen is past the writing of it.
AckedOK == \A c \in acked : pc[c] \notin {"prepare", "prepare_barrier", "send_ok"}

\* The master goes on, and tells its clients to, with the OK of all of them.
OrderOK ==
  /\ pc[Master] \notin {"prepare", "prepare_barrier", "wait_ok", "exit"} => acked = Clients
  /\ \A c \in Clients : Ordered(c) => acked = Clients

\* Where a client is once it has sent its count.
Sent == {"wait_ack", "join", "done", "exit", "crashed"}

\* The counts of the clients in C, and only they, are in the master's result.
Tallied(C) ==
  /\ tot = Cardinality(C) /\ qps = local[Master] + Sum(local, C)
  /\ \A c \in C : Up(c) = <<>> /\ pc[c] \in Sent

TallyOK ==
  /\ pc[Master] \in {"join", "send_stop", "recv_qps", "wait_eof", "done"} => \E C \in SUBSET Clients : Tallied(C)
  /\ pc[Master] \in {"wait_eof", "done"} => tot = Cardinality(Clients)
  /\ pc[Master] \notin {"recv_qps", "wait_eof", "done", "exit"} => tot = 0

CountInv == TypeInv /\ UpOK /\ AckedOK /\ OrderOK /\ TallyOK

\* The master is done with the counts of all clients in its result.
LEMMA AggregateFromInv == CountInv => AggregateIsSum
<1> SUFFICES ASSUME CountInv, pc[Master] = "done"
             PROVE  qps = local[Master] + Sum(local, Clients)
  BY DEF AggregateIsSum, Sum
<1>1. PICK C \in SUBSET Clients : Tallied(C)
  BY DEF CountInv, TallyOK
<1>2. Cardinality(C) = Cardinality(Clients)
  BY <1>1 DEF CountInv, TallyOK, Tallied
<1>3. C = Clients
  BY <1>2, FS_Subset, CtlAssumption
<1> QED  BY <1>1, <1>3 DEF Tallied

\* Nothing is counted at first.
LEMMA InitCount == Init => CountInv
<1> SUFFICES ASSUME Init PROVE CountInv
  OBVIOUS
<1>1. \A c \in Clients : chan[<<c, Master>>] = <<>> /\ chan[<<Master, c>>] = <<>> /\ c \in Procs /\ Master \in Procs
  BY LinkFacts DEF Init
<1>2. \A c \in Clients : ~Ordered(c)
  <2>1. 1..Len(<<>>) = {}
    OBVIOUS
  <2> QED  BY <1>1, <2>1 DEF Ordered
<1>3. pc[Master] = "prepare" /\ acked = {} /\ tot = 0
  BY DEF Init, Procs
<1> QED  BY <1>1, <1>2, <1>3, InitType DEF CountInv, UpOK, Up, AckedOK, OrderOK, TallyOK

\* Counts that are in the result stay there while neither it nor what they were
\* changes.
LEMMA TallyKept ==
  ASSUME TypeInv, NEW C \in SUBSET Clients, Tallied(C), UNCHANGED <<tot, qps>>, local'[Master] = local[Master],
         \A c \in C : local'[c] = local[c] /\ (Up(c) = <<>> => Up(c)' = <<>>) /\ (pc[c] \in Sent => pc'[c] \in Sent)
  PROVE  Tallied(C)'
<1>1. IsFiniteSet(C)
  BY CtlAssumption, FS_Subset
<1>2. Sum(local', C) = Sum(local, C)
  BY <1>1, SumSame
<1>3. Tallied(C)' <=> /\ tot' = Cardinality(C) /\ qps' = local'[Master] + Sum(local', C)
                      /\ \A c \in C : Up(c)' = <<>> /\ pc'[c] \in Sent
  BY DEF Tallied, Up
<1> QED  BY <1>2, <1>3 DEF Tallied

\* A step of a client: its own place, queue and count.
LEMMA ClientFrame ==
  ASSUME CountInv, TypeInv', NEW c \in Clients, UNCHANGED <<acked, tot, qps>>,
         \A q \in Procs : q # c => pc'[q] = pc[q] /\ local'[q] = local[q],
         \A d \in Clients : d # c => Up(d)' = Up(d),
         \A d \in Clients : Ordered(d)' => Ordered(d),
         pc[c] \in Sent => pc'[c] \in Sent /\ Up(c)' = Up(c) /\ local'[c] = local[c],
         c \in acked => pc'[c] \notin {"prepare", "prepare_barrier", "send_ok"},
         ~Closed(c)' => \/ Up(c)' = <<>>
                        \/ pc'[c] = "wait_start" /\ c \notin acked /\ Up(c)' = <<Plain("OK")>>
                        \/ pc'[c] = "wait_ack" /\ Up(c)' = <<[tag |-> "QPS", qps |-> local'[c]]>>
  PROVE  CountInv'
<1> USE DEF CountInv
<1>0. c # Master /\ Master \in Procs /\ Clients \subseteq Procs
  BY LinkFacts DEF Procs
<1>1. pc'[Master] = pc[Master] /\ local'[Master] = local[Master]
  BY <1>0
<1>2. UpOK'
  <2> SUFFICES ASSUME NEW d \in Clients, ~Closed(d)'
               PROVE  \/ Up(d)' = <<>>
                      \/ pc'[d] = "wait_start" /\ d \notin acked' /\ Up(d)' = <<Plain("OK")>>
                      \/ pc'[d] = "wait_ack" /\ Up(d)' = <<[tag |-> "QPS", qps |-> local'[d]]>>
    BY DEF UpOK, Up, Plain
  <2>1. CASE d # c
    <3>1. pc'[d] = pc[d] /\ local'[d] = local[d] /\ Up(d)' = Up(d) /\ (Closed(d)' <=> Closed(d))
      BY <1>0, <2>1 DEF Closed
    <3> QED  BY <3>1 DEF UpOK
  <2>2. CASE d = c
    BY <2>2
  <2> QED  BY <2>1, <2>2
<1>3. AckedOK'
  <2>1. \A d \in acked : d \in Procs
    BY <1>0 DEF TypeInv, TypeOK
  <2> QED  BY <2>1 DEF AckedOK
<1>4. OrderOK'
  BY <1>1 DEF OrderOK
<1>5. ASSUME NEW C \in SUBSET Clients, Tallied(C) PROVE Tallied(C)'
  <2>1. \A d \in C : local'[d] = local[d] /\ (Up(d) = <<>> => Up(d)' = <<>>) /\ (pc[d] \in Sent => pc'[d] \in Sent)
    BY <1>0, <1>5 DEF Tallied
  <2> QED  BY <1>1, <1>5, <2>1, TallyKept
<1>6. TallyOK'
  BY <1>1, <1>5 DEF TallyOK
<1> QED  BY <1>2, <1>3, <1>4, <1>6

\* A step of the master: it reads what clients wrote, and writes to them once it
\* has seen every OK.
LEMMA MasterFrame ==
  ASSUME CountInv, TypeInv', acked \subseteq acked', TallyOK',
         \A d \in Clients : pc'[d] = pc[d] /\ local'[d] = local[d],
         \A d \in Clients : Up(d)' = Up(d) \/ (~Closed(d) => Up(d)' = <<>>),
         \A d \in acked' : d \in acked \/ ((Up(d)' = <<>> \/ Closed(d)) /\ pc[d] \notin {"prepare", "prepare_barrier", "send_ok"}),
         \A d \in Clients : Ordered(d)' => Ordered(d) \/ acked' = Clients,
         pc'[Master] \notin {"prepare", "prepare_barrier", "wait_ok", "exit"}
           => pc[Master] \notin {"prepare", "prepare_barrier", "wait_ok", "exit"} \/ acked' = Clients
  PROVE  CountInv'
<1> USE DEF CountInv
<1>0. acked \subseteq Clients /\ acked' \subseteq Clients
  BY DEF TypeInv, TypeOK
<1>1. \A d \in Clients : Closed(d)' <=> Closed(d)
  BY LinkFacts DEF Closed
<1>2. UpOK'
  <2> SUFFICES ASSUME NEW d \in Clients, ~Closed(d)
               PROVE  \/ Up(d)' = <<>>
                      \/ pc'[d] = "wait_start" /\ d \notin acked' /\ Up(d)' = <<Plain("OK")>>
                      \/ pc'[d] = "wait_ack" /\ Up(d)' = <<[tag |-> "QPS", qps |-> local'[d]]>>
    BY <1>1 DEF UpOK, Up, Plain
  <2>1. Up(d)' = <<>> \/ (Up(d)' = Up(d) /\ (d \in acked' => d \in acked))
    OBVIOUS
  <2> QED  BY <2>1 DEF UpOK
<1>3. AckedOK'
  BY <1>0 DEF AckedOK
<1>4. OrderOK'
  BY <1>0 DEF OrderOK
<1> QED  BY <1>2, <1>3, <1>4

\* The counts in the result stay there in a step of the master that adds none.
LEMMA TallyFrame ==
  ASSUME TypeInv, TallyOK, UNCHANGED <<tot, qps>>, local'[Master] = local[Master],
         \A d \in Clients : pc'[d] = pc[d] /\ local'[d] = local[d] /\ (Up(d) = <<>> => Up(d)' = <<>>),
         \/ pc'[Master] \in {pc[Master], "exit"}
         \/ pc[Master] \notin {"recv_qps", "wait_eof", "done", "exit"} /\
              (\/ pc'[Master] \notin {"join", "send_stop", "recv_qps", "wait_eof", "done"}
               \/ pc[Master] \in {"join", "send_stop"} /\ pc'[Master] \in {"send_stop", "recv_qps"})
         \/ pc[Master] = "wait_eof" /\ pc'[Master] = "done"
  PROVE  TallyOK'
<1>1. ASSUME NEW C \in SUBSET Clients, Tallied(C) PROVE Tallied(C)'
  BY <1>1, TallyKept
<1>2. pc'[Master] \in {"join", "send_stop", "recv_qps", "wait_eof", "done"}
        => pc[Master] \in {"join", "send_stop", "recv_qps", "wait_eof", "done"}
  OBVIOUS
<1>3. pc'[Master] \in {"wait_eof", "done"} => pc[Master] \in {"wait_eof", "done"}
  OBVIOUS
<1>4. pc'[Master] \notin {"recv_qps", "wait_eof", "done", "exit"} => pc[Master] \notin {"recv_qps", "wait_eof", "done", "exit"}
  OBVIOUS
<1> QED  BY <1>1, <1>2, <1>3, <1>4 DEF TallyOK

\* What is left of a queue that held one message.
LEMMA TailOfOne == ASSUME NEW m PROVE Tail(<<m>>) = <<>> /\ Head(<<m>>) = m
OBVIOUS

\* Reading what the master wrote leaves what clients wrote alone.
LEMMA ReadDown ==
  ASSUME TypeInv, NEW c \in Clients, Readable(Master, c), Read(Master, c)
  PROVE  \A d \in Clients : Up(d)' = Up(d) /\ (Ordered(d)' => Ordered(d))
<1>1. /\ TypeOK /\ <<Master, c>> \in Links /\ chan[<<Master, c>>] # <<>>
      /\ chan' = [chan EXCEPT ![<<Master, c>>] = Tail(@)]
  BY LinkFacts DEF TypeInv, Readable, Read
<1>2. \A d \in Clients : Ordered(d)' => Ordered(d)
  BY <1>1, ReadFrame
<1>3. \A d \in Clients : <<d, Master>> \in Links /\ <<d, Master>> # <<Master, c>>
  BY CtlAssumption, LinkFacts
<1> QED  BY <1>1, <1>2, <1>3 DEF Up, TypeOK

\* Reading what one client wrote leaves the other queues alone.
LEMMA ReadUp ==
  ASSUME TypeInv, UpOK, NEW c \in Clients, Readable(c, Master), Read(c, Master)
  PROVE  /\ \A d \in Clients : Up(d)' = IF d = c THEN Tail(Up(c)) ELSE Up(d)
         /\ \A d \in Clients : Up(d)' = Up(d) \/ (~Closed(d) => Up(d)' = <<>>)
         /\ \A d \in Clients : Up(d) = <<>> => Up(d)' = <<>>
         /\ \A d \in Clients : Ordered(d)' => Ordered(d)
         /\ Up(c) # <<>> /\ (~Closed(c) => Up(c)' = <<>>)
<1>1. /\ TypeOK /\ <<c, Master>> \in Links /\ chan[<<c, Master>>] # <<>>
      /\ chan' = [chan EXCEPT ![<<c, Master>>] = Tail(@)]
  BY LinkFacts DEF TypeInv, Readable, Read
<1>2. \A d \in Clients : Ordered(d)' => Ordered(d)
  BY <1>1, ReadFrame
<1>3. \A d \in Clients : Up(d)' = IF d = c THEN Tail(Up(c)) ELSE Up(d)
  BY <1>1, LinkFacts DEF Up, TypeOK
<1>4. ~Closed(c) => Up(c)' = <<>>
  <2>1. ~Closed(c) => \E m : Up(c) = <<m>>
    BY <1>1 DEF UpOK, Up
  <2> QED  BY <1>3, <2>1, TailOfOne
<1> QED  BY <1>1, <1>2, <1>3, <1>4 DEF Up

\* Writing to a client leaves what clients wrote alone.
LEMMA WriteDown ==
  ASSUME TypeInv, NEW c \in Clients, NEW m \in Msg, Write(Master, c, m)
  PROVE  \A d \in Clients : Up(d)' = Up(d) /\ (Ordered(d)' => Ordered(d) \/ m.tag # "OPTIONS")
<1>1. /\ TypeOK /\ <<Master, c>> \in Links
      /\ chan' = [chan EXCEPT ![<<Master, c>>] = Append(@, m)]
  BY LinkFacts DEF TypeInv, Write
<1>2. \A d \in Clients : Ordered(d)' => Ordered(d) \/ m.tag # "OPTIONS"
  BY <1>1, WriteFrame
<1>3. \A d \in Clients : <<d, Master>> \in Links /\ <<d, Master>> # <<Master, c>>
  BY CtlAssumption, LinkFacts
<1> QED  BY <1>1, <1>2, <1>3 DEF Up, TypeOK

\* What a client writes when its queue is empty is alone in it.
LEMMA WriteUp ==
  ASSUME TypeInv, NEW c \in Clients, NEW m \in Msg, Write(c, Master, m), Up(c) = <<>>
  PROVE  /\ Up(c)' = <<m>> /\ \A d \in Clients : d # c => Up(d)' = Up(d)
         /\ \A d \in Clients : Ordered(d)' => Ordered(d)
<1>1. /\ TypeOK /\ <<c, Master>> \in Links
      /\ chan' = [chan EXCEPT ![<<c, Master>>] = Append(@, m)]
  BY LinkFacts DEF TypeInv, Write
<1>2. \A d \in Clients : Ordered(d)' => Ordered(d)
  <2>1. \A d \in Clients : <<Master, d>> \in Links /\ <<c, Master>> # <<Master, d>>
    BY CtlAssumption, LinkFacts
  <2> QED  BY <1>1, <2>1, WriteFrame
<1>3. \A d \in Clients : Up(d)' = IF d = c THEN Append(Up(c), m) ELSE Up(d)
  BY <1>1, LinkFacts DEF Up, TypeOK
<1> QED  BY <1>2, <1>3

\* A place that a process goes to.
LEMMA GotoIs ==
  ASSUME TypeInv, NEW p \in Procs, NEW place, Goto(p, place)
  PROVE  pc'[p] = place /\ \A q \in Procs : q # p => pc'[q] = pc[q]
BY DEF TypeInv, TypeOK, Goto

\* Steps in which nothing is read or written.
LEMMA Silent ==
  UNCHANGED chan => \A d \in Clients : Up(d)' = Up(d) /\ (Ordered(d)' <=> Ordered(d))
BY DEF Up, Ordered

\* A step of the master that reads and writes nothing and sees no OK.
LEMMA MasterSilent ==
  ASSUME CountInv, TypeInv', UNCHANGED <<chan, acked>>, TallyOK',
         \A d \in Clients : pc'[d] = pc[d] /\ local'[d] = local[d],
         pc'[Master] \notin {"prepare", "prepare_barrier", "wait_ok", "exit"}
           => pc[Master] \notin {"prepare", "prepare_barrier", "wait_ok", "exit"}
  PROVE  CountInv'
<1>1. acked \subseteq acked'
  OBVIOUS
<1>2. \A d \in Clients : Up(d)' = Up(d) \/ (~Closed(d) => Up(d)' = <<>>)
  BY Silent
<1>3. \A d \in acked' : d \in acked \/ ((Up(d)' = <<>> \/ Closed(d)) /\ pc[d] \notin {"prepare", "prepare_barrier", "send_ok"})
  OBVIOUS
<1>4. \A d \in Clients : Ordered(d)' => Ordered(d) \/ acked' = Clients
  BY Silent
<1> QED  BY <1>1, <1>2, <1>3, <1>4, MasterFrame

\* Steps that leave the places and the counts alone as well.
LEMMA IdleCount ==
  ASSUME CountInv, TypeInv', UNCHANGED <<pc, chan, acked, tot, qps, local>>
  PROVE  CountInv'
<1>1. TallyOK'
  BY TallyFrame, Silent DEF CountInv
<1> QED  BY <1>1, MasterSilent

\* A client that is gone from the protocol: it exits or dies.
LEMMA ClientGone ==
  ASSUME CountInv, TypeInv', NEW c \in Clients, UNCHANGED <<chan, acked, tot, qps, local>>,
         \E place \in {"exit", "crashed"} : Goto(c, place)
  PROVE  CountInv'
<1>1. c \in Procs /\ pc'[c] \in {"exit", "crashed"} /\ \A q \in Procs : q # c => pc'[q] = pc[q]
  BY LinkFacts, GotoIs DEF CountInv
<1>2. Closed(c)'
  BY <1>1 DEF Closed
<1> QED  BY <1>1, <1>2, ClientFrame, Silent DEF Sent

\* The master exits.
LEMMA MasterGone ==
  ASSUME CountInv, TypeInv', UNCHANGED <<chan, acked, tot, qps, local>>, Goto(Master, "exit")
  PROVE  CountInv'
<1>1. pc'[Master] = "exit" /\ \A d \in Clients : pc'[d] = pc[d]
  BY LinkFacts, GotoIs DEF CountInv, Procs
<1>2. TallyOK'
  BY <1>1, TallyFrame, Silent DEF CountInv
<1> QED  BY <1>1, <1>2, MasterSilent

\* The steps of a client: it sends its OK when the master has not seen one, goes
\* on to its test when the master has seen all, and sends its count last.
LEMMA ClientCount ==
  ASSUME CountInv, TypeInv', NEW c \in Clients, ClientStep(c)
  PROVE  CountInv'
<1>0. /\ c \in Procs /\ c # Master /\ Master \in Procs /\ TypeInv /\ TypeOK
      /\ chan[<<Master, c>>] \in Seq(Msg)
  BY LinkFacts DEF CountInv, TypeInv, TypeOK
<1>1. CASE WaitMasterPrepare(c)
  <2>1. /\ pc[c] = "prepare" /\ pc'[c] = "prepare_barrier" /\ \A q \in Procs : q # c => pc'[q] = pc[q]
        /\ UNCHANGED <<acked, tot, qps, local>>
        /\ \A d \in Clients : Up(d)' = Up(d) /\ (Ordered(d)' => Ordered(d))
    BY <1>0, <1>1, GotoIs, ReadDown DEF WaitMasterPrepare, ctlvars
  <2>2. Up(c)' = <<>> /\ c \notin acked
    BY <2>1 DEF CountInv, UpOK, AckedOK, Closed
  <2> QED  BY <2>1, <2>2, ClientFrame DEF Sent
<1>2. CASE SendOk(c)
  <2>1. /\ pc[c] = "send_ok" /\ pc'[c] = "wait_start" /\ \A q \in Procs : q # c => pc'[q] = pc[q]
        /\ UNCHANGED <<acked, tot, qps, local>> /\ Write(c, Master, Plain("OK"))
    BY <1>0, <1>2, GotoIs DEF SendOk, ctlvars, loadvars
  <2>2. Up(c) = <<>> /\ c \notin acked
    BY <1>0, <2>1 DEF CountInv, UpOK, AckedOK, Closed
  <2>3. /\ Up(c)' = <<Plain("OK")>> /\ \A d \in Clients : d # c => Up(d)' = Up(d)
        /\ \A d \in Clients : Ordered(d)' => Ordered(d)
    BY <1>0, <2>1, <2>2, WriteUp, MsgFacts
  <2> QED  BY <2>1, <2>2, <2>3, ClientFrame DEF Sent
<1>3. CASE WaitStart(c)
  <2>1. /\ pc[c] = "wait_start" /\ UNCHANGED <<acked, tot, qps, local>> /\ chan[<<Master, c>>] # <<>>
        /\ \A d \in Clients : Up(d)' = Up(d) /\ (Ordered(d)' => Ordered(d))
    BY <1>0, <1>3, ReadDown DEF WaitStart, ctlvars, Readable
  <2>2. CASE Head(chan[<<Master, c>>]).tag = "START"
    <3>1. pc'[c] = "ok_barrier" /\ \A q \in Procs : q # c => pc'[q] = pc[q]
      BY <1>0, <1>3, <2>2, GotoIs DEF WaitStart
    <3>2. Ordered(c)
      <4>1. Head(chan[<<Master, c>>]) = chan[<<Master, c>>][1] /\ 1 \in 1..Len(chan[<<Master, c>>])
        BY <1>0, <2>1, TailFacts
      <4> QED  BY <2>2, <4>1 DEF Ordered
    <3>3. Up(c)' = <<>>
      BY <1>0, <2>1, <3>2 DEF CountInv, OrderOK, UpOK, Closed
    <3> QED  BY <2>1, <3>1, <3>3, ClientFrame DEF Sent
  <2>3. CASE Head(chan[<<Master, c>>]).tag # "START"
    <3>1. pc'[c] = "exit" /\ \A q \in Procs : q # c => pc'[q] = pc[q]
      BY <1>0, <1>3, <2>3, GotoIs DEF WaitStart, Abort
    <3>2. Closed(c)'
      BY <3>1 DEF Closed
    <3> QED  BY <2>1, <3>1, <3>2, ClientFrame DEF Sent
  <2> QED  BY <2>2, <2>3
<1>4. CASE SendQps(c)
  <2>1. /\ pc[c] = "send_qps" /\ pc'[c] = "wait_ack" /\ \A q \in Procs : q # c => pc'[q] = pc[q]
        /\ UNCHANGED <<acked, tot, qps, local>> /\ Write(c, Master, [tag |-> "QPS", qps |-> local[c]])
    BY <1>0, <1>4, GotoIs DEF SendQps, ctlvars, loadvars
  <2>2. Up(c) = <<>>
    BY <1>0, <2>1 DEF CountInv, UpOK, Closed
  <2>3. /\ Up(c)' = <<[tag |-> "QPS", qps |-> local[c]]>> /\ \A d \in Clients : d # c => Up(d)' = Up(d)
        /\ \A d \in Clients : Ordered(d)' => Ordered(d)
    <3>1. [tag |-> "QPS", qps |-> local[c]] \in Msg
      BY <1>0, MsgFacts DEF TypeOK
    <3> QED  BY <1>0, <2>1, <2>2, <3>1, WriteUp
  <2> QED  BY <2>1, <2>3, ClientFrame DEF Sent
<1>5. CASE WaitAck(c)
  <2>1. /\ pc[c] = "wait_ack" /\ UNCHANGED <<acked, tot, qps, local>>
        /\ \A d \in Clients : Up(d)' = Up(d) /\ (Ordered(d)' => Ordered(d))
    BY <1>0, <1>5, ReadDown DEF WaitAck, ctlvars
  <2>2. pc'[c] \in {"join", "exit"} /\ \A q \in Procs : q # c => pc'[q] = pc[q]
    BY <1>0, <1>5, GotoIs DEF WaitAck, Abort
  <2>3. Closed(c)'
    BY <1>0, <2>2 DEF Closed
  <2> QED  BY <2>1, <2>2, <2>3, ClientFrame DEF Sent
<1> QED  BY <1>1, <1>2, <1>3, <1>4, <1>5 DEF ClientStep

\* The steps of the master but for the counts: every OK it notes was the only
\* message in its queue, and it goes on with all of them.
LEMMA MasterCount ==
  ASSUME CountInv, TypeInv', NEW c \in Clients, MasterStep(c), ~RecvQps(c)
  PROVE  CountInv'
<1>0. /\ c \in Procs /\ c # Master /\ Master \in Procs /\ TypeInv /\ TypeOK /\ UpOK /\ TallyOK
      /\ \A d \in Clients : d \in Procs /\ d # Master
  BY LinkFacts DEF CountInv, TypeInv
<1>1. CASE PrepareClient(c)
  <2>1. /\ pc[Master] = "prepare" /\ UNCHANGED <<acked, tot, qps, local>> /\ Write(Master, c, Plain("OPTIONS"))
        /\ UNCHANGED pc \/ Goto(Master, "prepare_barrier")
    BY <1>1 DEF PrepareClient
  <2>2. \A d \in Clients : Up(d)' = Up(d) /\ (Ordered(d)' => Ordered(d))
    <3>1. Plain("OPTIONS") \in Msg /\ Plain("OPTIONS").tag = "OPTIONS"
      BY MsgFacts
    <3> QED  BY <1>0, <2>1, <3>1, WriteDown
  <2>3. pc'[Master] \in {"prepare", "prepare_barrier"} /\ \A d \in Clients : pc'[d] = pc[d]
    BY <1>0, <2>1, GotoIs
  <2>4. TallyOK'
    BY <1>0, <2>1, <2>2, <2>3, TallyFrame
  <2> QED  BY <2>1, <2>2, <2>3, <2>4, MasterFrame
<1>2. CASE WaitOk(c)
  <2>1. /\ pc[Master] = "wait_ok" /\ UNCHANGED <<tot, qps, local>> /\ Readable(c, Master) /\ Read(c, Master)
    BY <1>2 DEF WaitOk
  <2>2. /\ \A d \in Clients : Up(d)' = Up(d) \/ (~Closed(d) => Up(d)' = <<>>)
        /\ \A d \in Clients : Up(d) = <<>> => Up(d)' = <<>>
        /\ \A d \in Clients : Ordered(d)' => Ordered(d)
        /\ Up(c) # <<>> /\ (~Closed(c) => Up(c)' = <<>>)
    BY <1>0, <2>1, ReadUp
  <2>3. CASE Head(chan[<<c, Master>>]).tag # "OK" \/ c \in acked
    <3>1. Goto(Master, "exit") /\ acked' = acked
      BY <1>2, <2>3 DEF WaitOk, Abort
    <3>2. pc'[Master] = "exit" /\ \A d \in Clients : pc'[d] = pc[d]
      BY <1>0, <3>1, GotoIs
    <3>3. TallyOK'
      BY <1>0, <2>1, <2>2, <3>2, TallyFrame
    <3> QED  BY <2>1, <2>2, <3>1, <3>2, <3>3, MasterFrame
  <2>4. CASE ~(Head(chan[<<c, Master>>]).tag # "OK" \/ c \in acked)
    <3>1. /\ acked' = acked \cup {c}
          /\ IF acked' = Clients THEN Goto(Master, "send_start") ELSE UNCHANGED pc
      BY <1>2, <2>4 DEF WaitOk
    <3>2. /\ pc'[Master] = "wait_ok" \/ (pc'[Master] = "send_start" /\ acked' = Clients)
          /\ \A d \in Clients : pc'[d] = pc[d]
      BY <1>0, <2>1, <3>1, GotoIs
    <3>3. TallyOK'
      BY <1>0, <2>1, <2>2, <3>2, TallyFrame
    <3>4. pc[c] \notin {"prepare", "prepare_barrier", "send_ok"}
      BY <1>0, <2>2 DEF UpOK, Closed
    <3>5. \A d \in acked' : d \in acked \/ ((Up(d)' = <<>> \/ Closed(d)) /\ pc[d] \notin {"prepare", "prepare_barrier", "send_ok"})
      BY <2>2, <3>1, <3>4
    <3> QED  BY <2>1, <2>2, <3>1, <3>2, <3>3, <3>5, MasterFrame
  <2> QED  BY <2>3, <2>4
<1>3. CASE SendStart(c) \/ SendStop(c)
  <2>1. PICK m \in Msg : Write(Master, c, m)
    BY <1>3, MsgFacts DEF SendStart, SendStop
  <2>2. /\ UNCHANGED <<acked, tot, qps, local>>
        /\ \/ pc[Master] = "send_start" /\ (UNCHANGED pc \/ Goto(Master, "ok_barrier"))
           \/ pc[Master] = "send_stop" /\ (UNCHANGED pc \/ Goto(Master, "recv_qps"))
    BY <1>3 DEF SendStart, SendStop, loadvars
  <2>3. acked' = Clients
    BY <2>2 DEF CountInv, OrderOK
  <2>4. \A d \in Clients : Up(d)' = Up(d)
    BY <1>0, <2>1, WriteDown
  <2>5. /\ pc'[Master] = pc[Master] \/ (pc[Master] = "send_start" /\ pc'[Master] = "ok_barrier")
           \/ (pc[Master] = "send_stop" /\ pc'[Master] = "recv_qps")
        /\ \A d \in Clients : pc'[d] = pc[d]
    BY <1>0, <2>2, GotoIs
  <2>6. TallyOK'
    BY <1>0, <2>2, <2>4, <2>5, TallyFrame
  <2> QED  BY <2>2, <2>3, <2>4, <2>5, <2>6, MasterFrame
<1>4. CASE RecvEof(c)
  BY <1>4, IdleCount DEF RecvEof, vars, ctlvars, loadvars
<1>5. CASE WaitEof(c)
  <2>1. /\ pc[Master] = "wait_eof" /\ UNCHANGED <<chan, acked, tot, qps, local>>
        /\ UNCHANGED pc \/ Goto(Master, "done")
    BY <1>5 DEF WaitEof, loadvars
  <2>2. pc'[Master] \in {"wait_eof", "done"} /\ \A d \in Clients : pc'[d] = pc[d]
    BY <1>0, <2>1, GotoIs
  <2>3. TallyOK'
    BY <1>0, <2>1, <2>2, TallyFrame, Silent
  <2> QED  BY <2>1, <2>2, <2>3, MasterSilent
<1> QED  BY <1>1, <1>2, <1>3, <1>4, <1>5 DEF MasterStep

\* A count that the master receives is the only message of its client, who waits
\* for the ACK and was not counted before.
LEMMA RecvCount ==
  ASSUME CountInv, TypeInv', NEW c \in Clients, RecvQps(c)
  PROVE  CountInv'
<1>0. /\ c \in Procs /\ c # Master /\ Master \in Procs /\ TypeInv /\ TypeOK /\ UpOK /\ TallyOK
      /\ \A d \in Clients : d \in Procs /\ d # Master
  BY LinkFacts DEF CountInv, TypeInv
<1>1. /\ pc[Master] = "recv_qps" /\ Up(c) # <<>> /\ ~Closed(c) /\ UNCHANGED <<acked, local>>
      /\ qps' = qps + Head(Up(c)).qps /\ tot' = tot + 1
      /\ IF tot' = Cardinality(Clients) THEN Goto(Master, "wait_eof") ELSE UNCHANGED pc
  BY DEF RecvQps, Readable, Up, loadvars
<1>2. acked = Clients
  BY <1>1 DEF CountInv, OrderOK
<1>3. pc[c] = "wait_ack" /\ Up(c) = <<[tag |-> "QPS", qps |-> local[c]]>>
  BY <1>0, <1>1, <1>2 DEF UpOK
<1>4. \A d \in Clients : Up(d)' = IF d = c THEN <<>> ELSE Up(d)
  <2> DEFINE a == Tail(chan[<<c, Master>>])
             b == Append(chan[<<Master, c>>], Plain("ACK"))
             S == Seq(Msg)
  <2>1. chan \in [Links -> S] /\ chan' = [[chan EXCEPT ![<<c, Master>>] = a] EXCEPT ![<<Master, c>>] = b]
    BY <1>0, LinkFacts DEF RecvQps, TypeOK
  <2>2. a = <<>>
    BY <1>3, TailOfOne DEF Up
  <2>3. \A d \in Clients : /\ <<d, Master>> \in Links /\ <<d, Master>> # <<Master, c>>
                           /\ (<<d, Master>> = <<c, Master>> <=> d = c)
    BY CtlAssumption, LinkFacts
  <2> HIDE DEF a, b, S
  <2>4. \A d \in Clients : chan'[<<d, Master>>] = IF d = c THEN a ELSE chan[<<d, Master>>]
    BY <2>1, <2>3, LinkFacts
  <2> QED  BY <2>2, <2>4 DEF Up
<1>5. /\ \A d \in Clients : pc'[d] = pc[d]
      /\ pc'[Master] = IF tot' = Cardinality(Clients) THEN "wait_eof" ELSE "recv_qps"
  BY <1>0, <1>1, GotoIs
<1>6. PICK C \in SUBSET Clients : Tallied(C)
  BY <1>0, <1>1 DEF TallyOK
<1>7. c \notin C
  BY <1>1, <1>6 DEF Tallied
<1> DEFINE D == C \cup {c}
<1>8. Tallied(D)'
  <2>1. IsFiniteSet(C) /\ IsFiniteSet(D) /\ Cardinality(D) = Cardinality(C) + 1 /\ D \ {c} = C
    BY <1>7, CtlAssumption, FS_Subset, FS_AddElement
  <2>2. \A d \in D : local[d] \in Nat
    BY <1>0, CtlAssumption DEF TypeOK
  <2>3. Sum(local, D) = local[c] + Sum(local, C) /\ Sum(local, C) \in Nat /\ local[c] \in Nat /\ local[Master] \in Nat
    <3>1. Sum(local, C) \in Nat
      BY <2>1, <2>2, SumType
    <3>2. Sum(local, D) = local[c] + Sum(local, D \ {c})
      BY <2>1, <2>2, SumAdd
    <3>3. local[c] \in Nat /\ local[Master] \in Nat
      BY <1>0, CtlAssumption DEF TypeOK
    <3> QED  BY <2>1, <3>1, <3>2, <3>3
  <2>4. qps' = qps + local[c] /\ qps = local[Master] + Sum(local, C) /\ tot = Cardinality(C)
    BY <1>1, <1>3, <1>6, TailOfOne DEF Tallied
  <2>5. qps' = local[Master] + Sum(local, D)
    BY <2>3, <2>4
  <2>6. \A d \in D : Up(d)' = <<>> /\ pc'[d] \in Sent
    BY <1>3, <1>4, <1>5, <1>6 DEF Tallied, Sent
  <2>7. local' = local
    BY <1>1
  <2>8. Tallied(D)' <=> /\ tot' = Cardinality(D) /\ qps' = local'[Master] + Sum(local', D)
                        /\ \A d \in D : Up(d)' = <<>> /\ pc'[d] \in Sent
    BY DEF Tallied, Up
  <2> QED  BY <1>1, <2>1, <2>4, <2>5, <2>6, <2>7, <2>8
<1>9. TallyOK'
  <2>1. D \in SUBSET Clients
    OBVIOUS
  <2> HIDE DEF D
  <2> QED  BY <1>5, <1>8, <2>1 DEF TallyOK
<1>10. \A d \in Clients : Up(d)' = Up(d) \/ (~Closed(d) => Up(d)' = <<>>)
  BY <1>4
<1>11. acked' = Clients /\ \A d \in acked' : d \in acked
  BY <1>1, <1>2
<1> QED  BY <1>1, <1>5, <1>9, <1>10, <1>11, MasterFrame

\* The steps every main thread takes.
LEMMA MainCount ==
  ASSUME CountInv, TypeInv', NEW p \in Procs, MainStep(p) \/ Tick(p)
  PROVE  CountInv'
<1>0. /\ TypeInv /\ TypeOK /\ UpOK /\ TallyOK /\ Master \in Procs /\ (p = Master \/ p \in Clients)
      /\ \A d \in Clients : d \in Procs /\ d # Master
  BY LinkFacts DEF CountInv, TypeInv, Procs
<1>1. CASE PrepareBarrier(p)
  <2>1. /\ pc[p] = "prepare_barrier" /\ UNCHANGED <<chan, acked, tot, qps, local>>
        /\ Goto(p, IF p = Master THEN "wait_ok" ELSE "send_ok")
    BY <1>1 DEF PrepareBarrier, ctlvars, loadvars
  <2>2. CASE p = Master
    <3>1. pc'[Master] = "wait_ok" /\ \A d \in Clients : pc'[d] = pc[d]
      BY <1>0, <2>1, <2>2, GotoIs
    <3>2. TallyOK'
      BY <1>0, <2>1, <2>2, <3>1, TallyFrame, Silent
    <3> QED  BY <2>1, <3>1, <3>2, MasterSilent
  <2>3. CASE p \in Clients
    <3>1. pc'[p] = "send_ok" /\ \A q \in Procs : q # p => pc'[q] = pc[q]
      BY <1>0, <2>1, <2>3, GotoIs
    <3>2. p \notin acked /\ Up(p) = <<>>
      BY <1>0, <2>1, <2>3 DEF CountInv, AckedOK, UpOK, Closed
    <3> QED  BY <2>1, <2>3, <3>1, <3>2, ClientFrame, Silent DEF Sent
  <2> QED  BY <1>0, <2>2, <2>3
<1>2. CASE OkBarrier(p)
  <2>1. /\ pc[p] = "ok_barrier" /\ UNCHANGED <<chan, acked, tot, qps, local>> /\ Goto(p, "run")
    BY <1>2 DEF OkBarrier, ctlvars
  <2>2. CASE p = Master
    <3>1. pc'[Master] = "run" /\ \A d \in Clients : pc'[d] = pc[d]
      BY <1>0, <2>1, <2>2, GotoIs
    <3>2. TallyOK'
      BY <1>0, <2>1, <2>2, <3>1, TallyFrame, Silent
    <3> QED  BY <2>1, <2>2, <3>1, <3>2, MasterSilent
  <2>3. CASE p \in Clients
    <3>1. pc'[p] = "run" /\ \A q \in Procs : q # p => pc'[q] = pc[q]
      BY <1>0, <2>1, GotoIs
    <3>2. Up(p) = <<>>
      BY <1>0, <2>1, <2>3 DEF UpOK, Closed
    <3> QED  BY <2>1, <2>3, <3>1, <3>2, ClientFrame, Silent DEF Sent
  <2> QED  BY <1>0, <2>2, <2>3
<1>3. CASE LoopTick(p) \/ Tick(p)
  BY <1>3, IdleCount DEF LoopTick, Tick, ctlvars
<1>4. CASE Join(p)
  <2>1. /\ pc[p] = "join" /\ UNCHANGED <<chan, acked, tot, qps, local>>
        /\ Goto(p, IF p = Master THEN "send_stop" ELSE "done")
    BY <1>4 DEF Join, loadvars
  <2>2. CASE p = Master
    <3>1. pc'[Master] = "send_stop" /\ \A d \in Clients : pc'[d] = pc[d]
      BY <1>0, <2>1, <2>2, GotoIs
    <3>2. TallyOK'
      BY <1>0, <2>1, <2>2, <3>1, TallyFrame, Silent
    <3> QED  BY <2>1, <2>2, <3>1, <3>2, MasterSilent
  <2>3. CASE p \in Clients
    <3>1. pc'[p] = "done" /\ \A q \in Procs : q # p => pc'[q] = pc[q]
      BY <1>0, <2>1, <2>3, GotoIs
    <3>2. Closed(p)'
      BY <3>1 DEF Closed
    <3> QED  BY <2>1, <2>3, <3>1, <3>2, ClientFrame, Silent DEF Sent
  <2> QED  BY <1>0, <2>2, <2>3
<1>5. ASSUME NEW why, Abort(p, why), UNCHANGED <<chan, acked, tot, qps, local>> PROVE CountInv'
  BY <1>0, <1>5, ClientGone, MasterGone DEF Abort
<1>6. CASE ExchangeTick(p)
  BY <1>5, <1>6 DEF ExchangeTick, ctlvars
<1>7. ASSUME NEW q \in Peers(p), LoopEof(p, q) \/ IoFails(p, q) PROVE CountInv'
  BY <1>5, <1>7 DEF LoopEof, IoFails, ctlvars
<1>8. ASSUME NEW q \in Peers(p), LoopMessage(p, q) PROVE CountInv'
  <2>1. /\ pc[p] = "run" /\ UNCHANGED <<acked, tot, qps>> /\ Readable(q, p) /\ Read(q, p) /\ ~Closed(q)
        /\ \A r \in Procs : r # p => local'[r] = local[r]
        /\ \E place \in {"send_qps", "exit"} : Goto(p, place)
    BY <1>0, <1>8, PeerFacts DEF LoopMessage, ctlvars, Abort, TypeOK
  <2>2. pc'[p] \in {"send_qps", "exit"} /\ \A r \in Procs : r # p => pc'[r] = pc[r]
    BY <1>0, <2>1, GotoIs
  <2>3. CASE p = Master
    <3>1. q \in Clients
      BY <1>8, <2>3 DEF Peers
    <3>2. /\ \A d \in Clients : Up(d)' = Up(d) \/ (~Closed(d) => Up(d)' = <<>>)
          /\ \A d \in Clients : Ordered(d)' => Ordered(d)
      BY <1>0, <2>1, <2>3, <3>1, ReadUp
    <3>3. TallyOK'
      BY <1>0, <2>1, <2>2, <2>3 DEF TallyOK
    <3>4. \A d \in Clients : pc'[d] = pc[d] /\ local'[d] = local[d]
      BY <1>0, <2>1, <2>2, <2>3
    <3> QED  BY <2>1, <2>2, <2>3, <3>2, <3>3, <3>4, MasterFrame
  <2>4. CASE p \in Clients
    <3>1. q = Master
      BY <1>0, <1>8, <2>4 DEF Peers
    <3>2. \A d \in Clients : Up(d)' = Up(d) /\ (Ordered(d)' => Ordered(d))
      BY <1>0, <2>1, <2>4, <3>1, ReadDown
    <3>3. Up(p) = <<>>
      BY <1>0, <2>1, <2>4 DEF UpOK, Closed
    <3> QED  BY <2>1, <2>2, <2>4, <3>2, <3>3, ClientFrame DEF Sent
  <2> QED  BY <1>0, <2>3, <2>4
<1> QED  BY <1>1, <1>2, <1>3, <1>4, <1>6, <1>7, <1>8 DEF MainStep

\* Every step keeps the counts.
LEMMA NextCount == CountInv /\ [Next]_vars => CountInv'
<1> SUFFICES ASSUME CountInv, [Next]_vars PROVE CountInv'
  OBVIOUS
<1>0. /\ TypeInv' /\ TypeInv /\ TypeOK /\ TallyOK /\ Master \in Procs /\ Clients \subseteq Procs
  BY NextType DEF CountInv, TypeInv, Procs
<1>1. ASSUME NEW c \in Clients, Crash(c) PROVE CountInv'
  BY <1>0, <1>1, ClientGone DEF Crash, ctlvars
<1>2. CASE LoopEnd
  <2>1. /\ pc[Master] = "run" /\ Goto(Master, "join") /\ UNCHANGED <<chan, acked, tot>>
        /\ local' = [local EXCEPT ![Master] = cnt[Master]] /\ qps' = cnt[Master]
    BY <1>2 DEF LoopEnd
  <2>2. /\ pc'[Master] = "join" /\ \A d \in Clients : pc'[d] = pc[d] /\ local'[d] = local[d]
        /\ local'[Master] = cnt[Master]
    BY <1>0, <2>1, GotoIs, LinkFacts DEF TypeOK
  <2>3. Tallied({})'
    <3>1. tot' = 0 /\ Cardinality({}) = 0 /\ IsFiniteSet({})
      BY <1>0, <2>1, FS_EmptySet DEF TallyOK
    <3>2. Sum(local', {}) = 0
      BY <3>1, SumStep
    <3>3. cnt[Master] \in Nat
      BY <1>0, CtlAssumption DEF TypeOK
    <3>4. Tallied({})' <=> tot' = Cardinality({}) /\ qps' = local'[Master] + Sum(local', {})
      BY DEF Tallied
    <3> QED  BY <2>1, <2>2, <3>1, <3>2, <3>3, <3>4
  <2>4. TallyOK'
    <3>1. tot' = 0
      BY <1>0, <2>1 DEF TallyOK
    <3> QED  BY <2>2, <2>3, <3>1 DEF TallyOK
  <2> QED  BY <1>0, <2>1, <2>2, <2>4, MasterSilent
<1>3. CASE WaitEofTick
  BY <1>0, <1>3, IdleCount DEF WaitEofTick, ctlvars
<1>4. CASE UNCHANGED vars
  BY <1>0, <1>4, IdleCount DEF vars, ctlvars, loadvars
<1>5. ASSUME NEW p \in Procs, NEW t \in Threads, WorkerStep(p, t) \/ Count(p, t) PROVE CountInv'
  BY <1>0, <1>5, IdleCount DEF WorkerStep, Connect, Stop, Count, ctlvars
<1> QED  BY <1>0, <1>1, <1>2, <1>3, <1>4, <1>5, ClientCount, MasterCount, RecvCount, MainCount DEF Next

-----------------------------------------------------------------------------
(* Theorems *)

\* Type correctness of the control protocol (dismember.cc): every count stays in
\* its bounds, crashes included.
THEOREM TypeCorrect == Spec => []TypeOK
<1>1. TypeInv => TypeOK
  BY DEF TypeInv
<1> QED  BY <1>1, InitType, NextType, PTL DEF Spec

\* No worker of any process sends load while another one is still connecting
\* (dismember.cc, wait_clients_ok and the two barriers), whatever crashes.
THEOREM NoEarlyLoad == Spec => []LoadAfterAllConnected
BY InitInv, NextInv, LoadFromIInv, PTL DEF Spec

\* The result the master prints (dismember.cc, client_stop and master_recv_qps) is
\* the sum of what every process had counted at its own STOP, each client once,
\* however the messages, the ticks and the closing connections interleave and
\* whoever dies.
THEOREM ResultIsSum == Spec => []AggregateIsSum
BY InitCount, NextCount, AggregateFromInv, PTL DEF Spec
=============================================================================

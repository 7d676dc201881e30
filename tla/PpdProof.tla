------------------------------ MODULE PpdProof ------------------------------
(* Proofs about Ppd for any number of workers, descriptors and accepted     *)
(* connections, any batch length, every mode and the three ways to use     *)
(* kqueues.                                                                *)
EXTENDS Ppd, FiniteSetTheorems, TLAPS

-----------------------------------------------------------------------------
(* The inductive invariant *)

Event == [fd : Fds, hint : 1..MaxAccepts, eof : BOOLEAN]

Shape ==
  /\ batch \in [Workers -> SUBSET Event]
  /\ ev \in [Workers -> Event \cup {NoEvent}]

\* A registered connection is open and has a hint of its own.
Registered ==
  /\ \A f \in Fds : knote[f] # "none" =>
       fd[f] = "open" /\ hint[f] \in live /\ hint[f] \in 1..accepts
  /\ \A f, g \in Fds : knote[f] # "none" /\ knote[g] # "none" /\ hint[f] = hint[g] => f = g

\* While worker w has an event of f, kevent returns f to nobody else: f is in w's
\* own kqueue, or disabled by EV_DISPATCH, or held by SKQ.
Withheld == CASE sharing = "multi" -> "enabled" [] sharing = "legacy" -> "disabled" [] OTHER -> "held"

Claimed(w, f) == f \in Fds /\ kq[f] = w /\ knote[f] = Withheld

\* A worker's events are of different connections that it claims, each with the
\* hint it was registered with; what it will enable it claims as well and has
\* no event of.
WorkerInv(w) ==
  /\ pc[w] \in {"call", "wait"} => batch[w] = {}
  /\ pc[w] = "wait" => skev[w] = {}
  /\ ev[w] \notin batch[w]
  /\ \A d, e \in Events(w) : d.fd = e.fd => d = e
  /\ \A e \in Events(w) : Claimed(w, e.fd) /\ hint[e.fd] = e.hint
  /\ \A f \in skev[w] : sharing = "legacy" /\ Claimed(w, f) /\ \A e \in Events(w) : e.fd # f

IInv ==
  /\ TypeOK /\ Shape /\ Registered /\ DropFindsKnote
  /\ \A w \in Workers : WorkerInv(w)

\* The invariant is enough for OneWorker: a claim names one worker.
LEMMA OneWorkerFromClaims == IInv => OneWorker
BY DEF IInv, WorkerInv, Claimed, OneWorker

\* A connection that is claimed is registered.
LEMMA ClaimRegistered ==
  ASSUME NEW w, NEW f, Claimed(w, f)
  PROVE  f \in Fds /\ knote[f] # "none"
BY DEF Claimed, Withheld

\* The invariant is enough for HintAlive.
LEMMA HintAliveFromClaims == IInv => HintAlive
BY ClaimRegistered DEF IInv, WorkerInv, Registered, HintAlive

\* Workers are counted from 0.
LEMMA WorkerNumbers == Cardinality(Workers) \in Nat \ {0} /\ 0 \in Workers
BY PpdAssumption, FS_CardinalityType

\* An event a worker handles, or has in its batch, is one of its events.
LEMMA EventsOf ==
  ASSUME Shape, NEW w \in Workers
  PROVE  /\ Events(w) \subseteq Event
         /\ batch[w] \subseteq Events(w)
         /\ ev[w] # NoEvent => ev[w] \in Events(w)
         /\ NoEvent \notin Events(w)
BY PpdAssumption DEF Shape, Event, Events, NoEvent

\* No event is NoEvent.
LEMMA EventNotNone == NoEvent \notin Event
<1>1. NoEvent.hint = 0 /\ \A e \in Event : e.hint # 0
  BY PpdAssumption DEF NoEvent, Event
<1> QED  BY <1>1

\* A step that leaves a worker alone, and what it claims, keeps its invariant.
LEMMA WorkerFrame ==
  ASSUME NEW w \in Workers, WorkerInv(w), sharing' = sharing,
         pc'[w] = pc[w], batch'[w] = batch[w], ev'[w] = ev[w], skev'[w] = skev[w],
         \A f \in Fds : Claimed(w, f) => Claimed(w, f)' /\ hint'[f] = hint[f]
  PROVE  WorkerInv(w)'
<1>1. Events(w)' = Events(w)
  BY DEF Events
<1>2. \A f : Claimed(w, f) => f \in Fds
  BY DEF Claimed
<1> QED  BY <1>1, <1>2 DEF WorkerInv

\* A step that changes neither knotes nor hints keeps every claim.
LEMMA SameClaims ==
  ASSUME UNCHANGED <<sharing, knote, kq, hint>>, NEW w, NEW f, Claimed(w, f)
  PROVE  Claimed(w, f)' /\ hint'[f] = hint[f]
BY DEF Claimed, Withheld

\* The invariant holds initially.
LEMMA InitInv == Init => IInv
<1> SUFFICES ASSUME Init PROVE IInv
  OBVIOUS
<1>1. TypeOK
  BY WorkerNumbers, PpdAssumption DEF Init, TypeOK
<1>2. Shape
  BY DEF Init, Shape
<1>3. Registered /\ DropFindsKnote
  BY DEF Init, Registered, DropFindsKnote
<1>4. ASSUME NEW w \in Workers PROVE WorkerInv(w)
  <2>1. Events(w) = {} /\ batch[w] = {} /\ skev[w] = {}
    BY DEF Init, Events
  <2> QED  BY <2>1 DEF WorkerInv
<1> QED  BY <1>1, <1>2, <1>3, <1>4 DEF IInv

-----------------------------------------------------------------------------
(* One lemma per group of actions *)

\* Clients change only what is on the wire.
LEMMA ClientInv ==
  ASSUME IInv, UNCHANGED sharing, NEW f \in Fds,
         ClientSend(f) \/ ClientFinish(f) \/ ClientRead(f) \/ ClientClose(f)
  PROVE  IInv'
<1>1. UNCHANGED <<fd, hintvars, accvars, kernvars, workvars, failed>>
  BY DEF ClientSend, ClientFinish, ClientRead, ClientClose
<1>2. /\ req' \in [Fds -> {"none", "part", "full"}]
      /\ kind' \in [Fds -> Kinds \cup {"good"}]
      /\ asked' \in [Fds -> BOOLEAN] /\ eof' \in [Fds -> BOOLEAN]
      /\ resp' \in [Fds -> {"none", "resp", "raw"}]
  <2>1. CASE ClientSend(f)
    BY <2>1 DEF IInv, TypeOK, ClientSend
  <2>2. CASE ClientFinish(f)
    BY <2>2 DEF IInv, TypeOK, ClientFinish
  <2>3. CASE ClientRead(f)
    BY <2>3 DEF IInv, TypeOK, ClientRead
  <2>4. CASE ClientClose(f)
    BY <2>4 DEF IInv, TypeOK, ClientClose
  <2> QED  BY <2>1, <2>2, <2>3, <2>4
<1>3. TypeOK'
  BY <1>1, <1>2 DEF IInv, TypeOK, hintvars, accvars, kernvars, workvars
<1>4. Shape' /\ Registered' /\ DropFindsKnote'
  BY <1>1 DEF IInv, Shape, Registered, DropFindsKnote, hintvars, accvars, kernvars, workvars
<1>5. \A w \in Workers : WorkerInv(w)'
  BY <1>1, WorkerFrame, SameClaims DEF IInv, hintvars, kernvars, workvars
<1> QED  BY <1>3, <1>4, <1>5 DEF IInv

\* An accepted connection has no knote yet, so nobody claims it; its hint is new.
LEMMA AcceptInv ==
  ASSUME IInv, UNCHANGED sharing, failed = "none", NEW f \in Fds, Accept(f) \/ AcceptLeaks(f)
  PROVE  IInv'
<1>1. /\ fd[f] = "closed" /\ accepts < MaxAccepts /\ accepts' = accepts + 1
      /\ UNCHANGED <<workvars, netvars>>
  BY DEF Accept, AcceptLeaks, Accepted
<1>2. /\ accepts \in Nat /\ accepts' \in 1..MaxAccepts /\ MaxAccepts \in Nat
  BY <1>1, PpdAssumption DEF IInv, TypeOK
<1>3. knote[f] = "none" /\ \A w : ~Claimed(w, f)
  BY <1>1, ClaimRegistered DEF IInv, Registered
<1>4. CASE UNCHANGED <<hintvars, kernvars, cur_thread>>
  <2>1. fd' \in [Fds -> {"closed", "leaked", "open"}] /\ failed' \in {"none", "mode"}
        /\ \A g \in Fds : g # f => fd'[g] = fd[g]
    BY DEF Accept, AcceptLeaks, IInv, TypeOK
  <2>2. TypeOK'
    BY <1>1, <1>2, <1>4, <2>1 DEF IInv, TypeOK, hintvars, kernvars, workvars, netvars
  <2>3. Shape' /\ DropFindsKnote'
    BY <1>1, <2>1 DEF IInv, Shape, DropFindsKnote, workvars
  <2>4. Registered'
    BY <1>1, <1>2, <1>3, <1>4, <2>1 DEF IInv, Registered, hintvars, kernvars
  <2>5. \A w \in Workers : WorkerInv(w)'
    BY <1>1, <1>4, WorkerFrame, SameClaims DEF IInv, hintvars, kernvars, workvars
  <2> QED  BY <2>2, <2>3, <2>4, <2>5 DEF IInv
<1>5. CASE /\ Accept(f) /\ Mode \in {ECHO, TOUCH, RDB}
  <2>1. /\ fd' = [fd EXCEPT ![f] = "open"]
        /\ hint' = [hint EXCEPT ![f] = accepts']
        /\ live' = live \cup {accepts'}
        /\ knote' = [knote EXCEPT ![f] = "enabled"]
        /\ kq' = [kq EXCEPT ![f] = cur_thread]
        /\ cur_thread' = (cur_thread + 1) % Cardinality(Workers)
        /\ UNCHANGED failed
    BY <1>5 DEF Accept
  <2>2. cur_thread' \in Workers
    <3> DEFINE n == Cardinality(Workers)
    <3>1. n \in Nat \ {0} /\ cur_thread \in Int /\ Workers = 0..(n - 1)
      BY WorkerNumbers, PpdAssumption DEF IInv, TypeOK
    <3>2. cur_thread' = (cur_thread + 1) % n
      BY <2>1
    <3> HIDE DEF n
    <3> QED  BY <3>1, <3>2
  <2>3. TypeOK'
    <3>1. /\ fd' \in [Fds -> {"closed", "leaked", "open"}]
          /\ hint' \in [Fds -> 0..MaxAccepts] /\ live' \subseteq 1..MaxAccepts
          /\ knote' \in [Fds -> {"none", "enabled", "disabled", "held"}]
          /\ kq' \in [Fds -> Workers]
      BY <1>2, <2>1 DEF IInv, TypeOK
    <3> QED  BY <1>1, <1>2, <2>1, <2>2, <3>1 DEF IInv, TypeOK, workvars, netvars
  <2>4. Shape' /\ DropFindsKnote'
    BY <1>1, <2>1 DEF IInv, Shape, DropFindsKnote, workvars
  <2>5. \A g \in Fds : g # f => knote'[g] = knote[g] /\ hint'[g] = hint[g] /\ fd'[g] = fd[g] /\ kq'[g] = kq[g]
    BY <2>1 DEF IInv, TypeOK
  <2>6. knote'[f] = "enabled" /\ fd'[f] = "open" /\ hint'[f] = accepts'
    BY <2>1 DEF IInv, TypeOK
  <2>7. Registered'
    BY <1>1, <1>2, <2>1, <2>5, <2>6 DEF IInv, Registered
  <2>8. ASSUME NEW w \in Workers, NEW g \in Fds, Claimed(w, g)
        PROVE  Claimed(w, g)' /\ hint'[g] = hint[g]
    BY <1>3, <2>5, <2>8 DEF Claimed, Withheld
  <2>9. \A w \in Workers : WorkerInv(w)'
    BY <1>1, <2>8, WorkerFrame DEF IInv, workvars
  <2> QED  BY <2>3, <2>4, <2>7, <2>9 DEF IInv
<1> QED  BY <1>4, <1>5 DEF Accept, AcceptLeaks

\* A call of kevent enables only what the caller claims, and the caller has no
\* events at that moment.
LEMMA EnterInv ==
  ASSUME IInv, UNCHANGED sharing, NEW w \in Workers, KeventEnter(w)
  PROVE  IInv'
<1>1. TypeOK'
  BY DEF IInv, TypeOK, KeventEnter, hintvars, accvars, netvars
<1>2. Shape' /\ DropFindsKnote'
  BY DEF IInv, Shape, DropFindsKnote, KeventEnter
<1>3. \A f \in skev[w] : kq[f] = w /\ knote[f] # "none"
  BY ClaimRegistered DEF IInv, WorkerInv, Claimed
<1>4. \A f \in Fds : \/ knote'[f] = knote[f]
                     \/ knote'[f] = "enabled" /\ knote[f] # "none" /\ kq[f] = w
  BY <1>3 DEF KeventEnter
<1>5. Registered'
  BY <1>4 DEF IInv, Registered, KeventEnter, hintvars, accvars
<1>6. WorkerInv(w)'
  <2>1. batch[w] = {} /\ ev[w] = NoEvent
    BY DEF IInv, WorkerInv, TypeOK, KeventEnter
  <2>2. batch'[w] = {} /\ ev'[w] = NoEvent /\ Events(w)' = {} /\ skev'[w] = {}
    BY <2>1 DEF KeventEnter, Events, IInv, TypeOK
  <2> QED  BY <2>2 DEF WorkerInv
<1>7. ASSUME NEW v \in Workers, v # w PROVE WorkerInv(v)'
  <2>1. \A f \in Fds : Claimed(v, f) => Claimed(v, f)' /\ hint'[f] = hint[f]
    BY <1>4, <1>7 DEF Claimed, Withheld, KeventEnter, hintvars
  <2>2. pc'[v] = pc[v] /\ batch'[v] = batch[v] /\ ev'[v] = ev[v] /\ skev'[v] = skev[v]
    BY <1>7 DEF KeventEnter, IInv, TypeOK
  <2> QED  BY <2>1, <2>2, WorkerFrame DEF IInv
<1> QED  BY <1>1, <1>2, <1>5, <1>6, <1>7 DEF IInv

\* What kevent returns is enabled, and in the caller's kqueue when there are
\* several: nobody else claimed it.
LEMMA ReturnInv ==
  ASSUME IInv, UNCHANGED sharing, NEW w \in Workers, NEW S \in SUBSET Fds, KeventReturn(w, S)
  PROVE  IInv'
<1>1. \A f \in S : knote[f] = "enabled" /\ (sharing = "multi" => kq[f] = w)
  BY DEF KeventReturn, Ready
<1>2. /\ knote' = [f \in Fds |-> IF f \in S THEN Withheld ELSE knote[f]]
      /\ kq' = [f \in Fds |-> IF f \in S THEN w ELSE kq[f]]
  BY <1>1 DEF KeventReturn, AfterDelivery, Withheld
<1>3. Withheld \in {"enabled", "disabled", "held"} /\ Withheld' = Withheld
  BY DEF Withheld
<1> DEFINE new == {[fd |-> f, hint |-> hint[f], eof |-> eof[f]] : f \in S}
<1>4. /\ batch' = [batch EXCEPT ![w] = new] /\ batch[w] = {} /\ ev[w] = NoEvent
      /\ UNCHANGED <<fd, hintvars, accvars, ev, skev, netvars, failed>>
      /\ pc' = [pc EXCEPT ![w] = "next"] /\ skev[w] = {}
  BY DEF KeventReturn, IInv, WorkerInv, TypeOK
<1>5. new \subseteq Event
  <2>1. \A f \in S : hint[f] \in 1..MaxAccepts /\ eof[f] \in BOOLEAN
    BY <1>1, PpdAssumption DEF IInv, TypeOK, Registered
  <2> QED  BY <2>1 DEF Event
<1>6. batch' \in [Workers -> SUBSET Event]
  BY <1>4, <1>5 DEF IInv, Shape
<1>7. Shape' /\ DropFindsKnote'
  BY <1>4, <1>6 DEF IInv, Shape, DropFindsKnote
<1>8. TypeOK'
  <2>1. \A v \in Workers : batch'[v] \subseteq Event
    BY <1>6
  <2>2. \A v \in Workers : pc'[v] \in {"read", "write", "drop"} <=> ev'[v] # NoEvent
    BY <1>4 DEF IInv, TypeOK
  <2>3. knote' \in [Fds -> {"none", "enabled", "disabled", "held"}] /\ kq' \in [Fds -> Workers]
    BY <1>2, <1>3 DEF IInv, TypeOK
  <2>4. \A v \in Workers : ev'[v] \in Event \cup {NoEvent}
    BY <1>7 DEF Shape
  <2>5. pc' \in [Workers -> {"call", "wait", "next", "read", "write", "drop"}]
    BY <1>4 DEF IInv, TypeOK
  <2> HIDE DEF new
  <2> QED  BY <1>4, <2>1, <2>2, <2>3, <2>4, <2>5 DEF IInv, TypeOK, Event, hintvars, accvars, netvars
<1>9. Registered'
  BY <1>1, <1>2, <1>3, <1>4 DEF IInv, Registered, hintvars, accvars
<1>10. WorkerInv(w)'
  <2>1. pc'[w] = "next" /\ batch'[w] = new /\ ev'[w] = NoEvent /\ skev'[w] = {}
    BY <1>4 DEF IInv, TypeOK, Shape
  <2>2. Events(w)' = new
    BY <2>1 DEF Events
  <2>3. NoEvent \notin new
    BY <1>5, EventNotNone
  <2>4. \A d, e \in new : d.fd = e.fd => d = e
    OBVIOUS
  <2>5. \A e \in new : Claimed(w, e.fd)' /\ hint'[e.fd] = e.hint
    BY <1>2, <1>3, <1>4 DEF Claimed, hintvars
  <2> HIDE DEF new
  <2> QED  BY <2>1, <2>2, <2>3, <2>4, <2>5 DEF WorkerInv
<1>11. ASSUME NEW v \in Workers, v # w PROVE WorkerInv(v)'
  <2>1. \A f \in Fds : Claimed(v, f) => f \notin S
    BY <1>1, <1>11 DEF Claimed, Withheld, IInv, TypeOK
  <2>2. \A f \in Fds : Claimed(v, f) => Claimed(v, f)' /\ hint'[f] = hint[f]
    BY <1>2, <1>3, <1>4, <2>1 DEF Claimed, hintvars
  <2>3. pc'[v] = pc[v] /\ batch'[v] = batch[v] /\ ev'[v] = ev[v] /\ skev'[v] = skev[v]
    BY <1>4, <1>11 DEF IInv, TypeOK, Shape
  <2> QED  BY <2>2, <2>3, WorkerFrame DEF IInv
<1> QED  BY <1>7, <1>8, <1>9, <1>10, <1>11 DEF IInv

\* A step of one worker that changes its locals, and what is on the wire, keeps the
\* invariant if it keeps the worker's own part.
LEMMA LocalInv ==
  ASSUME IInv, UNCHANGED <<sharing, fd, hintvars, accvars, kernvars, failed>>,
         NEW w \in Workers,
         pc' \in [Workers -> {"call", "wait", "next", "read", "write", "drop"}],
         batch' \in [Workers -> SUBSET Event], ev' \in [Workers -> Event \cup {NoEvent}],
         skev' \in [Workers -> SUBSET Fds],
         \A v \in Workers \ {w} : pc'[v] = pc[v] /\ batch'[v] = batch[v] /\ ev'[v] = ev[v] /\ skev'[v] = skev[v],
         pc'[w] \in {"read", "write", "drop"} <=> ev'[w] # NoEvent,
         req' \in [Fds -> {"none", "part", "full"}], resp' \in [Fds -> {"none", "resp", "raw"}],
         UNCHANGED <<kind, asked, eof>>,
         WorkerInv(w)'
  PROVE  IInv'
<1>1. Shape' /\ DropFindsKnote' /\ Registered'
  BY DEF IInv, Shape, DropFindsKnote, Registered, hintvars, accvars, kernvars
<1>2. \A v \in Workers : pc'[v] \in {"read", "write", "drop"} <=> ev'[v] # NoEvent
  BY DEF IInv, TypeOK
<1>3. \A v \in Workers : batch'[v] \subseteq Event /\ ev'[v] \in Event \cup {NoEvent}
  OBVIOUS
<1>4. TypeOK'
  BY <1>2, <1>3 DEF IInv, TypeOK, Event, hintvars, accvars, kernvars
<1>5. ASSUME NEW v \in Workers, v # w PROVE WorkerInv(v)'
  BY <1>5, WorkerFrame, SameClaims DEF IInv, hintvars, kernvars
<1> QED  BY <1>1, <1>4, <1>5 DEF IInv

\* Taking the next event of a batch moves it, and the end of a batch leaves no
\* event behind.
LEMMA NextEventInv ==
  ASSUME IInv, UNCHANGED sharing, NEW w \in Workers, NextEvent(w)
  PROVE  IInv'
<1>1. /\ ev[w] = NoEvent /\ Events(w) = batch[w] /\ WorkerInv(w)
      /\ UNCHANGED <<fd, hintvars, accvars, kernvars, skev, netvars, failed>>
  BY DEF NextEvent, IInv, TypeOK, Events
<1>2. \A f : Claimed(w, f) => Claimed(w, f)' /\ hint'[f] = hint[f]
  BY <1>1, SameClaims DEF hintvars, kernvars
<1>3. CASE batch[w] = {}
  <2>1. pc' = [pc EXCEPT ![w] = "call"] /\ UNCHANGED <<batch, ev>>
    BY <1>3 DEF NextEvent
  <2>2. pc'[w] = "call"
    BY <2>1 DEF IInv, TypeOK
  <2>3. Events(w)' = {}
    BY <1>1, <1>3, <2>1 DEF Events
  <2>4. WorkerInv(w)'
    <3>1. batch'[w] = {} /\ ev'[w] = NoEvent /\ skev'[w] = skev[w]
      BY <1>1, <1>3, <2>1
    <3>2. \A f \in skev[w] : sharing = "legacy" /\ Claimed(w, f)'
      BY <1>1, <1>2 DEF WorkerInv
    <3> QED  BY <2>2, <2>3, <3>1, <3>2 DEF WorkerInv
  <2> QED  BY <1>1, <2>1, <2>2, <2>4, LocalInv DEF IInv, TypeOK, Shape, netvars
<1>4. CASE batch[w] # {}
  <2>1. PICK e \in batch[w] :
          /\ batch' = [batch EXCEPT ![w] = @ \ {e}]
          /\ ev' = [ev EXCEPT ![w] = e]
          /\ pc' = [pc EXCEPT ![w] = IF e.eof THEN "drop" ELSE "read"]
    BY <1>4 DEF NextEvent
  <2>2. e \in Event /\ e # NoEvent
    BY EventNotNone DEF IInv, Shape
  <2>3. batch'[w] = batch[w] \ {e} /\ ev'[w] = e /\ pc'[w] \in {"read", "drop"}
    BY <2>1 DEF IInv, TypeOK, Shape
  <2>4. Events(w)' = Events(w)
    BY <1>1, <2>2, <2>3 DEF Events
  <2>5. WorkerInv(w)'
    BY <1>1, <1>2, <2>3, <2>4 DEF WorkerInv, Claimed
  <2>6. /\ pc' \in [Workers -> {"call", "wait", "next", "read", "write", "drop"}]
        /\ batch' \in [Workers -> SUBSET Event] /\ ev' \in [Workers -> Event \cup {NoEvent}]
    BY <2>1, <2>2 DEF IInv, TypeOK, Shape
  <2>7. \A v \in Workers \ {w} : pc'[v] = pc[v] /\ batch'[v] = batch[v] /\ ev'[v] = ev[v]
    BY <2>1 DEF IInv, TypeOK, Shape
  <2> QED  BY <1>1, <2>2, <2>3, <2>5, <2>6, <2>7, LocalInv DEF IInv, TypeOK, netvars
<1> QED  BY <1>3, <1>4

\* What a worker that handles an event knows of it.
LEMMA Handled ==
  ASSUME IInv, NEW w \in Workers, pc[w] \in {"read", "write", "drop"}
  PROVE  /\ ev[w] \in Event /\ ev[w] # NoEvent /\ ev[w] \in Events(w)
         /\ ev[w].fd \in Fds /\ Claimed(w, ev[w].fd)
         /\ hint[ev[w].fd] = ev[w].hint
         /\ batch[w] = Events(w) \ {ev[w]}
         /\ \A e \in batch[w] : e.fd # ev[w].fd
<1>1. ev[w] # NoEvent /\ ev[w] \in Event
  BY DEF IInv, TypeOK, Shape
<1>2. ev[w] \in Events(w) /\ batch[w] = Events(w) \ {ev[w]}
  BY <1>1 DEF IInv, WorkerInv, Events
<1> QED  BY <1>1, <1>2 DEF IInv, WorkerInv, Claimed

\* An event that was served leaves the worker's events; in legacy mode its
\* connection joins those to be enabled, still claimed.
LEMMA ServedInv ==
  ASSUME IInv, UNCHANGED <<sharing, fd, hintvars, accvars, kernvars, failed, batch, kind, asked, eof>>,
         NEW w \in Workers, pc[w] \in {"read", "write"}, Served(w),
         req' \in [Fds -> {"none", "part", "full"}], resp' \in [Fds -> {"none", "resp", "raw"}]
  PROVE  IInv'
<1>1. /\ ev[w].fd \in Fds /\ Claimed(w, ev[w].fd) /\ batch[w] = Events(w) \ {ev[w]}
      /\ \A e \in batch[w] : e.fd # ev[w].fd
  BY Handled
<1>2. pc'[w] = "next" /\ ev'[w] = NoEvent /\ batch'[w] = batch[w]
  BY DEF Served, IInv, TypeOK, Shape
<1>3. \/ skev'[w] = skev[w]
      \/ sharing = "legacy" /\ skev'[w] = skev[w] \cup {ev[w].fd}
  BY DEF Served, IInv, TypeOK
<1>4. Events(w)' = batch[w] /\ NoEvent \notin batch[w]
  BY <1>2, EventNotNone DEF Events, IInv, Shape
<1>5. \A f : Claimed(w, f) => Claimed(w, f)' /\ hint'[f] = hint[f]
  BY SameClaims DEF hintvars, kernvars
<1>6. WorkerInv(w)'
  <2>1. WorkerInv(w) /\ batch[w] \subseteq Events(w)
    BY <1>1 DEF IInv
  <2>2. \A e \in batch[w] : Claimed(w, e.fd)' /\ hint'[e.fd] = e.hint
    BY <1>5, <2>1 DEF WorkerInv
  <2>3. \A f \in skev'[w] : sharing = "legacy" /\ Claimed(w, f)' /\ \A e \in batch[w] : e.fd # f
    BY <1>1, <1>3, <1>5, <2>1 DEF WorkerInv
  <2> QED  BY <1>2, <1>4, <2>1, <2>2, <2>3 DEF WorkerInv
<1>7. /\ pc' \in [Workers -> {"call", "wait", "next", "read", "write", "drop"}]
      /\ batch' \in [Workers -> SUBSET Event] /\ ev' \in [Workers -> Event \cup {NoEvent}]
      /\ skev' \in [Workers -> SUBSET Fds]
  BY <1>1 DEF Served, IInv, TypeOK, Shape
<1>8. \A v \in Workers \ {w} : pc'[v] = pc[v] /\ batch'[v] = batch[v] /\ ev'[v] = ev[v] /\ skev'[v] = skev[v]
  BY DEF Served, IInv, TypeOK, Shape
<1> QED  BY <1>2, <1>6, <1>7, <1>8, LocalInv

\* A worker that goes on with the same event keeps the invariant.
LEMMA StayInv ==
  ASSUME IInv, UNCHANGED <<sharing, fd, hintvars, accvars, kernvars, failed, batch, ev, skev, kind, asked, eof>>,
         NEW w \in Workers, pc[w] \in {"read", "write"},
         NEW p \in {"write", "drop"}, pc' = [pc EXCEPT ![w] = p],
         req' \in [Fds -> {"none", "part", "full"}], UNCHANGED resp
  PROVE  IInv'
<1>1. pc'[w] = p /\ ev[w] # NoEvent
  BY Handled DEF IInv, TypeOK
<1>2. Events(w)' = Events(w)
  BY DEF Events
<1>3. \A f : Claimed(w, f) => Claimed(w, f)' /\ hint'[f] = hint[f]
  BY SameClaims DEF hintvars, kernvars
<1>4. WorkerInv(w)'
  BY <1>1, <1>2, <1>3 DEF IInv, WorkerInv
<1>5. /\ pc' \in [Workers -> {"call", "wait", "next", "read", "write", "drop"}]
      /\ \A v \in Workers \ {w} : pc'[v] = pc[v]
  BY DEF IInv, TypeOK
<1> QED  BY <1>1, <1>4, <1>5, LocalInv DEF IInv, TypeOK, Shape

\* Reading a request and writing its response keep the invariant.
LEMMA HandleInv ==
  ASSUME IInv, UNCHANGED sharing, NEW w \in Workers,
         ReadRequest(w) \/ ReadFails(w) \/ WriteResponse(w) \/ WriteFails(w)
  PROVE  IInv'
<1>1. CASE ReadRequest(w)
  <2>1. req' \in [Fds -> {"none", "part", "full"}] /\ resp' \in [Fds -> {"none", "resp", "raw"}]
    BY <1>1 DEF ReadRequest, IInv, TypeOK
  <2> QED  BY <1>1, <2>1, ServedInv, StayInv DEF ReadRequest
<1>2. CASE ReadFails(w) \/ WriteFails(w)
  <2>1. UNCHANGED netvars /\ req' \in [Fds -> {"none", "part", "full"}]
    BY <1>2 DEF ReadFails, WriteFails, netvars, IInv, TypeOK
  <2> QED  BY <1>2, <2>1, StayInv DEF ReadFails, WriteFails, netvars
<1>3. CASE WriteResponse(w)
  <2>1. req' \in [Fds -> {"none", "part", "full"}] /\ resp' \in [Fds -> {"none", "resp", "raw"}]
    BY <1>3 DEF WriteResponse, Encoded, IInv, TypeOK
  <2> QED  BY <1>3, <2>1, ServedInv DEF WriteResponse
<1> QED  BY <1>1, <1>2, <1>3

\* drop_conn finds the knote, and takes from the other connections neither their
\* knote nor their hint.
LEMMA DropInv ==
  ASSUME IInv, UNCHANGED sharing, NEW w \in Workers, Drop(w)
  PROVE  IInv'
<1> DEFINE f == ev[w].fd
<1>0. pc[w] = "drop"
  BY DEF Drop
<1>1. /\ ev[w] \in Event /\ ev[w] # NoEvent /\ f \in Fds /\ Claimed(w, f)
      /\ hint[f] = ev[w].hint /\ batch[w] = Events(w) \ {ev[w]}
      /\ \A e \in batch[w] : e.fd # f
  BY <1>0, Handled
<1>2. knote[f] # "none"
  BY <1>1, ClaimRegistered
<1>3. /\ knote' = [knote EXCEPT ![f] = "none"]
      /\ fd' = [fd EXCEPT ![f] = "closed"]
      /\ live' = live \ {hint[f]}
      /\ req' = [req EXCEPT ![f] = "none"]
      /\ asked' = [asked EXCEPT ![f] = FALSE]
      /\ eof' = [eof EXCEPT ![f] = FALSE]
      /\ resp' = [resp EXCEPT ![f] = "none"]
      /\ pc' = [pc EXCEPT ![w] = "next"]
      /\ ev' = [ev EXCEPT ![w] = NoEvent]
      /\ UNCHANGED <<kind, failed, hint, accvars, kq, batch, skev>>
  BY <1>1, <1>2 DEF Drop
<1> HIDE DEF f
<1>4. Shape' /\ DropFindsKnote'
  BY <1>3 DEF IInv, Shape, DropFindsKnote
<1>5. TypeOK'
  <2>1. \A v \in Workers : batch'[v] \subseteq Event /\ ev'[v] \in Event \cup {NoEvent}
    BY <1>4 DEF Shape
  <2>2. \A v \in Workers : pc'[v] \in {"read", "write", "drop"} <=> ev'[v] # NoEvent
    BY <1>3 DEF IInv, TypeOK, Shape
  <2>3. /\ fd' \in [Fds -> {"closed", "leaked", "open"}] /\ live' \subseteq 1..MaxAccepts
        /\ knote' \in [Fds -> {"none", "enabled", "disabled", "held"}]
        /\ pc' \in [Workers -> {"call", "wait", "next", "read", "write", "drop"}]
        /\ req' \in [Fds -> {"none", "part", "full"}]
        /\ asked' \in [Fds -> BOOLEAN] /\ eof' \in [Fds -> BOOLEAN]
        /\ resp' \in [Fds -> {"none", "resp", "raw"}]
    BY <1>3 DEF IInv, TypeOK
  <2> QED  BY <1>3, <2>1, <2>2, <2>3 DEF IInv, TypeOK, Event, accvars
<1>6. \A g \in Fds : g # f => knote'[g] = knote[g] /\ fd'[g] = fd[g]
  BY <1>3 DEF IInv, TypeOK
<1>7. knote'[f] = "none"
  BY <1>1, <1>3 DEF IInv, TypeOK
<1>8. Registered'
  BY <1>1, <1>2, <1>3, <1>6, <1>7 DEF IInv, Registered, accvars
<1>9. \A v \in Workers, g \in Fds : Claimed(v, g) /\ g # f => Claimed(v, g)' /\ hint'[g] = hint[g]
  BY <1>3, <1>6 DEF Claimed, Withheld
<1>10. WorkerInv(w)'
  <2>1. pc'[w] = "next" /\ ev'[w] = NoEvent /\ batch'[w] = batch[w] /\ skev'[w] = skev[w]
    BY <1>3 DEF IInv, TypeOK, Shape
  <2>2. Events(w)' = batch[w] /\ NoEvent \notin batch[w]
    BY <2>1, EventNotNone DEF Events, IInv, Shape
  <2>3. WorkerInv(w) /\ batch[w] \subseteq Events(w) /\ ev[w] \in Events(w)
    BY <1>1 DEF IInv, Events
  <2>4. \A e \in batch[w] : Claimed(w, e.fd)' /\ hint'[e.fd] = e.hint
    <3>1. \A e \in batch[w] : e.fd \in Fds /\ Claimed(w, e.fd) /\ hint[e.fd] = e.hint
      BY <2>3 DEF WorkerInv, Claimed
    <3> QED  BY <1>1, <1>9, <3>1
  <2>5. \A g \in skev[w] : sharing = "legacy" /\ Claimed(w, g)' /\ \A e \in batch[w] : e.fd # g
    <3>1. \A g \in skev[w] : g \in Fds /\ sharing = "legacy" /\ Claimed(w, g) /\ g # f
                            /\ \A e \in batch[w] : e.fd # g
      BY <2>3 DEF WorkerInv, Claimed, f
    <3> QED  BY <1>9, <3>1
  <2> QED  BY <2>1, <2>2, <2>3, <2>4, <2>5 DEF WorkerInv
<1>11. ASSUME NEW v \in Workers, v # w PROVE WorkerInv(v)'
  <2>1. \A g \in Fds : Claimed(v, g) => g # f
    BY <1>1, <1>11 DEF Claimed
  <2>2. pc'[v] = pc[v] /\ batch'[v] = batch[v] /\ ev'[v] = ev[v] /\ skev'[v] = skev[v]
    BY <1>3, <1>11 DEF IInv, TypeOK, Shape
  <2> QED  BY <1>9, <2>1, <2>2, WorkerFrame DEF IInv
<1> QED  BY <1>4, <1>5, <1>8, <1>10, <1>11 DEF IInv

\* Every step keeps the invariant.
LEMMA NextInv == IInv /\ [Next]_vars => IInv'
<1> SUFFICES ASSUME IInv, [Next]_vars PROVE IInv'
  OBVIOUS
<1>1. CASE Next
  BY <1>1, ClientInv, AcceptInv, EnterInv, ReturnInv, NextEventInv, HandleInv, DropInv
     DEF Next, Running, HandleStep
<1>2. CASE UNCHANGED vars
  <2>1. TypeOK' /\ Shape' /\ Registered' /\ DropFindsKnote'
    BY <1>2 DEF IInv, TypeOK, Shape, Registered, DropFindsKnote, vars, hintvars, accvars, kernvars, workvars, netvars
  <2>2. \A w \in Workers : WorkerInv(w)'
    BY <1>2, WorkerFrame, SameClaims DEF IInv, vars, hintvars, kernvars, workvars
  <2> QED  BY <2>1, <2>2 DEF IInv
<1> QED  BY <1>1, <1>2

-----------------------------------------------------------------------------
(* Theorems *)

\* Type correctness of the server (ppd.cc, the accept loop and work_thread).
THEOREM TypeCorrect == Spec => []TypeOK
<1>1. IInv => TypeOK
  BY DEF IInv
<1> QED  BY <1>1, InitInv, NextInv, PTL DEF Spec

\* However workers share kqueues, no connection is handled by two of them at the
\* same time (ppd.cc, work_thread and handle_event).
THEOREM ConnectionOneWorker == Spec => []OneWorker
BY InitInv, NextInv, OneWorkerFromClaims, PTL DEF Spec

\* No worker uses the hint of a connection that was dropped or whose descriptor
\* was accepted again (ppd.cc, drop_conn).
THEOREM HintsAlive == Spec => []HintAlive
BY InitInv, NextInv, HintAliveFromClaims, PTL DEF Spec

\* EV_DELETE in drop_conn always finds its knote: the server does not exit there
\* (ppd.cc, drop_conn).
THEOREM DropSucceeds == Spec => []DropFindsKnote
<1>1. IInv => DropFindsKnote
  BY DEF IInv
<1> QED  BY <1>1, InitInv, NextInv, PTL DEF Spec

-----------------------------------------------------------------------------
(* No hint is leaked and no connection is stranded *)

\* Some worker has f's event, or will enable f with its next call.
Pending(f) == f \in skev[kq[f]] \/ \E e \in Events(kq[f]) : e.fd = f

\* Live hints are those of registered connections; only an unknown mode leaves an
\* open connection without a knote, and the server exits then; a disabled
\* connection is pending and the worker that holds one is not waiting.
NothingStuck ==
  /\ \A h \in live : \E f \in Fds : knote[f] # "none" /\ hint[f] = h
  /\ failed # "none" => Mode \notin {ECHO, TOUCH, RDB}
  /\ failed = "none" => \A f \in Fds : fd[f] = "open" => knote[f] # "none"
  /\ \A f \in Fds : knote[f] = "disabled" => sharing = "legacy" /\ Pending(f)
  /\ \A f \in Fds : knote[f] = "held" => pc[kq[f]] # "wait"

LInv == IInv /\ NothingStuck

\* In a known mode the invariant is enough for both properties.
LEMMA FromNothingStuck ==
  ASSUME LInv
  PROVE  Mode \in {ECHO, TOUCH, RDB} => NoHintLeak /\ NotStranded
<1> SUFFICES ASSUME Mode \in {ECHO, TOUCH, RDB} PROVE NoHintLeak /\ NotStranded
  OBVIOUS
<1>1. \A f \in Fds : fd[f] = "open" <=> knote[f] # "none"
  BY DEF LInv, IInv, NothingStuck, Registered
<1>2. NoHintLeak
  BY <1>1 DEF LInv, IInv, NothingStuck, Registered, NoHintLeak
<1>3. ASSUME NEW f \in Fds, fd[f] = "open"
      PROVE  \/ knote[f] = "enabled"
             \/ \E w \in Workers :
                  f \in skev[w] \/ f \in {e.fd : e \in Events(w)} \/ (knote[f] = "held" /\ pc[w] # "wait" /\ kq[f] = w)
  <2>1. kq[f] \in Workers /\ knote[f] \in {"enabled", "disabled", "held"}
    BY <1>1, <1>3 DEF LInv, IInv, TypeOK
  <2> QED  BY <2>1 DEF LInv, NothingStuck, Pending
<1> QED  BY <1>2, <1>3 DEF NotStranded

\* What is pending stays so in a step that leaves the worker's events, and what it
\* will enable, alone.
LEMMA PendingFrame ==
  ASSUME NEW f, Pending(f), kq'[f] = kq[f],
         batch'[kq[f]] = batch[kq[f]], ev'[kq[f]] = ev[kq[f]], skev'[kq[f]] = skev[kq[f]]
  PROVE  Pending(f)'
BY DEF Pending, Events

\* A step of a worker that changes only its locals keeps NothingStuck if what was
\* pending with it still is, and it does not wait.
LEMMA LocalServed ==
  ASSUME LInv, UNCHANGED <<sharing, fd, hintvars, kernvars, failed>>, NEW w \in Workers,
         \A v \in Workers \ {w} : pc'[v] = pc[v] /\ batch'[v] = batch[v] /\ ev'[v] = ev[v] /\ skev'[v] = skev[v],
         pc'[w] # "wait",
         sharing = "legacy" => \A f \in Fds : kq[f] = w /\ Pending(f) => Pending(f)'
  PROVE  NothingStuck'
<1>1. ASSUME NEW f \in Fds, knote[f] = "disabled" PROVE sharing = "legacy" /\ Pending(f)'
  <2>1. sharing = "legacy" /\ Pending(f) /\ kq[f] \in Workers
    BY <1>1 DEF LInv, NothingStuck, IInv, TypeOK
  <2>2. CASE kq[f] # w
    BY <2>1, <2>2, PendingFrame DEF kernvars
  <2> QED  BY <2>1, <2>2
<1>2. \A f \in Fds : knote[f] = "held" => pc'[kq[f]] # "wait"
  BY DEF LInv, NothingStuck, IInv, TypeOK
<1> QED  BY <1>1, <1>2 DEF LInv, NothingStuck, hintvars, kernvars

\* Steps of clients, and steps that change nothing, keep NothingStuck.
LEMMA WireServed ==
  ASSUME LInv, UNCHANGED <<sharing, fd, hintvars, kernvars, workvars, failed>>
  PROVE  NothingStuck'
<1>1. \A f \in Fds : Pending(f) => Pending(f)'
  BY PendingFrame DEF kernvars, workvars
<1> QED  BY <1>1 DEF LInv, NothingStuck, hintvars, kernvars, workvars

\* Accepting a connection keeps NothingStuck: its hint goes with its knote.
LEMMA AcceptServed ==
  ASSUME LInv, UNCHANGED sharing, failed = "none", NEW f \in Fds, Accept(f) \/ AcceptLeaks(f)
  PROVE  NothingStuck'
<1>1. fd[f] = "closed" /\ UNCHANGED workvars /\ knote[f] = "none"
  BY DEF Accept, AcceptLeaks, Accepted, LInv, IInv, Registered
<1>2. CASE UNCHANGED <<hintvars, kernvars>>
  <2>1. \A g \in Fds : Pending(g) => Pending(g)'
    BY <1>1, <1>2, PendingFrame DEF kernvars, workvars
  <2>2. \/ failed' # "none" /\ Mode \notin {ECHO, TOUCH, RDB}
        \/ failed' = "none" /\ fd' = [fd EXCEPT ![f] = "leaked"]
    BY <1>1, <1>2 DEF Accept, AcceptLeaks, hintvars, kernvars, LInv, IInv, TypeOK
  <2> QED  BY <1>1, <1>2, <2>1, <2>2 DEF LInv, NothingStuck, IInv, TypeOK, hintvars, kernvars, workvars
<1>3. CASE Accept(f) /\ Mode \in {ECHO, TOUCH, RDB}
  <2>1. /\ fd' = [fd EXCEPT ![f] = "open"]
        /\ hint' = [hint EXCEPT ![f] = accepts']
        /\ live' = live \cup {accepts'}
        /\ knote' = [knote EXCEPT ![f] = "enabled"]
        /\ kq' = [kq EXCEPT ![f] = cur_thread]
        /\ UNCHANGED failed
    BY <1>3 DEF Accept
  <2>2. /\ \A g \in Fds \ {f} : knote'[g] = knote[g] /\ hint'[g] = hint[g] /\ fd'[g] = fd[g] /\ kq'[g] = kq[g]
        /\ knote'[f] = "enabled" /\ hint'[f] = accepts'
    BY <2>1 DEF LInv, IInv, TypeOK
  <2>3. \A g \in Fds \ {f} : Pending(g) => Pending(g)'
    BY <1>1, <2>2, PendingFrame DEF workvars
  <2>4. \A h \in live' : \E g \in Fds : knote'[g] # "none" /\ hint'[g] = h
    BY <1>1, <2>1, <2>2 DEF LInv, NothingStuck
  <2> QED  BY <1>1, <2>1, <2>2, <2>3, <2>4 DEF LInv, NothingStuck, workvars
<1> QED  BY <1>2, <1>3 DEF Accept, AcceptLeaks

\* A call of kevent enables all that is pending with the caller, as it has no
\* events, and all it holds.
LEMMA EnterServed ==
  ASSUME LInv, UNCHANGED sharing, NEW w \in Workers, KeventEnter(w)
  PROVE  NothingStuck'
<1>1. Events(w) = {}
  BY DEF KeventEnter, LInv, IInv, WorkerInv, TypeOK, Events
<1>2. \A f \in skev[w] : kq[f] = w /\ knote[f] # "none"
  BY ClaimRegistered DEF LInv, IInv, WorkerInv, Claimed
<1>3. \A f \in Fds : \/ knote'[f] = knote[f] /\ ~(kq[f] = w /\ knote[f] \in {"held", "disabled"})
                     \/ knote'[f] = "enabled" /\ knote[f] # "none"
  <2>1. \A f \in Fds : kq[f] = w /\ knote[f] = "disabled" => f \in skev[w]
    BY <1>1 DEF LInv, NothingStuck, Pending
  <2> QED  BY <1>2, <2>1 DEF KeventEnter
<1>4. \A v \in Workers \ {w} : pc'[v] = pc[v] /\ batch'[v] = batch[v] /\ ev'[v] = ev[v] /\ skev'[v] = skev[v]
  BY DEF KeventEnter, LInv, IInv, TypeOK
<1>5. ASSUME NEW f \in Fds, knote'[f] = "disabled" PROVE sharing = "legacy" /\ Pending(f)'
  <2>1. knote[f] = "disabled" /\ kq[f] # w /\ kq[f] \in Workers
    BY <1>3, <1>5 DEF LInv, IInv, TypeOK
  <2>2. sharing = "legacy" /\ Pending(f)
    BY <2>1 DEF LInv, NothingStuck
  <2> QED  BY <1>4, <2>1, <2>2, PendingFrame DEF KeventEnter
<1>6. \A f \in Fds : knote'[f] = "held" => pc'[kq[f]] # "wait"
  BY <1>3, <1>4 DEF LInv, NothingStuck, IInv, TypeOK
<1>7. /\ \A h \in live : \E f \in Fds : knote'[f] # "none" /\ hint[f] = h
      /\ \A f \in Fds : knote[f] # "none" => knote'[f] # "none"
  BY <1>3 DEF LInv, NothingStuck
<1> QED  BY <1>5, <1>6, <1>7 DEF LInv, NothingStuck, KeventEnter, hintvars

\* What kevent returns becomes pending with the caller, who does not wait.
LEMMA ReturnServed ==
  ASSUME LInv, UNCHANGED sharing, NEW w \in Workers, NEW S \in SUBSET Fds, KeventReturn(w, S)
  PROVE  NothingStuck'
<1>1. /\ \A f \in S : knote[f] = "enabled"
      /\ knote' = [f \in Fds |-> IF f \in S THEN Withheld ELSE knote[f]]
      /\ kq' = [f \in Fds |-> IF f \in S THEN w ELSE kq[f]]
  BY DEF KeventReturn, Ready, AfterDelivery, Withheld
<1>2. /\ Withheld # "none" /\ (Withheld = "disabled" => sharing = "legacy")
      /\ sharing \in {"multi", "legacy", "skq"}
  BY DEF Withheld, LInv, IInv, TypeOK
<1>3. \A v \in Workers \ {w} : pc'[v] = pc[v] /\ batch'[v] = batch[v] /\ ev'[v] = ev[v] /\ skev'[v] = skev[v]
  BY DEF KeventReturn, LInv, IInv, TypeOK, Shape
<1>4. Events(w) = {} /\ skev[w] = {}
  BY DEF KeventReturn, LInv, IInv, WorkerInv, TypeOK, Events
<1>5. pc'[w] = "next" /\ batch'[w] = {[fd |-> f, hint |-> hint[f], eof |-> eof[f]] : f \in S}
  BY DEF KeventReturn, LInv, IInv, TypeOK, Shape
<1>6. ASSUME NEW f \in Fds, knote'[f] = "disabled" PROVE sharing = "legacy" /\ Pending(f)'
  <2>1. CASE f \in S
    <3>1. [fd |-> f, hint |-> hint[f], eof |-> eof[f]] \in Events(w)'
      BY <1>5, <2>1 DEF Events
    <3>2. \E e \in Events(w)' : e.fd = f
      BY <3>1
    <3>3. kq'[f] = w /\ sharing = "legacy"
      BY <1>1, <1>2, <1>6, <2>1
    <3> QED  BY <3>2, <3>3 DEF Pending
  <2>2. CASE f \notin S
    <3>1. knote[f] = "disabled" /\ kq'[f] = kq[f] /\ kq[f] \in Workers
      BY <1>1, <1>6, <2>2 DEF LInv, IInv, TypeOK
    <3>2. sharing = "legacy" /\ Pending(f)
      BY <3>1 DEF LInv, NothingStuck
    <3>3. kq[f] # w
      BY <1>4, <3>2 DEF Pending
    <3> QED  BY <1>3, <3>1, <3>2, <3>3, PendingFrame
  <2> QED  BY <2>1, <2>2
<1>7. \A f \in Fds : knote'[f] = "held" => pc'[kq'[f]] # "wait"
  BY <1>1, <1>3, <1>5 DEF LInv, NothingStuck, IInv, TypeOK
<1>8. /\ \A h \in live : \E f \in Fds : knote'[f] # "none" /\ hint[f] = h
      /\ \A f \in Fds : knote[f] # "none" => knote'[f] # "none"
  BY <1>1, <1>2 DEF LInv, NothingStuck
<1> QED  BY <1>6, <1>7, <1>8 DEF LInv, NothingStuck, KeventReturn, hintvars

\* Handling a batch keeps what is pending: an event leaves the worker's events
\* only into the list of connections to enable.
LEMMA HandleServed ==
  ASSUME LInv, UNCHANGED sharing, NEW w \in Workers,
         NextEvent(w) \/ ReadRequest(w) \/ ReadFails(w) \/ WriteResponse(w) \/ WriteFails(w)
  PROVE  NothingStuck'
<1>0. IInv /\ UNCHANGED <<sharing, fd, hintvars, kernvars, failed>>
  BY DEF LInv, NextEvent, ReadRequest, ReadFails, WriteResponse, WriteFails
<1>1. CASE NextEvent(w)
  <2>1. /\ pc'[w] # "wait" /\ skev' = skev
        /\ \A v \in Workers \ {w} : pc'[v] = pc[v] /\ batch'[v] = batch[v] /\ ev'[v] = ev[v]
    BY <1>0, <1>1 DEF NextEvent, IInv, TypeOK, Shape
  <2>2. Events(w) = batch[w]
    BY <1>0, <1>1 DEF NextEvent, IInv, TypeOK, Events
  <2>3. Events(w)' = Events(w)
    <3>1. CASE batch[w] = {}
      BY <1>1, <3>1 DEF NextEvent, Events
    <3>2. CASE batch[w] # {}
      <4>1. PICK e \in batch[w] : batch' = [batch EXCEPT ![w] = @ \ {e}] /\ ev' = [ev EXCEPT ![w] = e]
        BY <1>1, <3>2 DEF NextEvent
      <4>2. e # NoEvent /\ batch'[w] = batch[w] \ {e} /\ ev'[w] = e
        BY <1>0, <4>1, EventNotNone DEF IInv, Shape
      <4> QED  BY <2>2, <4>2 DEF Events
    <3> QED  BY <3>1, <3>2
  <2>4. \A f \in Fds : kq[f] = w /\ Pending(f) => Pending(f)'
    BY <1>0, <2>1, <2>3 DEF Pending, kernvars
  <2> QED  BY <1>0, <2>1, <2>4, LocalServed
<1>2. CASE UNCHANGED <<batch, ev, skev>> /\ (pc' = [pc EXCEPT ![w] = "write"] \/ pc' = [pc EXCEPT ![w] = "drop"])
  <2>1. pc'[w] # "wait" /\ \A v \in Workers \ {w} : pc'[v] = pc[v]
    BY <1>0, <1>2 DEF IInv, TypeOK
  <2>2. \A f \in Fds : Pending(f) => Pending(f)'
    BY <1>0, <1>2, PendingFrame DEF kernvars
  <2> QED  BY <1>0, <1>2, <2>1, <2>2, LocalServed
<1>3. CASE Served(w) /\ UNCHANGED batch /\ pc[w] \in {"read", "write"}
  <2>1. /\ pc'[w] # "wait" /\ ev'[w] = NoEvent
        /\ \A v \in Workers \ {w} : pc'[v] = pc[v] /\ ev'[v] = ev[v] /\ skev'[v] = skev[v]
    BY <1>0, <1>3 DEF Served, IInv, TypeOK, Shape
  <2>2. Events(w)' = batch[w] /\ Events(w) = batch[w] \cup {ev[w]}
    BY <1>0, <1>3, <2>1, Handled DEF Events
  <2>3. sharing = "legacy" => skev'[w] = skev[w] \cup {ev[w].fd}
    BY <1>0, <1>3 DEF Served, IInv, TypeOK
  <2>4. sharing = "legacy" => \A f \in Fds : kq[f] = w /\ Pending(f) => Pending(f)'
    BY <1>0, <2>2, <2>3 DEF Pending, kernvars
  <2> QED  BY <1>0, <1>3, <2>1, <2>4, LocalServed
<1> QED  BY <1>1, <1>2, <1>3 DEF ReadRequest, ReadFails, WriteResponse, WriteFails

\* A dropped connection loses its knote together with its hint.
LEMMA DropServed ==
  ASSUME LInv, UNCHANGED sharing, failed = "none", NEW w \in Workers, Drop(w)
  PROVE  NothingStuck'
<1> DEFINE f == ev[w].fd
<1>0. pc[w] = "drop" /\ IInv
  BY DEF Drop, LInv
<1>1. /\ f \in Fds /\ Claimed(w, f) /\ hint[f] = ev[w].hint /\ ev[w] # NoEvent
  BY <1>0, Handled
<1>2. knote[f] # "none"
  BY <1>1, ClaimRegistered
<1>3. /\ knote' = [knote EXCEPT ![f] = "none"]
      /\ fd' = [fd EXCEPT ![f] = "closed"]
      /\ live' = live \ {hint[f]}
      /\ pc' = [pc EXCEPT ![w] = "next"]
      /\ ev' = [ev EXCEPT ![w] = NoEvent]
      /\ UNCHANGED <<failed, hint, kq, batch, skev>>
  BY <1>1, <1>2 DEF Drop
<1>4. /\ \A g \in Fds \ {f} : knote'[g] = knote[g] /\ fd'[g] = fd[g]
      /\ knote'[f] = "none" /\ fd'[f] = "closed"
      /\ \A v \in Workers \ {w} : pc'[v] = pc[v] /\ ev'[v] = ev[v]
      /\ pc'[w] = "next" /\ ev'[w] = NoEvent
  BY <1>0, <1>1, <1>3 DEF IInv, TypeOK, Shape
<1>5. Events(w) = batch[w] \cup {ev[w]} /\ Events(w)' = batch[w]
  BY <1>1, <1>3, <1>4 DEF Events
<1>6. ASSUME NEW g \in Fds, knote'[g] = "disabled" PROVE sharing = "legacy" /\ Pending(g)'
  <2>1. g # f /\ knote[g] = "disabled"
    BY <1>4, <1>6
  <2>2. sharing = "legacy" /\ Pending(g) /\ kq[g] \in Workers
    BY <1>0, <2>1 DEF LInv, NothingStuck, IInv, TypeOK
  <2>3. CASE kq[g] = w
    BY <1>3, <1>5, <2>1, <2>2, <2>3 DEF Pending
  <2>4. CASE kq[g] # w
    BY <1>3, <1>4, <2>2, <2>4, PendingFrame
  <2> QED  BY <2>2, <2>3, <2>4
<1> HIDE DEF f
<1>7. \A g \in Fds : knote'[g] = "held" => pc'[kq[g]] # "wait"
  BY <1>0, <1>4 DEF LInv, NothingStuck, IInv, TypeOK
<1>8. \A h \in live' : \E g \in Fds : knote'[g] # "none" /\ hint[g] = h
  BY <1>3, <1>4 DEF LInv, NothingStuck
<1>9. \A g \in Fds : fd'[g] = "open" => knote'[g] # "none"
  BY <1>4 DEF LInv, NothingStuck
<1> QED  BY <1>3, <1>6, <1>7, <1>8, <1>9 DEF LInv, NothingStuck

\* In every mode the server knows, each allocated hint belongs to an open
\* connection and each open connection has one (ppd.cc, the accept loop and
\* drop_conn), and EV_DISPATCH is always followed by EV_ENABLE or by the end of
\* the connection (work_thread).
THEOREM NothingLost == Spec => [](Mode \in {ECHO, TOUCH, RDB} => NoHintLeak /\ NotStranded)
<1>1. Init => LInv
  BY InitInv DEF Init, LInv, NothingStuck
<1>2. LInv /\ [Next]_vars => LInv'
  <2> SUFFICES ASSUME LInv, [Next]_vars PROVE NothingStuck'
    BY NextInv DEF LInv
  <2>1. ASSUME UNCHANGED sharing, NEW f \in Fds,
               ClientSend(f) \/ ClientFinish(f) \/ ClientRead(f) \/ ClientClose(f)
        PROVE  NothingStuck'
    BY <2>1, WireServed DEF ClientSend, ClientFinish, ClientRead, ClientClose
  <2>2. CASE UNCHANGED vars
    BY <2>2, WireServed DEF vars
  <2> QED  BY <2>1, <2>2, AcceptServed, EnterServed, ReturnServed, HandleServed, DropServed
              DEF Next, Running, HandleStep
<1>3. LInv => (Mode \in {ECHO, TOUCH, RDB} => NoHintLeak /\ NotStranded)
  BY FromNothingStuck
<1> QED  BY <1>1, <1>2, <1>3, PTL DEF Spec
=============================================================================

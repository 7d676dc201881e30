-------------------------------- MODULE Ppd --------------------------------
(***************************************************************************)
(* The server (pingpong/ppd): the accept loop of the main thread, and the  *)
(* worker threads that wait in a kqueue, read one request of each ready    *)
(* connection and answer it.  Workers have a kqueue each, or share one:    *)
(* with EV_DISPATCH and EV_ENABLE on a stock kernel ("legacy"), or on a    *)
(* kernel with FKQMULTI, which withholds a connection from the other       *)
(* threads until the one that got it calls kevent again ("skq").           *)
(*                                                                         *)
(* A connection is a file descriptor; descriptors are used again.  A hint  *)
(* is the object that goes with one accepted connection.  Clients send a   *)
(* request in two parts, wait for the response, and may close at any time. *)
(***************************************************************************)
EXTENDS Integers, FiniteSets

CONSTANTS
  Workers,          \* 0..n-1, the indices of wrk_thrds
  Fds,              \* descriptors accept can return
  Mode,             \* options.mode
  Kinds,            \* requests clients send: "good", "bad" (does not parse)
  NEVENT,           \* events one kevent call returns
  SockoptMayFail,   \* TRUE: setsockopt can fail on an accepted socket
  ClientsClose,     \* TRUE: clients can close
  MaxAccepts        \* bound on accepted connections

ECHO == 0
TOUCH == 1
RDB == 2

ASSUME PpdAssumption ==
  /\ IsFiniteSet(Workers) /\ Workers # {} /\ Workers = 0..(Cardinality(Workers) - 1)
  /\ Mode \in Nat
  /\ Kinds \subseteq {"good", "bad"}
  /\ NEVENT \in Nat \ {0}
  /\ SockoptMayFail \in BOOLEAN /\ ClientsClose \in BOOLEAN
  /\ MaxAccepts \in Nat

VARIABLES
  sharing,     \* how workers use kqueues: "multi", "legacy" or "skq"
  fd,          \* "closed", "leaked" (accepted and forgotten) or "open"
  hint,        \* the hint the knote of a descriptor carries (udata)
  live,        \* hints that are allocated
  accepts,     \* connections accepted so far; also names the last hint
  cur_thread,  \* the worker the next connection goes to
  knote,       \* "none", "enabled", "disabled" (EV_DISPATCH) or "held" (SKQ)
  kq,          \* the worker whose kqueue a connection is in; if the kqueue is
               \* shared, the worker that got its last event
  pc,          \* where each worker is
  batch,       \* events kevent returned to it and it has not handled
  ev,          \* the event it handles
  skev,        \* descriptors queued for EV_ENABLE
  req,         \* "none", "part" or "full": what a client has sent
  kind,        \* the kind of that request
  asked,       \* the client waits for a response
  eof,         \* the client has closed
  resp,        \* what was written back: "none", "resp" or "raw"
  failed       \* why the server called E(), or "none"

kernvars == <<knote, kq>>
accvars == <<accepts, cur_thread>>
hintvars == <<hint, live>>
workvars == <<pc, batch, ev, skev>>
netvars == <<req, kind, asked, eof, resp>>
vars == <<sharing, fd, hintvars, accvars, kernvars, workvars, netvars, failed>>

NoEvent == [fd |-> "none", hint |-> 0, eof |-> FALSE]

-----------------------------------------------------------------------------
(* Clients *)

ClientSend(f) ==
  /\ fd[f] # "closed" /\ ~asked[f] /\ ~eof[f]
  /\ req' = [req EXCEPT ![f] = "part"]
  /\ \E k \in Kinds : kind' = [kind EXCEPT ![f] = k]
  /\ asked' = [asked EXCEPT ![f] = TRUE]
  /\ UNCHANGED <<fd, hintvars, accvars, kernvars, workvars, eof, resp, failed>>

ClientFinish(f) ==
  /\ req[f] = "part" /\ ~eof[f]
  /\ req' = [req EXCEPT ![f] = "full"]
  /\ UNCHANGED <<fd, hintvars, accvars, kernvars, workvars, kind, asked, eof, resp, failed>>

ClientRead(f) ==
  /\ resp[f] # "none" /\ ~eof[f]
  /\ resp' = [resp EXCEPT ![f] = "none"]
  /\ asked' = [asked EXCEPT ![f] = FALSE]
  /\ UNCHANGED <<fd, hintvars, accvars, kernvars, workvars, req, kind, eof, failed>>

ClientClose(f) ==
  /\ ClientsClose
  /\ fd[f] # "closed" /\ ~eof[f]
  /\ eof' = [eof EXCEPT ![f] = TRUE]
  /\ UNCHANGED <<fd, hintvars, accvars, kernvars, workvars, req, kind, asked, resp, failed>>

-----------------------------------------------------------------------------
(* The accept loop *)

Accepted(f) ==
  /\ accepts < MaxAccepts
  /\ fd[f] = "closed"
  /\ accepts' = accepts + 1

\* "setsockopt() failed": the loop goes on with the next connection.
AcceptLeaks(f) ==
  /\ SockoptMayFail
  /\ Accepted(f)
  /\ fd' = [fd EXCEPT ![f] = "leaked"]
  /\ UNCHANGED <<hintvars, cur_thread, kernvars, workvars, netvars, failed>>

\* Mutation of Accept: cur_thread does not wrap round.
AcceptNoWrap(f) ==
  /\ Accepted(f)
  /\ fd' = [fd EXCEPT ![f] = "open"]
  /\ hint' = [hint EXCEPT ![f] = accepts']
  /\ live' = live \cup {accepts'}
  /\ knote' = [knote EXCEPT ![f] = "enabled"]
  /\ kq' = [kq EXCEPT ![f] = cur_thread]
  /\ cur_thread' = cur_thread + 1
  /\ UNCHANGED <<workvars, netvars, failed>>

\* The hint is made, unless the mode has no req_proc, and the connection is
\* added to the kqueue of the next worker.
Accept(f) ==
  /\ Accepted(f)
  /\ fd' = [fd EXCEPT ![f] = "open"]
  /\ IF Mode \in {ECHO, TOUCH, RDB}
     THEN /\ hint' = [hint EXCEPT ![f] = accepts']
          /\ live' = live \cup {accepts'}
          /\ knote' = [knote EXCEPT ![f] = "enabled"]
          /\ kq' = [kq EXCEPT ![f] = cur_thread]
          /\ cur_thread' = (cur_thread + 1) % Cardinality(Workers)
          /\ UNCHANGED failed
     ELSE failed' = "mode" /\ UNCHANGED <<hintvars, kernvars, cur_thread>>
  /\ UNCHANGED <<workvars, netvars>>

-----------------------------------------------------------------------------
(* kevent *)

\* Mutation of AfterDelivery: no EV_DISPATCH, or no FKQMULTI on the kqueue.
AfterDeliveryPlain(s) == s

\* What becomes of a knote when its event is returned.
AfterDelivery(s) ==
  CASE sharing = "multi" -> s [] sharing = "legacy" -> "disabled" [] OTHER -> "held"

\* Mutation of Ready: all workers were given the same plain kqueue.
ReadyShared(w) == {f \in Fds : knote[f] = "enabled" /\ (req[f] # "none" \/ eof[f])}

\* Connections whose event kevent may return to w.
Ready(w) == {f \in Fds : /\ knote[f] = "enabled"
                         /\ sharing = "multi" => kq[f] = w
                         /\ req[f] # "none" \/ eof[f]}

\* The call: changes are applied, and SKQ takes back what w held.
KeventEnter(w) ==
  /\ pc[w] = "call"
  /\ knote' = [f \in Fds |->
       IF f \in skev[w] \/ (knote[f] = "held" /\ kq[f] = w) THEN "enabled" ELSE knote[f]]
  /\ skev' = [skev EXCEPT ![w] = {}]
  /\ pc' = [pc EXCEPT ![w] = "wait"]
  /\ UNCHANGED <<fd, hintvars, accvars, kq, batch, ev, netvars, failed>>

\* The return: an event carries the state of the connection at this moment.
KeventReturn(w, S) ==
  /\ pc[w] = "wait"
  /\ S \subseteq Ready(w) /\ S # {} /\ Cardinality(S) <= NEVENT
  /\ batch' = [batch EXCEPT ![w] = {[fd |-> f, hint |-> hint[f], eof |-> eof[f]] : f \in S}]
  /\ knote' = [f \in Fds |-> IF f \in S THEN AfterDelivery(knote[f]) ELSE knote[f]]
  /\ kq' = [f \in Fds |-> IF f \in S THEN w ELSE kq[f]]
  /\ pc' = [pc EXCEPT ![w] = "next"]
  /\ UNCHANGED <<fd, hintvars, accvars, ev, skev, netvars, failed>>

-----------------------------------------------------------------------------
(* work_thread and handle_event *)

\* The next event of the batch, or the next call of kevent.
NextEvent(w) ==
  /\ pc[w] = "next"
  /\ IF batch[w] = {}
     THEN pc' = [pc EXCEPT ![w] = "call"] /\ UNCHANGED <<batch, ev>>
     ELSE \E e \in batch[w] :
            /\ batch' = [batch EXCEPT ![w] = @ \ {e}]
            /\ ev' = [ev EXCEPT ![w] = e]
            /\ pc' = [pc EXCEPT ![w] = IF e.eof THEN "drop" ELSE "read"]
  /\ UNCHANGED <<fd, hintvars, accvars, kernvars, skev, netvars, failed>>

\* Mutation of Served: the connection is not queued for EV_ENABLE.
ServedForgets(w) ==
  /\ pc' = [pc EXCEPT ![w] = "next"]
  /\ ev' = [ev EXCEPT ![w] = NoEvent]
  /\ UNCHANGED skev

\* handle_event returns 0: in legacy mode the connection is to be enabled.
Served(w) ==
  /\ pc' = [pc EXCEPT ![w] = "next"]
  /\ ev' = [ev EXCEPT ![w] = NoEvent]
  /\ skev' = IF sharing = "legacy" THEN [skev EXCEPT ![w] = @ \cup {ev[w].fd}] ELSE skev

\* readmsg got a whole request; parsing it may fail, and EINVAL is not negative.
ReadRequest(w) ==
  /\ pc[w] = "read"
  /\ req[ev[w].fd] = "full"
  /\ req' = [req EXCEPT ![ev[w].fd] = "none"]
  /\ IF kind[ev[w].fd] = "good"
     THEN pc' = [pc EXCEPT ![w] = "write"] /\ UNCHANGED <<ev, skev>>
     ELSE Served(w)
  /\ UNCHANGED <<fd, hintvars, accvars, kernvars, batch, kind, asked, eof, resp, failed>>

\* readmsg meets the end of file before the end of the request.
ReadFails(w) ==
  /\ pc[w] = "read"
  /\ req[ev[w].fd] # "full" /\ eof[ev[w].fd]
  /\ pc' = [pc EXCEPT ![w] = "drop"]
  /\ UNCHANGED <<fd, hintvars, accvars, kernvars, batch, ev, skev, netvars, failed>>

\* What proc_req writes: rdb_proc does not serialize its response.
Encoded == IF Mode = RDB THEN "raw" ELSE "resp"

WriteResponse(w) ==
  /\ pc[w] = "write"
  /\ resp' = [resp EXCEPT ![ev[w].fd] = Encoded]
  /\ Served(w)
  /\ UNCHANGED <<fd, hintvars, accvars, kernvars, batch, req, kind, asked, eof, failed>>

WriteFails(w) ==
  /\ pc[w] = "write"
  /\ eof[ev[w].fd]
  /\ pc' = [pc EXCEPT ![w] = "drop"]
  /\ UNCHANGED <<fd, hintvars, accvars, kernvars, batch, ev, skev, netvars, failed>>

\* Mutation of Drop: the descriptor is closed before EV_DELETE, which then
\* finds no knote.
DropClosesFirst(w) ==
  /\ pc[w] = "drop"
  /\ failed' = "delete"
  /\ UNCHANGED <<fd, hintvars, accvars, kernvars, workvars, netvars>>

\* Mutation of Drop: the hint is not destroyed.
DropKeepsHint(w) ==
  LET f == ev[w].fd IN
  /\ pc[w] = "drop"
  /\ knote' = [knote EXCEPT ![f] = "none"]
  /\ fd' = [fd EXCEPT ![f] = "closed"]
  /\ req' = [req EXCEPT ![f] = "none"]
  /\ asked' = [asked EXCEPT ![f] = FALSE]
  /\ eof' = [eof EXCEPT ![f] = FALSE]
  /\ resp' = [resp EXCEPT ![f] = "none"]
  /\ pc' = [pc EXCEPT ![w] = "next"]
  /\ ev' = [ev EXCEPT ![w] = NoEvent]
  /\ UNCHANGED <<hintvars, accvars, kq, batch, skev, kind, failed>>

\* drop_conn: EV_DELETE, which must find the knote, close, destroy the hint.
Drop(w) ==
  LET f == ev[w].fd IN
  /\ pc[w] = "drop"
  /\ IF knote[f] = "none"
     THEN failed' = "delete" /\ UNCHANGED <<fd, live, knote, pc, ev, netvars>>
     ELSE /\ knote' = [knote EXCEPT ![f] = "none"]
          /\ fd' = [fd EXCEPT ![f] = "closed"]
          /\ live' = live \ {ev[w].hint}
          /\ req' = [req EXCEPT ![f] = "none"]
          /\ asked' = [asked EXCEPT ![f] = FALSE]
          /\ eof' = [eof EXCEPT ![f] = FALSE]
          /\ resp' = [resp EXCEPT ![f] = "none"]
          /\ pc' = [pc EXCEPT ![w] = "next"]
          /\ ev' = [ev EXCEPT ![w] = NoEvent]
          /\ UNCHANGED <<kind, failed>>
  /\ UNCHANGED <<hint, accvars, kq, batch, skev>>

-----------------------------------------------------------------------------
Init ==
  /\ sharing \in {"multi", "legacy", "skq"}
  /\ fd = [f \in Fds |-> "closed"]
  /\ hint = [f \in Fds |-> 0]
  /\ live = {}
  /\ accepts = 0
  /\ cur_thread = 0
  /\ knote = [f \in Fds |-> "none"]
  /\ kq = [f \in Fds |-> 0]
  /\ pc = [w \in Workers |-> "call"]
  /\ batch = [w \in Workers |-> {}]
  /\ ev = [w \in Workers |-> NoEvent]
  /\ skev = [w \in Workers |-> {}]
  /\ req = [f \in Fds |-> "none"]
  /\ kind = [f \in Fds |-> "good"]
  /\ asked = [f \in Fds |-> FALSE]
  /\ eof = [f \in Fds |-> FALSE]
  /\ resp = [f \in Fds |-> "none"]
  /\ failed = "none"

HandleStep(w) ==
  \/ KeventEnter(w) \/ NextEvent(w) \/ ReadRequest(w) \/ ReadFails(w)
  \/ WriteResponse(w) \/ WriteFails(w) \/ Drop(w)

\* The process has not exited, and its options do not change.
Running == failed = "none" /\ UNCHANGED sharing

Next ==
  /\ Running
  /\ \/ \E f \in Fds : \/ ClientSend(f) \/ ClientFinish(f) \/ ClientRead(f) \/ ClientClose(f)
                       \/ Accept(f) \/ AcceptLeaks(f)
     \/ \E w \in Workers : HandleStep(w) \/ \E S \in SUBSET Fds : KeventReturn(w, S)

Spec == Init /\ [][Next]_vars

\* Workers run; kevent returns every event that is ready again and again to
\* some worker that waits; clients finish the request they began (or close)
\* and read the response.
Fairness ==
  /\ \A w \in Workers : WF_vars(Running /\ HandleStep(w))
  /\ \A f \in Fds :
       /\ SF_vars(Running /\ \E w \in Workers, S \in SUBSET Fds :
                    f \in S /\ KeventReturn(w, S))
       /\ WF_vars(Running /\ ClientFinish(f))
       /\ WF_vars(Running /\ ClientRead(f))

FairSpec == Spec /\ Fairness

-----------------------------------------------------------------------------
(* Properties *)

\* The values of the server's variables.
TypeOK ==
  LET Event == [fd : Fds, hint : 1..MaxAccepts, eof : BOOLEAN] IN
  /\ sharing \in {"multi", "legacy", "skq"}
  /\ fd \in [Fds -> {"closed", "leaked", "open"}]
  /\ hint \in [Fds -> 0..MaxAccepts]
  /\ live \subseteq 1..MaxAccepts
  /\ accepts \in 0..MaxAccepts
  /\ cur_thread \in Workers
  /\ knote \in [Fds -> {"none", "enabled", "disabled", "held"}]
  /\ kq \in [Fds -> Workers]
  /\ pc \in [Workers -> {"call", "wait", "next", "read", "write", "drop"}]
  /\ \A w \in Workers : /\ batch[w] \subseteq Event
                        /\ ev[w] \in Event \cup {NoEvent}
                        /\ pc[w] \in {"read", "write", "drop"} <=> ev[w] # NoEvent
  /\ skev \in [Workers -> SUBSET Fds]
  /\ req \in [Fds -> {"none", "part", "full"}]
  /\ kind \in [Fds -> Kinds \cup {"good"}]
  /\ asked \in [Fds -> BOOLEAN] /\ eof \in [Fds -> BOOLEAN]
  /\ resp \in [Fds -> {"none", "resp", "raw"}]
  /\ failed \in {"none", "mode", "delete"}

\* The events worker w has received and not finished with.
Events(w) == batch[w] \cup (IF ev[w] = NoEvent THEN {} ELSE {ev[w]})

\* A connection is worked on by one worker at a time: its req_proc, read buffer
\* included, is not shared by two threads.
OneWorker ==
  \A v, w \in Workers : v # w =>
    {e.fd : e \in Events(v)} \cap {e.fd : e \in Events(w)} = {}

\* The hint of an event a worker will still use has not been destroyed, and
\* belongs to the connection that has the descriptor now.
HintAlive ==
  \A w \in Workers : \A e \in Events(w) :
    e.hint \in live /\ hint[e.fd] = e.hint /\ fd[e.fd] = "open"

\* A connection nobody works on is one that kevent can return: EV_DISPATCH is
\* always followed by EV_ENABLE or by the end of the connection.
NotStranded ==
  \A f \in Fds : fd[f] = "open" =>
    \/ knote[f] = "enabled"
    \/ \E w \in Workers :
         f \in skev[w] \/ f \in {e.fd : e \in Events(w)} \/ (knote[f] = "held" /\ pc[w] # "wait" /\ kq[f] = w)

\* EV_DELETE finds the knote of every connection that is dropped.
DropFindsKnote == failed # "delete"

\* Hints live as long as their connection: none is leaked.
NoHintLeak == live = {hint[f] : f \in {g \in Fds : fd[g] = "open"}}

\* A client whose connection is served and whose request is well formed gets a
\* response, or it ends the connection itself.
Answered ==
  \A f \in Fds : (asked[f] /\ fd[f] = "open" /\ kind[f] = "good") ~> (~asked[f] \/ eof[f])

\* "proc_req returned error" leads to drop_conn: a request that cannot be parsed
\* ends its connection like any other failed request.
ErrorEndsConnection ==
  \A f \in Fds : (asked[f] /\ fd[f] = "open") ~> (~asked[f] \/ eof[f])

\* message ppd_rdb_resp: what a client gets back is an encoded response.
ResponseEncoded == \A f \in Fds : resp[f] # "raw"

\* "2 - HTTP, 3 - RDB": a documented server mode serves connections.
ModeKnown == failed # "mode"
=============================================================================

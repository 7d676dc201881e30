---------------------------- MODULE KqConnProof ----------------------------
(* Proofs about KqConn for any number of connections, any schedule of       *)
(* requests and any bound on the clock.                                     *)
EXTENDS KqConn, TLAPS

-----------------------------------------------------------------------------
(* The inductive invariant *)

\* The depth falls below 0 only when the worker exits because of it.
DepthOK == failed # "extra" => \A c \in Conns : depth[c] >= 0

\* TimerTracked, also after the worker called E(): cleanup deletes the timers of
\* the connections it has come to.
Tracked ==
  \A c \in Conns :
    pc # "done" /\ (pc = "cleanup" => c \in left) => (timer_expired[c] <=> timer[c] = "none")

\* What is outstanding, with generators that read whole messages and no failing
\* send.
Outstanding ==
  env = {} => \A c \in Conns : owed[c] = 0 /\ depth[c] = inflight[c] + resp[c]

\* A connection the state machine does not run for waits for its timer, or for a
\* response.
Parked(c) ==
  \/ state[c] = "WAITING" /\ ~timer_expired[c]
  \/ state[c] = "LIMITING" /\ depth[c] >= depth_limit

AllParked ==
  env = {} /\ pc \in {"start", "kevent", "sm"} => \A c \in Conns : cur # c => Parked(c)

\* The clock does not run backwards, so what was due when STATE_SENDING was
\* entered still is.
SendingDue ==
  env = {} => \A c \in Conns : state[c] = "SENDING" => next_send[c] <= clock

IInv ==
  /\ TypeOK /\ DepthOK /\ Tracked /\ Outstanding /\ AllParked /\ SendingDue
  /\ NoPanic

\* The invariant is enough for the properties.
LEMMA FromIInv == IInv => DepthIsOutstanding /\ WakeupPending /\ TimerTracked
<1> SUFFICES ASSUME IInv PROVE DepthIsOutstanding /\ WakeupPending /\ TimerTracked
  OBVIOUS
<1>1. DepthIsOutstanding
  BY DEF IInv, TypeOK, Outstanding, DepthIsOutstanding, depth_limit
<1>2. TimerTracked
  BY DEF IInv, Tracked, TimerTracked
<1>3. ASSUME pc = "kevent", env = {}, NEW c \in Conns
      PROVE  timer[c] # "none" \/ inflight[c] + owed[c] + resp[c] > 0
  <2>1. cur # c
    BY <1>3 DEF IInv, TypeOK
  <2>2. CASE state[c] = "WAITING" /\ ~timer_expired[c]
    BY <1>3, <2>2 DEF IInv, Tracked
  <2>3. CASE depth[c] >= depth_limit
    BY <1>3, <2>3 DEF IInv, TypeOK, Outstanding, depth_limit
  <2> QED  BY <1>3, <2>1, <2>2, <2>3 DEF IInv, AllParked, Parked
<1> QED  BY <1>1, <1>2, <1>3 DEF WakeupPending

\* The invariant holds initially.
LEMMA InitInv == Init => IInv
<1> SUFFICES ASSUME Init PROVE IInv
  OBVIOUS
<1>1. TypeOK
  BY KqConnAssumption DEF Init, TypeOK, depth_limit
<1> QED  BY <1>1 DEF Init, IInv, DepthOK, Tracked, Outstanding, AllParked, Parked, SendingDue, NoPanic

-----------------------------------------------------------------------------
(* One lemma per group of actions *)

\* The clock and the kernel's timers keep the invariant.
LEMMA ClockInv ==
  ASSUME IInv, UNCHANGED env, failed = "none", NEW c \in Conns, Tick \/ StepBack \/ Fire(c)
  PROVE  IInv'
<1> USE DEF IInv
<1>1. CASE Tick \/ StepBack
  <2>1. /\ UNCHANGED <<connvars, kernvars, wirevars, pc, cur, left, failed>>
        /\ clock' \in Nat /\ (env = {} => clock' >= clock)
    BY <1>1 DEF Tick, StepBack, TypeOK
  <2>2. TypeOK'
    BY <2>1 DEF TypeOK, connvars, kernvars, wirevars
  <2>3. DepthOK' /\ Tracked' /\ Outstanding' /\ NoPanic'
    BY <2>1 DEF DepthOK, Tracked, Outstanding, NoPanic, connvars, kernvars, wirevars
  <2>4. AllParked'
    BY <2>1 DEF AllParked, Parked, connvars
  <2>5. SendingDue'
    BY <2>1 DEF SendingDue, TypeOK, connvars
  <2> QED  BY <2>2, <2>3, <2>4, <2>5
<1>2. CASE Fire(c)
  <2>1. UNCHANGED <<connvars, wirevars, clock, pc, cur, left, failed>>
    BY <1>2 DEF Fire
  <2>2. TypeOK'
    BY <1>2, <2>1 DEF Fire, TypeOK, connvars, wirevars
  <2>3. Tracked'
    BY <1>2, <2>1 DEF Fire, Tracked, TypeOK, connvars
  <2>4. DepthOK' /\ Outstanding' /\ NoPanic' /\ SendingDue'
    BY <2>1 DEF DepthOK, Outstanding, NoPanic, SendingDue, connvars, wirevars
  <2>5. AllParked'
    BY <2>1 DEF AllParked, Parked, connvars
  <2> QED  BY <2>2, <2>3, <2>4, <2>5
<1> QED  BY <1>1, <1>2

\* The server's answers move a request from inflight to resp.
LEMMA ServerInv ==
  ASSUME IInv, UNCHANGED env, failed = "none", NEW c \in Conns, Respond(c) \/ Segment(c)
  PROVE  IInv'
<1> USE DEF IInv
<1>1. UNCHANGED <<connvars, kernvars, clock, pc, cur, left, failed>>
  BY DEF Respond, Segment
<1>2. CASE Respond(c)
  <2>1. PICK k \in 0..(IF "http" \in env THEN MaxSegs - 1 ELSE 0) : owed' = [owed EXCEPT ![c] = @ + k]
    BY <1>2 DEF Respond
  <2>2. k \in Nat /\ (env = {} => k = 0)
    BY <2>1, KqConnAssumption
  <2>3. inflight' = [inflight EXCEPT ![c] = @ - 1] /\ resp' = [resp EXCEPT ![c] = @ + 1] /\ inflight[c] > 0
    BY <1>2 DEF Respond
  <2>4. inflight' \in [Conns -> Nat] /\ owed' \in [Conns -> Nat] /\ resp' \in [Conns -> Nat]
    BY <2>1, <2>2, <2>3 DEF TypeOK
  <2>5. Outstanding'
    BY <1>1, <2>1, <2>2, <2>3 DEF Outstanding, TypeOK, connvars
  <2> QED  BY <1>1, <2>4, <2>5 DEF TypeOK, DepthOK, Tracked, NoPanic, SendingDue, AllParked, Parked, connvars, kernvars
<1>3. CASE Segment(c)
  <2>1. owed[c] > 0 /\ owed' = [owed EXCEPT ![c] = @ - 1] /\ resp' = [resp EXCEPT ![c] = @ + 1] /\ UNCHANGED inflight
    BY <1>3 DEF Segment
  <2>2. owed' \in [Conns -> Nat] /\ resp' \in [Conns -> Nat]
    BY <2>1 DEF TypeOK
  <2>3. Outstanding'
    BY <2>1 DEF Outstanding, TypeOK
  <2> QED  BY <1>1, <2>1, <2>2, <2>3 DEF TypeOK, DepthOK, Tracked, NoPanic, SendingDue, AllParked, Parked, connvars, kernvars
<1> QED  BY <1>2, <1>3

\* Starting and stopping the worker, and the errors that need no impossible
\* state, keep the invariant.
LEMMA ControlInv ==
  ASSUME IInv, UNCHANGED env, failed = "none", NEW c \in Conns,
         Start \/ StopEvent \/ EofEvent(c) \/ ReadFails(c)
  PROVE  IInv'
<1> USE DEF IInv
<1>1. CASE Start
  <2>1. next_send' \in [Conns -> Nat] /\ \A d \in Conns : next_send'[d] = clock
    BY <1>1 DEF Start, TypeOK
  <2>2. SendingDue'
    BY <1>1, <2>1 DEF Start, SendingDue, TypeOK
  <2> QED  BY <1>1, <2>1, <2>2 DEF Start, TypeOK, DepthOK, Tracked, Outstanding, NoPanic, AllParked, Parked, kernvars, wirevars
<1>2. CASE StopEvent
  BY <1>2 DEF StopEvent, TypeOK, DepthOK, Tracked, Outstanding, NoPanic, SendingDue, AllParked, Parked, connvars, kernvars, wirevars
<1>3. CASE EofEvent(c) \/ ReadFails(c)
  BY <1>3 DEF EofEvent, ReadFails, TypeOK, DepthOK, Tracked, Outstanding, NoPanic, SendingDue, AllParked, Parked, connvars, kernvars, wirevars
<1> QED  BY <1>1, <1>2, <1>3

\* Reading a response lowers the depth by one; in the plain setting a readable
\* response means that the depth was not 0.
LEMMA ReadInv ==
  ASSUME IInv, UNCHANGED env, failed = "none", NEW c \in Conns, ReadEvent(c)
  PROVE  IInv'
<1> USE DEF IInv
<1>1. /\ pc = "kevent" /\ resp[c] > 0 /\ resp[c] \in Nat /\ depth[c] \in 0..1
      /\ UNCHANGED <<state, timer_expired, next_send, kernvars, inflight, owed, clock, left>>
  BY DEF ReadEvent, TypeOK, DepthOK, depth_limit
<1>2. depth' \in [Conns -> -1..depth_limit]
  <2>1. depth[c] - 1 \in -1..depth_limit
    BY <1>1 DEF depth_limit
  <2> QED  BY <2>1 DEF ReadEvent, TypeOK
<1>3. resp' \in [Conns -> Nat] /\ (env = {} => resp' = [resp EXCEPT ![c] = @ - 1])
  <2>1. resp[c] - 1 \in Nat /\ 0 \in Nat
    BY <1>1
  <2> QED  BY <2>1 DEF ReadEvent, TypeOK, ReadMsg, ReadHttp
<1>4. Outstanding' /\ (env = {} => depth[c] >= 1)
  BY <1>1, <1>3 DEF ReadEvent, Outstanding, TypeOK
<1>5. CASE depth[c] - 1 < 0
  <2>1. failed' = "extra" /\ UNCHANGED <<pc, cur>> /\ env # {}
    BY <1>1, <1>4, <1>5 DEF ReadEvent
  <2> QED  BY <1>1, <1>2, <1>3, <1>4, <2>1
      DEF TypeOK, DepthOK, Tracked, NoPanic, SendingDue, AllParked, kernvars
<1>6. CASE ~(depth[c] - 1 < 0)
  <2>1. pc' = "sm" /\ cur' = c /\ UNCHANGED failed
    BY <1>6 DEF ReadEvent
  <2>2. DepthOK' /\ \A d \in Conns : d # c => depth'[d] = depth[d]
    BY <1>1, <1>6 DEF ReadEvent, DepthOK, TypeOK
  <2>3. AllParked'
    BY <1>1, <2>1, <2>2 DEF AllParked, Parked, TypeOK
  <2> QED  BY <1>1, <1>2, <1>3, <1>4, <2>1, <2>2, <2>3
      DEF TypeOK, Tracked, NoPanic, SendingDue, kernvars
<1> QED  BY <1>5, <1>6

\* An expired timer is gone from the kernel, and the connection says so.
LEMMA TimerInv ==
  ASSUME IInv, UNCHANGED env, failed = "none", NEW c \in Conns, TimerEvent(c)
  PROVE  IInv'
<1> USE DEF IInv
<1>1. TypeOK'
  BY DEF TimerEvent, TypeOK, wirevars
<1>2. Tracked'
  BY DEF TimerEvent, TypeOK, Tracked
<1>3. AllParked'
  BY DEF TimerEvent, TypeOK, AllParked, Parked
<1>4. DepthOK' /\ Outstanding' /\ NoPanic' /\ SendingDue'
  BY DEF TimerEvent, DepthOK, Outstanding, NoPanic, SendingDue, wirevars
<1> QED  BY <1>1, <1>2, <1>3, <1>4

\* The state machine leaves a connection only when it is parked.
LEMMA MachineInv ==
  ASSUME IInv, UNCHANGED env, failed = "none", NEW c \in Conns, StateMachine(c)
  PROVE  IInv'
<1> USE DEF IInv
<1>0. pc = "sm" /\ cur = c
  BY DEF StateMachine, Wait, Due, Limit, Throttle, SendEarly, Send
<1>1. CASE Wait(c)
  <2>1. TypeOK'
    <3>1. /\ timer' \in [Conns -> {"none", "armed", "fired"}] /\ due' \in [Conns -> Nat]
          /\ timer_expired' \in [Conns -> BOOLEAN]
      <4>1. CASE timer_expired[c]
        BY <1>1, <4>1 DEF Wait, TypeOK
      <4>2. CASE ~timer_expired[c]
        BY <1>1, <4>2 DEF Wait, TypeOK, kernvars
      <4> QED  BY <4>1, <4>2
    <3>2. pc' = "kevent" /\ cur' = NULL /\ UNCHANGED <<state, depth, next_send, wirevars, clock, left, failed>>
      BY <1>1 DEF Wait
    <3> QED  BY <3>1, <3>2, KqConnAssumption DEF TypeOK, wirevars
  <2>2. Tracked'
    <3>1. \A d \in Conns : d # c => timer'[d] = timer[d] /\ timer_expired'[d] = timer_expired[d]
      BY <1>1 DEF Wait, TypeOK, kernvars
    <3>2. timer_expired'[c] = FALSE /\ timer'[c] # "none"
      <4>1. CASE timer_expired[c]
        BY <1>1, <4>1 DEF Wait, TypeOK
      <4>2. CASE ~timer_expired[c]
        BY <1>0, <1>1, <4>2 DEF Wait, TypeOK, Tracked, kernvars
      <4> QED  BY <4>1, <4>2
    <3> QED  BY <1>0, <1>1, <3>1, <3>2 DEF Wait, Tracked
  <2>3. ~timer_expired'[c] /\ \A d \in Conns : d # c => timer_expired'[d] = timer_expired[d]
    BY <1>1 DEF Wait, TypeOK
  <2>4. AllParked'
    BY <1>0, <1>1, <2>3 DEF Wait, AllParked, Parked
  <2> QED  BY <1>1, <2>1, <2>2, <2>4 DEF Wait, DepthOK, Outstanding, NoPanic, SendingDue, wirevars
<1>2. CASE Due(c)
  <2>1. AllParked' /\ SendingDue'
    BY <1>0, <1>2 DEF Due, AllParked, Parked, SendingDue, TypeOK
  <2> QED  BY <1>2, <2>1 DEF Due, TypeOK, DepthOK, Tracked, Outstanding, NoPanic, kernvars, wirevars
<1>3. CASE Limit(c)
  <2>1. AllParked'
    BY <1>0, <1>3, KqConnAssumption DEF Limit, AllParked, Parked, TypeOK
  <2>2. TypeOK'
    BY <1>3, KqConnAssumption DEF Limit, TypeOK, kernvars, wirevars
  <2>3. SendingDue'
    BY <1>3 DEF Limit, SendingDue, TypeOK
  <2>4. Tracked'
    BY <1>0, <1>3 DEF Limit, Tracked, kernvars
  <2> QED  BY <1>3, <2>1, <2>2, <2>3, <2>4 DEF Limit, DepthOK, Outstanding, NoPanic, wirevars
<1>4. CASE Throttle(c)
  <2>1. AllParked' /\ SendingDue'
    BY <1>0, <1>4 DEF Throttle, AllParked, Parked, SendingDue, TypeOK
  <2> QED  BY <1>4, <2>1 DEF Throttle, TypeOK, DepthOK, Tracked, Outstanding, NoPanic, kernvars, wirevars
<1>5. CASE SendEarly(c)
  <2>1. env # {}
    BY <1>5 DEF SendEarly, SendingDue, TypeOK
  <2> QED  BY <1>5, <2>1 DEF SendEarly, TypeOK, DepthOK, Tracked, Outstanding, NoPanic, SendingDue, AllParked, Parked, connvars, kernvars, wirevars
<1>6. CASE Send(c)
  <2>1. depth[c] = 0 /\ depth' = [depth EXCEPT ![c] = @ + 1]
    BY <1>6 DEF Send, TypeOK, DepthOK, depth_limit
  <2>2. depth' \in [Conns -> -1..depth_limit] /\ DepthOK'
    BY <1>6, <2>1 DEF Send, TypeOK, DepthOK, depth_limit
  <2>3. next_send' \in [Conns -> Nat] /\ state' \in [Conns -> {"WAITING", "LIMITING", "SENDING"}]
    BY <1>6, KqConnAssumption DEF Send, TypeOK
  <2>4. /\ inflight' \in [Conns -> Nat]
        /\ env = {} => inflight' = [inflight EXCEPT ![c] = @ + 1]
    BY <1>6 DEF Send, TypeOK
  <2>5. Outstanding'
    BY <1>6, <2>1, <2>4 DEF Send, Outstanding, TypeOK
  <2>6. AllParked'
    BY <1>0, <1>6, <2>1 DEF Send, AllParked, Parked, TypeOK
  <2>7. SendingDue'
    <3>1. \A d \in Conns : d # c => next_send'[d] = next_send[d] /\ state'[d] = state[d]
      BY <1>6 DEF Send, TypeOK
    <3>2. state'[c] = "WAITING" /\ clock' = clock
      BY <1>6 DEF Send, TypeOK
    <3> QED  BY <3>1, <3>2 DEF SendingDue
  <2> QED  BY <1>6, <2>2, <2>3, <2>4, <2>5, <2>6, <2>7 DEF Send, TypeOK, Tracked, NoPanic, kernvars
<1> QED  BY <1>1, <1>2, <1>3, <1>4, <1>5, <1>6 DEF StateMachine

\* kqconn_cleanup deletes the timers that are there.
LEMMA CleanupInv ==
  ASSUME IInv, UNCHANGED env, failed = "none", NEW c \in Conns, Cleanup(c)
  PROVE  IInv'
<1> USE DEF IInv
<1>1. pc = "cleanup" /\ c \in left /\ ~(~timer_expired[c] /\ timer[c] = "none")
  BY DEF Cleanup, Tracked
<1>2. /\ left' = left \ {c} /\ pc' = (IF left = {c} THEN "done" ELSE pc)
      /\ timer' = [timer EXCEPT ![c] = "none"] /\ UNCHANGED failed
      /\ UNCHANGED <<connvars, due, wirevars, clock, cur>>
  BY <1>1 DEF Cleanup
<1>3. TypeOK'
  BY <1>1, <1>2 DEF TypeOK, connvars, wirevars
<1>4. Tracked'
  BY <1>1, <1>2 DEF TypeOK, Tracked, connvars
<1> QED  BY <1>1, <1>2, <1>3, <1>4 DEF DepthOK, Outstanding, NoPanic, SendingDue, AllParked, connvars, wirevars

\* Every step keeps the invariant.
LEMMA NextInv == IInv /\ [Next]_vars => IInv'
<1> SUFFICES ASSUME IInv, [Next]_vars PROVE IInv'
  OBVIOUS
<1>1. CASE Next
  <2>1. \E c \in Conns : TRUE
    BY KqConnAssumption
  <2> QED  BY <1>1, <2>1, ClockInv, ServerInv, ControlInv, ReadInv, TimerInv, MachineInv, CleanupInv
              DEF Next, Running
<1>2. CASE UNCHANGED vars
  BY <1>2 DEF IInv, TypeOK, DepthOK, Tracked, Outstanding, AllParked, Parked, SendingDue, NoPanic,
              vars, connvars, kernvars, wirevars
<1> QED  BY <1>1, <1>2

-----------------------------------------------------------------------------
(* Theorems *)

\* Type correctness of a worker (kqconn.cc and dismember.cc, worker_thread), in
\* every setting.
THEOREM TypeCorrect == Spec => []TypeOK
<1>1. IInv => TypeOK
  BY DEF IInv
<1> QED  BY <1>1, InitInv, NextInv, PTL DEF Spec

\* conn->depth counts what the server still owes, so the limit of kqconn_state_machine
\* limits what is outstanding on each of any number of connections.
THEOREM DepthCounts == Spec => []DepthIsOutstanding
BY InitInv, NextInv, FromIInv, PTL DEF Spec

\* A worker never blocks in kevent while one of its connections has neither a
\* timer nor a response coming (kqconn_state_machine).
THEOREM NoLostWakeup == Spec => []WakeupPending
BY InitInv, NextInv, FromIInv, PTL DEF Spec

\* timer_expired tells what the kernel holds, in every setting (kqconn.cc), so
\* that kqconn_cleanup never fails; in the plain setting no E() that stands for an
\* impossible state is reached.
THEOREM TimersTracked == Spec => [](TimerTracked /\ NoPanic)
<1>1. IInv => NoPanic
  BY DEF IInv
<1> QED  BY <1>1, InitInv, NextInv, FromIInv, PTL DEF Spec
=============================================================================

------------------------------- MODULE KqConn -------------------------------
(***************************************************************************)
(* One worker thread of the load generator (pingpong/dismember): the       *)
(* connections it drives, their one-shot timers, and the state machine     *)
(* that paces requests.  The server and the clock are the environment.     *)
(*                                                                         *)
(* The worker is one thread, so only the clock, the kernel's timers and    *)
(* the server interleave with it; each turn of the state machine's loop is *)
(* one action because each reads the clock again.                          *)
(***************************************************************************)
EXTENDS Integers, FiniteSets

CONSTANTS
  Conns,          \* the connections of this worker
  Gaps,           \* inter-arrival times gen->generate can return
  MaxSegs,        \* segments an HTTP response can arrive in
  Adversity,      \* what a difficult setting has: "http" (http_gen, which reads
                  \* whatever is there), "sendfail" (send_req can fail on a live
                  \* connection), "stepback" (CLOCK_REALTIME can be set back)
  MaxTime,        \* bound on the clock
  NULL

depth_limit == 1

ASSUME KqConnAssumption ==
  /\ Conns # {}
  /\ Gaps \subseteq Nat
  /\ MaxSegs \in Nat \ {0}
  /\ MaxTime \in Nat
  /\ NULL \notin Conns
  /\ Adversity \subseteq {"http", "sendfail", "stepback"}

VARIABLES
  env,            \* the setting: {} or Adversity
  state,          \* conn->state
  depth,          \* conn->depth
  timer_expired,  \* conn->timer_expired
  next_send,      \* conn->next_send
  timer,          \* the kernel's one-shot timer: "none", "armed" or "fired"
  due,            \* when an armed timer fires, 0 if none is
  inflight,       \* requests the server has not answered
  owed,           \* response segments on their way
  resp,           \* response messages or segments that can be read
  clock,          \* what get_time_us returns
  pc,             \* where the worker is
  cur,            \* the connection the state machine runs for
  left,           \* connections kqconn_cleanup has still to be called for
  failed          \* why the worker called E(), or "none"

connvars == <<state, depth, timer_expired, next_send>>
kernvars == <<timer, due>>
wirevars == <<inflight, owed, resp>>
vars == <<env, connvars, kernvars, wirevars, clock, pc, cur, left, failed>>

-----------------------------------------------------------------------------
(* The environment *)

Tick ==
  /\ clock < MaxTime
  /\ clock' = clock + 1
  /\ UNCHANGED <<connvars, kernvars, wirevars, pc, cur, left, failed>>

\* Somebody sets CLOCK_REALTIME back.
StepBack ==
  /\ "stepback" \in env
  /\ clock > 0
  /\ clock' = clock - 1
  /\ UNCHANGED <<connvars, kernvars, wirevars, pc, cur, left, failed>>

\* A timer fires; its event waits in the kqueue.
Fire(c) ==
  /\ timer[c] = "armed"
  /\ clock >= due[c] \/ "stepback" \in env
  /\ timer' = [timer EXCEPT ![c] = "fired"]
  /\ due' = [due EXCEPT ![c] = 0]
  /\ UNCHANGED <<connvars, wirevars, clock, pc, cur, left, failed>>

\* The server answers; an HTTP response can come in several segments.
Respond(c) ==
  /\ inflight[c] > 0
  /\ inflight' = [inflight EXCEPT ![c] = @ - 1]
  /\ resp' = [resp EXCEPT ![c] = @ + 1]
  /\ \E k \in 0..(IF "http" \in env THEN MaxSegs - 1 ELSE 0) :
       owed' = [owed EXCEPT ![c] = @ + k]
  /\ UNCHANGED <<connvars, kernvars, clock, pc, cur, left, failed>>

Segment(c) ==
  /\ owed[c] > 0
  /\ owed' = [owed EXCEPT ![c] = @ - 1]
  /\ resp' = [resp EXCEPT ![c] = @ + 1]
  /\ UNCHANGED <<connvars, kernvars, inflight, clock, pc, cur, left, failed>>

-----------------------------------------------------------------------------
(* worker_thread: after the barrier, and one event from kevent *)

\* "send the initial packet now".
Start ==
  /\ pc = "start"
  /\ next_send' = [c \in Conns |-> clock]
  /\ pc' = "kevent"
  /\ UNCHANGED <<state, depth, timer_expired, kernvars, wirevars, clock, cur, left, failed>>

\* What is left to read after read_resp: readmsg takes one message, http_gen's
\* read takes whatever has arrived.
ReadMsg(n) == n - 1
ReadHttp(n) == 0

\* A readable connection: read_resp, then the state machine.
ReadEvent(c) ==
  /\ pc = "kevent"
  /\ resp[c] > 0
  /\ resp' = [resp EXCEPT ![c] = IF "http" \in env THEN ReadHttp(@) ELSE ReadMsg(@)]
  /\ depth' = [depth EXCEPT ![c] = @ - 1]
  /\ IF depth[c] - 1 < 0
     THEN failed' = "extra" /\ UNCHANGED <<pc, cur>>
     ELSE pc' = "sm" /\ cur' = c /\ UNCHANGED failed
  /\ UNCHANGED <<state, timer_expired, next_send, kernvars, inflight, owed, clock, left>>

\* EV_EOF: "just error".
EofEvent(c) ==
  /\ pc = "kevent"
  /\ failed' = "eof"
  /\ UNCHANGED <<connvars, kernvars, wirevars, clock, pc, cur, left>>

\* read_resp fails: the server resets the connection, or the rest of a message
\* does not come within the 5 s of SO_RCVTIMEO.
ReadFails(c) ==
  /\ pc = "kevent"
  /\ resp[c] > 0
  /\ failed' = "read"
  /\ UNCHANGED <<connvars, kernvars, wirevars, clock, pc, cur, left>>

\* Mutation of TimerEvent: the state machine is not run.
TimerEventOnly(c) ==
  /\ pc = "kevent"
  /\ timer[c] = "fired"
  /\ timer' = [timer EXCEPT ![c] = "none"]
  /\ timer_expired' = [timer_expired EXCEPT ![c] = TRUE]
  /\ UNCHANGED <<state, depth, next_send, due, wirevars, clock, pc, cur, left, failed>>

\* The one-shot timer has expired: the kernel has forgotten it.
TimerEvent(c) ==
  /\ pc = "kevent"
  /\ timer[c] = "fired"
  /\ timer' = [timer EXCEPT ![c] = "none"]
  /\ timer_expired' = [timer_expired EXCEPT ![c] = TRUE]
  /\ pc' = "sm"
  /\ cur' = c
  /\ UNCHANGED <<state, depth, next_send, due, wirevars, clock, left, failed>>

\* The main thread wrote 'e' to the pipe: leave the loop and clean up.
StopEvent ==
  /\ pc = "kevent"
  /\ pc' = "cleanup"
  /\ left' = Conns
  /\ UNCHANGED <<connvars, kernvars, wirevars, clock, cur, failed>>

-----------------------------------------------------------------------------
(* kqconn_state_machine *)

\* Mutation of Wait: the test of timer_expired is turned round.
WaitNoRearm(c) ==
  /\ pc = "sm" /\ cur = c
  /\ state[c] = "WAITING"
  /\ next_send[c] > clock
  /\ pc' = "kevent" /\ cur' = NULL
  /\ IF ~timer_expired[c]
     THEN /\ timer' = [timer EXCEPT ![c] = "armed"]
          /\ due' = [due EXCEPT ![c] = next_send[c]]
     ELSE UNCHANGED kernvars
  /\ UNCHANGED <<connvars, wirevars, clock, left, failed>>

\* Mutation of Wait: timer_expired is not reset.
WaitForgets(c) ==
  /\ pc = "sm" /\ cur = c
  /\ state[c] = "WAITING"
  /\ next_send[c] > clock
  /\ pc' = "kevent" /\ cur' = NULL
  /\ IF timer_expired[c]
     THEN /\ timer' = [timer EXCEPT ![c] = "armed"]
          /\ due' = [due EXCEPT ![c] = next_send[c]]
     ELSE UNCHANGED kernvars
  /\ UNCHANGED <<connvars, wirevars, clock, left, failed>>

\* STATE_WAITING and the next request is not due: make sure a timer is armed.
Wait(c) ==
  /\ pc = "sm" /\ cur = c
  /\ state[c] = "WAITING"
  /\ next_send[c] > clock
  /\ pc' = "kevent" /\ cur' = NULL
  /\ IF timer_expired[c]
     THEN /\ timer' = [timer EXCEPT ![c] = "armed"]
          /\ due' = [due EXCEPT ![c] = next_send[c]]
          /\ timer_expired' = [timer_expired EXCEPT ![c] = FALSE]
     ELSE UNCHANGED <<kernvars, timer_expired>>
  /\ UNCHANGED <<state, depth, next_send, wirevars, clock, left, failed>>

Due(c) ==
  /\ pc = "sm" /\ cur = c
  /\ state[c] = "WAITING"
  /\ next_send[c] <= clock
  /\ state' = [state EXCEPT ![c] = "SENDING"]
  /\ UNCHANGED <<depth, timer_expired, next_send, kernvars, wirevars, clock, pc, cur, left, failed>>

\* STATE_LIMITING: wait for a response, or go on.
Limit(c) ==
  /\ pc = "sm" /\ cur = c
  /\ state[c] = "LIMITING"
  /\ IF depth[c] >= depth_limit
     THEN pc' = "kevent" /\ cur' = NULL /\ UNCHANGED state
     ELSE state' = [state EXCEPT ![c] = "WAITING"] /\ UNCHANGED <<pc, cur>>
  /\ UNCHANGED <<depth, timer_expired, next_send, kernvars, wirevars, clock, left, failed>>

\* STATE_SENDING with too many requests out.
Throttle(c) ==
  /\ pc = "sm" /\ cur = c
  /\ state[c] = "SENDING"
  /\ depth[c] >= depth_limit
  /\ state' = [state EXCEPT ![c] = "LIMITING"]
  /\ UNCHANGED <<depth, timer_expired, next_send, kernvars, wirevars, clock, pc, cur, left, failed>>

\* STATE_SENDING: the clock is read again, and "the above condition cannot be
\* true" is checked.
SendEarly(c) ==
  /\ pc = "sm" /\ cur = c
  /\ state[c] = "SENDING"
  /\ depth[c] < depth_limit
  /\ clock < next_send[c]
  /\ failed' = "early"
  /\ UNCHANGED <<connvars, kernvars, wirevars, clock, pc, cur, left>>

\* Mutation of Send: the depth is not counted.
SendUncounted(c) ==
  /\ pc = "sm" /\ cur = c
  /\ state[c] = "SENDING"
  /\ depth[c] < depth_limit
  /\ clock >= next_send[c]
  /\ \E g \in Gaps : next_send' = [next_send EXCEPT ![c] = @ + g]
  /\ state' = [state EXCEPT ![c] = "WAITING"]
  /\ inflight' = [inflight EXCEPT ![c] = @ + 1]
  /\ UNCHANGED <<depth, timer_expired, kernvars, owed, resp, clock, pc, cur, left, failed>>

\* Mutation of Send: the depth limit is not tested.
SendOverLimit(c) ==
  /\ pc = "sm" /\ cur = c
  /\ state[c] = "SENDING"
  /\ clock >= next_send[c]
  /\ depth' = [depth EXCEPT ![c] = @ + 1]
  /\ \E g \in Gaps : next_send' = [next_send EXCEPT ![c] = @ + g]
  /\ state' = [state EXCEPT ![c] = "WAITING"]
  /\ inflight' = [inflight EXCEPT ![c] = @ + 1]
  /\ UNCHANGED <<timer_expired, kernvars, owed, resp, clock, pc, cur, left, failed>>

\* One request is sent.  An error of send_req is only a warning: the depth and
\* the next time have been advanced already.
Send(c) ==
  /\ pc = "sm" /\ cur = c
  /\ state[c] = "SENDING"
  /\ depth[c] < depth_limit
  /\ clock >= next_send[c]
  /\ depth' = [depth EXCEPT ![c] = @ + 1]
  /\ \E g \in Gaps : next_send' = [next_send EXCEPT ![c] = @ + g]
  /\ state' = [state EXCEPT ![c] = "WAITING"]
  /\ \/ inflight' = [inflight EXCEPT ![c] = @ + 1]
     \/ "sendfail" \in env /\ UNCHANGED inflight
  /\ UNCHANGED <<timer_expired, kernvars, owed, resp, clock, pc, cur, left, failed>>

-----------------------------------------------------------------------------
\* Mutation of Cleanup: the timer is deleted whether or not it is there.
CleanupAlways(c) ==
  /\ pc = "cleanup"
  /\ c \in left
  /\ IF timer[c] = "none"
     THEN failed' = "cleanup" /\ UNCHANGED <<left, pc, timer>>
     ELSE /\ left' = left \ {c}
          /\ pc' = IF left = {c} THEN "done" ELSE pc
          /\ timer' = [timer EXCEPT ![c] = "none"]
          /\ UNCHANGED failed
  /\ UNCHANGED <<connvars, due, wirevars, clock, cur>>

(* kqconn_cleanup: EV_DELETE of a timer that is not there is an error *)

Cleanup(c) ==
  /\ pc = "cleanup"
  /\ c \in left
  /\ IF ~timer_expired[c] /\ timer[c] = "none"
     THEN failed' = "cleanup" /\ UNCHANGED <<left, pc, timer>>
     ELSE /\ left' = left \ {c}
          /\ pc' = IF left = {c} THEN "done" ELSE pc
          /\ timer' = [timer EXCEPT ![c] = "none"]
          /\ UNCHANGED failed
  /\ UNCHANGED <<connvars, due, wirevars, clock, cur>>

-----------------------------------------------------------------------------
(* Connections are established with a timer of 0 us before the barrier.      *)

Init ==
  /\ env \in {{}, Adversity}
  /\ state = [c \in Conns |-> "WAITING"]
  /\ depth = [c \in Conns |-> 0]
  /\ timer_expired = [c \in Conns |-> FALSE]
  /\ next_send = [c \in Conns |-> 0]
  /\ timer = [c \in Conns |-> "armed"]
  /\ due = [c \in Conns |-> 0]
  /\ inflight = [c \in Conns |-> 0]
  /\ owed = [c \in Conns |-> 0]
  /\ resp = [c \in Conns |-> 0]
  /\ clock = 0
  /\ pc = "start"
  /\ cur = NULL
  /\ left = {}
  /\ failed = "none"

StateMachine(c) ==
  \/ Wait(c) \/ Due(c) \/ Limit(c) \/ Throttle(c) \/ SendEarly(c) \/ Send(c)

\* The process has not exited, and the setting does not change.
Running == failed = "none" /\ UNCHANGED env

Next ==
  /\ Running
  /\ \/ Tick \/ StepBack \/ Start \/ StopEvent
     \/ \E c \in Conns :
          \/ Fire(c) \/ Respond(c) \/ Segment(c)
          \/ ReadEvent(c) \/ ReadFails(c) \/ EofEvent(c) \/ TimerEvent(c)
          \/ StateMachine(c) \/ Cleanup(c)

Spec == Init /\ [][Next]_vars

\* The worker runs, kevent serves every ready source in turn, timers fire and
\* the server answers.
Fairness ==
  /\ WF_vars(Running /\ (Start \/ \E c \in Conns : StateMachine(c)))
  /\ \A c \in Conns :
       /\ SF_vars(Running /\ ReadEvent(c))
       /\ SF_vars(Running /\ TimerEvent(c))
       /\ WF_vars(Running /\ Cleanup(c))
       /\ WF_vars(Running /\ Fire(c))
       /\ WF_vars(Running /\ Respond(c))
       /\ WF_vars(Running /\ Segment(c))

FairSpec == Spec /\ Fairness

-----------------------------------------------------------------------------
(* Properties *)

\* The values of the fields of struct kqconn and of the worker's state.
TypeOK ==
  /\ env \subseteq Adversity
  /\ state \in [Conns -> {"WAITING", "LIMITING", "SENDING"}]
  /\ depth \in [Conns -> -1..depth_limit]
  /\ timer_expired \in [Conns -> BOOLEAN]
  /\ next_send \in [Conns -> Nat]
  /\ timer \in [Conns -> {"none", "armed", "fired"}]
  /\ due \in [Conns -> Nat]
  /\ inflight \in [Conns -> Nat]
  /\ owed \in [Conns -> Nat]
  /\ resp \in [Conns -> Nat]
  /\ clock \in Nat
  /\ pc \in {"start", "kevent", "sm", "cleanup", "done"}
  /\ cur \in Conns \cup {NULL}
  /\ pc = "sm" <=> cur \in Conns
  /\ left \subseteq Conns
  /\ failed \in {"none", "extra", "eof", "read", "early", "cleanup"}

\* conn->depth is the number of requests the peer still owes a response to, so
\* the depth limit limits what is outstanding.  (For generators that read whole
\* messages, while no send fails.)
DepthIsOutstanding ==
  failed = "none" /\ env = {} => \A c \in Conns :
    /\ depth[c] = inflight[c] + owed[c] + resp[c]
    /\ depth[c] <= depth_limit

\* timer_expired tells whether the kernel holds a timer of the connection, and
\* so whether it may be armed and must be deleted.
TimerTracked ==
  failed = "none" => \A c \in Conns :
    pc # "done" /\ (pc = "cleanup" => c \in left)
      => (timer_expired[c] <=> timer[c] = "none")

\* No lost wakeup: while the worker blocks in kevent, every connection has a
\* timer pending or a response coming; otherwise it would never send again.
WakeupPending ==
  pc = "kevent" /\ env = {} => \A c \in Conns :
    timer[c] # "none" \/ inflight[c] + owed[c] + resp[c] > 0

\* None of the E() calls that stand for an impossible state is reached: a
\* response nobody asked for, a request sent early, a timer that is not there.
\* The last one is not reached in any setting.
NoPanic ==
  /\ failed # "cleanup"
  /\ env = {} => failed \in {"none", "eof", "read"}

\* "only STATE_WAITING transfers us to this state the above condition cannot be
\* true": a request is never found to be early in STATE_SENDING.
NeverEarly == failed # "early"

\* "consume everything": one read takes a whole HTTP response, so there is
\* never one more read than there were requests.
NoExtraResponse == failed # "extra"

\* "effectively skipping this packet": after a failed send the connection goes
\* on: a worker that waits in kevent will hear of it again.
SkippedGoesOn ==
  pc = "kevent" /\ env = {"sendfail"} => \A c \in Conns :
    timer[c] # "none" \/ inflight[c] + owed[c] + resp[c] > 0

\* A request that is due is sent: the schedule moves past every time that is
\* reached, or the worker stops.
DueIsSent ==
  \A c \in Conns : \A n \in 0..MaxTime :
    (env = {} /\ pc = "kevent" /\ next_send[c] = n /\ clock >= n)
      ~> (next_send[c] # n \/ pc = "done" \/ failed # "none")
=============================================================================

------------------------------ MODULE EvCompat ------------------------------
(***************************************************************************)
(* The libevent replacement of evcompat/event.c: one event_base shared by  *)
(* several threads inside event_base_loop, handlers that may delete and    *)
(* re-add events, and other threads that call event_add and event_del.     *)
(*                                                                         *)
(* The per-event mutex ev->lk is kept as a variable because the loop holds *)
(* the locks of a whole batch while it completes it.  A critical section   *)
(* that takes and drops one lock is one action guarded by the lock being   *)
(* free.  A failed assert() ends the process: failed names the assertion   *)
(* and no further step is possible.                                        *)
(***************************************************************************)
EXTENDS Integers, Sequences, FiniteSets

CONSTANTS
  Events,       \* the struct event objects, all set to the same event_base
  Loopers,      \* threads running event_base_loop
  Callers,      \* other threads that call event_add and event_del
  PersistEvents,\* events whose type has EV_PERSIST
  TimerEvents,  \* events whose type has EV_TIMEOUT
  NEVENT,       \* length of the evlist passed to kevent
  HandlerOps,   \* what handlers do: "del", "readd", "addother", "delother"
  MaxData,      \* bound: how often each descriptor becomes ready
  MaxCalls,     \* bound: API calls made by each caller
  NULL

Threads == Loopers \cup Callers

ASSUME ConstAssumption ==
  /\ Events # {}
  /\ Loopers \cap Callers = {}
  /\ NULL \notin Threads
  /\ PersistEvents \subseteq Events
  /\ TimerEvents \subseteq Events
  /\ NEVENT \in Nat \ {0}
  /\ MaxData \in Nat
  /\ MaxCalls \in Nat
  /\ HandlerOps \subseteq {"del", "readd", "addother", "delother"}

VARIABLES
  MULT_KQ,      \* built for SKQ (FKQMULTI), the base has EVB_MULTI; never changes
  state,        \* ev->state, a subset of {"ACTIVE", "PENDING"}
  owner,        \* ev->owner
  epoch,        \* ev->epoch
  ident,        \* the fd and filter that ev->fd and ev->type stand for
  lk,           \* the thread holding ev->lk, or NULL
  timer_base,   \* the next id next_timer_fd returns
  kn,           \* the event's knote: "none", "armed" or "held" (delivered)
  knIdent,      \* the ident and filter the knote is registered under
  holder,       \* the thread a held knote was delivered to
  unread,       \* how often the descriptor is ready and not yet read
  budget,       \* how often it will still become ready
  pc,           \* where each thread is
  evlist,       \* the batch kevent returned to each looper
  epochs,       \* the epochs recorded for the batch's events
  idx,          \* the loop index i
  enlist,       \* indices of the batch queued for EV_ENABLE
  kev,          \* the struct kevent of the API call in progress
  calls,        \* API calls each caller has made
  failed        \* the assertion that failed, or "none"

evvars == <<state, owner, epoch, ident>>
knvars == <<kn, knIdent, holder>>
iovars == <<unread, budget>>
loopvars == <<evlist, epochs, idx, enlist>>
vars == <<MULT_KQ, evvars, lk, timer_base, knvars, iovars, pc, loopvars, kev, calls, failed>>

Filters == {1, 2}   \* EVFILT_READ and EVFILT_WRITE on the event's own fd
Unset == 0          \* the fd an evtimer_set leaves until event_add patches it

-----------------------------------------------------------------------------
(* Helpers *)

\* The event the looper t works on: active[i].
Current(t) == evlist[t][idx[t]].ev

\* Threads inside event_add on e.
Adding(e) == {t \in Threads : pc[t] \in {"addchk", "add"} /\ kev[t].ev = e}

\* Nobody uses e: it is not queued and no handler is about to re-add it.
Fresh(e) ==
  /\ state[e] = {}
  /\ Adding(e) = {}
  /\ \A t \in Loopers : pc[t] = "changed" => kev[t].ev # e

\* Reading the descriptor in a handler takes one unit of what is readable.
ReadFd(e) ==
  /\ unread' = [unread EXCEPT ![e] = IF @ > 0 THEN @ - 1 ELSE 0]
  /\ UNCHANGED budget

\* Where control goes when event_del or event_add returns.
AfterDel(t, ok) ==
  CASE t \in Callers -> "idle"
    [] t \in Loopers /\ ok -> "changed"
    [] t \in Loopers /\ ~ok -> "ret"

AfterAdd(t) == IF t \in Callers THEN "idle" ELSE "ret"

\* pthread_cond_signal(&ev->stop_cv): p is pc after one waiter, if any, woke.
Signalled(p, e) ==
  LET W == {u \in Threads : pc[u] = "delwait" /\ kev[u].ev = e}
  IN  \/ W = {} /\ pc' = p
      \/ \E u \in W : pc' = [p EXCEPT ![u] = "delretry"]

\* Mutations of Changed: the epoch is left alone, or the event stays active or
\* pending.
ChangedKeepsEpoch(e, s) ==
  /\ state' = [state EXCEPT ![e] = s \ {"ACTIVE"}]
  /\ owner' = [owner EXCEPT ![e] = NULL]
  /\ UNCHANGED epoch

ChangedStaysActive(e, s) ==
  /\ state' = [state EXCEPT ![e] = s]
  /\ epoch' = IF "ACTIVE" \in state[e] THEN [epoch EXCEPT ![e] = @ + 1] ELSE epoch
  /\ UNCHANGED owner

ChangedStaysPending(e, s) ==
  /\ state' = [state EXCEPT ![e] = {"PENDING"}]
  /\ owner' = [owner EXCEPT ![e] = NULL]
  /\ epoch' = IF "ACTIVE" \in state[e] THEN [epoch EXCEPT ![e] = @ + 1] ELSE epoch

\* "XXX: hack to make event inactive after its changed".
Changed(e, s) ==
  /\ state' = [state EXCEPT ![e] = s \ {"ACTIVE"}]
  /\ owner' = IF "ACTIVE" \in state[e] THEN [owner EXCEPT ![e] = NULL] ELSE owner
  /\ epoch' = IF "ACTIVE" \in state[e] THEN [epoch EXCEPT ![e] = @ + 1] ELSE epoch

-----------------------------------------------------------------------------
(* The kernel: which knotes kevent may return *)

\* The environment makes a descriptor readable, or a timer expire.
Arrive(e) ==
  /\ budget[e] > 0
  /\ budget' = [budget EXCEPT ![e] = @ - 1]
  /\ unread' = [unread EXCEPT ![e] = @ + 1]
  /\ UNCHANGED <<evvars, lk, timer_base, knvars, pc, loopvars, kev, calls, failed>>

\* Entering kevent().  SKQ gives back what the thread was handling; a legacy
\* kqueue leaves EV_DISPATCH knotes disabled until an EV_ENABLE.  A base made
\* without EVB_MULTI by a library built for SKQ has neither mechanism (event_add
\* leaves out EV_DISPATCH, event_init_flags the ioctl) and is not modelled.
KeventEnter(t) ==
  /\ pc[t] = "kevent"
  /\ pc' = [pc EXCEPT ![t] = "wait"]
  /\ kn' = [e \in Events |->
              IF MULT_KQ /\ kn[e] = "held" /\ holder[e] = t THEN "armed" ELSE kn[e]]
  /\ UNCHANGED <<evvars, lk, timer_base, knIdent, holder, iovars, loopvars,
                 kev, calls, failed>>

\* kevent() returns to t a batch b of n different ready knotes, in any order.
Ready == {e \in Events : kn[e] = "armed" /\ unread[e] > 0}

Deliver(t, n, b) ==
  /\ \A i, j \in 1..n : b[i] = b[j] => i = j
  /\ evlist' = [evlist EXCEPT ![t] =
                  [i \in 1..n |-> [ev |-> b[i], ident |-> knIdent[b[i]]]]]
  /\ kn' = [e \in Events |-> IF \E i \in 1..n : b[i] = e THEN "held" ELSE kn[e]]
  /\ holder' = [e \in Events |-> IF \E i \in 1..n : b[i] = e THEN t ELSE holder[e]]
  /\ epochs' = [epochs EXCEPT ![t] = <<>>]
  /\ idx' = [idx EXCEPT ![t] = 1]
  /\ enlist' = [enlist EXCEPT ![t] = {}]
  /\ pc' = [pc EXCEPT ![t] = "mark"]
  /\ UNCHANGED <<evvars, lk, timer_base, knIdent, iovars, kev, calls, failed>>

KeventReturn(t) ==
  /\ pc[t] = "wait"
  /\ \E n \in 1..NEVENT : \E b \in [1..n -> Ready] : Deliver(t, n, b)

-----------------------------------------------------------------------------
(* event_base_loop: marking the batch active *)

MarkAsserts(t) ==
  LET e == Current(t)
  IN  CASE e \in TimerEvents /\ ident[e] # evlist[t][idx[t]].ident -> "fd"
        [] ~(e \in TimerEvents /\ ident[e] # evlist[t][idx[t]].ident)
           /\ "ACTIVE" \in state[e] -> "active"
        [] OTHER -> "none"

Mark(t) ==
  LET e == Current(t)
      last == idx[t] = Len(evlist[t])
  IN  /\ pc[t] = "mark"
      /\ lk[e] = NULL
      /\ MarkAsserts(t) = "none"
      /\ state' = [state EXCEPT ![e] = @ \cup {"ACTIVE"}]
      /\ owner' = [owner EXCEPT ![e] = t]
      /\ epochs' = [epochs EXCEPT ![t] = Append(@, epoch[e])]
      /\ idx' = [idx EXCEPT ![t] = IF last THEN 1 ELSE @ + 1]
      /\ pc' = [pc EXCEPT ![t] = IF last THEN "run" ELSE "mark"]
      /\ UNCHANGED <<epoch, ident, lk, timer_base, knvars, iovars, evlist, enlist,
                     kev, calls, failed>>

MarkFails(t) ==
  /\ pc[t] = "mark"
  /\ lk[Current(t)] = NULL
  /\ MarkAsserts(t) # "none"
  /\ failed' = MarkAsserts(t)
  /\ UNCHANGED <<evvars, lk, timer_base, knvars, iovars, pc, loopvars, kev, calls>>

-----------------------------------------------------------------------------
(* event_base_loop: running the handlers *)

\* The handler of the current event returns; the loop goes to the next one.
HandlerReturn(t) ==
  LET last == idx[t] = Len(evlist[t])
  IN  /\ pc[t] \in {"run", "changed", "ret"}
      /\ IF pc[t] = "run" THEN ReadFd(Current(t)) ELSE UNCHANGED iovars
      /\ idx' = [idx EXCEPT ![t] = IF last THEN 1 ELSE @ + 1]
      /\ pc' = [pc EXCEPT ![t] = IF last THEN "complete" ELSE "run"]
      /\ UNCHANGED <<evvars, lk, timer_base, knvars, evlist, epochs, enlist, kev,
                     calls, failed>>

\* The handler reads and then calls event_del on its own event ("del"), as
\* update_event and conn_close of memcached do, or on another one ("delother").
HandlerDel(t) ==
  /\ pc[t] = "run"
  /\ \E e \in Events :
       /\ IF e = Current(t) THEN "del" \in HandlerOps ELSE "delother" \in HandlerOps
       /\ kev' = [kev EXCEPT ![t] = [ev |-> e, ident |-> Unset]]
  /\ ReadFd(Current(t))
  /\ pc' = [pc EXCEPT ![t] = "del"]
  /\ UNCHANGED <<evvars, lk, timer_base, knvars, loopvars, calls, failed>>

\* After a successful event_del the handler sets the event up again, possibly
\* for the other direction, and calls event_add.  This is event_set.
SetAssertFails(e, n) ==
  {"ACTIVE", "PENDING"} \subseteq state[e] /\ e \notin TimerEvents /\ n # ident[e]

HandlerReadd(t) ==
  LET e == kev[t].ev
  IN  /\ pc[t] = "changed"
      /\ "readd" \in HandlerOps
      /\ lk[e] = NULL
      /\ Adding(e) = {}
      /\ \E n \in (IF e \in TimerEvents THEN {Unset} ELSE Filters) :
           \/ /\ SetAssertFails(e, n)
              /\ failed' = "set"
              /\ UNCHANGED <<ident, kev, pc>>
           \/ /\ ~SetAssertFails(e, n)
              /\ ident' = [ident EXCEPT ![e] = n]
              /\ kev' = [kev EXCEPT ![t] = [ev |-> e, ident |-> n]]
              /\ pc' = [pc EXCEPT ![t] = "addchk"]
              /\ UNCHANGED failed
      /\ UNCHANGED <<state, owner, epoch, lk, timer_base, knvars, iovars, loopvars, calls>>

\* The handler reads and adds an event nobody uses, as thread_libevent_process
\* of memcached does for a new connection.
HandlerAddOther(t) ==
  /\ pc[t] = "run"
  /\ "addother" \in HandlerOps
  /\ \E e \in Events \ {Current(t)} :
       /\ Fresh(e)
       /\ lk[e] = NULL
       /\ kev' = [kev EXCEPT ![t] = [ev |-> e, ident |-> ident[e]]]
  /\ ReadFd(Current(t))
  /\ pc' = [pc EXCEPT ![t] = "addchk"]
  /\ UNCHANGED <<evvars, lk, timer_base, knvars, loopvars, calls, failed>>

-----------------------------------------------------------------------------
(* event_base_loop: completing the batch.  Every lock taken here is kept     *)
(* until the whole batch has been re-enabled.                                *)

\* The completed event is not EV_PERSIST: event_del_flags(EVENT_DEL_NOBLOCK).
DelNoblockOk(e) == "PENDING" \in state[e] /\ kn[e] # "none" /\ knIdent[e] = ident[e]

\* Mutation of CompleteCurrent: nothing is put on the enlist.
CompleteNoEnlist(t, e) ==
  /\ state' = [state EXCEPT ![e] = @ \ {"ACTIVE"}]
  /\ owner' = [owner EXCEPT ![e] = NULL]
  /\ UNCHANGED <<kn, failed, enlist>>

CompleteCurrent(t, e) ==
  IF e \in PersistEvents
  THEN /\ state' = [state EXCEPT ![e] = @ \ {"ACTIVE"}]
       /\ owner' = [owner EXCEPT ![e] = NULL]
       /\ enlist' = IF MULT_KQ THEN enlist ELSE [enlist EXCEPT ![t] = @ \cup {idx[t]}]
       /\ UNCHANGED <<kn, failed>>
  ELSE /\ state' = [state EXCEPT ![e] = IF DelNoblockOk(e) THEN {} ELSE @ \ {"ACTIVE"}]
       /\ owner' = [owner EXCEPT ![e] = NULL]
       /\ kn' = IF DelNoblockOk(e) THEN [kn EXCEPT ![e] = "none"] ELSE kn
       /\ failed' = IF DelNoblockOk(e) THEN failed ELSE "del"
       /\ UNCHANGED enlist

\* Mutations of Complete: changed events are completed too, or are not
\* signalled.
CompleteAnyEpoch(t) ==
  LET e == Current(t)
      last == idx[t] = Len(evlist[t])
  IN  /\ pc[t] = "complete"
      /\ lk[e] = NULL
      /\ lk' = [lk EXCEPT ![e] = t]
      /\ CompleteCurrent(t, e)
      /\ Signalled([pc EXCEPT ![t] = IF last THEN "enable" ELSE "complete"], e)
      /\ idx' = [idx EXCEPT ![t] = IF last THEN 1 ELSE @ + 1]
      /\ UNCHANGED <<epoch, ident, timer_base, knIdent, holder, iovars, evlist,
                     epochs, kev, calls>>

CompleteQuiet(t) ==
  LET e == Current(t)
      last == idx[t] = Len(evlist[t])
      p == [pc EXCEPT ![t] = IF last THEN "enable" ELSE "complete"]
  IN  /\ pc[t] = "complete"
      /\ lk[e] = NULL
      /\ lk' = [lk EXCEPT ![e] = t]
      /\ \/ /\ epochs[t][idx[t]] = epoch[e]
            /\ CompleteCurrent(t, e)
            /\ Signalled(p, e)
         \/ /\ epochs[t][idx[t]] # epoch[e]
            /\ UNCHANGED <<state, owner, enlist, kn, failed>>
            /\ pc' = p
      /\ idx' = [idx EXCEPT ![t] = IF last THEN 1 ELSE @ + 1]
      /\ UNCHANGED <<epoch, ident, timer_base, knIdent, holder, iovars, evlist,
                     epochs, kev, calls>>

Complete(t) ==
  LET e == Current(t)
      last == idx[t] = Len(evlist[t])
  IN  /\ pc[t] = "complete"
      /\ lk[e] = NULL
      /\ lk' = [lk EXCEPT ![e] = t]
      /\ \/ /\ epochs[t][idx[t]] = epoch[e]
            /\ CompleteCurrent(t, e)
         \/ /\ epochs[t][idx[t]] # epoch[e]
            /\ UNCHANGED <<state, owner, enlist, kn, failed>>
      /\ Signalled([pc EXCEPT ![t] = IF last THEN "enable" ELSE "complete"], e)
      /\ idx' = [idx EXCEPT ![t] = IF last THEN 1 ELSE @ + 1]
      /\ UNCHANGED <<epoch, ident, timer_base, knIdent, holder, iovars, evlist,
                     epochs, kev, calls>>

\* kevent(EV_ENABLE) of the enlist; a knote that is gone fails the assertion.
Enable(t) ==
  LET S == {evlist[t][i] : i \in enlist[t]}
  IN  /\ pc[t] = "enable"
      /\ IF \A r \in S : kn[r.ev] # "none" /\ knIdent[r.ev] = r.ident
         THEN /\ kn' = [e \in Events |-> IF \E r \in S : r.ev = e THEN "armed" ELSE kn[e]]
              /\ UNCHANGED failed
         ELSE /\ failed' = "enable"
              /\ UNCHANGED kn
      /\ pc' = [pc EXCEPT ![t] = "unlock"]
      /\ UNCHANGED <<evvars, lk, timer_base, knIdent, holder, iovars, loopvars, kev, calls>>

\* Mutation of Unlock: only the re-enabled events are unlocked.
UnlockEnlisted(t) ==
  /\ pc[t] = "unlock"
  /\ lk' = [e \in Events |->
              IF \E i \in enlist[t] : evlist[t][i].ev = e THEN NULL ELSE lk[e]]
  /\ pc' = [pc EXCEPT ![t] = "kevent"]
  /\ evlist' = [evlist EXCEPT ![t] = <<>>]
  /\ epochs' = [epochs EXCEPT ![t] = <<>>]
  /\ enlist' = [enlist EXCEPT ![t] = {}]
  /\ UNCHANGED <<evvars, timer_base, knvars, iovars, idx, kev, calls, failed>>

Unlock(t) ==
  /\ pc[t] = "unlock"
  /\ lk' = [e \in Events |->
              IF \E i \in 1..Len(evlist[t]) : evlist[t][i].ev = e THEN NULL ELSE lk[e]]
  /\ pc' = [pc EXCEPT ![t] = "kevent"]
  /\ evlist' = [evlist EXCEPT ![t] = <<>>]
  /\ epochs' = [epochs EXCEPT ![t] = <<>>]
  /\ enlist' = [enlist EXCEPT ![t] = {}]
  /\ UNCHANGED <<evvars, timer_base, knvars, iovars, idx, kev, calls, failed>>

-----------------------------------------------------------------------------
(* event_del: from its lock to its return or its wait on stop_cv.  The kevent *)
(* k was built before the retry label.                                        *)

DelBody(t, k) ==
  LET e == k.ev
  IN  /\ lk[e] = NULL
      /\ kev' = [kev EXCEPT ![t] = k]
      /\ \/ /\ "PENDING" \notin state[e]
            /\ pc' = [pc EXCEPT ![t] = AfterDel(t, FALSE)]
            /\ UNCHANGED <<state, owner, epoch, kn>>
         \/ /\ {"PENDING", "ACTIVE"} \subseteq state[e]
            /\ owner[e] # t
            /\ pc' = [pc EXCEPT ![t] = "delwait"]
            /\ UNCHANGED <<state, owner, epoch, kn>>
         \/ /\ "PENDING" \in state[e]
            /\ "ACTIVE" \notin state[e] \/ owner[e] = t
            /\ kn[e] # "none" /\ knIdent[e] = k.ident
            /\ kn' = [kn EXCEPT ![e] = "none"]
            /\ Changed(e, state[e] \ {"PENDING"})
            /\ pc' = [pc EXCEPT ![t] = AfterDel(t, TRUE)]
         \/ /\ "PENDING" \in state[e]
            /\ "ACTIVE" \notin state[e] \/ owner[e] = t
            /\ kn[e] = "none" \/ knIdent[e] # k.ident
            /\ pc' = [pc EXCEPT ![t] = AfterDel(t, FALSE)]
            /\ UNCHANGED <<state, owner, epoch, kn>>
      /\ UNCHANGED <<ident, lk, timer_base, knIdent, holder, iovars, loopvars, calls, failed>>

Del(t) ==
  /\ pc[t] = "del"
  /\ DelBody(t, [ev |-> kev[t].ev, ident |-> ident[kev[t].ev]])

DelRetry(t) ==
  /\ pc[t] = "delretry"
  /\ DelBody(t, kev[t])

\* POSIX lets pthread_cond_wait return without a signal.
SpuriousWake(t) ==
  /\ pc[t] = "delwait"
  /\ pc' = [pc EXCEPT ![t] = "delretry"]
  /\ UNCHANGED <<evvars, lk, timer_base, knvars, iovars, loopvars, kev, calls, failed>>

-----------------------------------------------------------------------------
(* event_add: the unlocked check of EVS_PENDING, then the locked kevent      *)

AddCheck(t) ==
  LET e == kev[t].ev
      n == IF e \in TimerEvents THEN timer_base ELSE ident[e]
  IN  /\ pc[t] = "addchk"
      /\ \/ /\ "PENDING" \in state[e]
            /\ pc' = [pc EXCEPT ![t] = AfterAdd(t)]
            /\ UNCHANGED <<ident, timer_base, kev>>
         \/ /\ "PENDING" \notin state[e]
            /\ ident' = [ident EXCEPT ![e] = n]
            /\ timer_base' = IF e \in TimerEvents THEN timer_base - 1 ELSE timer_base
            /\ kev' = [kev EXCEPT ![t] = [ev |-> e, ident |-> n]]
            /\ pc' = [pc EXCEPT ![t] = "add"]
      /\ UNCHANGED <<state, owner, epoch, lk, knvars, iovars, loopvars, calls, failed>>

AddCommit(t) ==
  LET e == kev[t].ev
  IN  /\ pc[t] = "add"
      /\ lk[e] = NULL
      /\ kn' = [kn EXCEPT ![e] = "armed"]
      /\ knIdent' = [knIdent EXCEPT ![e] = kev[t].ident]
      /\ Changed(e, state[e] \cup {"PENDING"})
      /\ pc' = [pc EXCEPT ![t] = AfterAdd(t)]
      /\ UNCHANGED <<ident, lk, timer_base, holder, iovars, loopvars, kev, calls, failed>>

\* kevent(EV_ADD) fails: CS_ERR, nothing changes.
AddFails(t) ==
  /\ pc[t] = "add"
  /\ lk[kev[t].ev] = NULL
  /\ pc' = [pc EXCEPT ![t] = AfterAdd(t)]
  /\ UNCHANGED <<evvars, lk, timer_base, knvars, iovars, loopvars, kev, calls, failed>>

-----------------------------------------------------------------------------
(* Threads outside the loop *)

CallDel(c, e) ==
  /\ pc[c] = "idle"
  /\ calls[c] < MaxCalls
  /\ calls' = [calls EXCEPT ![c] = @ + 1]
  /\ kev' = [kev EXCEPT ![c] = [ev |-> e, ident |-> Unset]]
  /\ pc' = [pc EXCEPT ![c] = "del"]
  /\ UNCHANGED <<evvars, lk, timer_base, knvars, iovars, loopvars, failed>>

\* "Not thread safe w.r.t. each event": one thread at a time adds an event.
CallAdd(c, e) ==
  /\ pc[c] = "idle"
  /\ calls[c] < MaxCalls
  /\ Adding(e) = {}
  /\ calls' = [calls EXCEPT ![c] = @ + 1]
  /\ kev' = [kev EXCEPT ![c] = [ev |-> e, ident |-> ident[e]]]
  /\ pc' = [pc EXCEPT ![c] = "addchk"]
  /\ UNCHANGED <<evvars, lk, timer_base, knvars, iovars, loopvars, failed>>

-----------------------------------------------------------------------------
(* Initially some events have been set and added and the threads start.      *)

Init ==
  /\ MULT_KQ \in BOOLEAN
  /\ state \in [Events -> {{}, {"PENDING"}}]
  /\ owner = [e \in Events |-> NULL]
  /\ epoch = [e \in Events |-> 0]
  /\ ident = [e \in Events |-> IF e \in TimerEvents THEN -1 ELSE 1]
  /\ lk = [e \in Events |-> NULL]
  /\ timer_base = -2
  /\ kn = [e \in Events |-> IF state[e] = {} THEN "none" ELSE "armed"]
  /\ knIdent = ident
  /\ holder = [e \in Events |-> NULL]
  /\ unread = [e \in Events |-> 0]
  /\ budget = [e \in Events |-> MaxData]
  /\ pc = [t \in Threads |-> IF t \in Loopers THEN "kevent" ELSE "idle"]
  /\ evlist = [t \in Loopers |-> <<>>]
  /\ epochs = [t \in Loopers |-> <<>>]
  /\ idx = [t \in Loopers |-> 1]
  /\ enlist = [t \in Loopers |-> {}]
  /\ kev = [t \in Threads |-> [ev |-> CHOOSE e \in Events : TRUE, ident |-> Unset]]
  /\ calls = [c \in Callers |-> 0]
  /\ failed = "none"

\* The steps of event_base_loop and of the handlers it runs.
LoopStep(t) ==
  \/ KeventEnter(t)
  \/ KeventReturn(t)
  \/ Mark(t)
  \/ MarkFails(t)
  \/ HandlerReturn(t)
  \/ HandlerDel(t)
  \/ HandlerReadd(t)
  \/ HandlerAddOther(t)
  \/ Complete(t)
  \/ Enable(t)
  \/ Unlock(t)

\* The steps of an API call in progress.
ApiStep(t) ==
  \/ Del(t)
  \/ DelRetry(t)
  \/ AddCheck(t)
  \/ AddCommit(t)
  \/ AddFails(t)

\* The process has not exited; the kernel stays what it is.
Running == failed = "none" /\ UNCHANGED MULT_KQ

Next ==
  /\ Running
  /\ \/ \E t \in Loopers : LoopStep(t)
     \/ \E t \in Threads : ApiStep(t)
     \/ \E t \in Threads : SpuriousWake(t)
     \/ \E c \in Callers, e \in Events : CallDel(c, e)
     \/ \E c \in Callers, e \in Events : CallAdd(c, e)
     \/ \E e \in Events : Arrive(e)

Spec == Init /\ [][Next]_vars

\* A running thread keeps running: handlers return and API calls proceed when
\* their lock is free.
Fairness ==
  /\ \A t \in Loopers : WF_vars(Running /\ LoopStep(t))
  /\ \A t \in Threads : WF_vars(Running /\ ApiStep(t))

FairSpec == Spec /\ Fairness

-----------------------------------------------------------------------------
(* Properties *)

PCs == {"kevent", "wait", "mark", "run", "changed", "ret", "complete", "enable",
        "unlock", "idle", "del", "delwait", "delretry", "addchk", "add"}

\* The values the fields of struct event, the knotes and the locals of
\* event_base_loop can have.
TypeOK ==
  /\ MULT_KQ \in BOOLEAN
  /\ state \in [Events -> SUBSET {"ACTIVE", "PENDING"}]
  /\ owner \in [Events -> Loopers \cup {NULL}]
  /\ epoch \in [Events -> Nat]
  /\ ident \in [Events -> Int]
  /\ lk \in [Events -> Loopers \cup {NULL}]
  /\ timer_base \in Int
  /\ kn \in [Events -> {"none", "armed", "held"}]
  /\ knIdent \in [Events -> Int]
  /\ holder \in [Events -> Loopers \cup {NULL}]
  /\ unread \in [Events -> Nat]
  /\ budget \in [Events -> Nat]
  /\ pc \in [Threads -> PCs]
  /\ evlist \in [Loopers -> Seq([ev : Events, ident : Int])]
  /\ epochs \in [Loopers -> Seq(Nat)]
  /\ idx \in [Loopers -> Nat \ {0}]
  /\ enlist \in [Loopers -> SUBSET Nat]
  /\ kev \in [Threads -> [ev : Events, ident : Int]]
  /\ calls \in [Callers -> Nat]
  /\ failed \in {"none", "fd", "active", "set", "del", "enable"}

\* Where a looper is while it runs the handlers of its batch.
HandlerPCs == {"run", "changed", "ret", "del", "delwait", "delretry", "addchk", "add"}

\* Indices of the batch that t has marked active and not yet completed.
Tracked(t) ==
  {i \in 1..Len(evlist[t]) :
     \/ pc[t] = "mark" /\ i < idx[t]
     \/ pc[t] \in HandlerPCs
     \/ pc[t] = "complete" /\ i >= idx[t]}

\* The locals of event_base_loop agree: i is inside the batch, an epoch is
\* recorded for every event marked so far, and no event is in the batch twice.
BatchShape(t) ==
  /\ pc[t] # "idle"
  /\ pc[t] = "mark" => idx[t] <= Len(evlist[t]) /\ Len(epochs[t]) = idx[t] - 1
  /\ pc[t] \in HandlerPCs \cup {"complete"} =>
       idx[t] <= Len(evlist[t]) /\ Len(epochs[t]) = Len(evlist[t])
  /\ \A i, j \in 1..Len(evlist[t]) : evlist[t][i].ev = evlist[t][j].ev => i = j

BatchOK == \A t \in Loopers : BatchShape(t)

\* Those whose event has not been added or deleted since: t handles them.
Live(t) == {i \in Tracked(t) : epochs[t][i] = epoch[evlist[t][i].ev]}

\* No recorded epoch is ahead of its event's, and a slot that t still handles
\* belongs to an event marked active by t.
LiveOwned ==
  \A t \in Loopers :
    /\ \A i \in Tracked(t) : epochs[t][i] <= epoch[evlist[t][i].ev]
    /\ \A i \in Live(t) :
         "ACTIVE" \in state[evlist[t][i].ev] /\ owner[evlist[t][i].ev] = t

\* "We just need to guarantee that only one thread handles an event at a
\* time": the epoch test of event_base_loop leaves each event to one slot of
\* one thread, whatever handlers and callers add and delete meanwhile.
ExclusiveOwner ==
  \A t, u \in Loopers : \A i \in Live(t), j \in Live(u) :
    evlist[t][i].ev = evlist[u][j].ev => t = u /\ i = j

\* An event marked EVS_ACTIVE is in the batch of its owner, who will complete
\* it and signal: event_del never waits for a thread that has moved on.
ActiveHasOwner ==
  \A e \in Events : "ACTIVE" \in state[e] =>
    \E t \in Loopers : owner[e] = t /\ \E i \in Live(t) : evlist[t][i].ev = e

\* What the loops handle, as the abstract specification EvLease sees it: the
\* events of their live slots.
Queued == {e \in Events : "PENDING" \in state[e]}
Leases == [t \in Loopers |-> {evlist[t][i].ev : i \in Live(t)}]

Lease == INSTANCE EvLease WITH queued <- Queued, leases <- Leases, up <- (failed = "none")

\* Owners, epochs and stop_cv make what the loops handle leases: no event is
\* handed to a second loop, event_del of another thread waits until its handler
\* is done, and a loop whose batch is out of date ends nobody else's.
ImplementsLease == Lease!LeaseSpec

\* No assert() of event_base_loop or event_set fails.
NoAssertFails == failed = "none"

\* "re-enable events, since events are active, this CANNOT fail".
EnableCannotFail == failed # "enable"

\* "We cannot handle an event that's active": a thread never finds an event
\* it fetched to be active already when it marks it.
NotActiveAtMark == failed # "active"

\* The loop calls fn only for an event that is queued and that nobody has
\* changed since it was marked.
RunsQueuedOnly ==
  \A t \in Loopers : pc[t] = "run" =>
    idx[t] \in Live(t) /\ "PENDING" \in state[Current(t)]

\* A knote that was delivered, and so is withheld from everybody, is one that
\* the thread it went to will still mark, complete or re-enable; otherwise the
\* descriptor would never be reported again.
NoStrandedKnote ==
  failed = "none" => \A e \in Events : kn[e] = "held" =>
    LET t == holder[e]
    IN  \/ MULT_KQ /\ pc[t] # "wait"
        \/ ~MULT_KQ /\ \E i \in 1..Len(evlist[t]) :
             /\ evlist[t][i].ev = e
             /\ (pc[t] = "mark" /\ i >= idx[t]) \/ i \in Live(t) \/ i \in enlist[t]

\* The thread t blocks on a mutex or on stop_cv until u acts.
WaitsFor(t, u) ==
  \/ pc[t] \in {"mark", "complete"} /\ lk[Current(t)] = u
  \/ pc[t] \in {"del", "delretry", "add"} /\ lk[kev[t].ev] = u
  \/ pc[t] = "delwait" /\ owner[kev[t].ev] = u

\* Threads never wait for each other in a cycle.  "Here we actually allow an
\* active event to be re-added so that apps can manipulate events inside the
\* event handler" promises it; event_base_loop breaks it with batches of two,
\* whose locks it keeps while it takes the next one (EvDeadlock.cfg).
NoWaitCycle ==
  ~ \E S \in (SUBSET Threads) \ {{}} : \A t \in S : \E u \in S : WaitsFor(t, u)

\* Events of t's batch that are in the batch of another loop as well: they were
\* re-added while t had them.
InBatch(t) == {evlist[t][i].ev : i \in 1..Len(evlist[t])}
Shared(t) == InBatch(t) \cap UNION {InBatch(u) : u \in Loopers \ {t}}

\* What it takes to deadlock: a loop with two events that others have fetched
\* meanwhile.  While no loop has two, the locks that event_base_loop keeps
\* through a batch and the waits of event_del never close a circle, however
\* long the batches are and whatever callers add and delete, where handlers
\* delete no event but their own.
WaitsUntangled ==
  (\A t \in Loopers : \A e, f \in Shared(t) : e = f) => NoWaitCycle

\* No lost event: a queued event whose descriptor is ready is handled until
\* the descriptor has been read, or is deleted.
ReadyHandled ==
  \A e \in Events :
    (unread[e] > 0 /\ "PENDING" \in state[e])
      ~> (unread[e] = 0 \/ "PENDING" \notin state[e] \/ failed # "none")

\* A blocking event_del returns.
DelReturns ==
  \A c \in Callers :
    pc[c] \in {"del", "delwait", "delretry"} ~> (pc[c] = "idle" \/ failed # "none")
=============================================================================

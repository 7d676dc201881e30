------------------------------- MODULE Scaled -------------------------------
(***************************************************************************)
(* The kqueue scalability benchmark (scaled/scaled.c): worker threads that *)
(* fetch events of always-readable pipes, from one kqueue each or from a   *)
(* shared one, and stop when the exit pipe becomes readable.  The array    *)
(* info->kev is at once what kevent returned and the next call's changes.  *)
(***************************************************************************)
EXTENDS Integers, FiniteSets

CONSTANTS
  Threads,      \* 0..thread_cnt-1
  Pipes,        \* 0..conn_count-1
  nevent,       \* options.nevent
  ExitFrees,    \* SKQ: what an exited thread got is given to others
  MaxCnt        \* counters saturate here

EXIT == -1      \* exit_pipes[0]

ASSUME ScaledAssumption ==
  /\ IsFiniteSet(Threads) /\ Threads # {} /\ Threads = 0..(Cardinality(Threads) - 1)
  /\ IsFiniteSet(Pipes) /\ Pipes = 0..(Cardinality(Pipes) - 1)
  /\ nevent \in Nat \ {0} /\ MaxCnt \in Nat
  /\ ExitFrees \in BOOLEAN

VARIABLES
  sharing,  \* how threads use kqueues: "multi", "legacy" (-s) or "skq" (-s with
            \* FKQMULTI)
  knote,    \* of a pipe, or of EXIT: "enabled", "disabled" or "held"
  got,      \* the thread that got a knote's last event
  exiting,  \* main has written to the exit pipe
  pc,       \* "call", "wait", "proc" or "done"
  kev,      \* info->kev: the events the last kevent call returned
  left,     \* those not processed yet
  enable,   \* those whose flags were set to EV_ENABLE
  stop,
  cnt,      \* info->stat.cnt
  main      \* "sleep", "join" or "done"

vars == <<sharing, knote, got, exiting, pc, kev, left, enable, stop, cnt, main>>

-----------------------------------------------------------------------------
\* Mutation of AfterReturn: no EV_DISPATCH on the pipes, no FKQMULTI.
AfterReturnPlain(e) == "enabled"

\* A knote whose event was returned: pipes of a shared kqueue have EV_DISPATCH,
\* the exit pipe has not; SKQ withholds either from the other threads.
AfterReturn(e) ==
  CASE sharing = "skq" -> "held"
    [] sharing = "legacy" /\ e # EXIT -> "disabled"
    [] OTHER -> "enabled"

\* Pipe i is in the kqueue of thread i % thread_cnt; the exit pipe in all.
InKqueue(t, e) == sharing # "multi" \/ e = EXIT \/ e % Cardinality(Threads) = t

Ready(t) == {e \in Pipes \cup {EXIT} :
               knote[e] = "enabled" /\ InKqueue(t, e) /\ (e = EXIT => exiting)}

\* Mutation of KeventEnter: nchanges stays 0.
KeventEnterNoChanges(t) ==
  /\ pc[t] = "call"
  /\ knote' = [e \in DOMAIN knote |->
       IF knote[e] = "held" /\ got[e] = t THEN "enabled" ELSE knote[e]]
  /\ pc' = [pc EXCEPT ![t] = "wait"]
  /\ kev' = [kev EXCEPT ![t] = {}]
  /\ enable' = [enable EXCEPT ![t] = {}]
  /\ UNCHANGED <<sharing, got, exiting, left, stop, cnt, main>>

\* kevent is called with the events of the last round as changes.
KeventEnter(t) ==
  /\ pc[t] = "call"
  /\ knote' = [e \in DOMAIN knote |->
       IF e \in kev[t] \cap enable[t] \/ (knote[e] = "held" /\ got[e] = t)
       THEN "enabled" ELSE knote[e]]
  /\ pc' = [pc EXCEPT ![t] = "wait"]
  /\ kev' = [kev EXCEPT ![t] = {}]
  /\ enable' = [enable EXCEPT ![t] = {}]
  /\ UNCHANGED <<sharing, got, exiting, left, stop, cnt, main>>

KeventReturn(t, S) ==
  /\ pc[t] = "wait"
  /\ S \subseteq Ready(t) /\ S # {} /\ Cardinality(S) <= nevent
  /\ knote' = [e \in DOMAIN knote |-> IF e \in S THEN AfterReturn(e) ELSE knote[e]]
  /\ got' = [e \in DOMAIN got |-> IF e \in S THEN t ELSE got[e]]
  /\ kev' = [kev EXCEPT ![t] = S]
  /\ left' = [left EXCEPT ![t] = S]
  /\ pc' = [pc EXCEPT ![t] = "proc"]
  /\ UNCHANGED <<sharing, exiting, enable, stop, cnt, main>>

\* Mutation of Process: the loop does not go on to the next event.
ProcessStays(t, e) ==
  /\ pc[t] = "proc"
  /\ e \in left[t] \ {EXIT}
  /\ enable' = IF sharing = "legacy" THEN [enable EXCEPT ![t] = @ \cup {e}] ELSE enable
  /\ UNCHANGED <<sharing, knote, got, exiting, pc, kev, left, stop, cnt, main>>

\* One round of the loop over the returned events.
Process(t, e) ==
  /\ pc[t] = "proc"
  /\ e \in left[t]
  /\ left' = [left EXCEPT ![t] = @ \ {e}]
  /\ IF e # EXIT
     THEN /\ cnt' = [cnt EXCEPT ![t] = IF @ < MaxCnt THEN @ + 1 ELSE @]
          /\ enable' = IF sharing = "legacy" THEN [enable EXCEPT ![t] = @ \cup {e}] ELSE enable
          /\ UNCHANGED stop
     ELSE /\ stop' = [stop EXCEPT ![t] = TRUE]
          /\ UNCHANGED <<cnt, enable>>
  /\ UNCHANGED <<sharing, knote, got, exiting, pc, kev, main>>

\* Mutation of EndRound: stop is never looked at again.
EndRoundNoStop(t) ==
  /\ pc[t] = "proc"
  /\ left[t] = {}
  /\ pc' = [pc EXCEPT ![t] = "call"]
  /\ UNCHANGED <<sharing, knote, got, exiting, kev, left, enable, stop, cnt, main>>

\* The end of a round: call kevent again, or leave the thread.
EndRound(t) ==
  /\ pc[t] = "proc"
  /\ left[t] = {}
  /\ IF stop[t]
     THEN /\ pc' = [pc EXCEPT ![t] = "done"]
          /\ knote' = [e \in DOMAIN knote |->
               IF ExitFrees /\ knote[e] = "held" /\ got[e] = t THEN "enabled" ELSE knote[e]]
     ELSE pc' = [pc EXCEPT ![t] = "call"] /\ UNCHANGED knote
  /\ UNCHANGED <<sharing, got, exiting, kev, left, enable, stop, cnt, main>>

\* main: the sleep is over, the counters are added up, the exit pipe written.
Stop ==
  /\ main = "sleep"
  /\ main' = "join"
  /\ exiting' = TRUE
  /\ UNCHANGED <<sharing, knote, got, pc, kev, left, enable, stop, cnt>>

Join ==
  /\ main = "join"
  /\ \A t \in Threads : pc[t] = "done"
  /\ main' = "done"
  /\ UNCHANGED <<sharing, knote, got, exiting, pc, kev, left, enable, stop, cnt>>

-----------------------------------------------------------------------------
Init ==
  /\ sharing \in {"multi", "legacy", "skq"}
  /\ knote = [e \in Pipes \cup {EXIT} |-> "enabled"]
  /\ got = [e \in Pipes \cup {EXIT} |-> 0]
  /\ exiting = FALSE
  /\ pc = [t \in Threads |-> "call"]
  /\ kev = [t \in Threads |-> {}]
  /\ left = [t \in Threads |-> {}]
  /\ enable = [t \in Threads |-> {}]
  /\ stop = [t \in Threads |-> FALSE]
  /\ cnt = [t \in Threads |-> 0]
  /\ main = "sleep"

ThreadStep(t) ==
  \/ KeventEnter(t) \/ EndRound(t)
  \/ \E e \in left[t] : Process(t, e)
  \/ \E S \in SUBSET (Pipes \cup {EXIT}) : KeventReturn(t, S)

Next == Stop \/ Join \/ \E t \in Threads : ThreadStep(t)

Spec == Init /\ [][Next]_vars

\* Threads run, the sleep ends, and a kqueue is a queue: an event that stays
\* ready is returned to a thread that keeps asking.
Fairness ==
  /\ WF_vars(Stop) /\ WF_vars(Join)
  /\ \A t \in Threads :
       /\ WF_vars(ThreadStep(t))
       /\ \A e \in Pipes \cup {EXIT} :
            SF_vars(\E S \in SUBSET (Pipes \cup {EXIT}) : e \in S /\ KeventReturn(t, S))

FairSpec == Spec /\ Fairness

-----------------------------------------------------------------------------
(* Properties *)

\* The values of the variables of the threads and of main.
TypeOK ==
  /\ sharing \in {"multi", "legacy", "skq"}
  /\ knote \in [Pipes \cup {EXIT} -> {"enabled", "disabled", "held"}]
  /\ got \in [Pipes \cup {EXIT} -> Threads]
  /\ exiting \in BOOLEAN
  /\ pc \in [Threads -> {"call", "wait", "proc", "done"}]
  /\ \A t \in Threads : left[t] \subseteq kev[t] /\ enable[t] \subseteq kev[t] \ left[t]
  /\ kev \in [Threads -> SUBSET (Pipes \cup {EXIT})]
  /\ stop \in [Threads -> BOOLEAN]
  /\ cnt \in [Threads -> 0..MaxCnt]
  /\ main \in {"sleep", "join", "done"}

\* Two threads never process the same pipe's event at the same time.
OneThread ==
  \A t, u \in Threads : t # u => left[t] \cap left[u] \cap Pipes = {}

\* While the benchmark runs, a pipe that kevent does not return is one that a
\* thread is working on or gives back with its next call: no load is lost.
LoadKept ==
  ~exiting => \A e \in Pipes : knote[e] # "enabled" =>
    LET t == got[e] IN
    \/ pc[t] = "proc" /\ e \in left[t] \cup enable[t]
    \/ pc[t] = "call" /\ e \in enable[t]
    \/ knote[e] = "held" /\ pc[t] \in {"proc", "call"}

\* After the exit pipe is written every thread stops and main joins them.
Exits == <>(main = "done")
=============================================================================

--------------------------- MODULE EvCompatProof ---------------------------
(* Proofs about EvCompat for any number of threads, callers and events, any *)
(* batch length and both kinds of kqueue.                                   *)
EXTENDS EvCompat, SequenceTheorems, TLAPS

-----------------------------------------------------------------------------
(* Type correctness and the shape of the batches *)

\* The batch kevent() returns is a sequence of events and idents.
LEMMA BatchSeq ==
  ASSUME NEW n \in Nat, NEW b \in [1..n -> Events], NEW f \in [Events -> Int]
  PROVE  LET s == [i \in 1..n |-> [ev |-> b[i], ident |-> f[b[i]]]]
         IN  s \in Seq([ev : Events, ident : Int]) /\ Len(s) = n
<1>1. [i \in 1..n |-> [ev |-> b[i], ident |-> f[b[i]]]] \in [1..n -> [ev : Events, ident : Int]]
  OBVIOUS
<1> QED  BY <1>1, SeqDef

TypeInv == TypeOK /\ BatchOK

\* The type invariant holds initially.
LEMMA InitType == Init => TypeInv
<1> SUFFICES ASSUME Init PROVE TypeInv
  OBVIOUS
<1>1. (CHOOSE e \in Events : TRUE) \in Events
  BY ConstAssumption
<1>2. evlist \in [Loopers -> Seq([ev : Events, ident : Int])] /\ epochs \in [Loopers -> Seq(Nat)]
  BY DEF Init
<1>3. kev \in [Threads -> [ev : Events, ident : Int]]
  BY <1>1 DEF Init, Unset
<1>4. TypeOK
  BY <1>2, <1>3, ConstAssumption DEF Init, TypeOK, PCs
<1>5. BatchOK
  BY ConstAssumption DEF Init, BatchOK, BatchShape, Threads, HandlerPCs
<1> QED  BY <1>4, <1>5 DEF TypeInv

\* The event a looper works on is an event.
LEMMA CurrentEvent ==
  ASSUME TypeInv, NEW t \in Loopers, pc[t] \in HandlerPCs \cup {"mark", "complete"}
  PROVE  /\ Current(t) \in Events
         /\ idx[t] \in 1..Len(evlist[t])
         /\ Len(evlist[t]) \in Nat
         /\ evlist[t] \in Seq([ev : Events, ident : Int])
         /\ epochs[t] \in Seq(Nat)
<1>1. evlist[t] \in Seq([ev : Events, ident : Int]) /\ idx[t] \in Nat \ {0} /\ epochs[t] \in Seq(Nat)
  BY DEF TypeInv, TypeOK
<1>2. idx[t] \in 1..Len(evlist[t])
  BY <1>1 DEF TypeInv, BatchOK, BatchShape
<1>3. evlist[t][idx[t]] \in [ev : Events, ident : Int]
  BY <1>1, <1>2, ElementOfSeq
<1> QED  BY <1>1, <1>2, <1>3 DEF Current

\* A step that leaves a looper in the same phase of the same batch keeps the
\* shape of the batch.
SamePhase(t) ==
  /\ evlist'[t] = evlist[t] /\ epochs'[t] = epochs[t] /\ idx'[t] = idx[t]
  /\ \/ pc'[t] = pc[t]
     \/ pc[t] \in HandlerPCs /\ pc'[t] \in HandlerPCs
     \/ pc'[t] \in {"kevent", "wait", "enable", "unlock"}

\* BatchShape depends only on the looper's own locals.
LEMMA ShapeFrame ==
  ASSUME NEW t, BatchShape(t), SamePhase(t)
  PROVE  BatchShape(t)'
BY DEF BatchShape, SamePhase, HandlerPCs

\* A looper whose locals do not change, and whose pc stays in its phase, keeps
\* the shape of its batch.
LEMMA PhaseFrame ==
  ASSUME BatchOK, \A t \in Loopers : SamePhase(t)
  PROVE  BatchOK'
BY ShapeFrame DEF BatchOK

\* A thread that moves inside its handler, or that is no looper, disturbs no
\* batch.
LEMMA MoveFrame ==
  ASSUME BatchOK, pc \in [Threads -> PCs], NEW t \in Threads, NEW p,
         pc' = [pc EXCEPT ![t] = p], UNCHANGED <<evlist, epochs, idx>>,
         t \in Loopers => pc[t] \in HandlerPCs /\ p \in HandlerPCs
  PROVE  (\A u \in Loopers : SamePhase(u)) /\ BatchOK'
<1>1. ASSUME NEW u \in Loopers PROVE SamePhase(u)
  <2>1. u \in Threads
    BY DEF Threads
  <2>2. CASE u = t
    BY <2>2 DEF SamePhase
  <2>3. CASE u # t
    BY <2>1, <2>3 DEF SamePhase
  <2> QED  BY <2>2, <2>3
<1> QED  BY <1>1, PhaseFrame

\* Advancing the loop index keeps its type.
LEMMA NextIndex ==
  ASSUME NEW t \in Loopers, idx \in [Loopers -> Nat \ {0}], NEW c \in BOOLEAN,
         idx' = [idx EXCEPT ![t] = IF c THEN 1 ELSE @ + 1]
  PROVE  idx' \in [Loopers -> Nat \ {0}]
<1>1. idx[t] \in Nat \ {0} /\ (IF c THEN 1 ELSE idx[t] + 1) \in Nat \ {0}
  OBVIOUS
<1> QED  BY <1>1

\* Waiting in kevent and receiving a batch keep the type invariant.
LEMMA KeventType ==
  ASSUME TypeInv, UNCHANGED MULT_KQ, NEW t \in Loopers, KeventEnter(t) \/ KeventReturn(t)
  PROVE  TypeInv'
<1>0. t \in Threads
  BY DEF Threads
<1>1. CASE KeventEnter(t)
  <2>1. TypeOK'
    BY <1>0, <1>1 DEF KeventEnter, TypeInv, TypeOK, PCs, evvars, knvars, iovars, loopvars
  <2>2. BatchOK'
    BY <1>0, <1>1, PhaseFrame DEF KeventEnter, SamePhase, TypeInv, TypeOK, loopvars
  <2> QED  BY <2>1, <2>2 DEF TypeInv
<1>2. CASE KeventReturn(t)
  <2>1. PICK n \in 1..NEVENT : \E b \in [1..n -> Ready] : Deliver(t, n, b)
    BY <1>2 DEF KeventReturn
  <2>2. PICK b \in [1..n -> Ready] : Deliver(t, n, b)
    BY <2>1
  <2>3. n \in Nat \ {0} /\ b \in [1..n -> Events]
    BY ConstAssumption DEF Ready
  <2> DEFINE s == [i \in 1..n |-> [ev |-> b[i], ident |-> knIdent[b[i]]]]
  <2>4. s \in Seq([ev : Events, ident : Int]) /\ Len(s) = n
    BY <2>3, BatchSeq DEF TypeInv, TypeOK
  <2>5. evlist' = [evlist EXCEPT ![t] = s]
    BY <2>2 DEF Deliver
  <2>6. \A i, j \in 1..n : s[i].ev = s[j].ev => i = j
    BY <2>2 DEF Deliver
  <2> HIDE DEF s
  <2>7. evlist' \in [Loopers -> Seq([ev : Events, ident : Int])]
    BY <2>4, <2>5 DEF TypeInv, TypeOK
  <2>8. epochs' \in [Loopers -> Seq(Nat)] /\ idx' \in [Loopers -> Nat \ {0}]
        /\ enlist' \in [Loopers -> SUBSET Nat] /\ pc' \in [Threads -> PCs]
    BY <1>0, <2>2 DEF Deliver, TypeInv, TypeOK, PCs
  <2>9. TypeOK'
    BY <2>2, <2>7, <2>8 DEF Deliver, TypeInv, TypeOK, evvars, iovars
  <2>10. BatchShape(t)'
    <3>1. evlist'[t] = s /\ epochs'[t] = <<>> /\ idx'[t] = 1 /\ pc'[t] = "mark"
      BY <1>0, <2>2, <2>5 DEF Deliver, TypeInv, TypeOK
    <3> QED  BY <2>3, <2>4, <2>6, <3>1 DEF BatchShape, HandlerPCs
  <2>11. \A u \in Loopers \ {t} : SamePhase(u)
    BY <1>0, <2>2 DEF Deliver, SamePhase, TypeInv, TypeOK
  <2>12. BatchOK'
    BY <2>10, <2>11, ShapeFrame DEF TypeInv, BatchOK
  <2> QED  BY <2>9, <2>12 DEF TypeInv
<1> QED  BY <1>1, <1>2

\* Marking an event active, or failing to, keeps the type invariant.
LEMMA MarkType ==
  ASSUME TypeInv, UNCHANGED MULT_KQ, NEW t \in Loopers, Mark(t) \/ MarkFails(t)
  PROVE  TypeInv'
<1>0. t \in Threads
  BY DEF Threads
<1>1. CASE Mark(t)
  <2>1. /\ Current(t) \in Events /\ idx[t] \in 1..Len(evlist[t])
        /\ Len(evlist[t]) \in Nat /\ epochs[t] \in Seq(Nat)
    BY <1>1, CurrentEvent DEF Mark
  <2>2. /\ Append(epochs[t], epoch[Current(t)]) \in Seq(Nat)
        /\ Len(Append(epochs[t], epoch[Current(t)])) = Len(epochs[t]) + 1
    BY <2>1, AppendProperties DEF TypeInv, TypeOK
  <2>3. epochs' = [epochs EXCEPT ![t] = Append(epochs[t], epoch[Current(t)])]
    BY <1>1 DEF Mark
  <2>4. epochs' \in [Loopers -> Seq(Nat)]
    BY <2>2, <2>3 DEF TypeInv, TypeOK
  <2>a. state' \in [Events -> SUBSET {"ACTIVE", "PENDING"}]
    BY <1>1, <2>1 DEF Mark, TypeInv, TypeOK
  <2>b. owner' \in [Events -> Loopers \cup {NULL}]
    BY <1>1, <2>1 DEF Mark, TypeInv, TypeOK
  <2>c. idx' \in [Loopers -> Nat \ {0}]
    <3>1. idx' = [idx EXCEPT ![t] = IF idx[t] = Len(evlist[t]) THEN 1 ELSE @ + 1]
      BY <1>1 DEF Mark
    <3>2. idx \in [Loopers -> Nat \ {0}]
      BY DEF TypeInv, TypeOK
    <3> QED  BY <3>1, <3>2, NextIndex
  <2>d. pc' \in [Threads -> PCs]
    BY <1>0, <1>1 DEF Mark, TypeInv, TypeOK, PCs
  <2>5. TypeOK'
    BY <1>1, <2>4, <2>a, <2>b, <2>c, <2>d DEF Mark, TypeInv, TypeOK, knvars, iovars
  <2>6. BatchShape(t)'
    <3>1. /\ evlist'[t] = evlist[t]
          /\ Len(epochs'[t]) = Len(epochs[t]) + 1
          /\ pc[t] = "mark"
          /\ idx[t] = Len(evlist[t]) => pc'[t] = "run" /\ idx'[t] = 1
          /\ idx[t] # Len(evlist[t]) => pc'[t] = "mark" /\ idx'[t] = idx[t] + 1
      BY <1>0, <1>1, <2>2, <2>3 DEF Mark, TypeInv, TypeOK
    <3>2. BatchShape(t)
      BY DEF TypeInv, BatchOK
    <3>3. /\ Len(epochs[t]) = idx[t] - 1 /\ Len(epochs[t]) \in Nat /\ idx[t] \in Nat
          /\ \A i, j \in 1..Len(evlist'[t]) : evlist'[t][i].ev = evlist'[t][j].ev => i = j
      BY <2>1, <3>1, <3>2 DEF BatchShape
    <3>4. CASE idx[t] = Len(evlist[t])
      BY <2>1, <3>1, <3>3, <3>4 DEF BatchShape, HandlerPCs
    <3>5. CASE idx[t] # Len(evlist[t])
      <4>1. idx'[t] <= Len(evlist'[t]) /\ Len(epochs'[t]) = idx'[t] - 1 /\ pc'[t] = "mark"
        BY <2>1, <3>1, <3>3, <3>5
      <4> QED  BY <3>3, <4>1 DEF BatchShape, HandlerPCs
    <3> QED  BY <3>4, <3>5
  <2>7. \A u \in Loopers \ {t} : SamePhase(u)
    BY <1>0, <1>1 DEF Mark, SamePhase, TypeInv, TypeOK
  <2> QED  BY <2>5, <2>6, <2>7, ShapeFrame DEF TypeInv, BatchOK
<1>2. CASE MarkFails(t)
  <2>1. MarkAsserts(t) \in {"none", "fd", "active"}
    BY DEF MarkAsserts
  <2>2. TypeOK'
    BY <1>2, <2>1 DEF MarkFails, TypeInv, TypeOK, PCs, evvars, knvars, iovars, loopvars
  <2>3. BatchOK'
    BY <1>2, PhaseFrame DEF MarkFails, SamePhase, TypeInv, loopvars
  <2> QED  BY <2>2, <2>3 DEF TypeInv
<1> QED  BY <1>1, <1>2

\* What a handler does before it calls into the library keeps the type invariant.
LEMMA HandlerType ==
  ASSUME TypeInv, UNCHANGED MULT_KQ, NEW t \in Loopers,
         HandlerReturn(t) \/ HandlerDel(t) \/ HandlerReadd(t) \/ HandlerAddOther(t)
  PROVE  TypeInv'
<1>0. t \in Threads
  BY DEF Threads
<1>r. ASSUME NEW e \in Events, ReadFd(e) PROVE unread' \in [Events -> Nat] /\ budget' = budget
  <2>1. unread \in [Events -> Nat] /\ unread[e] \in Nat
    BY DEF TypeInv, TypeOK
  <2> QED  BY <1>r, <2>1 DEF ReadFd
<1>1. CASE HandlerReturn(t)
  <2>1. Current(t) \in Events /\ idx[t] \in 1..Len(evlist[t]) /\ Len(evlist[t]) \in Nat
    BY <1>1, CurrentEvent DEF HandlerReturn, HandlerPCs
  <2>2. unread' \in [Events -> Nat] /\ budget' = budget
    BY <1>1, <1>r, <2>1 DEF HandlerReturn, iovars, TypeInv, TypeOK
  <2>a. idx' \in [Loopers -> Nat \ {0}]
    <3>1. idx' = [idx EXCEPT ![t] = IF idx[t] = Len(evlist[t]) THEN 1 ELSE @ + 1]
      BY <1>1 DEF HandlerReturn
    <3>2. idx \in [Loopers -> Nat \ {0}]
      BY DEF TypeInv, TypeOK
    <3> QED  BY <3>1, <3>2, NextIndex
  <2>b. pc' \in [Threads -> PCs]
    BY <1>0, <1>1 DEF HandlerReturn, TypeInv, TypeOK, PCs
  <2>3. TypeOK'
    BY <1>1, <2>2, <2>a, <2>b DEF HandlerReturn, TypeInv, TypeOK, evvars, knvars
  <2>4. BatchShape(t)'
    <3>1. /\ evlist'[t] = evlist[t] /\ epochs'[t] = epochs[t] /\ pc[t] \in HandlerPCs
          /\ idx[t] = Len(evlist[t]) => pc'[t] = "complete" /\ idx'[t] = 1
          /\ idx[t] # Len(evlist[t]) => pc'[t] = "run" /\ idx'[t] = idx[t] + 1
      BY <1>0, <1>1 DEF HandlerReturn, TypeInv, TypeOK, HandlerPCs
    <3>2. BatchShape(t)
      BY DEF TypeInv, BatchOK
    <3> QED  BY <2>1, <3>1, <3>2 DEF BatchShape, HandlerPCs
  <2>5. \A u \in Loopers \ {t} : SamePhase(u)
    BY <1>0, <1>1 DEF HandlerReturn, SamePhase, TypeInv, TypeOK
  <2> QED  BY <2>3, <2>4, <2>5, ShapeFrame DEF TypeInv, BatchOK
<1>2. CASE HandlerDel(t)
  <2>1. unread' \in [Events -> Nat] /\ budget' = budget
    <3>1. Current(t) \in Events
      BY <1>2, CurrentEvent DEF HandlerDel, HandlerPCs
    <3> QED  BY <1>2, <1>r, <3>1 DEF HandlerDel
  <2>2. PICK e \in Events : kev' = [kev EXCEPT ![t] = [ev |-> e, ident |-> Unset]]
    BY <1>2 DEF HandlerDel
  <2>a. kev' \in [Threads -> [ev : Events, ident : Int]]
    BY <1>0, <2>2 DEF Unset, TypeInv, TypeOK
  <2>b. pc' \in [Threads -> PCs]
    BY <1>0, <1>2 DEF HandlerDel, TypeInv, TypeOK, PCs
  <2>3. TypeOK'
    BY <1>2, <2>1, <2>a, <2>b DEF HandlerDel, TypeInv, TypeOK, evvars, knvars, loopvars
  <2>4. BatchOK'
    BY <1>0, <1>2, PhaseFrame DEF HandlerDel, SamePhase, TypeInv, TypeOK, HandlerPCs, loopvars
  <2> QED  BY <2>3, <2>4 DEF TypeInv
<1>3. CASE HandlerReadd(t)
  <2>1. kev[t].ev \in Events
    BY <1>0 DEF TypeInv, TypeOK
  <2>2. PICK n \in (IF kev[t].ev \in TimerEvents THEN {Unset} ELSE Filters) :
           \/ failed' = "set" /\ UNCHANGED <<ident, kev, pc>>
           \/ /\ ident' = [ident EXCEPT ![kev[t].ev] = n]
              /\ kev' = [kev EXCEPT ![t] = [ev |-> kev[t].ev, ident |-> n]]
              /\ pc' = [pc EXCEPT ![t] = "addchk"]
              /\ UNCHANGED failed
    BY <1>3 DEF HandlerReadd
  <2>3. n \in Int
    BY DEF Unset, Filters
  <2>a. ident' \in [Events -> Int]
    BY <2>1, <2>2, <2>3 DEF TypeInv, TypeOK
  <2>b. kev' \in [Threads -> [ev : Events, ident : Int]]
    <3>1. [ev |-> kev[t].ev, ident |-> n] \in [ev : Events, ident : Int]
      BY <2>1, <2>3
    <3>2. kev' = kev \/ kev' = [kev EXCEPT ![t] = [ev |-> kev[t].ev, ident |-> n]]
      BY <2>2
    <3>3. kev \in [Threads -> [ev : Events, ident : Int]]
      BY DEF TypeInv, TypeOK
    <3> HIDE DEF Threads
    <3> QED  BY <1>0, <3>1, <3>2, <3>3
  <2>c. pc' \in [Threads -> PCs]
    BY <1>0, <2>2 DEF TypeInv, TypeOK, PCs
  <2>d. failed' \in {"none", "fd", "active", "set", "del", "enable"}
    BY <2>2 DEF TypeInv, TypeOK
  <2>5. TypeOK'
    BY <1>3, <2>a, <2>b, <2>c, <2>d DEF HandlerReadd, TypeInv, TypeOK, knvars, iovars, loopvars
  <2>6. BatchOK'
    <3>1. pc[t] = "changed" /\ UNCHANGED <<evlist, epochs, idx>> /\ pc \in [Threads -> PCs]
      BY <1>3 DEF HandlerReadd, loopvars, TypeInv, TypeOK
    <3>2. CASE pc' = pc
      BY <3>1, <3>2, PhaseFrame DEF SamePhase, TypeInv
    <3>3. CASE pc' = [pc EXCEPT ![t] = "addchk"]
      BY <1>0, <3>1, <3>3, MoveFrame DEF TypeInv, HandlerPCs
    <3> QED  BY <2>2, <3>2, <3>3
  <2> QED  BY <2>5, <2>6 DEF TypeInv
<1>4. CASE HandlerAddOther(t)
  <2>1. unread' \in [Events -> Nat] /\ budget' = budget
    <3>1. Current(t) \in Events
      BY <1>4, CurrentEvent DEF HandlerAddOther, HandlerPCs
    <3> QED  BY <1>4, <1>r, <3>1 DEF HandlerAddOther
  <2>2. PICK e \in Events : kev' = [kev EXCEPT ![t] = [ev |-> e, ident |-> ident[e]]]
    BY <1>4 DEF HandlerAddOther
  <2>a. kev' \in [Threads -> [ev : Events, ident : Int]]
    BY <1>0, <2>2 DEF TypeInv, TypeOK
  <2>b. pc' \in [Threads -> PCs]
    BY <1>0, <1>4 DEF HandlerAddOther, TypeInv, TypeOK, PCs
  <2>3. TypeOK'
    BY <1>4, <2>1, <2>a, <2>b DEF HandlerAddOther, TypeInv, TypeOK, evvars, knvars, loopvars
  <2>4. BatchOK'
    BY <1>0, <1>4, PhaseFrame
    DEF HandlerAddOther, SamePhase, TypeInv, TypeOK, HandlerPCs, loopvars
  <2> QED  BY <2>3, <2>4 DEF TypeInv
<1> QED  BY <1>1, <1>2, <1>3, <1>4

\* What pthread_cond_signal does to the threads: at most one waiter wakes.
LEMMA SignalledPc ==
  ASSUME pc \in [Threads -> PCs], NEW t \in Threads, NEW q \in PCs, NEW e,
         pc[t] # "delwait", Signalled([pc EXCEPT ![t] = q], e)
  PROVE  /\ pc' \in [Threads -> PCs]
         /\ pc'[t] = q
         /\ \A u \in Threads \ {t} :
              pc'[u] = pc[u] \/ (pc[u] = "delwait" /\ pc'[u] = "delretry")
<1>1. CASE pc' = [pc EXCEPT ![t] = q]
  BY <1>1
<1>2. CASE \E u \in {u \in Threads : pc[u] = "delwait" /\ kev[u].ev = e} :
              pc' = [[pc EXCEPT ![t] = q] EXCEPT ![u] = "delretry"]
  BY <1>2 DEF PCs
<1> QED  BY <1>1, <1>2 DEF Signalled

\* Completing an event keeps the type invariant.
LEMMA CompleteType ==
  ASSUME TypeInv, UNCHANGED MULT_KQ, NEW t \in Loopers, Complete(t)
  PROVE  TypeInv'
<1> DEFINE e == Current(t)
           last == idx[t] = Len(evlist[t])
           q == IF last THEN "enable" ELSE "complete"
<1>0. t \in Threads /\ pc[t] = "complete"
  BY DEF Threads, Complete
<1>1. e \in Events /\ idx[t] \in 1..Len(evlist[t]) /\ Len(evlist[t]) \in Nat
  BY <1>0, CurrentEvent
<1>2. /\ pc' \in [Threads -> PCs] /\ pc'[t] = q
      /\ \A u \in Threads \ {t} :
           pc'[u] = pc[u] \/ (pc[u] = "delwait" /\ pc'[u] = "delretry")
  <2>1. Signalled([pc EXCEPT ![t] = q], e) /\ q \in PCs /\ pc \in [Threads -> PCs]
    BY DEF Complete, PCs, TypeInv, TypeOK
  <2> HIDE DEF q, e
  <2> QED  BY <1>0, <2>1, SignalledPc
<1>3. idx' = [idx EXCEPT ![t] = IF last THEN 1 ELSE @ + 1] /\ idx \in [Loopers -> Nat \ {0}]
  BY DEF Complete, TypeInv, TypeOK
<1>4. idx' \in [Loopers -> Nat \ {0}]
  BY <1>3, NextIndex
<1>5. \/ CompleteCurrent(t, e)
      \/ UNCHANGED <<state, owner, enlist, kn, failed>>
  BY DEF Complete
<1>6. lk' \in [Events -> Loopers \cup {NULL}]
  BY <1>1 DEF Complete, TypeInv, TypeOK
<1>7. state' \in [Events -> SUBSET {"ACTIVE", "PENDING"}]
  <2>1. state' = state \/ state' = [state EXCEPT ![e] = {}]
        \/ state' = [state EXCEPT ![e] = state[e] \ {"ACTIVE"}]
    BY <1>5 DEF CompleteCurrent
  <2>2. state \in [Events -> SUBSET {"ACTIVE", "PENDING"}]
    BY DEF TypeInv, TypeOK
  <2> QED  BY <1>1, <2>1, <2>2
<1>8. owner' \in [Events -> Loopers \cup {NULL}]
  BY <1>1, <1>5 DEF CompleteCurrent, TypeInv, TypeOK
<1>9. kn' \in [Events -> {"none", "armed", "held"}]
  BY <1>1, <1>5 DEF CompleteCurrent, TypeInv, TypeOK
<1>10. failed' \in {"none", "fd", "active", "set", "del", "enable"}
  BY <1>5 DEF CompleteCurrent, TypeInv, TypeOK
<1>11. enlist' \in [Loopers -> SUBSET Nat]
  <2>1. enlist \in [Loopers -> SUBSET Nat] /\ enlist[t] \cup {idx[t]} \in SUBSET Nat
    BY <1>1 DEF TypeInv, TypeOK
  <2>2. enlist' = enlist \/ enlist' = [enlist EXCEPT ![t] = enlist[t] \cup {idx[t]}]
    BY <1>5 DEF CompleteCurrent
  <2> QED  BY <2>1, <2>2
<1>12. TypeOK'
  BY <1>2, <1>4, <1>6, <1>7, <1>8, <1>9, <1>10, <1>11
  DEF Complete, TypeInv, TypeOK, iovars
<1>13. BatchShape(t)'
  <2>1. /\ evlist'[t] = evlist[t] /\ epochs'[t] = epochs[t]
        /\ last => pc'[t] = "enable" /\ idx'[t] = 1
        /\ ~last => pc'[t] = "complete" /\ idx'[t] = idx[t] + 1
    BY <1>2, <1>3 DEF Complete
  <2>2. BatchShape(t)
    BY DEF TypeInv, BatchOK
  <2> QED  BY <1>0, <1>1, <2>1, <2>2 DEF BatchShape, HandlerPCs
<1>14. ASSUME NEW u \in Loopers \ {t} PROVE SamePhase(u)
  <2>1. u \in Threads \ {t}
    BY DEF Threads
  <2>2. pc'[u] = pc[u] \/ (pc[u] \in HandlerPCs /\ pc'[u] \in HandlerPCs)
    BY <1>2, <2>1 DEF HandlerPCs
  <2>3. evlist'[u] = evlist[u] /\ epochs'[u] = epochs[u] /\ idx'[u] = idx[u]
    BY <1>3 DEF Complete
  <2> QED  BY <2>2, <2>3 DEF SamePhase
<1> QED  BY <1>12, <1>13, <1>14, ShapeFrame DEF TypeInv, BatchOK

\* Re-enabling and unlocking the batch keep the type invariant.
LEMMA EnableUnlockType ==
  ASSUME TypeInv, UNCHANGED MULT_KQ, NEW t \in Loopers, Enable(t) \/ Unlock(t)
  PROVE  TypeInv'
<1>0. t \in Threads /\ pc \in [Threads -> PCs]
  BY DEF Threads, TypeInv, TypeOK
<1>1. CASE Enable(t)
  <2>1. pc' \in [Threads -> PCs] /\ pc'[t] = "unlock" /\ \A u \in Loopers \ {t} : pc'[u] = pc[u]
    BY <1>0, <1>1 DEF Enable, PCs, Threads
  <2>2. kn' \in [Events -> {"none", "armed", "held"}]
    BY <1>1 DEF Enable, TypeInv, TypeOK
  <2>3. failed' \in {"none", "fd", "active", "set", "del", "enable"}
    BY <1>1 DEF Enable, TypeInv, TypeOK
  <2>4. TypeOK'
    BY <1>1, <2>1, <2>2, <2>3 DEF Enable, TypeInv, TypeOK, evvars, iovars, loopvars
  <2>5. \A u \in Loopers : SamePhase(u)
    BY <1>1, <2>1 DEF Enable, SamePhase, loopvars
  <2> QED  BY <2>4, <2>5, PhaseFrame DEF TypeInv
<1>2. CASE Unlock(t)
  <2>1. pc' \in [Threads -> PCs] /\ pc'[t] = "kevent" /\ \A u \in Loopers \ {t} : pc'[u] = pc[u]
    BY <1>0, <1>2 DEF Unlock, PCs, Threads
  <2>2. lk' \in [Events -> Loopers \cup {NULL}]
    BY <1>2 DEF Unlock, TypeInv, TypeOK
  <2>3. /\ evlist' \in [Loopers -> Seq([ev : Events, ident : Int])]
        /\ epochs' \in [Loopers -> Seq(Nat)]
        /\ enlist' \in [Loopers -> SUBSET Nat]
    <3>1. evlist \in [Loopers -> Seq([ev : Events, ident : Int])]
          /\ epochs \in [Loopers -> Seq(Nat)] /\ enlist \in [Loopers -> SUBSET Nat]
      BY DEF TypeInv, TypeOK
    <3>2. <<>> \in Seq([ev : Events, ident : Int]) /\ <<>> \in Seq(Nat) /\ {} \in SUBSET Nat
      BY EmptySeq
    <3>3. /\ evlist' = [evlist EXCEPT ![t] = <<>>] /\ epochs' = [epochs EXCEPT ![t] = <<>>]
          /\ enlist' = [enlist EXCEPT ![t] = {}]
      BY <1>2 DEF Unlock
    <3>4. evlist' \in [Loopers -> Seq([ev : Events, ident : Int])]
      BY <3>1, <3>2, <3>3
    <3>5. epochs' \in [Loopers -> Seq(Nat)]
      BY <3>1, <3>2, <3>3
    <3>6. enlist' \in [Loopers -> SUBSET Nat]
      BY <3>1, <3>2, <3>3
    <3> QED  BY <3>4, <3>5, <3>6
  <2>4. TypeOK'
    BY <1>2, <2>1, <2>2, <2>3 DEF Unlock, TypeInv, TypeOK, evvars, knvars, iovars
  <2>5. BatchShape(t)'
    <3>1. evlist'[t] = <<>>
      BY <1>2 DEF Unlock, TypeInv, TypeOK
    <3> QED  BY <2>1, <3>1 DEF BatchShape, HandlerPCs
  <2>6. \A u \in Loopers \ {t} : SamePhase(u)
    BY <1>2, <2>1 DEF Unlock, SamePhase, TypeInv, TypeOK
  <2> QED  BY <2>4, <2>5, <2>6, ShapeFrame DEF TypeInv, BatchOK
<1> QED  BY <1>1, <1>2

\* What adding or deleting an event does to its state, owner and epoch.
LEMMA ChangedType ==
  ASSUME TypeOK, NEW e \in Events, NEW s \in SUBSET {"ACTIVE", "PENDING"}, Changed(e, s)
  PROVE  /\ state' \in [Events -> SUBSET {"ACTIVE", "PENDING"}]
         /\ owner' \in [Events -> Loopers \cup {NULL}]
         /\ epoch' \in [Events -> Nat]
<1>1. state' \in [Events -> SUBSET {"ACTIVE", "PENDING"}]
  BY DEF Changed, TypeOK
<1>2. owner' \in [Events -> Loopers \cup {NULL}]
  BY DEF Changed, TypeOK
<1>3. epoch' \in [Events -> Nat]
  <2>1. epoch \in [Events -> Nat] /\ epoch[e] + 1 \in Nat
    BY DEF TypeOK
  <2>2. epoch' = epoch \/ epoch' = [epoch EXCEPT ![e] = epoch[e] + 1]
    BY DEF Changed
  <2> QED  BY <2>1, <2>2
<1> QED  BY <1>1, <1>2, <1>3

\* event_del keeps the type invariant.
LEMMA DelType ==
  ASSUME TypeInv, UNCHANGED MULT_KQ, NEW t \in Threads, pc[t] \in {"del", "delretry"},
         NEW k \in [ev : Events, ident : Int], DelBody(t, k)
  PROVE  TypeInv'
<1> DEFINE e == k.ev
<1>0. e \in Events /\ state[e] \ {"PENDING"} \in SUBSET {"ACTIVE", "PENDING"}
      /\ pc \in [Threads -> PCs] /\ TypeOK
  BY DEF TypeInv, TypeOK
<1>1. \E p \in {AfterDel(t, FALSE), AfterDel(t, TRUE), "delwait"} : pc' = [pc EXCEPT ![t] = p]
  BY DEF DelBody
<1>2. PICK p \in {AfterDel(t, FALSE), AfterDel(t, TRUE), "delwait"} : pc' = [pc EXCEPT ![t] = p]
  BY <1>1
<1>3. p \in PCs /\ (t \in Loopers => p \in HandlerPCs)
  BY ConstAssumption DEF AfterDel, PCs, HandlerPCs, Threads
<1>4. pc' \in [Threads -> PCs]
  BY <1>0, <1>2, <1>3
<1>5. /\ state' \in [Events -> SUBSET {"ACTIVE", "PENDING"}]
      /\ owner' \in [Events -> Loopers \cup {NULL}]
      /\ epoch' \in [Events -> Nat]
  <2>1. CASE Changed(e, state[e] \ {"PENDING"})
    BY <1>0, <2>1, ChangedType
  <2>2. CASE UNCHANGED <<state, owner, epoch>>
    BY <1>0, <2>2 DEF TypeOK
  <2> QED  BY <2>1, <2>2 DEF DelBody
<1>6. kn' \in [Events -> {"none", "armed", "held"}]
  <2>1. kn' = kn \/ kn' = [kn EXCEPT ![e] = "none"]
    BY DEF DelBody
  <2> QED  BY <1>0, <2>1 DEF TypeOK
<1>7. kev' \in [Threads -> [ev : Events, ident : Int]]
  BY <1>0 DEF DelBody, TypeOK
<1>8. TypeOK'
  BY <1>0, <1>4, <1>5, <1>6, <1>7 DEF DelBody, TypeOK, iovars, loopvars
<1>9. BatchOK'
  <2>1. UNCHANGED <<evlist, epochs, idx>> /\ BatchOK /\ (t \in Loopers => pc[t] \in HandlerPCs)
    BY DEF DelBody, loopvars, TypeInv, HandlerPCs
  <2> QED  BY <1>0, <1>2, <1>3, <2>1, MoveFrame
<1> QED  BY <1>8, <1>9 DEF TypeInv

\* Every step of event_add and event_del keeps the type invariant.
LEMMA ApiType ==
  ASSUME TypeInv, UNCHANGED MULT_KQ, NEW t \in Threads, ApiStep(t)
  PROVE  TypeInv'
<1>0. /\ TypeOK /\ BatchOK /\ pc \in [Threads -> PCs]
      /\ kev[t] \in [ev : Events, ident : Int] /\ kev[t].ev \in Events
      /\ kev \in [Threads -> [ev : Events, ident : Int]]
      /\ AfterAdd(t) \in PCs /\ (t \in Loopers => AfterAdd(t) \in HandlerPCs)
  BY ConstAssumption DEF TypeInv, TypeOK, AfterAdd, PCs, HandlerPCs
<1>1. CASE Del(t)
  <2>1. [ev |-> kev[t].ev, ident |-> ident[kev[t].ev]] \in [ev : Events, ident : Int]
    BY <1>0 DEF TypeOK
  <2> QED  BY <1>1, <2>1, DelType DEF Del
<1>2. CASE DelRetry(t)
  BY <1>0, <1>2, DelType DEF DelRetry
<1>3. CASE AddCheck(t)
  <2> DEFINE e == kev[t].ev
             n == IF e \in TimerEvents THEN timer_base ELSE ident[e]
  <2>1. n \in Int /\ timer_base \in Int /\ timer_base - 1 \in Int
        /\ [ev |-> e, ident |-> n] \in [ev : Events, ident : Int]
    BY <1>0 DEF TypeOK
  <2>2. timer_base' \in Int
    BY <1>3, <2>1 DEF AddCheck
  <2>3. ident' \in [Events -> Int]
    <3>1. ident' = ident \/ ident' = [ident EXCEPT ![e] = n]
      BY <1>3 DEF AddCheck
    <3> HIDE DEF n
    <3> QED  BY <1>0, <2>1, <3>1 DEF TypeOK
  <2>4. kev' \in [Threads -> [ev : Events, ident : Int]]
    <3>1. kev' = kev \/ kev' = [kev EXCEPT ![t] = [ev |-> e, ident |-> n]]
      BY <1>3 DEF AddCheck
    <3> HIDE DEF n, e
    <3> QED  BY <1>0, <2>1, <3>1
  <2>5. PICK p \in {AfterAdd(t), "add"} : pc' = [pc EXCEPT ![t] = p]
    BY <1>3 DEF AddCheck
  <2>6. pc' \in [Threads -> PCs]
    BY <1>0, <2>5 DEF PCs
  <2>7. TypeOK'
    BY <1>0, <1>3, <2>2, <2>3, <2>4, <2>6 DEF AddCheck, TypeOK, knvars, iovars, loopvars
  <2>8. BatchOK'
    <3>1. UNCHANGED <<evlist, epochs, idx>> /\ pc[t] \in HandlerPCs /\ "add" \in HandlerPCs
      BY <1>3 DEF AddCheck, loopvars, HandlerPCs
    <3> QED  BY <1>0, <2>5, <3>1, MoveFrame
  <2> QED  BY <2>7, <2>8 DEF TypeInv
<1>4. CASE AddCommit(t)
  <2> DEFINE e == kev[t].ev
  <2>1. state[e] \cup {"PENDING"} \in SUBSET {"ACTIVE", "PENDING"}
    BY <1>0 DEF TypeOK
  <2>2. /\ state' \in [Events -> SUBSET {"ACTIVE", "PENDING"}]
        /\ owner' \in [Events -> Loopers \cup {NULL}]
        /\ epoch' \in [Events -> Nat]
    BY <1>0, <1>4, <2>1, ChangedType DEF AddCommit
  <2>3. kn' \in [Events -> {"none", "armed", "held"}] /\ knIdent' \in [Events -> Int]
    BY <1>0, <1>4 DEF AddCommit, TypeOK
  <2>4. pc' = [pc EXCEPT ![t] = AfterAdd(t)]
    BY <1>4 DEF AddCommit
  <2>5. pc' \in [Threads -> PCs]
    BY <1>0, <2>4
  <2>6. TypeOK'
    BY <1>0, <1>4, <2>2, <2>3, <2>5 DEF AddCommit, TypeOK, iovars, loopvars
  <2>7. BatchOK'
    <3>1. UNCHANGED <<evlist, epochs, idx>> /\ pc[t] \in HandlerPCs
      BY <1>4 DEF AddCommit, loopvars, HandlerPCs
    <3> QED  BY <1>0, <2>4, <3>1, MoveFrame
  <2> QED  BY <2>6, <2>7 DEF TypeInv
<1>5. CASE AddFails(t)
  <2>1. pc' = [pc EXCEPT ![t] = AfterAdd(t)] /\ pc[t] \in HandlerPCs
        /\ UNCHANGED <<evlist, epochs, idx>>
    BY <1>5 DEF AddFails, loopvars, HandlerPCs
  <2>2. pc' \in [Threads -> PCs]
    BY <1>0, <2>1
  <2>3. TypeOK'
    BY <1>0, <1>5, <2>2 DEF AddFails, TypeOK, evvars, knvars, iovars, loopvars
  <2> QED  BY <1>0, <2>1, <2>3, MoveFrame DEF TypeInv
<1> QED  BY <1>1, <1>2, <1>3, <1>4, <1>5 DEF ApiStep

\* Threads outside the loop, wake-ups without a signal and arriving data.
OutsideStep ==
  \/ \E t \in Threads : SpuriousWake(t)
  \/ \E c \in Callers, e \in Events : CallDel(c, e)
  \/ \E c \in Callers, e \in Events : CallAdd(c, e)
  \/ \E e \in Events : Arrive(e)

\* So do spurious wakeups, new calls and arriving data.
LEMMA OutsideType ==
  ASSUME TypeInv, UNCHANGED MULT_KQ, OutsideStep
  PROVE  TypeInv'
<1>0. /\ TypeOK /\ BatchOK /\ pc \in [Threads -> PCs] /\ calls \in [Callers -> Nat]
      /\ kev \in [Threads -> [ev : Events, ident : Int]]
  BY DEF TypeInv, TypeOK
<1>1. ASSUME NEW t \in Threads, SpuriousWake(t) PROVE TypeInv'
  <2>1. /\ pc' = [pc EXCEPT ![t] = "delretry"] /\ UNCHANGED <<evlist, epochs, idx>>
        /\ pc[t] \in HandlerPCs /\ "delretry" \in HandlerPCs
    BY <1>1 DEF SpuriousWake, loopvars, HandlerPCs
  <2>2. pc' \in [Threads -> PCs]
    BY <1>0, <2>1 DEF PCs
  <2>3. TypeOK'
    BY <1>0, <1>1, <2>2 DEF SpuriousWake, TypeOK, evvars, knvars, iovars, loopvars
  <2> QED  BY <1>0, <2>1, <2>3, MoveFrame DEF TypeInv
<1>2. ASSUME NEW c \in Callers, NEW e \in Events, CallDel(c, e) \/ CallAdd(c, e) PROVE TypeInv'
  <2>1. c \in Threads /\ c \notin Loopers /\ calls[c] + 1 \in Nat /\ ident[e] \in Int
    <3>1. c \in Threads /\ c \notin Loopers
      BY ConstAssumption DEF Threads
    <3>2. calls[c] \in Nat
      BY <1>0
    <3>3. ident[e] \in Int
      BY <1>0 DEF TypeOK
    <3> QED  BY <3>1, <3>2, <3>3
  <2>2. PICK p \in {"del", "addchk"} : pc' = [pc EXCEPT ![c] = p]
    BY <1>2 DEF CallDel, CallAdd
  <2>3. pc' \in [Threads -> PCs]
    BY <1>0, <2>2 DEF PCs
  <2>4. PICK n \in Int : kev' = [kev EXCEPT ![c] = [ev |-> e, ident |-> n]]
    BY <1>2, <2>1 DEF CallDel, CallAdd, Unset
  <2>5. kev' \in [Threads -> [ev : Events, ident : Int]]
    <3>1. [ev |-> e, ident |-> n] \in [ev : Events, ident : Int]
      OBVIOUS
    <3> QED  BY <1>0, <2>4, <3>1
  <2>6. calls' \in [Callers -> Nat]
    <3>1. calls' = [calls EXCEPT ![c] = calls[c] + 1]
      BY <1>2 DEF CallDel, CallAdd
    <3> QED  BY <1>0, <2>1, <3>1
  <2>7. UNCHANGED <<evvars, lk, timer_base, knvars, iovars, loopvars, failed>>
    BY <1>2 DEF CallDel, CallAdd
  <2>8. TypeOK'
    BY <1>0, <2>3, <2>5, <2>6, <2>7 DEF TypeOK, evvars, knvars, iovars, loopvars
  <2>9. UNCHANGED <<evlist, epochs, idx>>
    BY <2>7 DEF loopvars
  <2> QED  BY <1>0, <2>1, <2>2, <2>8, <2>9, MoveFrame DEF TypeInv
<1>3. ASSUME NEW e \in Events, Arrive(e) PROVE TypeInv'
  <2>1. unread' \in [Events -> Nat] /\ budget' \in [Events -> Nat]
    <3>1. unread \in [Events -> Nat] /\ budget \in [Events -> Nat]
          /\ unread[e] + 1 \in Nat /\ (budget[e] > 0 => budget[e] - 1 \in Nat)
      BY <1>0 DEF TypeOK
    <3>2. /\ budget[e] > 0 /\ unread' = [unread EXCEPT ![e] = unread[e] + 1]
          /\ budget' = [budget EXCEPT ![e] = budget[e] - 1]
      BY <1>3 DEF Arrive
    <3> QED  BY <3>1, <3>2
  <2>2. TypeOK'
    BY <1>0, <1>3, <2>1 DEF Arrive, TypeOK, evvars, knvars, loopvars
  <2>3. \A t \in Loopers : SamePhase(t)
    BY <1>3 DEF Arrive, loopvars, SamePhase
  <2> QED  BY <1>0, <2>2, <2>3, PhaseFrame DEF TypeInv
<1> QED  BY <1>1, <1>2, <1>3 DEF OutsideStep

\* The type invariant is inductive.
LEMMA NextType == TypeInv /\ [Next]_vars => TypeInv'
<1> SUFFICES ASSUME TypeInv, [Next]_vars PROVE TypeInv'
  OBVIOUS
<1>1. CASE UNCHANGED vars
  <2>1. TypeOK'
    BY <1>1 DEF TypeInv, TypeOK, vars, evvars, knvars, iovars, loopvars
  <2>2. \A t \in Loopers : SamePhase(t)
    BY <1>1 DEF vars, loopvars, SamePhase
  <2> QED  BY <2>1, <2>2, PhaseFrame DEF TypeInv
<1>2. ASSUME NEW t \in Loopers, Running, LoopStep(t) PROVE TypeInv'
  BY <1>2, KeventType, MarkType, HandlerType, CompleteType, EnableUnlockType DEF LoopStep, Running
<1>3. ASSUME NEW t \in Threads, Running, ApiStep(t) PROVE TypeInv'
  BY <1>3, ApiType DEF Running
<1> QED  BY <1>1, <1>2, <1>3, OutsideType DEF Next, Running, OutsideStep

\* Type correctness, with what the provers need to see that active[i] and
\* epochs[i] exist whenever event_base_loop reads them.
THEOREM TypeCorrect == Spec => [](TypeOK /\ BatchOK)
<1>1. Init => TypeInv
  BY InitType
<1>2. TypeInv /\ [Next]_vars => TypeInv'
  BY NextType
<1>3. TypeInv => TypeOK /\ BatchOK
  BY DEF TypeInv
<1> QED  BY <1>1, <1>2, <1>3, PTL DEF Spec

-----------------------------------------------------------------------------
(* Ownership: the epoch test leaves each active event to one slot *)

OwnInv == LiveOwned /\ ActiveHasOwner

\* The slots a looper tracks, and what it recorded for them, are unchanged.
SlotsKept(t) ==
  /\ Tracked(t)' = Tracked(t)
  /\ \A i \in Tracked(t) : evlist'[t][i] = evlist[t][i] /\ epochs'[t][i] = epochs[t][i]

\* Ownership of live slots depends only on owners, epochs and tracked slots.
LEMMA OwnFrame ==
  ASSUME OwnInv, UNCHANGED <<state, owner, epoch>>, \A t \in Loopers : SlotsKept(t)
  PROVE  OwnInv'
<1>1. \A t \in Loopers : Live(t)' = Live(t)
  BY DEF Live, SlotsKept
<1>2. LiveOwned'
  BY <1>1 DEF OwnInv, LiveOwned, SlotsKept, Live
<1>3. ActiveHasOwner'
  BY <1>1 DEF OwnInv, ActiveHasOwner, SlotsKept, Live
<1> QED  BY <1>2, <1>3 DEF OwnInv

\* A looper that stays in its phase of its batch keeps its slots.
LEMMA PhaseSlots ==
  ASSUME NEW t, SamePhase(t),
         \/ pc'[t] = pc[t]
         \/ pc[t] \in HandlerPCs /\ pc'[t] \in HandlerPCs
  PROVE  SlotsKept(t)
BY DEF SamePhase, SlotsKept, Tracked, HandlerPCs

\* So does every looper when a thread moves inside its handler.
LEMMA MoveSlots ==
  ASSUME BatchOK, pc \in [Threads -> PCs], NEW t \in Threads, NEW p,
         pc' = [pc EXCEPT ![t] = p], UNCHANGED <<evlist, epochs, idx>>,
         t \in Loopers => pc[t] \in HandlerPCs /\ p \in HandlerPCs
  PROVE  \A u \in Loopers : SlotsKept(u)
<1>1. \A u \in Loopers : SamePhase(u)
  BY MoveFrame
<1>2. ASSUME NEW u \in Loopers
      PROVE  pc'[u] = pc[u] \/ (pc[u] \in HandlerPCs /\ pc'[u] \in HandlerPCs)
  <2>1. u \in Threads
    BY DEF Threads
  <2>2. CASE u = t
    BY <2>2
  <2>3. CASE u # t
    BY <2>1, <2>3
  <2> QED  BY <2>2, <2>3
<1> QED  BY <1>1, <1>2, PhaseSlots

\* Tracked slots hold events and have a recorded epoch.
LEMMA TrackedSlot ==
  ASSUME TypeInv, NEW t \in Loopers, NEW i \in Tracked(t)
  PROVE  evlist[t][i].ev \in Events /\ epochs[t][i] \in Nat
<1>1. evlist[t] \in Seq([ev : Events, ident : Int]) /\ epochs[t] \in Seq(Nat)
      /\ idx[t] \in Nat \ {0}
  BY DEF TypeInv, TypeOK
<1>2. i \in 1..Len(evlist[t]) /\ i \in 1..Len(epochs[t])
  BY <1>1 DEF Tracked, TypeInv, BatchOK, BatchShape, HandlerPCs
<1>3. evlist[t][i] \in [ev : Events, ident : Int]
  BY <1>1, <1>2, ElementOfSeq
<1>4. epochs[t][i] \in Nat
  BY <1>1, <1>2, ElementOfSeq
<1> QED  BY <1>3, <1>4

\* Adding or deleting an event moves its epoch past every recorded one when
\* it was active, and nobody tracked a live slot of it when it was not.
LEMMA ChangedOwn ==
  ASSUME TypeInv, OwnInv, NEW e \in Events, NEW s \in SUBSET {"ACTIVE", "PENDING"},
         Changed(e, s), \A t \in Loopers : SlotsKept(t)
  PROVE  OwnInv'
<1>0. /\ state \in [Events -> SUBSET {"ACTIVE", "PENDING"}]
      /\ owner \in [Events -> Loopers \cup {NULL}]
      /\ epoch \in [Events -> Nat]
  BY DEF TypeInv, TypeOK
<1>1. \A f \in Events \ {e} : state'[f] = state[f] /\ owner'[f] = owner[f] /\ epoch'[f] = epoch[f]
  BY <1>0 DEF Changed
<1>2. "ACTIVE" \notin state'[e] /\ epoch'[e] >= epoch[e]
      /\ ("ACTIVE" \in state[e] => epoch'[e] = epoch[e] + 1)
      /\ ("ACTIVE" \notin state[e] => epoch'[e] = epoch[e])
  BY <1>0 DEF Changed
<1>4. ASSUME NEW t \in Loopers, NEW i \in Tracked(t)'
      PROVE  /\ epochs'[t][i] <= epoch'[evlist'[t][i].ev]
             /\ epochs'[t][i] = epoch'[evlist'[t][i].ev] =>
                  /\ "ACTIVE" \in state'[evlist'[t][i].ev]
                  /\ owner'[evlist'[t][i].ev] = t
  <2> DEFINE f == evlist[t][i].ev
  <2>1. i \in Tracked(t) /\ evlist'[t][i] = evlist[t][i] /\ epochs'[t][i] = epochs[t][i]
    BY <1>4 DEF SlotsKept
  <2>2. f \in Events /\ epochs[t][i] \in Nat /\ epoch[f] \in Nat /\ epoch'[f] \in Int
    BY <1>0, <1>1, <1>2, <2>1, TrackedSlot
  <2>3. epochs[t][i] <= epoch[f]
    BY <2>1 DEF OwnInv, LiveOwned
  <2>4. epochs[t][i] = epoch[f] => "ACTIVE" \in state[f] /\ owner[f] = t
    BY <2>1 DEF OwnInv, LiveOwned, Live
  <2>5. CASE f # e
    BY <1>1, <2>1, <2>2, <2>3, <2>4, <2>5
  <2>6. CASE f = e
    BY <1>2, <2>1, <2>2, <2>3, <2>4, <2>6
  <2> QED  BY <2>5, <2>6
<1>5. LiveOwned'
  BY <1>4 DEF LiveOwned, Live
<1>6. ASSUME NEW f \in Events, "ACTIVE" \in state'[f]
      PROVE  \E t \in Loopers : owner'[f] = t /\ \E i \in Live(t)' : evlist'[t][i].ev = f
  <2>1. f # e /\ "ACTIVE" \in state[f] /\ owner'[f] = owner[f] /\ epoch'[f] = epoch[f]
    BY <1>1, <1>2, <1>6
  <2>2. PICK t \in Loopers : owner[f] = t /\ \E i \in Live(t) : evlist[t][i].ev = f
    BY <2>1 DEF OwnInv, ActiveHasOwner
  <2>3. PICK i \in Live(t) : evlist[t][i].ev = f
    BY <2>2
  <2>4. i \in Live(t)' /\ evlist'[t][i].ev = f
    BY <2>1, <2>3 DEF Live, SlotsKept
  <2> QED  BY <2>1, <2>2, <2>4
<1>7. ActiveHasOwner'
  BY <1>6 DEF ActiveHasOwner
<1> QED  BY <1>5, <1>7 DEF OwnInv

\* Marking tracks one more slot, under the event's current epoch.
LEMMA MarkSlots ==
  ASSUME TypeInv, NEW t \in Loopers, Mark(t)
  PROVE  /\ Current(t) \in Events /\ idx[t] \in 1..Len(evlist[t]) /\ Len(evlist[t]) \in Nat
         /\ Current(t) = evlist[t][idx[t]].ev
         /\ Tracked(t) = 1..(idx[t] - 1) /\ Tracked(t)' = 1..idx[t]
         /\ \A i \in 1..(idx[t] - 1) : epochs'[t][i] = epochs[t][i]
         /\ epochs'[t][idx[t]] = epoch[Current(t)]
         /\ idx[t] = Len(evlist[t]) => pc'[t] = "run"
         /\ idx[t] # Len(evlist[t]) => pc'[t] = "mark" /\ idx'[t] = idx[t] + 1
         /\ \A u \in Loopers \ {t} : pc'[u] = pc[u] /\ SamePhase(u)
<1> DEFINE e == Current(t)
           k == idx[t]
<1>0. t \in Threads /\ pc[t] = "mark" /\ pc \in [Threads -> PCs]
  BY DEF Threads, Mark, TypeInv, TypeOK
<1>1. /\ e \in Events /\ k \in 1..Len(evlist[t]) /\ Len(evlist[t]) \in Nat
      /\ epochs[t] \in Seq(Nat) /\ e = evlist[t][k].ev
  BY <1>0, CurrentEvent DEF Current
<1>2. Len(epochs[t]) = k - 1
  BY <1>0 DEF TypeInv, BatchOK, BatchShape
<1>3. /\ \A i \in 1..(k - 1) : epochs'[t][i] = epochs[t][i]
      /\ epochs'[t][k] = epoch[e]
  <2>1. epochs' = [epochs EXCEPT ![t] = Append(epochs[t], epoch[e])] /\ epoch[e] \in Nat
    BY <1>1 DEF Mark, TypeInv, TypeOK
  <2>2. /\ \A i \in 1..(k - 1) : Append(epochs[t], epoch[e])[i] = epochs[t][i]
        /\ Append(epochs[t], epoch[e])[k] = epoch[e]
    BY <1>1, <1>2, <2>1, AppendProperties
  <2> QED  BY <2>1, <2>2 DEF TypeInv, TypeOK
<1>4. /\ UNCHANGED evlist
      /\ k = Len(evlist[t]) => pc'[t] = "run"
      /\ k # Len(evlist[t]) => pc'[t] = "mark" /\ idx'[t] = k + 1
  BY <1>0 DEF Mark, TypeInv, TypeOK
<1>5. Tracked(t) = 1..(k - 1)
  BY <1>0, <1>1 DEF Tracked, HandlerPCs
<1>6. Tracked(t)' = 1..k
  BY <1>1, <1>4 DEF Tracked, HandlerPCs
<1>7. ASSUME NEW u \in Loopers \ {t} PROVE pc'[u] = pc[u] /\ SamePhase(u)
  BY <1>0 DEF Threads, Mark, SamePhase, TypeInv, TypeOK
<1> QED  BY <1>1, <1>3, <1>4, <1>5, <1>6, <1>7

\* Marking an event that is not active adds one live slot, the only one of
\* that event.
LEMMA MarkOwn ==
  ASSUME TypeInv, OwnInv, NEW t \in Loopers, Mark(t)
  PROVE  OwnInv'
<1> DEFINE e == Current(t)
           k == idx[t]
<1>1. /\ e \in Events /\ k \in 1..Len(evlist[t]) /\ Len(evlist[t]) \in Nat
      /\ e = evlist[t][k].ev
  BY MarkSlots
<1>2. "ACTIVE" \notin state[e]
  BY DEF Mark, MarkAsserts
<1>4. (\A i \in 1..(k - 1) : epochs'[t][i] = epochs[t][i]) /\ epochs'[t][k] = epoch[e]
  BY MarkSlots
<1>5. UNCHANGED <<evlist, epoch>>
  BY DEF Mark
<1>6. Tracked(t) = 1..(k - 1) /\ Tracked(t)' = 1..k
  BY MarkSlots
<1>7. \A u \in Loopers \ {t} : SlotsKept(u)
  BY MarkSlots, PhaseSlots
<1>8. /\ \A f \in Events \ {e} : state'[f] = state[f] /\ owner'[f] = owner[f]
      /\ "ACTIVE" \in state'[e] /\ owner'[e] = t
  BY <1>1 DEF Mark, TypeInv, TypeOK
<1>9. ASSUME NEW u \in Loopers, NEW i \in Tracked(u), epochs[u][i] = epoch[evlist[u][i].ev]
      PROVE  /\ "ACTIVE" \in state'[evlist[u][i].ev]
             /\ owner'[evlist[u][i].ev] = u
             /\ evlist[u][i].ev # e
  <2>1. "ACTIVE" \in state[evlist[u][i].ev] /\ owner[evlist[u][i].ev] = u
    BY <1>9 DEF OwnInv, LiveOwned, Live
  <2>2. evlist[u][i].ev \in Events
    BY TrackedSlot
  <2> QED  BY <1>2, <1>8, <2>1, <2>2
<1>10. ASSUME NEW u \in Loopers, NEW i \in Tracked(u)'
       PROVE  /\ epochs'[u][i] <= epoch'[evlist'[u][i].ev]
              /\ epochs'[u][i] = epoch'[evlist'[u][i].ev] =>
                   /\ "ACTIVE" \in state'[evlist'[u][i].ev]
                   /\ owner'[evlist'[u][i].ev] = u
  <2>1. CASE u = t /\ i = k
    <3>1. epoch[e] \in Nat
      BY <1>1 DEF TypeInv, TypeOK
    <3> QED  BY <1>1, <1>4, <1>5, <1>8, <2>1, <3>1
  <2>2. CASE ~(u = t /\ i = k)
    <3>1. i \in Tracked(u) /\ epochs'[u][i] = epochs[u][i] /\ evlist'[u][i] = evlist[u][i]
      <4>1. CASE u = t
        BY <1>1, <1>4, <1>5, <1>6, <2>2, <4>1
      <4>2. CASE u # t
        BY <1>7, <1>10, <4>2 DEF SlotsKept
      <4> QED  BY <4>1, <4>2
    <3>2. epochs[u][i] <= epoch[evlist[u][i].ev]
      BY <3>1 DEF OwnInv, LiveOwned
    <3> QED  BY <1>5, <1>9, <3>1, <3>2
  <2> QED  BY <2>1, <2>2
<1>11. LiveOwned'
  BY <1>10 DEF LiveOwned, Live
<1>12. ASSUME NEW f \in Events, "ACTIVE" \in state'[f]
       PROVE  \E u \in Loopers : owner'[f] = u /\ \E i \in Live(u)' : evlist'[u][i].ev = f
  <2>1. CASE f = e
    <3>1. k \in Live(t)' /\ evlist'[t][k].ev = f /\ owner'[f] = t
      BY <1>1, <1>4, <1>5, <1>6, <1>8, <2>1 DEF Live
    <3> QED  BY <3>1
  <2>2. CASE f # e
    <3>1. "ACTIVE" \in state[f] /\ owner'[f] = owner[f]
      BY <1>8, <1>12, <2>2
    <3>2. PICK u \in Loopers : owner[f] = u /\ \E i \in Live(u) : evlist[u][i].ev = f
      BY <3>1 DEF OwnInv, ActiveHasOwner
    <3>3. PICK i \in Live(u) : evlist[u][i].ev = f
      BY <3>2
    <3>4. i \in Tracked(u) /\ epochs[u][i] = epoch[f]
      BY <3>3 DEF Live
    <3>5. i \in Tracked(u)' /\ epochs'[u][i] = epochs[u][i] /\ evlist'[u][i] = evlist[u][i]
      <4>1. CASE u = t
        BY <1>1, <1>4, <1>5, <1>6, <3>4, <4>1
      <4>2. CASE u # t
        BY <1>7, <3>4, <4>2 DEF SlotsKept
      <4> QED  BY <4>1, <4>2
    <3>6. i \in Live(u)' /\ evlist'[u][i].ev = f
      BY <1>5, <3>3, <3>4, <3>5 DEF Live
    <3> QED  BY <3>1, <3>2, <3>6
  <2> QED  BY <2>1, <2>2
<1>13. ActiveHasOwner'
  BY <1>12 DEF ActiveHasOwner
<1> QED  BY <1>11, <1>13 DEF OwnInv

\* Completing moves on to the next slot and leaves the others to their loopers.
LEMMA CompleteSlots ==
  ASSUME TypeInv, NEW t \in Loopers, Complete(t)
  PROVE  /\ Current(t) \in Events /\ idx[t] \in 1..Len(evlist[t]) /\ Len(evlist[t]) \in Nat
         /\ Current(t) = evlist[t][idx[t]].ev
         /\ pc'[t] \in {"complete", "enable"}
         /\ UNCHANGED <<evlist, epochs, epoch>>
         /\ Tracked(t) = idx[t]..Len(evlist[t])
         /\ Tracked(t)' = (idx[t] + 1)..Len(evlist[t])
         /\ \A u \in Loopers \ {t} :
              /\ SamePhase(u)
              /\ pc'[u] = pc[u] \/ (pc[u] \in HandlerPCs /\ pc'[u] \in HandlerPCs)
<1> DEFINE e == Current(t)
           k == idx[t]
<1>0. t \in Threads /\ pc[t] = "complete" /\ pc \in [Threads -> PCs]
  BY DEF Threads, Complete, TypeInv, TypeOK
<1>1. e \in Events /\ k \in 1..Len(evlist[t]) /\ Len(evlist[t]) \in Nat /\ e = evlist[t][k].ev
  BY <1>0, CurrentEvent DEF Current
<1>2. /\ pc'[t] = IF k = Len(evlist[t]) THEN "enable" ELSE "complete"
      /\ \A u \in Threads \ {t} :
           pc'[u] = pc[u] \/ (pc[u] = "delwait" /\ pc'[u] = "delretry")
  <2> DEFINE q == IF k = Len(evlist[t]) THEN "enable" ELSE "complete"
  <2>1. Signalled([pc EXCEPT ![t] = q], e) /\ q \in PCs
    BY DEF Complete, PCs
  <2> HIDE DEF q, e
  <2>2. /\ pc'[t] = q
        /\ \A u \in Threads \ {t} :
             pc'[u] = pc[u] \/ (pc[u] = "delwait" /\ pc'[u] = "delretry")
    BY <1>0, <2>1, SignalledPc
  <2> QED  BY <2>2 DEF q
<1>3. /\ UNCHANGED <<evlist, epochs, epoch>>
      /\ k # Len(evlist[t]) => idx'[t] = k + 1
      /\ \A u \in Loopers \ {t} : idx'[u] = idx[u]
  BY DEF Complete, TypeInv, TypeOK
<1>4. Tracked(t) = k..Len(evlist[t])
  BY <1>0, <1>1 DEF Tracked, HandlerPCs
<1>5. Tracked(t)' = (k + 1)..Len(evlist[t])
  BY <1>1, <1>2, <1>3 DEF Tracked, HandlerPCs
<1>6. ASSUME NEW u \in Loopers \ {t}
      PROVE  /\ SamePhase(u)
             /\ pc'[u] = pc[u] \/ (pc[u] \in HandlerPCs /\ pc'[u] \in HandlerPCs)
  <2>1. u \in Threads \ {t}
    BY DEF Threads
  <2>2. pc'[u] = pc[u] \/ (pc[u] \in HandlerPCs /\ pc'[u] \in HandlerPCs)
    BY <1>2, <2>1 DEF HandlerPCs
  <2> QED  BY <1>3, <2>2 DEF SamePhase
<1> QED  BY <1>1, <1>2, <1>3, <1>4, <1>5, <1>6

\* Completing an event drops the only live slot it can have; a slot whose
\* epoch has moved on is dropped without touching the event.
LEMMA CompleteOwn ==
  ASSUME TypeInv, OwnInv, NEW t \in Loopers, Complete(t)
  PROVE  OwnInv'
<1> DEFINE e == Current(t)
           k == idx[t]
<1>1. /\ e \in Events /\ k \in 1..Len(evlist[t]) /\ Len(evlist[t]) \in Nat
      /\ e = evlist[t][k].ev
  BY CompleteSlots
<1>3. UNCHANGED <<evlist, epochs, epoch>>
  BY CompleteSlots
<1>4. Tracked(t) = k..Len(evlist[t]) /\ Tracked(t)' = (k + 1)..Len(evlist[t])
  BY CompleteSlots
<1>5. ASSUME NEW u \in Loopers \ {t} PROVE Tracked(u)' = Tracked(u)
  BY CompleteSlots, PhaseSlots DEF SlotsKept
<1>6. \A u \in Loopers : Tracked(u)' \subseteq Tracked(u)
  BY <1>1, <1>4, <1>5
<1>7. \A f \in Events \ {e} : state'[f] = state[f] /\ owner'[f] = owner[f]
  BY <1>1 DEF Complete, CompleteCurrent, TypeInv, TypeOK
<1>8. CASE epochs[t][k] = epoch[e]
  <2>1. k \in Live(t) /\ owner[e] = t
    BY <1>1, <1>4, <1>8 DEF Live, OwnInv, LiveOwned
  <2>2. "ACTIVE" \notin state'[e]
    <3>1. CompleteCurrent(t, e)
      BY <1>8 DEF Complete
    <3>2. \/ state' = [state EXCEPT ![e] = {}]
          \/ state' = [state EXCEPT ![e] = state[e] \ {"ACTIVE"}]
      BY <3>1 DEF CompleteCurrent
    <3>3. state \in [Events -> SUBSET {"ACTIVE", "PENDING"}]
      BY DEF TypeInv, TypeOK
    <3> QED  BY <1>1, <3>2, <3>3
  <2>3. ASSUME NEW u \in Loopers, NEW i \in Tracked(u)', epochs[u][i] = epoch[evlist[u][i].ev]
        PROVE  /\ "ACTIVE" \in state'[evlist[u][i].ev]
               /\ owner'[evlist[u][i].ev] = u
    <3>1. i \in Live(u) /\ i \in Tracked(u)
      BY <1>6, <2>3 DEF Live
    <3>2. "ACTIVE" \in state[evlist[u][i].ev] /\ owner[evlist[u][i].ev] = u
      BY <3>1 DEF OwnInv, LiveOwned
    <3>3. evlist[u][i].ev \in Events
      BY <3>1, TrackedSlot
    <3>4. evlist[u][i].ev # e
      <4>1. SUFFICES ASSUME evlist[u][i].ev = e PROVE FALSE
        OBVIOUS
      <4>2. u = t
        BY <2>1, <3>2, <4>1
      <4>3. i = k
        <5>1. i \in 1..Len(evlist[t]) /\ k \in 1..Len(evlist[t]) /\ evlist[t][i].ev = evlist[t][k].ev
          BY <1>1, <3>1, <4>1, <4>2 DEF Tracked
        <5> QED  BY <5>1 DEF TypeInv, BatchOK, BatchShape
      <4> QED  BY <1>1, <1>4, <2>3, <4>2, <4>3
    <3> QED  BY <1>7, <3>2, <3>3, <3>4
  <2>4. LiveOwned'
    BY <1>3, <1>6, <2>3 DEF LiveOwned, Live, OwnInv
  <2>5. ASSUME NEW f \in Events, "ACTIVE" \in state'[f]
        PROVE  \E u \in Loopers : owner'[f] = u /\ \E i \in Live(u)' : evlist'[u][i].ev = f
    <3>1. f # e /\ "ACTIVE" \in state[f] /\ owner'[f] = owner[f]
      BY <1>7, <2>2, <2>5
    <3>2. PICK u \in Loopers : owner[f] = u /\ \E i \in Live(u) : evlist[u][i].ev = f
      BY <3>1 DEF OwnInv, ActiveHasOwner
    <3>3. PICK i \in Live(u) : evlist[u][i].ev = f
      BY <3>2
    <3>4. i \in Tracked(u)'
      <4>1. CASE u = t
        BY <1>1, <1>4, <3>1, <3>3, <4>1 DEF Live
      <4>2. CASE u # t
        BY <1>5, <3>3, <4>2 DEF Live
      <4> QED  BY <4>1, <4>2
    <3> QED  BY <1>3, <3>1, <3>2, <3>3, <3>4 DEF Live
  <2> QED  BY <2>4, <2>5 DEF OwnInv, ActiveHasOwner
<1>9. CASE epochs[t][k] # epoch[e]
  <2>1. UNCHANGED <<state, owner>>
    BY <1>9 DEF Complete
  <2>2. \A u \in Loopers : Live(u)' = Live(u)
    <3>1. ASSUME NEW u \in Loopers \ {t} PROVE Live(u)' = Live(u)
      BY <1>3, <1>5 DEF Live
    <3>2. Live(t)' = Live(t)
      BY <1>1, <1>3, <1>4, <1>9 DEF Live
    <3> QED  BY <3>1, <3>2
  <2>3. LiveOwned'
    BY <1>3, <1>6, <2>1, <2>2 DEF LiveOwned, OwnInv
  <2>4. ActiveHasOwner'
    BY <1>3, <2>1, <2>2 DEF ActiveHasOwner, OwnInv
  <2> QED  BY <2>3, <2>4 DEF OwnInv
<1> QED  BY <1>8, <1>9

\* Every other step of the loop leaves states, owners, epochs and the tracked
\* slots alone.
Kept == UNCHANGED <<state, owner, epoch>> /\ \A t \in Loopers : SlotsKept(t)

LEMMA LoopSlots ==
  ASSUME TypeInv, NEW t \in Loopers, LoopStep(t)
  PROVE  Mark(t) \/ Complete(t) \/ Kept
<1>0. /\ t \in Threads /\ pc \in [Threads -> PCs] /\ BatchOK
      /\ evlist \in [Loopers -> Seq([ev : Events, ident : Int])]
      /\ epochs \in [Loopers -> Seq(Nat)] /\ idx \in [Loopers -> Nat \ {0}]
  BY DEF Threads, TypeInv, TypeOK
<1>a. ASSUME NEW p, NEW q, pc[t] = q, pc' = [pc EXCEPT ![t] = p],
             \A u \in Loopers \ {t} : evlist'[u] = evlist[u] /\ epochs'[u] = epochs[u] /\ idx'[u] = idx[u],
             q \in {"kevent", "wait", "enable", "unlock"},
             \/ p \in {"kevent", "wait", "enable", "unlock"}
             \/ p = "mark" /\ idx'[t] = 1,
             UNCHANGED <<state, owner, epoch>>
      PROVE  Kept
  <2>1. ASSUME NEW u \in Loopers \ {t} PROVE SlotsKept(u)
    <3>1. pc'[u] = pc[u] /\ SamePhase(u)
      BY <1>0, <1>a DEF Threads, SamePhase
    <3> QED  BY <3>1, PhaseSlots
  <2>2. Tracked(t) = {} /\ Tracked(t)' = {}
    BY <1>0, <1>a DEF Tracked, HandlerPCs
  <2>3. SlotsKept(t)
    BY <2>2 DEF SlotsKept
  <2> QED  BY <1>a, <2>1, <2>3 DEF Kept
<1>b. ASSUME NEW p \in HandlerPCs, pc[t] \in HandlerPCs, pc' = [pc EXCEPT ![t] = p],
             UNCHANGED <<evlist, epochs, idx, state, owner, epoch>>
      PROVE  Kept
  <2>1. \A u \in Loopers : SlotsKept(u)
    BY <1>0, <1>b, MoveSlots
  <2> QED  BY <1>b, <2>1 DEF Kept
<1>1. CASE KeventEnter(t)
  BY <1>a, <1>1 DEF KeventEnter, evvars, loopvars
<1>2. CASE KeventReturn(t)
  <2>1. PICK n \in 1..NEVENT : \E b \in [1..n -> Ready] : Deliver(t, n, b)
    BY <1>2 DEF KeventReturn
  <2>2. PICK b \in [1..n -> Ready] : Deliver(t, n, b)
    BY <2>1
  <2>3. pc[t] = "wait" /\ pc' = [pc EXCEPT ![t] = "mark"] /\ idx'[t] = 1
        /\ UNCHANGED <<state, owner, epoch>>
    BY <1>0, <1>2, <2>2 DEF KeventReturn, Deliver, evvars
  <2>4. \A u \in Loopers \ {t} : evlist'[u] = evlist[u] /\ epochs'[u] = epochs[u] /\ idx'[u] = idx[u]
    BY <1>0, <2>2 DEF Deliver
  <2> QED  BY <1>a, <2>3, <2>4
<1>4. CASE MarkFails(t)
  <2>1. pc' = pc /\ UNCHANGED <<evlist, epochs, idx, state, owner, epoch>>
    BY <1>4 DEF MarkFails, evvars, loopvars
  <2>2. \A u \in Loopers : SlotsKept(u)
    BY <2>1, PhaseSlots DEF SamePhase
  <2> QED  BY <2>1, <2>2 DEF Kept
<1>5. CASE HandlerReturn(t)
  <2>1. Len(evlist[t]) \in Nat /\ idx[t] \in 1..Len(evlist[t])
    BY <1>5, CurrentEvent DEF HandlerReturn, HandlerPCs
  <2>2. /\ pc[t] \in HandlerPCs /\ UNCHANGED <<evlist, epochs, state, owner, epoch>>
        /\ \/ pc'[t] = "complete" /\ idx'[t] = 1
           \/ pc'[t] = "run"
        /\ \A u \in Loopers \ {t} : pc'[u] = pc[u] /\ idx'[u] = idx[u]
    BY <1>0, <1>5 DEF HandlerReturn, HandlerPCs, Threads, evvars
  <2>3. Tracked(t)' = Tracked(t)
    BY <2>1, <2>2 DEF Tracked, HandlerPCs
  <2>4. ASSUME NEW u \in Loopers \ {t} PROVE SlotsKept(u)
    BY <2>2, PhaseSlots DEF SamePhase
  <2> QED  BY <2>2, <2>3, <2>4 DEF Kept, SlotsKept
<1>6. CASE HandlerDel(t)
  BY <1>b, <1>6 DEF HandlerDel, HandlerPCs, evvars, loopvars
<1>7. CASE HandlerReadd(t)
  <2>1. /\ pc[t] \in HandlerPCs /\ UNCHANGED <<evlist, epochs, idx, state, owner, epoch>>
        /\ pc' = pc \/ pc' = [pc EXCEPT ![t] = "addchk"]
    BY <1>7 DEF HandlerReadd, HandlerPCs, loopvars
  <2>2. CASE pc' = [pc EXCEPT ![t] = "addchk"]
    BY <1>b, <2>1, <2>2 DEF HandlerPCs
  <2>3. CASE pc' = pc
    <3>1. \A u \in Loopers : SlotsKept(u)
      BY <2>1, <2>3, PhaseSlots DEF SamePhase
    <3> QED  BY <2>1, <3>1 DEF Kept
  <2> QED  BY <2>1, <2>2, <2>3
<1>8. CASE HandlerAddOther(t)
  BY <1>b, <1>8 DEF HandlerAddOther, HandlerPCs, evvars, loopvars
<1>10. CASE Enable(t)
  BY <1>a, <1>10 DEF Enable, evvars, loopvars
<1>11. CASE Unlock(t)
  <2>1. \A u \in Loopers \ {t} : evlist'[u] = evlist[u] /\ epochs'[u] = epochs[u] /\ idx'[u] = idx[u]
    BY <1>0, <1>11 DEF Unlock
  <2> QED  BY <1>a, <1>11, <2>1 DEF Unlock, evvars
<1> QED  BY <1>1, <1>2, <1>4, <1>5, <1>6, <1>7, <1>8, <1>10, <1>11 DEF LoopStep

\* Live slots stay owned in every step of the loop.
LEMMA LoopOwn ==
  ASSUME TypeInv, OwnInv, NEW t \in Loopers, LoopStep(t)
  PROVE  OwnInv'
<1>1. CASE Kept
  BY <1>1, OwnFrame DEF Kept
<1> QED  BY <1>1, LoopSlots, MarkOwn, CompleteOwn

\* event_add and event_del leave the slots alone, and change at most the state
\* of their event.
LEMMA ApiSlots ==
  ASSUME TypeInv, NEW t \in Threads, ApiStep(t)
  PROVE  /\ \A u \in Loopers : SlotsKept(u)
         /\ \/ Kept
            \/ \E e \in Events : \E s \in SUBSET {"ACTIVE", "PENDING"} : Changed(e, s)
<1>0. /\ TypeOK /\ BatchOK /\ pc \in [Threads -> PCs]
      /\ kev[t] \in [ev : Events, ident : Int] /\ kev[t].ev \in Events
      /\ (t \in Loopers => AfterAdd(t) \in HandlerPCs)
  BY ConstAssumption DEF TypeInv, TypeOK, AfterAdd, HandlerPCs
<1> DEFINE Some == \E e \in Events : \E s \in SUBSET {"ACTIVE", "PENDING"} : Changed(e, s)
<1>1. ASSUME NEW k, k.ev \in Events, pc[t] \in {"del", "delretry"}, DelBody(t, k)
      PROVE  (\A u \in Loopers : SlotsKept(u)) /\ (Kept \/ Some)
  <2>1. PICK p \in {AfterDel(t, FALSE), AfterDel(t, TRUE), "delwait"} : pc' = [pc EXCEPT ![t] = p]
    BY <1>1 DEF DelBody
  <2>2. t \in Loopers => pc[t] \in HandlerPCs /\ p \in HandlerPCs
    BY <1>1, ConstAssumption DEF AfterDel, HandlerPCs
  <2>3. UNCHANGED <<evlist, epochs, idx>>
    BY <1>1 DEF DelBody, loopvars
  <2>4. \A u \in Loopers : SlotsKept(u)
    BY <1>0, <2>1, <2>2, <2>3, MoveSlots
  <2>5. state[k.ev] \ {"PENDING"} \in SUBSET {"ACTIVE", "PENDING"}
    BY <1>0, <1>1 DEF TypeOK
  <2>6. CASE Changed(k.ev, state[k.ev] \ {"PENDING"})
    BY <1>1, <2>4, <2>5, <2>6
  <2>7. CASE UNCHANGED <<state, owner, epoch>>
    BY <2>4, <2>7 DEF Kept
  <2> QED  BY <1>1, <2>6, <2>7 DEF DelBody
<1>2. CASE Del(t)
  BY <1>0, <1>1, <1>2 DEF Del
<1>3. CASE DelRetry(t)
  BY <1>0, <1>1, <1>3 DEF DelRetry
<1>4. CASE AddCheck(t) \/ AddFails(t)
  <2>1. PICK p \in {AfterAdd(t), "add"} : pc' = [pc EXCEPT ![t] = p]
    BY <1>4 DEF AddCheck, AddFails
  <2>2. /\ pc[t] \in HandlerPCs /\ "add" \in HandlerPCs
        /\ UNCHANGED <<evlist, epochs, idx, state, owner, epoch>>
    BY <1>4 DEF AddCheck, AddFails, HandlerPCs, loopvars, evvars
  <2>3. \A u \in Loopers : SlotsKept(u)
    BY <1>0, <2>1, <2>2, MoveSlots
  <2> QED  BY <2>2, <2>3 DEF Kept
<1>5. CASE AddCommit(t)
  <2>1. /\ pc[t] \in HandlerPCs /\ pc' = [pc EXCEPT ![t] = AfterAdd(t)]
        /\ UNCHANGED <<evlist, epochs, idx>>
    BY <1>5 DEF AddCommit, HandlerPCs, loopvars
  <2>2. \A u \in Loopers : SlotsKept(u)
    BY <1>0, <2>1, MoveSlots
  <2>3. state[kev[t].ev] \cup {"PENDING"} \in SUBSET {"ACTIVE", "PENDING"}
    BY <1>0 DEF TypeOK
  <2>4. Changed(kev[t].ev, state[kev[t].ev] \cup {"PENDING"})
    BY <1>5 DEF AddCommit
  <2> QED  BY <1>0, <2>2, <2>3, <2>4
<1> QED  BY <1>2, <1>3, <1>4, <1>5 DEF ApiStep

\* They keep live slots owned.
LEMMA ApiOwn ==
  ASSUME TypeInv, OwnInv, NEW t \in Threads, ApiStep(t)
  PROVE  OwnInv'
<1>1. CASE Kept
  BY <1>1, OwnFrame DEF Kept
<1>2. ASSUME NEW e \in Events, NEW s \in SUBSET {"ACTIVE", "PENDING"}, Changed(e, s)
      PROVE  OwnInv'
  BY <1>2, ApiSlots, ChangedOwn
<1> QED  BY <1>1, <1>2, ApiSlots

\* Spurious wakeups, new calls and arriving data change no event.
LEMMA OutsideSlots ==
  ASSUME TypeInv, OutsideStep \/ UNCHANGED vars
  PROVE  Kept
<1>0. BatchOK /\ pc \in [Threads -> PCs] /\ UNCHANGED <<evlist, epochs, idx, state, owner, epoch>>
  BY DEF TypeInv, TypeOK, OutsideStep, SpuriousWake, CallDel, CallAdd, Arrive, vars, evvars, loopvars
<1>1. ASSUME NEW t \in Threads, SpuriousWake(t) PROVE \A u \in Loopers : SlotsKept(u)
  BY <1>0, <1>1, MoveSlots DEF SpuriousWake, HandlerPCs
<1>2. ASSUME NEW c \in Callers, NEW e \in Events, CallDel(c, e) \/ CallAdd(c, e)
      PROVE  \A u \in Loopers : SlotsKept(u)
  <2>1. PICK p : pc' = [pc EXCEPT ![c] = p]
    BY <1>2 DEF CallDel, CallAdd
  <2>2. c \in Threads /\ c \notin Loopers
    BY ConstAssumption DEF Threads
  <2> QED  BY <1>0, <2>1, <2>2, MoveSlots
<1>3. ASSUME NEW e \in Events, Arrive(e) PROVE \A u \in Loopers : SlotsKept(u)
  BY <1>0, <1>3, PhaseSlots DEF Arrive, SamePhase
<1>4. ASSUME UNCHANGED vars PROVE \A u \in Loopers : SlotsKept(u)
  BY <1>0, <1>4, PhaseSlots DEF vars, SamePhase
<1> QED  BY <1>0, <1>1, <1>2, <1>3, <1>4 DEF Kept, OutsideStep

\* Nothing is tracked or owned initially.
LEMMA InitOwn == Init => OwnInv
<1> SUFFICES ASSUME Init PROVE OwnInv
  OBVIOUS
<1>1. \A t \in Loopers : Tracked(t) = {}
  BY DEF Init, Tracked
<1>2. LiveOwned
  BY <1>1 DEF LiveOwned, Live
<1>3. ActiveHasOwner
  BY DEF Init, ActiveHasOwner
<1> QED  BY <1>2, <1>3 DEF OwnInv

\* Together with the type invariant, ownership of live slots is inductive.
LEMMA NextOwn == TypeInv /\ OwnInv /\ [Next]_vars => OwnInv'
<1> SUFFICES ASSUME TypeInv, OwnInv, [Next]_vars PROVE OwnInv'
  OBVIOUS
<1>1. CASE OutsideStep \/ UNCHANGED vars
  <2>1. Kept
    BY <1>1, OutsideSlots
  <2> QED  BY <2>1, OwnFrame DEF Kept
<1>2. ASSUME NEW t \in Loopers, LoopStep(t) PROVE OwnInv'
  BY <1>2, LoopOwn
<1>3. ASSUME NEW t \in Threads, ApiStep(t) PROVE OwnInv'
  BY <1>3, ApiOwn
<1> QED  BY <1>1, <1>2, <1>3 DEF Next, OutsideStep

\* Live slots are owned, so two live slots of one event are one slot.
LEMMA OwnedExclusive == TypeInv /\ OwnInv => ExclusiveOwner
<1> SUFFICES ASSUME TypeInv, OwnInv, NEW t \in Loopers, NEW u \in Loopers,
                    NEW i \in Live(t), NEW j \in Live(u), evlist[t][i].ev = evlist[u][j].ev
             PROVE  t = u /\ i = j
  BY DEF ExclusiveOwner
<1>1. t = u
  BY DEF OwnInv, LiveOwned
<1>2. i \in 1..Len(evlist[t]) /\ j \in 1..Len(evlist[t])
  BY <1>1 DEF Live, Tracked
<1> QED  BY <1>1, <1>2 DEF TypeInv, BatchOK, BatchShape

\* Whatever handlers and callers add and delete, one thread handles an event
\* at a time.
THEOREM OneHandler == Spec => []ExclusiveOwner
<1>1. Init => TypeInv /\ OwnInv
  BY InitType, InitOwn
<1>2. TypeInv /\ OwnInv /\ [Next]_vars => (TypeInv /\ OwnInv)'
  BY NextType, NextOwn
<1>3. TypeInv /\ OwnInv => ExclusiveOwner
  BY OwnedExclusive
<1> QED  BY <1>1, <1>2, <1>3, PTL DEF Spec

\* An active event is always in the batch of the thread that owns it, so the
\* completion event_del waits for is still to come.
THEOREM ActiveOwned == Spec => []ActiveHasOwner
<1>1. Init => TypeInv /\ OwnInv
  BY InitType, InitOwn
<1>2. TypeInv /\ OwnInv /\ [Next]_vars => (TypeInv /\ OwnInv)'
  BY NextType, NextOwn
<1>3. TypeInv /\ OwnInv => ActiveHasOwner
  BY DEF OwnInv
<1> QED  BY <1>1, <1>2, <1>3, PTL DEF Spec
-----------------------------------------------------------------------------
(* Delivered knotes: the thread that got one has still to deal with it *)

\* Slots of the batch that t has still to mark, to complete or to re-enable.
Due(t) ==
  {i \in 1..Len(evlist[t]) :
     \/ pc[t] = "mark" /\ i >= idx[t]
     \/ i \in Live(t)
     \/ i \in enlist[t] /\ pc[t] \in {"complete", "enable"}}

\* What gives a knote that t was handed back to the kernel: on a multi-queue
\* kqueue the next kevent() of t, on a legacy one a due slot of its batch.
HeldBy(t, e) ==
  \/ MULT_KQ /\ pc[t] # "wait"
  \/ ~MULT_KQ /\ \E i \in Due(t) : evlist[t][i].ev = e

HeldInv ==
  failed = "none" => \A e \in Events : kn[e] = "held" =>
    \E t \in Loopers : holder[e] = t /\ HeldBy(t, e)

\* A step that hands out no knote keeps the invariant when whoever dealt with
\* a held one still does.
LEMMA HeldFrame ==
  ASSUME HeldInv, failed = "none",
         \A e \in Events : kn'[e] = "held" =>
           /\ kn[e] = "held" /\ holder'[e] = holder[e]
           /\ \A t \in Loopers : holder[e] = t /\ HeldBy(t, e) => HeldBy(t, e)'
  PROVE  HeldInv'
BY DEF HeldInv

\* A looper that stays in its phase of its batch still deals with the events
\* whose epoch does not move.
LEMMA HeldKept ==
  ASSUME NEW t \in Loopers, NEW e, UNCHANGED MULT_KQ, SamePhase(t),
         \/ pc'[t] = pc[t]
         \/ pc[t] \in HandlerPCs /\ pc'[t] \in HandlerPCs,
         enlist'[t] = enlist[t], epoch'[e] = epoch[e], HeldBy(t, e)
  PROVE  HeldBy(t, e)'
<1>1. CASE MULT_KQ
  BY <1>1 DEF HeldBy, HandlerPCs
<1>2. CASE ~MULT_KQ
  <2>1. PICK i \in Due(t) : evlist[t][i].ev = e
    BY <1>2 DEF HeldBy
  <2>2. SlotsKept(t)
    BY PhaseSlots
  <2>3. i \in Due(t)'
    <3>1. i \in 1..Len(evlist'[t])
      BY <2>1 DEF Due, SamePhase
    <3>2. CASE pc[t] = "mark" /\ i >= idx[t]
      BY <3>1, <3>2 DEF Due, SamePhase, HandlerPCs
    <3>3. CASE i \in Live(t)
      <4>1. i \in Live(t)'
        BY <2>1, <2>2, <3>3 DEF Live, SlotsKept
      <4> QED  BY <3>1, <4>1 DEF Due
    <3>4. CASE i \in enlist[t] /\ pc[t] \in {"complete", "enable"}
      BY <3>1, <3>4 DEF Due, HandlerPCs
    <3> QED  BY <2>1, <3>2, <3>3, <3>4 DEF Due
  <2>4. evlist'[t][i].ev = e
    BY <2>1 DEF SamePhase
  <2> QED  BY <1>2, <2>3, <2>4 DEF HeldBy
<1> QED  BY <1>1, <1>2

\* Nothing is due of a batch that has been re-enabled.
LEMMA NothingDue ==
  ASSUME NEW t, pc[t] \in {"kevent", "wait", "unlock"}
  PROVE  Due(t) = {}
BY DEF Due, Live, Tracked, HandlerPCs

\* A thread that moves inside its handler, or that is no looper, leaves every
\* due slot due, those of the event apart that it adds or deletes.
LEMMA MoveHeld ==
  ASSUME TypeInv, HeldInv, failed = "none", UNCHANGED MULT_KQ, NEW t \in Threads, NEW p,
         pc' = [pc EXCEPT ![t] = p], UNCHANGED <<evlist, epochs, idx, enlist, holder>>,
         t \in Loopers => pc[t] \in HandlerPCs /\ p \in HandlerPCs,
         \A e \in Events : kn'[e] = "held" => kn[e] = "held" /\ epoch'[e] = epoch[e]
  PROVE  HeldInv'
<1>1. ASSUME NEW u \in Loopers, NEW e \in Events, kn'[e] = "held", HeldBy(u, e)
      PROVE  HeldBy(u, e)'
  <2>1. pc \in [Threads -> PCs] /\ BatchOK /\ u \in Threads
    BY DEF TypeInv, TypeOK, Threads
  <2>2. SamePhase(u)
    BY <2>1, MoveFrame
  <2>3. pc'[u] = pc[u] \/ (pc[u] \in HandlerPCs /\ pc'[u] \in HandlerPCs)
    BY <2>1
  <2> QED  BY <1>1, <2>2, <2>3, HeldKept
<1> QED  BY <1>1, HeldFrame

\* Entering kevent() gives everything back on a multi-queue kqueue, and finds
\* nothing due on a legacy one; what it returns is to be marked.
LEMMA KeventHeld ==
  ASSUME TypeInv, HeldInv, failed = "none", UNCHANGED MULT_KQ, NEW t \in Loopers,
         KeventEnter(t) \/ KeventReturn(t)
  PROVE  HeldInv'
<1>0. t \in Threads /\ pc \in [Threads -> PCs] /\ kn \in [Events -> {"none", "armed", "held"}]
  BY DEF Threads, TypeInv, TypeOK
<1>1. CASE KeventEnter(t)
  <2>1. ASSUME NEW e \in Events, kn'[e] = "held"
        PROVE  /\ kn[e] = "held" /\ holder'[e] = holder[e]
               /\ \A u \in Loopers : holder[e] = u /\ HeldBy(u, e) => HeldBy(u, e)'
    <3>1. kn[e] = "held" /\ holder' = holder /\ ~(MULT_KQ /\ holder[e] = t)
      BY <1>1, <2>1 DEF KeventEnter
    <3>2. ASSUME NEW u \in Loopers, holder[e] = u, HeldBy(u, e) PROVE HeldBy(u, e)'
      <4>1. u # t
        BY <1>1, <3>1, <3>2, NothingDue DEF HeldBy, KeventEnter
      <4>2. pc'[u] = pc[u] /\ SamePhase(u) /\ enlist'[u] = enlist[u] /\ epoch'[e] = epoch[e]
        BY <1>0, <1>1, <4>1 DEF KeventEnter, SamePhase, loopvars, evvars, Threads
      <4> QED  BY <3>2, <4>2, HeldKept
    <3> QED  BY <3>1, <3>2
  <2> QED  BY <2>1, HeldFrame
<1>2. CASE KeventReturn(t)
  <2>1. PICK n \in 1..NEVENT : \E b \in [1..n -> Ready] : Deliver(t, n, b)
    BY <1>2 DEF KeventReturn
  <2>2. PICK b \in [1..n -> Ready] : Deliver(t, n, b)
    BY <2>1
  <2>3. n \in Nat \ {0} /\ b \in [1..n -> Events]
    BY ConstAssumption DEF Ready
  <2> DEFINE s == [i \in 1..n |-> [ev |-> b[i], ident |-> knIdent[b[i]]]]
  <2>4. Len(s) = n /\ \A i \in 1..n : s[i].ev = b[i]
    BY <2>3, BatchSeq DEF TypeInv, TypeOK
  <2>5. evlist' = [evlist EXCEPT ![t] = s]
    BY <2>2 DEF Deliver
  <2> HIDE DEF s
  <2>6. evlist'[t] = s /\ idx'[t] = 1 /\ pc'[t] = "mark"
    BY <1>0, <2>2, <2>5 DEF Deliver, TypeInv, TypeOK
  <2>7. ASSUME NEW e \in Events, kn'[e] = "held"
        PROVE  \E u \in Loopers : holder'[e] = u /\ HeldBy(u, e)'
    <3>1. CASE \E i \in 1..n : b[i] = e
      <4>1. PICK i \in 1..n : b[i] = e
        BY <3>1
      <4>2. holder'[e] = t
        BY <2>2, <3>1 DEF Deliver
      <4>3. i \in Due(t)' /\ evlist'[t][i].ev = e
        BY <2>3, <2>4, <2>6, <4>1 DEF Due
      <4> QED  BY <2>6, <4>2, <4>3 DEF HeldBy
    <3>2. CASE ~ \E i \in 1..n : b[i] = e
      <4>1. kn[e] = "held" /\ holder'[e] = holder[e]
        BY <2>2, <2>7, <3>2 DEF Deliver
      <4>2. PICK u \in Loopers : holder[e] = u /\ HeldBy(u, e)
        BY <4>1 DEF HeldInv
      <4>3. u # t
        BY <1>2, <4>2, NothingDue DEF HeldBy, KeventReturn
      <4>4. /\ pc'[u] = pc[u] /\ SamePhase(u) /\ enlist'[u] = enlist[u]
            /\ epoch'[e] = epoch[e]
        BY <1>0, <2>2, <4>3 DEF Deliver, SamePhase, evvars, Threads, TypeInv, TypeOK
      <4>5. HeldBy(u, e)'
        BY <4>2, <4>4, HeldKept
      <4> QED  BY <4>1, <4>2, <4>5
    <3> QED  BY <3>1, <3>2
  <2> QED  BY <2>7 DEF HeldInv
<1> QED  BY <1>1, <1>2

\* A marked event is live until its slot is completed.
LEMMA MarkHeld ==
  ASSUME TypeInv, HeldInv, failed = "none", UNCHANGED MULT_KQ, NEW t \in Loopers, Mark(t)
  PROVE  HeldInv'
<1>1. pc[t] = "mark" /\ UNCHANGED <<evlist, epoch, kn, holder, enlist>>
  BY DEF Mark, knvars
<1>s. /\ idx[t] \in 1..Len(evlist[t]) /\ Len(evlist[t]) \in Nat
      /\ Current(t) = evlist[t][idx[t]].ev
      /\ Tracked(t) = 1..(idx[t] - 1) /\ Tracked(t)' = 1..idx[t]
      /\ \A i \in 1..(idx[t] - 1) : epochs'[t][i] = epochs[t][i]
      /\ epochs'[t][idx[t]] = epoch[Current(t)]
      /\ \/ pc'[t] = "run" /\ idx[t] = Len(evlist[t])
         \/ pc'[t] = "mark" /\ idx'[t] = idx[t] + 1
  BY MarkSlots
<1>2. ASSUME NEW u \in Loopers, NEW e \in Events, HeldBy(u, e) PROVE HeldBy(u, e)'
  <2>1. CASE u # t
    BY <1>1, <1>2, <2>1, MarkSlots, HeldKept
  <2>2. CASE u = t /\ MULT_KQ
    BY <2>2, <1>s DEF HeldBy
  <2>3. CASE u = t /\ ~MULT_KQ
    <3>1. PICK i \in Due(t) : evlist[t][i].ev = e
      BY <1>2, <2>3 DEF HeldBy
    <3>2. i \in 1..Len(evlist[t]) /\ (i >= idx[t] \/ i \in Live(t))
      BY <1>1, <3>1 DEF Due
    <3>3. i \in Due(t)'
      <4>1. CASE i > idx[t]
        BY <1>1, <3>2, <4>1, <1>s DEF Due
      <4>2. CASE i = idx[t]
        <5>1. i \in Live(t)'
          BY <1>1, <4>2, <1>s DEF Live
        <5> QED  BY <1>1, <3>2, <5>1 DEF Due
      <4>3. CASE i < idx[t]
        <5>1. i \in Live(t) /\ i \in 1..(idx[t] - 1)
          BY <3>2, <4>3, <1>s DEF Live
        <5>2. i \in Live(t)'
          BY <1>1, <5>1, <1>s DEF Live
        <5> QED  BY <1>1, <3>2, <5>2 DEF Due
      <4> QED  BY <3>2, <4>1, <4>2, <4>3, <1>s
    <3> QED  BY <1>1, <2>3, <3>1, <3>3 DEF HeldBy
  <2> QED  BY <2>1, <2>2, <2>3
<1> QED  BY <1>1, <1>2, HeldFrame

\* The handlers of a batch leave all of its live slots to be completed.
LEMMA HandlerHeld ==
  ASSUME TypeInv, HeldInv, failed = "none", UNCHANGED MULT_KQ, NEW t \in Loopers,
         HandlerReturn(t) \/ HandlerDel(t) \/ HandlerReadd(t) \/ HandlerAddOther(t)
  PROVE  HeldInv'
<1>0. t \in Threads /\ pc \in [Threads -> PCs]
  BY DEF Threads, TypeInv, TypeOK
<1>1. CASE HandlerReturn(t)
  <2>1. Len(evlist[t]) \in Nat /\ idx[t] \in 1..Len(evlist[t])
    BY <1>1, CurrentEvent DEF HandlerReturn, HandlerPCs
  <2>2. /\ pc[t] \in HandlerPCs /\ UNCHANGED <<evlist, epochs, epoch, kn, holder, enlist>>
        /\ \/ pc'[t] = "complete" /\ idx'[t] = 1
           \/ pc'[t] = "run"
        /\ \A u \in Loopers \ {t} : pc'[u] = pc[u] /\ idx'[u] = idx[u]
    BY <1>0, <1>1 DEF HandlerReturn, HandlerPCs, Threads, evvars, knvars, TypeInv, TypeOK
  <2>3. Tracked(t)' = Tracked(t)
    BY <2>1, <2>2 DEF Tracked, HandlerPCs
  <2>4. ASSUME NEW u \in Loopers, NEW e \in Events, HeldBy(u, e) PROVE HeldBy(u, e)'
    <3>1. CASE u # t
      BY <2>2, <2>4, <3>1, HeldKept DEF SamePhase
    <3>2. CASE u = t
      <4>1. \A i \in Due(t) : i \in Due(t)'
        BY <2>2, <2>3 DEF Due, Live, HandlerPCs
      <4>2. pc'[t] # "wait"
        BY <2>2
      <4> QED  BY <2>2, <2>4, <3>2, <4>1, <4>2 DEF HeldBy
    <3> QED  BY <3>1, <3>2
  <2> QED  BY <2>2, <2>4, HeldFrame
<1>2. CASE HandlerDel(t)
  BY <1>0, <1>2, MoveHeld DEF HandlerDel, HandlerPCs, evvars, knvars, loopvars
<1>3. CASE HandlerReadd(t)
  <2>1. CASE failed' = "set"
    BY <2>1 DEF HeldInv
  <2>2. CASE pc' = [pc EXCEPT ![t] = "addchk"]
    BY <1>0, <1>3, <2>2, MoveHeld DEF HandlerReadd, HandlerPCs, knvars, loopvars
  <2> QED  BY <1>3, <2>1, <2>2 DEF HandlerReadd
<1>4. CASE HandlerAddOther(t)
  BY <1>0, <1>4, MoveHeld DEF HandlerAddOther, HandlerPCs, evvars, knvars, loopvars
<1> QED  BY <1>1, <1>2, <1>3, <1>4

\* Completing a live slot re-enables its knote later, or deletes it.
LEMMA CompleteHeld ==
  ASSUME TypeInv, HeldInv, failed = "none", UNCHANGED MULT_KQ, NEW t \in Loopers, Complete(t)
  PROVE  HeldInv'
<1> DEFINE e == Current(t)
           k == idx[t]
<1>1. /\ pc[t] = "complete" /\ pc'[t] \in {"complete", "enable"}
      /\ UNCHANGED <<evlist, epochs, epoch, holder>>
      /\ \A u \in Loopers \ {t} : enlist'[u] = enlist[u]
      /\ enlist[t] \subseteq enlist'[t]
  <2>1. enlist' = enlist \/ enlist' = [enlist EXCEPT ![t] = enlist[t] \cup {idx[t]}]
    BY DEF Complete, CompleteCurrent
  <2>2. enlist \in [Loopers -> SUBSET Nat]
    BY DEF TypeInv, TypeOK
  <2> QED  BY <2>1, <2>2, CompleteSlots DEF Complete
<1>s. /\ e \in Events /\ k \in 1..Len(evlist[t]) /\ Len(evlist[t]) \in Nat
      /\ e = evlist[t][k].ev
      /\ Tracked(t) = k..Len(evlist[t]) /\ Tracked(t)' = (k + 1)..Len(evlist[t])
  BY CompleteSlots
<1>2. CASE failed' # "none"
  BY <1>2 DEF HeldInv
<1>3. CASE failed' = "none"
  <2>1. \/ kn' = kn
        \/ epochs[t][k] = epoch[e] /\ kn' = [kn EXCEPT ![e] = "none"]
    BY DEF Complete, CompleteCurrent
  <2>2. \A f \in Events : kn'[f] = "held" => kn[f] = "held"
    BY <2>1, <1>s DEF TypeInv, TypeOK
  <2>3. epochs[t][k] = epoch[e] /\ ~MULT_KQ => kn'[e] # "held" \/ k \in enlist'[t]
    <3>1. ASSUME epochs[t][k] = epoch[e], ~MULT_KQ, e \in PersistEvents PROVE k \in enlist'[t]
      <4>1. enlist' = [enlist EXCEPT ![t] = enlist[t] \cup {idx[t]}]
        BY <3>1 DEF Complete, CompleteCurrent
      <4> QED  BY <4>1 DEF TypeInv, TypeOK
    <3>2. ASSUME epochs[t][k] = epoch[e], e \notin PersistEvents PROVE kn'[e] # "held"
      <4>1. CompleteCurrent(t, e)
        BY <3>2 DEF Complete
      <4>2. kn' = [kn EXCEPT ![e] = "none"]
        <5>1. failed' = IF DelNoblockOk(e) THEN failed ELSE "del"
          BY <3>2, <4>1 DEF CompleteCurrent
        <5>2. kn' = IF DelNoblockOk(e) THEN [kn EXCEPT ![e] = "none"] ELSE kn
          BY <3>2, <4>1 DEF CompleteCurrent
        <5> QED  BY <1>3, <5>1, <5>2
      <4> QED  BY <4>2, <1>s DEF TypeInv, TypeOK
    <3> QED  BY <3>1, <3>2
  <2>4. ASSUME NEW u \in Loopers, NEW f \in Events, kn'[f] = "held", HeldBy(u, f)
        PROVE  HeldBy(u, f)'
    <3>1. CASE u # t
      BY <1>1, <2>4, <3>1, CompleteSlots, HeldKept
    <3>2. CASE u = t /\ MULT_KQ
      BY <1>1, <3>2 DEF HeldBy
    <3>3. CASE u = t /\ ~MULT_KQ
      <4>1. PICK i \in Due(t) : evlist[t][i].ev = f
        BY <2>4, <3>3 DEF HeldBy
      <4>2. i \in 1..Len(evlist[t]) /\ (i \in Live(t) \/ i \in enlist[t])
        BY <1>1, <4>1 DEF Due
      <4>3. i \in Due(t)'
        <5>1. CASE i \in enlist'[t]
          BY <1>1, <4>2, <5>1 DEF Due
        <5>2. CASE i \in Live(t) /\ i # k
          <6>1. i \in Live(t)'
            BY <1>1, <1>s, <5>2 DEF Live
          <6> QED  BY <1>1, <4>2, <6>1 DEF Due
        <5>3. CASE i \in Live(t) /\ i = k
          <6>1. f = e /\ epochs[t][k] = epoch[e]
            BY <4>1, <5>3, <1>s DEF Live
          <6> QED  BY <2>3, <2>4, <3>3, <5>1, <5>3, <6>1
        <5> QED  BY <1>1, <4>2, <5>1, <5>2, <5>3
      <4> QED  BY <1>1, <3>3, <4>1, <4>3 DEF HeldBy
    <3> QED  BY <3>1, <3>2, <3>3
  <2> QED  BY <1>1, <2>2, <2>4, HeldFrame
<1> QED  BY <1>2, <1>3

\* EV_ENABLE gives back every due knote of the batch, so that none is due
\* when it is dropped.
LEMMA EnableUnlockHeld ==
  ASSUME TypeInv, HeldInv, failed = "none", UNCHANGED MULT_KQ, NEW t \in Loopers,
         Enable(t) \/ Unlock(t)
  PROVE  HeldInv'
<1>0. t \in Threads /\ pc \in [Threads -> PCs]
  BY DEF Threads, TypeInv, TypeOK
<1>1. CASE Enable(t)
  <2>1. CASE failed' # "none"
    BY <2>1 DEF HeldInv
  <2>2. CASE failed' = "none"
    <3> DEFINE S == {evlist[t][i] : i \in enlist[t]}
    <3>1. kn' = [e \in Events |-> IF \E r \in S : r.ev = e THEN "armed" ELSE kn[e]]
      BY <1>1, <2>2 DEF Enable
    <3>2. /\ pc[t] = "enable" /\ pc'[t] = "unlock"
          /\ UNCHANGED <<evlist, epochs, idx, epoch, holder, enlist>>
          /\ \A u \in Loopers \ {t} : pc'[u] = pc[u]
      BY <1>0, <1>1 DEF Enable, Threads, evvars, loopvars
    <3>3. ASSUME NEW u \in Loopers, NEW e \in Events, kn'[e] = "held", HeldBy(u, e)
          PROVE  HeldBy(u, e)'
      <4>1. CASE u # t
        BY <3>2, <3>3, <4>1, HeldKept DEF SamePhase
      <4>2. CASE u = t /\ MULT_KQ
        BY <3>2, <4>2 DEF HeldBy
      <4>3. CASE u = t /\ ~MULT_KQ
        <5>1. PICK i \in Due(t) : evlist[t][i].ev = e
          BY <3>3, <4>3 DEF HeldBy
        <5>2. i \in enlist[t]
          BY <3>2, <5>1 DEF Due, Live, Tracked, HandlerPCs
        <5>3. kn'[e] = "armed"
          BY <3>1, <5>1, <5>2
        <5> QED  BY <3>3, <5>3
      <4> QED  BY <4>1, <4>2, <4>3
    <3>4. \A e \in Events : kn'[e] = "held" => kn[e] = "held"
      BY <3>1
    <3> QED  BY <3>2, <3>3, <3>4, HeldFrame
  <2> QED  BY <2>1, <2>2
<1>2. CASE Unlock(t)
  <2>1. /\ pc[t] = "unlock" /\ pc'[t] = "kevent" /\ UNCHANGED <<idx, epoch, holder, kn>>
        /\ \A u \in Loopers \ {t} :
             /\ pc'[u] = pc[u] /\ evlist'[u] = evlist[u]
             /\ epochs'[u] = epochs[u] /\ enlist'[u] = enlist[u]
    BY <1>0, <1>2 DEF Unlock, Threads, evvars, knvars, TypeInv, TypeOK
  <2>2. ASSUME NEW u \in Loopers, NEW e \in Events, HeldBy(u, e) PROVE HeldBy(u, e)'
    <3>1. CASE u # t
      BY <2>1, <2>2, <3>1, HeldKept DEF SamePhase
    <3>2. CASE u = t
      BY <2>1, <2>2, <3>2, NothingDue DEF HeldBy
    <3> QED  BY <3>1, <3>2
  <2> QED  BY <2>1, <2>2, HeldFrame
<1> QED  BY <1>1, <1>2

\* event_add arms the knote it changes and event_del deletes it.
LEMMA ApiHeld ==
  ASSUME TypeInv, HeldInv, failed = "none", UNCHANGED MULT_KQ, NEW t \in Threads, ApiStep(t)
  PROVE  HeldInv'
<1>0. /\ kn \in [Events -> {"none", "armed", "held"}] /\ epoch \in [Events -> Nat]
      /\ kev[t].ev \in Events
      /\ (t \in Loopers => AfterAdd(t) \in HandlerPCs)
  BY ConstAssumption DEF TypeInv, TypeOK, AfterAdd, HandlerPCs
<1>1. ASSUME NEW k, k.ev \in Events, pc[t] \in {"del", "delretry"}, DelBody(t, k) PROVE HeldInv'
  <2>1. PICK p \in {AfterDel(t, FALSE), AfterDel(t, TRUE), "delwait"} : pc' = [pc EXCEPT ![t] = p]
    BY <1>1 DEF DelBody
  <2>2. t \in Loopers => pc[t] \in HandlerPCs /\ p \in HandlerPCs
    BY <1>1, ConstAssumption DEF AfterDel, HandlerPCs
  <2>3. UNCHANGED <<evlist, epochs, idx, enlist, holder>>
    BY <1>1 DEF DelBody, loopvars
  <2>4. \/ UNCHANGED <<kn, epoch>>
        \/ /\ kn' = [kn EXCEPT ![k.ev] = "none"]
           /\ epoch' = epoch \/ epoch' = [epoch EXCEPT ![k.ev] = @ + 1]
    BY <1>1 DEF DelBody, Changed
  <2>5. \A e \in Events : kn'[e] = "held" => kn[e] = "held" /\ epoch'[e] = epoch[e]
    BY <1>0, <1>1, <2>4
  <2> QED  BY <2>1, <2>2, <2>3, <2>5, MoveHeld
<1>2. CASE Del(t)
  BY <1>0, <1>1, <1>2 DEF Del
<1>3. CASE DelRetry(t)
  BY <1>0, <1>1, <1>3 DEF DelRetry
<1>4. CASE AddCheck(t) \/ AddFails(t)
  <2>1. PICK p \in {AfterAdd(t), "add"} : pc' = [pc EXCEPT ![t] = p]
    BY <1>4 DEF AddCheck, AddFails
  <2>2. /\ pc[t] \in HandlerPCs /\ "add" \in HandlerPCs
        /\ UNCHANGED <<evlist, epochs, idx, enlist, epoch, kn, holder>>
    BY <1>4 DEF AddCheck, AddFails, HandlerPCs, loopvars, evvars, knvars
  <2> QED  BY <1>0, <2>1, <2>2, MoveHeld
<1>5. CASE AddCommit(t)
  <2>1. /\ pc[t] \in HandlerPCs /\ pc' = [pc EXCEPT ![t] = AfterAdd(t)]
        /\ UNCHANGED <<evlist, epochs, idx, enlist, holder>>
    BY <1>5 DEF AddCommit, HandlerPCs, loopvars
  <2>2. /\ kn' = [kn EXCEPT ![kev[t].ev] = "armed"]
        /\ epoch' = epoch \/ epoch' = [epoch EXCEPT ![kev[t].ev] = @ + 1]
    BY <1>5 DEF AddCommit, Changed
  <2>3. \A e \in Events : kn'[e] = "held" => kn[e] = "held" /\ epoch'[e] = epoch[e]
    BY <1>0, <2>2
  <2> QED  BY <1>0, <2>1, <2>3, MoveHeld
<1> QED  BY <1>2, <1>3, <1>4, <1>5 DEF ApiStep

\* Spurious wakeups, new calls and arriving data hand out no knote.
LEMMA OutsideHeld ==
  ASSUME TypeInv, HeldInv, failed = "none", UNCHANGED MULT_KQ, OutsideStep
  PROVE  HeldInv'
<1>0. UNCHANGED <<evlist, epochs, idx, enlist, epoch, kn, holder>>
  BY DEF OutsideStep, SpuriousWake, CallDel, CallAdd, Arrive, evvars, knvars, loopvars
<1>1. ASSUME NEW t \in Threads, SpuriousWake(t) PROVE HeldInv'
  <2>1. pc[t] \in HandlerPCs /\ pc' = [pc EXCEPT ![t] = "delretry"] /\ "delretry" \in HandlerPCs
    BY <1>1 DEF SpuriousWake, HandlerPCs
  <2> QED  BY <1>0, <2>1, MoveHeld
<1>2. ASSUME NEW c \in Callers, NEW e \in Events, CallDel(c, e) \/ CallAdd(c, e) PROVE HeldInv'
  <2>1. PICK p : pc' = [pc EXCEPT ![c] = p]
    BY <1>2 DEF CallDel, CallAdd
  <2>2. c \in Threads /\ c \notin Loopers
    BY ConstAssumption DEF Threads
  <2> QED  BY <1>0, <2>1, <2>2, MoveHeld
<1>3. ASSUME NEW e \in Events, Arrive(e) PROVE HeldInv'
  <2>1. pc' = pc
    BY <1>3 DEF Arrive
  <2> QED  BY <1>0, <2>1, HeldFrame, HeldKept DEF SamePhase
<1> QED  BY <1>1, <1>2, <1>3 DEF OutsideStep

\* Together with the type invariant, the fate of held knotes is inductive.
LEMMA NextHeld == TypeInv /\ HeldInv /\ [Next]_vars => HeldInv'
<1> SUFFICES ASSUME TypeInv, HeldInv, [Next]_vars PROVE HeldInv'
  OBVIOUS
<1>1. CASE UNCHANGED vars
  <2>1. UNCHANGED <<MULT_KQ, pc, evlist, epochs, idx, enlist, epoch, kn, holder, failed>>
    BY <1>1 DEF vars, evvars, knvars, loopvars
  <2>2. CASE failed = "none"
    BY <2>1, <2>2, HeldFrame, HeldKept DEF SamePhase
  <2>3. CASE failed # "none"
    BY <2>1, <2>3 DEF HeldInv
  <2> QED  BY <2>2, <2>3
<1>2. ASSUME NEW t \in Loopers, Running, LoopStep(t) PROVE HeldInv'
  <2>1. failed = "none" /\ UNCHANGED MULT_KQ
    BY <1>2 DEF Running
  <2>2. CASE MarkFails(t)
    BY <2>2 DEF MarkFails, HeldInv
  <2> QED  BY <1>2, <2>1, <2>2, KeventHeld, MarkHeld, HandlerHeld, CompleteHeld, EnableUnlockHeld
           DEF LoopStep
<1>3. ASSUME NEW t \in Threads, Running, ApiStep(t) PROVE HeldInv'
  BY <1>3, ApiHeld DEF Running
<1> QED  BY <1>1, <1>2, <1>3, OutsideHeld DEF Next, Running, OutsideStep

\* A due slot, or on a multi-queue kqueue the next kevent(), is what
\* NoStrandedKnote asks for.
LEMMA HeldNotStranded == HeldInv => NoStrandedKnote
<1> SUFFICES ASSUME HeldInv, failed = "none", NEW e \in Events, kn[e] = "held"
             PROVE  \/ MULT_KQ /\ pc[holder[e]] # "wait"
                    \/ ~MULT_KQ /\ \E i \in 1..Len(evlist[holder[e]]) :
                         /\ evlist[holder[e]][i].ev = e
                         /\ \/ pc[holder[e]] = "mark" /\ i >= idx[holder[e]]
                            \/ i \in Live(holder[e])
                            \/ i \in enlist[holder[e]]
  BY DEF NoStrandedKnote
<1>1. PICK t \in Loopers : holder[e] = t /\ HeldBy(t, e)
  BY DEF HeldInv
<1> QED  BY <1>1 DEF HeldBy, Due

\* No delivered knote is forgotten: whatever handlers and callers do, the
\* thread it went to marks, completes or re-enables it.
THEOREM NoneStranded == Spec => []NoStrandedKnote
<1>1. Init => TypeInv /\ HeldInv
  <2>1. Init => HeldInv
    BY DEF Init, HeldInv
  <2> QED  BY <2>1, InitType
<1>2. TypeInv /\ HeldInv /\ [Next]_vars => (TypeInv /\ HeldInv)'
  BY NextType, NextHeld
<1>3. TypeInv /\ HeldInv => NoStrandedKnote
  BY HeldNotStranded
<1> QED  BY <1>1, <1>2, <1>3, PTL DEF Spec

-----------------------------------------------------------------------------
(* Assertions: none fails while handlers delete only their own event, as    *)
(* those of memcached do, its idle timeouts apart                           *)

HandlersOnly == Callers = {} /\ "delother" \notin HandlerOps

\* The event of a due slot is queued and withheld from the others under the
\* ident the batch recorded; unless the slot is live it is not active.
SlotsHeld(t) ==
  /\ enlist[t] \subseteq 1..Len(evlist[t])
  /\ pc[t] \in HandlerPCs \cup {"mark"} => enlist[t] = {}
  /\ \A i \in Due(t) : LET r == evlist[t][i] IN
       /\ kn[r.ev] = "held" /\ holder[r.ev] = t /\ knIdent[r.ev] = r.ident
       /\ "PENDING" \in state[r.ev]
       /\ "ACTIVE" \in state[r.ev] => i \in Live(t) /\ i \notin enlist[t]

\* No handler touches the slots of the handlers that run after it, so each
\* finds its own event live.
Handling(t) ==
  /\ pc[t] \in HandlerPCs => \A j \in 1..Len(evlist[t]) : j > idx[t] => j \in Live(t)
  /\ pc[t] = "mark" => \A j \in 1..Len(evlist[t]) : j < idx[t] => j \in Live(t)
  /\ pc[t] \in {"run", "del"} => idx[t] \in Live(t)
  /\ pc[t] = "del" => kev[t].ev = Current(t)
  /\ pc[t] \notin {"delwait", "delretry"}

\* An event has a knote exactly while it is queued, under the event's ident.
KnotesMatch == \A e \in Events :
  /\ kn[e] = "none" <=> "PENDING" \notin state[e]
  /\ kn[e] # "none" => knIdent[e] = ident[e]

\* Between a successful event_del and event_add, or inside event_add, the
\* event is idle and no other handler has it.
Resetting(t) == pc[t] \in {"changed", "addchk", "add"}

Adders == \A t \in Loopers : Resetting(t) =>
  /\ state[kev[t].ev] = {}
  /\ pc[t] = "add" => kev[t].ident = ident[kev[t].ev]
  /\ \A u \in Loopers : Resetting(u) /\ kev[u].ev = kev[t].ev => t = u

SafeInv ==
  /\ NoAssertFails
  /\ \A t \in Loopers : SlotsHeld(t) /\ Handling(t)
  /\ KnotesMatch
  /\ Adders

\* What SlotsHeld says of an event is unchanged.
Same(e) ==
  /\ state'[e] = state[e] /\ epoch'[e] = epoch[e]
  /\ kn'[e] = kn[e] /\ holder'[e] = holder[e] /\ knIdent'[e] = knIdent[e]

\* No event is in the batch of a looper twice, and every slot has an event.
LEMMA BatchSlot ==
  ASSUME TypeInv, NEW t \in Loopers, NEW i \in 1..Len(evlist[t])
  PROVE  /\ evlist[t][i].ev \in Events
         /\ \A j \in 1..Len(evlist[t]) : evlist[t][j].ev = evlist[t][i].ev => i = j
<1>1. evlist[t] \in Seq([ev : Events, ident : Int])
  BY DEF TypeInv, TypeOK
<1>2. evlist[t][i] \in [ev : Events, ident : Int]
  BY <1>1, ElementOfSeq
<1> QED  BY <1>2 DEF TypeInv, BatchOK, BatchShape

\* Epochs only grow, so that a slot which is not live stays so.
LEMMA LiveKept ==
  ASSUME TypeInv, OwnInv, NEW t \in Loopers, SlotsKept(t),
         \A e \in Events : epoch'[e] >= epoch[e]
  PROVE  /\ Live(t)' \subseteq Live(t)
         /\ \A i \in Live(t)' : epoch'[evlist[t][i].ev] = epoch[evlist[t][i].ev]
         /\ \A i \in Live(t) :
              epoch'[evlist[t][i].ev] = epoch[evlist[t][i].ev] => i \in Live(t)'
<1>1. ASSUME NEW i \in Live(t)'
      PROVE  i \in Live(t) /\ epoch'[evlist[t][i].ev] = epoch[evlist[t][i].ev]
  <2>1. /\ i \in Tracked(t) /\ evlist'[t][i] = evlist[t][i] /\ epochs'[t][i] = epochs[t][i]
        /\ epochs[t][i] = epoch'[evlist[t][i].ev]
    BY <1>1 DEF Live, SlotsKept
  <2> DEFINE e == evlist[t][i].ev
  <2>2. e \in Events /\ epochs[t][i] \in Nat /\ epoch[e] \in Nat
    BY <2>1, TrackedSlot DEF TypeInv, TypeOK
  <2>3. epochs[t][i] <= epoch[e]
    BY <2>1 DEF OwnInv, LiveOwned
  <2>4. epoch[e] = epochs[t][i]
    BY <2>1, <2>2, <2>3
  <2> QED  BY <2>1, <2>4 DEF Live
<1>2. ASSUME NEW i \in Live(t), epoch'[evlist[t][i].ev] = epoch[evlist[t][i].ev]
      PROVE  i \in Live(t)'
  BY <1>2 DEF Live, SlotsKept
<1> QED  BY <1>1, <1>2

\* A looper that stays in its phase keeps its slots when the events of its due
\* slots are left alone, or when its own handler has added or deleted them.
LEMMA SlotsFrame ==
  ASSUME TypeInv, OwnInv, NEW t \in Loopers, SlotsHeld(t), SamePhase(t),
         \/ pc'[t] = pc[t]
         \/ pc[t] \in HandlerPCs /\ pc'[t] \in HandlerPCs,
         enlist'[t] = enlist[t], \A e \in Events : epoch'[e] >= epoch[e],
         \A i \in Due(t) :
           \/ Same(evlist[t][i].ev)
           \/ pc[t] \in HandlerPCs /\ epoch'[evlist[t][i].ev] # epoch[evlist[t][i].ev]
  PROVE  SlotsHeld(t)' /\ \A i \in Live(t) : Same(evlist[t][i].ev) => i \in Live(t)'
<1>1. /\ Live(t)' \subseteq Live(t)
      /\ \A i \in Live(t)' : epoch'[evlist[t][i].ev] = epoch[evlist[t][i].ev]
      /\ \A i \in Live(t) :
           epoch'[evlist[t][i].ev] = epoch[evlist[t][i].ev] => i \in Live(t)'
  BY PhaseSlots, LiveKept
<1>2. evlist'[t] = evlist[t] /\ idx'[t] = idx[t]
  BY DEF SamePhase
<1>3. ASSUME NEW i \in Due(t)' PROVE i \in Due(t) /\ Same(evlist[t][i].ev)
  <2>1. i \in 1..Len(evlist[t])
    BY <1>2, <1>3 DEF Due
  <2>2. i \in Due(t)
    BY <1>1, <1>2, <1>3, <2>1 DEF Due, HandlerPCs
  <2>3. pc[t] \in HandlerPCs => i \in Live(t)'
    BY <1>3 DEF SlotsHeld, Due, HandlerPCs
  <2> QED  BY <1>1, <2>2, <2>3
<1>4. \A i \in Live(t) : Same(evlist[t][i].ev) => i \in Live(t)'
  BY <1>1 DEF Same
<1>5. enlist'[t] \subseteq 1..Len(evlist'[t])
      /\ (pc'[t] \in HandlerPCs \cup {"mark"} => enlist'[t] = {})
  BY <1>2 DEF SlotsHeld, HandlerPCs
<1>6. ASSUME NEW i \in Due(t)'
      PROVE  LET r == evlist'[t][i] IN
             /\ kn'[r.ev] = "held" /\ holder'[r.ev] = t /\ knIdent'[r.ev] = r.ident
             /\ "PENDING" \in state'[r.ev]
             /\ "ACTIVE" \in state'[r.ev] => i \in Live(t)' /\ i \notin enlist'[t]
  <2>1. i \in Due(t) /\ Same(evlist[t][i].ev)
    BY <1>3, <1>6
  <2> QED  BY <1>2, <1>4, <2>1 DEF SlotsHeld, Same
<1> QED  BY <1>4, <1>5, <1>6 DEF SlotsHeld

\* The step of one looper leaves the others' slots and handlers alone when it
\* leaves the knotes alone that were delivered to them.
LEMMA OthersSafe ==
  ASSUME TypeInv, OwnInv, SafeInv, NEW t \in Loopers,
         \A u \in Loopers \ {t} :
           SamePhase(u) /\ pc'[u] = pc[u] /\ enlist'[u] = enlist[u] /\ kev'[u] = kev[u],
         \A e \in Events : epoch'[e] >= epoch[e],
         \A e \in Events : kn[e] = "held" /\ holder[e] # t => Same(e)
  PROVE  \A u \in Loopers \ {t} : SlotsHeld(u)' /\ Handling(u)'
<1> TAKE u \in Loopers \ {t}
<1>1. SlotsHeld(u) /\ Handling(u)
  BY DEF SafeInv
<1>2. ASSUME NEW i \in Due(u) PROVE Same(evlist[u][i].ev)
  <2>1. i \in 1..Len(evlist[u])
    BY DEF Due
  <2>2. evlist[u][i].ev \in Events
    BY <2>1, BatchSlot
  <2> QED  BY <1>1, <2>2 DEF SlotsHeld
<1>3. Live(u) \subseteq Due(u)
  BY DEF Due, Live, Tracked
<1>4. SlotsHeld(u)' /\ Live(u) \subseteq Live(u)'
  BY <1>1, <1>2, <1>3, SlotsFrame
<1>5. Handling(u)'
  BY <1>1, <1>4 DEF Handling, SamePhase, Current
<1> QED  BY <1>4, <1>5

\* Nobody else adds or deletes the event a handler is about to re-add.
LEMMA AddersFrame ==
  ASSUME Adders, NEW t \in Loopers,
         \A u \in Loopers \ {t} :
           /\ pc'[u] = pc[u] /\ kev'[u] = kev[u]
           /\ Resetting(u) => /\ state'[kev[u].ev] = state[kev[u].ev]
                              /\ ident'[kev[u].ev] = ident[kev[u].ev],
         Resetting(t)' =>
           /\ state'[kev'[t].ev] = {}
           /\ pc'[t] = "add" => kev'[t].ident = ident'[kev'[t].ev]
           /\ \A u \in Loopers \ {t} : Resetting(u) => kev[u].ev # kev'[t].ev
  PROVE  Adders'
<1>1. ASSUME NEW u \in Loopers, Resetting(u)'
      PROVE  /\ state'[kev'[u].ev] = {}
             /\ pc'[u] = "add" => kev'[u].ident = ident'[kev'[u].ev]
  BY <1>1 DEF Adders, Resetting
<1>2. ASSUME NEW u \in Loopers, NEW w \in Loopers, Resetting(u)', Resetting(w)',
             kev'[u].ev = kev'[w].ev
      PROVE  u = w
  BY <1>2 DEF Adders, Resetting
<1> QED  BY <1>1, <1>2 DEF Adders

\* A handler that leaves the due slots of its batch alone, its own perhaps
\* apart, keeps all slots and handlers safe.
LEMMA MoveSafe ==
  ASSUME TypeInv, OwnInv, SafeInv, NEW t \in Loopers, NEW p \in HandlerPCs \ {"delwait", "delretry"},
         pc[t] \in HandlerPCs, pc' = [pc EXCEPT ![t] = p],
         UNCHANGED <<evlist, epochs, idx, enlist>>,
         \A u \in Loopers \ {t} : kev'[u] = kev[u],
         \A e \in Events : epoch'[e] >= epoch[e],
         \A e \in Events : kn[e] = "held" /\ holder[e] # t => Same(e),
         \A i \in Due(t) :
           \/ Same(evlist[t][i].ev)
           \/ i = idx[t] /\ epoch'[evlist[t][i].ev] # epoch[evlist[t][i].ev],
         p \in {"run", "del"} =>
           idx[t] \in Live(t) /\ Same(Current(t)) /\ kev'[t].ev = Current(t)
  PROVE  \A u \in Loopers : SlotsHeld(u)' /\ Handling(u)'
<1>1. t \in Threads /\ pc \in [Threads -> PCs] /\ BatchOK /\ SlotsHeld(t) /\ Handling(t)
  BY DEF Threads, TypeInv, TypeOK, SafeInv
<1>2. \A u \in Loopers : SamePhase(u)
  BY <1>1, MoveFrame
<1>3. pc'[t] = p /\ \A u \in Loopers \ {t} : pc'[u] = pc[u]
  BY <1>1 DEF Threads
<1>4. \A u \in Loopers \ {t} : SlotsHeld(u)' /\ Handling(u)'
  BY <1>2, <1>3, OthersSafe
<1>5. SlotsHeld(t)' /\ \A i \in Live(t) : Same(evlist[t][i].ev) => i \in Live(t)'
  BY <1>1, <1>2, <1>3, SlotsFrame
<1>6. Handling(t)'
  <2>1. ASSUME NEW j \in 1..Len(evlist[t]), j > idx[t] PROVE j \in Live(t)'
    <3>1. j \in Live(t)
      BY <1>1, <2>1 DEF Handling
    <3>2. j \in Due(t) /\ j # idx[t]
      <4>1. idx[t] \in Nat
        BY DEF TypeInv, TypeOK
      <4> QED  BY <2>1, <3>1, <4>1 DEF Due
    <3> QED  BY <1>5, <3>1, <3>2
  <2>2. p \in {"run", "del"} => idx[t] \in Live(t)'
    BY <1>5 DEF Current
  <2> QED  BY <1>3, <2>1, <2>2 DEF Handling, Current, HandlerPCs
<1> QED  BY <1>4, <1>6, <1>5

\* So does one that touches no event, unless it is to delete its own.
LEMMA QuietSafe ==
  ASSUME TypeInv, OwnInv, SafeInv, NEW t \in Loopers, NEW p \in HandlerPCs \ {"delwait", "delretry"},
         pc[t] \in HandlerPCs, pc' = [pc EXCEPT ![t] = p],
         UNCHANGED <<evlist, epochs, idx, enlist, state, epoch, kn, holder, knIdent>>,
         NEW r, kev' = kev \/ kev' = [kev EXCEPT ![t] = r],
         p \in {"run", "del"} => idx[t] \in Live(t) /\ kev'[t].ev = Current(t)
  PROVE  \A u \in Loopers : SlotsHeld(u)' /\ Handling(u)'
<1>1. \A e : Same(e)
  BY DEF Same
<1>2. \A e \in Events : epoch'[e] >= epoch[e]
  BY DEF TypeInv, TypeOK
<1>3. \A u \in Loopers \ {t} : kev'[u] = kev[u]
  BY DEF TypeInv, TypeOK, Threads
<1> QED  BY <1>1, <1>2, <1>3, MoveSafe

\* Waiting in kevent() gives knotes back, and only armed ones are delivered;
\* their events are queued and not active.
LEMMA KeventSafe ==
  ASSUME TypeInv, OwnInv, SafeInv, NEW t \in Loopers, KeventEnter(t) \/ KeventReturn(t)
  PROVE  SafeInv'
<1>0. /\ t \in Threads /\ pc \in [Threads -> PCs] /\ epoch \in [Events -> Nat]
      /\ kn \in [Events -> {"none", "armed", "held"}]
      /\ failed = "none" /\ KnotesMatch /\ Adders
  BY DEF Threads, TypeInv, TypeOK, SafeInv, NoAssertFails
<1>1. CASE KeventEnter(t)
  <2>1. /\ pc[t] = "kevent" /\ pc'[t] = "wait" /\ \A u \in Loopers \ {t} : pc'[u] = pc[u]
        /\ UNCHANGED <<evlist, epochs, idx, enlist, state, epoch, ident, holder, knIdent, kev, failed>>
    BY <1>0, <1>1 DEF KeventEnter, Threads, evvars, loopvars
  <2>2. kn' = [e \in Events |->
                 IF MULT_KQ /\ kn[e] = "held" /\ holder[e] = t THEN "armed" ELSE kn[e]]
    BY <1>1 DEF KeventEnter
  <2>3. \A e \in Events : kn[e] = "held" /\ holder[e] # t => Same(e)
    BY <2>1, <2>2 DEF Same
  <2>4. \A u \in Loopers \ {t} : SlotsHeld(u)' /\ Handling(u)'
    BY <1>0, <2>1, <2>3, OthersSafe DEF SamePhase
  <2>5. SlotsHeld(t)' /\ Handling(t)'
    <3>1. Due(t)' = {}
      BY <2>1 DEF Due, Live, Tracked, HandlerPCs
    <3>2. enlist'[t] \subseteq 1..Len(evlist'[t])
      BY <2>1 DEF SafeInv, SlotsHeld
    <3> QED  BY <2>1, <3>1, <3>2 DEF SlotsHeld, Handling, HandlerPCs
  <2>6. KnotesMatch'
    BY <1>0, <2>1, <2>2 DEF KnotesMatch
  <2>7. Adders'
    BY <1>0, <2>1, AddersFrame DEF Resetting
  <2> QED  BY <1>0, <2>1, <2>4, <2>5, <2>6, <2>7 DEF SafeInv, NoAssertFails
<1>2. CASE KeventReturn(t)
  <2>1. PICK n \in 1..NEVENT : \E b \in [1..n -> Ready] : Deliver(t, n, b)
    BY <1>2 DEF KeventReturn
  <2>2. PICK b \in [1..n -> Ready] : Deliver(t, n, b)
    BY <2>1
  <2>3. n \in Nat \ {0} /\ b \in [1..n -> Events]
    BY ConstAssumption DEF Ready
  <2> DEFINE s == [i \in 1..n |-> [ev |-> b[i], ident |-> knIdent[b[i]]]]
  <2>4. Len(s) = n /\ \A i \in 1..n : s[i].ev = b[i] /\ s[i].ident = knIdent[b[i]]
    BY <2>3, BatchSeq DEF TypeInv, TypeOK
  <2>5. evlist' = [evlist EXCEPT ![t] = s]
    BY <2>2 DEF Deliver
  <2> HIDE DEF s
  <2>6. /\ evlist'[t] = s /\ epochs'[t] = <<>> /\ idx'[t] = 1 /\ enlist'[t] = {} /\ pc'[t] = "mark"
        /\ UNCHANGED <<state, epoch, ident, knIdent, kev, failed>>
        /\ \A u \in Loopers \ {t} :
             SamePhase(u) /\ pc'[u] = pc[u] /\ enlist'[u] = enlist[u] /\ kev'[u] = kev[u]
    <3>1. /\ epochs' = [epochs EXCEPT ![t] = <<>>] /\ idx' = [idx EXCEPT ![t] = 1]
          /\ enlist' = [enlist EXCEPT ![t] = {}] /\ pc' = [pc EXCEPT ![t] = "mark"]
          /\ UNCHANGED <<state, epoch, ident, knIdent, kev, failed>>
      BY <2>2 DEF Deliver, evvars
    <3>2. /\ evlist \in [Loopers -> Seq([ev : Events, ident : Int])]
          /\ epochs \in [Loopers -> Seq(Nat)] /\ idx \in [Loopers -> Nat \ {0}]
          /\ enlist \in [Loopers -> SUBSET Nat]
      BY DEF TypeInv, TypeOK
    <3>3. evlist'[t] = s /\ epochs'[t] = <<>> /\ idx'[t] = 1 /\ enlist'[t] = {} /\ pc'[t] = "mark"
      BY <1>0, <2>5, <3>1, <3>2
    <3>4. ASSUME NEW u \in Loopers \ {t}
          PROVE  SamePhase(u) /\ pc'[u] = pc[u] /\ enlist'[u] = enlist[u] /\ kev'[u] = kev[u]
      <4>1. evlist'[u] = evlist[u]
        BY <2>5, <3>2
      <4>2. epochs'[u] = epochs[u] /\ idx'[u] = idx[u] /\ enlist'[u] = enlist[u]
        BY <3>1, <3>2
      <4>3. pc'[u] = pc[u] /\ kev'[u] = kev[u]
        BY <1>0, <3>1
      <4> QED  BY <4>1, <4>2, <4>3 DEF SamePhase
    <3> QED  BY <3>1, <3>3, <3>4
  <2>7. \A i \in 1..n : b[i] \in Events /\ kn[b[i]] = "armed"
    BY DEF Ready
  <2>8. \A e \in Events : ~(\E i \in 1..n : b[i] = e) => Same(e)
    BY <2>2, <2>6 DEF Deliver, Same
  <2>9. \A u \in Loopers \ {t} : SlotsHeld(u)' /\ Handling(u)'
    <3>1. \A e \in Events : epoch'[e] >= epoch[e]
      BY <1>0, <2>6
    <3>2. \A e \in Events : kn[e] = "held" /\ holder[e] # t => Same(e)
      BY <2>7, <2>8
    <3> QED  BY <2>6, <3>1, <3>2, OthersSafe
  <2>10. \A i \in 1..n : "PENDING" \in state[b[i]] /\ "ACTIVE" \notin state[b[i]]
    <3> TAKE i \in 1..n
    <3>1. "PENDING" \in state[b[i]]
      BY <1>0, <2>7 DEF KnotesMatch
    <3>2. ASSUME "ACTIVE" \in state[b[i]] PROVE FALSE
      <4>1. PICK u \in Loopers : \E j \in Live(u) : evlist[u][j].ev = b[i]
        BY <2>7, <3>2 DEF OwnInv, ActiveHasOwner
      <4>2. PICK j \in Live(u) : evlist[u][j].ev = b[i]
        BY <4>1
      <4>3. j \in Due(u)
        BY <4>2 DEF Due, Live, Tracked
      <4> QED  BY <2>7, <4>2, <4>3 DEF SafeInv, SlotsHeld
    <3> QED  BY <3>1, <3>2
  <2>11. SlotsHeld(t)' /\ Handling(t)'
    <3>1. \A i \in 1..n : kn'[b[i]] = "held" /\ holder'[b[i]] = t
      BY <2>2, <2>7 DEF Deliver
    <3>2. Due(t)' \subseteq 1..n
      BY <2>4, <2>6 DEF Due
    <3>3. SlotsHeld(t)'
      BY <2>4, <2>6, <2>10, <3>1, <3>2 DEF SlotsHeld
    <3>4. Handling(t)'
      BY <2>4, <2>6 DEF Handling, HandlerPCs
    <3> QED  BY <3>3, <3>4
  <2>12. KnotesMatch'
    <3>1. \A e \in Events : kn'[e] = kn[e] \/ (kn[e] = "armed" /\ kn'[e] = "held")
      BY <2>7, <2>8, <2>2 DEF Same, Deliver
    <3> QED  BY <1>0, <2>6, <3>1 DEF KnotesMatch
  <2>13. Adders'
    BY <1>0, <2>6, AddersFrame DEF Resetting
  <2> QED  BY <1>0, <2>6, <2>9, <2>11, <2>12, <2>13 DEF SafeInv, NoAssertFails
<1> QED  BY <1>1, <1>2

\* The event to be marked is not active and has the ident kevent() reported:
\* no assertion of the marking loop fails.
LEMMA MarkPasses ==
  ASSUME TypeInv, OwnInv, SafeInv, NEW t \in Loopers, pc[t] = "mark"
  PROVE  /\ MarkAsserts(t) = "none"
         /\ kn[Current(t)] = "held" /\ holder[Current(t)] = t /\ "PENDING" \in state[Current(t)]
<1>1. Current(t) \in Events /\ idx[t] \in 1..Len(evlist[t]) /\ Current(t) = evlist[t][idx[t]].ev
  BY CurrentEvent DEF Current
<1>2. idx[t] \in Due(t) /\ idx[t] \notin Live(t)
  BY <1>1 DEF Due, Live, Tracked, HandlerPCs
<1>3. /\ kn[Current(t)] = "held" /\ holder[Current(t)] = t
      /\ knIdent[Current(t)] = evlist[t][idx[t]].ident
      /\ "PENDING" \in state[Current(t)] /\ "ACTIVE" \notin state[Current(t)]
  BY <1>1, <1>2 DEF SafeInv, SlotsHeld
<1>4. ident[Current(t)] = evlist[t][idx[t]].ident
  BY <1>1, <1>3 DEF SafeInv, KnotesMatch
<1> QED  BY <1>3, <1>4 DEF MarkAsserts

\* Marking makes the slot of the event live.
LEMMA MarkSafe ==
  ASSUME TypeInv, OwnInv, SafeInv, NEW t \in Loopers, Mark(t)
  PROVE  SafeInv'
<1> DEFINE e == Current(t)
           k == idx[t]
<1>0. /\ pc[t] = "mark" /\ failed = "none" /\ KnotesMatch /\ Adders
      /\ SlotsHeld(t) /\ Handling(t)
      /\ kn[e] = "held" /\ holder[e] = t /\ "PENDING" \in state[e]
  BY MarkPasses DEF Mark, SafeInv, NoAssertFails
<1>1. /\ e \in Events /\ k \in 1..Len(evlist[t]) /\ Len(evlist[t]) \in Nat
      /\ e = evlist[t][k].ev
      /\ Tracked(t) = 1..(k - 1) /\ Tracked(t)' = 1..k
      /\ \A i \in 1..(k - 1) : epochs'[t][i] = epochs[t][i]
      /\ epochs'[t][k] = epoch[e]
      /\ \/ pc'[t] = "run" /\ k = Len(evlist[t]) /\ idx'[t] = 1
         \/ pc'[t] = "mark" /\ idx'[t] = k + 1
  BY MarkSlots DEF Mark, TypeInv, TypeOK
<1>2. /\ UNCHANGED <<epoch, ident, kn, knIdent, holder, evlist, enlist, kev, failed>>
      /\ state' = [state EXCEPT ![e] = state[e] \cup {"ACTIVE"}]
  BY DEF Mark, knvars
<1>3. state \in [Events -> SUBSET {"ACTIVE", "PENDING"}] /\ epoch \in [Events -> Nat]
  BY DEF TypeInv, TypeOK
<1>4. \A f \in Events \ {e} : Same(f)
  BY <1>2, <1>3 DEF Same
<1>5. \A u \in Loopers \ {t} : SlotsHeld(u)' /\ Handling(u)'
  BY <1>0, <1>2, <1>3, <1>4, MarkSlots, OthersSafe
<1>6. Live(t)' = Live(t) \cup {k}
  BY <1>1, <1>2 DEF Live
<1>7. ASSUME NEW i \in Due(t)'
      PROVE  LET r == evlist[t][i] IN
             /\ kn[r.ev] = "held" /\ holder[r.ev] = t /\ knIdent[r.ev] = r.ident
             /\ "PENDING" \in state'[r.ev]
             /\ "ACTIVE" \in state'[r.ev] => i \in Live(t)'
  <2>1. i \in 1..Len(evlist[t]) /\ i \in Due(t)
    BY <1>0, <1>1, <1>2, <1>6, <1>7 DEF Due, SlotsHeld
  <2>2. CASE i = k
    BY <1>0, <1>1, <1>3, <1>2, <1>6, <2>1, <2>2 DEF SlotsHeld
  <2>3. CASE i # k
    <3>1. evlist[t][i].ev \in Events \ {e}
      BY <1>1, <2>1, <2>3, BatchSlot
    <3>2. state'[evlist[t][i].ev] = state[evlist[t][i].ev]
      BY <1>4, <3>1 DEF Same
    <3> QED  BY <1>0, <1>6, <2>1, <3>2 DEF SlotsHeld
  <2> QED  BY <2>2, <2>3
<1>8. SlotsHeld(t)'
  BY <1>0, <1>2, <1>7 DEF SlotsHeld, HandlerPCs
<1>9. Handling(t)'
  BY <1>0, <1>1, <1>2, <1>6 DEF Handling, HandlerPCs
<1>10. KnotesMatch'
  BY <1>0, <1>1, <1>2, <1>3 DEF KnotesMatch
<1>11. Adders'
  <2>1. \A u \in Loopers \ {t} : Resetting(u) => kev[u].ev # e
    BY <1>0 DEF Adders
  <2>2. kev \in [Threads -> [ev : Events, ident : Int]]
    BY DEF TypeInv, TypeOK
  <2>3. \A u \in Loopers \ {t} : Resetting(u) => state'[kev[u].ev] = state[kev[u].ev]
    BY <1>2, <1>3, <2>1, <2>2 DEF Threads
  <2> QED  BY <1>0, <1>1, <1>2, <2>3, MarkSlots, AddersFrame DEF Resetting
<1> QED  BY <1>0, <1>2, <1>5, <1>8, <1>9, <1>10, <1>11 DEF SafeInv, NoAssertFails

\* A handler works on its own event, and starts on another one only if that
\* is idle.
LEMMA HandlerSafe ==
  ASSUME TypeInv, OwnInv, SafeInv, HandlersOnly, NEW t \in Loopers,
         HandlerReturn(t) \/ HandlerDel(t) \/ HandlerReadd(t) \/ HandlerAddOther(t)
  PROVE  SafeInv'
<1>0. /\ t \in Threads /\ pc \in [Threads -> PCs] /\ epoch \in [Events -> Nat]
      /\ kev \in [Threads -> [ev : Events, ident : Int]]
      /\ failed = "none" /\ KnotesMatch /\ Adders /\ SlotsHeld(t) /\ Handling(t)
  BY DEF Threads, TypeInv, TypeOK, SafeInv, NoAssertFails
<1>f. ASSUME UNCHANGED <<state, epoch, kn, holder, knIdent>> PROVE \A e : Same(e)
  BY <1>f DEF Same
<1>1. CASE HandlerReturn(t)
  <2>1. Len(evlist[t]) \in Nat /\ idx[t] \in 1..Len(evlist[t])
    BY <1>1, CurrentEvent DEF HandlerReturn, HandlerPCs
  <2>2. /\ pc[t] \in HandlerPCs
        /\ UNCHANGED <<evlist, epochs, enlist, state, epoch, ident, kn, holder, knIdent, kev, failed>>
        /\ \/ pc'[t] = "complete" /\ idx'[t] = 1
           \/ pc'[t] = "run" /\ idx[t] # Len(evlist[t]) /\ idx'[t] = idx[t] + 1
        /\ \A u \in Loopers \ {t} : pc'[u] = pc[u] /\ idx'[u] = idx[u]
    BY <1>0, <1>1 DEF HandlerReturn, HandlerPCs, Threads, evvars, knvars, TypeInv, TypeOK
  <2>3. Tracked(t)' = Tracked(t)
    BY <2>1, <2>2 DEF Tracked, HandlerPCs
  <2>4. Live(t)' = Live(t)
    BY <2>2, <2>3 DEF Live
  <2>5. \A u \in Loopers \ {t} : SlotsHeld(u)' /\ Handling(u)'
    <3>1. \A e : Same(e)
      BY <1>f, <2>2
    <3>2. \A e \in Events : epoch'[e] >= epoch[e]
      BY <1>0, <2>2
    <3>3. \A u \in Loopers \ {t} :
            SamePhase(u) /\ pc'[u] = pc[u] /\ enlist'[u] = enlist[u] /\ kev'[u] = kev[u]
      BY <2>2 DEF SamePhase
    <3> QED  BY <3>1, <3>2, <3>3, OthersSafe
  <2>6. Due(t)' \subseteq Due(t)
    BY <1>0, <2>2, <2>4 DEF Due, SlotsHeld, HandlerPCs
  <2>7. SlotsHeld(t)'
    BY <1>0, <2>2, <2>4, <2>6 DEF SlotsHeld, HandlerPCs
  <2>8. Handling(t)'
    BY <1>0, <2>1, <2>2, <2>4 DEF Handling, HandlerPCs
  <2>9. KnotesMatch'
    BY <1>0, <2>2 DEF KnotesMatch
  <2>10. Adders'
    BY <1>0, <2>2, AddersFrame DEF Resetting
  <2> QED  BY <1>0, <2>2, <2>5, <2>7, <2>8, <2>9, <2>10 DEF SafeInv, NoAssertFails
<1>2. CASE HandlerDel(t)
  <2>1. /\ pc[t] = "run" /\ pc' = [pc EXCEPT ![t] = "del"]
        /\ UNCHANGED <<evlist, epochs, idx, enlist, state, epoch, ident, kn, holder, knIdent, failed>>
        /\ kev' = [kev EXCEPT ![t] = [ev |-> Current(t), ident |-> Unset]]
    BY <1>2 DEF HandlerDel, HandlersOnly, evvars, knvars, loopvars
  <2>2. idx[t] \in Live(t) /\ kev'[t].ev = Current(t)
    BY <1>0, <2>1 DEF Handling
  <2>3. \A u \in Loopers : SlotsHeld(u)' /\ Handling(u)'
    BY <2>1, <2>2, QuietSafe DEF HandlerPCs
  <2>4. KnotesMatch'
    BY <1>0, <2>1 DEF KnotesMatch
  <2>5. Adders'
    BY <1>0, <2>1, AddersFrame DEF Resetting, Threads
  <2> QED  BY <1>0, <2>1, <2>3, <2>4, <2>5 DEF SafeInv, NoAssertFails
<1>3. CASE HandlerReadd(t)
  <2> DEFINE e == kev[t].ev
  <2>1. pc[t] = "changed" /\ e \in Events /\ state[e] = {}
    BY <1>0, <1>3 DEF HandlerReadd, Adders, Resetting
  <2>2. PICK n :
          /\ ident' = [ident EXCEPT ![e] = n]
          /\ kev' = [kev EXCEPT ![t] = [ev |-> e, ident |-> n]]
          /\ pc' = [pc EXCEPT ![t] = "addchk"]
          /\ UNCHANGED failed
    BY <1>3, <2>1 DEF HandlerReadd, SetAssertFails
  <2>3. UNCHANGED <<evlist, epochs, idx, enlist, state, epoch, kn, holder, knIdent>>
    BY <1>3 DEF HandlerReadd, knvars, loopvars
  <2>4. \A u \in Loopers : SlotsHeld(u)' /\ Handling(u)'
    <3>1. PICK r : kev' = [kev EXCEPT ![t] = r]
      BY <2>1, <2>2
    <3>2. pc[t] \in HandlerPCs /\ "addchk" \in HandlerPCs \ {"delwait", "delretry"}
      BY <2>1, <2>2 DEF HandlerPCs
    <3>3. /\ pc' = [pc EXCEPT ![t] = "addchk"]
          /\ UNCHANGED <<evlist, epochs, idx, enlist, state, epoch, kn, holder, knIdent>>
      BY <2>1, <2>2, <2>3
    <3> QED  BY <3>1, <3>2, <3>3, QuietSafe
  <2>5. KnotesMatch'
    BY <1>0, <2>1, <2>2, <2>3 DEF KnotesMatch, TypeInv, TypeOK
  <2>6. \A u \in Loopers \ {t} : Resetting(u) => kev[u].ev # e
    BY <1>0, <2>1 DEF Adders, Resetting
  <2>7. kev'[t].ev = e /\ pc'[t] = "addchk"
        /\ \A u \in Loopers \ {t} : pc'[u] = pc[u] /\ kev'[u] = kev[u]
    BY <1>0, <2>2 DEF Threads
  <2>8. \A u \in Loopers \ {t} : Resetting(u) => ident'[kev[u].ev] = ident[kev[u].ev]
    BY <1>0, <2>2, <2>6 DEF Threads, TypeInv, TypeOK
  <2>9. Adders'
    BY <1>0, <2>1, <2>3, <2>6, <2>7, <2>8, AddersFrame
  <2> QED  BY <1>0, <2>2, <2>4, <2>5, <2>9 DEF SafeInv, NoAssertFails
<1>4. CASE HandlerAddOther(t)
  <2>1. PICK e \in Events : Fresh(e) /\ kev' = [kev EXCEPT ![t] = [ev |-> e, ident |-> ident[e]]]
    BY <1>4 DEF HandlerAddOther
  <2>2. /\ pc[t] = "run" /\ pc' = [pc EXCEPT ![t] = "addchk"]
        /\ UNCHANGED <<evlist, epochs, idx, enlist, state, epoch, ident, kn, holder, knIdent, failed>>
    BY <1>4 DEF HandlerAddOther, evvars, knvars, loopvars
  <2>3. \A u \in Loopers : SlotsHeld(u)' /\ Handling(u)'
    <3>1. PICK r : kev' = [kev EXCEPT ![t] = r]
      BY <2>1, <2>2
    <3>2. pc[t] \in HandlerPCs /\ "addchk" \in HandlerPCs \ {"delwait", "delretry"}
      BY <2>1, <2>2 DEF HandlerPCs
    <3>3. /\ pc' = [pc EXCEPT ![t] = "addchk"]
          /\ UNCHANGED <<evlist, epochs, idx, enlist, state, epoch, kn, holder, knIdent>>
      BY <2>1, <2>2
    <3> QED  BY <3>1, <3>2, <3>3, QuietSafe
  <2>4. KnotesMatch'
    BY <1>0, <2>2 DEF KnotesMatch
  <2>5. kev'[t].ev = e /\ pc'[t] = "addchk"
        /\ \A u \in Loopers \ {t} : pc'[u] = pc[u] /\ kev'[u] = kev[u]
    BY <1>0, <2>1, <2>2 DEF Threads
  <2>6. \A u \in Loopers \ {t} : Resetting(u) => kev[u].ev # e
    BY <2>1 DEF Fresh, Adding, Resetting, Threads
  <2>7. Adders'
    BY <1>0, <2>1, <2>2, <2>5, <2>6, AddersFrame DEF Fresh
  <2> QED  BY <1>0, <2>2, <2>3, <2>4, <2>7 DEF SafeInv, NoAssertFails
<1> QED  BY <1>1, <1>2, <1>3, <1>4

\* Nobody waits on stop_cv, so a signal wakes nobody.
LEMMA NobodyWaits ==
  ASSUME TypeInv, SafeInv, HandlersOnly, NEW p, NEW e, Signalled(p, e)
  PROVE  pc' = p
<1>1. \A u \in Threads : pc[u] # "delwait"
  BY DEF HandlersOnly, Threads, SafeInv, Handling
<1> QED  BY <1>1 DEF Signalled

\* A live slot that is completed belongs to a queued event with a knote of its
\* own ident: event_del does not fail, and a persistent event is re-enabled.
LEMMA CompleteSafe ==
  ASSUME TypeInv, OwnInv, SafeInv, HandlersOnly, NEW t \in Loopers, Complete(t)
  PROVE  SafeInv'
<1> DEFINE e == Current(t)
           k == idx[t]
           q == IF k = Len(evlist[t]) THEN "enable" ELSE "complete"
<1>0. /\ t \in Threads /\ pc \in [Threads -> PCs] /\ epoch \in [Events -> Nat]
      /\ state \in [Events -> SUBSET {"ACTIVE", "PENDING"}]
      /\ kn \in [Events -> {"none", "armed", "held"}]
      /\ enlist \in [Loopers -> SUBSET Nat]
      /\ pc[t] = "complete" /\ failed = "none" /\ KnotesMatch /\ Adders /\ SlotsHeld(t)
  BY DEF Threads, TypeInv, TypeOK, SafeInv, NoAssertFails, Complete
<1>1. /\ e \in Events /\ k \in 1..Len(evlist[t]) /\ Len(evlist[t]) \in Nat
      /\ e = evlist[t][k].ev
      /\ pc'[t] \in {"complete", "enable"}
      /\ Tracked(t) = k..Len(evlist[t]) /\ Tracked(t)' = (k + 1)..Len(evlist[t])
  BY CompleteSlots
<1>2. pc' = [pc EXCEPT ![t] = q]
  <2>1. Signalled([pc EXCEPT ![t] = q], e)
    BY DEF Complete
  <2> HIDE DEF q, e
  <2> QED  BY <2>1, NobodyWaits
<1>3. /\ UNCHANGED <<evlist, epochs, epoch, ident, knIdent, holder, kev>>
      /\ \A u \in Loopers \ {t} : SamePhase(u) /\ pc'[u] = pc[u] /\ enlist'[u] = enlist[u]
  <2>1. enlist' = enlist \/ enlist' = [enlist EXCEPT ![t] = enlist[t] \cup {idx[t]}]
    BY DEF Complete, CompleteCurrent
  <2>2. \A u \in Loopers \ {t} : pc'[u] = pc[u] /\ enlist'[u] = enlist[u]
    BY <1>0, <1>2, <2>1 DEF Threads
  <2> QED  BY <2>2, CompleteSlots DEF Complete
<1>4. CASE epochs[t][k] = epoch[e]
  <2>1. k \in Live(t) /\ k \in Due(t)
    BY <1>1, <1>4 DEF Live, Due
  <2>2. /\ kn[e] = "held" /\ holder[e] = t /\ "PENDING" \in state[e]
        /\ "ACTIVE" \in state[e] /\ k \notin enlist[t]
    BY <1>0, <1>1, <2>1 DEF SlotsHeld, OwnInv, LiveOwned
  <2>3. DelNoblockOk(e)
    BY <1>0, <1>1, <2>2 DEF DelNoblockOk, KnotesMatch
  <2>4. /\ failed' = "none"
        /\ \/ /\ state' = [state EXCEPT ![e] = state[e] \ {"ACTIVE"}]
              /\ kn' = kn
              /\ enlist' = enlist \/ enlist' = [enlist EXCEPT ![t] = enlist[t] \cup {k}]
           \/ /\ state' = [state EXCEPT ![e] = {}]
              /\ kn' = [kn EXCEPT ![e] = "none"]
              /\ enlist' = enlist
    BY <1>0, <1>4, <2>3 DEF Complete, CompleteCurrent
  <2>5. \A f \in Events \ {e} : Same(f)
    BY <1>0, <1>3, <2>4 DEF Same
  <2>6. \A u \in Loopers \ {t} : SlotsHeld(u)' /\ Handling(u)'
    BY <1>0, <1>3, <2>2, <2>5, OthersSafe
  <2>7. /\ enlist'[t] \subseteq enlist[t] \cup {k}
        /\ k \in enlist'[t] => kn'[e] = "held" /\ "PENDING" \in state'[e] /\ "ACTIVE" \notin state'[e]
    BY <1>0, <1>1, <2>2, <2>4
  <2>8. Live(t)' = Live(t) \ {k}
    BY <1>1, <1>3 DEF Live
  <2>9. ASSUME NEW i \in Due(t)'
        PROVE  LET r == evlist[t][i] IN
               /\ kn'[r.ev] = "held" /\ holder[r.ev] = t /\ knIdent[r.ev] = r.ident
               /\ "PENDING" \in state'[r.ev]
               /\ "ACTIVE" \in state'[r.ev] => i \in Live(t)' /\ i \notin enlist'[t]
    <3>1. i \in 1..Len(evlist[t])
      BY <1>3, <2>9 DEF Due
    <3>2. i \in Live(t)' \/ i \in enlist'[t]
      BY <1>1, <2>9 DEF Due
    <3>3. CASE i = k
      <4>1. k \in enlist'[t]
        BY <2>8, <3>2, <3>3
      <4> QED  BY <1>0, <1>1, <2>1, <2>2, <2>7, <3>3, <4>1 DEF SlotsHeld
    <3>4. CASE i # k
      <4>1. Same(evlist[t][i].ev)
        BY <1>1, <2>5, <3>1, <3>4, BatchSlot
      <4>2. i \in Due(t)
        BY <1>0, <2>7, <2>8, <3>1, <3>2, <3>4 DEF Due
      <4>3. i \in enlist'[t] => i \in enlist[t]
        BY <2>7, <3>4
      <4>4. i \in Live(t) => i \in Live(t)'
        BY <2>8, <3>4
      <4> QED  BY <1>0, <4>1, <4>2, <4>3, <4>4 DEF SlotsHeld, Same
    <3> QED  BY <3>3, <3>4
  <2>10. SlotsHeld(t)'
    <3>1. enlist'[t] \subseteq 1..Len(evlist'[t])
      BY <1>0, <1>1, <1>3, <2>7 DEF SlotsHeld
    <3>2. pc'[t] \notin HandlerPCs \cup {"mark"}
      BY <1>1 DEF HandlerPCs
    <3> QED  BY <1>3, <2>9, <3>1, <3>2 DEF SlotsHeld
  <2>11. Handling(t)'
    BY <1>1 DEF Handling, HandlerPCs
  <2>12. KnotesMatch'
    <3>1. kn'[e] = "none" <=> "PENDING" \notin state'[e]
      BY <1>0, <1>1, <2>2, <2>4
    <3>2. ASSUME NEW f \in Events
          PROVE  /\ kn'[f] = "none" <=> "PENDING" \notin state'[f]
                 /\ kn'[f] # "none" => kn[f] # "none"
      BY <1>0, <2>2, <2>5, <3>1, <3>2 DEF KnotesMatch, Same
    <3> QED  BY <1>0, <1>3, <3>2 DEF KnotesMatch
  <2>13. Adders'
    <3>1. \A u \in Loopers : Resetting(u) => kev[u].ev # e
      BY <1>0, <2>2 DEF Adders
    <3>2. kev \in [Threads -> [ev : Events, ident : Int]]
      BY DEF TypeInv, TypeOK
    <3>3. \A u \in Loopers : Resetting(u) => state'[kev[u].ev] = state[kev[u].ev]
      BY <2>5, <3>1, <3>2 DEF Same, Threads
    <3>4. ~Resetting(t)'
      BY <1>1 DEF Resetting
    <3> QED  BY <1>0, <1>3, <3>3, <3>4, AddersFrame
  <2> QED  BY <2>4, <2>6, <2>10, <2>11, <2>12, <2>13 DEF SafeInv, NoAssertFails
<1>5. CASE epochs[t][k] # epoch[e]
  <2>1. UNCHANGED <<state, kn, enlist, failed>>
    BY <1>5 DEF Complete
  <2>2. \A f : Same(f)
    BY <1>3, <2>1 DEF Same
  <2>3. \A u \in Loopers \ {t} : SlotsHeld(u)' /\ Handling(u)'
    BY <1>0, <1>3, <2>1, <2>2, OthersSafe
  <2>4. Live(t)' = Live(t)
    BY <1>1, <1>3, <1>5 DEF Live
  <2>5. Due(t)' \subseteq Due(t)
    BY <1>0, <1>1, <1>3, <2>1, <2>4 DEF Due
  <2>6. SlotsHeld(t)'
    <3>1. pc'[t] \notin HandlerPCs \cup {"mark"}
      BY <1>1 DEF HandlerPCs
    <3> QED  BY <1>0, <1>3, <2>1, <2>4, <2>5, <3>1 DEF SlotsHeld
  <2>7. Handling(t)'
    BY <1>1 DEF Handling, HandlerPCs
  <2>8. KnotesMatch'
    BY <1>0, <1>3, <2>1 DEF KnotesMatch
  <2>9. Adders'
    <3>1. ~Resetting(t)'
      BY <1>1 DEF Resetting
    <3> QED  BY <1>0, <1>3, <2>1, <3>1, AddersFrame
  <2> QED  BY <1>0, <2>1, <2>3, <2>6, <2>7, <2>8, <2>9 DEF SafeInv, NoAssertFails
<1> QED  BY <1>4, <1>5

\* The knotes to be re-enabled are all there; afterwards the batch is dropped.
LEMMA EnableUnlockSafe ==
  ASSUME TypeInv, OwnInv, SafeInv, NEW t \in Loopers, Enable(t) \/ Unlock(t)
  PROVE  SafeInv'
<1>0. /\ t \in Threads /\ pc \in [Threads -> PCs] /\ epoch \in [Events -> Nat]
      /\ failed = "none" /\ KnotesMatch /\ Adders /\ SlotsHeld(t)
  BY DEF Threads, TypeInv, TypeOK, SafeInv, NoAssertFails
<1>1. CASE Enable(t)
  <2> DEFINE S == {evlist[t][i] : i \in enlist[t]}
  <2>1. /\ pc[t] = "enable" /\ pc'[t] = "unlock"
        /\ UNCHANGED <<evlist, epochs, idx, enlist, state, epoch, ident, holder, knIdent, kev>>
        /\ \A u \in Loopers \ {t} : pc'[u] = pc[u]
    BY <1>0, <1>1 DEF Enable, Threads, evvars, loopvars
  <2>2. \A i \in enlist[t] :
          /\ evlist[t][i].ev \in Events /\ kn[evlist[t][i].ev] = "held"
          /\ holder[evlist[t][i].ev] = t /\ knIdent[evlist[t][i].ev] = evlist[t][i].ident
    <3> TAKE i \in enlist[t]
    <3>1. i \in 1..Len(evlist[t])
      BY <1>0 DEF SlotsHeld
    <3>2. i \in Due(t)
      BY <2>1, <3>1 DEF Due
    <3> QED  BY <1>0, <3>1, <3>2, BatchSlot DEF SlotsHeld
  <2>3. /\ failed' = "none"
        /\ kn' = [e \in Events |-> IF \E r \in S : r.ev = e THEN "armed" ELSE kn[e]]
    <3>1. \A r \in S : kn[r.ev] # "none" /\ knIdent[r.ev] = r.ident
      BY <2>2
    <3> HIDE DEF S
    <3>2. IF \A r \in S : kn[r.ev] # "none" /\ knIdent[r.ev] = r.ident
          THEN /\ kn' = [e \in Events |-> IF \E r \in S : r.ev = e THEN "armed" ELSE kn[e]]
               /\ UNCHANGED failed
          ELSE failed' = "enable" /\ UNCHANGED kn
      BY <1>1 DEF Enable, S
    <3> QED  BY <1>0, <3>1, <3>2
  <2>4. \A e \in Events :
          kn'[e] = kn[e] \/ (kn[e] = "held" /\ holder[e] = t /\ kn'[e] = "armed")
    BY <2>2, <2>3
  <2>5. \A e \in Events : kn[e] = "held" /\ holder[e] # t => Same(e)
    BY <2>1, <2>4 DEF Same
  <2>6. \A u \in Loopers \ {t} : SlotsHeld(u)' /\ Handling(u)'
    BY <1>0, <2>1, <2>5, OthersSafe DEF SamePhase
  <2>7. Due(t)' = {}
    BY <2>1 DEF Due, Live, Tracked, HandlerPCs
  <2>8. SlotsHeld(t)' /\ Handling(t)'
    BY <1>0, <2>1, <2>7 DEF SlotsHeld, Handling, HandlerPCs
  <2>9. KnotesMatch'
    BY <1>0, <2>1, <2>4 DEF KnotesMatch
  <2>10. Adders'
    BY <1>0, <2>1, AddersFrame DEF Resetting
  <2> QED  BY <2>3, <2>6, <2>8, <2>9, <2>10 DEF SafeInv, NoAssertFails
<1>2. CASE Unlock(t)
  <2>1. /\ pc[t] = "unlock" /\ pc'[t] = "kevent" /\ enlist'[t] = {}
        /\ UNCHANGED <<idx, state, epoch, ident, kn, holder, knIdent, kev, failed>>
        /\ \A u \in Loopers \ {t} :
             /\ pc'[u] = pc[u] /\ evlist'[u] = evlist[u]
             /\ epochs'[u] = epochs[u] /\ enlist'[u] = enlist[u]
    BY <1>0, <1>2 DEF Unlock, Threads, evvars, knvars, TypeInv, TypeOK
  <2>2. \A e : Same(e)
    BY <2>1 DEF Same
  <2>3. \A u \in Loopers \ {t} : SlotsHeld(u)' /\ Handling(u)'
    BY <1>0, <2>1, <2>2, OthersSafe DEF SamePhase
  <2>4. Due(t)' = {}
    BY <2>1 DEF Due, Live, Tracked, HandlerPCs
  <2>5. SlotsHeld(t)' /\ Handling(t)'
    BY <2>1, <2>4 DEF SlotsHeld, Handling, HandlerPCs
  <2>6. KnotesMatch'
    BY <1>0, <2>1 DEF KnotesMatch
  <2>7. Adders'
    BY <1>0, <2>1, AddersFrame DEF Resetting
  <2> QED  BY <1>0, <2>1, <2>3, <2>5, <2>6, <2>7 DEF SafeInv, NoAssertFails
<1> QED  BY <1>1, <1>2

\* A handler that deletes its own event ends the life of its own slot only.
LEMMA DelSafe ==
  ASSUME TypeInv, OwnInv, SafeInv, HandlersOnly, NEW t \in Loopers, Del(t)
  PROVE  SafeInv'
<1> DEFINE e == Current(t)
<1>0. /\ t \in Threads /\ pc \in [Threads -> PCs] /\ epoch \in [Events -> Nat]
      /\ state \in [Events -> SUBSET {"ACTIVE", "PENDING"}]
      /\ kn \in [Events -> {"none", "armed", "held"}]
      /\ kev \in [Threads -> [ev : Events, ident : Int]]
      /\ pc[t] = "del" /\ pc[t] \in HandlerPCs
      /\ failed = "none" /\ KnotesMatch /\ Adders /\ SlotsHeld(t) /\ Handling(t)
  BY DEF Threads, TypeInv, TypeOK, SafeInv, NoAssertFails, Del, HandlerPCs
<1>1. e \in Events /\ idx[t] \in 1..Len(evlist[t]) /\ e = evlist[t][idx[t]].ev /\ kev[t].ev = e
  BY <1>0, CurrentEvent DEF Current, Handling
<1>2. idx[t] \in Live(t) /\ idx[t] \in Due(t)
  BY <1>0, <1>1 DEF Handling, Due
<1>3. /\ kn[e] = "held" /\ holder[e] = t /\ "PENDING" \in state[e] /\ "ACTIVE" \in state[e]
      /\ owner[e] = t /\ knIdent[e] = ident[e]
  BY <1>0, <1>1, <1>2 DEF SlotsHeld, OwnInv, LiveOwned, KnotesMatch
<1>4. /\ kn' = [kn EXCEPT ![e] = "none"]
      /\ Changed(e, state[e] \ {"PENDING"})
      /\ pc' = [pc EXCEPT ![t] = AfterDel(t, TRUE)]
      /\ kev' = [kev EXCEPT ![t] = [ev |-> e, ident |-> ident[e]]]
  BY <1>1, <1>3 DEF Del, DelBody
<1>5. UNCHANGED <<evlist, epochs, idx, enlist, ident, knIdent, holder, failed>>
  BY DEF Del, DelBody, loopvars
<1>6. AfterDel(t, TRUE) = "changed"
  BY ConstAssumption DEF AfterDel
<1>7. /\ state' = [state EXCEPT ![e] = (state[e] \ {"PENDING"}) \ {"ACTIVE"}]
      /\ epoch' = [epoch EXCEPT ![e] = epoch[e] + 1]
  BY <1>3, <1>4 DEF Changed
<1>8. state'[e] = {} /\ kn'[e] = "none" /\ epoch'[e] = epoch[e] + 1 /\ epoch[e] \in Nat
  BY <1>0, <1>1, <1>4, <1>7
<1>9. \A f \in Events \ {e} : Same(f)
  BY <1>0, <1>4, <1>5, <1>7 DEF Same
<1>10. \A u \in Loopers : SlotsHeld(u)' /\ Handling(u)'
  <2>1. \A f \in Events : epoch'[f] >= epoch[f]
    BY <1>0, <1>8, <1>9 DEF Same
  <2>2. \A f \in Events : kn[f] = "held" /\ holder[f] # t => Same(f)
    BY <1>3, <1>9
  <2>3. ASSUME NEW i \in Due(t)
        PROVE  \/ Same(evlist[t][i].ev)
               \/ i = idx[t] /\ epoch'[evlist[t][i].ev] # epoch[evlist[t][i].ev]
    <3>1. i \in 1..Len(evlist[t])
      BY DEF Due
    <3>2. CASE i = idx[t]
      BY <1>1, <1>8, <3>2
    <3>3. CASE i # idx[t]
      BY <1>1, <1>9, <3>1, <3>3, BatchSlot
    <3> QED  BY <3>2, <3>3
  <2>4. \A u \in Loopers \ {t} : kev'[u] = kev[u]
    BY <1>0, <1>4 DEF Threads
  <2>5. "changed" \in HandlerPCs \ {"delwait", "delretry"} /\ pc' = [pc EXCEPT ![t] = "changed"]
    BY <1>4, <1>6 DEF HandlerPCs
  <2> QED  BY <1>0, <1>5, <2>1, <2>2, <2>3, <2>4, <2>5, MoveSafe
<1>11. KnotesMatch'
  <2>1. ASSUME NEW f \in Events
        PROVE  (kn'[f] = "none" <=> "PENDING" \notin state'[f])
               /\ (kn'[f] # "none" => kn'[f] = kn[f])
    BY <1>0, <1>8, <1>9 DEF KnotesMatch, Same
  <2> QED  BY <1>0, <1>5, <2>1 DEF KnotesMatch
<1>12. Adders'
  <2>1. \A u \in Loopers : Resetting(u) => kev[u].ev # e
    BY <1>0, <1>3 DEF Adders
  <2>2. \A u \in Loopers \ {t} : pc'[u] = pc[u] /\ kev'[u] = kev[u]
    BY <1>0, <1>4 DEF Threads
  <2>3. \A u \in Loopers \ {t} : Resetting(u) => state'[kev[u].ev] = state[kev[u].ev]
    BY <1>0, <1>9, <2>1 DEF Same, Threads
  <2>4. pc'[t] = "changed" /\ kev'[t].ev = e
    BY <1>0, <1>4, <1>6
  <2> QED  BY <1>0, <1>5, <1>8, <2>1, <2>2, <2>3, <2>4, AddersFrame
<1> QED  BY <1>0, <1>5, <1>10, <1>11, <1>12 DEF SafeInv, NoAssertFails

\* event_add finds the event idle and arms a knote under its current ident.
LEMMA AddSafe ==
  ASSUME TypeInv, OwnInv, SafeInv, HandlersOnly, NEW t \in Loopers,
         AddCheck(t) \/ AddCommit(t) \/ AddFails(t)
  PROVE  SafeInv'
<1> DEFINE e == kev[t].ev
<1>0. /\ t \in Threads /\ pc \in [Threads -> PCs] /\ epoch \in [Events -> Nat]
      /\ state \in [Events -> SUBSET {"ACTIVE", "PENDING"}]
      /\ kn \in [Events -> {"none", "armed", "held"}] /\ knIdent \in [Events -> Int]
      /\ ident \in [Events -> Int]
      /\ kev \in [Threads -> [ev : Events, ident : Int]] /\ e \in Events
      /\ failed = "none" /\ KnotesMatch /\ Adders /\ SlotsHeld(t)
      /\ AfterAdd(t) = "ret"
  BY ConstAssumption DEF Threads, TypeInv, TypeOK, SafeInv, NoAssertFails, AfterAdd
<1>1. pc[t] \in HandlerPCs /\ Resetting(t)
  BY DEF AddCheck, AddCommit, AddFails, HandlerPCs, Resetting
<1>2. /\ state[e] = {} /\ kn[e] = "none"
      /\ \A u \in Loopers \ {t} : Resetting(u) => kev[u].ev # e
  BY <1>0, <1>1 DEF Adders, KnotesMatch
<1>3. CASE AddCheck(t)
  <2>1. PICK n :
          /\ ident' = [ident EXCEPT ![e] = n]
          /\ kev' = [kev EXCEPT ![t] = [ev |-> e, ident |-> n]]
          /\ pc' = [pc EXCEPT ![t] = "add"]
    BY <1>2, <1>3 DEF AddCheck
  <2>2. UNCHANGED <<evlist, epochs, idx, enlist, state, epoch, kn, holder, knIdent, failed>>
    BY <1>3 DEF AddCheck, knvars, loopvars
  <2>3. \A u \in Loopers : SlotsHeld(u)' /\ Handling(u)'
    <3>1. PICK r : kev' = [kev EXCEPT ![t] = r]
      BY <2>1
    <3>2. pc' = [pc EXCEPT ![t] = "add"] /\ "add" \in HandlerPCs \ {"delwait", "delretry"}
      BY <2>1 DEF HandlerPCs
    <3> QED  BY <1>1, <2>2, <3>1, <3>2, QuietSafe
  <2>4. KnotesMatch'
    BY <1>0, <1>2, <2>1, <2>2 DEF KnotesMatch
  <2>5. /\ kev'[t].ev = e /\ kev'[t].ident = n /\ ident'[e] = n
        /\ \A u \in Loopers \ {t} : pc'[u] = pc[u] /\ kev'[u] = kev[u]
    BY <1>0, <2>1 DEF Threads
  <2>6. \A u \in Loopers \ {t} : Resetting(u) => ident'[kev[u].ev] = ident[kev[u].ev]
    BY <1>0, <1>2, <2>1 DEF Threads
  <2>7. Adders'
    BY <1>0, <1>2, <2>2, <2>5, <2>6, AddersFrame
  <2> QED  BY <1>0, <2>2, <2>3, <2>4, <2>7 DEF SafeInv, NoAssertFails
<1>4. CASE AddFails(t)
  <2>1. /\ pc' = [pc EXCEPT ![t] = "ret"]
        /\ UNCHANGED <<evlist, epochs, idx, enlist, state, epoch, ident, kn, holder, knIdent, kev, failed>>
    BY <1>0, <1>4 DEF AddFails, evvars, knvars, loopvars
  <2>2. \A u \in Loopers : SlotsHeld(u)' /\ Handling(u)'
    <3>1. "ret" \in HandlerPCs \ {"delwait", "delretry"} /\ kev' = kev
      BY <2>1 DEF HandlerPCs
    <3> QED  BY <1>1, <2>1, <3>1, QuietSafe
  <2>3. KnotesMatch'
    BY <1>0, <2>1 DEF KnotesMatch
  <2>4. Adders'
    BY <1>0, <2>1, AddersFrame DEF Resetting, Threads
  <2> QED  BY <1>0, <2>1, <2>2, <2>3, <2>4 DEF SafeInv, NoAssertFails
<1>5. CASE AddCommit(t)
  <2>1. /\ kn' = [kn EXCEPT ![e] = "armed"]
        /\ knIdent' = [knIdent EXCEPT ![e] = kev[t].ident]
        /\ state' = [state EXCEPT ![e] = (state[e] \cup {"PENDING"}) \ {"ACTIVE"}]
        /\ epoch' = epoch
        /\ pc' = [pc EXCEPT ![t] = "ret"]
        /\ kev[t].ident = ident[e]
        /\ UNCHANGED <<evlist, epochs, idx, enlist, ident, holder, kev, failed>>
    BY <1>0, <1>1, <1>2, <1>5 DEF AddCommit, Changed, loopvars, Adders
  <2>2. \A f \in Events \ {e} : Same(f)
    BY <1>0, <2>1 DEF Same
  <2>3. \A f \in Events : kn[f] = "held" => Same(f)
    BY <1>2, <2>2
  <2>4. \A u \in Loopers : SlotsHeld(u)' /\ Handling(u)'
    <3>1. \A i \in Due(t) : Same(evlist[t][i].ev)
      <4> TAKE i \in Due(t)
      <4>1. i \in 1..Len(evlist[t])
        BY DEF Due
      <4>2. evlist[t][i].ev \in Events
        BY <4>1, BatchSlot
      <4> QED  BY <1>0, <2>3, <4>2 DEF SlotsHeld
    <3>2. \A f \in Events : epoch'[f] >= epoch[f]
      BY <1>0, <2>1
    <3>3. "ret" \in HandlerPCs \ {"delwait", "delretry"} /\ \A u \in Loopers \ {t} : kev'[u] = kev[u]
      BY <2>1 DEF HandlerPCs
    <3> QED  BY <1>1, <2>1, <2>3, <3>1, <3>2, <3>3, MoveSafe
  <2>5. KnotesMatch'
    <3>1. kn'[e] = "armed" /\ "PENDING" \in state'[e] /\ knIdent'[e] = ident[e]
      BY <1>0, <2>1
    <3>2. ASSUME NEW f \in Events
          PROVE  /\ kn'[f] = "none" <=> "PENDING" \notin state'[f]
                 /\ kn'[f] # "none" => knIdent'[f] = ident'[f]
      BY <1>0, <2>1, <2>2, <3>1 DEF KnotesMatch, Same
    <3> QED  BY <3>2 DEF KnotesMatch
  <2>6. Adders'
    <3>1. \A u \in Loopers \ {t} : Resetting(u) => state'[kev[u].ev] = state[kev[u].ev]
      BY <1>0, <1>2, <2>2 DEF Same, Threads
    <3>2. ~Resetting(t)' /\ \A u \in Loopers \ {t} : pc'[u] = pc[u] /\ kev'[u] = kev[u]
      BY <1>0, <2>1 DEF Resetting, Threads
    <3> QED  BY <1>0, <2>1, <3>1, <3>2, AddersFrame
  <2> QED  BY <1>0, <2>1, <2>4, <2>5, <2>6 DEF SafeInv, NoAssertFails
<1> QED  BY <1>3, <1>4, <1>5

\* Without callers and waits only data arrive from outside.
LEMMA OutsideSafe ==
  ASSUME TypeInv, OwnInv, SafeInv, HandlersOnly, OutsideStep \/ UNCHANGED vars
  PROVE  SafeInv'
<1>1. (\E e \in Events : Arrive(e)) \/ UNCHANGED vars
  BY DEF OutsideStep, SpuriousWake, HandlersOnly, Threads, SafeInv, Handling
<1>2. /\ UNCHANGED <<evlist, epochs, idx, enlist, state, epoch, ident, kn, holder, knIdent>>
      /\ UNCHANGED <<pc, kev, failed>>
  BY <1>1 DEF Arrive, vars, evvars, knvars, loopvars
<1>3. \A t \in Loopers : Live(t)' = Live(t) /\ Due(t)' = Due(t)
  BY <1>2 DEF Live, Tracked, Due
<1>4. \A t \in Loopers : SlotsHeld(t)' /\ Handling(t)'
  BY <1>2, <1>3 DEF SafeInv, SlotsHeld, Handling, Current
<1>5. KnotesMatch' /\ Adders'
  BY <1>2 DEF SafeInv, KnotesMatch, Adders, Resetting
<1> QED  BY <1>2, <1>4, <1>5 DEF SafeInv, NoAssertFails

\* Together with types and ownership, safe slots are inductive.
LEMMA NextSafe ==
  ASSUME TypeInv, OwnInv, SafeInv, HandlersOnly, [Next]_vars
  PROVE  SafeInv'
<1>1. Threads = Loopers
  BY DEF HandlersOnly, Threads
<1>2. ASSUME NEW t \in Loopers, LoopStep(t) PROVE SafeInv'
  <2>1. ~MarkFails(t)
    BY MarkPasses DEF MarkFails
  <2> QED  BY <1>2, <2>1, KeventSafe, MarkSafe, HandlerSafe, CompleteSafe, EnableUnlockSafe
           DEF LoopStep
<1>3. ASSUME NEW t \in Loopers, ApiStep(t) PROVE SafeInv'
  <2>1. ~DelRetry(t)
    BY DEF DelRetry, SafeInv, Handling
  <2> QED  BY <1>3, <2>1, DelSafe, AddSafe DEF ApiStep
<1> QED  BY <1>1, <1>2, <1>3, OutsideSafe DEF Next, OutsideStep

\* Initially nothing is delivered and the queued events have armed knotes.
LEMMA InitSafe == Init => SafeInv
<1> SUFFICES ASSUME Init PROVE SafeInv
  OBVIOUS
<1>1. \A t \in Loopers : pc[t] = "kevent" /\ Due(t) = {} /\ enlist[t] = {}
  BY DEF Init, Due, Threads
<1>2. \A t \in Loopers : SlotsHeld(t) /\ Handling(t)
  BY <1>1 DEF SlotsHeld, Handling, HandlerPCs
<1>3. KnotesMatch
  BY DEF Init, KnotesMatch
<1>4. Adders
  BY <1>1 DEF Adders, Resetting
<1> QED  BY <1>2, <1>3, <1>4 DEF SafeInv, NoAssertFails, Init

\* While handlers delete only their own event and nobody else calls in, no
\* assert() fails and every handler runs for a queued event nobody changed.
THEOREM AssertsHold == Spec => [](HandlersOnly => NoAssertFails /\ RunsQueuedOnly)
<1> DEFINE Inv == TypeInv /\ OwnInv /\ (HandlersOnly => SafeInv)
<1>1. Init => Inv
  BY InitType, InitOwn, InitSafe
<1>2. Inv /\ [Next]_vars => Inv'
  <2> SUFFICES ASSUME Inv, [Next]_vars PROVE Inv'
    OBVIOUS
  <2>1. TypeInv' /\ OwnInv'
    BY NextType, NextOwn
  <2>2. ASSUME HandlersOnly PROVE SafeInv'
    BY <2>2, NextSafe
  <2>3. HandlersOnly' <=> HandlersOnly
    BY DEF HandlersOnly
  <2> QED  BY <2>1, <2>2, <2>3
<1>3. Inv => (HandlersOnly => NoAssertFails /\ RunsQueuedOnly)
  <2> SUFFICES ASSUME Inv, HandlersOnly PROVE NoAssertFails /\ RunsQueuedOnly
    OBVIOUS
  <2>1. ASSUME NEW t \in Loopers, pc[t] = "run"
        PROVE  idx[t] \in Live(t) /\ "PENDING" \in state[Current(t)]
    <3>1. idx[t] \in Live(t)
      BY <2>1 DEF SafeInv, Handling
    <3>2. idx[t] \in Due(t)
      BY <3>1 DEF Due, Live, Tracked
    <3> QED  BY <3>1, <3>2 DEF SafeInv, SlotsHeld, Current
  <2> QED  BY <2>1 DEF RunsQueuedOnly, SafeInv
<1> HIDE DEF Inv
<1> QED  BY <1>1, <1>2, <1>3, PTL DEF Spec
-----------------------------------------------------------------------------
(* Waiting: what a circle of waits takes *)

\* A locked event is in the batch of the thread that holds the lock, which has
\* completed it and not yet dropped the batch.
LocksHeld ==
  \A e \in Events : \A t \in Loopers : lk[e] = t =>
    /\ \E i \in 1..Len(evlist[t]) : evlist[t][i].ev = e /\ (pc[t] = "complete" => i < idx[t])
    /\ pc[t] \in {"complete", "enable", "unlock"}

\* A thread inside event_del waits for another thread, a handler is there for
\* its own event, and only loopers handle batches.
DelPCs == {"del", "delwait", "delretry"}

DelWaits ==
  /\ \A t \in Threads : pc[t] = "delwait" => owner[kev[t].ev] # t
  /\ "delother" \notin HandlerOps =>
       \A t \in Loopers : pc[t] \in DelPCs => kev[t].ev = Current(t)
  /\ \A t \in Threads : pc[t] \in {"mark", "complete"} => t \in Loopers

\* Only active events have an owner.
OwnersActive == \A e \in Events : owner[e] # NULL => "ACTIVE" \in state[e]

WaitInv == LocksHeld /\ DelWaits /\ OwnersActive

\* A looper outside the completion loop holds no lock and takes none, one that
\* moves inside it keeps those it has.
LEMMA LocksFrame ==
  ASSUME LocksHeld, UNCHANGED lk,
         \A u \in Loopers :
           \/ pc[u] \notin {"complete", "enable", "unlock"}
           \/ evlist'[u] = evlist[u] /\ idx'[u] = idx[u] /\ pc'[u] = pc[u]
           \/ evlist'[u] = evlist[u] /\ pc'[u] \in {"enable", "unlock"}
  PROVE  LocksHeld'
BY DEF LocksHeld

\* Nobody who waits in event_del becomes the owner of the event, and what a
\* handler deletes stays its own event.
LEMMA DelFrame ==
  ASSUME DelWaits, NEW t \in Threads,
         \A u \in Threads \ {t} :
           /\ pc'[u] = pc[u] \/ (pc[u] \in DelPCs /\ pc'[u] = "delretry")
           /\ kev'[u] = kev[u],
         \A u \in Loopers \ {t} : evlist'[u] = evlist[u] /\ idx'[u] = idx[u],
         \A e \in Events : owner'[e] = owner[e] \/ owner'[e] \in {t, NULL},
         \A u \in Threads : kev[u].ev \in Events,
         pc'[t] = "delwait" => owner'[kev'[t].ev] # t,
         t \in Loopers /\ pc'[t] \in DelPCs /\ "delother" \notin HandlerOps =>
           kev'[t].ev = Current(t)',
         pc'[t] \in {"mark", "complete"} => t \in Loopers
  PROVE  DelWaits'
<1>1. ASSUME NEW u \in Threads, pc'[u] = "delwait" PROVE owner'[kev'[u].ev] # u
  <2>1. CASE u = t
    BY <1>1, <2>1
  <2>2. CASE u # t
    <3>1. pc[u] = "delwait" /\ kev'[u] = kev[u] /\ owner[kev[u].ev] # u /\ u # NULL
      BY <1>1, <2>2, ConstAssumption DEF DelWaits
    <3> QED  BY <2>2, <3>1
  <2> QED  BY <2>1, <2>2
<1>2. ASSUME "delother" \notin HandlerOps, NEW u \in Loopers, pc'[u] \in DelPCs
      PROVE  kev'[u].ev = Current(u)'
  <2>1. CASE u = t
    BY <1>2, <2>1
  <2>2. CASE u # t
    BY <1>2, <2>2 DEF DelWaits, DelPCs, Current, Threads
  <2> QED  BY <2>1, <2>2
<1>3. ASSUME NEW u \in Threads, pc'[u] \in {"mark", "complete"} PROVE u \in Loopers
  BY <1>3 DEF DelWaits
<1> QED  BY <1>1, <1>2, <1>3 DEF DelWaits

\* Locks are taken one slot after the other and dropped with the batch.
LEMMA LoopLocks ==
  ASSUME TypeInv, LocksHeld, NEW t \in Loopers, LoopStep(t)
  PROVE  LocksHeld'
<1>0. /\ t \in Threads /\ pc \in [Threads -> PCs] /\ idx \in [Loopers -> Nat \ {0}]
      /\ evlist \in [Loopers -> Seq([ev : Events, ident : Int])]
      /\ lk \in [Events -> Loopers \cup {NULL}] /\ NULL \notin Loopers
  BY ConstAssumption DEF Threads, TypeInv, TypeOK
<1>1. CASE Complete(t)
  <2> DEFINE e == Current(t)
             k == idx[t]
  <2>1. /\ e \in Events /\ k \in 1..Len(evlist[t]) /\ e = evlist[t][k].ev
        /\ pc'[t] \in {"complete", "enable"}
        /\ evlist' = evlist
        /\ \A u \in Loopers \ {t} :
             SamePhase(u) /\ (pc'[u] = pc[u] \/ (pc[u] \in HandlerPCs /\ pc'[u] \in HandlerPCs))
    BY <1>1, CompleteSlots
  <2>2. /\ pc[t] = "complete" /\ lk' = [lk EXCEPT ![e] = t]
        /\ pc'[t] = "complete" => idx'[t] = k + 1
    <3>1. Signalled([pc EXCEPT ![t] = IF k = Len(evlist[t]) THEN "enable" ELSE "complete"], e)
          /\ idx' = [idx EXCEPT ![t] = IF k = Len(evlist[t]) THEN 1 ELSE @ + 1]
          /\ pc[t] = "complete" /\ lk' = [lk EXCEPT ![e] = t]
      BY <1>1 DEF Complete
    <3>2. k = Len(evlist[t]) => pc'[t] = "enable"
      <4> SUFFICES ASSUME k = Len(evlist[t])
                   PROVE  pc'[t] = "enable"
        OBVIOUS
      <4>1. Signalled([pc EXCEPT ![t] = "enable"], e)
        BY <3>1
      <4>2. "enable" \in PCs /\ pc[t] # "delwait"
        BY <3>1 DEF PCs
      <4> HIDE DEF e, k
      <4> QED  BY <1>0, <4>1, <4>2, SignalledPc
    <3> QED  BY <1>0, <3>1, <3>2
  <2>3. ASSUME NEW f \in Events, NEW u \in Loopers, lk'[f] = u
        PROVE  /\ \E i \in 1..Len(evlist'[u]) :
                    evlist'[u][i].ev = f /\ (pc'[u] = "complete" => i < idx'[u])
               /\ pc'[u] \in {"complete", "enable", "unlock"}
    <3>1. CASE f = e
      <4>1. u = t
        BY <1>0, <2>1, <2>2, <2>3, <3>1
      <4>2. k \in 1..Len(evlist'[t]) /\ evlist'[t][k].ev = f
        BY <2>1, <3>1
      <4>3. pc'[t] = "complete" => k < idx'[t]
        BY <1>0, <2>2
      <4> QED  BY <2>1, <4>1, <4>2, <4>3
    <3>2. CASE f # e
      <4>1. lk[f] = u
        BY <1>0, <2>1, <2>2, <2>3, <3>2
      <4>2. /\ pc[u] \in {"complete", "enable", "unlock"}
            /\ \E i \in 1..Len(evlist[u]) : evlist[u][i].ev = f /\ (pc[u] = "complete" => i < idx[u])
        BY <4>1 DEF LocksHeld
      <4>3. PICK i \in 1..Len(evlist[u]) : evlist[u][i].ev = f /\ (pc[u] = "complete" => i < idx[u])
        BY <4>2
      <4>4. CASE u = t
        <5>1. pc'[t] = "complete" => i < idx'[t]
          BY <1>0, <2>2, <4>3, <4>4
        <5> QED  BY <2>1, <4>3, <4>4, <5>1
      <4>5. CASE u # t
        BY <2>1, <4>2, <4>3, <4>5 DEF SamePhase, HandlerPCs
      <4> QED  BY <4>4, <4>5
    <3> QED  BY <3>1, <3>2
  <2> QED  BY <2>3 DEF LocksHeld
<1>2. CASE Unlock(t)
  <2>1. /\ lk' = [e \in Events |->
                    IF \E i \in 1..Len(evlist[t]) : evlist[t][i].ev = e THEN NULL ELSE lk[e]]
        /\ \A u \in Loopers \ {t} : evlist'[u] = evlist[u] /\ idx'[u] = idx[u] /\ pc'[u] = pc[u]
    BY <1>0, <1>2 DEF Unlock, Threads
  <2>2. ASSUME NEW f \in Events, NEW u \in Loopers, lk'[f] = u PROVE lk[f] = u /\ u # t
    <3>1. lk[f] = u
      BY <1>0, <2>1, <2>2
    <3>2. ASSUME u = t PROVE \E i \in 1..Len(evlist[t]) : evlist[t][i].ev = f
      BY <3>1, <3>2 DEF LocksHeld
    <3> QED  BY <1>0, <2>1, <2>2, <3>1, <3>2
  <2> QED  BY <2>1, <2>2 DEF LocksHeld
<1>3. CASE Enable(t)
  <2>1. /\ UNCHANGED <<lk, evlist, idx>> /\ pc'[t] = "unlock"
        /\ \A u \in Loopers \ {t} : pc'[u] = pc[u]
    BY <1>0, <1>3 DEF Enable, Threads, loopvars
  <2> QED  BY <2>1, LocksFrame
<1>4. CASE KeventReturn(t)
  <2>1. PICK n \in 1..NEVENT : \E b \in [1..n -> Ready] : Deliver(t, n, b)
    BY <1>4 DEF KeventReturn
  <2>2. PICK b \in [1..n -> Ready] : Deliver(t, n, b)
    BY <2>1
  <2>3. /\ lk' = lk /\ pc[t] = "wait"
        /\ \A u \in Loopers \ {t} : evlist'[u] = evlist[u] /\ idx'[u] = idx[u] /\ pc'[u] = pc[u]
    BY <1>0, <1>4, <2>2 DEF KeventReturn, Deliver, Threads
  <2> QED  BY <2>3, LocksFrame
<1>5. CASE MarkFails(t)
  BY <1>5, LocksFrame DEF MarkFails, loopvars
<1>6. CASE \/ KeventEnter(t) \/ Mark(t) \/ HandlerReturn(t) \/ HandlerDel(t)
           \/ HandlerReadd(t) \/ HandlerAddOther(t)
  <2>1. /\ UNCHANGED <<lk, evlist>> /\ pc[t] \in {"kevent", "mark", "run", "changed", "ret"}
        /\ \A u \in Loopers \ {t} : pc'[u] = pc[u] /\ idx'[u] = idx[u]
    BY <1>0, <1>6 DEF KeventEnter, Mark, HandlerReturn, HandlerDel, HandlerReadd,
                      HandlerAddOther, Threads, loopvars
  <2> QED  BY <2>1, LocksFrame
<1> QED  BY <1>1, <1>2, <1>3, <1>4, <1>5, <1>6 DEF LoopStep

\* Adding, deleting, waking up and arriving data neither take nor drop a lock
\* that is held beyond the step.
LEMMA OtherLocks ==
  ASSUME TypeInv, LocksHeld, (\E t \in Threads : ApiStep(t)) \/ OutsideStep \/ UNCHANGED vars
  PROVE  LocksHeld'
<1>1. UNCHANGED <<lk, evlist, idx>>
  BY DEF ApiStep, Del, DelRetry, DelBody, AddCheck, AddCommit, AddFails, OutsideStep,
         SpuriousWake, CallDel, CallAdd, Arrive, vars, loopvars
<1>2. pc' = pc \/ \E t \in Threads : \E p : /\ pc[t] \notin {"complete", "enable", "unlock"}
                                            /\ pc' = [pc EXCEPT ![t] = p]
  <2>1. CASE \E t \in Threads : ApiStep(t)
    <3>1. PICK t \in Threads : ApiStep(t)
      BY <2>1
    <3>2. pc[t] \notin {"complete", "enable", "unlock"}
      BY <3>1 DEF ApiStep, Del, DelRetry, AddCheck, AddCommit, AddFails
    <3>3. \E p : pc' = [pc EXCEPT ![t] = p]
      BY <3>1 DEF ApiStep, Del, DelRetry, DelBody, AddCheck, AddCommit, AddFails
    <3> QED  BY <3>2, <3>3
  <2>2. CASE OutsideStep \/ UNCHANGED vars
    BY <2>2 DEF OutsideStep, SpuriousWake, CallDel, CallAdd, Arrive, vars, Threads
  <2> QED  BY <2>1, <2>2
<1>3. pc \in [Threads -> PCs]
  BY DEF TypeInv, TypeOK
<1>4. \A u \in Loopers : pc'[u] = pc[u] \/ pc[u] \notin {"complete", "enable", "unlock"}
  BY <1>2, <1>3 DEF Threads
<1> QED  BY <1>1, <1>4, LocksFrame

\* A handler that calls event_del does so for its own event, unless it may
\* delete others.
LEMMA LoopWaits ==
  ASSUME TypeInv, DelWaits, NEW t \in Loopers, LoopStep(t)
  PROVE  DelWaits'
<1>0. /\ t \in Threads /\ pc \in [Threads -> PCs] /\ idx \in [Loopers -> Nat \ {0}]
      /\ evlist \in [Loopers -> Seq([ev : Events, ident : Int])]
      /\ owner \in [Events -> Loopers \cup {NULL}]
      /\ kev \in [Threads -> [ev : Events, ident : Int]]
  BY DEF Threads, TypeInv, TypeOK
<1>1. \A u \in Threads : kev[u].ev \in Events
  BY <1>0
<1>2. \A u \in Threads \ {t} : kev'[u] = kev[u]
  BY <1>0 DEF LoopStep, KeventEnter, KeventReturn, Deliver, Mark, MarkFails, HandlerReturn,
              HandlerDel, HandlerReadd, HandlerAddOther, Complete, Enable, Unlock
<1>3. \A u \in Loopers \ {t} : evlist'[u] = evlist[u] /\ idx'[u] = idx[u]
  <2>1. CASE KeventReturn(t)
    <3>1. PICK n \in 1..NEVENT : \E b \in [1..n -> Ready] : Deliver(t, n, b)
      BY <2>1 DEF KeventReturn
    <3>2. PICK b \in [1..n -> Ready] : Deliver(t, n, b)
      BY <3>1
    <3> QED  BY <1>0, <3>2 DEF Deliver
  <2>2. CASE ~KeventReturn(t)
    BY <1>0, <2>2 DEF LoopStep, KeventEnter, Mark, MarkFails, HandlerReturn,
                      HandlerDel, HandlerReadd, HandlerAddOther, Complete, Enable, Unlock, loopvars
  <2> QED  BY <2>1, <2>2
<1>4. \A e \in Events : owner'[e] = owner[e] \/ owner'[e] \in {t, NULL}
  <2>1. \/ owner' = owner
        \/ owner' = [owner EXCEPT ![Current(t)] = t]
        \/ owner' = [owner EXCEPT ![Current(t)] = NULL]
    BY DEF LoopStep, KeventEnter, KeventReturn, Deliver, Mark, MarkFails, HandlerReturn,
           HandlerDel, HandlerReadd, HandlerAddOther, Complete, CompleteCurrent, Enable,
           Unlock, evvars
  <2> QED  BY <1>0, <2>1
<1>5. \A u \in Threads \ {t} : pc'[u] = pc[u] \/ (pc[u] \in DelPCs /\ pc'[u] = "delretry")
  <2>1. CASE Complete(t)
    <3> DEFINE q == IF idx[t] = Len(evlist[t]) THEN "enable" ELSE "complete"
    <3>1. Signalled([pc EXCEPT ![t] = q], Current(t)) /\ q \in PCs /\ pc[t] # "delwait"
      BY <2>1 DEF Complete, PCs
    <3> HIDE DEF q
    <3> QED  BY <1>0, <3>1, SignalledPc DEF DelPCs
  <2>2. CASE ~Complete(t)
    BY <1>0, <2>2 DEF LoopStep, KeventEnter, KeventReturn, Deliver, Mark, MarkFails,
                      HandlerReturn, HandlerDel, HandlerReadd, HandlerAddOther, Enable, Unlock
  <2> QED  BY <2>1, <2>2
<1>6. pc'[t] \in DelPCs =>
        /\ pc'[t] = "del"
        /\ "delother" \notin HandlerOps => kev'[t].ev = Current(t)'
  <2>1. CASE Complete(t)
    <3>1. pc'[t] \in {"complete", "enable"}
      BY <2>1, CompleteSlots
    <3> QED  BY <3>1 DEF DelPCs
  <2>2. CASE HandlerDel(t)
    <3>1. PICK e \in Events :
            /\ IF e = Current(t) THEN "del" \in HandlerOps ELSE "delother" \in HandlerOps
            /\ kev' = [kev EXCEPT ![t] = [ev |-> e, ident |-> Unset]]
      BY <2>2 DEF HandlerDel
    <3>2. pc'[t] = "del" /\ UNCHANGED <<evlist, idx>>
      BY <1>0, <2>2 DEF HandlerDel, loopvars
    <3>3. "delother" \notin HandlerOps => e = Current(t)
      BY <3>1
    <3>4. kev'[t].ev = e
      BY <1>0, <3>1
    <3> QED  BY <3>2, <3>3, <3>4 DEF Current
  <2>3. CASE MarkFails(t)
    BY <2>3 DEF MarkFails, DelPCs
  <2>4. CASE ~Complete(t) /\ ~HandlerDel(t) /\ ~MarkFails(t)
    BY <1>0, <2>4 DEF LoopStep, KeventEnter, KeventReturn, Deliver, Mark, HandlerReturn,
                      HandlerReadd, HandlerAddOther, Enable, Unlock, DelPCs
  <2> QED  BY <2>1, <2>2, <2>3, <2>4
<1>7. pc'[t] # "delwait"
  BY <1>6 DEF DelPCs
<1> QED  BY <1>0, <1>1, <1>2, <1>3, <1>4, <1>5, <1>6, <1>7, DelFrame

\* event_del waits only for an event that another thread owns.
LEMMA OtherWaits ==
  ASSUME TypeInv, DelWaits, (\E t \in Threads : ApiStep(t)) \/ OutsideStep \/ UNCHANGED vars
  PROVE  DelWaits'
<1>0. /\ pc \in [Threads -> PCs] /\ owner \in [Events -> Loopers \cup {NULL}]
      /\ kev \in [Threads -> [ev : Events, ident : Int]]
      /\ \A u \in Threads : kev[u].ev \in Events
  BY DEF TypeInv, TypeOK
<1>1. UNCHANGED <<evlist, idx>>
  BY DEF ApiStep, Del, DelRetry, DelBody, AddCheck, AddCommit, AddFails, OutsideStep,
         SpuriousWake, CallDel, CallAdd, Arrive, vars, loopvars
<1>2. ASSUME NEW t \in Threads, NEW k, pc[t] \in {"del", "delretry"}, k.ev = kev[t].ev, DelBody(t, k)
      PROVE  DelWaits'
  <2>1. /\ kev' = [kev EXCEPT ![t] = k]
        /\ \/ pc' = [pc EXCEPT ![t] = "delwait"] /\ owner[k.ev] # t /\ owner' = owner
           \/ /\ pc' = [pc EXCEPT ![t] = AfterDel(t, TRUE)] \/ pc' = [pc EXCEPT ![t] = AfterDel(t, FALSE)]
              /\ owner' = owner \/ owner' = [owner EXCEPT ![k.ev] = NULL]
    BY <1>2 DEF DelBody, Changed
  <2>2. AfterDel(t, TRUE) \notin DelPCs /\ AfterDel(t, FALSE) \notin DelPCs
    BY ConstAssumption DEF AfterDel, DelPCs, Threads
  <2>a. AfterDel(t, TRUE) \notin {"mark", "complete"} /\ AfterDel(t, FALSE) \notin {"mark", "complete"}
    BY ConstAssumption DEF AfterDel, Threads
  <2>3. /\ \A u \in Threads \ {t} : pc'[u] = pc[u] /\ kev'[u] = kev[u]
        /\ kev'[t] = k
        /\ pc'[t] \in DelPCs => pc'[t] = "delwait" /\ owner'[k.ev] # t
        /\ pc'[t] \notin {"mark", "complete"}
        /\ \A e \in Events : owner'[e] = owner[e] \/ owner'[e] = NULL
    BY <1>0, <2>1, <2>2, <2>a
  <2>4. t \in Loopers /\ "delother" \notin HandlerOps => k.ev = Current(t)'
    BY <1>1, <1>2 DEF DelWaits, DelPCs, Current
  <2> QED  BY <1>0, <1>1, <2>3, <2>4, DelFrame DEF DelPCs
<1>3. ASSUME NEW t \in Threads, AddCheck(t) \/ AddCommit(t) \/ AddFails(t) PROVE DelWaits'
  <2>1. AfterAdd(t) \notin DelPCs /\ AfterAdd(t) \notin {"mark", "complete"}
    BY DEF AfterAdd, DelPCs
  <2>2. /\ pc' = [pc EXCEPT ![t] = AfterAdd(t)] \/ pc' = [pc EXCEPT ![t] = "add"]
        /\ kev' = kev \/ \E n : kev' = [kev EXCEPT ![t] = [ev |-> kev[t].ev, ident |-> n]]
        /\ owner' = owner \/ owner' = [owner EXCEPT ![kev[t].ev] = NULL]
    BY <1>3 DEF AddCheck, AddCommit, AddFails, Changed, evvars
  <2>3. /\ \A u \in Threads \ {t} : pc'[u] = pc[u] /\ kev'[u] = kev[u]
        /\ pc'[t] \notin DelPCs /\ pc'[t] \notin {"mark", "complete"}
        /\ \A e \in Events : owner'[e] = owner[e] \/ owner'[e] = NULL
    BY <1>0, <2>1, <2>2 DEF DelPCs
  <2> QED  BY <1>0, <1>1, <2>3, DelFrame DEF DelPCs
<1>4. ASSUME NEW t \in Threads, SpuriousWake(t) PROVE DelWaits'
  <2>1. /\ pc[t] = "delwait" /\ pc' = [pc EXCEPT ![t] = "delretry"] /\ UNCHANGED <<kev, owner>>
    BY <1>4 DEF SpuriousWake, evvars
  <2>2. "delother" \notin HandlerOps /\ t \in Loopers => kev'[t].ev = Current(t)'
    BY <1>1, <2>1 DEF DelWaits, DelPCs, Current
  <2>3. pc'[t] = "delretry" /\ \A u \in Threads \ {t} : pc'[u] = pc[u]
    BY <1>0, <2>1
  <2> QED  BY <1>0, <1>1, <2>1, <2>2, <2>3, DelFrame
<1>5. ASSUME NEW c \in Callers, NEW e \in Events, CallDel(c, e) \/ CallAdd(c, e) PROVE DelWaits'
  <2>1. c \in Threads /\ c \notin Loopers
    BY ConstAssumption DEF Threads
  <2>2. /\ \E p \in {"del", "addchk"} : pc' = [pc EXCEPT ![c] = p]
        /\ \E r : kev' = [kev EXCEPT ![c] = r]
        /\ owner' = owner
    BY <1>5 DEF CallDel, CallAdd, evvars
  <2>3. /\ pc'[c] # "delwait" /\ pc'[c] \notin {"mark", "complete"}
        /\ \A u \in Threads \ {c} : pc'[u] = pc[u] /\ kev'[u] = kev[u]
    BY <1>0, <2>1, <2>2
  <2> QED  BY <1>0, <1>1, <2>1, <2>2, <2>3, DelFrame
<1>6. CASE UNCHANGED vars \/ \E e \in Events : Arrive(e)
  <2>1. UNCHANGED <<pc, kev, owner>>
    BY <1>6 DEF Arrive, vars, evvars
  <2> QED  BY <1>1, <2>1 DEF DelWaits, Current
<1>7. CASE \E t \in Threads : ApiStep(t)
  BY <1>2, <1>3, <1>7 DEF ApiStep, Del, DelRetry
<1> QED  BY <1>4, <1>5, <1>6, <1>7 DEF OutsideStep

\* An event loses its owner whenever it stops being active.
LEMMA NextOwners == TypeInv /\ OwnersActive /\ [Next]_vars => OwnersActive'
<1> SUFFICES ASSUME TypeInv, OwnersActive, [Next]_vars PROVE OwnersActive'
  OBVIOUS
<1>0. /\ state \in [Events -> SUBSET {"ACTIVE", "PENDING"}]
      /\ owner \in [Events -> Loopers \cup {NULL}]
  BY DEF TypeInv, TypeOK
<1>1. ASSUME UNCHANGED <<state, owner>> PROVE OwnersActive'
  BY <1>1 DEF OwnersActive
<1>2. ASSUME NEW e, NEW s, Changed(e, s) PROVE OwnersActive'
  BY <1>0, <1>2 DEF Changed, OwnersActive
<1>3. ASSUME NEW t \in Loopers, Mark(t) PROVE OwnersActive'
  <2>1. state' = [state EXCEPT ![Current(t)] = @ \cup {"ACTIVE"}] /\ owner' = [owner EXCEPT ![Current(t)] = t]
    BY <1>3 DEF Mark
  <2> QED  BY <1>0, <2>1 DEF OwnersActive
<1>4. ASSUME NEW t \in Loopers, Complete(t) PROVE OwnersActive'
  <2>1. \/ UNCHANGED <<state, owner>>
        \/ /\ \E s : state' = [state EXCEPT ![Current(t)] = s]
           /\ owner' = [owner EXCEPT ![Current(t)] = NULL]
    BY <1>4 DEF Complete, CompleteCurrent
  <2> QED  BY <1>0, <2>1 DEF OwnersActive
<1>5. ASSUME NEW t \in Loopers, LoopStep(t), ~Mark(t), ~Complete(t) PROVE UNCHANGED <<state, owner>>
  BY <1>5 DEF LoopStep, KeventEnter, KeventReturn, Deliver, MarkFails, HandlerReturn,
              HandlerDel, HandlerReadd, HandlerAddOther, Enable, Unlock, evvars
<1>6. ASSUME NEW t \in Threads, ApiStep(t)
      PROVE  UNCHANGED <<state, owner>> \/ \E e, s : Changed(e, s)
  BY <1>6 DEF ApiStep, Del, DelRetry, DelBody, AddCheck, AddCommit, AddFails, evvars
<1>7. ASSUME OutsideStep \/ UNCHANGED vars PROVE UNCHANGED <<state, owner>>
  BY <1>7 DEF OutsideStep, SpuriousWake, CallDel, CallAdd, Arrive, vars, evvars
<1> QED  BY <1>1, <1>2, <1>3, <1>4, <1>5, <1>6, <1>7 DEF Next, OutsideStep

\* Together with the type invariant, locks and waits are inductive.
LEMMA NextWait == TypeInv /\ WaitInv /\ [Next]_vars => WaitInv'
<1> SUFFICES ASSUME TypeInv, LocksHeld, DelWaits, OwnersActive, [Next]_vars
             PROVE  LocksHeld' /\ DelWaits' /\ OwnersActive'
  BY DEF WaitInv
<1>1. ASSUME NEW t \in Loopers, LoopStep(t) PROVE LocksHeld' /\ DelWaits'
  BY <1>1, LoopLocks, LoopWaits
<1>2. CASE (\E t \in Threads : ApiStep(t)) \/ OutsideStep \/ UNCHANGED vars
  BY <1>2, OtherLocks, OtherWaits, NextOwners
<1> QED  BY <1>1, <1>2, NextOwners DEF Next, OutsideStep

\* Who holds a lock and waits is in the completion loop: the event it waits for
\* is further on in its batch than the one it holds.
LEMMA HolderWaits ==
  ASSUME TypeInv, WaitInv, NEW u \in Threads, NEW e \in Events, lk[e] = u,
         NEW v \in Threads, WaitsFor(u, v)
  PROVE  /\ u \in Loopers /\ pc[u] = "complete"
         /\ e \in InBatch(u) /\ Current(u) \in InBatch(u) /\ Current(u) \in Events
         /\ e # Current(u) /\ lk[Current(u)] = v
<1>1. u \in Loopers
  BY ConstAssumption DEF TypeInv, TypeOK, Threads
<1>2. pc[u] \in {"complete", "enable", "unlock"}
  BY <1>1 DEF WaitInv, LocksHeld
<1>3. pc[u] = "complete" /\ lk[Current(u)] = v
  BY <1>2 DEF WaitsFor
<1>4. PICK i \in 1..Len(evlist[u]) : evlist[u][i].ev = e /\ i < idx[u]
  BY <1>1, <1>3 DEF WaitInv, LocksHeld
<1>5. idx[u] \in 1..Len(evlist[u]) /\ Current(u) \in Events
  BY <1>1, <1>3, CurrentEvent
<1>6. e # Current(u)
  <2>1. \A k, l \in 1..Len(evlist[u]) : evlist[u][k].ev = evlist[u][l].ev => k = l
    BY <1>1 DEF TypeInv, BatchOK, BatchShape
  <2>2. i # idx[u]
    BY <1>4, <1>5
  <2> QED  BY <1>4, <1>5, <2>1, <2>2 DEF Current
<1> QED  BY <1>1, <1>3, <1>4, <1>5, <1>6 DEF InBatch, Current

\* Who waits in a handler's event_del is the current thread of its own event,
\* which is another one's that still has it in its batch.
LEMMA DeleterWaits ==
  ASSUME TypeInv, OwnInv, WaitInv, "delother" \notin HandlerOps,
         NEW u \in Loopers, pc[u] = "delwait", NEW v \in Threads, owner[kev[u].ev] = v
  PROVE  /\ kev[u].ev \in InBatch(u) /\ kev[u].ev \in InBatch(v)
         /\ v \in Loopers /\ v # u
<1>1. /\ u \in Threads /\ NULL \notin Threads /\ kev[u].ev \in Events
  BY ConstAssumption DEF TypeInv, TypeOK, Threads
<1>2. v # u /\ kev[u].ev = Current(u)
  BY <1>1 DEF WaitInv, DelWaits, DelPCs
<1>3. idx[u] \in 1..Len(evlist[u])
  BY CurrentEvent DEF HandlerPCs
<1>4. "ACTIVE" \in state[kev[u].ev]
  BY <1>1 DEF WaitInv, OwnersActive
<1>5. PICK w \in Loopers : owner[kev[u].ev] = w /\ \E i \in Live(w) : evlist[w][i].ev = kev[u].ev
  BY <1>1, <1>4 DEF OwnInv, ActiveHasOwner
<1>6. w = v
  BY <1>5
<1>7. \E i \in 1..Len(evlist[v]) : evlist[v][i].ev = kev[u].ev
  BY <1>5, <1>6 DEF Live, Tracked
<1> QED  BY <1>2, <1>3, <1>5, <1>6, <1>7 DEF InBatch, Current

\* In a circle of waits somebody has two events in common with his neighbours.
LEMMA CircleTangled ==
  ASSUME TypeInv, OwnInv, WaitInv, "delother" \notin HandlerOps,
         NEW S \in SUBSET Threads, S # {}, \A t \in S : \E u \in S : WaitsFor(t, u)
  PROVE  \E t \in Loopers : \E e, f \in Shared(t) : e # f
<1>0. /\ \A u \in Threads : kev[u].ev \in Events
      /\ lk \in [Events -> Loopers \cup {NULL}] /\ owner \in [Events -> Loopers \cup {NULL}]
      /\ Loopers \subseteq Threads /\ NULL \notin Threads
  BY ConstAssumption DEF TypeInv, TypeOK, Threads
<1>1. ASSUME NEW t \in S, NEW u \in S, WaitsFor(t, u)
      PROVE  (\E e \in Events : lk[e] = u) \/ (pc[t] = "delwait" /\ owner[kev[t].ev] = u)
  <2>1. CASE pc[t] \in {"mark", "complete"} /\ lk[Current(t)] = u
    <3>1. t \in Loopers
      BY <2>1 DEF WaitInv, DelWaits
    <3>2. Current(t) \in Events
      BY <2>1, <3>1, CurrentEvent
    <3> QED  BY <2>1, <3>2
  <2>2. CASE pc[t] \in {"del", "delretry", "add"} /\ lk[kev[t].ev] = u
    BY <1>0, <2>2
  <2>3. CASE pc[t] = "delwait" /\ owner[kev[t].ev] = u
    BY <2>3
  <2> QED  BY <1>1, <2>1, <2>2, <2>3 DEF WaitsFor
<1>2. CASE \E t \in S : \E e \in Events : lk[e] = t
  <2>1. PICK t \in S, e \in Events : lk[e] = t
    BY <1>2
  <2>2. PICK u \in S : WaitsFor(t, u)
    BY <1>2
  <2>3. /\ t \in Loopers /\ e # Current(t) /\ lk[Current(t)] = u
        /\ Current(t) \in InBatch(t) /\ Current(t) \in Events
    BY <2>1, <2>2, HolderWaits
  <2>4. PICK v \in S : WaitsFor(u, v)
    BY <1>2
  <2>5. /\ u \in Loopers /\ Current(t) # Current(u) /\ lk[Current(u)] = v
        /\ Current(t) \in InBatch(u) /\ Current(u) \in InBatch(u) /\ Current(u) \in Events
    BY <2>3, <2>4, HolderWaits
  <2>6. PICK w \in S : WaitsFor(v, w)
    BY <1>2
  <2>7. v \in Loopers /\ Current(u) \in InBatch(v) /\ Current(v) # Current(u)
    BY <2>5, <2>6, HolderWaits
  <2>8. u # t /\ u # v
    BY <2>5, <2>7
  <2>9. Current(t) \in Shared(u) /\ Current(u) \in Shared(u)
    BY <2>3, <2>5, <2>7, <2>8 DEF Shared
  <2> QED  BY <2>5, <2>9
<1>3. CASE ~ \E t \in S : \E e \in Events : lk[e] = t
  <2>1. \A t, u \in S : WaitsFor(t, u) => pc[t] = "delwait" /\ owner[kev[t].ev] = u
    BY <1>1, <1>3
  <2>2. PICK t \in S, u \in S : WaitsFor(t, u)
    BY <1>3
  <2>3. u \in Loopers
    BY <1>0, <2>1, <2>2
  <2>4. PICK v \in S : WaitsFor(u, v)
    BY <1>3
  <2>5. /\ kev[u].ev \in InBatch(u) /\ kev[u].ev \in InBatch(v)
        /\ v \in Loopers /\ v # u /\ owner[kev[u].ev] = v
    BY <2>1, <2>3, <2>4, DeleterWaits
  <2>6. PICK w \in S : WaitsFor(v, w)
    BY <1>3
  <2>7. /\ kev[v].ev \in InBatch(v) /\ kev[v].ev \in InBatch(w)
        /\ w \in Loopers /\ w # v /\ owner[kev[v].ev] = w
    BY <2>1, <2>5, <2>6, DeleterWaits
  <2>8. kev[u].ev # kev[v].ev
    BY <2>5, <2>7
  <2>9. kev[u].ev \in Shared(v) /\ kev[v].ev \in Shared(v)
    BY <2>3, <2>5, <2>7 DEF Shared
  <2> QED  BY <2>5, <2>8, <2>9
<1> QED  BY <1>2, <1>3

\* However many events kevent() returns at once, and whoever adds and deletes
\* events meanwhile: as long as a handler deletes no event but its own, threads
\* wait for each other in a circle only if one of them has two events in its
\* batch that have been re-added and fetched by others.  In particular they
\* never do with batches of one, or if nothing that is in a batch is added again.
THEOREM OnlyTangledDeadlock ==
  ASSUME "delother" \notin HandlerOps
  PROVE  Spec => []WaitsUntangled
<1> DEFINE Inv == TypeInv /\ OwnInv /\ WaitInv
<1>1. Init => Inv
  <2> SUFFICES ASSUME Init PROVE WaitInv
    BY InitType, InitOwn
  <2>2. \A t \in Threads : pc[t] \in {"kevent", "idle"}
    BY DEF Init
  <2>3. LocksHeld
    BY ConstAssumption DEF Init, LocksHeld, Threads
  <2>4. DelWaits
    BY <2>2 DEF DelWaits, DelPCs, Threads
  <2>5. OwnersActive
    BY DEF Init, OwnersActive
  <2> QED  BY <2>3, <2>4, <2>5 DEF WaitInv
<1>2. Inv /\ [Next]_vars => Inv'
  BY NextType, NextOwn, NextWait
<1>3. Inv => WaitsUntangled
  <2> SUFFICES ASSUME Inv, \A t \in Loopers : \A e, f \in Shared(t) : e = f,
                      NEW S \in SUBSET Threads, S # {}, \A t \in S : \E u \in S : WaitsFor(t, u)
               PROVE  FALSE
    BY DEF WaitsUntangled, NoWaitCycle
  <2> QED  BY CircleTangled
<1> QED  BY <1>1, <1>2, <1>3, PTL DEF Spec

-----------------------------------------------------------------------------
(* The lease: owners as the abstract specification sees them                 *)

AddingPCs == {"addchk", "add"}

\* Threads inside event_add are at different events, and the event has not
\* been added meanwhile by anybody else.
OneAdder ==
  /\ \A t \in Threads : pc[t] = "add" => "PENDING" \notin state[kev[t].ev]
  /\ \A t, u \in Threads :
       pc[t] \in AddingPCs /\ pc[u] \in AddingPCs /\ kev[t].ev = kev[u].ev => t = u

\* A step that queues no event and lets no thread enter event_add.
LEMMA AdderFrame ==
  ASSUME TypeInv, OneAdder,
         \A u \in Threads : pc'[u] \in AddingPCs => pc'[u] = pc[u] /\ kev'[u] = kev[u],
         \A e \in Events : "PENDING" \in state'[e] => "PENDING" \in state[e]
  PROVE  OneAdder'
<1>1. \A u \in Threads : kev[u].ev \in Events
  BY DEF TypeInv, TypeOK
<1> QED  BY <1>1 DEF OneAdder, AddingPCs

\* A thread enters event_add on an event that no other thread adds.
LEMMA AdderStarts ==
  ASSUME TypeInv, OneAdder, NEW t \in Threads, NEW r, Adding(r.ev) = {},
         kev' = [kev EXCEPT ![t] = r], pc' = [pc EXCEPT ![t] = "addchk"], UNCHANGED state
  PROVE  OneAdder'
<1>0. pc \in [Threads -> PCs] /\ kev \in [Threads -> [ev : Events, ident : Int]]
  BY DEF TypeInv, TypeOK
<1>1. pc'[t] = "addchk" /\ kev'[t] = r
  BY <1>0
<1>2. \A u \in Threads \ {t} : pc'[u] = pc[u] /\ kev'[u] = kev[u]
  BY <1>0
<1>3. \A u \in Threads : pc[u] \in AddingPCs => kev[u].ev # r.ev
  BY DEF Adding, AddingPCs
<1>4. \A u \in Threads : pc'[u] = "add" => "PENDING" \notin state'[kev'[u].ev]
  BY <1>1, <1>2 DEF OneAdder
<1>5. ASSUME NEW u \in Threads, NEW w \in Threads, pc'[u] \in AddingPCs, pc'[w] \in AddingPCs,
             kev'[u].ev = kev'[w].ev
      PROVE  u = w
  <2>1. CASE u = t \/ w = t
    BY <1>1, <1>2, <1>3, <1>5, <2>1
  <2>2. CASE u # t /\ w # t
    BY <1>2, <1>5, <2>2 DEF OneAdder
  <2> QED  BY <2>1, <2>2
<1> QED  BY <1>4, <1>5 DEF OneAdder

\* Loops enter event_add through their handlers only.
LEMMA LoopAdder ==
  ASSUME TypeInv, OneAdder, NEW t \in Loopers, LoopStep(t)
  PROVE  OneAdder'
<1>0. /\ t \in Threads /\ pc \in [Threads -> PCs] /\ kev \in [Threads -> [ev : Events, ident : Int]]
      /\ state \in [Events -> SUBSET {"ACTIVE", "PENDING"}]
  BY DEF Threads, TypeInv, TypeOK
<1>1. CASE HandlerReadd(t)
  <2> DEFINE e == kev[t].ev
  <2>1. UNCHANGED state /\ Adding(e) = {}
    BY <1>1 DEF HandlerReadd
  <2>2. \/ UNCHANGED <<pc, kev>>
        \/ \E n : /\ kev' = [kev EXCEPT ![t] = [ev |-> e, ident |-> n]]
                  /\ pc' = [pc EXCEPT ![t] = "addchk"]
    BY <1>1 DEF HandlerReadd
  <2>3. CASE UNCHANGED <<pc, kev>>
    BY <2>1, <2>3, AdderFrame
  <2>4. ASSUME NEW n, kev' = [kev EXCEPT ![t] = [ev |-> e, ident |-> n]],
               pc' = [pc EXCEPT ![t] = "addchk"]
        PROVE  OneAdder'
    <3>1. [ev |-> e, ident |-> n].ev = e
      OBVIOUS
    <3> QED  BY <1>0, <2>1, <2>4, <3>1, AdderStarts
  <2> QED  BY <2>2, <2>3, <2>4
<1>2. CASE HandlerAddOther(t)
  <2>1. PICK e \in Events : Fresh(e) /\ kev' = [kev EXCEPT ![t] = [ev |-> e, ident |-> ident[e]]]
    BY <1>2 DEF HandlerAddOther
  <2>2. pc' = [pc EXCEPT ![t] = "addchk"] /\ UNCHANGED state
    BY <1>2 DEF HandlerAddOther, evvars
  <2>3. Adding([ev |-> e, ident |-> ident[e]].ev) = {}
    BY <2>1 DEF Fresh
  <2> QED  BY <1>0, <2>1, <2>2, <2>3, AdderStarts
<1>3. CASE Mark(t) \/ Complete(t)
  <2>1. \A e \in Events : "PENDING" \in state'[e] => "PENDING" \in state[e]
    <3>1. CASE Mark(t)
      BY <1>0, <3>1, CurrentEvent DEF Mark
    <3>2. CASE Complete(t)
      <4>1. Current(t) \in Events
        BY <3>2, CompleteSlots
      <4>2. \/ UNCHANGED state
            \/ state' = [state EXCEPT ![Current(t)] = @ \ {"ACTIVE"}]
            \/ state' = [state EXCEPT ![Current(t)] = {}]
        BY <3>2 DEF Complete, CompleteCurrent
      <4> QED  BY <1>0, <4>1, <4>2
    <3> QED  BY <1>3, <3>1, <3>2
  <2>2. UNCHANGED kev /\ \A u \in Threads : pc'[u] \in AddingPCs => pc'[u] = pc[u]
    <3>1. CASE Mark(t)
      BY <1>0, <3>1 DEF Mark, AddingPCs
    <3>2. CASE Complete(t)
      <4> DEFINE q == IF idx[t] = Len(evlist[t]) THEN "enable" ELSE "complete"
      <4>1. Signalled([pc EXCEPT ![t] = q], Current(t)) /\ pc[t] = "complete" /\ UNCHANGED kev
        BY <3>2 DEF Complete
      <4>2. q \in PCs /\ q \notin AddingPCs
        BY DEF PCs, AddingPCs
      <4> HIDE DEF q
      <4>3. pc'[t] = q /\ \A u \in Threads \ {t} : pc'[u] = pc[u] \/ pc'[u] = "delretry"
        BY <1>0, <4>1, <4>2, SignalledPc
      <4> QED  BY <4>1, <4>2, <4>3 DEF AddingPCs
    <3> QED  BY <1>3, <3>1, <3>2
  <2> QED  BY <2>1, <2>2, AdderFrame
<1>4. CASE KeventReturn(t)
  <2>1. PICK n \in 1..NEVENT : \E b \in [1..n -> Ready] : Deliver(t, n, b)
    BY <1>4 DEF KeventReturn
  <2>2. pc' = [pc EXCEPT ![t] = "mark"] /\ UNCHANGED <<kev, state>>
    BY <2>1 DEF Deliver, evvars
  <2> QED  BY <1>0, <2>2, AdderFrame DEF AddingPCs
<1>5. CASE HandlerDel(t)
  <2>1. pc' = [pc EXCEPT ![t] = "del"] /\ UNCHANGED state
    BY <1>5 DEF HandlerDel, evvars
  <2>2. \E r : kev' = [kev EXCEPT ![t] = r]
    BY <1>5 DEF HandlerDel
  <2>3. \A u \in Threads : pc'[u] \in AddingPCs => pc'[u] = pc[u] /\ kev'[u] = kev[u]
    BY <1>0, <2>1, <2>2 DEF AddingPCs
  <2> QED  BY <2>1, <2>3, AdderFrame
<1>6. CASE KeventEnter(t) \/ MarkFails(t) \/ HandlerReturn(t) \/ Enable(t) \/ Unlock(t)
  <2>1. UNCHANGED <<kev, state>>
    BY <1>6 DEF KeventEnter, MarkFails, HandlerReturn, Enable, Unlock, evvars
  <2>2. \A u \in Threads : pc'[u] \in AddingPCs => pc'[u] = pc[u]
    BY <1>0, <1>6 DEF KeventEnter, MarkFails, HandlerReturn, Enable, Unlock, AddingPCs
  <2> QED  BY <2>1, <2>2, AdderFrame
<1> QED  BY <1>1, <1>2, <1>3, <1>4, <1>5, <1>6 DEF LoopStep

\* event_del adds nothing; event_add ends, or finds its event not queued.
LEMMA ApiAdder ==
  ASSUME TypeInv, OneAdder, NEW t \in Threads, ApiStep(t)
  PROVE  OneAdder'
<1>0. /\ pc \in [Threads -> PCs] /\ kev \in [Threads -> [ev : Events, ident : Int]]
      /\ state \in [Events -> SUBSET {"ACTIVE", "PENDING"}]
      /\ kev[t].ev \in Events
  BY DEF TypeInv, TypeOK
<1>1. ASSUME NEW q, q \notin AddingPCs, pc' = [pc EXCEPT ![t] = q],
             \A u \in Threads \ {t} : kev'[u] = kev[u],
             \A e \in Events : "PENDING" \in state'[e] => "PENDING" \in state[e]
      PROVE  OneAdder'
  BY <1>0, <1>1, AdderFrame DEF AddingPCs
<1>2. "delwait" \notin AddingPCs /\ AfterAdd(t) \notin AddingPCs
      /\ AfterDel(t, TRUE) \notin AddingPCs /\ AfterDel(t, FALSE) \notin AddingPCs
  BY DEF AddingPCs, AfterAdd, AfterDel, Threads
<1>3. ASSUME NEW k, k.ev \in Events, DelBody(t, k) PROVE OneAdder'
  <2>1. \A u \in Threads \ {t} : kev'[u] = kev[u]
    BY <1>0, <1>3 DEF DelBody
  <2>2. \A e \in Events : "PENDING" \in state'[e] => "PENDING" \in state[e]
    <3>1. \/ UNCHANGED state
          \/ state' = [state EXCEPT ![k.ev] = (state[k.ev] \ {"PENDING"}) \ {"ACTIVE"}]
      BY <1>3 DEF DelBody, Changed
    <3> QED  BY <1>0, <1>3, <3>1
  <2>3. \E q \in {"delwait", AfterDel(t, TRUE), AfterDel(t, FALSE)} : pc' = [pc EXCEPT ![t] = q]
    BY <1>3 DEF DelBody
  <2> QED  BY <1>1, <1>2, <2>1, <2>2, <2>3
<1>4. CASE Del(t) \/ DelRetry(t)
  BY <1>0, <1>3, <1>4 DEF Del, DelRetry
<1>5. CASE AddCheck(t)
  <2>1. UNCHANGED state /\ pc[t] = "addchk"
    BY <1>5 DEF AddCheck
  <2>2. CASE "PENDING" \in state[kev[t].ev]
    BY <1>1, <1>2, <1>5, <2>1, <2>2 DEF AddCheck
  <2>3. CASE "PENDING" \notin state[kev[t].ev]
    <3>1. /\ pc' = [pc EXCEPT ![t] = "add"]
          /\ \E n : kev' = [kev EXCEPT ![t] = [ev |-> kev[t].ev, ident |-> n]]
      BY <1>5, <2>3 DEF AddCheck
    <3>2. pc'[t] = "add" /\ kev'[t].ev = kev[t].ev
      BY <1>0, <3>1
    <3>3. \A u \in Threads \ {t} : pc'[u] = pc[u] /\ kev'[u] = kev[u]
      BY <1>0, <3>1
    <3>4. \A u \in Threads : /\ pc'[u] \in AddingPCs <=> pc[u] \in AddingPCs
                             /\ kev'[u].ev = kev[u].ev
      BY <2>1, <3>2, <3>3 DEF AddingPCs
    <3>5. \A u \in Threads : pc'[u] = "add" => "PENDING" \notin state'[kev'[u].ev]
      BY <2>1, <2>3, <3>2, <3>3 DEF OneAdder
    <3> QED  BY <3>4, <3>5 DEF OneAdder
  <2> QED  BY <2>2, <2>3
<1>6. CASE AddCommit(t)
  <2> DEFINE e == kev[t].ev
  <2>1. pc[t] = "add" /\ pc' = [pc EXCEPT ![t] = AfterAdd(t)] /\ UNCHANGED kev
    BY <1>6 DEF AddCommit
  <2>2. \A f \in Events \ {e} : state'[f] = state[f]
    BY <1>0, <1>6 DEF AddCommit, Changed
  <2>3. pc'[t] \notin AddingPCs /\ \A u \in Threads \ {t} : pc'[u] = pc[u]
    BY <1>0, <1>2, <2>1
  <2>4. \A u \in Threads \ {t} : pc[u] \in AddingPCs => kev[u].ev \in Events \ {e}
    BY <1>0, <2>1 DEF OneAdder, AddingPCs
  <2>5. \A u \in Threads : pc'[u] = "add" => "PENDING" \notin state'[kev'[u].ev]
    BY <2>1, <2>2, <2>3, <2>4 DEF OneAdder, AddingPCs
  <2> QED  BY <2>1, <2>3, <2>5 DEF OneAdder
<1>7. CASE AddFails(t)
  BY <1>1, <1>2, <1>7 DEF AddFails, evvars
<1> QED  BY <1>4, <1>5, <1>6, <1>7 DEF ApiStep

\* One thread at a time adds an event, by any sequence of steps.
LEMMA NextAdder == TypeInv /\ OneAdder /\ [Next]_vars => OneAdder'
<1> SUFFICES ASSUME TypeInv, OneAdder, [Next]_vars PROVE OneAdder'
  OBVIOUS
<1>0. pc \in [Threads -> PCs] /\ kev \in [Threads -> [ev : Events, ident : Int]]
  BY DEF TypeInv, TypeOK
<1>1. CASE UNCHANGED vars
  BY <1>1, AdderFrame DEF vars, evvars
<1>2. ASSUME NEW t \in Threads, SpuriousWake(t) PROVE OneAdder'
  BY <1>0, <1>2, AdderFrame DEF SpuriousWake, AddingPCs, evvars
<1>3. ASSUME NEW c \in Callers, NEW e \in Events, CallDel(c, e) PROVE OneAdder'
  BY <1>0, <1>3, AdderFrame DEF CallDel, AddingPCs, evvars
<1>4. ASSUME NEW c \in Callers, NEW e \in Events, CallAdd(c, e) PROVE OneAdder'
  <2>1. /\ kev' = [kev EXCEPT ![c] = [ev |-> e, ident |-> ident[e]]]
        /\ pc' = [pc EXCEPT ![c] = "addchk"] /\ UNCHANGED state /\ c \in Threads
    BY <1>4 DEF CallAdd, Threads, evvars
  <2>2. Adding([ev |-> e, ident |-> ident[e]].ev) = {}
    BY <1>4 DEF CallAdd
  <2> QED  BY <2>1, <2>2, AdderStarts
<1>5. ASSUME NEW e \in Events, Arrive(e) PROVE OneAdder'
  BY <1>5, AdderFrame DEF Arrive, evvars
<1> QED  BY <1>1, <1>2, <1>3, <1>4, <1>5, LoopAdder, ApiAdder DEF Next

\* What makes every step one of the lease: live slots have owners, adders are
\* alone.
LeaseInv == OwnInv /\ OneAdder

\* While events and slots stay as they are, so do the leases.
LEMMA LeasesKept ==
  ASSUME Kept
  PROVE  Leases' = Leases /\ Queued' = Queued
<1>1. \A t \in Loopers : Live(t)' = Live(t) /\ \A i \in Live(t) : evlist'[t][i] = evlist[t][i]
  BY DEF Kept, SlotsKept, Live
<1>2. \A t \in Loopers : {evlist[t][i].ev : i \in Live(t)}' = {evlist[t][i].ev : i \in Live(t)}
  BY <1>1
<1> QED  BY <1>2 DEF Leases, Queued, Kept

\* An event with a live slot is active, and owned by the slot's loop.
LEMMA LeasedActive ==
  ASSUME LeaseInv, NEW t \in Loopers, NEW e \in Leases[t]
  PROVE  "ACTIVE" \in state[e] /\ owner[e] = t
<1>1. PICK i \in Live(t) : e = evlist[t][i].ev
  BY DEF Leases
<1> QED  BY <1>1 DEF LeaseInv, OwnInv, LiveOwned

\* Marking an event grants the lease: nobody has one, or an assertion fails.
LEMMA MarkGrants ==
  ASSUME TypeInv, LeaseInv, NEW t \in Loopers, Mark(t)
  PROVE  Lease!Grant(Current(t), t)
<1> DEFINE e == Current(t)
           k == idx[t]
<1>0. /\ state \in [Events -> SUBSET {"ACTIVE", "PENDING"}]
      /\ e \in Events /\ k \in 1..Len(evlist[t]) /\ Len(evlist[t]) \in Nat
      /\ e = evlist[t][k].ev
  BY MarkSlots DEF TypeInv, TypeOK
<1>1. /\ MarkAsserts(t) = "none" /\ state' = [state EXCEPT ![e] = @ \cup {"ACTIVE"}]
      /\ UNCHANGED <<evlist, epoch, failed>>
  BY DEF Mark
<1>2. "ACTIVE" \notin state[e]
  BY <1>1 DEF MarkAsserts
<1>3. \A u \in Loopers : e \notin Leases[u]
  BY <1>2, LeasedActive
<1>4. Queued' = Queued
  BY <1>0, <1>1 DEF Queued
<1>5. ASSUME NEW u \in Loopers \ {t} PROVE Leases'[u] = Leases[u]
  <2>1. SlotsKept(u)
    BY MarkSlots, PhaseSlots
  <2>2. Live(u)' = Live(u)
    BY <1>1, <2>1 DEF SlotsKept, Live
  <2> QED  BY <1>1, <2>2 DEF Leases
<1>6. Live(t)' = Live(t) \cup {k}
  <2>1. /\ Tracked(t) = 1..(k - 1) /\ Tracked(t)' = 1..k
        /\ \A i \in 1..(k - 1) : epochs'[t][i] = epochs[t][i]
        /\ epochs'[t][k] = epoch[e]
    BY MarkSlots
  <2>2. 1..k = (1..(k - 1)) \cup {k}
    BY <1>0
  <2>3. \A i \in 1..(k - 1) : i \in Live(t)' <=> i \in Live(t)
    BY <1>1, <2>1, <2>2 DEF Live
  <2>4. k \in Live(t)'
    BY <1>0, <1>1, <2>1, <2>2 DEF Live
  <2> QED  BY <2>1, <2>2, <2>3, <2>4 DEF Live
<1>7. Leases'[t] = Leases[t] \cup {e}
  BY <1>0, <1>1, <1>6 DEF Leases
<1>8. Leases' = [Leases EXCEPT ![t] = @ \cup {e}]
  BY <1>5, <1>7 DEF Leases
<1> QED  BY <1>1, <1>3, <1>4, <1>8 DEF Lease!Grant

\* Completing a slot that is live returns the lease; a slot whose event has
\* changed ends nobody's.
LEMMA CompleteReturns ==
  ASSUME TypeInv, LeaseInv, NEW t \in Loopers, Complete(t)
  PROVE  Lease!Return(Current(t), t) \/ UNCHANGED Lease!leaseVars
<1> DEFINE e == Current(t)
           k == idx[t]
<1>0. /\ state \in [Events -> SUBSET {"ACTIVE", "PENDING"}]
      /\ e \in Events /\ k \in 1..Len(evlist[t]) /\ Len(evlist[t]) \in Nat
      /\ e = evlist[t][k].ev /\ UNCHANGED <<evlist, epochs, epoch>>
  BY CompleteSlots DEF TypeInv, TypeOK
<1>1. ASSUME NEW u \in Loopers \ {t} PROVE Leases'[u] = Leases[u]
  <2>1. SlotsKept(u)
    BY CompleteSlots, PhaseSlots
  <2>2. Live(u)' = Live(u)
    BY <1>0, <2>1 DEF SlotsKept, Live
  <2> QED  BY <1>0, <2>2 DEF Leases
<1>2. Tracked(t) = k..Len(evlist[t]) /\ Tracked(t)' = Tracked(t) \ {k}
  <2>1. Tracked(t) = k..Len(evlist[t]) /\ Tracked(t)' = (k + 1)..Len(evlist[t])
    BY CompleteSlots
  <2> QED  BY <1>0, <2>1
<1>3. Live(t)' = Live(t) \ {k}
  BY <1>0, <1>2 DEF Live
<1>4. CASE epochs[t][k] # epoch[e]
  <2>1. UNCHANGED <<state, failed>>
    BY <1>4 DEF Complete
  <2>2. Live(t)' = Live(t)
    BY <1>0, <1>3, <1>4 DEF Live
  <2>3. Leases'[t] = Leases[t]
    BY <1>0, <2>2 DEF Leases
  <2>4. Leases' = Leases
    BY <1>1, <2>3 DEF Leases
  <2> QED  BY <2>1, <2>4 DEF Lease!leaseVars, Queued
<1>5. CASE epochs[t][k] = epoch[e]
  <2>1. CompleteCurrent(t, e)
    BY <1>5 DEF Complete
  <2>2. k \in Live(t)
    BY <1>0, <1>2, <1>5 DEF Live
  <2>3. e \in Leases[t]
    BY <1>0, <2>2 DEF Leases
  <2>4. \A i \in Live(t) : evlist[t][i].ev = e => i = k
    <3>1. \A i \in Live(t) : i \in 1..Len(evlist[t])
      BY DEF Live, Tracked
    <3> QED  BY <1>0, <3>1 DEF TypeInv, BatchOK, BatchShape
  <2>5. Leases'[t] = Leases[t] \ {e}
    BY <1>0, <1>3, <2>4 DEF Leases
  <2>6. Leases' = [Leases EXCEPT ![t] = @ \ {e}]
    BY <1>1, <2>5 DEF Leases
  <2>7. CASE e \in PersistEvents
    <3>1. state' = [state EXCEPT ![e] = @ \ {"ACTIVE"}] /\ UNCHANGED failed
      BY <2>1, <2>7 DEF CompleteCurrent
    <3>2. Queued' = Queued
      BY <1>0, <3>1 DEF Queued
    <3> QED  BY <2>3, <2>6, <2>7, <3>1, <3>2 DEF Lease!Return
  <2>8. CASE e \notin PersistEvents /\ DelNoblockOk(e)
    <3>1. state' = [state EXCEPT ![e] = {}] /\ UNCHANGED failed
      BY <2>1, <2>8 DEF CompleteCurrent
    <3>2. Queued' = Queued \ {e}
      BY <1>0, <3>1 DEF Queued
    <3> QED  BY <2>3, <2>6, <2>8, <3>1, <3>2 DEF Lease!Return
  <2>9. CASE e \notin PersistEvents /\ ~DelNoblockOk(e)
    <3>1. state' = [state EXCEPT ![e] = @ \ {"ACTIVE"}] /\ failed' = "del"
      BY <2>1, <2>9 DEF CompleteCurrent
    <3>2. Queued' = Queued
      BY <1>0, <3>1 DEF Queued
    <3>3. (failed' = "none") = FALSE
      BY <3>1
    <3> QED  BY <2>3, <2>6, <2>9, <3>2, <3>3 DEF Lease!Return
  <2> QED  BY <2>7, <2>8, <2>9
<1> QED  BY <1>4, <1>5

\* A change of e ends the lease of e: the epochs recorded for an active event
\* are out of date, and no slot of an inactive one was live.
LEMMA ChangedRevokes ==
  ASSUME TypeInv, LeaseInv, NEW e \in Events, NEW s, Changed(e, s),
         \A t \in Loopers : SlotsKept(t)
  PROVE  Lease!Revoked(e)
<1>0. epoch \in [Events -> Nat]
  BY DEF TypeInv, TypeOK
<1>1. \A f \in Events \ {e} : epoch'[f] = epoch[f]
  BY <1>0 DEF Changed
<1>2. ASSUME NEW t \in Loopers, NEW i \in Tracked(t)
      PROVE  i \in Live(t)' <=> i \in Live(t) /\ evlist[t][i].ev # e
  <2>1. evlist[t][i].ev \in Events /\ epochs[t][i] \in Nat
    BY TrackedSlot
  <2>2. /\ evlist'[t][i] = evlist[t][i] /\ epochs'[t][i] = epochs[t][i]
        /\ i \in Tracked(t)'
    BY DEF SlotsKept
  <2>3. CASE evlist[t][i].ev # e
    BY <1>1, <2>1, <2>2, <2>3 DEF Live
  <2>4. CASE evlist[t][i].ev = e /\ "ACTIVE" \in state[e]
    <3>1. epoch'[e] = epoch[e] + 1 /\ epoch[e] \in Nat
      BY <1>0, <2>4 DEF Changed
    <3>2. epochs[t][i] <= epoch[e]
      BY <2>4 DEF LeaseInv, OwnInv, LiveOwned
    <3>3. epochs'[t][i] # epoch'[evlist'[t][i].ev]
      BY <2>1, <2>2, <2>4, <3>1, <3>2
    <3> QED  BY <2>4, <3>3 DEF Live
  <2>5. CASE evlist[t][i].ev = e /\ "ACTIVE" \notin state[e]
    <3>1. i \notin Live(t)
      BY <2>5 DEF LeaseInv, OwnInv, LiveOwned
    <3>2. epoch'[e] = epoch[e]
      BY <2>5 DEF Changed
    <3> QED  BY <2>2, <2>5, <3>1, <3>2 DEF Live
  <2> QED  BY <2>3, <2>4, <2>5
<1>3. ASSUME NEW t \in Loopers PROVE Leases'[t] = Leases[t] \ {e}
  <2>1. Live(t)' = {i \in Live(t) : evlist[t][i].ev # e}
    <3>1. Live(t)' \subseteq Tracked(t) /\ Live(t) \subseteq Tracked(t)
      BY DEF Live, SlotsKept
    <3> QED  BY <1>2, <3>1
  <2>2. \A i \in Live(t) : evlist'[t][i] = evlist[t][i]
    BY DEF Live, SlotsKept
  <2> QED  BY <2>1, <2>2 DEF Leases
<1> QED  BY <1>3 DEF Leases, Lease!Revoked

\* event_del ends no lease but its caller's.
LEMMA DelDeletes ==
  ASSUME TypeInv, LeaseInv, NEW t \in Threads, NEW k, k.ev \in Events, DelBody(t, k),
         \A u \in Loopers : SlotsKept(u)
  PROVE  Lease!Delete(k.ev, t) \/ UNCHANGED Lease!leaseVars
<1> DEFINE e == k.ev
<1>0. state \in [Events -> SUBSET {"ACTIVE", "PENDING"}]
  BY DEF TypeInv, TypeOK
<1>1. \/ UNCHANGED <<state, owner, epoch>>
      \/ /\ "PENDING" \in state[e] /\ ("ACTIVE" \notin state[e] \/ owner[e] = t)
         /\ Changed(e, state[e] \ {"PENDING"})
  BY DEF DelBody
<1>2. UNCHANGED failed
  BY DEF DelBody
<1>3. CASE UNCHANGED <<state, owner, epoch>>
  <2>1. Leases' = Leases /\ Queued' = Queued
    BY <1>3, LeasesKept DEF Kept
  <2> QED  BY <1>2, <2>1 DEF Lease!leaseVars
<1>4. CASE /\ "PENDING" \in state[e] /\ ("ACTIVE" \notin state[e] \/ owner[e] = t)
           /\ Changed(e, state[e] \ {"PENDING"})
  <2>1. e \in Queued
    BY <1>4 DEF Queued
  <2>2. \A u \in Loopers \ {t} : e \notin Leases[u]
    BY <1>4, LeasedActive
  <2>3. state' = [state EXCEPT ![e] = (state[e] \ {"PENDING"}) \ {"ACTIVE"}]
    BY <1>4 DEF Changed
  <2>4. Queued' = Queued \ {e}
    BY <1>0, <2>3 DEF Queued
  <2>5. Lease!Revoked(e)
    BY <1>4, ChangedRevokes
  <2> QED  BY <1>2, <2>1, <2>2, <2>4, <2>5 DEF Lease!Delete
<1> QED  BY <1>1, <1>3, <1>4

\* event_add queues an event that was not, and ends a lease it has.
LEMMA CommitAdds ==
  ASSUME TypeInv, LeaseInv, NEW t \in Threads, AddCommit(t), \A u \in Loopers : SlotsKept(u)
  PROVE  Lease!Add(kev[t].ev)
<1> DEFINE e == kev[t].ev
<1>0. state \in [Events -> SUBSET {"ACTIVE", "PENDING"}] /\ e \in Events
  BY DEF TypeInv, TypeOK
<1>1. pc[t] = "add" /\ Changed(e, state[e] \cup {"PENDING"}) /\ UNCHANGED failed
  BY DEF AddCommit
<1>2. e \notin Queued
  BY <1>1 DEF LeaseInv, OneAdder, Queued
<1>3. state' = [state EXCEPT ![e] = (state[e] \cup {"PENDING"}) \ {"ACTIVE"}]
  BY <1>1 DEF Changed
<1>4. Queued' = Queued \cup {e}
  BY <1>0, <1>3 DEF Queued
<1>5. Lease!Revoked(e)
  BY <1>0, <1>1, ChangedRevokes
<1> QED  BY <1>1, <1>2, <1>4, <1>5 DEF Lease!Add

\* Every step of the library is a step of the lease, or none.
LEMMA NextLease ==
  TypeInv /\ LeaseInv /\ [Next]_vars => [Lease!LeaseNext]_(Lease!leaseVars)
<1> SUFFICES ASSUME TypeInv, LeaseInv, [Next]_vars
             PROVE  [Lease!LeaseNext]_(Lease!leaseVars)
  OBVIOUS
<1>1. ASSUME Kept, failed = "none"
      PROVE  Lease!LeaseNext \/ UNCHANGED Lease!leaseVars
  <2>1. Leases' = Leases /\ Queued' = Queued
    BY <1>1, LeasesKept
  <2>2. CASE failed' = "none"
    BY <1>1, <2>1, <2>2 DEF Lease!leaseVars
  <2>3. CASE failed' # "none"
    <3>1. (failed' = "none") = FALSE
      BY <2>3
    <3>2. Lease!Abort
      BY <2>1, <3>1 DEF Lease!Abort
    <3> QED  BY <1>1, <3>2 DEF Lease!LeaseNext
  <2> QED  BY <2>2, <2>3
<1>2. ASSUME NEW t \in Loopers, LoopStep(t), failed = "none"
      PROVE  Lease!LeaseNext \/ UNCHANGED Lease!leaseVars
  <2>1. CASE Mark(t)
    <3>1. Current(t) \in Events
      BY <2>1, MarkSlots
    <3>2. Lease!Grant(Current(t), t)
      BY <2>1, MarkGrants
    <3> QED  BY <1>2, <3>1, <3>2 DEF Lease!LeaseNext
  <2>2. CASE Complete(t)
    <3>1. Current(t) \in Events
      BY <2>2, CompleteSlots
    <3>2. Lease!Return(Current(t), t) \/ UNCHANGED Lease!leaseVars
      BY <2>2, CompleteReturns
    <3> QED  BY <1>2, <3>1, <3>2 DEF Lease!LeaseNext
  <2>3. CASE Kept
    BY <1>1, <1>2, <2>3
  <2> QED  BY <1>2, <2>1, <2>2, <2>3, LoopSlots
<1>3. ASSUME NEW t \in Threads, ApiStep(t), failed = "none"
      PROVE  Lease!LeaseNext \/ UNCHANGED Lease!leaseVars
  <2>0. kev[t].ev \in Events
    BY DEF TypeInv, TypeOK
  <2>1. \A u \in Loopers : SlotsKept(u)
    BY <1>3, ApiSlots
  <2>2. CASE Del(t) \/ DelRetry(t)
    <3>1. PICK k \in {kev[t], [ev |-> kev[t].ev, ident |-> ident[kev[t].ev]]} : DelBody(t, k)
      BY <2>2 DEF Del, DelRetry
    <3>2. k.ev \in Events
      BY <2>0
    <3>3. Lease!Delete(k.ev, t) \/ UNCHANGED Lease!leaseVars
      BY <2>1, <3>1, <3>2, DelDeletes
    <3> QED  BY <1>3, <3>2, <3>3 DEF Lease!LeaseNext
  <2>3. CASE AddCommit(t)
    <3>1. Lease!Add(kev[t].ev)
      BY <2>1, <2>3, CommitAdds
    <3> QED  BY <1>3, <2>0, <3>1 DEF Lease!LeaseNext
  <2>4. CASE AddCheck(t) \/ AddFails(t)
    <3>1. UNCHANGED <<state, owner, epoch>>
      BY <2>4 DEF AddCheck, AddFails, evvars
    <3>2. Kept
      BY <2>1, <3>1 DEF Kept
    <3> QED  BY <1>1, <1>3, <3>2
  <2> QED  BY <1>3, <2>2, <2>3, <2>4 DEF ApiStep
<1>4. CASE OutsideStep /\ failed = "none"
  <2>1. Kept
    BY <1>4, OutsideSlots
  <2> QED  BY <1>1, <1>4, <2>1
<1>5. CASE UNCHANGED vars
  <2>1. Kept /\ failed' = failed
    BY <1>5, OutsideSlots DEF vars
  <2>2. Leases' = Leases /\ Queued' = Queued
    BY <2>1, LeasesKept
  <2> QED  BY <2>1, <2>2 DEF Lease!leaseVars
<1> QED  BY <1>2, <1>3, <1>4, <1>5 DEF Next, Running, OutsideStep

\* EvCompat implements the lease: whatever handlers, callers and loops do, what
\* the loops handle is granted, returned and revoked as EvLease says.
THEOREM LeaseImplemented == Spec => ImplementsLease
<1> DEFINE Inv == TypeInv /\ LeaseInv
<1>1. Init => Inv /\ Lease!LeaseInit
  <2> SUFFICES ASSUME Init PROVE Inv /\ Lease!LeaseInit
    OBVIOUS
  <2>1. OneAdder
    BY DEF Init, OneAdder, AddingPCs, Threads
  <2>2. \A t \in Loopers : Live(t) = {}
    BY DEF Init, Live, Tracked
  <2>3. Leases = [t \in Loopers |-> {}]
    BY <2>2 DEF Leases
  <2>4. Queued \in SUBSET Events /\ (failed = "none") = TRUE
    BY DEF Init, Queued
  <2> QED  BY <2>1, <2>3, <2>4, InitType, InitOwn DEF LeaseInv, Lease!LeaseInit
<1>2. Inv /\ [Next]_vars => Inv'
  BY NextType, NextOwn, NextAdder DEF LeaseInv
<1>3. Inv /\ [Next]_vars => [Lease!LeaseNext]_(Lease!leaseVars)
  BY NextLease
<1> QED  BY <1>1, <1>2, <1>3, PTL DEF Spec, ImplementsLease, Lease!LeaseSpec
=============================================================================

---------------------------- MODULE ScaledProof ----------------------------
(* Proofs about Scaled for any number of threads and pipes, any batch      *)
(* length and the three ways to use kqueues.                               *)
EXTENDS Scaled, FiniteSetTheorems, TLAPS

-----------------------------------------------------------------------------
(* The inductive invariant *)

\* The sets of the threads hold pipes, or the exit pipe.
Sets ==
  /\ left \in [Threads -> SUBSET (Pipes \cup {EXIT})]
  /\ enable \in [Threads -> SUBSET (Pipes \cup {EXIT})]

\* Events are left to process only in the loop over a batch, and nothing of the
\* last round is kept once kevent was called.
RoundShape ==
  \A t \in Threads :
    /\ pc[t] # "proc" => left[t] = {}
    /\ pc[t] = "wait" => enable[t] = {}

\* What withholds an event still to be processed from the other threads: the
\* thread's own kqueue, EV_DISPATCH, or SKQ.
Claimed(t, e) ==
  CASE sharing = "multi" -> InKqueue(t, e)
    [] sharing = "legacy" -> knote[e] = "disabled" /\ got[e] = t
    [] sharing = "skq" -> knote[e] = "held" /\ got[e] = t

\* Every pipe left to process is claimed by its thread.
LeftClaimed == \A t \in Threads : \A e \in left[t] \cap Pipes : Claimed(t, e)

\* EV_ENABLE is set only for pipes that EV_DISPATCH disabled for this thread.
EnableClaimed ==
  \A t \in Threads : \A e \in enable[t] :
    sharing = "legacy" /\ e \in Pipes /\ Claimed(t, e)

IInv == TypeOK /\ Sets /\ RoundShape /\ LeftClaimed /\ EnableClaimed

\* The exit pipe is none of the pipes.
LEMMA ExitApart == EXIT \notin Pipes
BY ScaledAssumption, FS_CardinalityType DEF EXIT

\* A claim is exclusive: two threads never claim the same pipe.
LEMMA ClaimOnce ==
  ASSUME sharing \in {"multi", "legacy", "skq"}, NEW e \in Pipes,
         NEW t, NEW u, Claimed(t, e), Claimed(u, e)
  PROVE  t = u
<1>1. CASE sharing = "multi"
  BY <1>1, ExitApart DEF Claimed, InKqueue
<1>2. CASE sharing # "multi"
  BY <1>2 DEF Claimed
<1> QED  BY <1>1, <1>2

\* The invariant is enough for OneThread.
LEMMA OneThreadFromClaims == IInv => OneThread
BY ClaimOnce DEF IInv, TypeOK, LeftClaimed, OneThread

\* The invariant holds initially.
LEMMA InitInv == Init => IInv
<1> SUFFICES ASSUME Init PROVE IInv
  OBVIOUS
<1>1. 0 \in Threads /\ 0 \in 0..MaxCnt
  BY ScaledAssumption, FS_CardinalityType
<1>2. TypeOK
  BY <1>1 DEF Init, TypeOK
<1> QED  BY <1>2 DEF Init, IInv, Sets, RoundShape, LeftClaimed, EnableClaimed

\* A call of kevent gives back what the thread itself holds or re-enables, so it
\* touches no other thread's claim.
LEMMA EnterInv ==
  ASSUME IInv, NEW t \in Threads, KeventEnter(t)
  PROVE  IInv'
<1> USE DEF IInv
<1>1. TypeOK' /\ Sets' /\ RoundShape'
  BY DEF KeventEnter, TypeOK, Sets, RoundShape
<1>2. ASSUME NEW u \in Threads, NEW e \in left[u] \cap Pipes PROVE Claimed(u, e)'
  <2>1. Claimed(u, e) /\ u # t
    BY <1>2 DEF LeftClaimed, RoundShape, KeventEnter
  <2>2. e \notin enable[t]
    BY <1>2, <2>1, ClaimOnce DEF EnableClaimed, TypeOK
  <2> QED  BY <2>1, <2>2 DEF Claimed, InKqueue, KeventEnter, TypeOK
<1>3. ASSUME NEW u \in Threads, NEW e \in enable'[u]
      PROVE  sharing' = "legacy" /\ e \in Pipes /\ Claimed(u, e)'
  <2>1. u # t /\ e \in enable[u]
    BY <1>3 DEF KeventEnter, Sets
  <2>2. sharing = "legacy" /\ e \in Pipes /\ Claimed(u, e)
    BY <2>1 DEF EnableClaimed
  <2>3. e \notin enable[t]
    BY <2>1, <2>2, ClaimOnce DEF EnableClaimed, TypeOK
  <2> QED  BY <2>1, <2>2, <2>3 DEF Claimed, KeventEnter, TypeOK
<1>4. LeftClaimed'
  BY <1>2 DEF LeftClaimed, KeventEnter
<1>5. EnableClaimed'
  BY <1>3 DEF EnableClaimed
<1> QED  BY <1>1, <1>4, <1>5

\* What kevent returns was enabled and in the thread's kqueue, so no other thread
\* claimed it; from now on this one does.
LEMMA ReturnInv ==
  ASSUME IInv, NEW t \in Threads, NEW S \in SUBSET (Pipes \cup {EXIT}), KeventReturn(t, S)
  PROVE  IInv'
<1> USE DEF IInv
<1>1. TypeOK'
  BY DEF KeventReturn, TypeOK, Sets, RoundShape, AfterReturn
<1>2. Sets' /\ RoundShape'
  BY DEF KeventReturn, TypeOK, Sets, RoundShape
<1>3. \A e \in S : knote[e] = "enabled" /\ InKqueue(t, e)
  BY DEF KeventReturn, Ready
<1>4. ASSUME NEW u \in Threads, NEW e \in left'[u] \cap Pipes PROVE Claimed(u, e)'
  <2>1. CASE u = t
    <3>1. e \in S /\ InKqueue(t, e) /\ e # EXIT
      BY <1>3, <1>4, <2>1, ExitApart DEF KeventReturn, Sets
    <3> QED  BY <2>1, <3>1 DEF KeventReturn, Claimed, InKqueue, AfterReturn, TypeOK
  <2>2. CASE u # t
    <3>1. Claimed(u, e)
      BY <1>4, <2>2 DEF KeventReturn, LeftClaimed, Sets
    <3>2. sharing # "multi" => e \notin S
      BY <1>3, <3>1 DEF Claimed, TypeOK
    <3> QED  BY <3>1, <3>2 DEF KeventReturn, Claimed, InKqueue, TypeOK
  <2> QED  BY <2>1, <2>2
<1>5. ASSUME NEW u \in Threads, NEW e \in enable[u]
      PROVE  sharing' = "legacy" /\ e \in Pipes /\ Claimed(u, e)'
  <2>1. sharing = "legacy" /\ e \in Pipes /\ Claimed(u, e)
    BY <1>5 DEF EnableClaimed
  <2>2. e \notin S
    BY <1>3, <2>1 DEF Claimed
  <2> QED  BY <2>1, <2>2 DEF KeventReturn, Claimed, TypeOK
<1>6. LeftClaimed' /\ EnableClaimed'
  BY <1>4, <1>5 DEF LeftClaimed, EnableClaimed, KeventReturn
<1> QED  BY <1>1, <1>2, <1>6

\* Processing an event moves its claim from the batch to the changes of the next
\* call, or drops it.
LEMMA ProcessInv ==
  ASSUME IInv, NEW t \in Threads, NEW e \in left[t], Process(t, e)
  PROVE  IInv'
<1> USE DEF IInv
<1>1. e \in Pipes \cup {EXIT}
  BY DEF Sets
<1>2. cnt' \in [Threads -> 0..MaxCnt] /\ stop' \in [Threads -> BOOLEAN]
  <2>1. MaxCnt \in Nat /\ cnt[t] \in 0..MaxCnt
    BY ScaledAssumption DEF TypeOK
  <2>2. (IF cnt[t] < MaxCnt THEN cnt[t] + 1 ELSE cnt[t]) \in 0..MaxCnt
    BY <2>1
  <2> QED  BY <2>2 DEF Process, TypeOK
<1>3. left'[t] = left[t] \ {e} /\ \A u \in Threads \ {t} : left'[u] = left[u] /\ enable'[u] = enable[u]
  BY DEF Process, Sets
<1>4. \/ enable'[t] = enable[t]
      \/ sharing = "legacy" /\ e \in Pipes /\ enable'[t] = enable[t] \cup {e}
  BY <1>1 DEF Process, Sets
<1>5. Sets'
  BY <1>1 DEF Process, Sets
<1>6. TypeOK'
  <2>1. \A u \in Threads : left'[u] \subseteq kev'[u] /\ enable'[u] \subseteq kev'[u] \ left'[u]
    BY <1>3, <1>4 DEF Process, TypeOK
  <2> QED  BY <1>2, <2>1 DEF Process, TypeOK
<1>7. RoundShape'
  BY <1>3, <1>4 DEF Process, RoundShape
<1>8. \A u \in Threads, f \in Pipes : Claimed(u, f) => Claimed(u, f)'
  BY DEF Process, Claimed, InKqueue
<1>9. LeftClaimed' /\ EnableClaimed'
  BY <1>3, <1>4, <1>8 DEF LeftClaimed, EnableClaimed, Process
<1> QED  BY <1>5, <1>6, <1>7, <1>9

\* A thread that leaves frees only what it got itself, and it has nothing left.
LEMMA EndInv ==
  ASSUME IInv, NEW t \in Threads, EndRound(t)
  PROVE  IInv'
<1> USE DEF IInv
<1>1. TypeOK' /\ Sets' /\ RoundShape'
  BY DEF EndRound, TypeOK, Sets, RoundShape
<1>2. ASSUME NEW u \in Threads, NEW e \in left[u] \cap Pipes PROVE Claimed(u, e)'
  <2>1. Claimed(u, e) /\ u # t
    BY <1>2 DEF LeftClaimed, EndRound
  <2> QED  BY <2>1 DEF Claimed, InKqueue, EndRound, TypeOK
<1>3. ASSUME NEW u \in Threads, NEW e \in enable[u]
      PROVE  sharing' = "legacy" /\ e \in Pipes /\ Claimed(u, e)'
  <2>1. sharing = "legacy" /\ e \in Pipes /\ Claimed(u, e)
    BY <1>3 DEF EnableClaimed
  <2> QED  BY <2>1 DEF Claimed, EndRound, TypeOK
<1>4. LeftClaimed' /\ EnableClaimed'
  BY <1>2, <1>3 DEF LeftClaimed, EnableClaimed, EndRound
<1> QED  BY <1>1, <1>4

\* Every step keeps the invariant.
LEMMA NextInv == IInv /\ [Next]_vars => IInv'
<1> SUFFICES ASSUME IInv, [Next]_vars PROVE IInv'
  OBVIOUS
<1>1. CASE Stop \/ Join \/ UNCHANGED vars
  <2>1. TypeOK' /\ Sets' /\ RoundShape'
    BY <1>1 DEF Stop, Join, vars, IInv, TypeOK, Sets, RoundShape
  <2>2. \A t \in Threads, e \in Pipes : Claimed(t, e) => Claimed(t, e)'
    BY <1>1 DEF Stop, Join, vars, Claimed, InKqueue
  <2>3. LeftClaimed' /\ EnableClaimed'
    BY <1>1, <2>2 DEF Stop, Join, vars, IInv, LeftClaimed, EnableClaimed
  <2> QED  BY <2>1, <2>3 DEF IInv
<1>2. CASE \E t \in Threads : ThreadStep(t)
  BY <1>2, EnterInv, ReturnInv, ProcessInv, EndInv DEF ThreadStep
<1> QED  BY <1>1, <1>2 DEF Next

\* Type correctness of the benchmark (scaled.c, work_thread and main): the
\* changes passed to kevent were returned by the call before and processed.
THEOREM TypeCorrect == Spec => []TypeOK
<1>1. IInv => TypeOK
  BY DEF IInv
<1> QED  BY <1>1, InitInv, NextInv, PTL DEF Spec

\* However many threads share a kqueue, no two of them process an event of the
\* same pipe at the same time (scaled.c, work_thread).
THEOREM PipeOneThread == Spec => []OneThread
BY InitInv, NextInv, OneThreadFromClaims, PTL DEF Spec

-----------------------------------------------------------------------------
(* No load is lost while the benchmark runs *)

\* Before main writes to the exit pipe no thread has seen it, and a knote is
\* withheld only by the mechanism its kqueue has.
Running ==
  /\ ~exiting => \A t \in Threads : ~stop[t] /\ EXIT \notin left[t]
  /\ \A e \in Pipes :
       /\ knote[e] = "disabled" => sharing = "legacy"
       /\ knote[e] = "held" => sharing = "skq"

LInv == IInv /\ Running /\ LoadKept

\* Every step of a running benchmark keeps the load.
LEMMA LoadStep == LInv /\ [Next]_vars => LInv'
<1> SUFFICES ASSUME LInv, [Next]_vars PROVE Running' /\ LoadKept'
  BY NextInv DEF LInv
<1> USE DEF LInv
<1>1. CASE Stop \/ Join \/ UNCHANGED vars
  BY <1>1 DEF Stop, Join, vars, Running, LoadKept
<1>2. ASSUME NEW t \in Threads, KeventEnter(t) PROVE Running' /\ LoadKept'
  <2>1. Running'
    BY <1>2 DEF KeventEnter, Running, IInv, TypeOK, Sets
  <2>2. LoadKept'
    BY <1>2, ExitApart DEF KeventEnter, LoadKept, IInv, TypeOK, Sets
  <2> QED  BY <2>1, <2>2
<1>3. ASSUME NEW t \in Threads, NEW S \in SUBSET (Pipes \cup {EXIT}), KeventReturn(t, S)
      PROVE  Running' /\ LoadKept'
  <2>0. ~exiting => EXIT \notin S
    BY <1>3 DEF KeventReturn, Ready
  <2>1. Running'
    BY <1>3, <2>0 DEF KeventReturn, AfterReturn, Running, IInv, TypeOK, Sets
  <2>2. LoadKept'
    BY <1>3, ExitApart DEF KeventReturn, AfterReturn, LoadKept, IInv, TypeOK, Sets
  <2> QED  BY <2>1, <2>2
<1>4. ASSUME NEW t \in Threads, NEW e \in left[t], Process(t, e) PROVE Running' /\ LoadKept'
  <2>1. Running'
    BY <1>4 DEF Process, Running, IInv, TypeOK, Sets
  <2>2. LoadKept'
    BY <1>4, ExitApart DEF Process, LoadKept, Running, IInv, TypeOK, Sets
  <2> QED  BY <2>1, <2>2
<1>5. ASSUME NEW t \in Threads, EndRound(t) PROVE Running' /\ LoadKept'
  <2>1. Running'
    BY <1>5 DEF EndRound, Running, IInv, TypeOK, Sets
  <2>2. LoadKept'
    BY <1>5, ExitApart DEF EndRound, LoadKept, Running, IInv, TypeOK, Sets
  <2> QED  BY <2>1, <2>2
<1> QED  BY <1>1, <1>2, <1>3, <1>4, <1>5 DEF Next, ThreadStep

\* Until the exit pipe is written, every pipe that kevent does not return is one
\* that a thread works on or gives back with its next call (scaled.c,
\* work_thread).
THEOREM LoadIsKept == Spec => []LoadKept
<1>1. Init => LInv
  BY InitInv DEF Init, LInv, Running, LoadKept
<1>2. LInv => LoadKept
  BY DEF LInv
<1> QED  BY <1>1, <1>2, LoadStep, PTL DEF Spec
=============================================================================

------------------------------ MODULE EvLease ------------------------------
(***************************************************************************)
(* What evcompat promises when several loops handle the same events: an    *)
(* event that fires is leased to one loop, which gives the lease back when *)
(* it has handled the event.  event_del ends a lease of its caller but     *)
(* waits while another thread has one; event_add ends whatever lease there *)
(* is.  There are no owners, epochs or locks here: EvCompat implements it. *)
(***************************************************************************)
CONSTANTS Events, Loopers, Threads, PersistEvents

VARIABLES
  queued,  \* the events that are added
  leases,  \* the events leased to each loop
  up       \* no assertion has failed

leaseVars == <<queued, leases, up>>

LeaseInit ==
  /\ queued \in SUBSET Events
  /\ leases = [t \in Loopers |-> {}]
  /\ up = TRUE

Revoked(e) == leases' = [t \in Loopers |-> leases[t] \ {e}]

\* t begins to handle e.
Grant(e, t) ==
  /\ \A u \in Loopers : e \notin leases[u]
  /\ leases' = [leases EXCEPT ![t] = @ \cup {e}]
  /\ UNCHANGED <<queued, up>>

\* t has handled e; unless it is persistent it is no longer queued.
Return(e, t) ==
  /\ e \in leases[t]
  /\ leases' = [leases EXCEPT ![t] = @ \ {e}]
  /\ \/ queued' = (IF e \in PersistEvents THEN queued ELSE queued \ {e}) /\ UNCHANGED up
     \/ e \notin PersistEvents /\ up' = FALSE /\ UNCHANGED queued

\* event_del by t.
Delete(e, t) ==
  /\ e \in queued
  /\ \A u \in Loopers \ {t} : e \notin leases[u]
  /\ queued' = queued \ {e}
  /\ Revoked(e)
  /\ UNCHANGED up

\* event_add.
Add(e) ==
  /\ e \notin queued
  /\ queued' = queued \cup {e}
  /\ Revoked(e)
  /\ UNCHANGED up

\* An assertion fails: the process exits.
Abort == up' = FALSE /\ UNCHANGED <<queued, leases>>

LeaseNext ==
  /\ up
  /\ \/ \E e \in Events, t \in Loopers : Grant(e, t) \/ Return(e, t)
     \/ \E e \in Events, t \in Threads : Delete(e, t)
     \/ \E e \in Events : Add(e)
     \/ Abort

LeaseSpec == LeaseInit /\ [][LeaseNext]_leaseVars
=============================================================================

---------------------------- MODULE MemoryLeases ----------------------------
(***************************************************************************)
(* The concurrency entry of one key in memory/store.go: acquireLocked with *)
(* getOrCreate, releaseLocked, and what Sweep does to the entry.  The map  *)
(* of leases by ID is the set of its entries.  Each action runs under the  *)
(* shard lock, for the released and the strict methods alike.              *)
(***************************************************************************)
EXTENDS HeldLeases

CONSTANT IdleTimes  \* values of idleFor given to Sweep

ASSUME IdleAssumption == IdleTimes \subseteq Nat \ {0}

vars == <<present, last, leases, answer, issued, clock>>

------------------------------------------------------------------------------
\* The entry is found or created, and its clock never moves back.
Effective(now) == IF present THEN Later(now, last) ELSE now

\* Expired leases are deleted before anything is decided.
Pruned(at) == Active(leases, at)

Mine(id, at) == {l \in Pruned(at) : l.id = id}

Remaining(r, at) ==
    LET used == Total(Pruned(at))
    IN  IF used < Policy[r].limit THEN Policy[r].limit - used ELSE 0

EarliestLease(set) == Min({l.expiresAt : l \in set})

Touch(at) ==
    /\ present' = TRUE
    /\ last' = at

\* Mutant: a retry renews the lease.
AcquireAgainRenews(r, id, cost, now) ==
    LET at == Effective(now)
    IN  /\ Touch(at)
        /\ \E l \in Mine(id, at) :
             LET new == Pool!Lease(id, cost, at + Policy[r].lease)
             IN  /\ leases' = (Pruned(at) \ {l}) \cup {new}
                 /\ answer' = Pool!Retried(r, new, at)
                 /\ Hand(at, {new}, {})

\* An active lease of the same ID is returned as it is, or belongs to others.
AcquireAgain(r, id, cost, now) ==
    LET at == Effective(now)
    IN  /\ Touch(at)
        /\ leases' = Pruned(at)
        /\ \E l \in Mine(id, at) :
             \/ /\ l.cost # cost
                /\ answer' = Pool!Conflict(at)
                /\ Hand(at, {}, {})
             \/ /\ l.cost = cost
                /\ answer' = Pool!Retried(r, l, at)
                /\ Hand(at, {l}, {})

AcquireNew(r, id, cost, now) ==
    LET at  == Effective(now)
        new == Pool!Lease(id, cost, at + Policy[r].lease)
    IN  /\ Mine(id, at) = {}
        /\ Touch(at)
        /\ \/ /\ cost > Remaining(r, at)
              /\ leases' = Pruned(at)
              /\ answer' = Pool!Refused(r, cost, at, EarliestLease(Pruned(at)))
              /\ Hand(at, {}, {})
           \/ /\ cost <= Remaining(r, at)
              /\ leases' = Pruned(at) \cup {new}
              /\ answer' = Pool!Granted(r, new, at)
              /\ Hand(at, {new}, {})

\* Release checks the cost and the expiry of the stored lease, not the clock.
Release(l) ==
    /\ \/ /\ l \in leases
          /\ leases' = leases \ {l}
          /\ answer' = Pool!Released(l)
          /\ Hand(clock, {}, {l})
       \/ /\ l \notin leases
          /\ answer' = Pool!NotReleased(IF \E m \in leases : m.id = l.id THEN "not_owned"
                                        ELSE "not_found")
          /\ UNCHANGED <<leases, issued, clock>>
    /\ UNCHANGED <<present, last>>

\* Sweep with the sweeper's clock: expired leases go, then the idle entry.
Sweep(now, idleFor) ==
    LET idle == Active(leases, now) = {} /\ last + idleFor <= now
    IN  /\ leases' = Active(leases, now)
        /\ present' = (present /\ ~idle)
        /\ answer' = Pool!Swept(now)
        /\ Hand(now, {}, {})
        /\ UNCHANGED last

\* A request for another key finds the shard full: evictOldest drops this entry,
\* unless that request's clock finds a lease active.
Evict(now) ==
    /\ present
    /\ Active(leases, now) = {}
    /\ present' = FALSE
    /\ leases' = {}
    /\ answer' = Pool!Swept(now)
    /\ Hand(now, {}, {})
    /\ UNCHANGED last

Init == NothingHeld

Next ==
    \/ \E r \in Revisions, id \in Ids, now \in Instants :
         \E cost \in 1 .. Policy[r].maxCost :
            AcquireAgain(r, id, cost, now) \/ AcquireNew(r, id, cost, now)
    \/ \E l \in Leases : Release(l)
    \/ \E now \in Instants, idleFor \in IdleTimes : Sweep(now, idleFor)
    \/ \E now \in Instants : Evict(now)

Spec == Init /\ [][Next]_vars

------------------------------------------------------------------------------
(* Properties. *)

\* The entry keeps its shape, holds one lease for each ID, and only leases that
\* outlive the last acquisition.
TypeOK ==
    /\ present \in BOOLEAN
    /\ last \in Instants
    /\ clock \in Instants
    /\ leases \subseteq Leases
    /\ issued \subseteq Leases
    /\ \A l, m \in leases : l.id = m.id => l = m
    /\ \A l \in leases : l.expiresAt > last
    /\ leases # {} => present
=============================================================================

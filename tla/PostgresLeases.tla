--------------------------- MODULE PostgresLeases ---------------------------
(***************************************************************************)
(* The concurrency row of one key in PostgreSQL: Acquire and Release of    *)
(* postgres/lease.go, acquireStrict and releaseStrict of                   *)
(* postgres/strict.go, mutateLeaseMode of postgres/state.go, and Cleanup.  *)
(* A call is a transaction under the key's advisory lock and the row's     *)
(* lock, which Cleanup skips, so it is one action.  A call that fails      *)
(* before its commit changes nothing.  One whose commit is not             *)
(* acknowledged did all or nothing, and a retry is one more call.          *)
(***************************************************************************)
EXTENDS RemoteLeases

------------------------------------------------------------------------------
\* Mutant: a row is kept as long as one lease, less an instant.
StateTTLShort(r) == Policy[r].lease - 1

\* postgresStateTTL
StateTTL(r) == Later(2 * Policy[r].lease, Floor)

\* loadState and loadStateStrict: an expired row is deleted and not used.
Loaded(now) == present /\ until > now

\* The clock never moves back on a row.
RowClock(now) == IF Loaded(now) THEN Later(now, last) ELSE now

RowLeases(now) == IF Loaded(now) THEN Active(leases, RowClock(now)) ELSE {}

RowMine(id, now) == {l \in RowLeases(now) : l.id = id}

RowRemaining(r, now) ==
    LET used == Total(RowLeases(now))
    IN  IF used < Policy[r].limit THEN Policy[r].limit - used ELSE 0

\* The state that is encoded, and what the caller is given.
Stored(now, given) ==
    /\ present' = TRUE /\ last' = RowClock(now)
    /\ leases' = RowLeases(now) \cup given
    /\ Hand(RowClock(now), given, {})

\* mutateLeaseMode for a request that does not fail: a lease of the same ID and
\* cost is returned as it is, otherwise the request is refused or granted.
Mutate(r, id, cost, now) ==
    LET at  == RowClock(now)
        new == Pool!Lease(id, cost, at + Policy[r].lease)
    IN  \/ \E l \in RowMine(id, now) :
             /\ l.cost = cost
             /\ answer' = Pool!Retried(r, l, at)
             /\ Stored(now, {l})
        \/ /\ RowMine(id, now) = {} /\ cost > RowRemaining(r, now)
           /\ answer' = Pool!Refused(r, cost, at, Min({l.expiresAt : l \in RowLeases(now)}))
           /\ Stored(now, {})
        \/ /\ RowMine(id, now) = {} /\ cost <= RowRemaining(r, now)
           /\ answer' = Pool!Granted(r, new, at)
           /\ Stored(now, {new})

\* The released method counts the retention from the instant that was submitted.
Acquire(r, id, cost, now) ==
    /\ Mutate(r, id, cost, now)
    /\ until' = now + StateTTL(r)
    /\ UNCHANGED server

\* The strict one counts it from the effective instant.
AcquireStrict(r, id, cost, now) ==
    /\ Mutate(r, id, cost, now)
    /\ until' = RowClock(now) + StateTTL(r)
    /\ UNCHANGED server

\* The lease of that ID has another cost: the transaction is rolled back.
AcquireConflict(id, cost, now) ==
    /\ \E l \in RowMine(id, now) : l.cost # cost
    /\ answer' = Pool!Conflict(RowClock(now))
    /\ UNCHANGED <<server, present, last, leases, until, issued, clock>>

\* Release does not look at expires_at; it deletes the row with its last lease,
\* and otherwise keeps it for the latest of the leases that are left.
ReleaseRow(l) ==
    /\ \/ /\ l \in leases
          /\ leases' = leases \ {l}
          /\ present' = (leases' # {})
          /\ until' = IF leases' = {} THEN 0 ELSE Max({m.expiresAt : m \in leases'})
          /\ answer' = Pool!Released(l)
          /\ Hand(clock, {}, {l})
       \/ /\ l \notin leases
          /\ answer' = Pool!NotReleased(IF \E m \in leases : m.id = l.id THEN "not_owned"
                                        ELSE "not_found")
          /\ UNCHANGED <<present, leases, until, issued, clock>>
    /\ UNCHANGED <<server, last>>

\* Cleanup and CleanupStrict.
Cleanup(now) ==
    /\ present /\ until <= now
    /\ present' = FALSE /\ leases' = {} /\ until' = 0
    /\ answer' = Pool!Swept(now)
    /\ Hand(now, {}, {})
    /\ UNCHANGED <<server, last>>

\* External: time passes.
RowTick ==
    /\ server < MaxTime - Skew
    /\ server' = server + 1
    /\ UNCHANGED <<present, last, leases, until, answer, issued, clock>>

PostgresNext ==
    \/ \E r \in Revisions, id \in Ids, now \in Readings :
         \E cost \in 1 .. Policy[r].maxCost :
            \/ Acquire(r, id, cost, now) \/ AcquireStrict(r, id, cost, now)
            \/ AcquireConflict(id, cost, now)
    \/ \E l \in Leases : ReleaseRow(l)
    \/ \E now \in Readings : Cleanup(now)
    \/ RowTick

PostgresSpec == RemoteInit /\ [][PostgresNext]_remoteVars
=============================================================================

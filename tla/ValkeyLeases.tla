---------------------------- MODULE ValkeyLeases ----------------------------
(***************************************************************************)
(* The lease hash of one key in Valkey: acquireLeaseScriptBody and         *)
(* releaseLeaseScriptBody of valkey/scripts.go with the arguments that     *)
(* valkey/lease.go and valkey/strict.go give them.  A script runs alone on *)
(* the server, so a call is one action; whether its reply reaches the      *)
(* caller changes nothing, and a retry is one more call.  The released and *)
(* the strict scripts differ in their validation of stored fields only.    *)
(* The hash lives on the server's clock; leases live on the clock that is  *)
(* submitted or, with Options.Clock, read by the script.                   *)
(***************************************************************************)
EXTENDS RemoteLeases

------------------------------------------------------------------------------
\* ttl_ms
HashTTL(r) == Later(2 * Policy[r].lease, Floor)

HashClock(now) == IF present THEN Later(now, last) ELSE now

\* Mutant: leases are pruned one instant late.
HashLeasesLate(at) == {l \in leases : l.expiresAt >= at}

HashLeases(at) == Active(leases, at)

HashMine(id, at) == {l \in HashLeases(at) : l.id = id}

HashRemaining(r, at) ==
    LET used == Total(HashLeases(at))
    IN  IF used < Policy[r].limit THEN Policy[r].limit - used ELSE 0

\* The field of the same ID is there: its lease is returned and the hash is kept
\* longer, or its cost is another and only the pruning stays.
AcquireField(r, id, cost, now) ==
    LET at == HashClock(now)
    IN  /\ present' = TRUE /\ last' = at
        /\ leases' = HashLeases(at)
        /\ \E l \in HashMine(id, at) :
             \/ /\ l.cost # cost
                /\ answer' = Pool!Conflict(at)
                /\ Hand(at, {}, {})
                /\ UNCHANGED until
             \/ /\ l.cost = cost
                /\ answer' = Pool!Retried(r, l, at)
                /\ Hand(at, {l}, {})
                /\ until' = server + HashTTL(r)
        /\ UNCHANGED server

\* A refusal leaves the time of removal alone.
AddField(r, id, cost, now) ==
    LET at  == HashClock(now)
        new == Pool!Lease(id, cost, at + Policy[r].lease)
    IN  /\ HashMine(id, at) = {}
        /\ present' = TRUE /\ last' = at
        /\ \/ /\ cost > HashRemaining(r, at)
              /\ leases' = HashLeases(at)
              /\ answer' = Pool!Refused(r, cost, at, Min({l.expiresAt : l \in HashLeases(at)}))
              /\ Hand(at, {}, {})
              /\ UNCHANGED until
           \/ /\ cost <= HashRemaining(r, at)
              /\ leases' = HashLeases(at) \cup {new}
              /\ answer' = Pool!Granted(r, new, at)
              /\ Hand(at, {new}, {})
              /\ until' = server + HashTTL(r)
        /\ UNCHANGED server

\* The stored cost and expiry prove ownership; the last lease takes the hash along.
ReleaseHash(l) ==
    /\ \/ /\ l \in leases
          /\ leases' = leases \ {l}
          /\ present' = (leases' # {})
          /\ until' = IF leases' = {} THEN 0 ELSE until
          /\ answer' = Pool!Released(l)
          /\ Hand(clock, {}, {l})
       \/ /\ l \notin leases
          /\ answer' = Pool!NotReleased(IF \E m \in leases : m.id = l.id THEN "not_owned"
                                        ELSE "not_found")
          /\ UNCHANGED <<present, leases, until, issued, clock>>
    /\ UNCHANGED <<server, last>>

\* External: time passes, and the server removes the hash in time.
HashTick ==
    /\ server < MaxTime - Skew
    /\ server' = server + 1
    /\ \/ /\ present /\ server' >= until
          /\ present' = FALSE /\ leases' = {} /\ until' = 0
          /\ answer' = Pool!Swept(server')
          /\ Hand(server', {}, {})
       \/ /\ ~(present /\ server' >= until)
          /\ UNCHANGED <<present, leases, until, answer, issued, clock>>
    /\ UNCHANGED last

ValkeyNext ==
    \/ \E r \in Revisions, id \in Ids, now \in Readings :
         \E cost \in 1 .. Policy[r].maxCost :
            AcquireField(r, id, cost, now) \/ AddField(r, id, cost, now)
    \/ \E l \in Leases : ReleaseHash(l)
    \/ HashTick

ValkeySpec == RemoteInit /\ [][ValkeyNext]_remoteVars
=============================================================================

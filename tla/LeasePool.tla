------------------------------ MODULE LeasePool ------------------------------
(***************************************************************************)
(* What a lease backend promises for one policy ID and key.  The pool is   *)
(* the set of leases whose cost is set aside.  A lease enters it when it   *)
(* is granted and leaves it when it is released, or when a clock reading   *)
(* at or past its expiry is presented.  A request is refused only when the *)
(* pool has no room for it.                                                *)
(***************************************************************************)
EXTENDS Integers, FiniteSetsExt

CONSTANTS Ids,        \* lease identifiers callers choose
          Revisions,  \* the revisions under which the policy ID is deployed
          Policy,     \* [Revisions -> [limit, lease, maxCost]]
          MaxTime     \* bound on the instants callers submit

VARIABLES held,    \* leases whose cost is set aside
          seen,    \* the effective instant of the last acquisition
          answer   \* the answer to the last call

vars == <<held, seen, answer>>

Instants == 0 .. MaxTime

Later(s, t) == IF s < t THEN t ELSE s

Lease(id, cost, expiresAt) == [id |-> id, cost |-> cost, expiresAt |-> expiresAt]

Costs == UNION {1 .. Policy[r].maxCost : r \in Revisions}

Leases == [id : Ids, cost : Costs,
           expiresAt : {t + Policy[r].lease : t \in Instants, r \in Revisions}]

Active(leases, at) == {l \in leases : l.expiresAt > at}

Total(leases) == SumFunction([l \in leases |-> l.cost])

Granted(r, l, at) == [outcome |-> "granted", revision |-> r, lease |-> l, at |-> at]

Retried(r, l, at) == [outcome |-> "retried", revision |-> r, lease |-> l, at |-> at]

Refused(r, cost, at, reset) ==
    [outcome |-> "limited", revision |-> r, cost |-> cost, at |-> at, reset |-> reset]

Conflict(at) == [outcome |-> "conflict", at |-> at]

Released(l) == [outcome |-> "released", lease |-> l]

NotReleased(outcome) == [outcome |-> outcome]

Swept(at) == [outcome |-> "swept", at |-> at]

NoAnswer == [outcome |-> "none"]

------------------------------------------------------------------------------
\* `at' is the effective instant.  While leases are held it never moves back;
\* a backend may forget the clock of a key that holds none.
Acquire(r, id, cost, at) ==
    LET active == Active(held, at)
        mine   == {l \in active : l.id = id}
        new    == Lease(id, cost, at + Policy[r].lease)
    IN  /\ held # {} => at >= seen
        /\ \/ /\ \E l \in mine : l.cost = cost /\ answer' = Retried(r, l, at)
              /\ held' = active /\ seen' = at      \* nothing is charged or renewed
           \/ /\ \E l \in mine : l.cost # cost
              /\ answer' = Conflict(at)
              /\ \/ held' = active /\ seen' = at
                 \/ UNCHANGED <<held, seen>>       \* a transaction is rolled back
           \/ /\ mine = {}
              /\ Total(active) + cost <= Policy[r].limit
              /\ held' = active \cup {new} /\ seen' = at
              /\ answer' = Granted(r, new, at)
           \/ /\ mine = {}
              /\ Total(active) + cost > Policy[r].limit
              /\ held' = active /\ seen' = at
              /\ answer' = Refused(r, cost, at, Min({l.expiresAt : l \in active}))

\* Only the lease presented is released, and only if it is held.
Release(l) ==
    /\ held' = held \ {l}
    /\ answer' = IF l \in held THEN Released(l)
                 ELSE NotReleased(IF \E m \in held : m.id = l.id THEN "not_owned"
                                  ELSE "not_found")
    /\ UNCHANGED seen

\* Housekeeping with a clock of its own.
Sweep(now) ==
    /\ held' = Active(held, now)
    /\ answer' = Swept(now)
    /\ UNCHANGED seen

Init == held = {} /\ seen = 0 /\ answer = NoAnswer

Next ==
    \/ \E r \in Revisions, id \in Ids, at \in Instants :
         \E cost \in 1 .. Policy[r].maxCost : Acquire(r, id, cost, at)
    \/ \E l \in Leases : Release(l)
    \/ \E now \in Instants : Sweep(now)

Spec == Init /\ [][Next]_vars
=============================================================================

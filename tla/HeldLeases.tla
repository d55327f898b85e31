----------------------------- MODULE HeldLeases -----------------------------
(***************************************************************************)
(* What every lease backend keeps for one policy ID and key, and what      *)
(* callers rely on: the leases whose cost is set aside, the answer to the  *)
(* last call, and, as history, what callers have in hand.                  *)
(***************************************************************************)
EXTENDS Integers, FiniteSetsExt

CONSTANTS Ids,        \* lease identifiers callers choose
          Revisions,  \* the revisions under which the policy ID is deployed
          Policy,     \* [Revisions -> [limit, lease, maxCost]]
          MaxTime     \* bound on the instants callers submit

ASSUME PolicyAssumption ==
    \A r \in Revisions : /\ Policy[r].limit \in Nat \ {0}
                         /\ Policy[r].lease \in Nat \ {0}
                         /\ Policy[r].maxCost \in 1 .. Policy[r].limit

ASSUME TimeAssumption == MaxTime \in Nat

VARIABLES present,  \* the key has an entry, a hash or a row
          last,     \* the effective instant it has seen
          leases,   \* the leases in it
          answer,   \* the answer to the last call
          issued,   \* leases handed out, not released, not expired on `clock' (history)
          clock     \* the latest effective instant or housekeeping time (history)

Pool == INSTANCE LeasePool WITH held <- leases, seen <- last

Instants == Pool!Instants

Leases == Pool!Leases

Active(set, at) == {l \in set : l.expiresAt > at}

Total(set) == SumFunction([l \in set |-> l.cost])

Later(s, t) == IF s < t THEN t ELSE s

\* History: the clock advances, and what callers have in hand changes.
Hand(at, given, back) ==
    /\ clock' = Later(at, clock)
    /\ issued' = Active((issued \cup given) \ back, clock')

NothingHeld ==
    /\ present = FALSE /\ last = 0 /\ leases = {}
    /\ answer = Pool!NoAnswer
    /\ issued = {} /\ clock = 0

------------------------------------------------------------------------------
(* Properties. *)

\* Nobody loses a lease: one that was handed out, not released, and not past
\* its expiry on any clock presented, still has its cost set aside.  A retry
\* with the same ID does not renew it, and a release by another caller, a
\* rollout, a sweep, an eviction or the removal of the hash or row does not drop
\* it.  And no cost stays set aside for a lease that was given back.
HoldersKept == issued = Active(leases, clock)

\* A request is refused only if the leases in the hands of callers leave no room
\* for it, and Reset is when the first of them expires.
RefusalJustified ==
    answer.outcome = "limited" /\ answer.at = clock =>
        /\ Total(issued) + answer.cost > Policy[answer.revision].limit
        /\ answer.reset = Min({l.expiresAt : l \in issued})

\* The entry, hash or row implements the promise of a lease backend.
PoolSpec == Pool!Spec
=============================================================================

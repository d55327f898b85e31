----------------------------- MODULE TokenBucket -----------------------------
(***************************************************************************)
(* The token bucket of memory/store.go for one policy ID and one key:      *)
(* getOrCreate, carryRevision, the clamp of a clock that moves backwards,  *)
(* refill, refillDuration and admitToken, with the carried remainder.      *)
(*                                                                         *)
(* Time is counted in microseconds.  The 128-bit intermediate products of  *)
(* the code are exact integers here.                                       *)
(***************************************************************************)
EXTENDS Integers

CONSTANTS Revisions,  \* the revisions under which the policy ID is deployed
          Policy,     \* [Revisions -> policy], see PolicyAssumption
          Fastest,    \* a revision whose refill rate no other exceeds
          MaxTime     \* bound on the instants a caller may submit

VARIABLES bucket,     \* the key's entry of the shard map: type state
          decision,   \* the last decision returned
          promise,    \* a rejection some caller is waiting out (history)
          audit       \* an observer's tally of admitted cost (history)

vars == <<bucket, decision, promise, audit>>

Limit(r) == Policy[r].capacity + Policy[r].burst

\* What NewPolicy accepts, for the fields a token bucket reads.
ASSUME PolicyAssumption ==
    \A r \in Revisions : 
        /\ Policy[r].capacity \in Nat \ {0}
        /\ Policy[r].burst \in Nat
        /\ Policy[r].period \in Nat \ {0}
        /\ Policy[r].maxCost \in 1 .. Limit(r)

ASSUME FastestAssumption ==
    /\ Fastest \in Revisions
    /\ \A r \in Revisions : Policy[r].capacity * Policy[Fastest].period
                              <= Policy[Fastest].capacity * Policy[r].period

ASSUME TimeAssumption == MaxTime \in Nat

Instants == 0 .. MaxTime

Buckets == [revision : Revisions, tokens : Nat, remainder : Nat,
            lastRefill : Instants, lastSeen : Instants]

Decisions == [allowed : BOOLEAN, revision : Revisions, cost : Nat, at : Instants,
              remaining : Nat, reset : Nat, retryAfter : Nat]

Later(s, t) == IF s < t THEN t ELSE s

------------------------------------------------------------------------------
(* Pure steps of an admission. *)

NewState(r, now) ==
    [revision |-> r, tokens |-> Limit(r), remainder |-> 0,
     lastRefill |-> now, lastSeen |-> now]

\* Mutants: a rollout that does not cap the balance, or that mints tokens for
\* a larger limit.
CarryRevisionUncapped(b, r, now) ==
    [b EXCEPT !.revision = r, !.remainder = 0, !.lastRefill = Later(b.lastRefill, now)]

CarryRevisionMints(b, r, now) ==
    [b EXCEPT !.revision = r, !.remainder = 0, !.lastRefill = Later(b.lastRefill, now),
              !.tokens = IF Limit(r) < Limit(b.revision) THEN (IF @ < Limit(r) THEN @ ELSE Limit(r))
                         ELSE @ + (Limit(r) - Limit(b.revision))]

\* A rollout keeps the balance, capped by the new limit, and forgets fractions.
CarryRevision(b, r, now) ==
    [b EXCEPT !.revision = r,
              !.tokens = IF b.tokens < Limit(r) THEN b.tokens ELSE Limit(r),
              !.remainder = 0,
              !.lastRefill = Later(b.lastRefill, now)]

\* The lookup of an existing key; Init is the call that creates it.
GetOrCreate(r, now) ==
    IF bucket.revision # r THEN CarryRevision(bucket, r, now) ELSE bucket

Refill(b, r, now) ==
    LET credit == (now - b.lastRefill) * Policy[r].capacity + b.remainder
        tokens == b.tokens + (credit \div Policy[r].period)
    IN  IF now <= b.lastRefill THEN b
        ELSE IF b.tokens = Limit(r) \/ tokens >= Limit(r)
        THEN [b EXCEPT !.tokens = Limit(r), !.remainder = 0, !.lastRefill = now]
        ELSE [b EXCEPT !.tokens = tokens, !.remainder = credit % Policy[r].period,
                       !.lastRefill = now]

\* Mutants: rounded down; blind to the fraction already accrued.
RefillDurationDown(tokens, remainder, r) ==
    (tokens * Policy[r].period - remainder) \div Policy[r].capacity

RefillDurationWhole(tokens, remainder, r) ==
    (tokens * Policy[r].period + Policy[r].capacity - 1) \div Policy[r].capacity

\* Microseconds until `tokens' more have accrued, rounded up.
RefillDuration(tokens, remainder, r) ==
    IF tokens = 0 THEN 0
    ELSE (tokens * Policy[r].period - remainder + Policy[r].capacity - 1)
            \div Policy[r].capacity

\* The bucket as admitToken finds it: looked up, clock clamped, refilled.
Ready(r, now) ==
    LET got == GetOrCreate(r, now)
        at  == Later(now, got.lastSeen)
    IN  Refill([got EXCEPT !.lastSeen = at], r, at)

Decide(b, r, cost) ==
    LET allowed == cost <= b.tokens
        left    == IF allowed THEN b.tokens - cost ELSE b.tokens
    IN  [allowed |-> allowed, revision |-> r, cost |-> cost, at |-> b.lastSeen,
         remaining |-> left,
         reset |-> b.lastSeen + RefillDuration(Limit(r) - left, b.remainder, r),
         retryAfter |-> IF allowed THEN 0
                        ELSE RefillDuration(cost - b.tokens, b.remainder, r)]

------------------------------------------------------------------------------
(* History: not part of the program. *)

NoPromise == [active |-> FALSE, revision |-> Fastest, cost |-> 0, due |-> 0]

\* A rejected caller waits, unless an earlier one is already being followed.
Promises(d) ==
    IF d.allowed THEN {NoPromise}
    ELSE {[active |-> TRUE, revision |-> d.revision, cost |-> d.cost,
           due |-> d.at + d.retryAfter]}
         \cup (IF promise.active /\ promise.revision = d.revision
               THEN {promise} ELSE {})

\* The observer starts a new measurement at any moment.
StartAudit ==
    /\ audit' = [start |-> bucket.lastSeen, limit |-> Limit(bucket.revision), granted |-> 0]
    /\ UNCHANGED <<bucket, decision, promise>>

------------------------------------------------------------------------------
\* The first request of the key finds no entry: getOrCreate inserts a full
\* bucket and the same call consumes from it.
Init ==
    \E r \in Revisions, now \in Instants :
        \E cost \in 1 .. Policy[r].maxCost :
            /\ decision = Decide(NewState(r, now), r, cost)
            /\ bucket = [NewState(r, now) EXCEPT !.tokens = decision.remaining]
            /\ audit = [start |-> now, limit |-> Limit(r), granted |-> cost]
            /\ promise = NoPromise

\* One call of Admit or AdmitStrict, under the shard lock.
Admit(r, cost, now) ==
    LET ready == Ready(r, now)
        d     == Decide(ready, r, cost)
    IN  /\ bucket' = [ready EXCEPT !.tokens = d.remaining]
        /\ decision' = d
        /\ promise' \in Promises(d)
        /\ audit' = [audit EXCEPT !.granted = @ + (IF d.allowed THEN cost ELSE 0)]

Next ==
    \/ \E r \in Revisions, now \in Instants :
         \E cost \in 1 .. Policy[r].maxCost : Admit(r, cost, now)
    \/ StartAudit

Spec == Init /\ [][Next]_vars

------------------------------------------------------------------------------
(* Properties. *)

\* The state of a key keeps its shape, and a bucket never holds more than the
\* limit of the revision that last touched it.
TypeOK ==
    /\ bucket \in Buckets
    /\ bucket.tokens <= Limit(bucket.revision)
    /\ decision \in Decisions
    /\ promise \in [active : BOOLEAN, revision : Revisions, cost : Nat, due : Nat]
    /\ audit \in [start : Instants, limit : Nat, granted : Nat]

\* From any moment on, the cost admitted never exceeds the limit in force at
\* that moment plus what the fastest deployed rate refills in the time the key
\* has observed since: neither a clock that moves back, nor rejected requests,
\* nor a rollout of another revision mints tokens.
NoOverAdmission ==
    audit.granted * Policy[Fastest].period
        <= audit.limit * Policy[Fastest].period
             + (bucket.lastSeen - audit.start) * Policy[Fastest].capacity

\* RetryAfter is exact: if nobody else is admitted and the revision stays, a
\* request no larger than a rejected one succeeds once its delay has passed,
\* and one no smaller fails before, whatever rejections come in between.
RetryAfterExact ==
    [][promise.active /\ decision'.revision = promise.revision =>
         /\ decision'.at >= promise.due /\ decision'.cost <= promise.cost
              => decision'.allowed
         /\ decision'.at < promise.due /\ decision'.cost >= promise.cost
              => ~decision'.allowed]_decision

\* Reset is exact: the next request of the same revision finds the bucket full
\* if and only if it comes no earlier than the Reset last reported.
ResetExact ==
    [][decision'.revision = decision.revision =>
         (decision'.at >= decision.reset
            <=> decision'.remaining + (IF decision'.allowed THEN decision'.cost ELSE 0)
                  = Limit(decision'.revision))]_decision
=============================================================================

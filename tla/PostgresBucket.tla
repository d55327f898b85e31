--------------------------- MODULE PostgresBucket ---------------------------
(***************************************************************************)
(* The token bucket of one policy ID and key in PostgreSQL: mutateStateMode *)
(* and mutateToken of postgres/state.go in the transactions of the         *)
(* released admit (postgres/native.go) and of admitStrict                  *)
(* (postgres/strict.go), with Cleanup.  The advisory lock of the key       *)
(* serialises its transactions, so a call is one action.                   *)
(***************************************************************************)
EXTENDS RemoteBucket

\* External: the greatest time.Duration, beyond every instant of the model.
Forever == 4 * MaxTime

\* uint64 differences below zero wrap to products no duration can hold.
TokenDuration(n, remainder, r) ==
    IF n = 0 THEN 0
    ELSE IF n < 0 THEN Forever
    ELSE (n * Policy(r).period - remainder + Policy(r).capacity - 1) \div Policy(r).capacity

\* Mutant: twice the period, as for windows.
RowTTLPeriods(r) == Later(2 * Policy(r).period, Floor)

\* postgresAdmissionTTL
RowTTL(r) == Later(Later(2 * Policy(r).period, Floor), TokenDuration(Limit(r), 0, r))

\* loadState and loadStateStrict: an expired row is deleted and not used.
CurrentRow(r, now) == IF bucket.present /\ until > now THEN bucket ELSE Full(r, now)

RowClock(s, now) == Later(now, s.last)

\* The checks of the strict path.
RowCorrupt(s, r) == s.revision = r /\ (s.remainder >= Policy(r).period \/ s.tokens > Limit(r))

\* Mutant: the balance of another revision is taken over as it is.
CarryRowUncapped(s, mode, r, at) == [s EXCEPT !.revision = r]

\* Only the strict path caps the balance of another revision.
CarryRow(s, mode, r, at) ==
    IF mode = "strict" /\ s.revision # r
    THEN [s EXCEPT !.revision = r, !.tokens = IF @ < Limit(r) THEN @ ELSE Limit(r),
                   !.remainder = 0, !.last = at]
    ELSE [s EXCEPT !.revision = r]

\* The first half of mutateToken.
RefillRow(s, r, at) ==
    LET credit == (at - s.last) * Policy(r).capacity + s.remainder
        added  == credit \div Policy(r).period
    IN  IF at = s.last \/ s.tokens >= Limit(r) THEN [s EXCEPT !.last = at]
        ELSE IF added >= Limit(r) - s.tokens
        THEN [s EXCEPT !.tokens = Limit(r), !.remainder = 0, !.last = at]
        ELSE [s EXCEPT !.tokens = @ + added, !.remainder = credit % Policy(r).period, !.last = at]

\* The second half of mutateToken.
DecideRow(mode, s, r, cost) ==
    LET allowed == s.tokens >= cost
        left    == IF allowed THEN s.tokens - cost ELSE s.tokens
    IN  [outcome |-> IF allowed THEN "allowed" ELSE "limited", revision |-> r, cost |-> cost,
         mode |-> mode, at |-> s.last, remaining |-> left,
         reset |-> s.last + TokenDuration(Limit(r) - left, s.remainder, r),
         retryAfter |-> IF allowed THEN 0 ELSE TokenDuration(cost - s.tokens, s.remainder, r)]

------------------------------------------------------------------------------
\* Both transactions count the retention of a bucket from the effective instant,
\* and commit a rejection like an admission.
AdmitRow(mode, cost, now) ==
    LET r     == deployed
        found == CurrentRow(r, now)
        at    == RowClock(found, now)
        ready == RefillRow(CarryRow(found, mode, r, at), r, at)
        d     == DecideRow(mode, ready, r, cost)
    IN  /\ cost <= Policy(r).maxCost
        /\ \/ mode = "strict" /\ RowCorrupt(found, r) /\ Refuse(r)
           \/ /\ ~(mode = "strict" /\ RowCorrupt(found, r))
              /\ Answer(d)
              /\ bucket' = [ready EXCEPT !.tokens = d.remaining]
              /\ until' = at + RowTTL(r)
        /\ UNCHANGED <<deployment, server, deployed>>

\* cleanupSQL, by the clock of the server.
Cleanup(now) ==
    /\ bucket.present /\ until <= now
    /\ bucket' = NoBucket /\ until' = 0
    /\ UNCHANGED <<deployment, server, deployed, decision, clock, audit>>

\* External: time passes.
RowTick ==
    /\ server < MaxTime
    /\ server' = server + 1
    /\ UNCHANGED <<deployment, deployed, bucket, until, decision, clock, audit>>

PostgresNext ==
    \/ \E mode \in Modes, now \in Readings, cost \in 1 .. Policy(deployed).maxCost :
         AdmitRow(mode, cost, now)
    \/ \E now \in Readings : Cleanup(now)
    \/ Deploy \/ RowTick \/ StartAudit

PostgresSpec == Init /\ [][PostgresNext]_vars
=============================================================================

---------------------------- MODULE ValkeyBucket ----------------------------
(***************************************************************************)
(* The token bucket of one policy ID and key in Valkey: admitScriptBody of *)
(* valkey/scripts.go, as the released and as the strict script, with the   *)
(* arguments of valkey/store.go and valkey/strict.go.  A script runs alone *)
(* on the server, so a call is one action; a lost reply changes nothing,   *)
(* and a retry is one more call.                                           *)
(***************************************************************************)
EXTENDS RemoteBucket

\* ttl
HashTTL(r) == Later(2 * Policy(r).period, Floor)

\* The hash an admission finds, created full if there is none.
FoundHash(r, now) == IF bucket.present THEN bucket ELSE Full(r, now)

HashClock(h, now) == Later(now, h.last)

\* The checks of the strict script.
HashCorrupt(h, r) ==
    h.revision = r /\ (h.remainder >= Policy(r).period \/ h.tokens > Limit(r))

\* Only the strict script caps the balance of another revision.
CarryHash(h, mode, r, at) ==
    IF mode = "strict" /\ h.revision # r
    THEN [h EXCEPT !.revision = r, !.tokens = IF @ < Limit(r) THEN @ ELSE Limit(r),
                   !.remainder = 0, !.last = at]
    ELSE [h EXCEPT !.revision = r]

\* Mutant: whole tokens are added and their credit is kept as well.
RefillHashTwice(h, r, at) ==
    LET numerator == (at - h.last) * Policy(r).capacity + h.remainder
        tokens    == h.tokens + numerator \div Policy(r).period
    IN  IF at <= h.last \/ h.tokens >= Limit(r) THEN [h EXCEPT !.last = at]
        ELSE IF tokens >= Limit(r)
        THEN [h EXCEPT !.tokens = Limit(r), !.remainder = 0, !.last = at]
        ELSE [h EXCEPT !.tokens = tokens, !.remainder = numerator, !.last = at]

RefillHash(h, r, at) ==
    LET numerator == (at - h.last) * Policy(r).capacity + h.remainder
        tokens    == h.tokens + numerator \div Policy(r).period
    IN  IF at <= h.last \/ h.tokens >= Limit(r) THEN [h EXCEPT !.last = at]
        ELSE IF tokens >= Limit(r)
        THEN [h EXCEPT !.tokens = Limit(r), !.remainder = 0, !.last = at]
        ELSE [h EXCEPT !.tokens = tokens, !.remainder = numerator % Policy(r).period,
                       !.last = at]

\* Mutant: rounded down.
CeilingDown(value, divisor) == Later(0, value \div divisor)

Ceiling(value, divisor) == Later(0, (value + divisor - 1) \div divisor)

DecideScript(mode, h, r, cost) ==
    LET allowed == h.tokens >= cost
        left    == IF allowed THEN h.tokens - cost ELSE h.tokens
        Wait(n) == Ceiling(n * Policy(r).period - h.remainder, Policy(r).capacity)
    IN  [outcome |-> IF allowed THEN "allowed" ELSE "limited", revision |-> r, cost |-> cost,
         mode |-> mode, at |-> h.last, remaining |-> left, reset |-> h.last + Wait(Limit(r) - left),
         retryAfter |-> IF allowed THEN 0 ELSE Wait(cost - h.tokens)]

------------------------------------------------------------------------------
\* One run of the script.
AdmitScript(mode, cost, now) ==
    LET r     == deployed
        found == FoundHash(r, now)
        at    == HashClock(found, now)
        ready == RefillHash(CarryHash(found, mode, r, at), r, at)
        d     == DecideScript(mode, ready, r, cost)
    IN  /\ cost <= Policy(r).maxCost
        /\ \/ mode = "strict" /\ HashCorrupt(found, r) /\ Refuse(r)
           \/ /\ ~(mode = "strict" /\ HashCorrupt(found, r))
              /\ Answer(d)
              /\ bucket' = [ready EXCEPT !.tokens = d.remaining]
              /\ until' = server + HashTTL(r)
        /\ UNCHANGED <<deployment, server, deployed>>

\* External: the server's clock advances, and it removes the hash in time.
HashTick ==
    /\ server < MaxTime
    /\ server' = server + 1
    /\ \/ /\ bucket.present /\ server' >= until
          /\ bucket' = NoBucket /\ until' = 0
       \/ /\ ~(bucket.present /\ server' >= until)
          /\ UNCHANGED <<bucket, until>>
    /\ UNCHANGED <<deployment, deployed, decision, clock, audit>>

ValkeyNext ==
    \/ \E mode \in Modes, now \in Readings, cost \in 1 .. Policy(deployed).maxCost :
         AdmitScript(mode, cost, now)
    \/ Deploy \/ HashTick \/ StartAudit

ValkeySpec == Init /\ [][ValkeyNext]_vars
=============================================================================

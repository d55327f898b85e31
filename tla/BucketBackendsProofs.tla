------------------------ MODULE BucketBackendsProofs ------------------------
(***************************************************************************)
(* Released and strict callers on one bucket, for every deployment: every  *)
(* sequence of policies, every skew and either backend.                    *)
(***************************************************************************)
EXTENDS BucketBackends, Arithmetic

Buckets ==
    [present : {TRUE}, revision : Revisions, tokens : Nat, remainder : Nat, last : Nat]

\* The balance fits the limit and the remainder the period.
Fits(s, r) == s.tokens <= Limit(r) /\ s.remainder < Policy(r).period

\* The stored state has its shape.  Where no deployment lowers the limit it fits
\* the revision in use, whichever revision and kind of caller wrote it: `Grows'
\* compares a revision with the one before, and so carries it along each
\* deployment.
IInv ==
    /\ deployment \in Deployments
    /\ server \in Nat
    /\ deployed \in Revisions
    /\ bucket.present => bucket \in Buckets
    /\ Grows /\ bucket.present => Fits(bucket, deployed)

------------------------------------------------------------------------------
\* What the assumption says of a revision in use.
LEMMA PolicyFacts ==
    ASSUME deployment \in Deployments, NEW r \in Revisions
    PROVE  /\ r \in Nat \ {0}
           /\ Policy(r).capacity \in Nat \ {0}
           /\ Policy(r).period \in Nat \ {0}
           /\ Policy(r).maxCost \in Nat
           /\ Limit(r) \in Nat \ {0}
           /\ \A q \in Revisions : Policy(q).period = Policy(r).period
<1>1. /\ Revisions = 1 .. Len(deployment.policies) /\ Len(deployment.policies) \in Nat
      /\ \A q \in Revisions :
           /\ Policy(q).capacity \in Nat \ {0} /\ Policy(q).burst \in Nat
           /\ Policy(q).maxCost \in 1 .. Limit(q)
           /\ Policy(q).period \in Nat \ {0} /\ Policy(q).period = Policy(1).period
  BY DeploymentAssumption, Zenon DEF Revisions, Policy, Limit
<1>2. r \in Nat \ {0}
  BY <1>1
<1>3. Limit(r) \in Nat \ {0}
  BY <1>1 DEF Limit
<1>4. Policy(r).maxCost \in Nat
  BY <1>1, <1>3
<1>. QED
  BY <1>1, <1>2, <1>3, <1>4, Zenon

\* A new bucket is full.
LEMMA FullFits ==
    ASSUME deployment \in Deployments, NEW r \in Revisions, NEW now \in Nat
    PROVE  /\ Full(r, now) \in Buckets
           /\ Fits(Full(r, now), r)
           /\ Full(r, now).last = now /\ Full(r, now).revision = r
BY PolicyFacts DEF Full, Buckets, Fits

\* A reading is an instant.
LEMMA ReadingFacts ==
    ASSUME deployment \in Deployments, server \in Nat, NEW now \in Readings
    PROVE  now \in Nat
BY DeploymentAssumption DEF Readings

\* A bucket by its fields.
Made(t, r, n, m, at) ==
    t \in Buckets /\ t.revision = r /\ t.tokens = n /\ t.remainder = m /\ t.last = at

\* The fields of a bucket.
LEMMA Fields ==
    ASSUME NEW s \in Buckets
    PROVE  /\ s.revision \in Revisions
           /\ s.tokens \in Nat /\ s.remainder \in Nat /\ s.last \in Nat
BY Zenon DEF Buckets

\* What updates of a bucket make of its fields: another revision and balance, ...
LEMMA Recast ==
    ASSUME NEW s \in Buckets, NEW r \in Revisions, NEW n \in Nat, NEW m \in Nat, NEW at \in Nat
    PROVE  Made([s EXCEPT !.revision = r, !.tokens = n, !.remainder = m, !.last = at], r, n, m, at)
BY Zenon DEF Made, Buckets

\* ... another balance, ...
LEMMA Restocked ==
    ASSUME NEW s \in Buckets, NEW n \in Nat, NEW m \in Nat, NEW at \in Nat
    PROVE  Made([s EXCEPT !.tokens = n, !.remainder = m, !.last = at], s.revision, n, m, at)
BY Zenon DEF Made, Buckets

\* ... another instant, ...
LEMMA Touched ==
    ASSUME NEW s \in Buckets, NEW at \in Nat
    PROVE  Made([s EXCEPT !.last = at], s.revision, s.tokens, s.remainder, at)
BY Zenon DEF Made, Buckets

\* ... another revision, ...
LEMMA Relabelled ==
    ASSUME NEW s \in Buckets, NEW r \in Revisions
    PROVE  Made([s EXCEPT !.revision = r], r, s.tokens, s.remainder, s.last)
BY Zenon DEF Made, Buckets

\* ... and a debit.
LEMMA Drawn ==
    ASSUME NEW s \in Buckets, NEW n \in Nat
    PROVE  Made([s EXCEPT !.tokens = n], s.revision, n, s.remainder, s.last)
BY Zenon DEF Made, Buckets

\* Carrying a bucket over to another revision keeps its shape; strict callers cap
\* it, and what fitted both fits still.
LEMMA CarryFacts ==
    ASSUME deployment \in Deployments, NEW r \in Revisions, NEW mode \in Modes,
           NEW s \in Buckets, NEW at \in Nat, s.last <= at, NEW t,
           \/ /\ mode = "strict" /\ s.revision # r
              /\ Made(t, r, IF s.tokens < Limit(r) THEN s.tokens ELSE Limit(r), 0, at)
           \/ /\ ~(mode = "strict" /\ s.revision # r)
              /\ Made(t, r, s.tokens, s.remainder, s.last)
    PROVE  /\ t \in Buckets /\ t.revision = r /\ t.last <= at
           /\ Fits(s, r) => Fits(t, r)
           /\ s.tokens <= Limit(r) \/ (mode = "strict" /\ s.revision # r) => t.tokens <= Limit(r)
<1>1. Limit(r) \in Nat \ {0} /\ Policy(r).period \in Nat \ {0}
  BY PolicyFacts, Zenon
<1>2. CASE mode = "strict" /\ s.revision # r
  <2> DEFINE kept == IF s.tokens < Limit(r) THEN s.tokens ELSE Limit(r)
  <2>1. kept \in Nat /\ kept <= Limit(r) /\ Made(t, r, kept, 0, at)
    BY <1>1, <1>2, Fields
  <2> HIDE DEF kept
  <2>2. t \in Buckets /\ t.revision = r /\ t.tokens = kept /\ t.remainder = 0 /\ t.last = at
    BY <2>1, Zenon DEF Made
  <2>. QED
    BY <1>1, <2>1, <2>2 DEF Fits
<1>3. CASE ~(mode = "strict" /\ s.revision # r)
  <2>1. /\ t \in Buckets /\ t.revision = r /\ t.tokens = s.tokens
        /\ t.remainder = s.remainder /\ t.last = s.last
    BY <1>3, Zenon DEF Made
  <2>. QED
    BY <1>1, <1>3, <2>1, Zenon DEF Fits
<1>. QED
  BY <1>2, <1>3, Zenon

\* The credit of the time that has passed.
LEMMA CreditFacts ==
    ASSUME deployment \in Deployments, NEW r \in Revisions,
           NEW s \in Buckets, NEW at \in Nat, s.last <= at
    PROVE  LET credit == (at - s.last) * Policy(r).capacity + s.remainder
           IN  /\ credit \div Policy(r).period \in Nat
               /\ credit % Policy(r).period \in Nat
               /\ credit % Policy(r).period < Policy(r).period
<1>1. Policy(r).capacity \in Nat /\ Policy(r).period \in Nat \ {0} /\ s.remainder \in Nat
      /\ at - s.last \in Nat
  BY PolicyFacts, Fields
<1>2. (at - s.last) * Policy(r).capacity + s.remainder \in Nat
  BY <1>1
<1>. QED
  BY <1>1, <1>2, DivMod, Zenon

\* A refill keeps the shape, never passes the limit, and leaves a remainder that
\* is a fraction of a token.
LEMMA RefillFacts ==
    ASSUME deployment \in Deployments, NEW r \in Revisions,
           NEW s \in Buckets, NEW at \in Nat, s.last <= at, NEW t,
           NEW added \in Nat, NEW rest \in Nat, rest < Policy(r).period,
           \/ Made(t, s.revision, s.tokens, s.remainder, at)
           \/ Made(t, s.revision, Limit(r), 0, at)
           \/ Made(t, s.revision, s.tokens + added, rest, at) /\ s.tokens + added < Limit(r)
    PROVE  /\ t \in Buckets /\ t.revision = s.revision /\ t.last = at
           /\ s.tokens <= Limit(r) => t.tokens <= Limit(r)
           /\ Fits(s, r) => Fits(t, r)
<1>1. Limit(r) \in Nat \ {0} /\ Policy(r).period \in Nat \ {0}
  BY PolicyFacts, Zenon
<1>2. s.tokens \in Nat /\ s.remainder \in Nat
  BY Fields, Zenon
<1>3. CASE Made(t, s.revision, s.tokens, s.remainder, at)
  BY <1>1, <1>2, <1>3, Zenon DEF Fits, Made
<1>4. CASE Made(t, s.revision, Limit(r), 0, at)
  BY <1>1, <1>2, <1>4 DEF Fits, Made
<1>5. CASE Made(t, s.revision, s.tokens + added, rest, at) /\ s.tokens + added < Limit(r)
  BY <1>1, <1>2, <1>5 DEF Fits, Made
<1>. QED
  BY <1>3, <1>4, <1>5, Zenon

------------------------------------------------------------------------------
(* The two backends. *)

\* Carry of the scripts.
LEMMA ValkeyCarry ==
    ASSUME deployment \in Deployments, NEW r \in Revisions, NEW mode \in Modes,
           NEW s \in Buckets, NEW at \in Nat, s.last <= at
    PROVE  LET t == CarryHash(s, mode, r, at)
           IN  /\ t \in Buckets /\ t.revision = r /\ t.last <= at
               /\ Fits(s, r) => Fits(t, r)
               /\ s.tokens <= Limit(r) \/ (mode = "strict" /\ s.revision # r) => t.tokens <= Limit(r)
<1> DEFINE t == CarryHash(s, mode, r, at)
           kept == IF s.tokens < Limit(r) THEN s.tokens ELSE Limit(r)
<1>. SUFFICES /\ t \in Buckets /\ t.revision = r /\ t.last <= at
              /\ Fits(s, r) => Fits(t, r)
              /\ s.tokens <= Limit(r) \/ (mode = "strict" /\ s.revision # r)
                   => t.tokens <= Limit(r)
  OBVIOUS
<1>1. kept \in Nat
  BY PolicyFacts, Fields, Zenon
<1>2. t = IF mode = "strict" /\ s.revision # r
          THEN [s EXCEPT !.revision = r, !.tokens = kept, !.remainder = 0, !.last = at]
          ELSE [s EXCEPT !.revision = r]
  BY Zenon DEF CarryHash
<1> HIDE DEF t
<1>3. CASE mode = "strict" /\ s.revision # r
  <2> HIDE DEF kept
  <2>1. t = [s EXCEPT !.revision = r, !.tokens = kept, !.remainder = 0, !.last = at]
    BY <1>2, <1>3, Zenon
  <2>2. Made(t, r, kept, 0, at)
    BY <1>1, <2>1, Recast, Zenon
  <2>. QED
    BY <1>3, <2>2, CarryFacts DEF kept
<1>4. CASE ~(mode = "strict" /\ s.revision # r)
  <2> HIDE DEF kept
  <2>1. t = [s EXCEPT !.revision = r]
    BY <1>2, <1>4, Zenon
  <2>2. Made(t, r, s.tokens, s.remainder, s.last)
    BY <2>1, Relabelled, Zenon
  <2>. QED
    BY <1>4, <2>2, CarryFacts, Zenon
<1>. QED
  BY <1>3, <1>4, Zenon

\* Refill of the scripts.
LEMMA ValkeyRefill ==
    ASSUME deployment \in Deployments, NEW r \in Revisions,
           NEW s \in Buckets, NEW at \in Nat, s.last <= at
    PROVE  LET t == RefillHash(s, r, at)
           IN  /\ t \in Buckets /\ t.revision = s.revision /\ t.last = at
               /\ s.tokens <= Limit(r) => t.tokens <= Limit(r)
               /\ Fits(s, r) => Fits(t, r)
<1> DEFINE t == RefillHash(s, r, at)
           credit == (at - s.last) * Policy(r).capacity + s.remainder
           added == credit \div Policy(r).period
           rest == credit % Policy(r).period
<1>. SUFFICES /\ t \in Buckets /\ t.revision = s.revision /\ t.last = at
              /\ s.tokens <= Limit(r) => t.tokens <= Limit(r)
              /\ Fits(s, r) => Fits(t, r)
  OBVIOUS
<1>1. added \in Nat /\ rest \in Nat /\ rest < Policy(r).period
  BY CreditFacts, Zenon
<1>2. t = IF at <= s.last \/ s.tokens >= Limit(r) THEN [s EXCEPT !.last = at]
          ELSE IF s.tokens + added >= Limit(r)
          THEN [s EXCEPT !.tokens = Limit(r), !.remainder = 0, !.last = at]
          ELSE [s EXCEPT !.tokens = s.tokens + added, !.remainder = rest, !.last = at]
  BY Zenon DEF RefillHash
<1> HIDE DEF t, added, rest
<1>3. Limit(r) \in Nat /\ s.tokens \in Nat /\ s.tokens + added \in Nat
  BY <1>1, PolicyFacts, Fields
<1>4. CASE at <= s.last \/ s.tokens >= Limit(r)
  <2>1. t = [s EXCEPT !.last = at]
    BY <1>2, <1>4, Zenon
  <2>2. Made(t, s.revision, s.tokens, s.remainder, at)
    BY <2>1, Touched, Zenon
  <2>. QED
    BY <1>1, <2>2, RefillFacts, Zenon
<1>5. CASE ~(at <= s.last \/ s.tokens >= Limit(r)) /\ s.tokens + added >= Limit(r)
  <2>1. t = [s EXCEPT !.tokens = Limit(r), !.remainder = 0, !.last = at]
    BY <1>2, <1>5, Zenon
  <2>2. Made(t, s.revision, Limit(r), 0, at)
    BY <1>3, <2>1, Restocked, Zenon
  <2>. QED
    BY <1>1, <2>2, RefillFacts, Zenon
<1>6. CASE ~(at <= s.last \/ s.tokens >= Limit(r)) /\ ~(s.tokens + added >= Limit(r))
  <2>1. t = [s EXCEPT !.tokens = s.tokens + added, !.remainder = rest, !.last = at]
    BY <1>2, <1>6, Zenon
  <2>2. Made(t, s.revision, s.tokens + added, rest, at)
    BY <1>1, <1>3, <2>1, Restocked, Zenon
  <2>3. s.tokens + added < Limit(r)
    BY <1>1, <1>3, <1>6
  <2>. QED
    BY <1>1, <2>2, <2>3, RefillFacts, Zenon
<1>. QED
  BY <1>4, <1>5, <1>6, Zenon

\* The transactions of PostgreSQL carry and refill like the scripts of Valkey.
LEMMA RowLikeHash ==
    ASSUME deployment \in Deployments, NEW r \in Revisions, NEW mode \in Modes,
           NEW s \in Buckets, NEW at \in Nat, s.last <= at
    PROVE  CarryRow(s, mode, r, at) = CarryHash(s, mode, r, at)
           /\ RefillRow(s, r, at) = RefillHash(s, r, at)
<1> DEFINE credit == (at - s.last) * Policy(r).capacity + s.remainder
           added == credit \div Policy(r).period
<1>1. added \in Nat /\ Limit(r) \in Nat /\ s.tokens \in Nat /\ s.last \in Nat
  BY CreditFacts, PolicyFacts, Fields, Zenon
<1>2. CarryRow(s, mode, r, at) = CarryHash(s, mode, r, at)
  BY Zenon DEF CarryRow, CarryHash
<1>3. /\ RefillRow(s, r, at) =
           IF at = s.last \/ s.tokens >= Limit(r) THEN [s EXCEPT !.last = at]
           ELSE IF added >= Limit(r) - s.tokens
           THEN [s EXCEPT !.tokens = Limit(r), !.remainder = 0, !.last = at]
           ELSE [s EXCEPT !.tokens = s.tokens + added,
                          !.remainder = credit % Policy(r).period, !.last = at]
      /\ RefillHash(s, r, at) =
           IF at <= s.last \/ s.tokens >= Limit(r) THEN [s EXCEPT !.last = at]
           ELSE IF s.tokens + added >= Limit(r)
           THEN [s EXCEPT !.tokens = Limit(r), !.remainder = 0, !.last = at]
           ELSE [s EXCEPT !.tokens = s.tokens + added,
                          !.remainder = credit % Policy(r).period, !.last = at]
  BY Zenon DEF RefillRow, RefillHash
<1> HIDE DEF added
<1>4. (at = s.last <=> at <= s.last) /\ (added >= Limit(r) - s.tokens <=> s.tokens + added >= Limit(r))
  BY <1>1
<1>. QED
  BY <1>2, <1>3, <1>4, Zenon

------
(* Steps. *)

\* What depends on the deployment alone.
LEMMA GrowsStays ==
    ASSUME deployment' = deployment
    PROVE  Grows' <=> Grows
BY Zenon DEF Grows, Revisions, Limit, Policy

\* Shapes do not change with the state.
LEMMA SameShape ==
    ASSUME deployment' = deployment
    PROVE  /\ Revisions' = Revisions /\ Buckets' = Buckets
           /\ deployed' = deployed => (Fits(bucket, deployed)' <=> Fits(bucket', deployed))
BY Zenon DEF Revisions, Buckets, Fits, Limit, Policy

\* What a call decides on the balance it has made ready.
Decides(d, mode, ready, cost) ==
    /\ d.outcome = IF ready.tokens >= cost THEN "allowed" ELSE "limited"
    /\ d.revision = deployed /\ d.cost = cost /\ d.mode = mode /\ d.at = ready.last
    /\ d.remaining = IF ready.tokens >= cost THEN ready.tokens - cost ELSE ready.tokens

\* The balance a call makes ready from what it found.
Ready(mode, found, at) == RefillHash(CarryHash(found, mode, deployed, at), deployed, at)

\* A call on either backend that found this bucket, at this effective instant.
Call(mode, cost, found, at) ==
    /\ UNCHANGED <<deployment, server, deployed>>
    /\ \/ mode = "strict" /\ HashCorrupt(found, deployed) /\ Refuse(deployed)
          /\ UNCHANGED until
       \/ /\ ~(mode = "strict" /\ HashCorrupt(found, deployed))
          /\ \E d : /\ Decides(d, mode, Ready(mode, found, at), cost)
                    /\ Answer(d)
                    /\ bucket' = [Ready(mode, found, at) EXCEPT !.tokens = d.remaining]

\* The bucket a call may find, or create full.
LEMMA FoundFacts ==
    ASSUME IInv, NEW now \in Readings, NEW found, NEW at,
           (found = bucket /\ bucket.present) \/ found = Full(deployed, now),
           at = Later(now, found.last)
    PROVE  /\ found \in Buckets /\ at \in Nat /\ found.last <= at /\ now <= at
           /\ Grows => Fits(found, deployed)
<1>1. now \in Nat
  BY ReadingFacts, Zenon DEF IInv
<1>2. found \in Buckets /\ (Grows => Fits(found, deployed))
  BY <1>1, FullFits, Zenon DEF IInv
<1>3. at \in Nat /\ found.last <= at /\ now <= at
  BY <1>1, <1>2, Fields DEF Later
<1>. QED
  BY <1>2, <1>3, Zenon

\* A run of a script is a call.
LEMMA ScriptCalls ==
    ASSUME IInv, NEW mode \in Modes, NEW now \in Readings, NEW cost, AdmitScript(mode, cost, now)
    PROVE  LET found == FoundHash(deployed, now)
               at    == Later(now, found.last)
           IN  /\ found = IF bucket.present THEN bucket ELSE Full(deployed, now)
               /\ found \in Buckets /\ at \in Nat /\ found.last <= at /\ now <= at
               /\ Grows => Fits(found, deployed)
               /\ Call(mode, cost, found, at)
               /\ until' = server + HashTTL(deployed) \/ UNCHANGED <<bucket, until, clock, audit>>
<1> DEFINE found == FoundHash(deployed, now)
           at == Later(now, found.last)
           ready == Ready(mode, found, at)
           d == DecideScript(mode, ready, deployed, cost)
<1>1. found = IF bucket.present THEN bucket ELSE Full(deployed, now)
  BY Zenon DEF FoundHash
<1>2. /\ found \in Buckets /\ at \in Nat /\ found.last <= at /\ now <= at
      /\ Grows => Fits(found, deployed)
  <2> HIDE DEF found
  <2>. QED
    BY <1>1, FoundFacts, Zenon
<1>3. Decides(d, mode, ready, cost)
  <2> HIDE DEF ready
  <2>. QED
    BY Zenon DEF DecideScript, Decides
<1>4. /\ UNCHANGED <<deployment, server, deployed>>
      /\ \/ mode = "strict" /\ HashCorrupt(found, deployed) /\ Refuse(deployed)
         \/ /\ ~(mode = "strict" /\ HashCorrupt(found, deployed))
            /\ Answer(d) /\ bucket' = [ready EXCEPT !.tokens = d.remaining]
            /\ until' = server + HashTTL(deployed)
  BY Zenon DEF AdmitScript, HashClock, Ready
<1> HIDE DEF found, at, d
<1>5. Call(mode, cost, found, at)
  BY <1>3, <1>4, Zenon DEF Call, Refuse
<1>6. until' = server + HashTTL(deployed) \/ UNCHANGED <<bucket, until, clock, audit>>
  BY <1>4, Zenon DEF Refuse
<1>. QED
  BY <1>1, <1>2, <1>5, <1>6, Zenon DEF found, at

\* A transaction makes the same balance ready as a script.
LEMMA RowReady ==
    ASSUME deployment \in Deployments, deployed \in Revisions, NEW mode \in Modes,
           NEW found \in Buckets, NEW at \in Nat, found.last <= at
    PROVE  RefillRow(CarryRow(found, mode, deployed, at), deployed, at) = Ready(mode, found, at)
<1> DEFINE carried == CarryHash(found, mode, deployed, at)
<1>1. CarryRow(found, mode, deployed, at) = carried
  BY RowLikeHash, Zenon
<1>2. carried \in Buckets /\ carried.last <= at
  BY ValkeyCarry, Zenon
<1> HIDE DEF carried
<1>3. RefillRow(carried, deployed, at) = RefillHash(carried, deployed, at)
  BY <1>2, RowLikeHash, Zenon
<1>. QED
  BY <1>1, <1>3, Zenon DEF Ready, carried

\* A transaction is a call.
LEMMA TransactionCalls ==
    ASSUME IInv, NEW mode \in Modes, NEW now \in Readings, NEW cost, AdmitRow(mode, cost, now)
    PROVE  LET found == CurrentRow(deployed, now)
               at    == Later(now, found.last)
           IN  /\ found = IF bucket.present /\ until > now THEN bucket ELSE Full(deployed, now)
               /\ found \in Buckets /\ at \in Nat /\ found.last <= at /\ now <= at
               /\ Grows => Fits(found, deployed)
               /\ Call(mode, cost, found, at)
               /\ until' = at + RowTTL(deployed) \/ UNCHANGED <<bucket, until, clock, audit>>
<1> DEFINE found == CurrentRow(deployed, now)
           at == Later(now, found.last)
           ready == RefillRow(CarryRow(found, mode, deployed, at), deployed, at)
           d == DecideRow(mode, ready, deployed, cost)
<1>1. found = IF bucket.present /\ until > now THEN bucket ELSE Full(deployed, now)
  BY Zenon DEF CurrentRow
<1>2. /\ found \in Buckets /\ at \in Nat /\ found.last <= at /\ now <= at
      /\ Grows => Fits(found, deployed)
  <2> HIDE DEF found
  <2>. QED
    BY <1>1, FoundFacts, Zenon
<1>3. Decides(d, mode, ready, cost)
  <2> HIDE DEF ready
  <2>. QED
    BY Zenon DEF DecideRow, Decides
<1>4. /\ UNCHANGED <<deployment, server, deployed>>
      /\ \/ mode = "strict" /\ RowCorrupt(found, deployed) /\ Refuse(deployed)
         \/ /\ ~(mode = "strict" /\ RowCorrupt(found, deployed))
            /\ Answer(d) /\ bucket' = [ready EXCEPT !.tokens = d.remaining]
            /\ until' = at + RowTTL(deployed)
  BY Zenon DEF AdmitRow, RowClock
<1> HIDE DEF found, at, d
<1>5. ready = Ready(mode, found, at)
  BY <1>2, RowReady, Zenon DEF IInv
<1>6. RowCorrupt(found, deployed) <=> HashCorrupt(found, deployed)
  BY Zenon DEF RowCorrupt, HashCorrupt
<1> HIDE DEF ready
<1>7. Call(mode, cost, found, at)
  BY <1>3, <1>4, <1>5, <1>6, Zenon DEF Call, Refuse
<1>8. until' = at + RowTTL(deployed) \/ UNCHANGED <<bucket, until, clock, audit>>
  BY <1>4, Zenon DEF Refuse
<1>. QED
  BY <1>1, <1>2, <1>7, <1>8, Zenon DEF found, at

\* What a call makes ready fits if what it found did, and is capped for strict callers.
LEMMA ReadyFacts ==
    ASSUME deployment \in Deployments, deployed \in Revisions, NEW mode \in Modes,
           NEW found \in Buckets, NEW at \in Nat, found.last <= at
    PROVE  LET ready == Ready(mode, found, at)
           IN  /\ ready \in Buckets /\ ready.last = at /\ ready.revision = deployed
               /\ Fits(found, deployed) => Fits(ready, deployed)
               /\ mode = "strict" /\ ~HashCorrupt(found, deployed)
                    => ready.tokens <= Limit(deployed)
<1> DEFINE carried == CarryHash(found, mode, deployed, at)
<1>1. /\ carried \in Buckets /\ carried.last <= at /\ carried.revision = deployed
      /\ Fits(found, deployed) => Fits(carried, deployed)
      /\ found.tokens <= Limit(deployed) \/ (mode = "strict" /\ found.revision # deployed)
           => carried.tokens <= Limit(deployed)
  BY ValkeyCarry, Zenon
<1>2. ~HashCorrupt(found, deployed) => found.tokens <= Limit(deployed) \/ found.revision # deployed
  BY PolicyFacts, Fields DEF HashCorrupt
<1> HIDE DEF carried
<1>3. LET t == RefillHash(carried, deployed, at)
      IN  /\ t \in Buckets /\ t.revision = carried.revision /\ t.last = at
          /\ carried.tokens <= Limit(deployed) => t.tokens <= Limit(deployed)
          /\ Fits(carried, deployed) => Fits(t, deployed)
  <2>1. carried \in Buckets /\ carried.last <= at
    BY <1>1, Zenon
  <2>. QED
    BY <2>1, ValkeyRefill, Zenon
<1>. QED
  BY <1>1, <1>2, <1>3, Zenon DEF carried, Ready

\* A decision takes the cost out of the balance, or nothing.
LEMMA DecidesFacts ==
    ASSUME NEW d, NEW mode, NEW ready \in Buckets, NEW cost \in Nat, Decides(d, mode, ready, cost)
    PROVE  /\ d.remaining \in Nat /\ d.remaining <= ready.tokens
           /\ d.outcome = "allowed" => d.remaining + cost = ready.tokens
           /\ d.outcome # "corrupt"
           /\ d.cost = cost /\ d.mode = mode /\ d.at = ready.last /\ d.revision = deployed
<1>1. ready.tokens \in Nat
  BY Fields, Zenon
<1>. QED
  BY <1>1 DEF Decides

\* A call: what it stores fits if what it found did, and what it grants to a strict
\* caller comes out of at most the limit.
LEMMA CallKeeps ==
    ASSUME IInv, NEW mode \in Modes, NEW cost \in 1 .. Policy(deployed).maxCost,
           NEW found \in Buckets, NEW at \in Nat, found.last <= at,
           Grows => Fits(found, deployed), Call(mode, cost, found, at)
    PROVE  IInv' /\ StrictCapped' /\ NeverCorrupt'
<1> DEFINE ready == Ready(mode, found, at)
           corrupt == mode = "strict" /\ HashCorrupt(found, deployed)
<1>1. deployment \in Deployments /\ server \in Nat /\ deployed \in Revisions
  BY Zenon DEF IInv
<1>2. /\ ready \in Buckets
      /\ Grows => Fits(ready, deployed)
      /\ ~corrupt /\ mode = "strict" => ready.tokens <= Limit(deployed)
  BY <1>1, ReadyFacts, Zenon
<1>3. UNCHANGED <<deployment, server, deployed>>
  BY Zenon DEF Call
<1>4. corrupt => ~Fits(found, deployed)
  BY <1>1, PolicyFacts, Fields DEF HashCorrupt, Fits
<1>5. CASE corrupt /\ Refuse(deployed)
  <2>1. decision' = Bare("corrupt", deployed) /\ bucket' = bucket
    BY <1>5, Zenon DEF Refuse
  <2>2. ~Grows'
    BY <1>3, <1>4, <1>5, GrowsStays, Zenon
  <2>3. decision'.outcome = "corrupt"
    BY <2>1, Zenon DEF Bare
  <2>4. IInv'
    BY <1>3, <2>1, <2>2, SameShape, Zenon DEF IInv
  <2>. QED
    BY <2>2, <2>3, <2>4, Zenon DEF StrictCapped, NeverCorrupt
<1>6. ASSUME NEW d, Decides(d, mode, ready, cost), ~corrupt, Answer(d),
             bucket' = [ready EXCEPT !.tokens = d.remaining]
      PROVE  IInv' /\ StrictCapped' /\ NeverCorrupt'
  <2> HIDE DEF ready, corrupt
  <2>1. decision' = d
    BY <1>6, Zenon DEF Answer
  <2>2. cost \in Nat /\ ready.tokens \in Nat
    BY <1>1, <1>2, PolicyFacts, Fields
  <2>3. /\ d.remaining \in Nat /\ d.remaining <= ready.tokens
        /\ d.outcome = "allowed" => d.remaining + cost = ready.tokens
        /\ d.outcome # "corrupt" /\ d.cost = cost /\ d.mode = mode /\ d.revision = deployed
    BY <1>2, <1>6, <2>2, DecidesFacts
  <2>4. Made(bucket', ready.revision, d.remaining, ready.remainder, ready.last)
    BY <1>2, <1>6, <2>3, Drawn, Zenon
  <2>5. bucket' \in Buckets /\ (Fits(ready, deployed) => Fits(bucket', deployed))
    BY <1>1, <2>2, <2>3, <2>4, PolicyFacts DEF Made, Fits
  <2>6. IInv'
    BY <1>1, <1>2, <1>3, <2>5, GrowsStays, SameShape, Zenon DEF IInv
  <2>7. StrictCapped'
    <3>1. Limit(deployed)' = Limit(deployed)
      BY <1>3, Zenon DEF Limit, Policy
    <3>. QED
      BY <1>2, <1>3, <1>6, <2>1, <2>3, <3>1, Zenon DEF StrictCapped
  <2>8. NeverCorrupt'
    BY <2>1, <2>3, Zenon DEF NeverCorrupt
  <2>. QED
    BY <2>6, <2>7, <2>8, Zenon
<1>. QED
  BY <1>5, <1>6, Zenon DEF Call

\* A rollout to a limit that is not smaller leaves room for what is stored.
LEMMA DeployStep ==
    ASSUME IInv, StrictCapped, NeverCorrupt, Deploy
    PROVE  IInv' /\ StrictCapped' /\ NeverCorrupt'
<1>1. /\ deployment \in Deployments /\ deployed \in Revisions /\ deployed' = deployed + 1
      /\ deployed' \in Revisions /\ UNCHANGED <<deployment, server, bucket, decision>>
  BY Zenon DEF IInv, Deploy
<1>2. Revisions' = Revisions /\ Buckets' = Buckets /\ (Grows' <=> Grows)
  BY <1>1, GrowsStays, SameShape, Zenon
<1>3. Grows /\ bucket.present => Fits(bucket, deployed)'
  <2> SUFFICES ASSUME Grows, bucket.present
               PROVE  Fits(bucket, deployed)'
    OBVIOUS
  <2>1. /\ deployed \in Nat \ {0} /\ Limit(deployed) \in Nat /\ Limit(deployed + 1) \in Nat
        /\ Policy(deployed + 1).period = Policy(deployed).period
        /\ Policy(deployed).period \in Nat
    BY <1>1, PolicyFacts, Zenon
  <2>2. Limit(deployed + 1) >= Limit(deployed)
    <3>1. deployed + 1 > 1 /\ (deployed + 1) - 1 = deployed
      BY <2>1
    <3>. QED
      BY <1>1, <3>1, Zenon DEF Grows
  <2>3. Fits(bucket, deployed) /\ bucket.tokens \in Nat /\ bucket.remainder \in Nat
    BY Fields, Zenon DEF IInv
  <2>4. Fits(bucket, deployed + 1)
    BY <2>1, <2>2, <2>3 DEF Fits
  <2>. QED
    BY <1>1, <2>4, Zenon DEF Fits, Limit, Policy
<1>4. IInv'
  BY <1>1, <1>2, <1>3, Zenon DEF IInv
<1>5. StrictCapped' /\ NeverCorrupt'
  BY <1>1, <1>2, Zenon DEF StrictCapped, NeverCorrupt, Limit, Policy
<1>. QED
  BY <1>4, <1>5, Zenon

\* Every other step leaves the state as it is, or removes it.
LEMMA IdleStep ==
    ASSUME IInv, StrictCapped, NeverCorrupt, UNCHANGED <<deployment, deployed, decision>>,
           server' \in Nat, bucket' = bucket \/ bucket' = NoBucket
    PROVE  IInv' /\ StrictCapped' /\ NeverCorrupt'
<1>1. /\ Revisions' = Revisions /\ Buckets' = Buckets /\ (Grows' <=> Grows)
      /\ (Fits(bucket, deployed)' <=> Fits(bucket', deployed))
  BY GrowsStays, SameShape, Zenon
<1>2. ~NoBucket.present
  BY Zenon DEF NoBucket
<1>3. IInv'
  BY <1>1, <1>2, Zenon DEF IInv
<1>4. StrictCapped' /\ NeverCorrupt'
  BY <1>1, Zenon DEF StrictCapped, NeverCorrupt, Limit, Policy
<1>. QED
  BY <1>3, <1>4, Zenon

\* There is no bucket at first.
LEMMA Initially == Init => IInv /\ StrictCapped /\ NeverCorrupt
<1> SUFFICES ASSUME Init PROVE IInv /\ StrictCapped /\ NeverCorrupt
  OBVIOUS
<1>1. deployed \in Revisions
  BY DeploymentAssumption DEF Init, Revisions
<1>2. IInv
  BY <1>1, Zenon DEF Init, IInv, NoBucket
<1>3. StrictCapped /\ NeverCorrupt
  BY Zenon DEF Init, StrictCapped, NeverCorrupt, Bare
<1>. QED
  BY <1>2, <1>3, Zenon

\* Every step of either backend keeps the invariant and both properties.
LEMMA Preserved ==
    IInv /\ StrictCapped /\ NeverCorrupt /\ [DeploymentNext]_vars
        => IInv' /\ StrictCapped' /\ NeverCorrupt'
<1> SUFFICES ASSUME IInv, StrictCapped, NeverCorrupt, [DeploymentNext]_vars
             PROVE  IInv' /\ StrictCapped' /\ NeverCorrupt'
  OBVIOUS
<1>1. CASE UNCHANGED vars
  BY <1>1, IdleStep, Zenon DEF vars, IInv
<1>2. CASE ValkeyNext
  <2>1. ASSUME NEW mode \in Modes, NEW now \in Readings,
               NEW cost \in 1 .. Policy(deployed).maxCost, AdmitScript(mode, cost, now)
        PROVE  IInv' /\ StrictCapped' /\ NeverCorrupt'
    BY <2>1, ScriptCalls, CallKeeps, Zenon
  <2>2. CASE Deploy
    BY <2>2, DeployStep, Zenon
  <2>3. CASE HashTick
    <3>1. bucket' = bucket \/ bucket' = NoBucket
      BY <2>3, Zenon DEF HashTick, NoBucket
    <3>. QED
      BY <2>3, <3>1, IdleStep DEF HashTick, IInv
  <2>4. CASE StartAudit
    BY <2>4, IdleStep, Zenon DEF StartAudit, IInv
  <2>. QED
    BY <1>2, <2>1, <2>2, <2>3, <2>4, Zenon
    DEF ValkeyNext
<1>3. CASE PostgresNext
  <2>1. ASSUME NEW mode \in Modes, NEW now \in Readings,
               NEW cost \in 1 .. Policy(deployed).maxCost, AdmitRow(mode, cost, now)
        PROVE  IInv' /\ StrictCapped' /\ NeverCorrupt'
    BY <2>1, TransactionCalls, CallKeeps, Zenon
  <2>2. CASE Deploy
    BY <2>2, DeployStep, Zenon
  <2>3. CASE RowTick
    BY <2>3, IdleStep DEF RowTick, IInv
  <2>4. CASE StartAudit
    BY <2>4, IdleStep, Zenon DEF StartAudit, IInv
  <2>5. CASE \E now \in Readings : Cleanup(now)
    <3>1. bucket' = NoBucket
      BY <2>5, Zenon DEF Cleanup, NoBucket
    <3>. QED
      BY <2>5, <3>1, IdleStep, Zenon DEF Cleanup, IInv
  <2>. QED
    BY <1>3, <2>1, <2>2, <2>3, <2>4, <2>5, Zenon
    DEF PostgresNext
<1>. QED
  BY <1>1, <1>2, <1>3, Zenon DEF DeploymentNext

------------------------------------------------------------------------------
\* A strict caller is never granted from more than the limit of its revision,
\* whatever balance released callers carried over into a smaller limit, on either
\* backend and under any skew of the clocks (Carry and the corruption checks of
\* valkey/scripts.go and postgres/state.go).
THEOREM GrantsAreCapped == DeploymentSpec => []StrictCapped
<1>1. DeploymentSpec => [](IInv /\ StrictCapped /\ NeverCorrupt)
  BY Initially, Preserved, PTL DEF DeploymentSpec
<1>. QED
  BY <1>1, PTL

\* Where no deployment lowers the limit, what released and strict callers store
\* passes the corruption checks of every later strict caller, whichever revision
\* wrote it.
THEOREM SharedStateIsSound == DeploymentSpec => []NeverCorrupt
<1>1. DeploymentSpec => [](IInv /\ StrictCapped /\ NeverCorrupt)
  BY Initially, Preserved, PTL DEF DeploymentSpec
<1>. QED
  BY <1>1, PTL

------------------------------------------------------------------------------
(* Tokens over time.  A bucket is worth its balance in fractions of a token.  *)
(* What was admitted and what the bucket is worth never exceed the limit at   *)
(* the start of the measurement plus the refill since; a bucket that is       *)
(* removed has rested long enough for its refill to be worth a full one.      *)

Period == Policy(1).period

Fastest == CHOOSE r \in Revisions : \A q \in Revisions : Policy(q).capacity <= Policy(r).capacity

Rate == Policy(Fastest).capacity

Worth(b) == b.tokens * Period + b.remainder

\* How long the backend keeps the state.
Kept(r) == IF deployment.backend = "postgres" THEN RowTTL(r) ELSE HashTTL(r)

\* Every retention, less what clocks may disagree by, is time enough for the
\* fastest rate to fill every bucket.
Patient ==
    \A r, q \in Revisions : (Kept(r) - 2 * deployment.skew) * Rate >= Limit(q) * Period

\* What may have been admitted by the instant x.
Budget(a, x) == a.limit * Period + (x - a.start) * Rate

\* How far the clock that removes the state may be ahead of the next caller's.
Margin == IF deployment.backend = "postgres" THEN 2 * deployment.skew ELSE deployment.skew

Audits == [start : Nat, limit : Nat, granted : Nat]

\* A stored bucket, kept until u, after deployment v, at clocks c and s.
Stored(b, u, v, c, s, a) ==
    /\ b.last = c /\ c <= s + deployment.skew
    /\ a.granted * Period + Worth(b) <= Budget(a, c)
    /\ \E r \in 1 .. v : Worth(b) <= Limit(r) * Period
    /\ \A q \in Revisions : (u - Margin - c) * Rate >= Limit(q) * Period

\* No bucket: the next call, no earlier than both clocks allow, may create a full one.
Removed(v, c, s, a) ==
    /\ c = 0 \/ c <= s - deployment.skew
    /\ \/ a.granted = 0 /\ Limit(v) <= a.limit
       \/ \A q \in Revisions :
            (a.granted + Limit(q)) * Period <= Budget(a, Later(c, s - deployment.skew))

Audited(b, u, v, c, s, a) ==
    /\ c \in Nat /\ u \in Int /\ a \in Audits /\ a.start <= c
    /\ a.granted * Period <= Budget(a, c)
    /\ b.present => Stored(b, u, v, c, s, a)
    /\ ~b.present => Removed(v, c, s, a)

AuditInv == Audited(bucket, until, deployed, clock, server, audit)

\* Nothing of this changes within a deployment.
LEMMA SameRates ==
    ASSUME deployment' = deployment
    PROVE  /\ Patient' <=> Patient
           /\ Audited(bucket', until', deployed', clock', server', audit') => AuditInv'
<1>1. Revisions' = Revisions /\ Period' = Period /\ Margin' = Margin
  BY Zenon DEF Revisions, Period, Policy, Margin
<1>2. \A r : Limit(r)' = Limit(r)
  BY Zenon DEF Limit, Policy
<1>3. Rate' = Rate
  <2>1. Fastest' = Fastest
    BY DEF Fastest, Policy, Revisions
  <2>. QED
    BY <2>1, Zenon DEF Rate, Policy
<1>4. \A r : Kept(r)' = Kept(r)
  BY Zenon DEF Kept, RowTTL, HashTTL, Later, TokenDuration, Forever, Limit, Policy
<1>5. Patient' <=> Patient
  BY <1>1, <1>2, <1>3, <1>4, Zenon DEF Patient
<1>6. \A b : Worth(b)' = Worth(b)
  BY <1>1, Zenon DEF Worth
<1>7. \A a, x : Budget(a, x)' = Budget(a, x)
  BY <1>1, <1>3, Zenon DEF Budget
<1>8. Stored(bucket', until', deployed', clock', server', audit') => Stored(bucket, until, deployed, clock, server, audit)'
  BY <1>1, <1>2, <1>3, <1>6, <1>7, Zenon DEF Stored
<1>9. Removed(deployed', clock', server', audit') => Removed(deployed, clock, server, audit)'
  BY <1>1, <1>2, <1>3, <1>6, <1>7, Zenon DEF Removed
<1>. QED
  BY <1>1, <1>5, <1>7, <1>8, <1>9, Zenon DEF AuditInv, Audited, Audits

\* The period and the fastest rate.
LEMMA RateFacts ==
    ASSUME deployment \in Deployments
    PROVE  /\ Period \in Nat \ {0} /\ Rate \in Nat \ {0} /\ Fastest \in Revisions
           /\ \A r \in Revisions : Policy(r).period = Period /\ Policy(r).capacity <= Rate
           /\ deployment.skew \in Nat /\ deployment.backend \in {"postgres", "valkey"}
<1> DEFINE n == Len(deployment.policies)
           f == [r \in 1 .. n |-> Policy(r).capacity]
<1>1. Revisions = 1 .. n /\ n \in Nat \ {0}
  BY DeploymentAssumption, Zenon DEF Revisions
<1>2. 1 \in Revisions
  BY <1>1
<1>3. \A r \in Revisions : Policy(r).capacity \in Nat \ {0} /\ Policy(r).period = Period
  BY <1>2, PolicyFacts, Zenon DEF Period
<1>4. \E r \in Revisions : \A q \in Revisions : Policy(q).capacity <= Policy(r).capacity
  <2>1. \A r \in 1 .. n : f[r] \in Nat /\ f[r] = Policy(r).capacity
    BY <1>1, <1>3
  <2> HIDE DEF f
  <2>2. \E r \in 1 .. n : \A q \in 1 .. n : f[q] <= f[r]
    BY <1>1, <2>1, GreatestOf, Zenon
  <2>. QED
    BY <1>1, <2>1, <2>2, Zenon
<1>5. Fastest \in Revisions /\ \A q \in Revisions : Policy(q).capacity <= Policy(Fastest).capacity
  BY <1>4, Zenon DEF Fastest
<1>6. Period \in Nat \ {0}
  BY <1>2, PolicyFacts, Zenon DEF Period
<1>7. deployment.skew \in Nat /\ deployment.backend \in {"postgres", "valkey"}
  BY DeploymentAssumption, Zenon
<1>. QED
  BY <1>3, <1>5, <1>6, <1>7, Zenon DEF Rate

\* The worth of a bucket, and of a full one.
LEMMA WorthFacts ==
    ASSUME deployment \in Deployments, NEW b \in Buckets
    PROVE  Worth(b) \in Nat
BY RateFacts, Fields DEF Worth

LEMMA FullWorth ==
    ASSUME deployment \in Deployments, NEW r \in Revisions, NEW now
    PROVE  Worth(Full(r, now)) = Limit(r) * Period
<1>1. Limit(r) * Period \in Int
  BY RateFacts, PolicyFacts
<1>. QED
  BY <1>1 DEF Worth, Full

\* Worth is monotone in the tokens.
LEMMA WorthOf ==
    ASSUME deployment \in Deployments, NEW n \in Nat, NEW k \in Nat
    PROVE  /\ n * Period \in Nat /\ (n + k) * Period = n * Period + k * Period
           /\ n <= k => n * Period <= k * Period
           /\ n < k => n * Period + Period <= k * Period
<1>1. Period \in Nat \ {0}
  BY RateFacts, Zenon
<1>2. n * Period \in Nat /\ k * Period \in Nat /\ (n + k) * Period = n * Period + k * Period
  BY <1>1
<1>3. n <= k => n * Period <= k * Period
  BY <1>1, Monotone
<1>4. n < k => n * Period + Period <= k * Period
  <2>1. n < k => n + 1 <= k
    OBVIOUS
  <2>2. (n + 1) * Period = n * Period + Period
    BY <1>1
  <2>. QED
    BY <1>1, <2>1, <2>2, Monotone
<1>. QED
  BY <1>2, <1>3, <1>4, Zenon

\* Carrying a bucket over adds nothing to its worth.
LEMMA CarryWorth ==
    ASSUME deployment \in Deployments, NEW r \in Revisions, NEW mode \in Modes,
           NEW s \in Buckets, NEW at \in Nat, s.last <= at
    PROVE  LET t == CarryHash(s, mode, r, at)
           IN  /\ t \in Buckets /\ s.last <= t.last /\ t.last <= at
               /\ Worth(t) <= Worth(s)
<1> DEFINE t == CarryHash(s, mode, r, at)
           kept == IF s.tokens < Limit(r) THEN s.tokens ELSE Limit(r)
<1>1. /\ s.tokens \in Nat /\ s.remainder \in Nat /\ s.last \in Nat /\ Limit(r) \in Nat
      /\ kept \in Nat /\ kept <= s.tokens
  BY PolicyFacts, Fields
<1>2. t = IF mode = "strict" /\ s.revision # r
          THEN [s EXCEPT !.revision = r, !.tokens = kept, !.remainder = 0, !.last = at]
          ELSE [s EXCEPT !.revision = r]
  BY Zenon DEF CarryHash
<1> HIDE DEF t, kept
<1>3. CASE mode = "strict" /\ s.revision # r
  <2>1. Made(t, r, kept, 0, at)
    BY <1>1, <1>2, <1>3, Recast, Zenon
  <2>2. t \in Buckets /\ t.last = at /\ Worth(t) = kept * Period + 0
    BY <2>1, Zenon DEF Made, Worth
  <2>3. kept * Period \in Nat /\ s.tokens * Period \in Nat /\ kept * Period <= s.tokens * Period
    BY <1>1, WorthOf, Zenon
  <2>4. Worth(t) <= Worth(s)
    BY <1>1, <2>2, <2>3 DEF Worth
  <2>. QED
    BY <1>1, <2>2, <2>4 DEF t
<1>4. CASE ~(mode = "strict" /\ s.revision # r)
  <2>1. Made(t, r, s.tokens, s.remainder, s.last)
    BY <1>2, <1>4, Relabelled, Zenon
  <2>2. t \in Buckets /\ t.last = s.last /\ Worth(t) = Worth(s)
    BY <2>1, Zenon DEF Made, Worth
  <2>. QED
    BY <1>1, <2>2, WorthFacts DEF t
<1>. QED
  BY <1>3, <1>4, Zenon

\* The three outcomes of a refill that adds `added' tokens and leaves `rest'.
Refills(s, t, r, at, added, rest) ==
    /\ added \in Nat /\ rest \in Nat /\ rest < Period
    /\ added * Period + rest = (at - s.last) * Policy(r).capacity + s.remainder
    /\ \/ /\ at <= s.last \/ s.tokens >= Limit(r)
          /\ Made(t, s.revision, s.tokens, s.remainder, at)
       \/ /\ s.tokens < Limit(r) /\ s.tokens + added >= Limit(r)
          /\ Made(t, s.revision, Limit(r), 0, at)
       \/ /\ s.tokens + added < Limit(r)
          /\ Made(t, s.revision, s.tokens + added, rest, at)

LEMMA RefillCases ==
    ASSUME deployment \in Deployments, NEW r \in Revisions,
           NEW s \in Buckets, NEW at \in Nat, s.last <= at
    PROVE  \E added, rest : Refills(s, RefillHash(s, r, at), r, at, added, rest)
<1> DEFINE t == RefillHash(s, r, at)
           earned == (at - s.last) * Policy(r).capacity
           credit == earned + s.remainder
           added == credit \div Policy(r).period
           rest == credit % Policy(r).period
<1>1. /\ s.tokens \in Nat /\ s.remainder \in Nat /\ at - s.last \in Nat
      /\ Limit(r) \in Nat /\ Policy(r).capacity \in Nat
      /\ Policy(r).period = Period /\ Period \in Nat \ {0}
  BY PolicyFacts, RateFacts, Fields
<1>2. t = IF at <= s.last \/ s.tokens >= Limit(r) THEN [s EXCEPT !.last = at]
          ELSE IF s.tokens + added >= Limit(r)
          THEN [s EXCEPT !.tokens = Limit(r), !.remainder = 0, !.last = at]
          ELSE [s EXCEPT !.tokens = s.tokens + added, !.remainder = rest, !.last = at]
  BY Zenon DEF RefillHash
<1>3. earned \in Nat
  BY <1>1
<1>4. added \in Nat /\ rest \in Nat /\ rest < Period /\ added * Period + rest = earned + s.remainder
  <2> HIDE DEF earned
  <2>1. credit \in Nat
    BY <1>1, <1>3
  <2> HIDE DEF credit
  <2>2. credit = (credit \div Period) * Period + (credit % Period)
    BY <1>1, <2>1, DivMod, Zenon
  <2>3. credit \div Period \in Nat /\ credit % Period \in Nat /\ credit % Period < Period
    BY <1>1, <2>1, DivMod, Zenon
  <2>. QED
    BY <1>1, <2>2, <2>3, Zenon DEF credit
<1> HIDE DEF t, added, rest
<1>5. s.tokens + added \in Nat
  BY <1>1, <1>4
<1>6. CASE at <= s.last \/ s.tokens >= Limit(r)
  <2>1. Made(t, s.revision, s.tokens, s.remainder, at)
    BY <1>2, <1>6, Touched, Zenon
  <2>. QED
    BY <1>4, <1>6, <2>1, Zenon DEF Refills, t
<1>7. CASE ~(at <= s.last \/ s.tokens >= Limit(r)) /\ s.tokens + added >= Limit(r)
  <2>1. t = [s EXCEPT !.tokens = Limit(r), !.remainder = 0, !.last = at] /\ 0 \in Nat
    BY <1>2, <1>7, Zenon
  <2>2. Made(t, s.revision, Limit(r), 0, at)
    BY <1>1, <2>1, Restocked, Zenon
  <2>3. s.tokens < Limit(r)
    BY <1>1, <1>7
  <2>. QED
    BY <1>4, <1>7, <2>2, <2>3, Zenon DEF Refills, t
<1>8. CASE ~(at <= s.last \/ s.tokens >= Limit(r)) /\ ~(s.tokens + added >= Limit(r))
  <2>1. s.tokens + added < Limit(r)
    BY <1>1, <1>5, <1>8
  <2>2. t = [s EXCEPT !.tokens = s.tokens + added, !.remainder = rest, !.last = at]
    BY <1>2, <1>8, Zenon
  <2>3. Made(t, s.revision, s.tokens + added, rest, at)
    BY <1>4, <1>5, <2>2, Restocked, Zenon
  <2>. QED
    BY <1>4, <2>1, <2>3, Zenon DEF Refills, t
<1>. QED
  BY <1>6, <1>7, <1>8, Zenon

\* A refill adds what the time since has earned, and no more than makes it full.
LEMMA RefillWorth ==
    ASSUME deployment \in Deployments, NEW r \in Revisions,
           NEW s \in Buckets, NEW at \in Nat, s.last <= at
    PROVE  LET t == RefillHash(s, r, at)
           IN  /\ t \in Buckets /\ t.last = at
               /\ Worth(t) <= Worth(s) + (at - s.last) * Rate
               /\ Worth(t) <= Worth(s) \/ Worth(t) <= Limit(r) * Period
<1> DEFINE t == RefillHash(s, r, at)
           earned == (at - s.last) * Policy(r).capacity
<1>1. /\ s.tokens \in Nat /\ s.remainder \in Nat /\ s.last \in Nat /\ at - s.last \in Nat
      /\ Limit(r) \in Nat /\ Policy(r).capacity \in Nat /\ Policy(r).capacity <= Rate
      /\ Period \in Nat \ {0} /\ Rate \in Nat
  BY PolicyFacts, RateFacts, Fields
<1>2. earned \in Nat /\ (at - s.last) * Rate \in Nat /\ earned <= (at - s.last) * Rate
  <2>1. Policy(r).capacity * (at - s.last) <= Rate * (at - s.last)
    BY <1>1, Monotone
  <2>. QED
    BY <1>1, <2>1
<1>3. PICK added, rest : Refills(s, t, r, at, added, rest)
  BY RefillCases, Zenon
<1> HIDE DEF t
<1>4. /\ added \in Nat /\ rest \in Nat /\ rest < Period
      /\ added * Period + rest = earned + s.remainder
  BY <1>3, Zenon DEF Refills
<1> HIDE DEF earned
<1>5. /\ Worth(s) = s.tokens * Period + s.remainder /\ Worth(s) \in Nat
      /\ s.tokens * Period \in Nat /\ Limit(r) * Period \in Nat /\ added * Period \in Nat
      /\ (s.tokens + added) * Period = s.tokens * Period + added * Period
  BY <1>1, <1>4, WorthOf, WorthFacts, Zenon DEF Worth
<1>. SUFFICES /\ t \in Buckets /\ t.last = at
              /\ Worth(t) <= Worth(s) + (at - s.last) * Rate
              /\ Worth(t) <= Worth(s) \/ Worth(t) <= Limit(r) * Period
  BY Zenon DEF t
<1>6. CASE Made(t, s.revision, s.tokens, s.remainder, at)
  <2>1. t \in Buckets /\ t.last = at /\ Worth(t) = Worth(s)
    BY <1>6, Zenon DEF Made, Worth
  <2>. QED
    BY <1>2, <1>5, <2>1
<1>7. CASE s.tokens + added >= Limit(r) /\ Made(t, s.revision, Limit(r), 0, at)
  <2>1. t \in Buckets /\ t.last = at /\ Worth(t) = Limit(r) * Period
    BY <1>5, <1>7 DEF Made, Worth
  <2>2. Limit(r) * Period <= (s.tokens + added) * Period
    BY <1>1, <1>4, <1>7, WorthOf
  <2>. QED
    BY <1>1, <1>2, <1>4, <1>5, <2>1, <2>2
<1>8. CASE s.tokens + added < Limit(r) /\ Made(t, s.revision, s.tokens + added, rest, at)
  <2>1. t \in Buckets /\ t.last = at /\ Worth(t) = (s.tokens + added) * Period + rest
    BY <1>8, Zenon DEF Made, Worth
  <2>2. s.tokens + added \in Nat
    BY <1>1, <1>4
  <2>3. (s.tokens + added) * Period + Period <= Limit(r) * Period
    BY <1>1, <1>8, <2>2, WorthOf, Zenon
  <2>. QED
    BY <1>1, <1>2, <1>4, <1>5, <2>1, <2>3
<1>. QED
  BY <1>3, <1>6, <1>7, <1>8, Zenon DEF Refills

\* What a call makes ready.
LEMMA ReadyWorth ==
    ASSUME deployment \in Deployments, deployed \in Revisions, NEW mode \in Modes,
           NEW found \in Buckets, NEW at \in Nat, found.last <= at
    PROVE  LET ready == Ready(mode, found, at)
           IN  /\ ready \in Buckets /\ ready.last = at
               /\ Worth(ready) <= Worth(found) + (at - found.last) * Rate
               /\ Worth(ready) <= Worth(found) \/ Worth(ready) <= Limit(deployed) * Period
<1> DEFINE carried == CarryHash(found, mode, deployed, at)
           ready == RefillHash(carried, deployed, at)
<1>1. /\ carried \in Buckets /\ found.last <= carried.last /\ carried.last <= at
      /\ Worth(carried) <= Worth(found)
  BY CarryWorth, Zenon
<1> HIDE DEF carried
<1>2. /\ ready \in Buckets /\ ready.last = at
      /\ Worth(ready) <= Worth(carried) + (at - carried.last) * Rate
      /\ Worth(ready) <= Worth(carried) \/ Worth(ready) <= Limit(deployed) * Period
  BY <1>1, RefillWorth, Zenon
<1>3. /\ Worth(ready) \in Nat /\ Worth(carried) \in Nat /\ Worth(found) \in Nat
      /\ Limit(deployed) * Period \in Nat
      /\ Rate \in Nat /\ carried.last \in Nat /\ found.last \in Nat
  <2>1. Limit(deployed) \in Nat /\ Period \in Nat
    BY PolicyFacts, RateFacts
  <2>. QED
    BY <1>1, <1>2, <2>1, WorthFacts, WorthOf, Fields, RateFacts
<1>4. (at - carried.last) * Rate \in Int /\ (at - found.last) * Rate \in Int
      /\ (at - carried.last) * Rate <= (at - found.last) * Rate
  <2>1. at - carried.last \in Int /\ at - found.last \in Int /\ at - carried.last <= at - found.last
    BY <1>1, <1>3
  <2>. QED
    BY <1>3, <2>1, Monotone
<1> HIDE DEF ready
<1>5. /\ Worth(ready) <= Worth(found) + (at - found.last) * Rate
      /\ Worth(ready) <= Worth(found) \/ Worth(ready) <= Limit(deployed) * Period
  BY <1>1, <1>2, <1>3, <1>4
<1>. QED
  BY <1>2, <1>5, Zenon DEF ready, carried, Ready

\* What remains for the next call after an instant grows with time.
LEMMA BudgetFacts ==
    ASSUME deployment \in Deployments, NEW a \in Audits, NEW x \in Int, NEW y \in Int
    PROVE  /\ Budget(a, x) \in Int
           /\ Budget(a, y) = Budget(a, x) + (y - x) * Rate
           /\ x <= y => Budget(a, x) <= Budget(a, y)
           /\ a.start <= x => a.limit * Period <= Budget(a, x)
<1>1. /\ a.start \in Nat /\ a.limit \in Nat /\ a.granted \in Nat
      /\ Period \in Nat /\ Rate \in Nat
  BY RateFacts DEF Audits
<1> DEFINE base == a.limit * Period
<1>2. base \in Nat
  BY <1>1
<1>3. /\ (x - a.start) * Rate \in Int /\ (y - x) * Rate \in Int
      /\ (y - a.start) * Rate = (x - a.start) * Rate + (y - x) * Rate
  <2>1. x - a.start \in Int /\ y - x \in Int /\ y - a.start = (x - a.start) + (y - x)
    BY <1>1
  <2>. QED
    BY <1>1, <2>1, Distribute
<1>4. x <= y => (y - x) * Rate >= 0
  BY <1>1
<1>5. a.start <= x => (x - a.start) * Rate >= 0
  BY <1>1
<1>6. Budget(a, x) = base + (x - a.start) * Rate /\ Budget(a, y) = base + (y - a.start) * Rate
  BY Zenon DEF Budget
<1> HIDE DEF base
<1>. QED
  BY <1>2, <1>3, <1>4, <1>5, <1>6 DEF base

\* The bucket a call finds leaves room for all that it is worth.
Affordable(found, at) ==
    /\ found \in Buckets /\ at \in Nat /\ found.last <= at
    /\ clock <= at /\ at <= server + deployment.skew
    /\ audit.granted * Period + Worth(found) <= Budget(audit, found.last)
    /\ \E r \in 1 .. deployed : Worth(found) <= Limit(r) * Period

\* The state is kept long enough to be worth a full bucket.
LastsFrom(u, at) ==
    u \in Int /\ \A q \in Revisions : (u - Margin - at) * Rate >= Limit(q) * Period

\* The tally and the balance after a decision.
Tallied(a, d) == [a EXCEPT !.granted = @ + IF d.outcome = "allowed" THEN d.cost ELSE 0]

DrawnBy(b, d) == [b EXCEPT !.tokens = d.remaining]

\* What has left the balance is in the tally.
Paid(ready, b, a, a2) ==
    /\ b \in Buckets /\ b.last = ready.last /\ b.present
    /\ a2 \in Audits /\ a2.start = a.start /\ a2.limit = a.limit
    /\ Worth(b) <= Worth(ready)
    /\ a2.granted * Period + Worth(b) = a.granted * Period + Worth(ready)

\* What a decision pays out is what the balance loses.
LEMMA Payment ==
    ASSUME deployment \in Deployments, NEW mode, NEW ready \in Buckets, NEW cost \in Nat, NEW d,
           Decides(d, mode, ready, cost), NEW a \in Audits,
           NEW a2, a2 = Tallied(a, d), NEW b, b = DrawnBy(ready, d)
    PROVE  Paid(ready, b, a, a2)
<1> DEFINE paid == IF d.outcome = "allowed" THEN d.cost ELSE 0
<1>1. ready.tokens \in Nat /\ ready.remainder \in Nat /\ a.granted \in Nat
  BY Fields, Zenon DEF Audits
<1>2. paid \in Nat /\ d.remaining \in Nat /\ paid + d.remaining = ready.tokens
  BY <1>1 DEF Decides
<1>3. /\ b \in Buckets /\ b.last = ready.last
      /\ b.tokens = d.remaining /\ b.remainder = ready.remainder
  BY <1>2, Drawn, Zenon DEF Made, DrawnBy
<1>4. a2 = [a EXCEPT !.granted = @ + paid]
  BY Zenon DEF Tallied
<1> HIDE DEF paid
<1>5. a2 \in Audits /\ a2.start = a.start /\ a2.limit = a.limit /\ a2.granted = a.granted + paid
  BY <1>1, <1>2, <1>4 DEF Audits
<1>6. b.present
  BY <1>3, Zenon DEF Buckets
<1>7. /\ paid * Period \in Nat /\ d.remaining * Period \in Nat /\ a.granted * Period \in Nat
      /\ (a.granted + paid) * Period = a.granted * Period + paid * Period
      /\ ready.tokens * Period = paid * Period + d.remaining * Period
  BY <1>1, <1>2, WorthOf, Zenon
<1>8. /\ Worth(b) = d.remaining * Period + ready.remainder
      /\ Worth(ready) = ready.tokens * Period + ready.remainder
  BY <1>3, Zenon DEF Worth
<1>9. a2.granted * Period = a.granted * Period + paid * Period
  BY <1>5, <1>7, Zenon
<1>10. /\ Worth(b) <= Worth(ready)
       /\ a2.granted * Period + Worth(b) = a.granted * Period + Worth(ready)
  BY <1>1, <1>7, <1>8, <1>9
<1>. QED
  BY <1>3, <1>5, <1>6, <1>10, Zenon DEF Paid

\* A call that decides on such a bucket leaves one like it.
LEMMA CallAudited ==
    ASSUME IInv, AuditInv, NEW mode \in Modes, NEW cost \in Nat, NEW found, NEW at,
           Affordable(found, at), LastsFrom(until', at), NEW d,
           Decides(d, mode, Ready(mode, found, at), cost), Answer(d),
           bucket' = [Ready(mode, found, at) EXCEPT !.tokens = d.remaining]
    PROVE  Audited(bucket', until', deployed, clock', server, audit')
<1> DEFINE ready == Ready(mode, found, at)
           room == (at - found.last) * Rate
<1>1. /\ deployment \in Deployments /\ deployed \in Revisions
      /\ clock \in Nat /\ audit \in Audits /\ audit.start <= clock
  BY Zenon DEF IInv, AuditInv, Audited
<1>2. /\ found \in Buckets /\ at \in Nat /\ found.last <= at /\ clock <= at
      /\ at <= server + deployment.skew
      /\ audit.granted * Period + Worth(found) <= Budget(audit, found.last)
      /\ \E r \in 1 .. deployed : Worth(found) <= Limit(r) * Period
  BY Zenon DEF Affordable
<1>3. /\ ready \in Buckets /\ ready.last = at
      /\ Worth(ready) <= Worth(found) + room
      /\ Worth(ready) <= Worth(found) \/ Worth(ready) <= Limit(deployed) * Period
  BY <1>1, <1>2, ReadyWorth, Zenon
<1> HIDE DEF ready
<1>4. /\ bucket' \in Buckets /\ bucket'.last = at /\ bucket'.present
      /\ audit' \in Audits /\ audit'.start = audit.start /\ audit'.limit = audit.limit
      /\ Worth(bucket') <= Worth(ready)
      /\ audit'.granted * Period + Worth(bucket') = audit.granted * Period + Worth(ready)
  <2>1. audit' = Tallied(audit, d) /\ Decides(d, mode, ready, cost) /\ bucket' = DrawnBy(ready, d)
    BY Zenon DEF Answer, ready, Tallied, DrawnBy
  <2>2. /\ bucket' \in Buckets /\ bucket'.last = ready.last /\ bucket'.present
        /\ audit' \in Audits /\ audit'.start = audit.start /\ audit'.limit = audit.limit
        /\ Worth(bucket') <= Worth(ready)
        /\ audit'.granted * Period + Worth(bucket') = audit.granted * Period + Worth(ready)
    <3>1. Paid(ready, bucket', audit, audit')
      BY <1>1, <1>3, <2>1, Payment, Zenon
    <3>. QED
      BY <3>1, Zenon DEF Paid
  <2>. QED
    BY <1>3, <2>2, Zenon
<1>5. clock' = at
  <2>1. d.at = at
    BY <1>3, Zenon DEF Decides, ready
  <2>. QED
    BY <1>1, <1>2, <2>1 DEF Answer, Later
<1>6. /\ Worth(bucket') \in Nat /\ Worth(ready) \in Nat /\ Worth(found) \in Nat
      /\ found.last \in Nat /\ audit.granted * Period \in Nat
      /\ audit'.granted * Period \in Nat
  <2>1. audit.granted \in Nat /\ audit'.granted \in Nat
    BY <1>1, <1>4, Zenon DEF Audits
  <2>. QED
    BY <1>1, <1>2, <1>3, <1>4, <2>1, WorthFacts, WorthOf, Fields, Zenon
<1>7. /\ Budget(audit, at) = Budget(audit, found.last) + room /\ Budget(audit, found.last) \in Int
      /\ Budget(audit, at) \in Int
  <2>1. at \in Int /\ found.last \in Int
    BY <1>2, <1>6
  <2>. QED
    BY <1>1, <2>1, BudgetFacts, Zenon
<1>8. Budget(audit', at) = Budget(audit, at)
  BY <1>4, Zenon DEF Budget
<1>9. room \in Int
  <2>1. Rate \in Nat
    BY <1>1, RateFacts
  <2>. QED
    BY <1>2, <1>6, <2>1
<1> HIDE DEF room
<1>10. /\ audit'.granted * Period + Worth(bucket') <= Budget(audit', at)
       /\ audit'.granted * Period <= Budget(audit', at)
  BY <1>2, <1>3, <1>4, <1>6, <1>7, <1>8, <1>9
<1>11. \E r \in 1 .. deployed : Worth(bucket') <= Limit(r) * Period
  <2>1. deployed \in 1 .. deployed /\ 1 .. deployed \subseteq Revisions
    BY <1>1, DeploymentAssumption DEF Revisions
  <2>2. \A r \in Revisions : Limit(r) * Period \in Nat
    BY <1>1, PolicyFacts, WorthOf
  <2>3. CASE Worth(ready) <= Worth(found)
    BY <1>2, <1>4, <1>6, <2>1, <2>2, <2>3
  <2>4. CASE Worth(ready) <= Limit(deployed) * Period
    BY <1>1, <1>4, <1>6, <2>1, <2>2, <2>4
  <2>. QED
    BY <1>3, <2>3, <2>4, Zenon
<1>12. audit'.start <= at
  <2>1. audit.start \in Nat
    BY <1>1, Zenon DEF Audits
  <2>. QED
    BY <1>1, <1>2, <1>4, <2>1
<1>13. Stored(bucket', until', deployed, at, server, audit')
  BY <1>2, <1>4, <1>10, <1>11, Zenon DEF Stored, LastsFrom
<1>. QED
  BY <1>2, <1>4, <1>5, <1>10, <1>12, <1>13, Zenon DEF Audited, LastsFrom

\* A stored bucket can be paid out, ...
LEMMA StoredAffordable ==
    ASSUME IInv, AuditInv, NEW now \in Readings, bucket.present
    PROVE  Affordable(bucket, Later(now, bucket.last))
<1>1. /\ deployment \in Deployments /\ server \in Nat /\ deployment.skew \in Nat
      /\ bucket \in Buckets /\ clock \in Nat
      /\ bucket.last = clock /\ clock <= server + deployment.skew
      /\ audit.granted * Period + Worth(bucket) <= Budget(audit, clock)
      /\ \E r \in 1 .. deployed : Worth(bucket) <= Limit(r) * Period
  BY RateFacts, Zenon DEF IInv, AuditInv, Audited, Stored
<1>2. now \in Nat /\ now <= server + deployment.skew
  BY <1>1 DEF Readings
<1>3. Later(now, clock) \in Nat /\ clock <= Later(now, clock)
      /\ Later(now, clock) <= server + deployment.skew
  BY <1>1, <1>2 DEF Later
<1>. QED
  BY <1>1, <1>3, Zenon DEF Affordable

\* ... and so can a full one where there is none.
LEMMA FullAffordable ==
    ASSUME IInv, NEW now \in Readings, clock \in Nat, audit \in Audits, audit.start <= clock,
           Removed(deployed, clock, server, audit)
    PROVE  Affordable(Full(deployed, now), Later(now, Full(deployed, now).last))
<1> DEFINE new == Full(deployed, now)
<1>1. /\ deployment \in Deployments /\ server \in Nat /\ deployment.skew \in Nat
      /\ deployed \in Revisions
  BY RateFacts, Zenon DEF IInv
<1>2. now \in Nat /\ now <= server + deployment.skew /\ server - deployment.skew <= now
  BY <1>1 DEF Readings
<1>3. new \in Buckets /\ new.last = now /\ Worth(new) = Limit(deployed) * Period
  BY <1>1, <1>2, FullFits, FullWorth, Zenon
<1> HIDE DEF new
<1>4. clock <= now /\ Later(now, now) = now /\ now <= now
  BY <1>1, <1>2 DEF Removed, Later
<1>5. deployed \in 1 .. deployed
  BY <1>1, PolicyFacts
<1>6. /\ audit.granted \in Nat /\ audit.limit \in Nat /\ Limit(deployed) \in Nat
      /\ audit.granted * Period \in Nat /\ Limit(deployed) * Period \in Nat
      /\ (audit.granted + Limit(deployed)) * Period
           = audit.granted * Period + Limit(deployed) * Period
  <2>1. audit.granted \in Nat /\ audit.limit \in Nat /\ Limit(deployed) \in Nat
    BY <1>1, PolicyFacts DEF Audits
  <2>. QED
    BY <1>1, <2>1, WorthOf, Zenon
<1>7. audit.granted * Period + Worth(new) <= Budget(audit, now)
  <2>1. CASE audit.granted = 0 /\ Limit(deployed) <= audit.limit
    <3>1. Limit(deployed) * Period <= audit.limit * Period /\ audit.limit * Period \in Nat
      BY <1>1, <1>6, <2>1, WorthOf, Zenon
    <3>2. audit.limit * Period <= Budget(audit, now) /\ Budget(audit, now) \in Int
      <4>1. audit.start <= now /\ now \in Int
        BY <1>2, <1>4 DEF Audits
      <4>. QED
        BY <1>1, <4>1, BudgetFacts, Zenon
    <3>3. audit.granted * Period = 0
      BY <1>1, <2>1, RateFacts
    <3>. QED
      BY <1>3, <1>6, <3>1, <3>2, <3>3
  <2>2. CASE \A q \in Revisions : (audit.granted + Limit(q)) * Period
                                    <= Budget(audit, Later(clock, server - deployment.skew))
    <3> DEFINE e == Later(clock, server - deployment.skew)
    <3>1. e \in Int /\ now \in Int /\ e <= now
      BY <1>1, <1>2, <1>4 DEF Later
    <3>2. audit.granted * Period + Limit(deployed) * Period <= Budget(audit, e)
      BY <1>1, <1>6, <2>2
    <3> HIDE DEF e
    <3>3. Budget(audit, e) <= Budget(audit, now) /\ Budget(audit, e) \in Int
          /\ Budget(audit, now) \in Int
      BY <1>1, <3>1, BudgetFacts, Zenon
    <3>. QED
      BY <1>3, <1>6, <3>2, <3>3
  <2>. QED
    BY <2>1, <2>2, Zenon DEF Removed
<1>8. \E r \in 1 .. deployed : Worth(new) <= Limit(r) * Period
  <2>1. Worth(new) <= Limit(deployed) * Period
    BY <1>3, <1>6
  <2>. QED
    BY <1>5, <2>1, Zenon
<1>. QED
  BY <1>2, <1>3, <1>4, <1>7, <1>8, Zenon DEF Affordable, new

\* State that has lasted may be removed.
LEMMA MayRemove ==
    ASSUME deployment \in Deployments, NEW u, NEW v, NEW c \in Nat, NEW s \in Nat, NEW a \in Audits,
           LastsFrom(u, c), u - Margin <= s - deployment.skew, a.granted * Period <= Budget(a, c)
    PROVE  Removed(v, c, s, a)
<1> DEFINE e == s - deployment.skew
           gap == u - Margin - c
<1>1. /\ deployment.skew \in Nat /\ Rate \in Nat \ {0} /\ Fastest \in Revisions
      /\ u \in Int /\ Margin \in Nat /\ a.granted \in Nat
  BY RateFacts DEF LastsFrom, Margin, Audits
<1>2. e \in Int /\ gap \in Int /\ gap <= e - c /\ e - c \in Int /\ c \in Int
  BY <1>1
<1>3. \A q \in Revisions : /\ Limit(q) \in Nat \ {0}
                           /\ gap * Rate >= Limit(q) * Period /\ Limit(q) * Period \in Nat \ {0}
  <2>1. Period \in Nat \ {0}
    BY RateFacts
  <2>2. \A q \in Revisions : Limit(q) \in Nat \ {0}
    BY PolicyFacts
  <2>3. \A q \in Revisions : Limit(q) * Period \in Nat \ {0}
    BY <2>1, <2>2
  <2>. QED
    BY <2>2, <2>3, Zenon DEF LastsFrom
<1> HIDE DEF gap, e
<1>4. gap > 0
  <2>1. gap * Rate > 0
    BY <1>1, <1>2, <1>3
  <2>. QED
    BY <1>1, <1>2, <2>1
<1>5. c <= e /\ Later(c, e) = e
  BY <1>2, <1>4 DEF Later
<1>6. gap * Rate <= (e - c) * Rate /\ (e - c) * Rate \in Int /\ gap * Rate \in Int
  BY <1>1, <1>2, Monotone
<1>7. Budget(a, e) = Budget(a, c) + (e - c) * Rate /\ Budget(a, c) \in Int
  BY <1>2, BudgetFacts, Zenon
<1>8. ASSUME NEW q \in Revisions PROVE (a.granted + Limit(q)) * Period <= Budget(a, e)
  <2>1. /\ (a.granted + Limit(q)) * Period = a.granted * Period + Limit(q) * Period
        /\ a.granted * Period \in Nat
    <3>1. Limit(q) \in Nat
      BY <1>3
    <3>. QED
      BY <1>1, <3>1, WorthOf, Zenon
  <2>2. gap * Rate >= Limit(q) * Period /\ Limit(q) * Period \in Nat
    BY <1>3
  <2>. QED
    BY <1>6, <1>7, <2>1, <2>2
<1>. QED
  BY <1>5, <1>8, Zenon DEF Removed, e

\* A call on a bucket it can pay from.
LEMMA CallStep ==
    ASSUME IInv, AuditInv, NEW mode \in Modes, NEW cost \in Nat, NEW found, NEW at,
           Affordable(found, at), Call(mode, cost, found, at),
           LastsFrom(until', at) \/ UNCHANGED <<bucket, until, clock, audit>>
    PROVE  AuditInv'
<1>1. UNCHANGED <<deployment, server, deployed>>
  BY Zenon DEF Call
<1>2. CASE UNCHANGED <<bucket, until, clock, audit>>
  <2>1. Audited(bucket', until', deployed', clock', server', audit')
    BY <1>1, <1>2, Zenon DEF AuditInv
  <2>. QED
    BY <1>1, <2>1, SameRates, Zenon
<1>3. CASE LastsFrom(until', at) /\ ~UNCHANGED <<bucket, until, clock, audit>>
  <2>1. PICK d : /\ Decides(d, mode, Ready(mode, found, at), cost)
                 /\ Answer(d)
                 /\ bucket' = [Ready(mode, found, at) EXCEPT !.tokens = d.remaining]
    BY <1>3, Zenon DEF Call, Refuse
  <2>2. Audited(bucket', until', deployed, clock', server, audit')
    BY <1>3, <2>1, CallAudited, Zenon
  <2>. QED
    BY <1>1, <2>2, SameRates, Zenon
<1>. QED
  BY <1>2, <1>3, Zenon

\* When the backend may remove what a call at this instant stores.
KeptUntil(u, at) ==
    \/ deployment.backend = "postgres" /\ u = at + RowTTL(deployed)
    \/ deployment.backend = "valkey" /\ u = server + HashTTL(deployed)

\* Clocks that disagree cost twice the skew of the retention.
LEMMA KeptFor ==
    ASSUME IInv, NEW at \in Nat, at <= server + deployment.skew, NEW u, KeptUntil(u, at)
    PROVE  LET k == Kept(deployed) - 2 * deployment.skew
           IN  k \in Int /\ u \in Int /\ Margin \in Nat /\ k <= u - Margin - at
<1>1. /\ deployment \in Deployments /\ server \in Nat /\ deployed \in Revisions
      /\ deployment.skew \in Nat
  BY RateFacts, Zenon DEF IInv
<1>2. RowTTL(deployed) \in Int /\ HashTTL(deployed) \in Int
  <2>1. /\ Policy(deployed).period \in Nat \ {0} /\ Policy(deployed).capacity \in Nat \ {0}
        /\ Limit(deployed) \in Nat \ {0} /\ Floor \in Nat
    BY <1>1, PolicyFacts, TimeAssumption
  <2>2. TokenDuration(Limit(deployed), 0, deployed) \in Int
    <3> DEFINE x == Limit(deployed) * Policy(deployed).period - 0 + Policy(deployed).capacity - 1
    <3>1. x \in Int
      BY <2>1
    <3> HIDE DEF x
    <3>2. x \div Policy(deployed).capacity \in Int
      BY <2>1, <3>1, FloorDiv, Zenon
    <3>3. ~(Limit(deployed) = 0) /\ ~(Limit(deployed) < 0)
      BY <2>1
    <3>. QED
      BY <3>2, <3>3, Zenon DEF TokenDuration, x
  <2>. QED
    BY <2>1, <2>2 DEF RowTTL, HashTTL, Later
<1>. QED
  BY <1>1, <1>2 DEF Margin, Kept, KeptUntil

\* Both backends keep the state long enough, if the retention is patient.
LEMMA KeptLong ==
    ASSUME IInv, Patient, NEW at \in Nat, at <= server + deployment.skew, NEW u, KeptUntil(u, at)
    PROVE  LastsFrom(u, at)
<1> DEFINE k == Kept(deployed) - 2 * deployment.skew
           left == u - Margin - at
<1>1. /\ deployment \in Deployments /\ deployed \in Revisions
      /\ Rate \in Nat \ {0} /\ Period \in Nat \ {0}
  BY RateFacts, Zenon DEF IInv
<1>2. k \in Int /\ u \in Int /\ Margin \in Nat /\ k <= left
  BY KeptFor, Zenon
<1>3. left \in Int
  BY <1>2
<1>4. ASSUME NEW q \in Revisions PROVE left * Rate >= Limit(q) * Period
  <2>1. k * Rate >= Limit(q) * Period
    BY <1>1, Zenon DEF Patient
  <2> HIDE DEF k, left
  <2>2. k * Rate <= left * Rate
    BY <1>1, <1>2, <1>3, Monotone
  <2>3. k * Rate \in Int /\ left * Rate \in Int /\ Limit(q) * Period \in Int
    <3>1. Limit(q) \in Int
      BY <1>1, PolicyFacts
    <3>. QED
      BY <1>1, <1>2, <1>3, <3>1
  <2>. QED
    BY <2>1, <2>2, <2>3
<1>. QED
  BY <1>2, <1>4, Zenon DEF LastsFrom

\* What a removal by the server, or by a transaction that finds the row expired,
\* leaves.
LEMMA Expires ==
    ASSUME IInv, AuditInv, bucket.present, NEW s \in Nat, until - Margin <= s - deployment.skew
    PROVE  Removed(deployed, clock, s, audit)
<1>1. /\ deployment \in Deployments /\ clock \in Nat /\ audit \in Audits /\ until \in Int
      /\ audit.granted * Period <= Budget(audit, clock)
      /\ \A q \in Revisions : (until - Margin - clock) * Rate >= Limit(q) * Period
  BY Zenon DEF IInv, AuditInv, Audited, Stored
<1>2. LastsFrom(until, clock)
  BY <1>1, Zenon DEF LastsFrom
<1>. QED
  BY <1>1, <1>2, MayRemove, Zenon

\* Runs of the script ...
LEMMA ScriptAudited ==
    ASSUME IInv, AuditInv, Patient, deployment.backend = "valkey", NEW mode \in Modes,
           NEW now \in Readings, NEW cost \in Nat, AdmitScript(mode, cost, now)
    PROVE  AuditInv'
<1> DEFINE found == FoundHash(deployed, now)
           at == Later(now, found.last)
<1>1. /\ found = IF bucket.present THEN bucket ELSE Full(deployed, now)
      /\ Call(mode, cost, found, at)
      /\ until' = server + HashTTL(deployed) \/ UNCHANGED <<bucket, until, clock, audit>>
  BY ScriptCalls, Zenon
<1>2. Affordable(found, at)
  <2>1. /\ clock \in Nat /\ audit \in Audits /\ audit.start <= clock
        /\ ~bucket.present => Removed(deployed, clock, server, audit)
    BY Zenon DEF AuditInv, Audited
  <2>2. CASE bucket.present
    BY <1>1, <2>2, StoredAffordable, Zenon
  <2>3. CASE ~bucket.present
    BY <1>1, <2>1, <2>3, FullAffordable, Zenon
  <2>. QED
    BY <2>2, <2>3, Zenon
<1> HIDE DEF found, at
<1>3. until' = server + HashTTL(deployed) => LastsFrom(until', at)
  BY <1>2, KeptLong, Zenon DEF Affordable, KeptUntil
<1>. QED
  BY <1>1, <1>2, <1>3, CallStep, Zenon

\* ... and transactions.
LEMMA TransactionAudited ==
    ASSUME IInv, AuditInv, Patient, deployment.backend = "postgres", NEW mode \in Modes,
           NEW now \in Readings, NEW cost \in Nat, AdmitRow(mode, cost, now)
    PROVE  AuditInv'
<1> DEFINE found == CurrentRow(deployed, now)
           at == Later(now, found.last)
<1>1. /\ found = IF bucket.present /\ until > now THEN bucket ELSE Full(deployed, now)
      /\ Call(mode, cost, found, at)
      /\ until' = at + RowTTL(deployed) \/ UNCHANGED <<bucket, until, clock, audit>>
  BY TransactionCalls, Zenon
<1>2. Affordable(found, at)
  <2>1. /\ clock \in Nat /\ audit \in Audits /\ audit.start <= clock /\ until \in Int
        /\ ~bucket.present => Removed(deployed, clock, server, audit)
        /\ server \in Nat /\ deployment \in Deployments
    BY Zenon DEF AuditInv, Audited, IInv
  <2>2. CASE bucket.present /\ until > now
    BY <1>1, <2>2, StoredAffordable, Zenon
  <2>3. CASE bucket.present /\ ~(until > now)
    <3>1. until - Margin <= server - deployment.skew
      BY <2>1, <2>3, RateFacts DEF Readings, Margin
    <3>. QED
      BY <1>1, <2>1, <2>3, <3>1, Expires, FullAffordable, Zenon
  <2>4. CASE ~bucket.present
    BY <1>1, <2>1, <2>4, FullAffordable, Zenon
  <2>. QED
    BY <2>2, <2>3, <2>4, Zenon
<1> HIDE DEF found, at
<1>3. until' = at + RowTTL(deployed) => LastsFrom(until', at)
  BY <1>2, KeptLong, Zenon DEF Affordable, KeptUntil
<1>. QED
  BY <1>1, <1>2, <1>3, CallStep, Zenon

\* The greatest limit in force so far.
LEMMA CeiledFacts ==
    ASSUME IInv
    PROVE  Ceiled \in Nat /\ \A r \in 1 .. deployed : Limit(r) <= Ceiled
<1> DEFINE f == [r \in 1 .. deployed |-> Limit(r)]
           limits == {Limit(r) : r \in 1 .. deployed}
<1>1. /\ deployment \in Deployments /\ deployed \in Nat \ {0}
      /\ \A r \in 1 .. deployed : r \in Revisions
  BY DeploymentAssumption DEF IInv, Revisions
<1>2. \A r \in 1 .. deployed : f[r] \in Nat /\ f[r] = Limit(r) /\ Limit(r) \in Nat
  BY <1>1, PolicyFacts
<1> HIDE DEF f
<1>3. \E r \in 1 .. deployed : \A q \in 1 .. deployed : f[q] <= f[r]
  BY <1>1, <1>2, GreatestOf, Zenon
<1>4. \E n \in limits : \A m \in limits : m <= n
  BY <1>2, <1>3, Zenon
<1>5. Ceiled \in limits /\ \A m \in limits : m <= Ceiled
  BY <1>4, Zenon DEF Ceiled
<1>. QED
  BY <1>2, <1>5, Zenon

\* No time earns less than none.
LEMMA LaterRemoved ==
    ASSUME deployment \in Deployments, NEW v, NEW c \in Nat, NEW s \in Nat, NEW a \in Audits,
           Removed(v, c, s, a)
    PROVE  Removed(v, c, s + 1, a)
<1> DEFINE e == Later(c, s - deployment.skew)
           n == Later(c, (s + 1) - deployment.skew)
<1>1. deployment.skew \in Nat
  BY RateFacts
<1>2. e \in Int /\ n \in Int /\ e <= n
  BY <1>1 DEF Later
<1>3. c = 0 \/ c <= (s + 1) - deployment.skew
  BY <1>1 DEF Removed
<1> HIDE DEF e, n
<1>4. Budget(a, e) <= Budget(a, n) /\ Budget(a, e) \in Int /\ Budget(a, n) \in Int
  BY <1>2, BudgetFacts, Zenon
<1>5. \A q \in Revisions : (a.granted + Limit(q)) * Period \in Int
  <2>1. Period \in Int /\ a.granted \in Int /\ \A q \in Revisions : Limit(q) \in Int
    BY RateFacts, PolicyFacts DEF Audits
  <2>. QED
    BY <2>1
<1>6. \/ a.granted = 0 /\ Limit(v) <= a.limit
      \/ \A q \in Revisions : (a.granted + Limit(q)) * Period <= Budget(a, e)
  BY Zenon DEF Removed, e
<1>7. \/ a.granted = 0 /\ Limit(v) <= a.limit
      \/ \A q \in Revisions : (a.granted + Limit(q)) * Period <= Budget(a, n)
  BY <1>4, <1>5, <1>6
<1>. QED
  BY <1>3, <1>7, Zenon DEF Removed, n

\* Time passes, and the server may remove the state once it has lasted.
LEMMA TickAudited ==
    ASSUME IInv, AuditInv, server' = server + 1, UNCHANGED <<deployment, deployed, clock, audit>>,
           \/ UNCHANGED <<bucket, until>>
           \/ /\ bucket.present /\ until - Margin <= server' - deployment.skew
              /\ bucket' = NoBucket /\ until' = 0
    PROVE  AuditInv'
<1>1. /\ deployment \in Deployments /\ server \in Nat /\ deployment.skew \in Nat
      /\ clock \in Nat /\ audit \in Audits /\ audit.start <= clock /\ until \in Int
      /\ audit.granted * Period <= Budget(audit, clock)
      /\ bucket.present => Stored(bucket, until, deployed, clock, server, audit)
      /\ ~bucket.present => Removed(deployed, clock, server, audit)
  BY RateFacts, Zenon DEF IInv, AuditInv, Audited
<1>2. server + 1 \in Nat
  BY <1>1
<1>3. CASE UNCHANGED <<bucket, until>>
  <2>1. bucket.present => Stored(bucket, until, deployed, clock, server + 1, audit)
    <3>1. clock <= server + deployment.skew => clock <= (server + 1) + deployment.skew
      BY <1>1
    <3>. QED
      BY <1>1, <3>1, Zenon DEF Stored
  <2>2. ~bucket.present => Removed(deployed, clock, server + 1, audit)
    BY <1>1, LaterRemoved, Zenon
  <2>3. Audited(bucket, until, deployed, clock, server + 1, audit)
    BY <1>1, <2>1, <2>2, Zenon DEF Audited
  <2>. QED
    BY <1>3, <2>3, SameRates, Zenon
<1>4. CASE /\ bucket.present /\ until - Margin <= server' - deployment.skew
           /\ bucket' = NoBucket /\ until' = 0
  <2>1. Removed(deployed, clock, server + 1, audit)
    BY <1>2, <1>4, Expires, Zenon
  <2>2. ~NoBucket.present /\ 0 \in Int
    BY DEF NoBucket
  <2>3. Audited(NoBucket, 0, deployed, clock, server + 1, audit)
    BY <1>1, <2>1, <2>2, Zenon DEF Audited
  <2>. QED
    BY <1>4, <2>3, SameRates, Zenon
<1>. QED
  BY <1>3, <1>4, Zenon

\* Cleanup removes a row by the clock of any caller.
LEMMA CleanupAudited ==
    ASSUME IInv, AuditInv, deployment.backend = "postgres", NEW now \in Readings, Cleanup(now)
    PROVE  AuditInv'
<1>1. /\ deployment \in Deployments /\ server \in Nat /\ deployment.skew \in Nat
      /\ clock \in Nat /\ audit \in Audits /\ audit.start <= clock /\ until \in Int
      /\ audit.granted * Period <= Budget(audit, clock)
  BY RateFacts, Zenon DEF IInv, AuditInv, Audited
<1>2. /\ bucket.present /\ until <= now /\ bucket' = NoBucket /\ until' = 0
      /\ UNCHANGED <<deployment, server, deployed, clock, audit>>
  BY Zenon DEF Cleanup
<1>3. until - Margin <= server - deployment.skew
  BY <1>1, <1>2 DEF Readings, Margin
<1>4. Removed(deployed, clock, server, audit)
  BY <1>1, <1>2, <1>3, Expires, Zenon
<1>5. ~NoBucket.present /\ 0 \in Int
  BY DEF NoBucket
<1>6. Audited(NoBucket, 0, deployed, clock, server, audit)
  BY <1>1, <1>4, <1>5, Zenon DEF Audited
<1>. QED
  BY <1>2, <1>6, SameRates, Zenon

\* A rollout without a bucket raises the allowance to the new limit.
LEMMA DeployAudited ==
    ASSUME IInv, AuditInv, Deploy
    PROVE  AuditInv'
<1> DEFINE v == deployed + 1
           most == IF bucket.present THEN audit.limit ELSE Later(audit.limit, Limit(v))
           a == [audit EXCEPT !.limit = most]
<1>1. /\ deployment \in Deployments /\ deployed \in Revisions
      /\ clock \in Nat /\ server \in Nat /\ deployment.skew \in Nat
      /\ audit \in Audits /\ audit.start <= clock /\ until \in Int
      /\ audit.granted * Period <= Budget(audit, clock)
      /\ bucket.present => Stored(bucket, until, deployed, clock, server, audit)
      /\ ~bucket.present => Removed(deployed, clock, server, audit)
  BY RateFacts, Zenon DEF IInv, AuditInv, Audited
<1>2. /\ v \in Revisions /\ deployed' = v /\ audit' = a
      /\ UNCHANGED <<deployment, server, bucket, until, clock>>
  BY Zenon DEF Deploy
<1>3. /\ audit.limit \in Nat /\ audit.granted \in Nat /\ audit.start \in Nat
      /\ Limit(v) \in Nat /\ most \in Nat /\ audit.limit <= most
      /\ ~bucket.present => Limit(v) <= most
  BY <1>1, <1>2, PolicyFacts DEF Audits, Later
<1> HIDE DEF most
<1>4. /\ a \in Audits /\ a.start = audit.start /\ a.granted = audit.granted /\ a.limit = most
  BY <1>1, <1>3 DEF Audits
<1> HIDE DEF a
<1>5. ASSUME NEW x \in Int PROVE Budget(audit, x) <= Budget(a, x) /\ Budget(audit, x) \in Int
                                /\ Budget(a, x) \in Int
  <2>1. audit.limit * Period <= most * Period /\ audit.limit * Period \in Nat
        /\ most * Period \in Nat
    BY <1>1, <1>3, WorthOf, Zenon
  <2>2. (x - audit.start) * Rate \in Int
    BY <1>1, <1>3, RateFacts
  <2>3. /\ Budget(audit, x) = audit.limit * Period + (x - audit.start) * Rate
        /\ Budget(a, x) = most * Period + (x - audit.start) * Rate
    BY <1>4, Zenon DEF Budget
  <2>. QED
    BY <2>1, <2>2, <2>3
<1>6. a.granted * Period <= Budget(a, clock) /\ audit.granted * Period \in Nat
  <2>0. audit.granted * Period \in Nat
    BY <1>1, <1>3, WorthOf, Zenon
  <2>1. clock \in Int /\ audit.granted * Period \in Nat
    BY <1>1, <2>0
  <2>2. Budget(audit, clock) <= Budget(a, clock) /\ Budget(audit, clock) \in Int
        /\ Budget(a, clock) \in Int
    BY <1>5, <2>1, Zenon
  <2>. QED
    BY <1>1, <1>4, <2>1, <2>2
<1>7. bucket.present => Stored(bucket, until, v, clock, server, a)
  <2>1. SUFFICES ASSUME bucket.present PROVE Stored(bucket, until, v, clock, server, a)
    OBVIOUS
  <2>2. 1 .. deployed \subseteq 1 .. v
    BY <1>1, PolicyFacts
  <2>3. \A x : Budget(a, x) = Budget(audit, x)
    BY <1>4, <2>1, Zenon DEF Budget, most
  <2>. QED
    BY <1>1, <1>4, <2>1, <2>2, <2>3, Zenon DEF Stored
<1>8. ~bucket.present => Removed(v, clock, server, a)
  <2>1. SUFFICES ASSUME ~bucket.present PROVE Removed(v, clock, server, a)
    OBVIOUS
  <2> DEFINE e == Later(clock, server - deployment.skew)
  <2>2. e \in Int
    BY <1>1 DEF Later
  <2>3. /\ clock = 0 \/ clock <= server - deployment.skew
        /\ \/ audit.granted = 0
           \/ \A q \in Revisions : (audit.granted + Limit(q)) * Period <= Budget(audit, e)
    BY <1>1, <2>1, Zenon DEF Removed
  <2> HIDE DEF e
  <2>4. \A q \in Revisions : (audit.granted + Limit(q)) * Period \in Int
    <3>1. Period \in Int /\ \A q \in Revisions : Limit(q) \in Int
      BY <1>1, RateFacts, PolicyFacts
    <3>. QED
      BY <1>3, <3>1
  <2>5. Budget(audit, e) <= Budget(a, e) /\ Budget(audit, e) \in Int /\ Budget(a, e) \in Int
    BY <1>5, <2>2, Zenon
  <2>6. \/ audit.granted = 0
        \/ \A q \in Revisions : (audit.granted + Limit(q)) * Period <= Budget(a, e)
    BY <2>3, <2>4, <2>5
  <2>. QED
    BY <1>3, <1>4, <2>1, <2>3, <2>6, Zenon DEF Removed, e
<1>9. Audited(bucket, until, v, clock, server, a)
  BY <1>1, <1>4, <1>6, <1>7, <1>8, Zenon DEF Audited
<1> HIDE DEF v
<1>. QED
  BY <1>2, <1>9, SameRates, Zenon

\* A measurement starts with the greatest limit so far, which no bucket exceeds.
LEMMA StartAudited ==
    ASSUME IInv, AuditInv, StartAudit
    PROVE  AuditInv'
<1> DEFINE a == [start |-> clock, limit |-> Ceiled, granted |-> 0]
<1>1. /\ deployment \in Deployments /\ deployed \in Revisions /\ clock \in Nat /\ until \in Int
      /\ bucket.present => bucket \in Buckets
      /\ bucket.present => Stored(bucket, until, deployed, clock, server, audit)
      /\ ~bucket.present => Removed(deployed, clock, server, audit)
  BY Zenon DEF IInv, AuditInv, Audited
<1>2. audit' = a /\ UNCHANGED <<deployment, server, deployed, bucket, until, clock>>
  BY Zenon DEF StartAudit
<1>3. Ceiled \in Nat /\ \A r \in 1 .. deployed : Limit(r) <= Ceiled
  BY CeiledFacts, Zenon
<1>4. a \in Audits /\ a.start = clock /\ a.limit = Ceiled /\ a.granted = 0
  BY <1>1, <1>3 DEF Audits
<1> HIDE DEF a
<1>5. /\ Budget(a, clock) = Ceiled * Period /\ Ceiled * Period \in Nat /\ a.granted * Period = 0
  <2>1. Period \in Nat /\ Rate \in Nat
    BY <1>1, RateFacts
  <2>2. (clock - clock) * Rate = 0 /\ Ceiled * Period \in Nat /\ 0 * Period = 0
    BY <1>1, <1>3, <2>1
  <2>. QED
    BY <1>4, <2>2 DEF Budget
<1>6. \A r \in 1 .. deployed : Limit(r) * Period <= Ceiled * Period /\ Limit(r) * Period \in Nat
  <2>1. \A r \in 1 .. deployed : Limit(r) \in Nat
    BY <1>1, PolicyFacts, DeploymentAssumption DEF Revisions
  <2>. QED
    BY <1>1, <1>3, <2>1, WorthOf, Zenon
<1>7. bucket.present => Stored(bucket, until, deployed, clock, server, a)
  <2>1. SUFFICES ASSUME bucket.present PROVE Stored(bucket, until, deployed, clock, server, a)
    OBVIOUS
  <2>2. Worth(bucket) \in Nat /\ \E r \in 1 .. deployed : Worth(bucket) <= Limit(r) * Period
    BY <1>1, <2>1, WorthFacts, Zenon DEF Stored
  <2>3. a.granted * Period + Worth(bucket) <= Budget(a, clock)
    BY <1>5, <1>6, <2>2
  <2>. QED
    BY <1>1, <2>1, <2>3, Zenon DEF Stored
<1>8. ~bucket.present => Removed(deployed, clock, server, a)
  <2>1. deployed \in 1 .. deployed
    BY <1>1, PolicyFacts
  <2>. QED
    BY <1>1, <1>3, <1>4, <2>1, Zenon DEF Removed
<1>9. a.start <= clock /\ a.granted * Period <= Budget(a, clock)
  BY <1>1, <1>4, <1>5
<1>10. Audited(bucket, until, deployed, clock, server, a)
  BY <1>1, <1>4, <1>7, <1>8, <1>9, Zenon DEF Audited
<1>. QED
  BY <1>2, <1>10, SameRates, Zenon

\* Nothing is admitted at first.
LEMMA AuditStarts ==
    ASSUME Init
    PROVE  AuditInv
<1>1. deployment \in Deployments /\ 1 \in Revisions
  BY DeploymentAssumption DEF Init, Revisions
<1>2. Limit(1) \in Nat /\ Period \in Nat /\ Rate \in Nat
  BY <1>1, PolicyFacts, RateFacts
<1>3. /\ clock = 0 /\ until = 0 /\ ~bucket.present /\ deployed = 1
      /\ audit \in Audits /\ audit.start = 0 /\ audit.limit = Limit(1) /\ audit.granted = 0
  BY <1>2 DEF Init, NoBucket, Audits
<1>4. Removed(deployed, clock, server, audit)
  BY <1>2, <1>3 DEF Removed
<1>5. audit.start <= clock /\ audit.granted * Period <= Budget(audit, clock)
  <2>1. Limit(1) * Period \in Nat /\ 0 * Period = 0 /\ (0 - 0) * Rate = 0
    BY <1>2
  <2>. QED
    BY <1>3, <2>1 DEF Budget
<1>. QED
  BY <1>3, <1>4, <1>5 DEF AuditInv, Audited

\* Every step of either backend keeps the audit.
LEMMA AuditKept ==
    ASSUME IInv, AuditInv, Patient, [DeploymentNext]_vars
    PROVE  AuditInv' /\ Patient'
<1>1. CASE UNCHANGED vars
  <2>1. Audited(bucket', until', deployed', clock', server', audit')
    BY <1>1, Zenon DEF vars, AuditInv
  <2>. QED
    BY <1>1, <2>1, SameRates, Zenon DEF vars
<1>2. \A cost \in 1 .. Policy(deployed).maxCost : cost \in Nat
  BY PolicyFacts DEF IInv
<1>3. CASE deployment.backend = "valkey" /\ ValkeyNext
  <2>1. ASSUME NEW mode \in Modes, NEW now \in Readings,
               NEW cost \in 1 .. Policy(deployed).maxCost, AdmitScript(mode, cost, now)
        PROVE  AuditInv' /\ deployment' = deployment
    BY <1>2, <1>3, <2>1, ScriptAudited, Zenon DEF AdmitScript
  <2>2. ASSUME Deploy PROVE AuditInv' /\ deployment' = deployment
    BY <2>2, DeployAudited, Zenon DEF Deploy
  <2>3. ASSUME HashTick PROVE AuditInv' /\ deployment' = deployment
    <3>1. server' >= until => until - Margin <= server' - deployment.skew
      <4>1. server \in Nat /\ until \in Int /\ deployment.skew \in Nat /\ server' = server + 1
        BY <2>3, RateFacts, Zenon DEF IInv, AuditInv, Audited, HashTick
      <4>. QED
        BY <1>3, <4>1 DEF Margin
    <3>. QED
      BY <2>3, <3>1, TickAudited, Zenon DEF HashTick
  <2>4. ASSUME StartAudit PROVE AuditInv' /\ deployment' = deployment
    BY <2>4, StartAudited, Zenon DEF StartAudit
  <2>5. AuditInv' /\ deployment' = deployment
    BY <1>3, <2>1, <2>2, <2>3, <2>4, Zenon DEF ValkeyNext
  <2>. QED
    BY <2>5, SameRates, Zenon
<1>4. CASE deployment.backend = "postgres" /\ PostgresNext
  <2>1. ASSUME NEW mode \in Modes, NEW now \in Readings,
               NEW cost \in 1 .. Policy(deployed).maxCost, AdmitRow(mode, cost, now)
        PROVE  AuditInv' /\ deployment' = deployment
    BY <1>2, <1>4, <2>1, TransactionAudited, Zenon DEF AdmitRow
  <2>2. ASSUME Deploy PROVE AuditInv' /\ deployment' = deployment
    BY <2>2, DeployAudited, Zenon DEF Deploy
  <2>3. ASSUME RowTick PROVE AuditInv' /\ deployment' = deployment
    BY <2>3, TickAudited, Zenon DEF RowTick
  <2>4. ASSUME StartAudit PROVE AuditInv' /\ deployment' = deployment
    BY <2>4, StartAudited, Zenon DEF StartAudit
  <2>5. ASSUME NEW now \in Readings, Cleanup(now) PROVE AuditInv' /\ deployment' = deployment
    BY <1>4, <2>5, CleanupAudited, Zenon DEF Cleanup
  <2>6. AuditInv' /\ deployment' = deployment
    BY <1>4, <2>1, <2>2, <2>3, <2>4, <2>5, Zenon DEF PostgresNext
  <2>. QED
    BY <2>6, SameRates, Zenon
<1>. QED
  BY <1>1, <1>3, <1>4, Zenon DEF DeploymentNext

\* Where the retention is long enough for the clocks and the rates, no rollout, no
\* disagreement of clocks and no removal of idle state admits more than the limit
\* plus the refill, on either backend (RefillHash and ttl of valkey/scripts.go and
\* valkey/store.go; mutateToken, postgresAdmissionTTL and cleanupSQL of postgres).
THEOREM NoTokenIsMinted == DeploymentSpec /\ Patient => []NoOverAdmission
<1> DEFINE J == IInv /\ StrictCapped /\ NeverCorrupt /\ Patient /\ AuditInv
<1>1. Init /\ Patient => J
  BY Initially, AuditStarts, Zenon
<1>2. J /\ [DeploymentNext]_vars => J'
  <2> SUFFICES ASSUME J, [DeploymentNext]_vars PROVE J'
    OBVIOUS
  <2>1. IInv' /\ StrictCapped' /\ NeverCorrupt'
    BY Preserved, Zenon
  <2>2. AuditInv' /\ Patient'
    BY AuditKept, Zenon
  <2>. QED
    BY <2>1, <2>2, Zenon
<1>3. J => NoOverAdmission
  <2> SUFFICES ASSUME J PROVE NoOverAdmission
    OBVIOUS
  <2>1. /\ Fastest \in Revisions /\ Policy(Fastest).period = Period
        /\ audit.granted * Period <= Budget(audit, clock)
    BY RateFacts, Zenon DEF IInv, AuditInv, Audited
  <2>. QED
    BY <2>1, Zenon DEF NoOverAdmission, Budget, Rate
<1> HIDE DEF J
<1>. QED
  BY <1>1, <1>2, <1>3, PTL DEF DeploymentSpec

\* One clock, and bursts that no period's refill falls short of; on PostgreSQL any
\* burst of a policy that is not rolled out.
Modest ==
    /\ deployment.skew = 0
    /\ \/ \A r \in Revisions : Policy(r).burst <= Policy(r).capacity
       \/ deployment.backend = "postgres" /\ Revisions = {1}

\* The retention of both backends is two periods at least, and on PostgreSQL the time
\* a full refill takes.
LEMMA RetentionFacts ==
    ASSUME deployment \in Deployments, NEW r \in Revisions
    PROVE  /\ Kept(r) \in Int /\ Kept(r) >= 2 * Period
           /\ deployment.backend = "postgres" => Kept(r) * Policy(r).capacity >= Limit(r) * Period
<1> DEFINE full == TokenDuration(Limit(r), 0, r)
           c == Policy(r).capacity
           x == Limit(r) * Period
<1>1. /\ Period \in Nat \ {0} /\ Limit(r) \in Nat \ {0} /\ Floor \in Nat
      /\ Policy(r).period = Period /\ c \in Nat \ {0}
  BY RateFacts, PolicyFacts, TimeAssumption, Zenon
<1>2. x \in Nat /\ ~(Limit(r) = 0) /\ ~(Limit(r) < 0) /\ x - 0 = x
  BY <1>1
<1>3. full = (x + c - 1) \div c
  <2> HIDE DEF x
  <2>1. x = Limit(r) * Policy(r).period
    BY <1>1, Zenon DEF x
  <2>2. full = (x - 0 + c - 1) \div c
    BY <1>2, <2>1, Zenon DEF TokenDuration
  <2>. QED
    BY <1>2, <2>2, Zenon
<1> HIDE DEF x, full, c
<1>4. full \in Int
  <2>1. x + c - 1 \in Int
    BY <1>1, <1>2
  <2>. QED
    BY <1>1, <1>3, <2>1, FloorDiv
<1>5. \A d \in Int : d >= full => d * c >= x
  BY <1>1, <1>2, <1>3, CeilExact, Zenon
<1>6. /\ RowTTL(r) = Later(Later(2 * Period, Floor), full)
      /\ HashTTL(r) = Later(2 * Period, Floor)
  BY <1>1, Zenon DEF RowTTL, HashTTL, full
<1>7. /\ RowTTL(r) \in Int /\ RowTTL(r) >= 2 * Period /\ RowTTL(r) >= full
      /\ HashTTL(r) \in Int /\ HashTTL(r) >= 2 * Period
  BY <1>1, <1>4, <1>6 DEF Later
<1>. QED
  BY <1>5, <1>7, Zenon DEF Kept, x, c

\* Two periods fill a bucket whose burst is at most its capacity.
LEMMA TwoPeriods ==
    ASSUME deployment \in Deployments, NEW q \in Revisions,
           Policy(q).burst <= Policy(q).capacity,
           NEW k \in Int, k >= 2 * Period, NEW c \in Nat, Policy(q).capacity <= c
    PROVE  k * c >= Limit(q) * Period
<1>1. /\ Period \in Nat \ {0} /\ Limit(q) \in Nat
      /\ Policy(q).capacity \in Nat /\ Policy(q).burst \in Nat
  BY RateFacts, PolicyFacts, DeploymentAssumption DEF Revisions, Policy
<1>2. Limit(q) <= 2 * c
  BY <1>1 DEF Limit
<1>3. Limit(q) * Period <= (2 * c) * Period /\ (2 * Period) * c <= k * c
  <2>1. 2 * c \in Int /\ 2 * Period \in Int /\ 2 * Period <= k
    BY <1>1
  <2>. QED
    BY <1>1, <1>2, <2>1, Monotone
<1>4. (2 * c) * Period = (2 * Period) * c
  BY <1>1
<1>5. Limit(q) * Period \in Int /\ (2 * c) * Period \in Int /\ k * c \in Int
  BY <1>1
<1>. QED
  BY <1>3, <1>4, <1>5

\* That is long enough in these cases.
LEMMA ModestIsPatient ==
    ASSUME deployment \in Deployments, Modest
    PROVE  Patient
<1> SUFFICES ASSUME NEW r \in Revisions, NEW q \in Revisions
             PROVE  (Kept(r) - 2 * deployment.skew) * Rate >= Limit(q) * Period
  BY Zenon DEF Patient
<1>1. /\ Kept(r) \in Int /\ Kept(r) >= 2 * Period /\ Rate \in Nat /\ Policy(q).capacity <= Rate
      /\ deployment.backend = "postgres" => Kept(r) * Policy(r).capacity >= Limit(r) * Period
  BY RetentionFacts, RateFacts
<1>2. Kept(r) * Rate >= Limit(q) * Period
  <2>1. CASE Policy(q).burst <= Policy(q).capacity
    BY <1>1, <2>1, TwoPeriods, Zenon
  <2>2. CASE deployment.backend = "postgres" /\ Revisions = {1}
    <3>1. r = 1 /\ q = 1 /\ Fastest = 1
      BY <2>2, RateFacts, Zenon
    <3>. QED
      BY <1>1, <2>2, <3>1, Zenon DEF Rate
  <2>. QED
    BY <2>1, <2>2, Zenon DEF Modest
<1>. QED
  BY <1>1, <1>2 DEF Modest

\* With the server's clock the limit plus the refill bounds what is admitted through
\* any rollout of policies whose burst is at most their capacity, on both backends,
\* and on PostgreSQL for every burst of a policy that stays as it is.
THEOREM ModestTokensAreBounded == DeploymentSpec /\ Modest => []NoOverAdmission
<1>1. Init /\ Modest => Patient
  BY ModestIsPatient, Zenon DEF Init
<1>. QED
  BY <1>1, NoTokenIsMinted, PTL DEF DeploymentSpec

------------------------------------------------------------------------------
(* Reset.  A bucket is full from the instant on at which its worth and what   *)
(* its own rate has earned reach the limit; Reset is that instant, and the    *)
(* state outlasts it.                                                         *)

\* Every retention, less what clocks may disagree by, is time enough for the policy
\* to fill its own bucket.
Lasting ==
    \A r \in Revisions :
        (Kept(r) - 2 * deployment.skew) * Policy(r).capacity >= Limit(r) * Period

\* The bucket is full at x.
Refilled(b, r, x) == Worth(b) + (x - b.last) * Policy(r).capacity >= Limit(r) * Period

Exact(b, r, reset) == \A x \in Int : x >= b.last => (x >= reset <=> Refilled(b, r, x))

Decided(d) == d.outcome \in {"allowed", "limited"}

Promised(b, u, v, s, d) ==
    /\ u \in Int /\ d.revision \in 1 .. v
    /\ b.present => b.last <= s + deployment.skew
    /\ Grows /\ Decided(d) /\ d.revision = v =>
         /\ d.reset \in Int
         /\ b.present => b.revision = v /\ Exact(b, v, d.reset) /\ d.reset <= u - Margin
         /\ ~b.present => d.reset <= s - deployment.skew

ResetInv == Promised(bucket, until, deployed, server, decision)

\* Nothing of this changes within a deployment.
LEMMA SamePromise ==
    ASSUME deployment' = deployment
    PROVE  /\ Lasting' <=> Lasting
           /\ Promised(bucket', until', deployed', server', decision') => ResetInv'
<1>1. Revisions' = Revisions /\ Period' = Period /\ Margin' = Margin /\ (Grows' <=> Grows)
  BY GrowsStays, Zenon DEF Revisions, Period, Policy, Margin
<1>2. \A r : Limit(r)' = Limit(r) /\ Policy(r)' = Policy(r)
  BY Zenon DEF Limit, Policy
<1>3. \A r : Kept(r)' = Kept(r)
  BY Zenon DEF Kept, RowTTL, HashTTL, Later, TokenDuration, Forever, Limit, Policy
<1>4. Lasting' <=> Lasting
  BY <1>1, <1>2, <1>3, Zenon DEF Lasting
<1>5. \A b, r, x : Refilled(b, r, x)' <=> Refilled(b, r, x)
  BY <1>1, <1>2, Zenon DEF Refilled, Worth
<1>6. \A b, r, x : Exact(b, r, x)' <=> Exact(b, r, x)
  BY <1>5, Zenon DEF Exact
<1>. QED
  BY <1>1, <1>4, <1>6, Zenon DEF ResetInv, Promised, Decided

\* The wait that either backend reports: none for a full bucket, and otherwise until
\* the missing part of the limit is earned.
LEMMA WaitExact ==
    ASSUME deployment \in Deployments, NEW r \in Revisions, NEW b \in Buckets, Fits(b, r), NEW w,
           \/ w = TokenDuration(Limit(r) - b.tokens, b.remainder, r)
           \/ w = Ceiling((Limit(r) - b.tokens) * Policy(r).period - b.remainder, Policy(r).capacity)
    PROVE  /\ w \in Nat
           /\ \A y \in Int : y >= 0 =>
                (y >= w <=> Worth(b) + y * Policy(r).capacity >= Limit(r) * Period)
<1> DEFINE n == Limit(r) - b.tokens
           x == n * Period - b.remainder
           c == Policy(r).capacity
           q == (x + c - 1) \div c
<1>1. /\ Limit(r) \in Nat /\ b.tokens \in Nat /\ b.remainder \in Nat /\ c \in Nat \ {0}
      /\ Policy(r).period = Period /\ Period \in Nat \ {0}
      /\ b.tokens <= Limit(r) /\ b.remainder < Period
  BY PolicyFacts, RateFacts, Fields, Zenon DEF Fits
<1>2. n \in Nat /\ Limit(r) = b.tokens + n
  BY <1>1
<1>3. w = (IF n = 0 THEN 0 ELSE IF n < 0 THEN Forever ELSE q) \/ w = Later(0, q)
  BY <1>1, Zenon DEF TokenDuration, Ceiling
<1> HIDE DEF n, c
<1>4. /\ n * Period \in Nat /\ b.tokens * Period \in Nat /\ Limit(r) * Period \in Nat
      /\ Limit(r) * Period = b.tokens * Period + n * Period
      /\ Worth(b) = b.tokens * Period + b.remainder
  <2>1. n * Period \in Nat /\ b.tokens * Period \in Nat /\ Limit(r) * Period \in Nat
    BY <1>1, <1>2, WorthOf, Zenon
  <2>2. (b.tokens + n) * Period = b.tokens * Period + n * Period
    BY <1>1, <1>2, WorthOf, Zenon
  <2>3. Limit(r) * Period = b.tokens * Period + n * Period
    BY <1>2, <2>2, Zenon
  <2>. QED
    BY <2>1, <2>3, Zenon DEF Worth
<1>5. x \in Int /\ x + c - 1 \in Int
  BY <1>1, <1>4
<1>6. \A y \in Int : y * c \in Int /\ (Worth(b) + y * c >= Limit(r) * Period <=> y * c >= x)
  BY <1>1, <1>4
<1>7. CASE n = 0
  <2>1. x <= 0 /\ x + c - 1 < 1 * c + 0
    <3>1. 0 * Period = 0
      BY <1>1
    <3>. QED
      BY <1>1, <1>5, <1>7, <3>1
  <2>2. q \in Int /\ q <= 0
    <3> HIDE DEF x
    <3>1. q \in Int /\ q * c <= x + c - 1
      BY <1>1, <1>5, FloorDiv, FloorBounds
    <3> HIDE DEF q
    <3>. QED
      BY <1>1, <1>5, <2>1, <3>1
  <2> HIDE DEF x, q
  <2>3. w = 0
    BY <1>3, <1>7, <2>2 DEF Later
  <2>4. \A y \in Int : y >= 0 => y * c >= x
    BY <1>1, <1>5, <2>1
  <2>. QED
    BY <1>6, <2>3, <2>4 DEF c
<1>8. CASE n # 0
  <2>1. n >= 1 /\ Period <= n * Period
    BY <1>1, <1>2, <1>8
  <2>2. x \in Nat /\ x + c - 1 \in Nat
    BY <1>1, <1>4, <2>1
  <2> HIDE DEF x
  <2>3. q \in Nat
    BY <1>1, <2>2, DivMod, Zenon
  <2>4. \A y \in Int : y * c >= x <=> y >= q
    BY <1>1, <2>2, CeilExact, Zenon
  <2> HIDE DEF q
  <2>5. w = q
    BY <1>2, <1>3, <1>8, <2>3 DEF Later
  <2>. QED
    BY <1>6, <2>3, <2>4, <2>5, Zenon DEF c
<1>. QED
  BY <1>7, <1>8, Zenon

\* A refill fills the bucket if and only if its time has come.
LEMMA RefillExact ==
    ASSUME deployment \in Deployments, NEW r \in Revisions,
           NEW s \in Buckets, Fits(s, r), NEW at \in Nat, s.last <= at
    PROVE  RefillHash(s, r, at).tokens = Limit(r) <=> Refilled(s, r, at)
<1> DEFINE t == RefillHash(s, r, at)
           earned == (at - s.last) * Policy(r).capacity
<1>1. /\ s.tokens \in Nat /\ s.remainder \in 0 .. Period - 1 /\ s.last \in Nat
      /\ at - s.last \in Nat /\ Limit(r) \in Nat /\ Policy(r).capacity \in Nat
      /\ Period \in Nat \ {0} /\ s.tokens <= Limit(r)
  <2>1. Policy(r).period = Period /\ Period \in Nat \ {0}
    BY RateFacts, Zenon
  <2>. QED
    BY <2>1, PolicyFacts, Fields DEF Fits
<1>2. earned \in Nat /\ (at <= s.last => earned = 0)
  BY <1>1
<1>3. PICK added, rest : Refills(s, t, r, at, added, rest)
  BY RefillCases, Zenon
<1> HIDE DEF t
<1>4. /\ added \in Nat /\ rest \in 0 .. Period - 1
      /\ added * Period + rest = earned + s.remainder
  BY <1>1, <1>3 DEF Refills
<1>5. Refilled(s, r, at) <=> Worth(s) + earned >= Limit(r) * Period
  BY Zenon DEF Refilled
<1> HIDE DEF earned
<1>6. /\ Worth(s) = s.tokens * Period + s.remainder
      /\ s.tokens * Period \in Nat /\ Limit(r) * Period \in Nat /\ added * Period \in Nat
      /\ (s.tokens + added) * Period = s.tokens * Period + added * Period
  BY <1>1, <1>4, WorthOf, Zenon DEF Worth
<1>7. s.tokens >= Limit(r) <=> s.tokens * Period + s.remainder >= Limit(r) * Period
  BY <1>1, WholePart
<1>8. s.tokens + added >= Limit(r) <=> (s.tokens + added) * Period + rest >= Limit(r) * Period
  <2>1. s.tokens + added \in Int
    BY <1>1, <1>4
  <2>. QED
    BY <1>1, <1>4, <2>1, WholePart
<1>. SUFFICES t.tokens = Limit(r) <=> Worth(s) + earned >= Limit(r) * Period
  BY <1>5, Zenon DEF t
<1>9. CASE /\ at <= s.last \/ s.tokens >= Limit(r)
           /\ Made(t, s.revision, s.tokens, s.remainder, at)
  <2>1. t.tokens = s.tokens
    BY <1>9, Zenon DEF Made
  <2>. QED
    <3>1. CASE at <= s.last
      <4>1. Worth(s) + earned = s.tokens * Period + s.remainder
        BY <1>1, <1>2, <1>6, <3>1
      <4>2. s.tokens >= Limit(r) <=> s.tokens = Limit(r)
        BY <1>1
      <4>. QED
        BY <1>7, <2>1, <4>1, <4>2, Zenon
    <3>2. CASE s.tokens >= Limit(r)
      <4>1. s.tokens = Limit(r)
        BY <1>1, <3>2
      <4>2. Worth(s) + earned >= Limit(r) * Period
        BY <1>1, <1>2, <1>6, <4>1
      <4>. QED
        BY <2>1, <4>1, <4>2, Zenon
    <3>. QED
      BY <1>9, <3>1, <3>2, Zenon
<1>10. CASE s.tokens + added >= Limit(r) /\ Made(t, s.revision, Limit(r), 0, at)
  <2>1. t.tokens = Limit(r)
    BY <1>10, Zenon DEF Made
  <2>. QED
    BY <1>1, <1>2, <1>4, <1>6, <1>8, <1>10, <2>1
<1>11. CASE s.tokens + added < Limit(r) /\ Made(t, s.revision, s.tokens + added, rest, at)
  <2>1. t.tokens = s.tokens + added
    BY <1>11, Zenon DEF Made
  <2>. QED
    BY <1>1, <1>2, <1>4, <1>6, <1>8, <1>11, <2>1
<1>. QED
  BY <1>3, <1>9, <1>10, <1>11, Zenon DEF Refills

\* What a call of the same revision makes ready is full if and only if the time has
\* come.
LEMMA ReadyExact ==
    ASSUME deployment \in Deployments, deployed \in Revisions, NEW mode \in Modes,
           NEW found \in Buckets, found.revision = deployed, Fits(found, deployed),
           NEW at \in Nat, found.last <= at
    PROVE  Ready(mode, found, at).tokens = Limit(deployed) <=> Refilled(found, deployed, at)
<1> DEFINE carried == CarryHash(found, mode, deployed, at)
<1>1. Made(carried, deployed, found.tokens, found.remainder, found.last)
  <2>1. carried = [found EXCEPT !.revision = deployed]
    BY Zenon DEF CarryHash
  <2> HIDE DEF carried
  <2>. QED
    BY <2>1, Relabelled, Zenon
<1> HIDE DEF carried
<1>2. /\ carried \in Buckets /\ carried.last = found.last /\ carried.tokens = found.tokens
      /\ carried.remainder = found.remainder
  BY <1>1, Zenon DEF Made
<1>3. carried.last <= at /\ Fits(carried, deployed)
  BY <1>2, Zenon DEF Fits
<1>4. RefillHash(carried, deployed, at).tokens = Limit(deployed) <=> Refilled(carried, deployed, at)
  BY <1>2, <1>3, RefillExact, Zenon
<1>5. Refilled(carried, deployed, at) <=> Refilled(found, deployed, at)
  BY <1>2, Zenon DEF Refilled, Worth
<1>. QED
  BY <1>4, <1>5, Zenon DEF Ready, carried

\* A call that finds the bucket of the last decision, or creates one after its Reset.
LEMMA CallExact ==
    ASSUME IInv, ResetInv, Grows, Decided(decision), decision.revision = deployed,
           NEW mode \in Modes, NEW now \in Readings, NEW found, NEW at, at = Later(now, found.last),
           (found = bucket /\ bucket.present)
             \/ (found = Full(deployed, now) /\ decision.reset <= now)
    PROVE  at >= decision.reset <=> Ready(mode, found, at).tokens = Limit(deployed)
<1>1. /\ deployment \in Deployments /\ deployed \in Revisions
      /\ found \in Buckets /\ at \in Nat /\ found.last <= at /\ Fits(found, deployed)
  BY FoundFacts, Zenon DEF IInv
<1>2. decision.reset \in Int /\ at \in Int
  BY <1>1 DEF ResetInv, Promised
<1>3. CASE found = bucket /\ bucket.present
  <2>1. found.revision = deployed /\ Exact(found, deployed, decision.reset)
    BY <1>3, Zenon DEF ResetInv, Promised
  <2>2. at >= decision.reset <=> Refilled(found, deployed, at)
    <3>1. at >= found.last
      BY <1>1, Fields
    <3>. QED
      BY <1>2, <2>1, <3>1, Zenon DEF Exact
  <2>. QED
    BY <1>1, <2>1, <2>2, ReadyExact, Zenon
<1>4. CASE found = Full(deployed, now) /\ decision.reset <= now
  <2>1. now \in Nat
    BY <1>1, ReadingFacts, Zenon DEF IInv
  <2>2. found.last = now /\ found.revision = deployed /\ Worth(found) = Limit(deployed) * Period
    BY <1>1, <1>4, <2>1, FullFits, FullWorth, Zenon
  <2>3. at = now
    BY <2>1, <2>2 DEF Later
  <2>4. Refilled(found, deployed, at)
    <3>1. (now - now) * Policy(deployed).capacity = 0 /\ Limit(deployed) * Period \in Nat
      <4>1. Limit(deployed) \in Nat /\ Period \in Nat /\ Policy(deployed).capacity \in Nat
        BY <1>1, PolicyFacts, RateFacts
      <4>. QED
        BY <2>1, <4>1
    <3>2. Refilled(found, deployed, at) <=>
            Limit(deployed) * Period + (now - now) * Policy(deployed).capacity
              >= Limit(deployed) * Period
      BY <2>2, <2>3, Zenon DEF Refilled
    <3>. QED
      BY <3>1, <3>2
  <2>5. at >= decision.reset
    BY <1>2, <1>4, <2>1, <2>3
  <2>. QED
    BY <1>1, <2>2, <2>4, <2>5, ReadyExact, Zenon
<1>. QED
  BY <1>3, <1>4, Zenon

\* The wait that a decision adds to the instant of the bucket it leaves.
Waits(b, w) ==
    \/ w = TokenDuration(Limit(deployed) - b.tokens, b.remainder, deployed)
    \/ w = Ceiling((Limit(deployed) - b.tokens) * Policy(deployed).period - b.remainder,
                   Policy(deployed).capacity)

\* A call that decides d, and reports its Reset.
Reports(mode, cost, found, at, d) ==
    /\ Decides(d, mode, Ready(mode, found, at), cost)
    /\ decision' = d
    /\ bucket' = DrawnBy(Ready(mode, found, at), d)
    /\ \E w : Waits(bucket', w) /\ d.reset = bucket'.last + w
    /\ KeptUntil(until', at)

\* A strict call that refuses.
Refuses == decision' = Bare("corrupt", deployed) /\ UNCHANGED <<bucket, until>>

\* A run of the script ...
LEMMA ScriptReports ==
    ASSUME IInv, deployment.backend = "valkey", NEW mode \in Modes, NEW now \in Readings,
           NEW cost \in Nat, AdmitScript(mode, cost, now)
    PROVE  LET found == FoundHash(deployed, now)
               at    == Later(now, found.last)
           IN  Refuses \/ \E d : Reports(mode, cost, found, at, d)
<1> DEFINE found == FoundHash(deployed, now)
           at == Later(now, found.last)
           ready == Ready(mode, found, at)
           d == DecideScript(mode, ready, deployed, cost)
<1>1. found \in Buckets /\ at \in Nat /\ found.last <= at
  BY ScriptCalls, Zenon
<1>2. \/ Refuse(deployed)
      \/ /\ decision' = d /\ bucket' = DrawnBy(ready, d)
         /\ until' = server + HashTTL(deployed)
  BY Zenon DEF AdmitScript, HashClock, Ready, Answer, DrawnBy
<1> HIDE DEF found, at
<1>3. ready \in Buckets
  BY <1>1, ReadyFacts, Zenon DEF IInv
<1> HIDE DEF ready
<1>4. /\ Decides(d, mode, ready, cost)
      /\ d.reset = ready.last + Ceiling((Limit(deployed) - d.remaining) * Policy(deployed).period
                                          - ready.remainder, Policy(deployed).capacity)
  BY Zenon DEF DecideScript, Decides
<1> HIDE DEF d
<1>5. CASE Refuse(deployed)
  BY <1>5, Zenon DEF Refuse, Refuses
<1>6. CASE /\ decision' = d /\ bucket' = DrawnBy(ready, d)
           /\ until' = server + HashTTL(deployed)
  <2>1. Made(bucket', ready.revision, d.remaining, ready.remainder, ready.last)
    BY <1>3, <1>4, <1>6, DecidesFacts, Drawn, Zenon DEF DrawnBy
  <2>2. \E w : Waits(bucket', w) /\ d.reset = bucket'.last + w
    BY <1>4, <2>1, Zenon DEF Made, Waits
  <2>3. KeptUntil(until', at)
    BY <1>6, Zenon DEF KeptUntil
  <2>. QED
    BY <1>4, <1>6, <2>2, <2>3, Zenon DEF Reports, ready, found, at
<1>. QED
  BY <1>2, <1>5, <1>6, Zenon

\* ... and a transaction.
LEMMA TransactionReports ==
    ASSUME IInv, deployment.backend = "postgres", NEW mode \in Modes, NEW now \in Readings,
           NEW cost \in Nat, AdmitRow(mode, cost, now)
    PROVE  LET found == CurrentRow(deployed, now)
               at    == Later(now, found.last)
           IN  Refuses \/ \E d : Reports(mode, cost, found, at, d)
<1> DEFINE found == CurrentRow(deployed, now)
           at == Later(now, found.last)
           ready == RefillRow(CarryRow(found, mode, deployed, at), deployed, at)
           d == DecideRow(mode, ready, deployed, cost)
<1>1. found \in Buckets /\ at \in Nat /\ found.last <= at
  BY TransactionCalls, Zenon
<1>2. \/ Refuse(deployed)
      \/ /\ decision' = d /\ bucket' = DrawnBy(ready, d)
         /\ until' = at + RowTTL(deployed)
  BY Zenon DEF AdmitRow, RowClock, Answer, DrawnBy
<1> HIDE DEF found, at
<1>3. ready = Ready(mode, found, at)
  BY <1>1, RowReady, Zenon DEF IInv
<1> HIDE DEF ready
<1>4. ready \in Buckets
  BY <1>1, <1>3, ReadyFacts, Zenon DEF IInv
<1>5. /\ Decides(d, mode, ready, cost)
      /\ d.reset = ready.last + TokenDuration(Limit(deployed) - d.remaining, ready.remainder, deployed)
  BY Zenon DEF DecideRow, Decides
<1> HIDE DEF d
<1>6. CASE Refuse(deployed)
  BY <1>6, Zenon DEF Refuse, Refuses
<1>7. CASE /\ decision' = d /\ bucket' = DrawnBy(ready, d)
           /\ until' = at + RowTTL(deployed)
  <2>1. Made(bucket', ready.revision, d.remaining, ready.remainder, ready.last)
    BY <1>4, <1>5, <1>7, DecidesFacts, Drawn, Zenon DEF DrawnBy
  <2>2. \E w : Waits(bucket', w) /\ d.reset = bucket'.last + w
    BY <1>5, <2>1, Zenon DEF Made, Waits
  <2>3. KeptUntil(until', at)
    BY <1>7, Zenon DEF KeptUntil
  <2>. QED
    BY <1>3, <1>5, <1>7, <2>2, <2>3, Zenon DEF Reports, found, at
<1>. QED
  BY <1>2, <1>6, <1>7, Zenon

\* A call that decides promises its Reset.
LEMMA ReportPromises ==
    ASSUME IInv, IInv', Lasting, UNCHANGED <<deployment, server, deployed>>,
           NEW mode \in Modes, NEW cost \in Nat, NEW found \in Buckets, NEW at \in Nat,
           found.last <= at, at <= server + deployment.skew, NEW d,
           Reports(mode, cost, found, at, d)
    PROVE  ResetInv'
<1> DEFINE ready == Ready(mode, found, at)
           k == Kept(deployed) - 2 * deployment.skew
<1>1. /\ deployment \in Deployments /\ deployed \in Revisions
      /\ ready \in Buckets /\ ready.last = at /\ ready.revision = deployed
  BY ReadyFacts, Zenon DEF IInv
<1>2. /\ Decides(d, mode, ready, cost) /\ decision' = d /\ bucket' = DrawnBy(ready, d)
      /\ KeptUntil(until', at)
  BY Zenon DEF Reports
<1>3. PICK w : Waits(bucket', w) /\ d.reset = bucket'.last + w
  BY Zenon DEF Reports
<1> HIDE DEF ready
<1>4. d.remaining \in Nat /\ d.revision = deployed
  BY <1>1, <1>2, DecidesFacts, Zenon
<1>5. bucket' \in Buckets /\ bucket'.revision = deployed /\ bucket'.last = at /\ bucket'.present
  <2>1. Made(bucket', deployed, d.remaining, ready.remainder, at)
    BY <1>1, <1>2, <1>4, Drawn, Zenon DEF DrawnBy
  <2>. QED
    BY <2>1, Zenon DEF Made, Buckets
<1>6. k \in Int /\ until' \in Int /\ Margin \in Nat /\ k <= until' - Margin - at
  BY <1>2, KeptFor, Zenon
<1>7. deployed \in 1 .. deployed
  BY <1>1, PolicyFacts
<1>8. Grows => Fits(bucket', deployed)
  BY <1>5, GrowsStays, SameShape, Zenon DEF IInv
<1>9. ASSUME Grows
      PROVE  d.reset \in Int /\ Exact(bucket', deployed, d.reset) /\ d.reset <= until' - Margin
  <2> DEFINE c == Policy(deployed).capacity
             full == Limit(deployed) * Period
             has == Worth(bucket')
  <2>1. /\ w \in Nat
        /\ \A y \in Int : y >= 0 => (y >= w <=> has + y * c >= full)
    BY <1>1, <1>3, <1>5, <1>8, <1>9, WaitExact, Zenon DEF Waits
  <2>2. c \in Nat \ {0} /\ full \in Nat \ {0} /\ has \in Nat
    <3>1. Limit(deployed) \in Nat \ {0} /\ Period \in Nat \ {0} /\ c \in Nat \ {0}
      BY <1>1, PolicyFacts, RateFacts, Zenon
    <3>2. has \in Nat
      BY <1>1, <1>5, WorthFacts, Zenon
    <3>. QED
      BY <3>1, <3>2
  <2>3. k * c >= full
    BY <1>1, Zenon DEF Lasting
  <2>4. \A x : Refilled(bucket', deployed, x) <=> has + (x - at) * c >= full
    BY <1>5, Zenon DEF Refilled
  <2> HIDE DEF c, full, has, k
  <2>5. k >= 0 /\ k * c \in Int
    BY <1>6, <2>2, <2>3
  <2>6. k >= w
    <3>1. has + k * c >= full
      BY <2>2, <2>3, <2>5
    <3>. QED
      BY <1>6, <2>1, <2>5, <3>1, Zenon
  <2>7. d.reset = at + w /\ d.reset \in Int
    BY <1>3, <1>5, <2>1
  <2>8. d.reset <= until' - Margin
    <3>1. w \in Int /\ w <= k
      BY <1>6, <2>1, <2>6
    <3>2. \A u, m \in Int : k <= u - m - at => at + w <= u - m
      BY <1>6, <3>1
    <3>3. Margin \in Int
      BY <1>6
    <3>. QED
      BY <1>6, <2>7, <3>2, <3>3, Zenon
  <2>9. ASSUME NEW x \in Int, x >= at PROVE x >= d.reset <=> Refilled(bucket', deployed, x)
    <3>1. x - at \in Int /\ x - at >= 0 /\ (x >= d.reset <=> x - at >= w)
      BY <2>1, <2>7, <2>9
    <3>2. x - at >= w <=> has + (x - at) * c >= full
      BY <2>1, <3>1, Zenon
    <3>. QED
      BY <2>4, <3>1, <3>2, Zenon
  <2>. QED
    BY <1>5, <2>7, <2>8, <2>9, Zenon DEF Exact
<1>10. Promised(bucket', until', deployed, server, decision')
  BY <1>2, <1>4, <1>5, <1>6, <1>7, <1>9, Zenon DEF Promised
<1>. QED
  BY <1>10, SamePromise, Zenon

\* What the next decision finds.
Finds ==
    Grows /\ Decided(decision) /\ Decided(decision') /\ decision'.revision = decision.revision
      => (decision'.at >= decision.reset
            <=> decision'.remaining + (IF decision'.outcome = "allowed" THEN decision'.cost ELSE 0)
                  = Limit(decision'.revision))

\* The next decision finds what the last one promised.
LEMMA ReportFinds ==
    ASSUME IInv, ResetInv, NEW mode \in Modes, NEW cost \in Nat, NEW now \in Readings,
           NEW found, NEW at, at = Later(now, found.last),
           (found = bucket /\ bucket.present)
             \/ (/\ found = Full(deployed, now)
                 /\ Grows /\ Decided(decision) /\ decision.revision = deployed
                      => decision.reset <= now),
           NEW d, Reports(mode, cost, found, at, d)
    PROVE  Finds
<1> DEFINE ready == Ready(mode, found, at)
<1>1. /\ deployment \in Deployments /\ deployed \in Revisions
      /\ found \in Buckets /\ at \in Nat /\ found.last <= at
  BY FoundFacts, Zenon DEF IInv
<1>2. ready \in Buckets /\ ready.last = at
  BY <1>1, ReadyFacts, Zenon
<1>3. Decides(d, mode, ready, cost) /\ decision' = d
  BY Zenon DEF Reports
<1>4. SUFFICES ASSUME Grows, Decided(decision), decision.revision = deployed
               PROVE  d.at >= decision.reset
                        <=> d.remaining + (IF d.outcome = "allowed" THEN d.cost ELSE 0)
                              = Limit(deployed)
  BY <1>3, Zenon DEF Finds, Decides
<1>5. at >= decision.reset <=> ready.tokens = Limit(deployed)
  BY <1>4, CallExact, Zenon
<1> HIDE DEF ready
<1>6. d.remaining + (IF d.outcome = "allowed" THEN d.cost ELSE 0) = ready.tokens /\ d.at = at
  <2>1. ready.tokens \in Nat
    BY <1>2, Fields, Zenon
  <2>. QED
    BY <1>2, <1>3, <2>1 DEF Decides
<1>. QED
  BY <1>5, <1>6

\* A refusal promises nothing.
LEMMA RefusePromises ==
    ASSUME IInv, ResetInv, Refuses, UNCHANGED <<deployment, server, deployed>>
    PROVE  ResetInv' /\ Finds
<1>1. decision'.outcome = "corrupt" /\ decision'.revision = deployed
  BY Zenon DEF Refuses, Bare
<1>2. ~Decided(decision')
  BY <1>1, Zenon DEF Decided
<1>3. deployed \in 1 .. deployed
  BY PolicyFacts DEF IInv
<1>4. Promised(bucket', until', deployed, server, decision')
  BY <1>1, <1>2, <1>3, Zenon DEF ResetInv, Promised, Refuses
<1>. QED
  BY <1>2, <1>4, SamePromise, Zenon DEF Finds

\* The instant of a call is within the skew of the server's clock.
LEMMA InstantFacts ==
    ASSUME IInv, ResetInv, NEW now \in Readings, NEW found, NEW at, at = Later(now, found.last),
           (found = bucket /\ bucket.present) \/ found = Full(deployed, now)
    PROVE  at <= server + deployment.skew
<1>1. now \in Nat /\ now <= server + deployment.skew /\ server \in Nat /\ deployment.skew \in Nat
  <2>1. server \in Nat /\ deployment.skew \in Nat
    BY RateFacts, Zenon DEF IInv
  <2>. QED
    BY <2>1 DEF Readings
<1>2. found.last <= server + deployment.skew
  <2>1. CASE found = bucket /\ bucket.present
    BY <2>1, Zenon DEF ResetInv, Promised
  <2>2. CASE found = Full(deployed, now)
    BY <1>1, <2>2, Zenon DEF Full
  <2>. QED
    BY <2>1, <2>2, Zenon
<1>. QED
  BY <1>1, <1>2, Zenon DEF Later

\* The last Reset has passed when the state is gone ...
LEMMA GoneAfterReset ==
    ASSUME IInv, ResetInv, NEW now \in Readings, Grows, Decided(decision),
           decision.revision = deployed,
           ~bucket.present \/ (deployment.backend = "postgres" /\ until <= now)
    PROVE  decision.reset <= now
<1>1. server \in Nat /\ deployment.skew \in Nat
  BY RateFacts, Zenon DEF IInv
<1>2. now \in Nat /\ server - deployment.skew <= now
  BY <1>1 DEF Readings
<1>3. /\ until \in Int /\ decision.reset \in Int
      /\ bucket.present => decision.reset <= until - Margin
      /\ ~bucket.present => decision.reset <= server - deployment.skew
  BY Zenon DEF ResetInv, Promised
<1>4. CASE ~bucket.present
  BY <1>1, <1>2, <1>3, <1>4
<1>5. CASE bucket.present /\ deployment.backend = "postgres" /\ until <= now
  BY <1>1, <1>2, <1>3, <1>5 DEF Margin
<1>. QED
  BY <1>4, <1>5, Zenon

\* ... and when the server removes it.
LEMMA RemovalPromises ==
    ASSUME IInv, ResetInv, NEW s \in Nat, server <= s,
           UNCHANGED <<deployment, deployed, decision>>, server' = s,
           \/ UNCHANGED <<bucket, until>>
           \/ /\ bucket.present /\ until - Margin <= s - deployment.skew
              /\ bucket' = NoBucket /\ until' = 0
    PROVE  ResetInv'
<1>1. server \in Nat /\ deployment.skew \in Nat /\ Margin \in Nat
  BY RateFacts DEF IInv, Margin
<1>2. /\ until \in Int /\ decision.revision \in 1 .. deployed
      /\ bucket.present => bucket.last <= server + deployment.skew
      /\ Grows /\ Decided(decision) /\ decision.revision = deployed =>
           /\ decision.reset \in Int
           /\ bucket.present => /\ bucket.revision = deployed
                                /\ Exact(bucket, deployed, decision.reset)
                                /\ decision.reset <= until - Margin
           /\ ~bucket.present => decision.reset <= server - deployment.skew
  BY Zenon DEF ResetInv, Promised
<1>3. CASE UNCHANGED <<bucket, until>>
  <2>1. bucket.present => bucket.last <= s + deployment.skew
    <3>1. bucket.present => bucket.last \in Nat
      BY Fields, Zenon DEF IInv
    <3>. QED
      BY <1>1, <1>2, <3>1
  <2>2. decision.reset \in Int /\ decision.reset <= server - deployment.skew
          => decision.reset <= s - deployment.skew
    BY <1>1
  <2>3. Promised(bucket, until, deployed, s, decision)
    BY <1>2, <2>1, <2>2, Zenon DEF Promised
  <2>. QED
    BY <1>3, <2>3, SamePromise, Zenon
<1>4. CASE /\ bucket.present /\ until - Margin <= s - deployment.skew
           /\ bucket' = NoBucket /\ until' = 0
  <2>1. ~NoBucket.present /\ 0 \in Int
    BY DEF NoBucket
  <2>2. decision.reset \in Int /\ decision.reset <= until - Margin
          => decision.reset <= s - deployment.skew
    BY <1>1, <1>2, <1>4
  <2>3. Promised(NoBucket, 0, deployed, s, decision)
    BY <1>2, <1>4, <2>1, <2>2, Zenon DEF Promised
  <2>. QED
    BY <1>4, <2>3, SamePromise, Zenon
<1>. QED
  BY <1>3, <1>4, Zenon

\* A deployment makes the last decision one of an older revision.
LEMMA DeployPromises ==
    ASSUME IInv, ResetInv, Deploy
    PROVE  ResetInv'
<1>1. /\ until \in Int /\ decision.revision \in 1 .. deployed
      /\ bucket.present => bucket.last <= server + deployment.skew
  BY Zenon DEF ResetInv, Promised
<1>2. deployed \in Nat
  BY PolicyFacts DEF IInv
<1>3. decision.revision \in 1 .. deployed + 1 /\ decision.revision # deployed + 1
  BY <1>1, <1>2
<1>4. Promised(bucket, until, deployed + 1, server, decision)
  BY <1>1, <1>3, Zenon DEF Promised
<1>. QED
  BY <1>4, SamePromise, Zenon DEF Deploy

\* Every step of either backend keeps the promise and finds what was promised.
LEMMA ResetKept ==
    ASSUME IInv, IInv', ResetInv, Lasting, [DeploymentNext]_vars
    PROVE  ResetInv' /\ Lasting' /\ (Finds \/ decision' = decision)
<1>1. CASE UNCHANGED vars
  <2>1. Promised(bucket', until', deployed', server', decision')
    BY <1>1, Zenon DEF vars, ResetInv
  <2>. QED
    BY <1>1, <2>1, SamePromise, Zenon DEF vars
<1>2. /\ server \in Nat /\ until \in Int /\ deployment.skew \in Nat
      /\ \A cost \in 1 .. Policy(deployed).maxCost : cost \in Nat
  BY PolicyFacts, RateFacts DEF IInv, ResetInv, Promised
<1>3. server <= server /\ server + 1 \in Nat /\ server <= server + 1
  BY <1>2
<1> DEFINE Goal == ResetInv' /\ deployment' = deployment /\ (Finds \/ decision' = decision)
<1>4. ASSUME NEW mode \in Modes, NEW cost \in Nat, NEW now \in Readings,
             NEW found, NEW at, at = Later(now, found.last),
             (found = bucket /\ bucket.present)
               \/ (/\ found = Full(deployed, now)
                   /\ ~bucket.present \/ (deployment.backend = "postgres" /\ until <= now)),
             UNCHANGED <<deployment, server, deployed>>,
             Refuses \/ \E d : Reports(mode, cost, found, at, d)
      PROVE  Goal
  <2>1. CASE Refuses
    BY <1>4, <2>1, RefusePromises, Zenon
  <2>2. ASSUME NEW d, Reports(mode, cost, found, at, d) PROVE Goal
    <3>1. (found = bucket /\ bucket.present) \/ found = Full(deployed, now)
      BY <1>4, Zenon
    <3>2. found \in Buckets /\ at \in Nat /\ found.last <= at
      BY <1>4, <3>1, FoundFacts, Zenon
    <3>3. at <= server + deployment.skew
      BY <1>4, <3>1, InstantFacts, Zenon
    <3>4. ResetInv'
      BY <1>4, <2>2, <3>2, <3>3, ReportPromises, Zenon
    <3>5. Finds
      BY <1>4, <2>2, GoneAfterReset, ReportFinds, Zenon
    <3>. QED
      BY <1>4, <3>4, <3>5, Zenon
  <2>. QED
    BY <1>4, <2>1, <2>2, Zenon
<1>5. ASSUME Deploy PROVE Goal
  BY <1>5, DeployPromises, Zenon DEF Deploy
<1>6. ASSUME StartAudit PROVE Goal
  BY <1>2, <1>3, <1>6, RemovalPromises, Zenon DEF StartAudit
<1>7. CASE deployment.backend = "valkey" /\ ValkeyNext
  <2>1. ASSUME NEW mode \in Modes, NEW now \in Readings,
               NEW cost \in 1 .. Policy(deployed).maxCost, AdmitScript(mode, cost, now)
        PROVE  Goal
    <3> DEFINE found == FoundHash(deployed, now)
               at == Later(now, found.last)
    <3>1. /\ found = IF bucket.present THEN bucket ELSE Full(deployed, now)
          /\ Refuses \/ \E d : Reports(mode, cost, found, at, d)
      BY <1>2, <1>7, <2>1, ScriptReports, Zenon DEF FoundHash
    <3>2. UNCHANGED <<deployment, server, deployed>>
      BY <2>1, Zenon DEF AdmitScript
    <3> HIDE DEF found
    <3>3. (found = bucket /\ bucket.present) \/ (found = Full(deployed, now) /\ ~bucket.present)
      BY <3>1, Zenon
    <3>. QED
      BY <1>2, <1>4, <3>1, <3>2, <3>3, Zenon
  <2>2. ASSUME HashTick PROVE Goal
    <3>1. server' = server + 1
      BY <2>2, Zenon DEF HashTick
    <3>2. server' >= until => until - Margin <= (server + 1) - deployment.skew
      BY <1>2, <1>7, <3>1 DEF Margin
    <3>. QED
      BY <1>3, <2>2, <3>1, <3>2, RemovalPromises, Zenon DEF HashTick
  <2>3. Goal
    BY <1>5, <1>6, <1>7, <2>1, <2>2, Zenon DEF ValkeyNext
  <2>. QED
    BY <2>3, SamePromise, Zenon
<1>8. CASE deployment.backend = "postgres" /\ PostgresNext
  <2>1. ASSUME NEW mode \in Modes, NEW now \in Readings,
               NEW cost \in 1 .. Policy(deployed).maxCost, AdmitRow(mode, cost, now)
        PROVE  Goal
    <3> DEFINE found == CurrentRow(deployed, now)
               at == Later(now, found.last)
    <3>1. /\ found = IF bucket.present /\ until > now THEN bucket ELSE Full(deployed, now)
          /\ Refuses \/ \E d : Reports(mode, cost, found, at, d)
      BY <1>2, <1>8, <2>1, TransactionReports, Zenon DEF CurrentRow
    <3>2. UNCHANGED <<deployment, server, deployed>>
      BY <2>1, Zenon DEF AdmitRow
    <3>3. ~(until > now) => until <= now
      BY <1>2 DEF Readings
    <3> HIDE DEF found
    <3>4. \/ found = bucket /\ bucket.present
          \/ found = Full(deployed, now) /\ (~bucket.present \/ until <= now)
      BY <3>1, <3>3, Zenon
    <3>. QED
      BY <1>2, <1>4, <1>8, <3>1, <3>2, <3>4, Zenon
  <2>2. ASSUME RowTick PROVE Goal
    BY <1>3, <2>2, RemovalPromises, Zenon DEF RowTick
  <2>3. ASSUME NEW now \in Readings, Cleanup(now) PROVE Goal
    <3>1. until <= now
      BY <2>3, Zenon DEF Cleanup
    <3>2. until - Margin <= server - deployment.skew
      BY <1>2, <1>8, <3>1 DEF Margin, Readings
    <3>. QED
      BY <1>2, <1>3, <2>3, <3>2, RemovalPromises, Zenon DEF Cleanup
  <2>4. Goal
    BY <1>5, <1>6, <1>8, <2>1, <2>2, <2>3, Zenon DEF PostgresNext
  <2>. QED
    BY <2>4, SamePromise, Zenon
<1>. QED
  BY <1>1, <1>7, <1>8, Zenon DEF DeploymentNext

\* The first decision promises nothing.
LEMMA ResetStarts ==
    ASSUME Init
    PROVE  ResetInv
<1>1. until \in Int /\ ~bucket.present /\ deployed = 1 /\ 1 \in 1 .. 1
  BY DEF Init, NoBucket
<1>2. decision.outcome = "none" /\ decision.revision = 1
  BY Zenon DEF Init, Bare
<1>3. ~Decided(decision)
  BY <1>2, Zenon DEF Decided
<1>. QED
  BY <1>1, <1>2, <1>3, Zenon DEF ResetInv, Promised

\* Where the retention of every policy lasts until its own bucket is full, Reset is
\* exact on either backend: the next request of the same revision finds a full bucket
\* from the instant reported on, and not before, whatever the clocks of the callers
\* within the skew and whether or not the state was removed in between (tokenDuration
\* of postgres/state.go, ceiling of valkey/scripts.go, and both retentions).
THEOREM ResetIsExact == DeploymentSpec /\ Lasting => ResetExact
<1> DEFINE J == IInv /\ StrictCapped /\ NeverCorrupt /\ Lasting /\ ResetInv
<1>1. Init /\ Lasting => J
  BY Initially, ResetStarts, Zenon
<1>2. J /\ [DeploymentNext]_vars =>
        J' /\ [/\ Grows
               /\ decision.outcome \in {"allowed", "limited"}
               /\ decision'.outcome \in {"allowed", "limited"}
               /\ decision'.revision = decision.revision
               => (decision'.at >= decision.reset
                     <=> decision'.remaining
                           + (IF decision'.outcome = "allowed" THEN decision'.cost ELSE 0)
                           = Limit(decision'.revision))]_decision
  <2> SUFFICES ASSUME J, [DeploymentNext]_vars
               PROVE  J' /\ (Finds \/ decision' = decision)
    BY Zenon DEF Finds, Decided
  <2>1. IInv' /\ StrictCapped' /\ NeverCorrupt'
    BY Preserved, Zenon
  <2>2. ResetInv' /\ Lasting' /\ (Finds \/ decision' = decision)
    BY <2>1, ResetKept, Zenon
  <2>. QED
    BY <2>1, <2>2, Zenon
<1> HIDE DEF J
<1>. QED
  BY <1>1, <1>2, PTL DEF DeploymentSpec, ResetExact

\* With the server's clock, on PostgreSQL or with bursts of at most the capacity, the
\* retention lasts.
Timely ==
    /\ deployment.skew = 0
    /\ deployment.backend = "postgres" \/ \A r \in Revisions : Policy(r).burst <= Policy(r).capacity

LEMMA TimelyIsLasting ==
    ASSUME deployment \in Deployments, Timely
    PROVE  Lasting
<1> SUFFICES ASSUME NEW r \in Revisions
             PROVE  (Kept(r) - 2 * deployment.skew) * Policy(r).capacity >= Limit(r) * Period
  BY Zenon DEF Lasting
<1>1. /\ Kept(r) \in Int /\ Kept(r) >= 2 * Period /\ Policy(r).capacity \in Nat
      /\ Policy(r).capacity <= Policy(r).capacity
      /\ deployment.backend = "postgres" => Kept(r) * Policy(r).capacity >= Limit(r) * Period
  BY RetentionFacts, PolicyFacts
<1>2. Kept(r) * Policy(r).capacity >= Limit(r) * Period
  BY <1>1, TwoPeriods, Zenon DEF Timely
<1>. QED
  BY <1>1, <1>2 DEF Timely

\* With the server's clock Reset is exact for every policy and rollout on PostgreSQL,
\* and on Valkey for every burst that is at most the capacity.
THEOREM ResetIsTimely == DeploymentSpec /\ Timely => ResetExact
<1>1. Init /\ Timely => Lasting
  BY TimelyIsLasting, Zenon DEF Init
<1>. QED
  BY <1>1, ResetIsExact, PTL DEF DeploymentSpec
=============================================================================

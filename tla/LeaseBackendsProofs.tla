------------------------ MODULE LeaseBackendsProofs ------------------------
(***************************************************************************)
(* The promise of a lease backend, for every set of identifiers, policies  *)
(* and clocks: nobody loses a lease, a refusal is justified, and the       *)
(* entry, hash or row implements LeasePool.  In memory it holds without    *)
(* conditions.  A server keeps it as long as the retention of every        *)
(* revision covers the leases of every other and the skew of the clocks    *)
(* (Patient): a rollout that shortens leases by more than half is outside  *)
(* of it.                                                                  *)
(***************************************************************************)
EXTENDS LeaseBackends, Arithmetic

\* What every backend keeps.
Base ==
    /\ last \in Instants /\ clock \in Instants
    /\ leases \in SUBSET Leases /\ IsFiniteSet(leases) /\ issued \in SUBSET Leases
    /\ \A l, m \in leases : l.id = m.id => l = m
    /\ \A l \in leases : l.expiresAt > last
    /\ leases # {} => present
    /\ HoldersKept

\* A step that keeps it, answers justly and is a step of the pool.
Promised == Base' /\ RefusalJustified' /\ [Pool!Next]_(Pool!vars)

------------------------------------------------------------------------------
(* Operators. *)

\* Instants, expiries and durations are integers.
LEMMA Integral ==
    /\ Instants = 0 .. MaxTime /\ Instants \subseteq Int
    /\ \A l \in Leases : l.expiresAt \in Int /\ l.cost \in Nat
    /\ \A r \in Revisions : /\ Policy[r].lease \in Nat \ {0} /\ Policy[r].limit \in Nat \ {0}
                            /\ \A c \in 1 .. Policy[r].maxCost : c \in Nat \ {0}
<1>1. Instants = 0 .. MaxTime /\ Instants \subseteq Int
  BY TimeAssumption DEF Instants, Pool!Instants
<1>2. \A r \in Revisions : /\ Policy[r].lease \in Nat \ {0} /\ Policy[r].limit \in Nat \ {0}
                           /\ \A c \in 1 .. Policy[r].maxCost : c \in Nat \ {0}
  BY PolicyAssumption
<1>3. \A t \in Instants, r \in Revisions : t + Policy[r].lease \in Int
  BY <1>1, <1>2
<1>4. \A l \in Leases : l.expiresAt \in Int
  BY <1>3 DEF Instants, Leases, Pool!Leases
<1>5. \A c \in Pool!Costs : c \in Nat
  BY <1>2, Zenon DEF Pool!Costs
<1>6. \A l \in Leases : l.cost \in Nat
  BY <1>5 DEF Leases, Pool!Leases
<1>. QED
  BY <1>1, <1>2, <1>4, <1>6, Zenon

\* A lease that is granted is a lease.
LEMMA NewLease ==
    ASSUME NEW r \in Revisions, NEW id \in Ids, NEW at \in Instants,
           NEW cost \in 1 .. Policy[r].maxCost,
           NEW l, l = Pool!Lease(id, cost, at + Policy[r].lease)
    PROVE  /\ l \in Leases /\ l.id = id
           /\ l.expiresAt = at + Policy[r].lease /\ l.expiresAt > at
<1>1. cost \in Pool!Costs
  BY Zenon DEF Pool!Costs
<1>2. l \in Leases /\ l.id = id /\ l.expiresAt = at + Policy[r].lease
  BY <1>1 DEF Instants, Leases, Pool!Leases, Pool!Lease
<1>3. at \in Int /\ Policy[r].lease \in Nat \ {0}
  BY Integral, Zenon
<1>. QED
  BY <1>2, <1>3

\* What is active later was active before.
LEMMA ActiveLater ==
    ASSUME NEW S \in SUBSET Leases, NEW s \in Int, NEW t \in Int, s <= t
    PROVE  Active(Active(S, s), t) = Active(S, t)
<1>1. ASSUME NEW l \in S, l.expiresAt > t PROVE l.expiresAt > s
  BY <1>1, Integral
<1>. QED
  BY <1>1, Zenon DEF Active

\* The cost that is set aside is a number, and the pool counts the same.
LEMMA TotalFacts ==
    ASSUME NEW S \in SUBSET Leases, IsFiniteSet(S)
    PROVE  Total(S) \in Nat /\ Pool!Total(S) = Total(S)
<1> DEFINE f == [l \in S |-> l.cost]
<1>1. Total(S) = SumFunctionOnSet(f, S)
  BY Zenon DEF Total, SumFunction
<1>2. \A l \in S : f[l] \in Nat
  BY Integral, Zenon
<1>3. Pool!Total(S) = Total(S)
  BY Zenon DEF Pool!Total, Total, Pool!SumFunction, SumFunction, Pool!SumFunctionOnSet, SumFunctionOnSet,
     Pool!FoldFunctionOnSet, FoldFunctionOnSet, Pool!MapThenFoldSet, MapThenFoldSet
<1>. QED
  BY <1>1, <1>2, <1>3, SumNat, Zenon

\* The active leases of a finite set of leases.
LEMMA ActiveFacts ==
    ASSUME NEW S \in SUBSET Leases, IsFiniteSet(S), NEW t
    PROVE  /\ Active(S, t) \in SUBSET S /\ Active(S, t) \in SUBSET Leases
           /\ IsFiniteSet(Active(S, t))
           /\ Pool!Active(S, t) = Active(S, t)
<1>1. Active(S, t) \in SUBSET S
  BY Zenon DEF Active
<1>2. Pool!Active(S, t) = Active(S, t)
  BY Zenon DEF Active, Pool!Active
<1>. QED
  BY <1>1, <1>2, FS_Subset, Zenon

\* The room that is left, as the backends and as the pool compute it.
LEMMA Room ==
    ASSUME Base, NEW r \in Revisions, NEW cost \in 1 .. Policy[r].maxCost, NEW at
    PROVE  /\ cost <= Remaining(r, at) <=> Total(Active(leases, at)) + cost <= Policy[r].limit
           /\ cost > Remaining(r, at) <=> Total(Active(leases, at)) + cost > Policy[r].limit
<1> DEFINE used == Total(Active(leases, at))
           limit == Policy[r].limit
<1>1. used \in Nat
  BY ActiveFacts, TotalFacts, Zenon DEF Base
<1>2. limit \in Nat \ {0} /\ cost \in Nat \ {0}
  BY Integral, Zenon
<1>3. Remaining(r, at) = IF used < limit THEN limit - used ELSE 0
  BY Zenon DEF Remaining, Pruned
<1> HIDE DEF used, limit
<1>4. /\ cost <= Remaining(r, at) <=> used + cost <= limit
      /\ cost > Remaining(r, at) <=> used + cost > limit
  BY <1>1, <1>2, <1>3
<1>. QED
  BY <1>4, Zenon DEF used, limit

\* The history keeps step with what is stored.
LEMMA HandFacts ==
    ASSUME Base, NEW at \in Instants, NEW given \in SUBSET Leases,
           Hand(at, given, {}), leases' = Active(leases, at) \cup given
    PROVE  /\ clock' \in Instants /\ at <= clock' /\ clock <= clock'
           /\ issued' \in SUBSET Leases
           /\ HoldersKept'
<1>1. clock' = Later(at, clock) /\ issued' = Active((issued \cup given) \ {}, clock')
  BY Zenon DEF Hand
<1>2. at \in Int /\ clock \in Int /\ clock' \in Instants /\ clock' \in Int
      /\ at <= clock' /\ clock <= clock'
  BY <1>1, Integral DEF Later, Base
<1>3. leases \in SUBSET Leases /\ issued = Active(leases, clock)
      /\ issued \in SUBSET Leases
  BY Zenon DEF Base, HoldersKept
<1>4. /\ Active(Active(leases, clock), clock') = Active(leases, clock')
      /\ Active(Active(leases, at), clock') = Active(leases, clock')
  BY <1>2, <1>3, ActiveLater, Zenon
<1>5. issued' = Active(issued, clock') \cup Active(given, clock')
  BY <1>1, SMT DEF Active
<1>6. Active(leases', clock') = Active(Active(leases, at), clock') \cup Active(given, clock')
  BY Zenon DEF Active
<1>7. issued' = Active(leases', clock')
  BY <1>3, <1>4, <1>5, <1>6, Zenon
<1>8. issued' \in SUBSET Leases
  BY <1>3, <1>5, Zenon DEF Active
<1>. QED
  BY <1>2, <1>7, <1>8, Zenon DEF HoldersKept

------------------------------------------------------------------------------
(* The steps that the backends have in common. *)

\* An acquisition at `at', which finds the leases that are active then.
Retry(r, id, cost, at) ==
    \E l \in Mine(id, at) : /\ l.cost = cost
                            /\ leases' = Pruned(at)
                            /\ answer' = Pool!Retried(r, l, at)
                            /\ Hand(at, {l}, {})

Collide(id, cost, at) ==
    /\ \E l \in Mine(id, at) : l.cost # cost
    /\ leases' = Pruned(at)
    /\ answer' = Pool!Conflict(at)
    /\ Hand(at, {}, {})

Refuse(r, id, cost, at) ==
    /\ Mine(id, at) = {} /\ cost > Remaining(r, at)
    /\ leases' = Pruned(at)
    /\ answer' = Pool!Refused(r, cost, at, EarliestLease(Pruned(at)))
    /\ Hand(at, {}, {})

Grant(r, id, cost, at) ==
    LET new == Pool!Lease(id, cost, at + Policy[r].lease)
    IN  /\ Mine(id, at) = {} /\ cost <= Remaining(r, at)
        /\ leases' = Pruned(at) \cup {new}
        /\ answer' = Pool!Granted(r, new, at)
        /\ Hand(at, {new}, {})

Acquired(r, id, cost, at) ==
    /\ Touch(at)
    /\ \/ Retry(r, id, cost, at) \/ Collide(id, cost, at)
       \/ Refuse(r, id, cost, at) \/ Grant(r, id, cost, at)

\* What an acquisition that gives `given' leaves.
LEMMA AcquireBase ==
    ASSUME Base, NEW at \in Instants, Touch(at),
           NEW given \in SUBSET Leases, IsFiniteSet(given), Hand(at, given, {}),
           leases' = Active(leases, at) \cup given,
           \A l, m \in leases' : l.id = m.id => l = m,
           \A l \in given : l.expiresAt > at
    PROVE  Base'
<1>1. present' = TRUE /\ last' = at
  BY Zenon DEF Touch
<1>2. clock' \in Instants /\ issued' \in SUBSET Leases /\ HoldersKept'
  BY HandFacts, Zenon
<1>3. /\ Active(leases, at) \in SUBSET Leases /\ IsFiniteSet(Active(leases, at))
      /\ \A l \in Active(leases, at) : l.expiresAt > at
  <2>1. \A l \in Active(leases, at) : l.expiresAt > at
    BY Zenon DEF Active
  <2>. QED
    BY <2>1, ActiveFacts, Zenon DEF Base
<1>4. leases' \in SUBSET Leases /\ IsFiniteSet(leases') /\ \A l \in leases' : l.expiresAt > at
  BY <1>3, FS_Union, Zenon
<1>. QED
  BY <1>1, <1>2, <1>4, Zenon DEF Base

\* An acquisition that adds nothing.
LEMMA PruneBase ==
    ASSUME Base, NEW at \in Instants, Touch(at), NEW given \in SUBSET Active(leases, at),
           Hand(at, given, {}), leases' = Pruned(at)
    PROVE  Base' /\ issued' = Active(leases', clock')
<1>1. /\ leases \in SUBSET Leases /\ IsFiniteSet(leases) /\ leases' = Active(leases, at)
      /\ \A l, m \in leases : l.id = m.id => l = m
  BY Zenon DEF Base, Pruned
<1>2. Active(leases, at) \in SUBSET leases /\ Active(leases, at) \in SUBSET Leases
      /\ IsFiniteSet(Active(leases, at))
  BY <1>1, ActiveFacts, Zenon
<1>3. given \in SUBSET Leases /\ IsFiniteSet(given) /\ leases' = Active(leases, at) \cup given
  BY <1>1, <1>2, FS_Subset, Zenon
<1>4. \A l \in given : l.expiresAt > at
  BY Zenon DEF Active
<1>5. \A l, m \in leases' : l.id = m.id => l = m
  BY <1>1, <1>2, Zenon
<1>6. Base'
  BY <1>3, <1>4, <1>5, AcquireBase, Zenon
<1>. QED
  BY <1>6, Zenon DEF Base, HoldersKept

\* The pool takes the same step.
LEMMA PoolAcquires ==
    ASSUME NEW r \in Revisions, NEW id \in Ids, NEW at \in Instants,
           NEW cost \in 1 .. Policy[r].maxCost, Pool!Acquire(r, id, cost, at)
    PROVE  [Pool!Next]_(Pool!vars)
BY Zenon DEF Pool!Next, Instants

\* A retry returns the lease as it is.
LEMMA RetryStep ==
    ASSUME Base, NEW r \in Revisions, NEW id \in Ids, NEW at \in Instants,
           NEW cost \in 1 .. Policy[r].maxCost, leases # {} => last <= at,
           Touch(at), Retry(r, id, cost, at)
    PROVE  Promised
<1>1. PICK l \in Mine(id, at) : /\ l.cost = cost
                                /\ leases' = Pruned(at)
                                /\ answer' = Pool!Retried(r, l, at)
                                /\ Hand(at, {l}, {})
  BY Zenon DEF Retry
<1>2. l \in Active(leases, at) /\ l.id = id /\ leases' = Active(leases, at)
  BY <1>1, Zenon DEF Mine, Pruned
<1>3. Base'
  <2>1. {l} \in SUBSET Active(leases, at)
    BY <1>2, Zenon
  <2>. QED
    BY <1>1, <2>1, PruneBase, Zenon
<1>4. RefusalJustified'
  <2>1. answer'.outcome # "limited"
    BY <1>1 DEF Pool!Retried
  <2>. QED
    BY <2>1, Zenon DEF RefusalJustified
<1>5. Pool!Acquire(r, id, cost, at)
  <2>1. Pool!Active(leases, at) = Active(leases, at)
    BY ActiveFacts, Zenon DEF Base
  <2>2. leases # {} => at >= last
    BY Integral DEF Base
  <2>3. last' = at
    BY Zenon DEF Touch
  <2>. QED
    BY <1>1, <1>2, <2>1, <2>2, <2>3, Zenon DEF Pool!Acquire
<1>. QED
  BY <1>3, <1>4, <1>5, PoolAcquires, Zenon DEF Promised

\* A lease of the same ID with another cost.
LEMMA CollideStep ==
    ASSUME Base, NEW r \in Revisions, NEW id \in Ids, NEW at \in Instants,
           NEW cost \in 1 .. Policy[r].maxCost, leases # {} => last <= at,
           Touch(at), Collide(id, cost, at)
    PROVE  Promised
<1>1. PICK l \in Mine(id, at) : l.cost # cost
  BY Zenon DEF Collide
<1>2. l \in Active(leases, at) /\ l.id = id /\ leases' = Active(leases, at)
  BY <1>1, Zenon DEF Mine, Pruned, Collide
<1>3. answer' = Pool!Conflict(at) /\ Hand(at, {}, {}) /\ leases' = Pruned(at)
  BY Zenon DEF Collide
<1>4. Base'
  <2>1. {} \in SUBSET Active(leases, at)
    BY Zenon
  <2>. QED
    BY <1>3, <2>1, PruneBase, Zenon
<1>5. RefusalJustified'
  <2>1. answer'.outcome # "limited"
    BY <1>3 DEF Pool!Conflict
  <2>. QED
    BY <2>1, Zenon DEF RefusalJustified
<1>6. Pool!Acquire(r, id, cost, at)
  <2>1. Pool!Active(leases, at) = Active(leases, at)
    BY ActiveFacts, Zenon DEF Base
  <2>2. leases # {} => at >= last
    BY Integral DEF Base
  <2>3. last' = at
    BY Zenon DEF Touch
  <2>. QED
    BY <1>1, <1>2, <1>3, <2>1, <2>2, <2>3, Zenon DEF Pool!Acquire
<1>. QED
  BY <1>4, <1>5, <1>6, PoolAcquires, Zenon DEF Promised

\* A refusal: at the latest clock, what is counted is what callers have in hand.
LEMMA RefuseStep ==
    ASSUME Base, NEW r \in Revisions, NEW id \in Ids, NEW at \in Instants,
           NEW cost \in 1 .. Policy[r].maxCost, leases # {} => last <= at,
           Touch(at), Refuse(r, id, cost, at)
    PROVE  Promised
<1> DEFINE active == Active(leases, at)
           reset  == Min({l.expiresAt : l \in active})
<1>1. /\ \A l \in active : l.id # id
      /\ leases' = Pruned(at) /\ leases' = active
      /\ answer' = Pool!Refused(r, cost, at, reset) /\ Hand(at, {}, {})
  BY Zenon DEF Refuse, Mine, Pruned, EarliestLease
<1>2. Total(active) + cost > Policy[r].limit
  BY Room, Zenon DEF Refuse
<1>3. Base' /\ issued' = Active(active, clock')
  <2>1. {} \in SUBSET Active(leases, at)
    BY Zenon
  <2>. QED
    BY <1>1, <2>1, PruneBase, Zenon
<1>4. RefusalJustified'
  <2>1. /\ answer'.at = at /\ answer'.cost = cost /\ answer'.revision = r /\ answer'.reset = reset
    BY <1>1 DEF Pool!Refused
  <2>2. at = clock' => issued' = active
    <3>1. at \in Int /\ leases \in SUBSET Leases
      BY Integral DEF Base
    <3>2. Active(active, at) = active
      BY <3>1, ActiveLater
    <3>. QED
      BY <1>3, <3>2, Zenon
  <2>. QED
    BY <1>2, <2>1, <2>2, Zenon DEF RefusalJustified
<1>5. Pool!Acquire(r, id, cost, at)
  <2>1. /\ Pool!Active(leases, at) = active /\ Pool!Total(active) = Total(active)
    BY ActiveFacts, TotalFacts, Zenon DEF Base
  <2>2. leases # {} => at >= last
    BY Integral DEF Base
  <2>3. last' = at
    BY Zenon DEF Touch
  <2>4. reset = Pool!Min({l.expiresAt : l \in active})
    BY Zenon DEF Pool!Min, Min
  <2> HIDE DEF active, reset
  <2>5. {l \in active : l.id = id} = {}
    BY <1>1, Zenon
  <2>. QED
    BY <1>1, <1>2, <2>1, <2>2, <2>3, <2>4, <2>5, Zenon DEF Pool!Acquire
<1>. QED
  BY <1>3, <1>4, <1>5, PoolAcquires, Zenon DEF Promised

\* A grant: the new lease is the only one of its ID, and there was room for it.
LEMMA GrantStep ==
    ASSUME Base, NEW r \in Revisions, NEW id \in Ids, NEW at \in Instants,
           NEW cost \in 1 .. Policy[r].maxCost, leases # {} => last <= at,
           Touch(at), Grant(r, id, cost, at)
    PROVE  Promised
<1> DEFINE active == Active(leases, at)
           new    == Pool!Lease(id, cost, at + Policy[r].lease)
<1>1. /\ \A l \in active : l.id # id
      /\ leases' = active \cup {new}
      /\ answer' = Pool!Granted(r, new, at) /\ Hand(at, {new}, {})
  BY Zenon DEF Grant, Mine, Pruned
<1>2. Total(active) + cost <= Policy[r].limit
  BY Room, Zenon DEF Grant
<1>3. new \in Leases /\ new.id = id /\ new.expiresAt > at
  BY NewLease
<1>4. Base'
  <2> HIDE DEF new
  <2>1. /\ {new} \in SUBSET Leases /\ IsFiniteSet({new}) /\ \A l \in {new} : l.expiresAt > at
    BY <1>3, FS_Singleton, Zenon
  <2>2. \A l, m \in active : l.id = m.id => l = m
    BY Zenon DEF Active, Base
  <2>3. \A l, m \in leases' : l.id = m.id => l = m
    BY <1>1, <1>3, <2>2, Zenon
  <2>. QED
    BY <1>1, <2>1, <2>3, AcquireBase, Zenon
<1>5. RefusalJustified'
  <2>1. answer'.outcome # "limited"
    BY <1>1 DEF Pool!Granted
  <2>. QED
    BY <2>1, Zenon DEF RefusalJustified
<1>6. Pool!Acquire(r, id, cost, at)
  <2>1. /\ Pool!Active(leases, at) = active /\ Pool!Total(active) = Total(active)
    BY ActiveFacts, TotalFacts, Zenon DEF Base
  <2>2. leases # {} => at >= last
    BY Integral DEF Base
  <2>3. last' = at
    BY Zenon DEF Touch
  <2> HIDE DEF active
  <2>4. {l \in active : l.id = id} = {}
    BY <1>1, Zenon
  <2>. QED
    BY <1>1, <1>2, <2>1, <2>2, <2>3, <2>4, Zenon DEF Pool!Acquire
<1>. QED
  BY <1>4, <1>5, <1>6, PoolAcquires, Zenon DEF Promised

\* An acquisition.
LEMMA AcquiredStep ==
    ASSUME Base, NEW r \in Revisions, NEW id \in Ids, NEW at \in Instants,
           NEW cost \in 1 .. Policy[r].maxCost, leases # {} => last <= at,
           Acquired(r, id, cost, at)
    PROVE  Promised
BY RetryStep, CollideStep, RefuseStep, GrantStep, Zenon DEF Acquired

\* An acquisition that is rolled back because its ID belongs to others.
LEMMA RollbackStep ==
    ASSUME Base, NEW r \in Revisions, NEW id \in Ids, NEW at \in Instants,
           NEW cost \in 1 .. Policy[r].maxCost, leases # {} => last <= at,
           \E l \in Active(leases, at) : l.id = id /\ l.cost # cost,
           answer' = Pool!Conflict(at), UNCHANGED <<present, last, leases, issued, clock>>
    PROVE  Promised
<1>1. Base'
  BY Zenon DEF Base, HoldersKept
<1>2. RefusalJustified'
  <2>1. answer'.outcome # "limited"
    BY DEF Pool!Conflict
  <2>. QED
    BY <2>1, Zenon DEF RefusalJustified
<1>3. Pool!Acquire(r, id, cost, at)
  <2>1. Pool!Active(leases, at) = Active(leases, at)
    BY ActiveFacts, Zenon DEF Base
  <2>2. leases # {} => at >= last
    BY Integral DEF Base
  <2>. QED
    BY <2>1, <2>2, Zenon DEF Pool!Acquire
<1>. QED
  BY <1>1, <1>2, <1>3, PoolAcquires, Zenon DEF Promised

\* Only the lease presented leaves, and it leaves the hands of its holder.
LEMMA ReleaseStep ==
    ASSUME Base, NEW l \in Leases, UNCHANGED last, leases' # {} => present',
           \/ /\ l \in leases /\ leases' = leases \ {l}
              /\ answer' = Pool!Released(l) /\ Hand(clock, {}, {l})
           \/ /\ l \notin leases
              /\ answer' = Pool!NotReleased(IF \E m \in leases : m.id = l.id THEN "not_owned"
                                            ELSE "not_found")
              /\ UNCHANGED <<leases, issued, clock>>
    PROVE  Promised
<1>1. Base'
  <2>1. CASE l \in leases /\ leases' = leases \ {l} /\ Hand(clock, {}, {l})
    <3>1. clock' = clock /\ issued' = Active((issued \cup {}) \ {l}, clock)
      BY <2>1, Integral, Zenon DEF Hand, Later, Base
    <3>2. HoldersKept' /\ issued' \in SUBSET Leases
      <4>1. issued = Active(leases, clock) /\ issued \in SUBSET Leases
        BY Zenon DEF Base, HoldersKept
      <4>. QED
        BY <2>1, <3>1, <4>1, Zenon DEF Active, HoldersKept
    <3>3. leases' \in SUBSET leases /\ IsFiniteSet(leases')
      BY <2>1, FS_Subset, Zenon DEF Base
    <3>. QED
      BY <3>1, <3>2, <3>3, Zenon DEF Base
  <2>2. CASE UNCHANGED <<leases, issued, clock>>
    BY <2>2, Zenon DEF Base, HoldersKept
  <2>. QED
    BY <2>1, <2>2, Zenon
<1>2. RefusalJustified'
  <2>1. answer'.outcome # "limited"
    BY DEF Pool!Released, Pool!NotReleased
  <2>. QED
    BY <2>1, Zenon DEF RefusalJustified
<1>3. Pool!Release(l)
  <2>1. leases' = leases \ {l}
    BY Zenon
  <2>. QED
    BY <2>1, Zenon DEF Pool!Release
<1>. QED
  BY <1>1, <1>2, <1>3, Zenon DEF Promised, Pool!Next, Leases

\* Housekeeping at `now': expired leases leave, and the entry only if none is left.
LEMMA SweepStep ==
    ASSUME Base, NEW now \in Instants, leases' = Active(leases, now), answer' = Pool!Swept(now),
           Hand(now, {}, {}), UNCHANGED last, leases' # {} => present'
    PROVE  Promised
<1>1. clock' \in Instants /\ issued' \in SUBSET Leases /\ HoldersKept'
  <2>1. leases' = Active(leases, now) \cup {} /\ {} \in SUBSET Leases
    BY Zenon
  <2>. QED
    BY <2>1, HandFacts, Zenon
<1>2. leases' \in SUBSET leases /\ leases' \in SUBSET Leases /\ IsFiniteSet(leases')
      /\ Pool!Active(leases, now) = leases'
  BY ActiveFacts, Zenon DEF Base
<1>3. Base'
  BY <1>1, <1>2, Zenon DEF Base
<1>4. RefusalJustified'
  <2>1. answer'.outcome # "limited"
    BY DEF Pool!Swept
  <2>. QED
    BY <2>1, Zenon DEF RefusalJustified
<1>5. Pool!Sweep(now)
  BY <1>2, Zenon DEF Pool!Sweep
<1>. QED
  BY <1>3, <1>4, <1>5, Zenon DEF Promised, Pool!Next, Instants

\* Nothing that callers see changes.
LEMMA RestStep ==
    ASSUME Base, RefusalJustified, UNCHANGED <<present, last, leases, answer, issued, clock>>
    PROVE  Promised
<1>1. Base' /\ RefusalJustified'
  BY Zenon DEF Base, HoldersKept, RefusalJustified
<1>2. UNCHANGED Pool!vars
  BY Zenon DEF Pool!vars
<1>. QED
  BY <1>1, <1>2, Zenon DEF Promised

\* A key nobody has used.
LEMMA NothingHeldInv == NothingHeld => Base /\ RefusalJustified /\ Pool!Init
<1> SUFFICES ASSUME NothingHeld PROVE Base /\ RefusalJustified /\ Pool!Init
  OBVIOUS
<1>1. 0 \in Instants
  BY Integral, TimeAssumption
<1>2. Base
  BY <1>1, FS_EmptySet, Zenon DEF NothingHeld, Base, HoldersKept, Active
<1>3. RefusalJustified /\ Pool!Init
  BY DEF NothingHeld, RefusalJustified, Pool!Init, Pool!NoAnswer
<1>. QED
  BY <1>2, <1>3

------------------------------------------------------------------------------
(* In memory. *)

MemoryInv == Base /\ RefusalJustified /\ present \in BOOLEAN

\* The clock an acquisition uses is not behind the entry while it holds leases.
LEMMA EffectiveFacts ==
    ASSUME Base, NEW now \in Instants, NEW at, at = Effective(now)
    PROVE  at \in Instants /\ (leases # {} => last <= at)
<1>1. now \in Int /\ last \in Int /\ last \in Instants /\ (leases # {} => present)
  BY Integral, Zenon DEF Base
<1>. QED
  BY <1>1 DEF Effective, Later

\* acquireLocked.
LEMMA MemoryAcquires ==
    ASSUME MemoryInv, NEW r \in Revisions, NEW id \in Ids, NEW now \in Instants,
           NEW cost \in 1 .. Policy[r].maxCost,
           AcquireAgain(r, id, cost, now) \/ AcquireNew(r, id, cost, now)
    PROVE  Promised /\ present' \in BOOLEAN
<1> DEFINE at == Effective(now)
<1>1. at \in Instants /\ (leases # {} => last <= at) /\ Base
  BY EffectiveFacts, Zenon DEF MemoryInv
<1>2. Touch(at)
  BY Zenon DEF AcquireAgain, AcquireNew
<1>3. AcquireAgain(r, id, cost, now) => Retry(r, id, cost, at) \/ Collide(id, cost, at)
  BY Zenon DEF AcquireAgain, Retry, Collide
<1>4. AcquireNew(r, id, cost, now) => Refuse(r, id, cost, at) \/ Grant(r, id, cost, at)
  BY Zenon DEF AcquireNew, Refuse, Grant
<1>5. Acquired(r, id, cost, at)
  BY <1>2, <1>3, <1>4, Zenon DEF Acquired
<1> HIDE DEF at
<1>. QED
  BY <1>1, <1>2, <1>5, AcquiredStep, Zenon DEF Touch

\* Every step of the memory entry.
LEMMA MemoryNext ==
    ASSUME MemoryInv, Next
    PROVE  Promised /\ present' \in BOOLEAN
<1>0. Base /\ present \in BOOLEAN
  BY Zenon DEF MemoryInv
<1>1. ASSUME NEW l \in Leases, Release(l) PROVE Promised /\ present' \in BOOLEAN
  <2>1. /\ UNCHANGED <<present, last>>
        /\ \/ /\ l \in leases /\ leases' = leases \ {l}
              /\ answer' = Pool!Released(l) /\ Hand(clock, {}, {l})
           \/ /\ l \notin leases
              /\ answer' = Pool!NotReleased(IF \E m \in leases : m.id = l.id THEN "not_owned"
                                            ELSE "not_found")
              /\ UNCHANGED <<leases, issued, clock>>
    BY <1>1, Zenon DEF Release
  <2>2. leases' # {} => leases # {}
    BY <2>1, Zenon
  <2>3. leases' # {} => present'
    BY <1>0, <2>1, <2>2, Zenon DEF Base
  <2>. QED
    BY <1>0, <2>1, <2>3, ReleaseStep, Zenon
<1>2. ASSUME NEW now \in Instants, NEW idleFor \in IdleTimes, Sweep(now, idleFor)
      PROVE  Promised /\ present' \in BOOLEAN
  <2>1. /\ leases' = Active(leases, now) /\ Hand(now, {}, {}) /\ UNCHANGED last
        /\ answer' = Pool!Swept(now)
        /\ present' = (present /\ ~(leases' = {} /\ last + idleFor <= now))
    BY <1>2, Zenon DEF Sweep
  <2>2. present' \in BOOLEAN
    BY <2>1, Zenon
  <2>3. leases' # {} => leases # {}
    BY <2>1, Zenon DEF Active
  <2>4. leases' # {} => present'
    BY <1>0, <2>1, <2>3, Zenon DEF Base
  <2>. QED
    BY <1>0, <2>1, <2>2, <2>4, SweepStep, Zenon
<1>3. ASSUME NEW now \in Instants, Evict(now) PROVE Promised /\ present' \in BOOLEAN
  <2>1. /\ leases' = Active(leases, now) /\ leases' = {} /\ Hand(now, {}, {}) /\ UNCHANGED last
        /\ answer' = Pool!Swept(now) /\ present' = FALSE
    BY <1>3, Zenon DEF Evict
  <2>. QED
    BY <1>0, <2>1, SweepStep, Zenon
<1>. QED
  BY <1>1, <1>2, <1>3, MemoryAcquires, Zenon DEF Next

\* An entry nobody has used.
LEMMA MemoryInit == Init => MemoryInv /\ Pool!Init
BY NothingHeldInv, Zenon DEF Init, NothingHeld, MemoryInv

\* The invariant of the memory entry is inductive, and its steps are the pool's.
LEMMA MemoryStep == MemoryInv /\ [Next]_vars => MemoryInv' /\ [Pool!Next]_(Pool!vars)
<1> SUFFICES ASSUME MemoryInv, [Next]_vars PROVE MemoryInv' /\ [Pool!Next]_(Pool!vars)
  OBVIOUS
<1>1. CASE Next
  BY <1>1, MemoryNext, Zenon DEF MemoryInv, Promised
<1>2. CASE UNCHANGED vars
  BY <1>2, RestStep, Zenon DEF MemoryInv, Promised, vars
<1>. QED
  BY <1>1, <1>2

\* The entry keeps its shape, and one lease for each ID.
THEOREM TypeCorrect == Spec => []TypeOK
<1>1. MemoryInv => TypeOK
  BY Zenon DEF MemoryInv, Base, TypeOK
<1>. QED
  BY <1>1, MemoryInit, MemoryStep, PTL DEF Spec

\* No lease is lost or kept too long by any sequence of calls, retries, sweeps
\* and evictions.
THEOREM NobodyLosesALease == Spec => []HoldersKept
<1>1. MemoryInv => HoldersKept
  BY Zenon DEF MemoryInv, Base
<1>. QED
  BY <1>1, MemoryInit, MemoryStep, PTL DEF Spec

\* The memory entry refuses only what does not fit beside the leases in the hands
\* of callers.
THEOREM MemoryRefusesJustly == Spec => []RefusalJustified
<1>1. MemoryInv => RefusalJustified
  BY Zenon DEF MemoryInv
<1>. QED
  BY <1>1, MemoryInit, MemoryStep, PTL DEF Spec

\* The memory entry implements the pool.
THEOREM MemoryImplementsPool == Spec => PoolSpec
BY MemoryInit, MemoryStep, PTL DEF Spec, PoolSpec, Pool!Spec

------------------------------------------------------------------------------
(* On a server. *)

Patient == \A q, r \in Revisions : Policy[q].lease + 2 * Skew <= StateTTL(r)

\* The hash or row outlives its leases, which were granted no later than `last',
\* and `last' is at most a fast clock.
Row ==
    /\ server \in 0 .. MaxTime - Skew /\ until \in Int
    /\ last <= server + Skew
    /\ \A l \in leases : /\ l.expiresAt <= until
                         /\ \E q \in Revisions : l.expiresAt <= last + Policy[q].lease

RemoteInv == Base /\ RefusalJustified /\ Row

\* A reading is an instant, and at most the skew away from the time.
LEMMA ReadingFacts ==
    ASSUME Base, Row, NEW now \in Readings
    PROVE  /\ now \in Instants /\ now \in Int /\ server \in Int /\ Skew \in Nat
           /\ last \in Instants /\ last \in Int /\ last <= server + Skew
           /\ now <= server + Skew /\ server <= now + Skew
<1>1. server \in Int /\ Skew \in Nat /\ MaxTime \in Nat /\ server >= 0 /\ server <= MaxTime - Skew
  BY TimeAssumption, SkewAssumption DEF Row
<1>2. now \in Int /\ now >= 0 /\ now >= server - Skew /\ now <= server + Skew
  BY <1>1 DEF Readings
<1>3. last \in Instants /\ last \in Int /\ last <= server + Skew
  BY Integral, Zenon DEF Base, Row
<1>4. now <= MaxTime /\ server <= now + Skew
  BY <1>1, <1>2
<1>5. now \in Instants
  BY <1>1, <1>2, <1>4, Integral
<1>. QED
  BY <1>1, <1>2, <1>3, <1>4, <1>5, Zenon

\* An acquisition leaves active leases and at most the one it grants.
LEMMA AcquiredShape ==
    ASSUME Base, NEW r \in Revisions, NEW id \in Ids, NEW at \in Instants,
           NEW cost \in 1 .. Policy[r].maxCost, Acquired(r, id, cost, at)
    PROVE  /\ last' = at
           /\ leases' \in SUBSET Leases
           /\ \A l \in leases' : \/ l \in Active(leases, at)
                                 \/ l.expiresAt = at + Policy[r].lease
           /\ ~Grant(r, id, cost, at) => leases' = Active(leases, at)
<1> DEFINE new == Pool!Lease(id, cost, at + Policy[r].lease)
<1>1. new \in Leases /\ new.expiresAt = at + Policy[r].lease
  BY NewLease
<1>2. last' = at
  BY Zenon DEF Acquired, Touch
<1>3. \/ leases' = Active(leases, at)
      \/ Grant(r, id, cost, at) /\ leases' = Active(leases, at) \cup {new}
  BY Zenon DEF Acquired, Retry, Collide, Refuse, Grant, Pruned
<1> HIDE DEF new
<1>4. Active(leases, at) \in SUBSET Leases
  BY ActiveFacts, Zenon DEF Base
<1>. QED
  BY <1>1, <1>2, <1>3, <1>4, Zenon

\* The row still outlives its leases if it is kept for every lease that may be
\* granted now, or if nothing is added to it.
LEMMA RowAcquires ==
    ASSUME Base, Row, NEW at \in Instants, at <= server + Skew,
           Active(leases, at) # {} => last <= at,
           leases' \in SUBSET Leases, last' = at, server' = server,
           \A l \in leases' : \/ l \in Active(leases, at)
                              \/ \E q \in Revisions : l.expiresAt = at + Policy[q].lease,
           until' \in Int,
           \/ \A q \in Revisions : at + Policy[q].lease <= until'
           \/ until' = until /\ leases' = Active(leases, at)
    PROVE  Row'
<1>1. at \in Int /\ last \in Int /\ leases \in SUBSET Leases /\ until \in Int
  BY Integral, Zenon DEF Base, Row
<1>2. ASSUME NEW l \in Active(leases, at)
      PROVE  \E q \in Revisions : l.expiresAt <= at + Policy[q].lease
  <2>1. l \in leases /\ last <= at
    BY <1>2, Zenon DEF Active
  <2>2. PICK q \in Revisions : l.expiresAt <= last + Policy[q].lease
    BY <2>1, Zenon DEF Row
  <2>3. l.expiresAt \in Int /\ Policy[q].lease \in Int
    BY <1>1, <2>1, Integral
  <2>. QED
    BY <1>1, <2>1, <2>2, <2>3
<1>3. ASSUME NEW l \in leases' PROVE \E q \in Revisions : l.expiresAt <= at + Policy[q].lease
  <2>1. CASE l \in Active(leases, at)
    BY <1>2, <2>1, Zenon
  <2>2. ASSUME NEW q \in Revisions, l.expiresAt = at + Policy[q].lease
        PROVE  l.expiresAt <= at + Policy[q].lease
    BY <1>1, <2>2, Integral
  <2>. QED
    BY <1>3, <2>1, <2>2, Zenon
<1>4. ASSUME NEW l \in leases' PROVE l.expiresAt <= until'
  <2>1. l.expiresAt \in Int
    BY <1>4, Integral, Zenon
  <2>2. CASE \A q \in Revisions : at + Policy[q].lease <= until'
    <3>1. PICK q \in Revisions : l.expiresAt <= at + Policy[q].lease
      BY <1>3, <1>4, Zenon
    <3>2. Policy[q].lease \in Int /\ at + Policy[q].lease <= until'
      BY <2>2, Integral
    <3>. QED
      BY <1>1, <2>1, <3>1, <3>2
  <2>3. CASE until' = until /\ leases' = Active(leases, at)
    BY <1>4, <2>3, Zenon DEF Active, Row
  <2>. QED
    BY <2>2, <2>3, Zenon
<1>. QED
  BY <1>3, <1>4, Zenon DEF Row

\* A retention counted from within twice the skew of `at' covers every lease.
LEMMA RetentionFacts ==
    ASSUME Patient, NEW r \in Revisions, NEW at \in Int, NEW from \in Int,
           at <= from + 2 * Skew
    PROVE  /\ from + StateTTL(r) \in Int
           /\ \A q \in Revisions : at + Policy[q].lease <= from + StateTTL(r)
<1>1. StateTTL(r) \in Int /\ Skew \in Nat
  BY Integral, SkewAssumption DEF StateTTL, Later
<1>2. ASSUME NEW q \in Revisions PROVE at + Policy[q].lease <= from + StateTTL(r)
  <2>1. Policy[q].lease \in Int /\ Policy[q].lease + 2 * Skew <= StateTTL(r)
    BY Integral DEF Patient
  <2>. QED
    BY <1>1, <2>1
<1>. QED
  BY <1>1, <1>2

\* A hash or row whose time has come has no lease that is still active.
LEMMA Expired ==
    ASSUME Base, Row, NEW now \in Int, until <= now
    PROVE  Active(leases, now) = {}
<1>1. \A l \in leases : l.expiresAt \in Int /\ until \in Int /\ l.expiresAt <= until
  BY Integral, Zenon DEF Base, Row
<1>. QED
  BY <1>1 DEF Active

\* The row is removed.
LEMMA RowRemoved ==
    ASSUME Base, Row, NEW s \in 0 .. MaxTime - Skew, server' = s, server <= s,
           UNCHANGED last, leases' = {}, until' = 0
    PROVE  Row'
<1>1. last <= s + Skew
  BY Integral, TimeAssumption, SkewAssumption DEF Base, Row
<1>. QED
  BY <1>1 DEF Row

\* Time passes, and the row stays as it is.
LEMMA RowPasses ==
    ASSUME Base, Row, server < MaxTime - Skew, server' = server + 1, UNCHANGED <<last, leases, until>>
    PROVE  Row'
<1>1. server' \in 0 .. MaxTime - Skew /\ last <= server' + Skew
  BY Integral, TimeAssumption, SkewAssumption DEF Base, Row
<1>. QED
  BY <1>1, Zenon DEF Row

------------------------------------------------------------------------------
(* PostgreSQL. *)

\* The effective instant of a call, and what the call finds.  A row that has
\* expired for a call has no lease that is active for it.
LEMMA RowClockFacts ==
    ASSUME Base, Row, NEW now \in Readings, NEW at, at = RowClock(now)
    PROVE  /\ at \in Instants /\ at \in Int /\ now \in Int
           /\ at <= server + Skew /\ at <= now + 2 * Skew
           /\ RowLeases(now) = Active(leases, at)
           /\ leases # {} => last <= at
<1>1. /\ now \in Instants /\ now \in Int /\ server \in Int /\ Skew \in Nat
      /\ last \in Instants /\ last \in Int /\ last <= server + Skew
      /\ now <= server + Skew /\ server <= now + Skew
  BY ReadingFacts, Zenon
<1>2. /\ at \in Instants /\ at \in Int /\ now <= at /\ at <= server + Skew /\ at <= now + 2 * Skew
      /\ Loaded(now) => last <= at
  BY <1>1 DEF RowClock, Later
<1>3. CASE Loaded(now)
  BY <1>1, <1>2, <1>3, Zenon DEF RowLeases
<1>4. CASE ~Loaded(now)
  <2>1. at = now /\ RowLeases(now) = {}
    BY <1>4, Zenon DEF RowClock, RowLeases
  <2>2. leases # {} => until <= now
    <3>1. until \in Int /\ (leases # {} => present)
      BY Zenon DEF Base, Row
    <3>. QED
      BY <1>1, <1>4, <3>1 DEF Loaded
  <2>3. Active(leases, now) = {}
    <3>1. CASE leases = {}
      BY <3>1, Zenon DEF Active
    <3>2. CASE leases # {}
      BY <1>1, <2>2, <3>2, Expired, Zenon
    <3>. QED
      BY <3>1, <3>2
  <2>4. leases # {} => last <= at
    <3> SUFFICES ASSUME leases # {} PROVE last <= now
      BY <2>1, Zenon
    <3>1. PICK l \in leases : TRUE
      BY Zenon
    <3>2. l.expiresAt > last /\ l.expiresAt <= until /\ until \in Int /\ l.expiresAt \in Int
      BY Integral, Zenon DEF Base, Row
    <3>. QED
      BY <1>1, <2>2, <3>2
  <2>. QED
    BY <1>1, <1>2, <2>1, <2>3, <2>4, Zenon
<1>. QED
  BY <1>3, <1>4, Zenon

\* mutateLeaseMode is an acquisition at the effective instant.
LEMMA PostgresAcquired ==
    ASSUME Base, NEW r \in Revisions, NEW id \in Ids, NEW cost \in 1 .. Policy[r].maxCost, NEW now,
           NEW at, at = RowClock(now), RowLeases(now) = Active(leases, at),
           Mutate(r, id, cost, now)
    PROVE  Acquired(r, id, cost, at)
<1>1. RowLeases(now) = Pruned(at)
  BY Zenon DEF Pruned
<1>2. RowMine(id, now) = Mine(id, at)
  BY <1>1, Zenon DEF RowMine, Mine
<1>3. RowRemaining(r, now) = Remaining(r, at)
  BY <1>1, Zenon DEF RowRemaining, Remaining
<1>4. ASSUME NEW given, Stored(now, given)
      PROVE  Touch(at) /\ leases' = Pruned(at) \cup given /\ Hand(at, given, {})
  BY <1>1, <1>4, Zenon DEF Stored, Touch
<1>5. ASSUME NEW l \in Mine(id, at), l.cost = cost, answer' = Pool!Retried(r, l, at),
             Stored(now, {l})
      PROVE  Acquired(r, id, cost, at)
  <2>1. Pruned(at) \cup {l} = Pruned(at)
    BY <1>5, Zenon DEF Mine
  <2>. QED
    BY <1>4, <1>5, <2>1, Zenon DEF Acquired, Retry
<1>6. ASSUME Mine(id, at) = {}, cost > Remaining(r, at), Stored(now, {}),
             answer' = Pool!Refused(r, cost, at, EarliestLease(Pruned(at)))
      PROVE  Acquired(r, id, cost, at)
  <2>1. Pruned(at) \cup {} = Pruned(at)
    BY Zenon
  <2>. QED
    BY <1>4, <1>6, <2>1, Zenon DEF Acquired, Refuse
<1>7. ASSUME NEW new, new = Pool!Lease(id, cost, at + Policy[r].lease),
             Mine(id, at) = {}, cost <= Remaining(r, at), answer' = Pool!Granted(r, new, at),
             Stored(now, {new})
      PROVE  Acquired(r, id, cost, at)
  BY <1>4, <1>7, Zenon DEF Acquired, Grant
<1>8. EarliestLease(Pruned(at)) = Min({l.expiresAt : l \in Pruned(at)})
  BY Zenon DEF EarliestLease
<1>. QED
  BY <1>1, <1>2, <1>3, <1>5, <1>6, <1>7, <1>8, Zenon DEF Mutate

\* Acquire and acquireStrict.
LEMMA PostgresAcquires ==
    ASSUME Patient, RemoteInv, NEW r \in Revisions, NEW id \in Ids, NEW now \in Readings,
           NEW cost \in 1 .. Policy[r].maxCost,
           Acquire(r, id, cost, now) \/ AcquireStrict(r, id, cost, now)
    PROVE  Promised /\ Row'
<1> DEFINE at == RowClock(now)
<1>1. /\ at \in Instants /\ at \in Int /\ now \in Int
      /\ at <= server + Skew /\ at <= now + 2 * Skew
      /\ RowLeases(now) = Active(leases, at)
      /\ leases # {} => last <= at
      /\ Base /\ Row
  BY RowClockFacts, Zenon DEF RemoteInv
<1>2. /\ Mutate(r, id, cost, now) /\ server' = server
      /\ until' = now + StateTTL(r) \/ until' = at + StateTTL(r)
  BY Zenon DEF Acquire, AcquireStrict
<1>3. Acquired(r, id, cost, at)
  BY <1>1, <1>2, PostgresAcquired, Zenon
<1> HIDE DEF at
<1>4. Promised
  BY <1>1, <1>3, AcquiredStep, Zenon
<1>5. /\ last' = at /\ leases' \in SUBSET Leases
      /\ \A l \in leases' : l \in Active(leases, at) \/ l.expiresAt = at + Policy[r].lease
  BY <1>1, <1>3, AcquiredShape, Zenon
<1>6. until' \in Int /\ \A q \in Revisions : at + Policy[q].lease <= until'
  <2>1. at <= at + 2 * Skew
    BY <1>1, SkewAssumption
  <2>. QED
    BY <1>1, <1>2, <2>1, RetentionFacts, Zenon
<1>7. Active(leases, at) # {} => leases # {}
  BY Zenon DEF Active
<1>8. Row'
  BY <1>1, <1>2, <1>5, <1>6, <1>7, RowAcquires, Zenon
<1>. QED
  BY <1>4, <1>8

\* The transaction of a conflict is rolled back.
LEMMA PostgresConflicts ==
    ASSUME RemoteInv, NEW r \in Revisions, NEW id \in Ids, NEW now \in Readings,
           NEW cost \in 1 .. Policy[r].maxCost, AcquireConflict(id, cost, now)
    PROVE  Promised /\ Row'
<1> DEFINE at == RowClock(now)
<1>1. /\ at \in Instants /\ RowLeases(now) = Active(leases, at)
      /\ leases # {} => last <= at
      /\ Base /\ Row
  BY RowClockFacts, Zenon DEF RemoteInv
<1>2. \E l \in Active(leases, at) : l.id = id /\ l.cost # cost
  BY <1>1, Zenon DEF AcquireConflict, RowMine
<1>3. answer' = Pool!Conflict(at)
      /\ UNCHANGED <<server, present, last, leases, until, issued, clock>>
  BY Zenon DEF AcquireConflict
<1> HIDE DEF at
<1>4. Promised
  BY <1>1, <1>2, <1>3, RollbackStep, Zenon
<1>5. Row'
  BY <1>1, <1>3, Zenon DEF Row
<1>. QED
  BY <1>4, <1>5

\* A release keeps the row for the latest of the leases that are left.
LEMMA PostgresReleases ==
    ASSUME RemoteInv, NEW l \in Leases, ReleaseRow(l)
    PROVE  Promised /\ Row'
<1>1. UNCHANGED <<server, last>> /\ Base /\ Row
  BY Zenon DEF ReleaseRow, RemoteInv
<1>2. \/ /\ l \in leases /\ leases' = leases \ {l} /\ present' = (leases' # {})
         /\ until' = IF leases' = {} THEN 0 ELSE Max({m.expiresAt : m \in leases'})
         /\ answer' = Pool!Released(l) /\ Hand(clock, {}, {l})
      \/ /\ l \notin leases
         /\ answer' = Pool!NotReleased(IF \E m \in leases : m.id = l.id THEN "not_owned"
                                       ELSE "not_found")
         /\ UNCHANGED <<present, leases, until, issued, clock>>
  BY Zenon DEF ReleaseRow
<1>3. leases' # {} => present'
  BY <1>1, <1>2, Zenon DEF Base
<1>4. Promised
  BY <1>1, <1>2, <1>3, ReleaseStep, Zenon
<1>5. Row'
  <2>1. CASE UNCHANGED <<leases, until>>
    BY <1>1, <2>1, Zenon DEF Row
  <2>2. CASE leases' = leases \ {l} /\ leases' = {} /\ until' = 0
    BY <1>1, <2>2 DEF Row
  <2>3. CASE /\ leases' = leases \ {l} /\ leases' # {}
             /\ until' = Max({m.expiresAt : m \in leases'})
    <3> DEFINE T == {m.expiresAt : m \in leases'}
    <3>1. \A m \in leases' : m.expiresAt \in Int /\ m.expiresAt <= until /\ until \in Int
      BY <1>1, <2>3, Integral, Zenon DEF Base, Row
    <3>2. T \in SUBSET Int /\ T # {} /\ \A x \in T : x <= until
      BY <2>3, <3>1, Zenon
    <3>3. until' = Max(T) /\ until \in Int
      BY <1>1, <2>3, Zenon DEF Row
    <3>4. \A m \in leases' : m.expiresAt \in T
      BY Zenon
    <3> HIDE DEF T
    <3>5. \E m \in T : \A y \in T : y <= m
      BY <3>2, <3>3, Greatest, Zenon
    <3>6. \E m \in T : \A y \in T : m >= y
      BY <3>2, <3>5, Zenon
    <3>7. until' \in T /\ \A y \in T : until' >= y
      BY <3>3, <3>6, Zenon DEF Max
    <3>8. until' \in Int /\ \A m \in leases' : m.expiresAt <= until'
      BY <3>1, <3>2, <3>4, <3>7, Zenon
    <3>9. \A m \in leases' : m \in leases
      BY <2>3, Zenon
    <3>. QED
      BY <1>1, <3>8, <3>9, Zenon DEF Row
  <2>. QED
    BY <1>2, <2>1, <2>2, <2>3, Zenon
<1>. QED
  BY <1>4, <1>5

\* Every step of the PostgreSQL row.
LEMMA PostgresKeeps ==
    ASSUME Patient, RemoteInv, PostgresNext
    PROVE  Promised /\ Row'
<1>0. Base /\ Row /\ RefusalJustified
  BY Zenon DEF RemoteInv
<1>1. ASSUME NEW now \in Readings, Cleanup(now) PROVE Promised /\ Row'
  <2>1. now \in Instants /\ now \in Int
    BY <1>0, ReadingFacts, Zenon
  <2>2. /\ until <= now /\ present' = FALSE /\ leases' = {} /\ until' = 0
        /\ answer' = Pool!Swept(now) /\ Hand(now, {}, {}) /\ UNCHANGED <<server, last>>
    BY <1>1, Zenon DEF Cleanup
  <2>3. leases' = Active(leases, now)
    BY <1>0, <2>1, <2>2, Expired, Zenon
  <2>4. Promised
    BY <1>0, <2>1, <2>2, <2>3, SweepStep, Zenon
  <2>5. server \in 0 .. MaxTime - Skew /\ server <= server
    BY <1>0 DEF Row
  <2>. QED
    BY <1>0, <2>2, <2>4, <2>5, RowRemoved, Zenon
<1>2. ASSUME RowTick PROVE Promised /\ Row'
  BY <1>0, <1>2, RestStep, RowPasses, Zenon DEF RowTick
<1>3. ASSUME NEW r \in Revisions, NEW id \in Ids, NEW now \in Readings,
             NEW cost \in 1 .. Policy[r].maxCost,
             \/ Acquire(r, id, cost, now) \/ AcquireStrict(r, id, cost, now)
             \/ AcquireConflict(id, cost, now)
      PROVE  Promised /\ Row'
  BY <1>3, PostgresAcquires, PostgresConflicts, Zenon
<1>. QED
  BY <1>1, <1>2, <1>3, PostgresReleases, Zenon DEF PostgresNext

------------------------------------------------------------------------------
(* Valkey. *)

\* The acquisition script.
LEMMA ValkeyAcquired ==
    ASSUME Base, NEW r \in Revisions, NEW id \in Ids, NEW cost \in 1 .. Policy[r].maxCost, NEW now,
           NEW at, at = HashClock(now),
           AcquireField(r, id, cost, now) \/ AddField(r, id, cost, now)
    PROVE  /\ Acquired(r, id, cost, at) /\ server' = server
           /\ \/ until' = server + HashTTL(r)
              \/ until' = until /\ leases' = Active(leases, at)
<1>1. HashLeases(at) = Pruned(at)
  BY Zenon DEF HashLeases, Pruned
<1>2. HashMine(id, at) = Mine(id, at)
  BY <1>1, Zenon DEF HashMine, Mine
<1>3. HashRemaining(r, at) = Remaining(r, at)
  BY <1>1, Zenon DEF HashRemaining, Remaining
<1>4. EarliestLease(Pruned(at)) = Min({l.expiresAt : l \in Pruned(at)})
  BY Zenon DEF EarliestLease
<1>5. Touch(at) /\ server' = server
  BY Zenon DEF AcquireField, AddField, Touch
<1>6. ASSUME AcquireField(r, id, cost, now)
      PROVE  \/ Retry(r, id, cost, at) /\ until' = server + HashTTL(r)
             \/ Collide(id, cost, at) /\ until' = until
  BY <1>1, <1>2, <1>6, Zenon DEF AcquireField, Retry, Collide
<1>7. ASSUME AddField(r, id, cost, now)
      PROVE  \/ Refuse(r, id, cost, at) /\ until' = until
             \/ Grant(r, id, cost, at) /\ until' = server + HashTTL(r)
  BY <1>1, <1>2, <1>3, <1>4, <1>7, Zenon
     DEF AddField, Refuse, Grant
<1>8. Collide(id, cost, at) \/ Refuse(r, id, cost, at) => leases' = Active(leases, at)
  BY Zenon DEF Collide, Refuse, Pruned
<1>. QED
  BY <1>5, <1>6, <1>7, <1>8, Zenon DEF Acquired

\* Acquire keeps the hash long enough.
LEMMA ValkeyAcquires ==
    ASSUME Patient, RemoteInv, NEW r \in Revisions, NEW id \in Ids, NEW now \in Readings,
           NEW cost \in 1 .. Policy[r].maxCost,
           AcquireField(r, id, cost, now) \/ AddField(r, id, cost, now)
    PROVE  Promised /\ Row'
<1> DEFINE at == HashClock(now)
<1>0. Base /\ Row
  BY Zenon DEF RemoteInv
<1>1. /\ now \in Instants /\ now \in Int /\ server \in Int /\ Skew \in Nat
      /\ last \in Instants /\ last \in Int /\ last <= server + Skew
      /\ now <= server + Skew
  BY <1>0, ReadingFacts, Zenon
<1>2. at \in Instants /\ at \in Int /\ at <= server + Skew /\ (present => last <= at)
  BY <1>1 DEF HashClock, Later
<1>3. /\ Acquired(r, id, cost, at) /\ server' = server
      /\ \/ until' = server + HashTTL(r)
         \/ until' = until /\ leases' = Active(leases, at)
  BY <1>0, ValkeyAcquired, Zenon
<1>4. HashTTL(r) = StateTTL(r)
  BY Zenon DEF HashTTL, Later, StateTTL, Later
<1> HIDE DEF at
<1>5. leases # {} => last <= at
  BY <1>0, <1>2, Zenon DEF Base
<1>6. Promised
  BY <1>0, <1>2, <1>3, <1>5, AcquiredStep, Zenon
<1>7. /\ last' = at /\ leases' \in SUBSET Leases
      /\ \A l \in leases' : l \in Active(leases, at) \/ l.expiresAt = at + Policy[r].lease
  BY <1>0, <1>2, <1>3, AcquiredShape, Zenon
<1>8. /\ until' \in Int
      /\ \/ \A q \in Revisions : at + Policy[q].lease <= until'
         \/ until' = until /\ leases' = Active(leases, at)
  <2>1. at <= server + 2 * Skew
    BY <1>1, <1>2
  <2>2. until \in Int
    BY <1>0, Zenon DEF Row
  <2>. QED
    BY <1>1, <1>2, <1>3, <1>4, <2>1, <2>2, RetentionFacts, Zenon
<1>9. Active(leases, at) # {} => leases # {}
  BY Zenon DEF Active
<1>10. Row'
  BY <1>0, <1>2, <1>3, <1>5, <1>7, <1>8, <1>9, RowAcquires, Zenon
<1>. QED
  BY <1>6, <1>10

\* The release script.
LEMMA ValkeyReleases ==
    ASSUME RemoteInv, NEW l \in Leases, ReleaseHash(l)
    PROVE  Promised /\ Row'
<1>1. UNCHANGED <<server, last>> /\ Base /\ Row
  BY Zenon DEF ReleaseHash, RemoteInv
<1>2. \/ /\ l \in leases /\ leases' = leases \ {l} /\ present' = (leases' # {})
         /\ until' = IF leases' = {} THEN 0 ELSE until
         /\ answer' = Pool!Released(l) /\ Hand(clock, {}, {l})
      \/ /\ l \notin leases
         /\ answer' = Pool!NotReleased(IF \E m \in leases : m.id = l.id THEN "not_owned"
                                       ELSE "not_found")
         /\ UNCHANGED <<present, leases, until, issued, clock>>
  BY Zenon DEF ReleaseHash
<1>3. leases' # {} => present'
  BY <1>1, <1>2, Zenon DEF Base
<1>4. Promised
  BY <1>1, <1>2, <1>3, ReleaseStep, Zenon
<1>5. Row'
  <2>1. CASE leases' \in SUBSET leases /\ UNCHANGED until
    BY <1>1, <2>1, Zenon DEF Row
  <2>2. CASE leases' = {} /\ until' = 0
    BY <1>1, <2>2 DEF Row
  <2>. QED
    BY <1>2, <2>1, <2>2, Zenon
<1>. QED
  BY <1>4, <1>5

\* Every step of the Valkey hash.
LEMMA ValkeyKeeps ==
    ASSUME Patient, RemoteInv, ValkeyNext
    PROVE  Promised /\ Row'
<1>0. Base /\ Row /\ RefusalJustified
  BY Zenon DEF RemoteInv
<1>1. ASSUME HashTick PROVE Promised /\ Row'
  <2>1. server < MaxTime - Skew /\ server' = server + 1 /\ UNCHANGED last
    BY <1>1, Zenon DEF HashTick
  <2>2. CASE UNCHANGED <<present, leases, until, answer, issued, clock>>
    BY <1>0, <2>1, <2>2, RestStep, RowPasses, Zenon
  <2>3. CASE /\ server' >= until /\ present' = FALSE /\ leases' = {} /\ until' = 0
             /\ answer' = Pool!Swept(server') /\ Hand(server', {}, {})
    <3>1. PICK s : s = server'
      BY Zenon
    <3>2. s \in 0 .. MaxTime - Skew /\ server <= s /\ s \in Instants /\ s \in Int
      BY <1>0, <2>1, <3>1, Integral, TimeAssumption, SkewAssumption DEF Row
    <3>3. until <= s
      BY <1>0, <2>3, <3>1, <3>2 DEF Row
    <3>4. leases' = Active(leases, s)
      BY <1>0, <2>3, <3>2, <3>3, Expired, Zenon
    <3>5. Promised
      BY <1>0, <2>1, <2>3, <3>1, <3>2, <3>4, SweepStep, Zenon
    <3>. QED
      BY <1>0, <2>1, <2>3, <3>1, <3>2, <3>5, RowRemoved, Zenon
  <2>. QED
    BY <1>1, <2>2, <2>3, Zenon DEF HashTick
<1>. QED
  BY <1>1, ValkeyAcquires, ValkeyReleases, Zenon DEF ValkeyNext

\* A hash or row nobody has used.
LEMMA RemoteStart == RemoteInit => RemoteInv
<1> SUFFICES ASSUME RemoteInit PROVE RemoteInv
  OBVIOUS
<1>1. NothingHeld /\ server = 0 /\ until = 0
  BY DEF RemoteInit
<1>2. Base /\ RefusalJustified /\ leases = {} /\ last = 0
  BY <1>1, NothingHeldInv, Zenon DEF NothingHeld
<1>3. Row
  BY <1>1, <1>2, TimeAssumption, SkewAssumption DEF Row
<1>. QED
  BY <1>2, <1>3, Zenon DEF RemoteInv

\* The invariant of a hash or row is inductive.
LEMMA RemoteStep ==
    ASSUME Patient
    PROVE  RemoteInv /\ [PostgresNext \/ ValkeyNext]_remoteVars => RemoteInv'
<1> SUFFICES ASSUME RemoteInv, [PostgresNext \/ ValkeyNext]_remoteVars PROVE RemoteInv'
  OBVIOUS
<1>1. CASE PostgresNext \/ ValkeyNext
  BY <1>1, PostgresKeeps, ValkeyKeeps, Zenon DEF RemoteInv, Promised
<1>2. CASE UNCHANGED remoteVars
  BY <1>2, RestStep, Zenon DEF RemoteInv, Promised, Row, remoteVars
<1>. QED
  BY <1>1, <1>2

\* Nobody loses a lease in PostgreSQL under released and strict calls, releases
\* and cleanups, if every retention covers the longest lease that is deployed and
\* twice the skew.
THEOREM PostgresKeepsLeases == Patient => (PostgresSpec => []HoldersKept)
<1>1. RemoteInv => HoldersKept
  BY Zenon DEF RemoteInv, Base
<1>2. SUFFICES ASSUME Patient PROVE PostgresSpec => []HoldersKept
  OBVIOUS
<1>3. RemoteInv /\ [PostgresNext]_remoteVars => RemoteInv'
  BY <1>2, RemoteStep, Zenon
<1>. QED
  BY <1>1, <1>3, RemoteStart, PTL DEF PostgresSpec

\* Nobody loses a lease in Valkey under acquisitions, releases and the removal of
\* the hash by the server, under the same condition.
THEOREM ValkeyKeepsLeases == Patient => (ValkeySpec => []HoldersKept)
<1>1. RemoteInv => HoldersKept
  BY Zenon DEF RemoteInv, Base
<1>2. SUFFICES ASSUME Patient PROVE ValkeySpec => []HoldersKept
  OBVIOUS
<1>3. RemoteInv /\ [ValkeyNext]_remoteVars => RemoteInv'
  BY <1>2, RemoteStep, Zenon
<1>. QED
  BY <1>1, <1>3, RemoteStart, PTL DEF ValkeySpec

------------------------------------------------------------------------------
(* Whichever backend it is. *)

DeploymentInv ==
    \/ backend = "memory" /\ MemoryInv
    \/ backend \in {"postgres", "valkey"} /\ RemoteInv

\* The invariant of a deployment is inductive, and its steps are the pool's.
LEMMA DeploymentStep ==
    ASSUME Patient
    PROVE  DeploymentInv /\ [DeploymentNext]_<<remoteVars, backend>>
             => DeploymentInv' /\ [Pool!Next]_(Pool!vars)
<1> SUFFICES ASSUME DeploymentInv, [DeploymentNext]_<<remoteVars, backend>>
             PROVE  DeploymentInv' /\ [Pool!Next]_(Pool!vars)
  OBVIOUS
<1>1. CASE backend = "memory" /\ MemoryInv /\ Next /\ UNCHANGED backend
  BY <1>1, MemoryNext, Zenon DEF MemoryInv, Promised, DeploymentInv
<1>2. CASE backend \in {"postgres", "valkey"} /\ RemoteInv /\ UNCHANGED backend
           /\ (PostgresNext \/ ValkeyNext)
  BY <1>2, PostgresKeeps, ValkeyKeeps, Zenon DEF RemoteInv, Promised, DeploymentInv
<1>3. CASE UNCHANGED <<remoteVars, backend>>
  <2>1. UNCHANGED <<server, present, last, leases, until, answer, issued, clock, backend>>
    BY <1>3, Zenon DEF remoteVars
  <2>2. Promised
    BY <2>1, RestStep, Zenon DEF DeploymentInv, MemoryInv, RemoteInv
  <2>3. Row => Row'
    BY <2>1, Zenon DEF Row
  <2>. QED
    BY <2>1, <2>2, <2>3, Zenon DEF DeploymentInv, MemoryInv, RemoteInv, Promised
<1>4. backend = "memory" => backend \notin {"postgres", "valkey"}
  OBVIOUS
<1>. QED
  BY <1>1, <1>2, <1>3, <1>4 DEF DeploymentNext, DeploymentInv

\* A key nobody has used.
LEMMA DeploymentStart == DeploymentInit => DeploymentInv /\ Pool!Init
<1> SUFFICES ASSUME DeploymentInit PROVE DeploymentInv /\ Pool!Init
  OBVIOUS
<1>1. RemoteInit /\ NothingHeld /\ backend \in {"memory", "postgres", "valkey"}
  BY Zenon DEF DeploymentInit, RemoteInit
<1>2. RemoteInv /\ MemoryInv /\ Pool!Init
  BY <1>1, RemoteStart, MemoryInit, Zenon DEF Init
<1>. QED
  BY <1>1, <1>2 DEF DeploymentInv

\* Nobody loses a lease in any backend, under released and strict calls, releases,
\* sweeps, evictions, cleanups and the removal of the hash by the server, if every
\* retention covers the longest lease that is deployed and twice the skew.
THEOREM BackendsKeepLeases == Patient => (DeploymentSpec => []HoldersKept)
<1>1. DeploymentInv => HoldersKept
  BY Zenon DEF DeploymentInv, MemoryInv, RemoteInv, Base
<1>2. SUFFICES ASSUME Patient PROVE DeploymentSpec => []HoldersKept
  OBVIOUS
<1>3. DeploymentInv /\ [DeploymentNext]_<<remoteVars, backend>> => DeploymentInv'
  BY <1>2, DeploymentStep, Zenon
<1>. QED
  BY <1>1, <1>3, DeploymentStart, PTL DEF DeploymentSpec

\* Under the same condition a request is refused only if the leases in the hands
\* of callers leave no room for it, and Reset is when the first of them expires.
THEOREM BackendsRefuseJustly == Patient => (DeploymentSpec => []RefusalJustified)
<1>1. DeploymentInv => RefusalJustified
  BY Zenon DEF DeploymentInv, MemoryInv, RemoteInv
<1>2. SUFFICES ASSUME Patient PROVE DeploymentSpec => []RefusalJustified
  OBVIOUS
<1>3. DeploymentInv /\ [DeploymentNext]_<<remoteVars, backend>> => DeploymentInv'
  BY <1>2, DeploymentStep, Zenon
<1>. QED
  BY <1>1, <1>3, DeploymentStart, PTL DEF DeploymentSpec

\* Under the same condition every backend implements the pool of leases.
THEOREM BackendsImplementPool == Patient => (DeploymentSpec => PoolSpec)
<1>1. SUFFICES ASSUME Patient PROVE DeploymentSpec => PoolSpec
  OBVIOUS
<1>2. DeploymentInv /\ [DeploymentNext]_<<remoteVars, backend>>
        => DeploymentInv' /\ [Pool!Next]_(Pool!vars)
  BY <1>1, DeploymentStep, Zenon
<1>. QED
  BY <1>2, DeploymentStart, PTL DEF DeploymentSpec, PoolSpec, Pool!Spec
=============================================================================

----------------------------- MODULE MemoryStore -----------------------------
(***************************************************************************)
(* The store of memory/store.go and memory/strict.go under concurrent      *)
(* callers: sharded maps behind channel locks, contexts that end while a   *)
(* call waits, bounded cardinality with eviction or refusal, Sweep and Len *)
(* that take one shard after the other, and Close.                         *)
(*                                                                         *)
(* An entry keeps what these need of a key: its clock, the number of       *)
(* requests charged to its budget, and the expiry of its lease.  Budgets   *)
(* are not replenished here and concurrency policies have capacity one;    *)
(* TokenBucket, FixedWindow, SlidingWindow and MemoryLeases model the      *)
(* contents of an entry in full.                                           *)
(***************************************************************************)
EXTENDS Integers, Sequences, FiniteSets, FiniteSetsExt

CONSTANTS Callers,
          Keys,              \* state keys, as numbers in the order of strings.Compare
          Shards,            \* the number of shards
          ShardOf,           \* [Keys -> 1 .. Shards]: the hash of shardFor
          MaxKeys,           \* Options.MaxKeys
          RejectOnCapacity,  \* Options.RejectOnCapacity
          Budget,            \* the budget of a rate key
          Lease,             \* the duration of a lease
          LastInstant,       \* bound on the instants callers submit
          Calls              \* the calls made: records [op, strict, key, now, arg]

\* What New accepts, and the shape of a call.
ASSUME StoreAssumption ==
    /\ Keys \subseteq Nat /\ IsFiniteSet(Keys)
    /\ MaxKeys \in Nat \ {0} /\ Shards \in 1 .. MaxKeys
    /\ ShardOf \in [Keys -> 1 .. Shards]
    /\ RejectOnCapacity \in BOOLEAN
    /\ Budget \in Nat \ {0} /\ Lease \in Nat \ {0} /\ LastInstant \in Nat

ASSUME CallAssumption ==
    \A q \in Calls : /\ q.op \in {"admit", "acquire", "release", "sweep", "len"}
                     /\ q.key \in Keys /\ q.now \in 0 .. LastInstant
                     /\ q.strict \in BOOLEAN /\ q.arg \in Nat

VARIABLES closed,    \* Store.closed
          states,    \* the maps of all shards
          queue,     \* the lock of each shard: its holder, then those waiting
          call,      \* what each caller is doing, and the result of its last call
          inflight,  \* callers past their preflight when Close ran (history)
          granted    \* requests admitted per key since it was last idle for a sweep,
                     \* and the latest instant one was served at (history)

storeVars == <<closed, states, queue, call, inflight, granted>>

NoGrants == [n |-> 0, at |-> 0]

Absent == [algorithm |-> "none", lastSeen |-> 0, used |-> 0, until |-> 0]

Entries == [algorithm : {"rate", "lease"}, lastSeen : 0 .. LastInstant,
            used : 0 .. Budget, until : 0 .. LastInstant + Lease]

KeysOf(s) == {k \in Keys : ShardOf[k] = s /\ states[k] # Absent}

\* New: the keys are divided among the shards, the rest to the first ones.
Quota(s) == MaxKeys \div Shards + (IF s <= MaxKeys % Shards THEN 1 ELSE 0)

LaterOf(s, t) == IF s < t THEN t ELSE s

------------------------------------------------------------------------------
(* Locks: a channel of capacity one.  Waiting receivers are served in the   *)
(* order they came, and a send hands the lock to the first of them.         *)

\* Mutant: a late caller is served first.
JoinFirst(c, s) ==
    queue' = [queue EXCEPT ![s] = IF @ = <<>> THEN <<c>> ELSE <<Head(@), c>> \o Tail(@)]

Join(c, s) == queue' = [queue EXCEPT ![s] = Append(@, c)]

Holds(c, s) == queue[s] # <<>> /\ Head(queue[s]) = c

Unlock(s) == queue' = [queue EXCEPT ![s] = Tail(@)]

\* LockContext returns without the lock.
Leave(c, s) == queue' = [queue EXCEPT ![s] = SelectSeq(@, LAMBDA d : d # c)]

------------------------------------------------------------------------------
(* Calls. *)

IsWalk(q) == q.op \in {"sweep", "len"}

\* The result of a call, whether it charged the key, and what a walk counted.
Answer(c, result, charged, n) ==
    call' = [call EXCEPT ![c].pc = "idle", ![c].result = result, ![c].charged = charged,
                         ![c].total = @ + n, ![c].done = FALSE, ![c].shard = 0]

Return(c, result) == Answer(c, result, FALSE, 0)

\* inflight after c has returned.
Gone(c) == inflight' = inflight \ {c}

Begin(c, q) ==
    /\ call[c].pc = "idle"
    /\ call' = [call EXCEPT ![c] = [q |-> q, pc |-> "called", done |-> FALSE, late |-> FALSE,
                                    charged |-> FALSE, shard |-> 0, total |-> 0,
                                    result |-> "none"]]
    /\ UNCHANGED <<closed, states, queue, inflight, granted>>

\* The context of a call ends: canceled or past its deadline.
ContextDone(c) ==
    /\ call[c].pc # "idle"
    /\ ~IsWalk(call[c].q) /\ ~call[c].done
    /\ call' = [call EXCEPT
                  ![c].done = TRUE,
                  ![c].late = call[c].pc = "waiting" /\ ~Holds(c, call[c].shard)]
    /\ UNCHANGED <<closed, states, queue, inflight, granted>>

\* Mutant: strict methods do not look at Close.
PreflightOpen(c) ==
    LET q     == call[c].q
        first == IF IsWalk(q) THEN 1 ELSE ShardOf[q.key]
        stop  == IF q.op # "len" /\ closed /\ ~q.strict THEN "unavailable"
                 ELSE IF call[c].done THEN "canceled" ELSE "go"
    IN  /\ call[c].pc = "called"
        /\ \/ /\ stop # "go"
              /\ Return(c, stop)
              /\ UNCHANGED queue
           \/ /\ stop = "go"
              /\ call' = [call EXCEPT ![c].pc = "waiting", ![c].shard = first]
              /\ Join(c, first)
        /\ UNCHANGED <<closed, states, inflight, granted>>

\* The checks before the lock.  Released methods look at Close first, strict
\* ones at the context first; Sweep has no context and Len checks nothing.
Preflight(c) ==
    LET q     == call[c].q
        first == IF IsWalk(q) THEN 1 ELSE ShardOf[q.key]
        stop  == IF q.op # "len" /\ closed /\ ~(q.strict /\ call[c].done) THEN "unavailable"
                 ELSE IF call[c].done THEN "canceled" ELSE "go"
    IN  /\ call[c].pc = "called"
        /\ \/ /\ stop # "go"
              /\ Return(c, stop)
              /\ UNCHANGED queue
           \/ /\ stop = "go"
              /\ call' = [call EXCEPT ![c].pc = "waiting", ![c].shard = first]
              /\ Join(c, first)
        /\ UNCHANGED <<closed, states, inflight, granted>>

\* A strict call stops waiting when its context ends.
GiveUp(c) ==
    /\ call[c].pc = "waiting" /\ call[c].q.strict /\ call[c].done
    /\ Leave(c, call[c].shard)
    /\ Return(c, "canceled") /\ Gone(c)
    /\ UNCHANGED <<closed, states, granted>>

\* Mutant: the context is not looked at again.
EnterUnchecked(c) ==
    /\ call[c].pc = "waiting" /\ Holds(c, call[c].shard)
    /\ call' = [call EXCEPT ![c].pc = "locked"]
    /\ UNCHANGED <<closed, states, queue, inflight, granted>>

\* The lock is taken; a strict call looks at its context again.
Enter(c) ==
    /\ call[c].pc = "waiting" /\ Holds(c, call[c].shard)
    /\ \/ /\ call[c].q.strict /\ call[c].done
          /\ Unlock(call[c].shard)
          /\ Return(c, "canceled") /\ Gone(c)
       \/ /\ ~(call[c].q.strict /\ call[c].done)
          /\ call' = [call EXCEPT ![c].pc = "locked"]
          /\ UNCHANGED <<queue, inflight>>
    /\ UNCHANGED <<closed, states, granted>>

------------------------------------------------------------------------------
(* Under the lock. *)

\* Mutant: leases do not protect an entry.
EvictableAny(s, now) == KeysOf(s)

\* evictOldest: the keys it may drop, and the one it drops.
Evictable(s, now) == {k \in KeysOf(s) : ~(states[k].until > now)}

OldestOf(S) == CHOOSE k \in S : \A j \in S :
                  \/ states[k].lastSeen < states[j].lastSeen
                  \/ states[k].lastSeen = states[j].lastSeen /\ k <= j

\* Mutants: the quota is noticed one key late; a full shard always evicts.
VictimsLate(s, now) ==
    IF Cardinality(KeysOf(s)) <= Quota(s) THEN {{}}
    ELSE IF RejectOnCapacity \/ Evictable(s, now) = {} THEN {}
    ELSE {{OldestOf(Evictable(s, now))}}

VictimsForced(s, now) ==
    IF Cardinality(KeysOf(s)) # Quota(s) THEN {{}}
    ELSE IF Evictable(s, now) = {} THEN {}
    ELSE {{OldestOf(Evictable(s, now))}}

\* getOrCreate for a new key: what it drops, or nothing at all if it fails.
Victims(s, now) ==
    IF Cardinality(KeysOf(s)) # Quota(s) THEN {{}}
    ELSE IF RejectOnCapacity \/ Evictable(s, now) = {} THEN {}
    ELSE {{OldestOf(Evictable(s, now))}}

NewEntry(algorithm, now) ==
    [algorithm |-> algorithm, lastSeen |-> now, used |-> 0, until |-> 0]

\* The entry after an admission or an acquisition, and whether it was granted.
Admitted(e, now) ==
    [entry |-> [e EXCEPT !.lastSeen = LaterOf(now, e.lastSeen),
                         !.used = IF @ < Budget THEN @ + 1 ELSE @],
     ok |-> e.used < Budget]

Acquired(e, now) ==
    LET at == LaterOf(now, e.lastSeen)
    IN  [entry |-> [e EXCEPT !.lastSeen = at, !.until = IF @ > at THEN @ ELSE at + Lease],
         ok |-> ~(e.until > at)]

\* Counting stops one past the limit.
Count(k, ok, now) ==
    [granted EXCEPT ![k] = [n  |-> IF ok /\ @.n <= Budget THEN @.n + 1 ELSE @.n,
                            at |-> LaterOf(now, @.at)]]

Finish(c, result, charged) ==
    /\ Answer(c, result, charged, 0)
    /\ Unlock(call[c].shard)
    /\ Gone(c)

\* admitLocked and acquireLocked.
AdmitLocked(c) ==
    LET q         == call[c].q
        k         == q.key
        algorithm == IF q.op = "admit" THEN "rate" ELSE "lease"
        victims   == IF states[k] # Absent THEN {{}} ELSE Victims(ShardOf[k], q.now)
        found     == IF states[k] # Absent THEN states[k] ELSE NewEntry(algorithm, q.now)
        after     == IF q.op = "admit" THEN Admitted(found, q.now) ELSE Acquired(found, q.now)
    IN  /\ call[c].pc = "locked" /\ q.op \in {"admit", "acquire"}
        /\ \/ /\ found.algorithm # algorithm
              /\ Finish(c, "corrupt", FALSE)
              /\ UNCHANGED <<states, granted>>
           \/ /\ victims = {}
              /\ Finish(c, "unavailable", FALSE)
              /\ UNCHANGED <<states, granted>>
           \/ /\ found.algorithm = algorithm
              /\ \E gone \in victims :
                    states' = [j \in Keys |-> IF j = k THEN after.entry
                                              ELSE IF j \in gone THEN Absent ELSE states[j]]
              /\ granted' = IF q.op = "admit" THEN Count(k, after.ok, q.now) ELSE granted
              /\ Finish(c, IF after.ok THEN "allowed" ELSE "limited", after.ok)
        /\ UNCHANGED closed

\* releaseLocked, with a lease that expires at q.arg.
Release(c) ==
    LET q   == call[c].q
        mine == states[q.key].until # 0 /\ states[q.key].until = q.arg
    IN  /\ call[c].pc = "locked" /\ q.op = "release"
        /\ \/ /\ ~mine
              /\ Finish(c, "not_found", FALSE)
              /\ UNCHANGED states
           \/ /\ mine
              /\ states' = [states EXCEPT ![q.key].until = 0]
              /\ Finish(c, "released", FALSE)
        /\ UNCHANGED <<closed, granted>>

\* The next shard of Sweep and Len, or their return.
Onward(c, n) ==
    LET s == call[c].shard
    IN  \/ /\ s < Shards
           /\ call' = [call EXCEPT ![c].pc = "waiting", ![c].shard = s + 1, ![c].total = @ + n]
           /\ queue' = [queue EXCEPT ![s] = Tail(@), ![s + 1] = Append(@, c)]
           /\ UNCHANGED inflight
        \/ /\ s = Shards
           /\ Answer(c, "ok", FALSE, n)
           /\ Unlock(s)
           /\ Gone(c)

\* Mutant: idleFor is not added.
IdleAny(s, now, idleFor) ==
    {k \in KeysOf(s) : ~(states[k].until > now) /\ states[k].lastSeen <= now}

\* The keys of a shard that Sweep removes.
Idle(s, now, idleFor) ==
    {k \in KeysOf(s) : ~(states[k].until > now) /\ states[k].lastSeen + idleFor <= now}

\* One shard of Sweep(now, idleFor), idleFor in q.arg.
SweepShard(c) ==
    LET q    == call[c].q
        mine == KeysOf(call[c].shard)
        idle == Idle(call[c].shard, q.now, q.arg)
    IN  /\ call[c].pc = "locked" /\ q.op = "sweep"
        /\ states' = [k \in Keys |->
                        IF k \in idle THEN Absent
                        ELSE IF k \in mine /\ ~(states[k].until > q.now)
                        THEN [states[k] EXCEPT !.until = 0] ELSE states[k]]
        /\ granted' = [k \in Keys |->
                        IF ShardOf[k] = call[c].shard /\ granted[k].at + q.arg <= q.now
                        THEN NoGrants ELSE granted[k]]
        /\ Onward(c, Cardinality(idle))
        /\ UNCHANGED closed

\* One shard of Len.
LenShard(c) ==
    /\ call[c].pc = "locked" /\ call[c].q.op = "len"
    /\ Onward(c, Cardinality(KeysOf(call[c].shard)))
    /\ UNCHANGED <<closed, states, granted>>

Close ==
    /\ ~closed
    /\ closed' = TRUE
    /\ inflight' = {c \in Callers : call[c].pc \in {"waiting", "locked"}}
    /\ UNCHANGED <<states, queue, call, granted>>

------------------------------------------------------------------------------
NoCall == [q |-> [op |-> "len", strict |-> FALSE, key |-> Min(Keys), now |-> 0, arg |-> 0],
           pc |-> "idle", done |-> FALSE, late |-> FALSE, charged |-> FALSE,
           shard |-> 0, total |-> 0, result |-> "none"]

StoreInit ==
    /\ closed = FALSE
    /\ states = [k \in Keys |-> Absent]
    /\ queue = [s \in 1 .. Shards |-> <<>>]
    /\ call = [c \in Callers |-> NoCall]
    /\ inflight = {}
    /\ granted = [k \in Keys |-> NoGrants]

\* What the goroutine of a call does by itself.
Step(c) ==
    \/ Preflight(c) \/ GiveUp(c) \/ Enter(c)
    \/ AdmitLocked(c) \/ Release(c) \/ SweepShard(c) \/ LenShard(c)

StoreNext ==
    \/ \E c \in Callers : \/ \E q \in Calls : Begin(c, q)
                          \/ ContextDone(c)
                          \/ Step(c)
    \/ Close

StoreSpec == StoreInit /\ [][StoreNext]_storeVars /\ \A c \in Callers : WF_storeVars(Step(c))

------------------------------------------------------------------------------
(* Properties. *)

\* However calls interleave, a shard stays within its quota and the store
\* within MaxKeys, and a Len that walks the shards while others insert and
\* evict never reports more than MaxKeys.
Bounded ==
    /\ \A s \in 1 .. Shards : Cardinality(KeysOf(s)) <= Quota(s)
    /\ Cardinality({k \in Keys : states[k] # Absent}) <= MaxKeys
    /\ \A c \in Callers : call[c].q.op = "len" => call[c].total <= MaxKeys

\* A strict call whose context ended while another call held its shard charges
\* nothing, and says that it was canceled.
LateStrictHarmless ==
    \A c \in Callers :
        call[c].q.strict /\ call[c].late /\ call[c].pc = "idle"
            => ~call[c].charged /\ call[c].result = "canceled"

\* With RejectOnCapacity nothing resets the budget of a key in use, neither the
\* pressure of other keys nor a sweep: until a sweep comes idleFor after the latest
\* request that was served for it, a rate key is granted at most its limit.
BudgetKept ==
    RejectOnCapacity => \A k \in Keys : granted[k].n <= Budget

\* A lease that no clock can consider expired is only ever given up by a release
\* of its key: neither eviction for other keys nor a sweep drops it.
LeaseKept ==
    [][\A k \in Keys : states[k].until > LastInstant =>
          \/ states'[k].until = states[k].until
          \/ \E c \in Callers : /\ call[c].q.op = "release" /\ call[c].q.key = k
                                 /\ call[c].pc = "locked" /\ call'[c].result = "released"]_states

\* After Close only calls that were already past their preflight still change
\* the maps.
ClosedQuiet ==
    [][closed => \E c \in inflight : call[c].pc = "locked" /\ call'[c] # call[c]]_states

\* Every call returns, also Sweep and Len, and also after Close: no lock is lost
\* when a waiter gives up, and none is kept from a waiter for ever.
EveryCallReturns ==
    \A c \in Callers : call[c].pc # "idle" ~> call[c].pc = "idle"
=============================================================================

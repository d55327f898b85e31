----------------------------- MODULE MemoryProofs -----------------------------
(***************************************************************************)
(* The backend of package memory: its store, and its token bucket.         *)
(*                                                                         *)
(* The store, under every number of callers, keys, shards and calls.  Its  *)
(* invariant speaks of one shard at a time (ShardInv) and of one call at a *)
(* time (CallInv): a walk has counted no more than the quotas of the       *)
(* shards it has left, which add up to MaxKeys.                            *)
(*                                                                         *)
(* The token bucket: type correctness, NoOverAdmission and the exactness   *)
(* of RetryAfter and Reset, for every policy, every set of revisions and   *)
(* every bound on time.                                                    *)
(***************************************************************************)
EXTENDS MemoryStore, TokenBucket, Arithmetic

(* The store. *)

Results == {"none", "unavailable", "canceled", "corrupt", "allowed", "limited", "not_found",
            "released", "ok"}

Asked == Calls \cup {NoCall.q}
Places == {"idle", "called", "waiting", "locked"}
Range0 == 0 .. Shards

Records == [q : Asked, pc : Places, done : BOOLEAN, late : BOOLEAN, charged : BOOLEAN,
            shard : Range0, total : Nat, result : Results]

\* The quotas of the first n shards.
Share(n) == n * (MaxKeys \div Shards) + (IF n <= MaxKeys % Shards THEN n ELSE MaxKeys % Shards)

\* Where a call is, and what it has counted or may answer.
CallInv(r) ==
    /\ r \in Records
    /\ r.pc # "idle" => r.q \in Calls
    /\ r.pc \in {"waiting", "locked"} => r.shard \in 1 .. Shards
    /\ r.q.op = "len" =>
         /\ r.pc = "called" => r.total = 0
         /\ r.pc \in {"waiting", "locked"} => r.total <= Share(r.shard - 1)
         /\ r.pc = "idle" => r.total <= MaxKeys
    /\ r.q.strict /\ r.late =>
         \/ r.pc = "waiting" /\ r.done
         \/ r.pc = "idle" /\ ~r.charged /\ r.result = "canceled"

ShardInv == \A s \in 1 .. Shards : Cardinality(KeysOf(s)) <= Quota(s)

Tallies == [n : Nat, at : Nat]

\* Without eviction, what was granted is what the entry has counted, and the
\* entry was seen as late as the key was served.
Backed(g, e) == g.n <= e.used /\ g.at <= e.lastSeen

BudgetInv == RejectOnCapacity => \A k \in Keys : Backed(granted[k], states[k])

\* After Close only calls that were past their preflight go on, and walks of Len.
ClosedInv ==
    closed => \A c \in Callers : call[c].pc \in {"waiting", "locked"} /\ call[c].q.op # "len"
                                   => c \in inflight

CallPart ==
    /\ call \in [Callers -> Records] /\ inflight \subseteq Callers
    /\ \A c \in Callers : CallInv(call[c])
    /\ ClosedInv

MapPart ==
    /\ states \in [Keys -> Entries \cup {Absent}] /\ granted \in [Keys -> Tallies]
    /\ ShardInv /\ BudgetInv

StoreInv == closed \in BOOLEAN /\ CallPart /\ MapPart

------------------------------------------------------------------------------
(* Quotas. *)

\* The quotas are numbers, and those of all shards add up to MaxKeys.
LEMMA QuotaFacts ==
    /\ Share(0) = 0 /\ Share(Shards) = MaxKeys
    /\ \A s \in 1 .. Shards : /\ Quota(s) \in Nat /\ Share(s) \in Nat /\ Share(s - 1) \in Nat
                              /\ Share(s) = Share(s - 1) + Quota(s)
                              /\ Share(s - 1) <= MaxKeys /\ Share(s) <= MaxKeys
<1> DEFINE d == MaxKeys \div Shards
           m == MaxKeys % Shards
<1>1. Shards \in Nat \ {0} /\ MaxKeys \in Nat
  BY StoreAssumption
<1>2. d \in Nat /\ m \in Nat /\ m < Shards /\ MaxKeys = d * Shards + m
  BY <1>1, DivMod
<1>3. /\ \A n : Share(n) = n * d + (IF n <= m THEN n ELSE m)
      /\ \A s : Quota(s) = d + (IF s <= m THEN 1 ELSE 0)
  BY Zenon DEF Share, Quota
<1> HIDE DEF d, m
<1>4. Share(0) = 0
  BY <1>2, <1>3
<1>5. Share(Shards) = MaxKeys
  BY <1>1, <1>2, <1>3
<1>6. ASSUME NEW s \in 1 .. Shards
      PROVE  /\ Quota(s) \in Nat /\ Share(s) \in Nat /\ Share(s - 1) \in Nat
             /\ Share(s) = Share(s - 1) + Quota(s)
             /\ Share(s - 1) <= MaxKeys /\ Share(s) <= MaxKeys
  <2>1. s \in Nat /\ s - 1 \in Nat /\ s <= Shards /\ s >= 1
    BY <1>1
  <2>2. Quota(s) \in Nat
    BY <1>2, <1>3
  <2>3. (s - 1) * d = s * d - d /\ s * d \in Nat /\ (s - 1) * d \in Nat /\ s * d <= d * Shards
    <3>1. s * d \in Nat /\ (s - 1) * d \in Nat
      BY <1>2, <2>1
    <3>2. (s - 1) * d = s * d - d
      BY <1>2, <2>1
    <3>3. s * d <= Shards * d
      BY <1>1, <1>2, <2>1, Monotone
    <3>. QED
      BY <1>1, <1>2, <3>1, <3>2, <3>3
  <2>4. Share(s) = s * d + (IF s <= m THEN s ELSE m)
        /\ Share(s - 1) = (s - 1) * d + (IF s - 1 <= m THEN s - 1 ELSE m)
    BY <1>3, Zenon
  <2>5. Share(s) \in Nat /\ Share(s - 1) \in Nat
    BY <1>2, <2>1, <2>3, <2>4
  <2>6. Share(s) = Share(s - 1) + Quota(s)
    BY <1>2, <1>3, <2>1, <2>3, <2>4
  <2>7. Share(s) <= MaxKeys
    BY <1>1, <1>2, <2>1, <2>3, <2>4
  <2>. QED
    BY <1>1, <2>2, <2>5, <2>6, <2>7
<1>. QED
  BY <1>4, <1>5, <1>6, Zenon

\* Shards are numbered from one, and every key has one.
LEMMA ShardFacts ==
    1 \in 1 .. Shards /\ \A k \in Keys : ShardOf[k] \in 1 .. Shards
BY StoreAssumption

\* The keys of a shard are finitely many.
LEMMA KeysFinite ==
    ASSUME NEW s
    PROVE  KeysOf(s) \subseteq Keys /\ IsFiniteSet(KeysOf(s)) /\ Cardinality(KeysOf(s)) \in Nat
<1>1. KeysOf(s) \subseteq Keys /\ IsFiniteSet(Keys)
  BY StoreAssumption, Zenon DEF KeysOf
<1>. QED
  BY <1>1, FS_Subset, FS_CardinalityType, Zenon

\* If every shard is within its quota, the store is within MaxKeys.
LEMMA StoreBounded ==
    ASSUME ShardInv
    PROVE  Cardinality({k \in Keys : states[k] # Absent}) <= MaxKeys
<1> DEFINE U(n) == {k \in Keys : states[k] # Absent /\ ShardOf[k] <= n}
           T == {n \in Nat : n <= Shards => Cardinality(U(n)) <= Share(n)}
<1>0. Shards \in Nat /\ \A k \in Keys : ShardOf[k] \in 1 .. Shards
  BY StoreAssumption
<1>1. \A n : IsFiniteSet(U(n)) /\ Cardinality(U(n)) \in Nat
  <2>1. \A n : U(n) \subseteq Keys
    BY Zenon
  <2>. QED
    BY <2>1, StoreAssumption, FS_Subset, FS_CardinalityType, Zenon
<1>2. 0 \in T
  <2>1. U(0) = {}
    BY <1>0
  <2>2. Cardinality(U(0)) = 0
    BY <2>1, FS_EmptySet, Zenon
  <2>. QED
    BY <2>2, QuotaFacts
<1>3. ASSUME NEW n \in T PROVE n + 1 \in T
  <2> SUFFICES ASSUME n + 1 <= Shards PROVE Cardinality(U(n + 1)) <= Share(n + 1)
    BY <1>3
  <2>1. n \in Nat /\ n + 1 \in 1 .. Shards /\ n <= Shards
    BY <1>0, <1>3
  <2>2. U(n + 1) = U(n) \cup KeysOf(n + 1) /\ U(n) \cap KeysOf(n + 1) = {}
    BY <1>0, <2>1 DEF KeysOf
  <2>3. Cardinality(U(n)) <= Share(n) /\ Cardinality(KeysOf(n + 1)) <= Quota(n + 1)
    BY <1>3, <2>1, Zenon DEF ShardInv
  <2>4. Share(n + 1) = Share(n) + Quota(n + 1) /\ Share(n) \in Nat /\ Quota(n + 1) \in Nat
    <3>1. (n + 1) - 1 = n
      BY <2>1
    <3>. QED
      BY <2>1, <3>1, QuotaFacts, Zenon
  <2>5. Cardinality(U(n + 1)) = Cardinality(U(n)) + Cardinality(KeysOf(n + 1)) - Cardinality({})
    BY <1>1, <2>2, KeysFinite, FS_Union, Zenon
  <2>6. Cardinality({}) = 0
    BY FS_EmptySet, Zenon
  <2>7. /\ Cardinality(U(n)) \in Nat /\ Cardinality(U(n + 1)) \in Nat
        /\ Cardinality(KeysOf(n + 1)) \in Nat
    BY <1>1, KeysFinite, Zenon
  <2>. QED
    BY <2>3, <2>4, <2>5, <2>6, <2>7
<1> HIDE DEF U
<1>4. T = Nat
  BY <1>2, <1>3, Induct, Zenon
<1>5. Cardinality(U(Shards)) <= MaxKeys
  BY <1>0, <1>4, QuotaFacts
<1>6. U(Shards) = {k \in Keys : states[k] # Absent}
  BY <1>0 DEF U
<1>. QED
  BY <1>5, <1>6, Zenon

------------------------------------------------------------------------------
(* Calls. *)

\* A step of caller c leaves the other calls alone.
OnlyCall(c) ==
    call' \in [Callers -> Records] /\ \A d \in Callers \ {c} : call'[d] = call[d]

\* What a call looks like when it has returned.
LEMMA AnswerFacts ==
    ASSUME call \in [Callers -> Records], NEW c \in Callers, NEW result \in Results,
           NEW charged \in BOOLEAN, NEW n \in Nat, Answer(c, result, charged, n)
    PROVE  /\ OnlyCall(c)
           /\ call'[c].pc = "idle" /\ call'[c].q = call[c].q /\ call'[c].late = call[c].late
           /\ call'[c].charged = charged /\ call'[c].result = result
           /\ call'[c].total = call[c].total + n
<1> DEFINE r == [call[c] EXCEPT !.pc = "idle", !.result = result, !.charged = charged,
                                !.total = @ + n, !.done = FALSE, !.shard = 0]
<1>1. call[c] \in Records
  OBVIOUS
<1>2. r \in Records
  <2>1. 0 \in Range0 /\ "idle" \in Places
    BY StoreAssumption DEF Range0, Places
  <2>2. call[c].total + n \in Nat
    BY <1>1 DEF Records
  <2>. QED
    BY <1>1, <2>1, <2>2, Zenon DEF Records
<1>3. /\ r.pc = "idle" /\ r.q = call[c].q /\ r.late = call[c].late
      /\ r.charged = charged /\ r.result = result /\ r.total = call[c].total + n
  BY <1>1 DEF Records
<1>4. call' = [call EXCEPT ![c] = r]
  BY Zenon DEF Answer
<1> HIDE DEF r
<1>. QED
  BY <1>2, <1>3, <1>4 DEF OnlyCall

\* Caller c is now at shard s, as pc says, having counted n keys.
Moved(c, pc, s, n) == call' = [call EXCEPT ![c].pc = pc, ![c].shard = s, ![c].total = n]

\* A call that waits for a shard, or has entered it.
LEMMA MoveFacts ==
    ASSUME call \in [Callers -> Records], NEW c \in Callers, NEW pc \in {"waiting", "locked"},
           NEW s \in 1 .. Shards, NEW n \in Nat,
           Moved(c, pc, s, n)
    PROVE  /\ OnlyCall(c)
           /\ call'[c].pc = pc /\ call'[c].q = call[c].q /\ call'[c].late = call[c].late
           /\ call'[c].done = call[c].done
           /\ call'[c].shard = s /\ call'[c].total = n
<1> DEFINE r == [call[c] EXCEPT !.pc = pc, !.shard = s, !.total = n]
<1>1. call[c] \in Records
  OBVIOUS
<1>2. r \in Records
  <2>1. s \in Range0 /\ pc \in Places
    BY StoreAssumption DEF Range0, Places
  <2>. QED
    BY <1>1, <2>1, Zenon DEF Records
<1>3. /\ r.pc = pc /\ r.q = call[c].q /\ r.late = call[c].late /\ r.done = call[c].done
      /\ r.shard = s /\ r.total = n
  BY <1>1 DEF Records
<1>4. call' = [call EXCEPT ![c] = r]
  BY Zenon DEF Moved
<1> HIDE DEF r
<1>5. OnlyCall(c) /\ call'[c] = r
  BY <1>2, <1>4 DEF OnlyCall
<1>. QED
  BY <1>3, <1>5, Zenon

\* The invariant of the calls, when only one call moves.
LEMMA CallKept ==
    ASSUME CallPart, NEW c \in Callers, OnlyCall(c), CallInv(call'[c]), UNCHANGED closed,
           \/ UNCHANGED inflight
           \/ call'[c].pc = "idle" /\ Gone(c),
           closed /\ call'[c].pc \in {"waiting", "locked"} /\ call'[c].q.op # "len"
             => c \in inflight
    PROVE  CallPart'
<1>1. call' \in [Callers -> Records] /\ inflight' \subseteq Callers
  BY Zenon DEF CallPart, OnlyCall, Gone
<1>2. \A d \in Callers : CallInv(call'[d])
  BY Zenon DEF CallPart, OnlyCall
<1>3. ASSUME closed', NEW d \in Callers, call'[d].pc \in {"waiting", "locked"},
             call'[d].q.op # "len"
      PROVE  d \in inflight'
  <2>1. d \in inflight
    <3>1. CASE d = c
      BY <1>3, <3>1, Zenon
    <3>2. CASE d # c
      <4>1. call'[d] = call[d]
        BY <3>2, Zenon DEF OnlyCall
      <4>. QED
        BY <1>3, <4>1, Zenon DEF CallPart, ClosedInv
    <3>. QED
      BY <3>1, <3>2, Zenon
  <2>2. call'[c].pc = "idle" => d # c
    BY <1>3
  <2>. QED
    BY <2>1, <2>2, Zenon DEF Gone
<1>. QED
  BY <1>1, <1>2, <1>3, Zenon DEF CallPart, ClosedInv

\* A call that returns what a canceled or refused call may, or whatever its
\* operation answers when its context had not ended while it waited.
LEMMA ReturnKeeps ==
    ASSUME CallPart, NEW c \in Callers, call[c].pc # "idle", NEW result \in Results,
           NEW charged \in BOOLEAN, NEW n \in Nat, Answer(c, result, charged, n),
           call[c].q.strict /\ call[c].late => ~charged /\ result = "canceled",
           call[c].q.op = "len" => call[c].total + n <= MaxKeys
    PROVE  CallInv(call'[c]) /\ OnlyCall(c) /\ call'[c].pc = "idle"
<1>1. call \in [Callers -> Records] /\ CallInv(call[c])
  BY Zenon DEF CallPart
<1>2. /\ OnlyCall(c)
      /\ call'[c].pc = "idle" /\ call'[c].q = call[c].q /\ call'[c].late = call[c].late
      /\ call'[c].charged = charged /\ call'[c].result = result
      /\ call'[c].total = call[c].total + n
  BY <1>1, AnswerFacts
<1>3. call'[c] \in Records
  BY <1>2, Zenon DEF OnlyCall
<1>. QED
  BY <1>2, <1>3 DEF CallInv

\* A call that goes to a shard, having counted no more than the shards before it hold.
LEMMA MoveKeeps ==
    ASSUME CallPart, NEW c \in Callers, call[c].pc # "idle", NEW pc \in {"waiting", "locked"},
           NEW s \in 1 .. Shards, NEW n \in Nat,
           Moved(c, pc, s, n),
           ~(call[c].q.strict /\ call[c].late),
           call[c].q.op = "len" => n <= Share(s - 1)
    PROVE  /\ CallInv(call'[c]) /\ OnlyCall(c)
           /\ call'[c].pc = pc /\ call'[c].q = call[c].q
<1>1. call \in [Callers -> Records] /\ CallInv(call[c])
  BY Zenon DEF CallPart
<1>2. /\ OnlyCall(c)
      /\ call'[c].pc = pc /\ call'[c].q = call[c].q /\ call'[c].late = call[c].late
      /\ call'[c].shard = s /\ call'[c].total = n
  BY <1>1, MoveFacts
<1>3. call'[c] \in Records
  BY <1>2, Zenon DEF OnlyCall
<1>4. call'[c].q \in Calls
  BY <1>1, <1>2, Zenon DEF CallInv
<1>. QED
  BY <1>2, <1>3, <1>4 DEF CallInv

\* A walk that is at a shard has counted at most MaxKeys.
LEMMA WalkBound ==
    ASSUME NEW r, CallInv(r), r.pc \in {"waiting", "locked"}, r.q.op = "len"
    PROVE  r.total + 0 <= MaxKeys
<1>1. r.shard \in 1 .. Shards /\ r.total <= Share(r.shard - 1) /\ r.total \in Nat
  BY DEF CallInv, Records
<1>2. Share(r.shard - 1) <= MaxKeys /\ Share(r.shard - 1) \in Nat /\ MaxKeys \in Nat
  BY <1>1, QuotaFacts, StoreAssumption
<1>. QED
  BY <1>1, <1>2

LEMMA BeginKeeps ==
    ASSUME CallPart, NEW c \in Callers, NEW q \in Calls, Begin(c, q)
    PROVE  CallPart'
<1> DEFINE r == [q |-> q, pc |-> "called", done |-> FALSE, late |-> FALSE, charged |-> FALSE,
                 shard |-> 0, total |-> 0, result |-> "none"]
<1>1. q \in Asked /\ "called" \in Places /\ 0 \in Range0 /\ "none" \in Results
  BY StoreAssumption DEF Asked, Places, Range0, Results
<1>2. r \in Records
  BY <1>1 DEF Records
<1>3. CallInv(r)
  BY <1>2 DEF CallInv
<1>4. call \in [Callers -> Records] /\ r.pc = "called"
  BY DEF CallPart
<1>5. call' = [call EXCEPT ![c] = r] /\ UNCHANGED <<closed, inflight>>
  BY Zenon DEF Begin
<1> HIDE DEF r
<1>6. OnlyCall(c) /\ call'[c] = r
  BY <1>2, <1>4, <1>5 DEF OnlyCall
<1>7. ~(call'[c].pc \in {"waiting", "locked"})
  BY <1>4, <1>6
<1>. QED
  BY <1>3, <1>5, <1>6, <1>7, CallKept, Zenon

LEMMA ContextDoneKeeps ==
    ASSUME CallPart, NEW c \in Callers, ContextDone(c)
    PROVE  CallPart'
<1> DEFINE l == call[c].pc = "waiting" /\ ~Holds(c, call[c].shard)
           r == [call[c] EXCEPT !.done = TRUE, !.late = l]
<1>1. call \in [Callers -> Records] /\ CallInv(call[c]) /\ call[c] \in Records
  BY Zenon DEF CallPart, CallInv
<1>2. call[c].pc # "idle" /\ l \in BOOLEAN /\ (l => call[c].pc = "waiting")
  BY DEF ContextDone
<1>3. call' = [call EXCEPT ![c] = r] /\ UNCHANGED <<closed, inflight>>
  BY Zenon DEF ContextDone
<1> HIDE DEF l
<1>4. /\ r \in Records /\ r.pc = call[c].pc /\ r.q = call[c].q /\ r.done = TRUE /\ r.late = l
      /\ r.shard = call[c].shard /\ r.total = call[c].total
  BY <1>1, <1>2, Zenon DEF Records
<1> HIDE DEF r
<1>5. CallInv(r)
  BY <1>1, <1>2, <1>4 DEF CallInv
<1>6. OnlyCall(c) /\ call'[c] = r
  BY <1>1, <1>3, <1>4 DEF OnlyCall
<1>7. closed /\ call'[c].pc \in {"waiting", "locked"} /\ call'[c].q.op # "len" => c \in inflight
  BY <1>4, <1>6, Zenon DEF CallPart, ClosedInv
<1>. QED
  BY <1>3, <1>5, <1>6, <1>7, CallKept, Zenon

LEMMA PreflightKeeps ==
    ASSUME CallPart, NEW c \in Callers, Preflight(c)
    PROVE  CallPart'
<1> DEFINE q == call[c].q
           first == IF IsWalk(q) THEN 1 ELSE ShardOf[q.key]
           stop == IF q.op # "len" /\ closed /\ ~(q.strict /\ call[c].done) THEN "unavailable"
                   ELSE IF call[c].done THEN "canceled" ELSE "go"
<1>1. /\ call \in [Callers -> Records] /\ CallInv(call[c]) /\ call[c] \in Records
      /\ call[c].pc = "called" /\ UNCHANGED <<closed, inflight>>
  BY Zenon DEF CallPart, CallInv, Preflight
<1>2. q \in Calls /\ ~(q.strict /\ call[c].late) /\ (q.op = "len" => call[c].total = 0)
      /\ call[c].total \in Nat
  <2>1. q \in Calls /\ ~(q.strict /\ call[c].late)
    BY <1>1 DEF CallInv
  <2>2. q.op = "len" => call[c].total = 0
    BY <1>1, Zenon DEF CallInv
  <2>3. call[c].total \in Nat
    BY <1>1 DEF Records
  <2>. QED
    BY <2>1, <2>2, <2>3, Zenon
<1>3. CASE stop # "go" /\ Return(c, stop)
  <2>1. stop \in {"unavailable", "canceled"} /\ {"unavailable", "canceled"} \subseteq Results
    BY <1>3 DEF Results
  <2>2. Answer(c, stop, FALSE, 0) /\ stop \in Results
    BY <1>3, <2>1, Zenon DEF Return
  <2>3. q.op = "len" => call[c].total + 0 <= MaxKeys
    BY <1>2, StoreAssumption
  <2> HIDE DEF stop
  <2>4. call[c].pc # "idle"
    BY <1>1
  <2>5. CallInv(call'[c]) /\ OnlyCall(c) /\ call'[c].pc = "idle"
    BY <1>2, <2>2, <2>3, <2>4, ReturnKeeps, Zenon
  <2>. QED
    BY <1>1, <2>5, CallKept
<1>4. CASE stop = "go" /\ call' = [call EXCEPT ![c].pc = "waiting", ![c].shard = first]
  <2>1. first \in 1 .. Shards
    <3>1. q.key \in Keys
      BY <1>2, CallAssumption, Zenon
    <3>2. ShardOf[q.key] \in 1 .. Shards /\ 1 \in 1 .. Shards
      BY <3>1, ShardFacts, Zenon
    <3>. QED
      BY <3>2, Zenon
  <2>2. q.op = "len" => first = 1 /\ Share(first - 1) = 0
    <3>1. q.op = "len" => first = 1
      BY DEF IsWalk
    <3>. QED
      BY <3>1, QuotaFacts
  <2>3. ~(closed /\ q.op # "len")
    BY <1>4
  <2> HIDE DEF first, stop
  <2>4. Moved(c, "waiting", first, call[c].total)
    BY <1>1, <1>4, Zenon DEF Records, Moved
  <2>5. q.op = "len" => call[c].total <= Share(first - 1)
    BY <1>2, <2>2
  <2>6. call[c].pc # "idle"
    BY <1>1
  <2>7. /\ CallInv(call'[c]) /\ OnlyCall(c)
        /\ call'[c].pc = "waiting" /\ call'[c].q = call[c].q
    BY <1>2, <2>1, <2>4, <2>5, <2>6, MoveKeeps
  <2>. QED
    BY <1>1, <2>3, <2>7, CallKept, Zenon
<1>. QED
  BY <1>3, <1>4, Zenon DEF Preflight

LEMMA GiveUpKeeps ==
    ASSUME CallPart, NEW c \in Callers, GiveUp(c)
    PROVE  CallPart'
<1>1. /\ call[c].pc = "waiting" /\ Answer(c, "canceled", FALSE, 0) /\ Gone(c)
      /\ UNCHANGED closed
  BY Zenon DEF GiveUp, Return
<1>2. CallInv(call[c]) /\ call[c].pc # "idle" /\ call[c].total \in Nat
  BY <1>1 DEF CallPart, Records
<1>3. call[c].q.op = "len" => call[c].total + 0 <= MaxKeys
  BY <1>1, <1>2, WalkBound
<1>4. "canceled" \in Results
  BY DEF Results
<1>5. CallInv(call'[c]) /\ OnlyCall(c) /\ call'[c].pc = "idle"
  BY <1>1, <1>2, <1>3, <1>4, ReturnKeeps, Zenon
<1>. QED
  BY <1>1, <1>5, CallKept

LEMMA EnterKeeps ==
    ASSUME CallPart, NEW c \in Callers, Enter(c)
    PROVE  CallPart'
<1>1. call[c].pc = "waiting" /\ UNCHANGED closed
  BY Zenon DEF Enter
<1>2. /\ CallInv(call[c]) /\ call[c].pc # "idle" /\ call[c] \in Records
      /\ call \in [Callers -> Records]
  BY <1>1 DEF CallPart
<1>3. CASE call[c].q.strict /\ call[c].done /\ Return(c, "canceled") /\ Gone(c)
  <2>1. call[c].q.op = "len" => call[c].total + 0 <= MaxKeys
    BY <1>1, <1>2, WalkBound
  <2>2. "canceled" \in Results /\ Answer(c, "canceled", FALSE, 0)
    BY <1>3, Zenon DEF Results, Return
  <2>3. CallInv(call'[c]) /\ OnlyCall(c) /\ call'[c].pc = "idle"
    BY <1>2, <2>1, <2>2, ReturnKeeps, Zenon
  <2>. QED
    BY <1>1, <1>3, <2>3, CallKept
<1>4. CASE /\ ~(call[c].q.strict /\ call[c].done)
           /\ call' = [call EXCEPT ![c].pc = "locked"] /\ UNCHANGED inflight
  <2>1. /\ call[c].shard \in 1 .. Shards /\ ~(call[c].q.strict /\ call[c].late)
        /\ (call[c].q.op = "len" => call[c].total <= Share(call[c].shard - 1))
    BY <1>1, <1>2, <1>4 DEF CallInv
  <2>2. call[c].total \in Nat
    BY <1>2 DEF Records
  <2>3. Moved(c, "locked", call[c].shard, call[c].total)
    BY <1>2, <1>4, Zenon DEF Records, Moved
  <2>4. /\ CallInv(call'[c]) /\ OnlyCall(c)
        /\ call'[c].pc = "locked" /\ call'[c].q = call[c].q
    BY <1>2, <2>1, <2>2, <2>3, MoveKeeps
  <2>5. closed /\ call'[c].q.op # "len" => c \in inflight
    BY <1>1, <2>4 DEF CallPart, ClosedInv
  <2>. QED
    BY <1>1, <1>4, <2>4, <2>5, CallKept, Zenon
<1>. QED
  BY <1>3, <1>4, Zenon DEF Enter

\* An operation under the lock returns.
LEMMA FinishKeeps ==
    ASSUME CallPart, NEW c \in Callers, call[c].pc = "locked", call[c].q.op # "len",
           NEW result \in Results, NEW charged \in BOOLEAN, Finish(c, result, charged),
           UNCHANGED closed
    PROVE  CallPart'
<1>1. CallInv(call[c]) /\ call[c].pc # "idle" /\ Answer(c, result, charged, 0) /\ Gone(c)
  BY DEF CallPart, Finish
<1>2. ~(call[c].q.strict /\ call[c].late)
  BY <1>1 DEF CallInv
<1>3. CallInv(call'[c]) /\ OnlyCall(c) /\ call'[c].pc = "idle"
  BY <1>1, <1>2, ReturnKeeps
<1>. QED
  BY <1>1, <1>3, CallKept

\* A walk goes on to the next shard, or returns.
LEMMA OnwardKeeps ==
    ASSUME CallPart, NEW c \in Callers, call[c].pc = "locked", NEW n \in Nat, Onward(c, n),
           call[c].q.op = "len" => n <= Quota(call[c].shard), UNCHANGED closed
    PROVE  CallPart'
<1> DEFINE s == call[c].shard
<1>1. /\ CallInv(call[c]) /\ call[c].pc # "idle" /\ call[c] \in Records
      /\ call \in [Callers -> Records]
  BY DEF CallPart
<1>2. /\ s \in 1 .. Shards /\ ~(call[c].q.strict /\ call[c].late)
      /\ (call[c].q.op = "len" => call[c].total <= Share(s - 1))
  BY <1>1 DEF CallInv
<1>3. call[c].total \in Nat /\ call[c].total + n \in Nat
  BY <1>1 DEF Records
<1>4. /\ Quota(s) \in Nat /\ Share(s) \in Nat /\ Share(s - 1) \in Nat
      /\ Share(s) = Share(s - 1) + Quota(s) /\ Share(s) <= MaxKeys
  BY <1>2, QuotaFacts, Zenon
<1>5. call[c].q.op = "len" => call[c].total + n <= Share(s)
  BY <1>2, <1>3, <1>4
<1> HIDE DEF s
<1>6. CASE /\ s < Shards /\ UNCHANGED inflight
           /\ call' = [call EXCEPT ![c].pc = "waiting", ![c].shard = s + 1, ![c].total = @ + n]
  <2>1. Moved(c, "waiting", s + 1, call[c].total + n)
    BY <1>1, <1>6 DEF Records, Moved
  <2>2. s + 1 \in 1 .. Shards /\ (s + 1) - 1 = s
    BY <1>2, <1>6, StoreAssumption
  <2>3. call[c].q.op = "len" => call[c].total + n <= Share((s + 1) - 1)
    BY <1>5, <2>2, Zenon
  <2>4. /\ CallInv(call'[c]) /\ OnlyCall(c)
        /\ call'[c].pc = "waiting" /\ call'[c].q = call[c].q
    BY <1>1, <1>2, <1>3, <2>1, <2>2, <2>3, MoveKeeps
  <2>5. closed /\ call'[c].q.op # "len" => c \in inflight
    BY <2>4 DEF CallPart, ClosedInv
  <2>. QED
    BY <1>6, <2>4, <2>5, CallKept, Zenon
<1>7. CASE Answer(c, "ok", FALSE, n) /\ Gone(c)
  <2>1. call[c].q.op = "len" => call[c].total + n <= MaxKeys
    BY <1>3, <1>4, <1>5, StoreAssumption
  <2>2. "ok" \in Results
    BY DEF Results
  <2>3. CallInv(call'[c]) /\ OnlyCall(c) /\ call'[c].pc = "idle"
    BY <1>1, <1>2, <1>7, <2>1, <2>2, ReturnKeeps, Zenon
  <2>. QED
    BY <1>7, <2>3, CallKept
<1>. QED
  BY <1>6, <1>7, Zenon DEF Onward, s

------------------------------------------------------------------------------
(* Maps. *)

\* An entry is never taken for the absence of one.
LEMMA AbsentFacts ==
    /\ Absent \notin Entries
    /\ Absent.used = 0 /\ Absent.until = 0 /\ Absent.lastSeen = 0 /\ Absent.algorithm = "none"
BY DEF Absent, Entries

\* The numbers of a key.
LEMMA StateFacts ==
    ASSUME NEW e \in Entries \cup {Absent}
    PROVE  e.lastSeen \in 0 .. LastInstant /\ e.used \in 0 .. Budget /\ e.until \in 0 .. LastInstant + Lease
<1>1. CASE e \in Entries
  BY <1>1 DEF Entries
<1>2. CASE e = Absent
  BY <1>2, AbsentFacts, StoreAssumption
<1>. QED
  BY <1>1, <1>2

\* What a new entry holds.
LEMMA NewEntryFacts ==
    ASSUME NEW algorithm \in {"rate", "lease"}, NEW now \in 0 .. LastInstant
    PROVE  /\ NewEntry(algorithm, now) \in Entries
           /\ NewEntry(algorithm, now).used = 0 /\ NewEntry(algorithm, now).until = 0
           /\ NewEntry(algorithm, now).algorithm = algorithm /\ NewEntry(algorithm, now).lastSeen = now
<1>1. 0 \in 0 .. Budget /\ 0 \in 0 .. LastInstant + Lease
  BY StoreAssumption
<1>. QED
  BY <1>1 DEF NewEntry, Entries

\* An admission counts one request as long as the budget has one, and keeps
\* the lease; what it grants was below the limit.
LEMMA AdmittedFacts ==
    ASSUME NEW e \in Entries, NEW now \in 0 .. LastInstant
    PROVE  LET a == Admitted(e, now) IN
           /\ a.entry \in Entries /\ a.ok \in BOOLEAN /\ a.entry.until = e.until
           /\ e.used <= a.entry.used /\ (a.ok => a.entry.used = e.used + 1 /\ e.used < Budget)
           /\ a.entry.lastSeen = LaterOf(now, e.lastSeen)
<1> DEFINE t == LaterOf(now, e.lastSeen)
           u == IF e.used < Budget THEN e.used + 1 ELSE e.used
<1>1. /\ e.lastSeen \in 0 .. LastInstant /\ e.used \in 0 .. Budget /\ LastInstant \in Nat /\ Budget \in Nat
  BY StateFacts, StoreAssumption
<1>2. t \in 0 .. LastInstant /\ u \in 0 .. Budget
  BY <1>1 DEF LaterOf
<1>3. e.used <= u /\ (e.used < Budget => u = e.used + 1)
  BY <1>1
<1>4. /\ Admitted(e, now).entry = [e EXCEPT !.lastSeen = t, !.used = u]
      /\ Admitted(e, now).ok = (e.used < Budget)
  BY DEF Admitted
<1> HIDE DEF t, u
<1>5. LET f == [e EXCEPT !.lastSeen = t, !.used = u]
      IN  f \in Entries /\ f.until = e.until /\ f.used = u /\ f.lastSeen = t
  BY <1>2, Zenon DEF Entries
<1>6. (e.used < Budget) \in BOOLEAN
  BY <1>1
<1>. QED
  BY <1>3, <1>4, <1>5, <1>6, Zenon DEF t

\* An acquisition keeps a lease that has not expired, and charges no budget.
LEMMA AcquiredFacts ==
    ASSUME NEW e \in Entries, NEW now \in 0 .. LastInstant
    PROVE  LET a == Acquired(e, now) IN
           /\ a.entry \in Entries /\ a.ok \in BOOLEAN /\ a.entry.used = e.used
           /\ (e.until > LastInstant => a.entry.until = e.until)
           /\ a.entry.lastSeen = LaterOf(now, e.lastSeen)
<1> DEFINE t == LaterOf(now, e.lastSeen)
           u == IF e.until > t THEN e.until ELSE t + Lease
<1>1. /\ e.lastSeen \in 0 .. LastInstant /\ e.until \in 0 .. LastInstant + Lease
      /\ LastInstant \in Nat /\ Lease \in Nat
  BY StateFacts, StoreAssumption
<1>2. t \in 0 .. LastInstant
  BY <1>1 DEF LaterOf
<1>3. u \in 0 .. LastInstant + Lease /\ (e.until > LastInstant => u = e.until)
  BY <1>1, <1>2
<1>4. /\ Acquired(e, now).entry = [e EXCEPT !.lastSeen = t, !.until = u]
      /\ Acquired(e, now).ok \in BOOLEAN
  BY DEF Acquired
<1> HIDE DEF t, u
<1>5. LET f == [e EXCEPT !.lastSeen = t, !.until = u]
      IN  f \in Entries /\ f.until = u /\ f.used = e.used /\ f.lastSeen = t
  BY <1>2, <1>3, Zenon DEF Entries
<1>. QED
  BY <1>3, <1>4, <1>5, Zenon DEF t

\* Among keys there is an oldest one.
LEMMA OldestExists ==
    ASSUME states \in [Keys -> Entries \cup {Absent}], NEW S \in SUBSET Keys, S # {}
    PROVE  OldestOf(S) \in S
<1> DEFINE T == {states[k].lastSeen : k \in S}
<1>1. Keys \subseteq Nat /\ \A k \in S : states[k].lastSeen \in Nat
  <2>1. \A k \in S : states[k] \in Entries \cup {Absent}
    BY Zenon
  <2>2. \A k \in S : states[k].lastSeen \in 0 .. LastInstant
    BY <2>1, StateFacts, Zenon
  <2>. QED
    BY <2>2, StoreAssumption
<1>2. T \in SUBSET Nat /\ T # {}
  BY <1>1, Zenon
<1>3. PICK m \in T : \A y \in T : m <= y
  BY <1>2, Least, Zenon
<1> DEFINE K == {k \in S : states[k].lastSeen = m}
<1>4. K \in SUBSET Nat /\ K # {}
  BY <1>1, <1>3, Zenon
<1>5. PICK k \in K : \A j \in K : k <= j
  BY <1>4, Least, Zenon
<1>6. k \in S /\ \A j \in S : \/ states[k].lastSeen < states[j].lastSeen
                              \/ states[k].lastSeen = states[j].lastSeen /\ k <= j
  <2>1. k \in S /\ states[k].lastSeen = m
    BY <1>5, Zenon
  <2>2. ASSUME NEW j \in S
        PROVE  \/ states[k].lastSeen < states[j].lastSeen
               \/ states[k].lastSeen = states[j].lastSeen /\ k <= j
    <3>1. m <= states[j].lastSeen /\ m \in Nat /\ states[j].lastSeen \in Nat
      BY <1>1, <1>2, <1>3, <2>2
    <3>2. states[j].lastSeen = m => k <= j
      BY <1>5, <2>2, Zenon
    <3>. QED
      BY <2>1, <3>1, <3>2
  <2>. QED
    BY <2>1, <2>2, Zenon
<1>. QED
  BY <1>6, Zenon DEF OldestOf

\* getOrCreate drops a key only of a full shard, only where eviction is
\* configured, and never one whose lease has not expired.
LEMMA VictimsFacts ==
    ASSUME MapPart, NEW s \in 1 .. Shards, NEW now, NEW gone \in Victims(s, now)
    PROVE  \/ gone = {} /\ Cardinality(KeysOf(s)) < Quota(s)
           \/ /\ ~RejectOnCapacity
              /\ \E o \in KeysOf(s) : gone = {o} /\ ~(states[o].until > now)
<1>1. Cardinality(KeysOf(s)) <= Quota(s) /\ Cardinality(KeysOf(s)) \in Nat /\ Quota(s) \in Nat
  BY KeysFinite, QuotaFacts, Zenon DEF MapPart, ShardInv
<1>2. CASE Cardinality(KeysOf(s)) # Quota(s)
  BY <1>1, <1>2 DEF Victims
<1>3. CASE Cardinality(KeysOf(s)) = Quota(s)
  <2>1. /\ ~(RejectOnCapacity \/ Evictable(s, now) = {})
        /\ gone = {OldestOf(Evictable(s, now))}
    BY <1>3, Zenon DEF Victims
  <2>2. Evictable(s, now) \in SUBSET Keys
    BY Zenon DEF Evictable, KeysOf
  <2>3. OldestOf(Evictable(s, now)) \in Evictable(s, now)
    BY <2>1, <2>2, OldestExists, Zenon DEF MapPart
  <2>. QED
    BY <2>1, <2>3, Zenon DEF Evictable
<1>. QED
  BY <1>2, <1>3, Zenon

\* What a call drops to store its entry for k, and the maps when it has.
Room(k, now) == IF states[k] # Absent THEN {{}} ELSE Victims(ShardOf[k], now)

Written(k, e, gone) ==
    [j \in Keys |-> IF j = k THEN e ELSE IF j \in gone THEN Absent ELSE states[j]]

\* Writing an entry for a key keeps every shard within its quota, when the
\* key was present or getOrCreate made room for it.
LEMMA WriteKeeps ==
    ASSUME MapPart, NEW k \in Keys, NEW e \in Entries, NEW now,
           NEW gone \in Room(k, now), states' = Written(k, e, gone)
    PROVE  /\ states' \in [Keys -> Entries \cup {Absent}] /\ ShardInv' /\ states'[k] = e
           /\ \A j \in Keys \ {k} : \/ states'[j] = states[j]
                                    \/ ~RejectOnCapacity /\ ~(states[j].until > now)
<1> DEFINE s == ShardOf[k]
<1>0. s \in 1 .. Shards /\ states \in [Keys -> Entries \cup {Absent}] /\ e # Absent
  BY ShardFacts, AbsentFacts, Zenon DEF MapPart
<1>1. \/ states[k] # Absent /\ gone = {}
      \/ states[k] = Absent /\ gone = {} /\ Cardinality(KeysOf(s)) < Quota(s)
      \/ /\ states[k] = Absent /\ ~RejectOnCapacity
         /\ \E o \in KeysOf(s) : gone = {o} /\ ~(states[o].until > now)
  <2>1. CASE states[k] # Absent
    BY <2>1, Zenon DEF Room
  <2>2. CASE states[k] = Absent
    <3>1. gone \in Victims(s, now)
      BY <2>2, Zenon DEF Room
    <3>. QED
      BY <1>0, <2>2, <3>1, VictimsFacts, Zenon
  <2>. QED
    BY <2>1, <2>2, Zenon
<1>2. gone \subseteq KeysOf(s)
  BY <1>1, Zenon
<1>3. states' \in [Keys -> Entries \cup {Absent}] /\ states'[k] = e
  BY <1>0, Zenon DEF Written
<1>4. \A j \in Keys \ {k} : \/ states'[j] = states[j]
                            \/ ~RejectOnCapacity /\ ~(states[j].until > now)
  BY <1>1, Zenon DEF Written
<1>5. ASSUME NEW t \in 1 .. Shards PROVE Cardinality(KeysOf(t)') <= Quota(t)
  <2>0. Cardinality(KeysOf(t)) <= Quota(t) /\ Cardinality(KeysOf(t)) \in Nat
        /\ IsFiniteSet(KeysOf(t)) /\ Quota(t) \in Nat
    BY KeysFinite, QuotaFacts, Zenon DEF MapPart, ShardInv
  <2>1. CASE t # s \/ states[k] # Absent
    <3>1. KeysOf(t)' = KeysOf(t)
      BY <1>0, <1>1, <1>2, <2>1, Zenon DEF KeysOf, Written
    <3>. QED
      BY <2>0, <3>1, Zenon
  <2>2. CASE t = s /\ states[k] = Absent /\ gone = {} /\ Cardinality(KeysOf(s)) < Quota(s)
    <3>1. KeysOf(t)' = KeysOf(t) \cup {k} /\ k \notin KeysOf(t)
      BY <1>0, <2>2, Zenon DEF KeysOf, Written
    <3>2. Cardinality(KeysOf(t)') = Cardinality(KeysOf(t)) + 1
      BY <2>0, <3>1, FS_AddElement, Zenon
    <3>. QED
      BY <2>0, <2>2, <3>2
  <2>3. CASE t = s /\ states[k] = Absent /\ \E o \in KeysOf(s) : gone = {o}
    <3>1. PICK o \in KeysOf(s) : gone = {o}
      BY <2>3, Zenon
    <3> DEFINE R == KeysOf(t) \ {o}
    <3>2. KeysOf(t)' = R \cup {k} /\ k \notin R /\ o \in KeysOf(t)
      BY <1>0, <2>3, <3>1, Zenon DEF KeysOf, Written
    <3>3. IsFiniteSet(R) /\ Cardinality(R) = Cardinality(KeysOf(t)) - 1
      BY <2>0, <3>2, FS_RemoveElement, Zenon
    <3> HIDE DEF R
    <3>4. Cardinality(R \cup {k}) = Cardinality(R) + 1
      BY <3>2, <3>3, FS_AddElement, Zenon
    <3>. QED
      BY <2>0, <3>2, <3>3, <3>4
  <2>. QED
    BY <1>1, <2>1, <2>2, <2>3, Zenon
<1>. QED
  BY <1>3, <1>4, <1>5, Zenon DEF ShardInv

\* What a call may do to the maps: keep the invariant, and every lease that
\* no clock can consider expired.
MapStep ==
    /\ MapPart'
    /\ \A k \in Keys : states[k].until > LastInstant => states'[k].until = states[k].until

LEMMA MapSame ==
    ASSUME MapPart, UNCHANGED <<states, granted>>
    PROVE  MapStep
<1>1. MapPart'
  BY Zenon DEF MapPart, ShardInv, BudgetInv, KeysOf
<1>. QED
  BY <1>1, Zenon DEF MapStep

\* A step that adds no key and lowers no count but that of a key it drops.
LEMMA MapShape ==
    ASSUME MapPart, states' \in [Keys -> Entries \cup {Absent}],
           granted' \in [Keys -> Tallies],
           \A j \in Keys : /\ states[j] = Absent => states'[j] = Absent
                           /\ RejectOnCapacity =>
                                 \/ /\ states'[j].used = states[j].used
                                    /\ states'[j].lastSeen = states[j].lastSeen
                                    /\ granted'[j] = granted[j]
                                 \/ granted'[j] = NoGrants
    PROVE  MapPart'
<1>1. ASSUME NEW t \in 1 .. Shards PROVE Cardinality(KeysOf(t)') <= Quota(t)
  <2>1. KeysOf(t)' \subseteq KeysOf(t)
    BY Zenon DEF KeysOf
  <2>2. /\ Cardinality(KeysOf(t)) <= Quota(t) /\ Cardinality(KeysOf(t)) \in Nat
        /\ IsFiniteSet(KeysOf(t)) /\ Quota(t) \in Nat
    BY KeysFinite, QuotaFacts, Zenon DEF MapPart, ShardInv
  <2>3. Cardinality(KeysOf(t)') <= Cardinality(KeysOf(t)) /\ IsFiniteSet(KeysOf(t)')
    BY <2>1, <2>2, FS_Subset, Zenon
  <2>4. Cardinality(KeysOf(t)') \in Nat
    BY <2>3, FS_CardinalityType, Zenon
  <2>. QED
    BY <2>2, <2>3, <2>4
<1>2. ASSUME RejectOnCapacity, NEW j \in Keys PROVE Backed(granted'[j], states'[j])
  <2>1. CASE /\ states'[j].used = states[j].used /\ states'[j].lastSeen = states[j].lastSeen
             /\ granted'[j] = granted[j]
    BY <1>2, <2>1, Zenon DEF MapPart, BudgetInv, Backed
  <2>2. CASE granted'[j] = NoGrants
    <3>1. states'[j].used \in 0 .. Budget /\ states'[j].lastSeen \in 0 .. LastInstant
      BY StateFacts, Zenon
    <3>2. granted'[j].n = 0 /\ granted'[j].at = 0
      BY <2>2 DEF NoGrants
    <3>3. 0 <= states'[j].used /\ 0 <= states'[j].lastSeen
      BY <3>1, StoreAssumption
    <3>. QED
      BY <3>2, <3>3, Zenon DEF Backed
  <2>. QED
    BY <1>2, <2>1, <2>2, Zenon
<1>. QED
  BY <1>1, <1>2, Zenon DEF MapPart, ShardInv, BudgetInv

\* The entry a call finds or creates, what becomes of it, and what is dropped for it.
Grants(q, found, gone, a) ==
    /\ found = IF states[q.key] # Absent THEN states[q.key]
               ELSE NewEntry(IF q.op = "admit" THEN "rate" ELSE "lease", q.now)
    /\ a = IF q.op = "admit" THEN Admitted(found, q.now) ELSE Acquired(found, q.now)
    /\ gone \in Room(q.key, q.now)
    /\ states' = Written(q.key, a.entry, gone)
    /\ granted' = IF q.op = "admit" THEN Count(q.key, a.ok, q.now) ELSE granted

\* An admission or acquisition that finds or creates its entry.
LEMMA GrantKeeps ==
    ASSUME MapPart, NEW q \in Calls, NEW found \in Entries, NEW gone, NEW a,
           Grants(q, found, gone, a)
    PROVE  MapStep /\ a.ok \in BOOLEAN
<1> DEFINE k == q.key
<1>1. k \in Keys /\ q.now \in 0 .. LastInstant
  BY CallAssumption, Zenon
<1>2. /\ a.entry \in Entries /\ a.ok \in BOOLEAN /\ found.used <= a.entry.used
      /\ (a.ok /\ q.op = "admit" => a.entry.used = found.used + 1 /\ found.used < Budget)
      /\ (found.until > LastInstant => a.entry.until = found.until)
      /\ a.entry.lastSeen = LaterOf(q.now, found.lastSeen)
  <2>1. CASE q.op = "admit"
    BY <1>1, <2>1, AdmittedFacts, Zenon DEF Grants
  <2>2. CASE q.op # "admit"
    <3>1. found.used \in 0 .. Budget
      BY StateFacts, Zenon
    <3>2. found.used <= found.used
      BY <3>1
    <3>. QED
      BY <1>1, <2>2, <3>2, AcquiredFacts, Zenon DEF Grants
  <2>. QED
    BY <2>1, <2>2, Zenon
<1>3. /\ states' \in [Keys -> Entries \cup {Absent}] /\ ShardInv' /\ states'[k] = a.entry
      /\ \A j \in Keys \ {k} : \/ states'[j] = states[j]
                               \/ ~RejectOnCapacity /\ ~(states[j].until > q.now)
  BY <1>1, <1>2, WriteKeeps, Zenon DEF Grants
<1>4. states \in [Keys -> Entries \cup {Absent}] /\ granted \in [Keys -> Tallies]
  BY Zenon DEF MapPart
<1>5. /\ found.until \in Nat /\ found.used \in Nat /\ a.entry.used \in Nat /\ found.lastSeen \in Nat
      /\ granted[k].n \in Nat /\ granted[k].at \in Nat /\ q.now \in Nat
      /\ Budget \in Nat /\ LastInstant \in Nat
  <2>1. /\ found.until \in 0 .. LastInstant + Lease /\ found.used \in 0 .. Budget
        /\ found.lastSeen \in 0 .. LastInstant /\ a.entry.used \in 0 .. Budget
    BY <1>2, StateFacts, Zenon
  <2>2. granted[k].n \in Nat /\ granted[k].at \in Nat
    BY <1>1, <1>4 DEF Tallies
  <2>3. Budget \in Nat /\ LastInstant \in Nat /\ Lease \in Nat
    BY StoreAssumption
  <2>. QED
    BY <1>1, <2>1, <2>2, <2>3
<1>6. /\ granted' \in [Keys -> Tallies] /\ \A j \in Keys \ {k} : granted'[j] = granted[j]
      /\ \/ granted'[k] = granted[k]
         \/ /\ q.op = "admit" /\ granted'[k].at = LaterOf(q.now, granted[k].at)
            /\ \/ granted'[k].n = granted[k].n
               \/ a.ok /\ granted'[k].n = granted[k].n + 1
  <2>1. CASE q.op = "admit"
    <3> DEFINE n == IF a.ok /\ granted[k].n <= Budget THEN granted[k].n + 1 ELSE granted[k].n
               at == LaterOf(q.now, granted[k].at)
               g == [n |-> n, at |-> at]
    <3>1. n \in Nat /\ (n = granted[k].n \/ (a.ok /\ n = granted[k].n + 1)) /\ at \in Nat
      BY <1>5 DEF LaterOf
    <3>2. granted' = [granted EXCEPT ![k] = g]
      BY <2>1 DEF Count, Grants
    <3> HIDE DEF n, at
    <3>3. g \in Tallies /\ g.n = n /\ g.at = at
      BY <3>1 DEF Tallies
    <3> HIDE DEF g
    <3>4. granted' \in [Keys -> Tallies] /\ granted'[k] = g /\ \A j \in Keys \ {k} : granted'[j] = granted[j]
      BY <1>1, <1>4, <3>2, <3>3, Zenon
    <3>. QED
      BY <2>1, <3>1, <3>3, <3>4, Zenon DEF at
  <2>2. CASE q.op # "admit"
    BY <1>1, <1>4, <2>2, Zenon DEF Grants
  <2>. QED
    BY <2>1, <2>2, Zenon
<1>7. ASSUME RejectOnCapacity, NEW j \in Keys
      PROVE  Backed(granted'[j], states'[j])
  <2>1. CASE j # k
    BY <1>3, <1>6, <1>7, <2>1, Zenon DEF MapPart, BudgetInv
  <2>2. CASE j = k
    <3>1. granted[k].n <= states[k].used /\ granted[k].at <= states[k].lastSeen
      BY <1>1, <1>7, Zenon DEF MapPart, BudgetInv, Backed
    <3>2. granted[k].n <= found.used /\ granted[k].at <= found.lastSeen
      <4>1. CASE states[k] # Absent
        BY <3>1, <4>1, Zenon DEF Grants
      <4>2. CASE states[k] = Absent
        <5>1. (IF q.op = "admit" THEN "rate" ELSE "lease") \in {"rate", "lease"}
          BY Zenon
        <5>2. found.used = 0
          BY <1>1, <4>2, <5>1, NewEntryFacts, Zenon DEF Grants
        <5>3. granted[k].n <= 0 /\ granted[k].at <= 0
          BY <3>1, <4>2, AbsentFacts, Zenon
        <5>. QED
          BY <1>5, <5>2, <5>3
      <4>. QED
        BY <4>1, <4>2, Zenon
    <3>3. granted'[k].n <= a.entry.used
      <4>1. found.used <= a.entry.used /\ (a.ok /\ q.op = "admit" => a.entry.used = found.used + 1)
        BY <1>2, Zenon
      <4>2. CASE granted'[k].n = granted[k].n
        BY <1>5, <3>2, <4>1, <4>2
      <4>3. CASE a.ok /\ q.op = "admit" /\ granted'[k].n = granted[k].n + 1
        BY <1>5, <3>2, <4>1, <4>3
      <4>. QED
        BY <1>6, <4>2, <4>3, Zenon
    <3>4. granted'[k].at <= a.entry.lastSeen
      <4>1. a.entry.lastSeen = LaterOf(q.now, found.lastSeen)
        BY <1>2, Zenon
      <4>2. CASE granted'[k] = granted[k]
        BY <1>5, <3>2, <4>1, <4>2 DEF LaterOf
      <4>3. CASE granted'[k].at = LaterOf(q.now, granted[k].at)
        BY <1>5, <3>2, <4>1, <4>3 DEF LaterOf
      <4>. QED
        BY <1>6, <4>2, <4>3, Zenon
    <3>. QED
      BY <1>3, <2>2, <3>3, <3>4, Zenon DEF Backed
  <2>. QED
    BY <2>1, <2>2, Zenon
<1>8. ASSUME NEW j \in Keys, states[j].until > LastInstant
      PROVE  states'[j].until = states[j].until
  <2>1. states[j].until \in Nat /\ q.now \in Nat /\ q.now <= LastInstant
    BY <1>1, <1>4, <1>5, StateFacts, StoreAssumption
  <2>2. states[j].until > q.now /\ states[j].until # 0
    BY <1>5, <1>8, <2>1
  <2>3. CASE j # k
    BY <1>3, <2>2, <2>3, Zenon
  <2>4. CASE j = k
    <3>1. states[k] # Absent
      BY <2>2, <2>4, AbsentFacts, Zenon
    <3>2. found = states[k]
      BY <3>1, Zenon DEF Grants
    <3>. QED
      BY <1>2, <1>3, <1>8, <2>4, <3>2, Zenon
  <2>. QED
    BY <2>3, <2>4, Zenon
<1>. QED
  BY <1>2, <1>3, <1>6, <1>7, <1>8, Zenon DEF MapStep, MapPart, BudgetInv

\* What a caller that changes the maps has done: it held the lock of a call
\* that was past its preflight, and has left it.
Touched(c) == call[c].pc = "locked" /\ call[c].q.op # "len" /\ call'[c].pc # "locked"

\* The step of a call under the lock.
UnderLock(c) == CallPart' /\ MapStep /\ closed' = closed /\ (states' # states => Touched(c))

LEMMA AdmitKeeps ==
    ASSUME StoreInv, NEW c \in Callers, AdmitLocked(c)
    PROVE  UnderLock(c)
<1> DEFINE q == call[c].q
           algorithm == IF q.op = "admit" THEN "rate" ELSE "lease"
           found == IF states[q.key] # Absent THEN states[q.key] ELSE NewEntry(algorithm, q.now)
           after == IF q.op = "admit" THEN Admitted(found, q.now) ELSE Acquired(found, q.now)
<1>1. CallPart /\ MapPart /\ CallInv(call[c]) /\ call[c].pc = "locked" /\ UNCHANGED closed
  BY Zenon DEF StoreInv, CallPart, AdmitLocked
<1>2. q \in Calls /\ q.op # "len"
  <2>1. call[c].pc # "idle" /\ q.op \in {"admit", "acquire"}
    BY <1>1, Zenon DEF AdmitLocked
  <2>. QED
    BY <1>1, <2>1 DEF CallInv
<1>3. found \in Entries
  <2>1. q.key \in Keys /\ q.now \in 0 .. LastInstant
    BY <1>2, CallAssumption, Zenon
  <2>2. algorithm \in {"rate", "lease"}
    BY Zenon
  <2>3. states[q.key] \in Entries \cup {Absent}
    BY <1>1, <2>1, Zenon DEF MapPart
  <2>. QED
    BY <2>1, <2>2, <2>3, NewEntryFacts, Zenon
<1>4. ASSUME NEW result \in Results, NEW charged \in BOOLEAN, Finish(c, result, charged)
      PROVE  CallPart' /\ call'[c].pc # "locked"
  <2>1. CallPart'
    BY <1>1, <1>2, <1>4, FinishKeeps
  <2>2. call'[c].pc = "idle"
    BY <1>1, <1>4, AnswerFacts, Zenon DEF Finish, CallPart
  <2>. QED
    BY <2>1, <2>2
<1>5. CASE \E result \in {"corrupt", "unavailable"} :
              Finish(c, result, FALSE) /\ UNCHANGED <<states, granted>>
  <2>1. PICK result \in {"corrupt", "unavailable"} :
              Finish(c, result, FALSE) /\ UNCHANGED <<states, granted>>
    BY <1>5, Zenon
  <2>2. result \in Results
    BY DEF Results
  <2>3. CallPart'
    BY <1>4, <2>1, <2>2, Zenon
  <2>. QED
    BY <1>1, <2>1, <2>3, MapSame, Zenon DEF UnderLock
<1>6. CASE /\ \E gone \in Room(q.key, q.now) : states' = Written(q.key, after.entry, gone)
           /\ granted' = IF q.op = "admit" THEN Count(q.key, after.ok, q.now) ELSE granted
           /\ Finish(c, IF after.ok THEN "allowed" ELSE "limited", after.ok)
  <2>1. PICK gone \in Room(q.key, q.now) : states' = Written(q.key, after.entry, gone)
    BY <1>6, Zenon
  <2> HIDE DEF q, after, found, algorithm
  <2>2. MapStep /\ after.ok \in BOOLEAN
    <3>1. Grants(q, found, gone, after)
      BY <1>6, <2>1, Zenon DEF Grants, found, after, algorithm
    <3>. QED
      BY <1>1, <1>2, <1>3, <3>1, GrantKeeps, Zenon
  <2>3. (IF after.ok THEN "allowed" ELSE "limited") \in Results
    BY DEF Results
  <2>4. CallPart' /\ call'[c].pc # "locked"
    BY <1>4, <1>6, <2>2, <2>3, Zenon
  <2>. QED
    BY <1>1, <1>2, <2>2, <2>4, Zenon DEF UnderLock, Touched, q
<1>. QED
  BY <1>5, <1>6, Zenon DEF AdmitLocked, Room, Written

LEMMA ReleaseKeeps ==
    ASSUME StoreInv, NEW c \in Callers, Release(c)
    PROVE  /\ CallPart' /\ MapPart' /\ closed' = closed
           /\ states' # states => Touched(c) /\ call'[c].result = "released"
           /\ \A k \in Keys \ {call[c].q.key} : states'[k] = states[k]
<1> DEFINE k == call[c].q.key
<1>1. CallPart /\ MapPart /\ CallInv(call[c]) /\ call[c].pc = "locked" /\ UNCHANGED closed
      /\ UNCHANGED granted /\ call[c].q.op = "release"
  BY Zenon DEF StoreInv, CallPart, Release
<1>2. call[c].q \in Calls /\ call[c].q.op # "len" /\ k \in Keys
  <2>1. call[c].q \in Calls /\ call[c].q.op # "len"
    BY <1>1 DEF CallInv
  <2>. QED
    BY <2>1, CallAssumption, Zenon
<1>3. ASSUME NEW result \in {"not_found", "released"}, Finish(c, result, FALSE)
      PROVE  CallPart' /\ call'[c].pc # "locked" /\ call'[c].result = result
  <2>0. result \in Results /\ call \in [Callers -> Records]
    BY <1>1 DEF Results, CallPart
  <2>1. CallPart'
    BY <1>1, <1>2, <1>3, <2>0, FinishKeeps, Zenon
  <2>2. call'[c].pc = "idle" /\ call'[c].result = result
    BY <1>1, <1>3, <2>0, AnswerFacts, Zenon DEF Finish
  <2>. QED
    BY <2>1, <2>2
<1>4. CASE Finish(c, "not_found", FALSE) /\ UNCHANGED states
  <2>1. CallPart'
    BY <1>3, <1>4, Zenon
  <2>2. MapPart'
    BY <1>1, <1>4, MapSame, Zenon DEF MapStep
  <2>. QED
    BY <1>1, <1>4, <2>1, <2>2, Zenon
<1>5. CASE /\ states[k].until # 0 /\ states' = [states EXCEPT ![k].until = 0]
           /\ Finish(c, "released", FALSE)
  <2>1. CallPart' /\ Touched(c) /\ call'[c].result = "released"
    BY <1>1, <1>2, <1>3, <1>5, Zenon DEF Touched
  <2>2. states \in [Keys -> Entries \cup {Absent}]
    BY <1>1, Zenon DEF MapPart
  <2>3. states[k] \in Entries
    BY <1>2, <1>5, <2>2, AbsentFacts, Zenon
  <2> DEFINE e == [states[k] EXCEPT !.until = 0]
  <2>4. e \in Entries /\ e.used = states[k].used /\ e.lastSeen = states[k].lastSeen
    <3>1. 0 \in 0 .. LastInstant + Lease
      BY StoreAssumption
    <3>. QED
      BY <2>3, <3>1 DEF Entries
  <2>5. states' = [states EXCEPT ![k] = e]
    BY <1>5
  <2> HIDE DEF e
  <2>6. /\ states' \in [Keys -> Entries \cup {Absent}]
        /\ \A j \in Keys : /\ states'[j] = Absent <=> states[j] = Absent
                           /\ states'[j].used = states[j].used
                           /\ states'[j].lastSeen = states[j].lastSeen
                           /\ j # k => states'[j] = states[j]
    BY <1>2, <2>2, <2>3, <2>4, <2>5, AbsentFacts, Zenon
  <2>7. granted' \in [Keys -> Tallies] /\ \A j \in Keys : granted'[j] = granted[j]
    BY <1>1, Zenon DEF MapPart
  <2>8. MapPart'
    BY <1>1, <2>6, <2>7, MapShape, Zenon
  <2>. QED
    BY <1>1, <2>1, <2>6, <2>8, Zenon
<1>. QED
  BY <1>4, <1>5, Zenon DEF Release

\* Whatever a walk counted, it leaves the lock.
LEMMA OnwardLeaves ==
    ASSUME CallPart, NEW c \in Callers, call[c].pc = "locked", NEW n \in Nat, Onward(c, n)
    PROVE  call'[c].pc # "locked"
<1>1. call \in [Callers -> Records] /\ call[c] \in Records
  BY Zenon DEF CallPart
<1>2. CASE call' = [call EXCEPT ![c].pc = "waiting", ![c].shard = call[c].shard + 1,
                                ![c].total = @ + n]
  BY <1>1, <1>2 DEF Records
<1>3. CASE Answer(c, "ok", FALSE, n)
  <2>1. "ok" \in Results
    BY DEF Results
  <2>2. call'[c].pc = "idle"
    BY <1>1, <1>3, <2>1, AnswerFacts, Zenon
  <2>. QED
    BY <2>2
<1>. QED
  BY <1>2, <1>3, Zenon DEF Onward

LEMMA SweepKeeps ==
    ASSUME StoreInv, NEW c \in Callers, SweepShard(c)
    PROVE  UnderLock(c)
<1> DEFINE q == call[c].q
           mine == KeysOf(call[c].shard)
           idle == Idle(call[c].shard, q.now, q.arg)
           over(k) == ShardOf[k] = call[c].shard /\ granted[k].at + q.arg <= q.now
<1>1. CallPart /\ MapPart /\ CallInv(call[c]) /\ call[c].pc = "locked" /\ UNCHANGED closed
      /\ q.op = "sweep"
  BY Zenon DEF StoreInv, CallPart, SweepShard
<1>2. /\ states' = [k \in Keys |-> IF k \in idle THEN Absent
                                   ELSE IF k \in mine /\ ~(states[k].until > q.now)
                                   THEN [states[k] EXCEPT !.until = 0] ELSE states[k]]
      /\ granted' = [k \in Keys |-> IF over(k) THEN NoGrants ELSE granted[k]]
      /\ Onward(c, Cardinality(idle))
  BY DEF SweepShard
<1>3. q \in Calls /\ q.op # "len" /\ q.now \in 0 .. LastInstant /\ q.now \in Nat /\ q.arg \in Nat
  <2>1. q \in Calls /\ q.op # "len"
    BY <1>1 DEF CallInv
  <2>2. q.now \in 0 .. LastInstant /\ q.arg \in Nat
    BY <2>1, CallAssumption, Zenon
  <2>. QED
    BY <2>1, <2>2, StoreAssumption
<1>4. Cardinality(idle) \in Nat
  <2>1. idle \subseteq mine /\ IsFiniteSet(mine)
    BY KeysFinite, Zenon DEF Idle
  <2>. QED
    BY <2>1, FS_Subset, FS_CardinalityType, Zenon
<1>5. CallPart' /\ call'[c].pc # "locked"
  <2> HIDE DEF idle
  <2>1. CallPart'
    BY <1>1, <1>2, <1>3, <1>4, OnwardKeeps
  <2>2. call'[c].pc # "locked"
    BY <1>1, <1>2, <1>4, OnwardLeaves
  <2>. QED
    BY <2>1, <2>2
<1>6. states \in [Keys -> Entries \cup {Absent}] /\ granted \in [Keys -> Tallies]
  BY <1>1, Zenon DEF MapPart
<1>7. \A k \in mine : k \in Keys /\ states[k] \in Entries
  BY <1>6, Zenon DEF KeysOf
<1>8. \A k \in idle : k \in mine /\ ~(states[k].until > q.now)
  BY Zenon DEF Idle
<1>9. ASSUME NEW k \in mine
      PROVE  LET e == [states[k] EXCEPT !.until = 0]
             IN  e \in Entries /\ e.used = states[k].used /\ e.lastSeen = states[k].lastSeen
  <2>1. 0 \in 0 .. LastInstant + Lease
    BY StoreAssumption
  <2>. QED
    BY <1>7, <2>1 DEF Entries
<1>10. ASSUME RejectOnCapacity, NEW k \in idle PROVE over(k)
  <2>1. k \in Keys /\ ShardOf[k] = call[c].shard /\ states[k].lastSeen + q.arg <= q.now
    BY Zenon DEF Idle, KeysOf
  <2>2. granted[k].at <= states[k].lastSeen
    BY <1>1, <1>10, <2>1, Zenon DEF MapPart, BudgetInv, Backed
  <2>3. granted[k].at \in Nat
    BY <1>6, <2>1 DEF Tallies
  <2>4. states[k].lastSeen \in 0 .. LastInstant
    BY <1>6, <2>1, StateFacts, Zenon
  <2>5. granted[k].at + q.arg <= q.now
    BY <1>3, <2>1, <2>2, <2>3, <2>4, StoreAssumption
  <2>. QED
    BY <2>1, <2>5, Zenon
<1> HIDE DEF mine, idle, q, over
<1>11. /\ states' \in [Keys -> Entries \cup {Absent}] /\ granted' \in [Keys -> Tallies]
       /\ \A k \in Keys : /\ states[k] = Absent => states'[k] = Absent
                          /\ RejectOnCapacity =>
                                \/ /\ states'[k].used = states[k].used
                                   /\ states'[k].lastSeen = states[k].lastSeen
                                   /\ granted'[k] = granted[k]
                                \/ granted'[k] = NoGrants
  <2>1. ASSUME NEW k \in Keys
        PROVE  /\ states'[k] \in Entries \cup {Absent}
               /\ states[k] = Absent => states'[k] = Absent
               /\ k \notin idle => /\ states'[k].used = states[k].used
                                  /\ states'[k].lastSeen = states[k].lastSeen
    <3>1. CASE k \in idle
      BY <1>2, <3>1, Zenon
    <3>2. CASE k \notin idle /\ k \in mine /\ ~(states[k].until > q.now)
      <4>1. states'[k] = [states[k] EXCEPT !.until = 0]
        BY <1>2, <3>2, Zenon
      <4>2. states[k] # Absent
        BY <1>7, <3>2, AbsentFacts, Zenon
      <4>. QED
        BY <1>9, <3>2, <4>1, <4>2, Zenon
    <3>3. CASE k \notin idle /\ ~(k \in mine /\ ~(states[k].until > q.now))
      <4>1. states'[k] = states[k]
        BY <1>2, <3>3, Zenon
      <4>. QED
        BY <1>6, <4>1, Zenon
    <3>. QED
      BY <3>1, <3>2, <3>3, Zenon
  <2>2. ASSUME NEW k \in Keys
        PROVE  granted'[k] \in Tallies /\ granted'[k] = IF over(k) THEN NoGrants ELSE granted[k]
    <3>1. NoGrants \in Tallies
      BY DEF NoGrants, Tallies
    <3>. QED
      BY <1>2, <1>6, <3>1, Zenon
  <2>3. /\ states' = [k \in Keys |-> states'[k]]
        /\ granted' = [k \in Keys |-> granted'[k]]
    BY <1>2, Zenon
  <2>4. states' \in [Keys -> Entries \cup {Absent}] /\ granted' \in [Keys -> Tallies]
    BY <2>1, <2>2, <2>3, Zenon
  <2>. QED
    BY <1>10, <2>1, <2>2, <2>4, Zenon
<1>12. MapPart'
  BY <1>1, <1>11, MapShape, Zenon
<1>13. ASSUME NEW k \in Keys, states[k].until > LastInstant
       PROVE  states'[k].until = states[k].until
  <2>1. states[k].until \in Nat
    BY <1>6, StateFacts, StoreAssumption
  <2>2. states[k].until > q.now
    BY <1>3, <1>13, <2>1, StoreAssumption
  <2>3. states'[k] = states[k]
    BY <1>2, <1>8, <2>2, Zenon
  <2>. QED
    BY <2>3, Zenon
<1>. QED
  BY <1>1, <1>3, <1>5, <1>12, <1>13, Zenon DEF UnderLock, MapStep, Touched, q

LEMMA LenKeeps ==
    ASSUME StoreInv, NEW c \in Callers, LenShard(c)
    PROVE  UnderLock(c)
<1> DEFINE s == call[c].shard
<1>1. CallPart /\ MapPart /\ CallInv(call[c]) /\ call[c].pc = "locked"
      /\ UNCHANGED <<closed, states, granted>> /\ Onward(c, Cardinality(KeysOf(s)))
  BY Zenon DEF StoreInv, CallPart, LenShard
<1>2. s \in 1 .. Shards
  BY <1>1 DEF CallInv
<1>3. Cardinality(KeysOf(s)) \in Nat /\ Cardinality(KeysOf(s)) <= Quota(s)
  BY <1>1, <1>2, KeysFinite, Zenon DEF MapPart, ShardInv
<1>4. CallPart'
  BY <1>1, <1>3, OnwardKeeps
<1>. QED
  BY <1>1, <1>4, MapSame, Zenon DEF UnderLock

LEMMA CloseKeeps ==
    ASSUME StoreInv, Close
    PROVE  StoreInv'
<1>1. /\ closed' = TRUE /\ UNCHANGED <<states, call, granted>>
      /\ inflight' = {c \in Callers : call[c].pc \in {"waiting", "locked"}}
  BY Zenon DEF Close
<1>2. CallPart'
  BY <1>1, Zenon DEF StoreInv, CallPart, ClosedInv
<1>3. MapPart'
  BY <1>1, MapSame, Zenon DEF StoreInv, MapStep
<1>. QED
  BY <1>1, <1>2, <1>3, Zenon DEF StoreInv

------------------------------------------------------------------------------
(* Steps and theorems. *)

LEMMA StoreInitInv == StoreInit => StoreInv
<1> SUFFICES ASSUME StoreInit PROVE StoreInv
  OBVIOUS
<1>1. NoCall \in Records
  <2>1. NoCall.q \in Asked /\ "idle" \in Places /\ 0 \in Range0 /\ "none" \in Results
    BY StoreAssumption DEF Asked, Places, Range0, Results
  <2>2. NoCall = [q |-> NoCall.q, pc |-> "idle", done |-> FALSE, late |-> FALSE,
                  charged |-> FALSE, shard |-> 0, total |-> 0, result |-> "none"]
    BY DEF NoCall
  <2>3. ASSUME NEW q \in Asked
        PROVE  [q |-> q, pc |-> "idle", done |-> FALSE, late |-> FALSE, charged |-> FALSE,
                shard |-> 0, total |-> 0, result |-> "none"] \in Records
    BY <2>1 DEF Records
  <2>. QED
    BY <2>1, <2>2, <2>3, Zenon
<1>2. CallInv(NoCall)
  <2>1. NoCall.pc = "idle" /\ NoCall.total = 0 /\ NoCall.late = FALSE
    BY DEF NoCall
  <2>2. 0 <= MaxKeys
    BY StoreAssumption
  <2>. QED
    BY <1>1, <2>1, <2>2 DEF CallInv
<1>3. CallPart
  BY <1>1, <1>2, Zenon DEF StoreInit, CallPart, ClosedInv
<1>4. ASSUME NEW t \in 1 .. Shards PROVE Cardinality(KeysOf(t)) <= Quota(t)
  <2>1. KeysOf(t) = {}
    BY Zenon DEF StoreInit, KeysOf
  <2>2. Cardinality(KeysOf(t)) = 0
    BY <2>1, FS_EmptySet, Zenon
  <2>3. Quota(t) \in Nat
    BY QuotaFacts, Zenon
  <2>. QED
    BY <2>2, <2>3
<1>5. /\ states \in [Keys -> Entries \cup {Absent}] /\ granted \in [Keys -> Tallies]
      /\ \A k \in Keys : granted[k] = NoGrants /\ states[k] = Absent
  <2>1. NoGrants \in Tallies
    BY DEF NoGrants, Tallies
  <2>. QED
    BY <2>1, Zenon DEF StoreInit
<1>6. \A k \in Keys : Backed(granted[k], states[k])
  <2>1. NoGrants.n = 0 /\ NoGrants.at = 0 /\ 0 <= 0
    BY DEF NoGrants
  <2>. QED
    BY <1>5, <2>1, AbsentFacts, Zenon DEF Backed
<1>. QED
  BY <1>3, <1>4, <1>5, <1>6, Zenon DEF StoreInv, MapPart, ShardInv, BudgetInv, StoreInit

\* A change of the maps is the work of a caller, which had the lock and is
\* past its preflight, and takes no lease away that it does not release.
MapsChange ==
    states' # states =>
        \E c \in Callers :
            /\ Touched(c)
            /\ \/ \A k \in Keys : states[k].until > LastInstant => states'[k].until = states[k].until
               \/ /\ call[c].q.op = "release" /\ call'[c].result = "released"
                  /\ \A k \in Keys \ {call[c].q.key} : states'[k] = states[k]

LEMMA StoreStepInv ==
    ASSUME StoreInv, [StoreNext]_storeVars
    PROVE  StoreInv' /\ MapsChange
<1>0. closed \in BOOLEAN /\ CallPart /\ MapPart
  BY Zenon DEF StoreInv
<1>1. CASE UNCHANGED storeVars
  <2>1. CallPart' /\ MapPart' /\ closed' = closed
    BY <1>0, <1>1, MapSame, Zenon DEF storeVars, CallPart, ClosedInv, MapStep
  <2>. QED
    BY <1>0, <1>1, <2>1, Zenon DEF StoreInv, MapsChange, storeVars
<1>2. CASE Close
  BY <1>2, CloseKeeps, Zenon DEF MapsChange, Close
<1>3. ASSUME NEW c \in Callers,
             \/ \E q \in Calls : Begin(c, q)
             \/ ContextDone(c) \/ Preflight(c) \/ GiveUp(c) \/ Enter(c)
      PROVE  StoreInv' /\ MapsChange
  <2>1. CallPart'
    BY <1>0, <1>3, BeginKeeps, ContextDoneKeeps, PreflightKeeps, GiveUpKeeps, EnterKeeps, Zenon
  <2>2. UNCHANGED <<states, granted, closed>>
    BY <1>3, Zenon DEF Begin, ContextDone, Preflight, GiveUp, Enter
  <2>. QED
    BY <1>0, <2>1, <2>2, MapSame, Zenon DEF StoreInv, MapsChange, MapStep
<1>4. ASSUME NEW c \in Callers, AdmitLocked(c) \/ SweepShard(c) \/ LenShard(c)
      PROVE  StoreInv' /\ MapsChange
  <2>1. UnderLock(c)
    BY <1>4, AdmitKeeps, SweepKeeps, LenKeeps, Zenon
  <2>. QED
    BY <1>0, <2>1, Zenon DEF UnderLock, StoreInv, MapsChange, MapStep
<1>5. ASSUME NEW c \in Callers, Release(c)
      PROVE  StoreInv' /\ MapsChange
  BY <1>0, <1>5, ReleaseKeeps, Zenon DEF StoreInv, MapsChange, Release
<1>. QED
  BY <1>1, <1>2, <1>3, <1>4, <1>5, Zenon DEF StoreNext, Step

\* The invariant of shards, budgets and calls holds throughout, for any
\* callers, keys, shards and calls.
THEOREM StoreInvariant == StoreSpec => []StoreInv
<1>1. StoreInit => StoreInv
  BY StoreInitInv
<1>2. StoreInv /\ [StoreNext]_storeVars => StoreInv'
  BY StoreStepInv
<1>. QED
  BY <1>1, <1>2, PTL DEF StoreSpec

\* However calls interleave, every shard is within its quota, the store within
\* MaxKeys, and a Len that walks the shards meanwhile reports at most MaxKeys.
THEOREM StoreIsBounded == StoreSpec => []Bounded
<1>1. StoreInv => Bounded
  <2> SUFFICES ASSUME StoreInv PROVE Bounded
    OBVIOUS
  <2>1. ShardInv
    BY Zenon DEF StoreInv, MapPart
  <2>2. Cardinality({k \in Keys : states[k] # Absent}) <= MaxKeys
    BY <2>1, StoreBounded
  <2>3. ASSUME NEW c \in Callers, call[c].q.op = "len" PROVE call[c].total <= MaxKeys
    <3>1. CallInv(call[c]) /\ MaxKeys \in Nat /\ call[c].pc \in Places
      BY StoreAssumption DEF StoreInv, CallPart, Records
    <3>2. CASE call[c].pc \in {"waiting", "locked"}
      <4>1. call[c].total + 0 <= MaxKeys /\ call[c].total \in Nat
        BY <2>3, <3>1, <3>2, WalkBound DEF CallInv, Records
      <4>. QED
        BY <3>1, <4>1
    <3>3. CASE call[c].pc \in {"idle", "called"}
      BY <2>3, <3>1, <3>3 DEF CallInv
    <3>. QED
      BY <3>1, <3>2, <3>3 DEF Places
  <2>. QED
    BY <2>1, <2>2, <2>3, Zenon DEF Bounded, ShardInv
<1>. QED
  BY <1>1, StoreInvariant, PTL

\* A strict call whose context ended while another call held its shard charges
\* nothing and answers that it was canceled.
THEOREM LateStrictIsHarmless == StoreSpec => []LateStrictHarmless
<1>1. StoreInv => LateStrictHarmless
  BY DEF StoreInv, CallPart, CallInv, LateStrictHarmless
<1>. QED
  BY <1>1, StoreInvariant, PTL

\* With RejectOnCapacity a rate key is granted at most its limit until a sweep
\* comes idleFor after it was last served, whatever the other keys do and however
\* the clocks of its callers go back (getOrCreate, Sweep).
THEOREM BudgetIsKept == StoreSpec => []BudgetKept
<1>1. StoreInv => BudgetKept
  <2> SUFFICES ASSUME StoreInv, RejectOnCapacity, NEW k \in Keys PROVE granted[k].n <= Budget
    BY Zenon DEF BudgetKept
  <2>1. granted[k].n <= states[k].used /\ states[k] \in Entries \cup {Absent}
    BY Zenon DEF StoreInv, MapPart, BudgetInv, Backed
  <2>2. granted[k].n \in Nat
    BY DEF StoreInv, MapPart, Tallies
  <2>3. states[k].used \in 0 .. Budget
    BY <2>1, StateFacts, Zenon
  <2>. QED
    BY <2>1, <2>2, <2>3, StoreAssumption
<1>. QED
  BY <1>1, StoreInvariant, PTL

\* A lease that no clock can consider expired is only given up by a release of
\* its key.
THEOREM LeaseIsKept == StoreSpec => LeaseKept
<1>1. StoreInv /\ [StoreNext]_storeVars =>
        [\A k \in Keys : states[k].until > LastInstant =>
            \/ states'[k].until = states[k].until
            \/ \E c \in Callers : /\ call[c].q.op = "release" /\ call[c].q.key = k
                                   /\ call[c].pc = "locked" /\ call'[c].result = "released"]_states
  BY StoreStepInv, Zenon DEF MapsChange, Touched
<1>. QED
  BY <1>1, StoreInvariant, PTL DEF StoreSpec, LeaseKept

\* After Close only calls that were past their preflight still change the maps.
THEOREM ClosedIsQuiet == StoreSpec => ClosedQuiet
<1>1. StoreInv /\ [StoreNext]_storeVars =>
        [closed => \E c \in inflight : call[c].pc = "locked" /\ call'[c] # call[c]]_states
  <2> SUFFICES ASSUME StoreInv, [StoreNext]_storeVars, states' # states, closed
               PROVE  \E c \in inflight : call[c].pc = "locked" /\ call'[c] # call[c]
    BY Zenon
  <2>1. PICK c \in Callers : Touched(c)
    BY StoreStepInv, Zenon DEF MapsChange
  <2>2. call[c].pc = "locked" /\ call'[c] # call[c] /\ call[c].q.op # "len"
    BY <2>1, Zenon DEF Touched
  <2>3. c \in inflight
    BY <2>2 DEF StoreInv, CallPart, ClosedInv
  <2>. QED
    BY <2>2, <2>3, Zenon
<1>. QED
  BY <1>1, StoreInvariant, PTL DEF StoreSpec, ClosedQuiet

------------------------------------------------------------------------------
(* The token bucket. *)

\* A balance the code can leave behind: within the limit, a proper fraction,
\* and no fraction on top of a full bucket.
Settled(b, r) ==
    /\ b.tokens <= Limit(r)
    /\ b.remainder < Policy[r].period
    /\ b.tokens = Limit(r) => b.remainder = 0

\* Tokens and fraction together, in units of 1/period of a token.
Worth(b, r) == b.tokens * Policy[r].period + b.remainder

\* What was admitted plus what is left is covered by the limit at the start of
\* the audit and the refill of the fastest rate up to `at'.
Covered(charged, worth, r, at) ==
    (charged * Policy[r].period + worth) * Policy[Fastest].period
        <= (audit.limit * Policy[Fastest].period
              + (at - audit.start) * Policy[Fastest].capacity) * Policy[r].period

IInv ==
    /\ TypeOK
    /\ Settled(bucket, bucket.revision)
    /\ bucket.lastRefill = bucket.lastSeen
    /\ audit.start <= bucket.lastSeen
    /\ Covered(audit.granted, Worth(bucket, bucket.revision), bucket.revision,
               bucket.lastSeen)

------------------------------------------------------------------------------
\* The constants of a revision are numbers of the expected range.
LEMMA PolicyTypes ==
    ASSUME NEW r \in Revisions
    PROVE  /\ Policy[r].capacity \in Nat \ {0}
           /\ Policy[r].burst \in Nat
           /\ Policy[r].period \in Nat \ {0}
           /\ Limit(r) \in Nat \ {0}
           /\ Policy[r].maxCost \in 1 .. Limit(r)
BY PolicyAssumption DEF Limit

\* A fresh bucket is settled and holds exactly its limit.
LEMMA NewStateFacts ==
    ASSUME NEW r \in Revisions, NEW now \in Instants
    PROVE  /\ NewState(r, now) \in Buckets
           /\ NewState(r, now).revision = r
           /\ Settled(NewState(r, now), r)
BY PolicyTypes DEF NewState, Buckets, Settled

\* refill never lowers the balance, keeps it settled, and adds at most the
\* capacity for every elapsed period.
LEMMA RefillFacts ==
    ASSUME NEW b \in Buckets, NEW r \in Revisions, NEW now \in Instants,
           b.lastRefill <= now, Settled(b, r)
    PROVE  /\ Refill(b, r, now) \in Buckets
           /\ Refill(b, r, now).revision = b.revision
           /\ Refill(b, r, now).lastSeen = b.lastSeen
           /\ Refill(b, r, now).lastRefill = now
           /\ Settled(Refill(b, r, now), r)
           /\ Worth(Refill(b, r, now), r)
                <= Worth(b, r) + (now - b.lastRefill) * Policy[r].capacity
<1> DEFINE P == Policy[r].period
           C == Policy[r].capacity
           accrued == (now - b.lastRefill) * C
           credit == accrued + b.remainder
           whole == credit \div P
           rest == credit % P
           tokens == b.tokens + whole
<1>1. P \in Nat \ {0} /\ C \in Nat \ {0} /\ Limit(r) \in Nat \ {0}
  BY PolicyTypes, Zenon
<1>2. b.tokens \in Nat /\ b.remainder \in Nat
  BY Zenon DEF Buckets
<1>3. accrued \in Nat /\ credit \in Nat
  <2>1. now - b.lastRefill \in Nat
    BY DEF Instants, Buckets
  <2>. QED
    BY <2>1, <1>1, <1>2
<1>4. whole \in Nat /\ rest \in Nat /\ rest < P /\ credit = whole * P + rest
  BY <1>1, <1>3, DivMod, Zenon
<1>5. tokens * P + rest = b.tokens * P + b.remainder + accrued
  <2> HIDE DEF P, C, accrued, whole, rest
  <2>1. tokens * P = b.tokens * P + whole * P
    BY <1>1, <1>2, <1>4, Distribute
  <2> HIDE DEF tokens
  <2>. QED
    BY <2>1, <1>1, <1>2, <1>3, <1>4
<1>6. tokens \in Nat
  BY <1>2, <1>4
<1>7. CASE now <= b.lastRefill
  <2>1. now = b.lastRefill /\ Refill(b, r, now) = b
    BY <1>7 DEF Refill, Instants, Buckets
  <2>. QED
    BY <2>1, <1>1, <1>2 DEF Worth, Instants, Buckets
<1>8. CASE ~(now <= b.lastRefill) /\ (b.tokens = Limit(r) \/ tokens >= Limit(r))
  <2> DEFINE full == [b EXCEPT !.tokens = Limit(r), !.remainder = 0, !.lastRefill = now]
  <2>1. Refill(b, r, now) = full
    BY <1>8, Zenon DEF Refill
  <2>2. full \in Buckets /\ full.revision = b.revision /\ full.lastSeen = b.lastSeen
        /\ full.lastRefill = now /\ full.tokens = Limit(r) /\ full.remainder = 0
    BY <1>1, Zenon DEF Buckets
  <2>3. Limit(r) * P <= b.tokens * P + b.remainder + accrued
    <3> HIDE DEF P, C, accrued, credit, tokens
    <3>1. CASE b.tokens = Limit(r)
      BY <3>1, <1>1, <1>2, <1>3
    <3>2. CASE tokens >= Limit(r)
      <4>1. Limit(r) * P <= tokens * P
        BY <3>2, <1>6, <1>1, Monotone
      <4>. QED
        BY <4>1, <1>1, <1>2, <1>3, <1>4, <1>5, <1>6
    <3>. QED
      BY <3>1, <3>2, <1>8, Zenon
  <2> HIDE DEF full
  <2>. QED
    BY <2>1, <2>2, <2>3, <1>1 DEF Settled, Worth
<1>9. CASE ~(now <= b.lastRefill) /\ ~(b.tokens = Limit(r) \/ tokens >= Limit(r))
  <2> DEFINE part == [b EXCEPT !.tokens = tokens, !.remainder = rest, !.lastRefill = now]
  <2>1. Refill(b, r, now) = part
    BY <1>9, Zenon DEF Refill
  <2>2. tokens \in Nat /\ tokens < Limit(r)
    <3>1. tokens \in Nat /\ Limit(r) \in Nat /\ ~(tokens >= Limit(r))
      BY <1>1, <1>6, <1>9, Zenon
    <3>. HIDE DEF tokens
    <3>. QED
      BY <3>1
  <2>3. part \in Buckets /\ part.revision = b.revision /\ part.lastSeen = b.lastSeen
        /\ part.lastRefill = now /\ part.tokens = tokens /\ part.remainder = rest
    BY <2>2, <1>4, Zenon DEF Buckets
  <2> HIDE DEF part, tokens, rest, accrued
  <2>4. Settled(part, r)
    BY <2>2, <2>3, <1>1, <1>4 DEF Settled
  <2>5. Worth(part, r) = b.tokens * P + b.remainder + accrued
    BY <2>3, <1>5, Zenon DEF Worth
  <2>6. Worth(part, r) <= Worth(b, r) + accrued
    <3>1. b.tokens * P \in Int
      BY <1>1, <1>2
    <3>. QED
      BY <2>5, <3>1, <1>2, <1>3 DEF Worth
  <2>. QED
    BY <2>1, <2>3, <2>4, <2>6, Zenon DEF accrued
<1>. QED
  BY <1>7, <1>8, <1>9, Zenon

\* refillDuration never underflows, as the remainder is a proper fraction.
LEMMA DurationFacts ==
    ASSUME NEW tokens \in Nat, NEW m \in Nat, NEW r \in Revisions, m < Policy[r].period
    PROVE  RefillDuration(tokens, m, r) \in Nat
<1> DEFINE P == Policy[r].period
           C == Policy[r].capacity
<1>1. P \in Nat \ {0} /\ C \in Nat \ {0}
  BY PolicyTypes, Zenon
<1>2. CASE tokens = 0
  BY <1>2, Zenon DEF RefillDuration
<1>3. CASE tokens # 0
  <2>1. P <= tokens * P
    BY <1>1, <1>3
  <2>2. tokens * P - m + C - 1 \in Nat
    BY <2>1, <1>1
  <2>. QED
    BY <2>2, <1>1, <1>3, DivMod, Zenon DEF RefillDuration
<1>. QED
  BY <1>2, <1>3, Zenon

\* A decision on a settled bucket is well-formed and takes at most its tokens.
LEMMA DecideFacts ==
    ASSUME NEW b \in Buckets, NEW r \in Revisions, NEW cost \in Nat \ {0}, Settled(b, r)
    PROVE  /\ Decide(b, r, cost) \in Decisions
           /\ Decide(b, r, cost).remaining
                = IF Decide(b, r, cost).allowed THEN b.tokens - cost ELSE b.tokens
           /\ Decide(b, r, cost).remaining \in Nat
           /\ Decide(b, r, cost).remaining <= b.tokens
<1> DEFINE d == Decide(b, r, cost)
           left == IF cost <= b.tokens THEN b.tokens - cost ELSE b.tokens
<1>1. b.tokens \in Nat /\ b.remainder \in Nat /\ b.lastSeen \in Instants
  BY Zenon DEF Buckets
<1>2. left \in Nat /\ left <= b.tokens /\ Limit(r) - left \in Nat
  BY <1>1, PolicyTypes DEF Settled
<1>3. RefillDuration(Limit(r) - left, b.remainder, r) \in Nat
  BY <1>1, <1>2, DurationFacts, Zenon DEF Settled
<1>4. ~(cost <= b.tokens) => RefillDuration(cost - b.tokens, b.remainder, r) \in Nat
  <2>1. ~(cost <= b.tokens) => cost - b.tokens \in Nat
    BY <1>1
  <2>2. b.remainder < Policy[r].period
    BY Zenon DEF Settled
  <2>. QED
    BY <1>1, <2>1, <2>2, DurationFacts, Zenon
<1>5. d = [allowed |-> cost <= b.tokens, revision |-> r, cost |-> cost, at |-> b.lastSeen,
           remaining |-> left,
           reset |-> b.lastSeen + RefillDuration(Limit(r) - left, b.remainder, r),
           retryAfter |-> IF cost <= b.tokens THEN 0
                          ELSE RefillDuration(cost - b.tokens, b.remainder, r)]
  BY Zenon DEF Decide
<1> HIDE DEF d
<1>6. d.remaining = left
  BY <1>5, Zenon
<1>7. d.allowed = (cost <= b.tokens)
  BY <1>5, Zenon
<1>8. d \in Decisions
  BY <1>1, <1>2, <1>3, <1>4, <1>5 DEF Decisions, Instants
<1>. QED
  BY <1>2, <1>6, <1>7, <1>8, Zenon DEF d

------------------------------------------------------------------------------
(* Covered survives a rollout and a refill: arithmetic on plain numbers. *)

\* Dropping the fraction and some tokens, the cover in units of the old period
\* is one in units of the new.
LEMMA CoverRescale ==
    ASSUME NEW g \in Nat, NEW t \in Nat, NEW u \in Nat, NEW m \in Nat, u <= t,
           NEW p \in Nat \ {0}, NEW q \in Nat \ {0}, NEW f \in Nat \ {0}, NEW x \in Int,
           (g * p + (t * p + m)) * f <= x * p
    PROVE  (g * q + (u * q + 0)) * f <= x * q
<1>1. (g * p + t * p) * f <= (g * p + (t * p + m)) * f
  <2>1. g * p \in Nat /\ t * p \in Nat
    OBVIOUS
  <2>. QED
    BY <2>1, Monotone
<1>2. (g * p + t * p) * f = ((g + t) * f) * p
  OBVIOUS
<1>3. (g + t) * f <= x
  <2>1. ((g + t) * f) * p <= x * p /\ (g + t) * f \in Int
    BY <1>1, <1>2
  <2> DEFINE y == (g + t) * f
  <2> HIDE DEF y
  <2>2. y * p <= x * p /\ y \in Int
    BY <2>1, Zenon DEF y
  <2>3. y <= x
    BY <2>2
  <2>. QED
    BY <2>3, Zenon DEF y
<1>4. (g + u) * f <= x
  <2>1. (g + u) * f <= (g + t) * f
    OBVIOUS
  <2>. QED
    BY <2>1, <1>3
<1>5. ((g + u) * f) * q <= x * q
  BY <1>4, Monotone
<1>6. (g * q + (u * q + 0)) * f = ((g + u) * f) * q
  OBVIOUS
<1>. QED
  BY <1>5, <1>6, Zenon

\* A refill of d microseconds at rate c per p is covered by one at the rate h
\* per f, if that is no slower.
LEMMA CoverRefill ==
    ASSUME NEW a \in Int, NEW w \in Int, NEW v \in Int, NEW d \in Nat,
           NEW p \in Nat \ {0}, NEW c \in Nat, NEW f \in Nat \ {0}, NEW h \in Nat,
           NEW l \in Int, NEW e \in Int,
           (a + w) * f <= (l + e * h) * p, v <= w + d * c, c * f <= h * p
    PROVE  (a + v) * f <= (l + (e + d) * h) * p
<1>1. (a + v) * f <= (a + w) * f + (d * c) * f
  <2>1. (a + v) * f <= (a + w + d * c) * f
    BY Monotone
  <2>2. (a + w + d * c) * f = (a + w) * f + (d * c) * f
    OBVIOUS
  <2>. QED
    BY <2>1, <2>2, Zenon
<1>2. (d * c) * f <= (d * h) * p
  <2>1. (d * c) * f = (c * f) * d
    OBVIOUS
  <2>2. (d * h) * p = (h * p) * d
    OBVIOUS
  <2>3. (c * f) * d <= (h * p) * d
    BY Monotone
  <2>. QED
    BY <2>1, <2>2, <2>3, Zenon
<1>3. (l + (e + d) * h) * p = (l + e * h) * p + (d * h) * p
  OBVIOUS
<1>. QED
  BY <1>1, <1>2, <1>3

------------------------------------------------------------------------------
\* The bucket a lookup returns is settled under the requested revision, and the
\* audit stays covered: a rollout mints nothing.
LEMMA LookupFacts ==
    ASSUME IInv, NEW r \in Revisions, NEW now \in Instants
    PROVE  /\ GetOrCreate(r, now) \in Buckets
           /\ GetOrCreate(r, now).revision = r
           /\ GetOrCreate(r, now).lastSeen = bucket.lastSeen
           /\ GetOrCreate(r, now).lastRefill >= bucket.lastSeen
           /\ GetOrCreate(r, now).lastRefill <= Later(now, bucket.lastSeen)
           /\ Settled(GetOrCreate(r, now), r)
           /\ Covered(audit.granted, Worth(GetOrCreate(r, now), r), r, bucket.lastSeen)
<1>1. bucket \in Buckets /\ bucket.lastRefill = bucket.lastSeen
  BY Zenon DEF IInv, TypeOK
<1>2. bucket.lastSeen \in Int /\ now \in Int
  BY <1>1 DEF Buckets, Instants
<1>3. CASE bucket.revision = r
  <2>1. GetOrCreate(r, now) = bucket
    BY <1>3, Zenon DEF GetOrCreate
  <2>. QED
    BY <2>1, <1>1, <1>2, <1>3 DEF IInv, Later
<1>4. CASE bucket.revision # r
  <2> DEFINE q == bucket.revision
             u == IF bucket.tokens < Limit(r) THEN bucket.tokens ELSE Limit(r)
             got == [revision |-> r, tokens |-> u, remainder |-> 0,
                     lastRefill |-> Later(bucket.lastRefill, now),
                     lastSeen |-> bucket.lastSeen]
  <2>1. GetOrCreate(r, now) = got
    BY <1>1, <1>4, Zenon DEF GetOrCreate, CarryRevision, Buckets
  <2>2. /\ bucket.tokens \in Nat /\ bucket.remainder \in Nat /\ q \in Revisions
        /\ audit.granted \in Nat /\ audit.limit \in Nat /\ audit.start \in Int
    BY <1>1 DEF IInv, TypeOK, Buckets, Instants
  <2>3. u \in Nat /\ u <= bucket.tokens /\ u <= Limit(r)
    BY <2>2, PolicyTypes
  <2>4. got \in Buckets /\ Settled(got, r)
    BY <1>1, <1>2, <2>3, PolicyTypes DEF Buckets, Later, Instants, Settled
  <2>5. Covered(audit.granted, Worth(got, r), r, bucket.lastSeen)
    <3> DEFINE f == Policy[Fastest].period
               g == audit.granted
               t == bucket.tokens
               m == bucket.remainder
               p == Policy[q].period
               n == Policy[r].period
               x == audit.limit * f
                      + (bucket.lastSeen - audit.start) * Policy[Fastest].capacity
    <3>1. /\ f \in Nat \ {0} /\ p \in Nat \ {0} /\ n \in Nat \ {0}
          /\ Policy[Fastest].capacity \in Nat
      BY <2>2, PolicyTypes, FastestAssumption, Zenon
    <3>2. x \in Int /\ g \in Nat /\ t \in Nat /\ m \in Nat /\ u \in Nat /\ u <= t
      BY <3>1, <2>2, <2>3, <1>2
    <3>3. (g * p + (t * p + m)) * f <= x * p
      BY Zenon DEF IInv, Covered, Worth
    <3> HIDE DEF f, g, t, m, p, n, x, u
    <3>4. (g * n + (u * n + 0)) * f <= x * n
      BY <3>1, <3>2, <3>3, CoverRescale
    <3>. QED
      BY <3>4, Zenon DEF Covered, Worth, f, x, g, n
  <2> HIDE DEF got
  <2>6. got.lastRefill >= bucket.lastSeen /\ got.lastRefill <= Later(now, bucket.lastSeen)
    BY <1>1, <1>2 DEF got, Later
  <2>. QED
    BY <2>1, <2>4, <2>5, <2>6 DEF got
<1>. QED
  BY <1>3, <1>4, Zenon

\* The same after the clamp and the refill.
LEMMA ReadyFacts ==
    ASSUME IInv, NEW r \in Revisions, NEW now \in Instants
    PROVE  /\ Ready(r, now) \in Buckets
           /\ Ready(r, now).revision = r
           /\ Ready(r, now).lastSeen >= bucket.lastSeen
           /\ Ready(r, now).lastRefill = Ready(r, now).lastSeen
           /\ Settled(Ready(r, now), r)
           /\ Covered(audit.granted, Worth(Ready(r, now), r), r, Ready(r, now).lastSeen)
<1> DEFINE got == GetOrCreate(r, now)
           at == Later(now, got.lastSeen)
           seen == [got EXCEPT !.lastSeen = at]
<1>1. Ready(r, now) = Refill(seen, r, at)
  BY Zenon DEF Ready
<1>2. /\ got \in Buckets /\ got.revision = r /\ got.lastSeen = bucket.lastSeen
      /\ got.lastRefill >= bucket.lastSeen /\ got.lastRefill <= at /\ Settled(got, r)
      /\ Covered(audit.granted, Worth(got, r), r, bucket.lastSeen)
  BY LookupFacts, Zenon
<1> HIDE DEF got
<1>3. at \in Instants /\ at >= bucket.lastSeen
  BY <1>2 DEF Later, Buckets, Instants
<1> HIDE DEF at
<1>4. /\ seen \in Buckets /\ seen.revision = r /\ seen.lastSeen = at
      /\ seen.lastRefill = got.lastRefill
      /\ seen.tokens = got.tokens /\ seen.remainder = got.remainder
  BY <1>2, <1>3, Zenon DEF Buckets
<1> HIDE DEF seen
<1>5. Settled(seen, r) /\ Worth(seen, r) = Worth(got, r)
  BY <1>2, <1>4, Zenon DEF Settled, Worth
<1> DEFINE ready == Refill(seen, r, at)
<1>6. /\ ready \in Buckets /\ ready.revision = r /\ ready.lastSeen = at
      /\ ready.lastRefill = at /\ Settled(ready, r)
      /\ Worth(ready, r) <= Worth(got, r) + (at - got.lastRefill) * Policy[r].capacity
  BY <1>2, <1>3, <1>4, <1>5, RefillFacts, Zenon
<1> HIDE DEF ready
<1>7. Covered(audit.granted, Worth(ready, r), r, at)
  <2> DEFINE a == audit.granted * Policy[r].period
             w == Worth(got, r)
             v == Worth(ready, r)
             d == at - bucket.lastSeen
             p == Policy[r].period
             c == Policy[r].capacity
             f == Policy[Fastest].period
             h == Policy[Fastest].capacity
             l == audit.limit * f
             e == bucket.lastSeen - audit.start
  <2>1. p \in Nat \ {0} /\ c \in Nat /\ f \in Nat \ {0} /\ h \in Nat
    BY PolicyTypes, FastestAssumption, Zenon
  <2>2. /\ bucket.lastSeen \in Int /\ at \in Int /\ got.lastRefill \in Int
        /\ audit.granted \in Nat /\ audit.limit \in Nat /\ audit.start \in Int
        /\ got.tokens \in Nat /\ got.remainder \in Nat
        /\ ready.tokens \in Nat /\ ready.remainder \in Nat
    BY <1>2, <1>3, <1>6 DEF IInv, TypeOK, Buckets, Instants
  <2>3. a \in Int /\ w \in Int /\ v \in Int /\ l \in Int /\ e \in Int /\ d \in Nat
    BY <2>1, <2>2, <1>3 DEF Worth
  <2>4. c * f <= h * p
    BY FastestAssumption, Zenon
  <2>5. (a + w) * f <= (l + e * h) * p
    BY <1>2, Zenon DEF Covered
  <2>6. v <= w + d * c
    <3>1. (at - got.lastRefill) * c <= d * c
      BY <1>2, <2>1, <2>2, Monotone
    <3>2. (at - got.lastRefill) * c \in Int /\ d * c \in Int
      BY <2>1, <2>2
    <3> HIDE DEF d, w, v
    <3>. QED
      BY <3>1, <3>2, <2>3, <1>6 DEF w, v
  <2>7. e + d = at - audit.start
    BY <2>2
  <2> HIDE DEF a, w, v, d, p, c, f, h, l, e
  <2>8. (a + v) * f <= (l + (e + d) * h) * p
    BY <2>1, <2>3, <2>4, <2>5, <2>6, CoverRefill, Zenon
  <2>. QED
    BY <2>7, <2>8, Zenon DEF Covered, a, v, p, f, h, l
<1>. QED
  BY <1>1, <1>3, <1>6, <1>7, Zenon DEF ready

------------------------------------------------------------------------------
\* Taking the cost from a settled bucket leaves it settled, and what was
\* admitted plus what is left stays the same.
LEMMA ConsumeFacts ==
    ASSUME NEW b \in Buckets, NEW r \in Revisions, NEW cost \in Nat \ {0},
           b.revision = r, Settled(b, r), NEW charged \in Nat,
           NEW d, d = Decide(b, r, cost),
           NEW used, used = [b EXCEPT !.tokens = d.remaining],
           NEW total, total = charged + (IF d.allowed THEN cost ELSE 0)
    PROVE  /\ d \in Decisions
           /\ used \in Buckets
           /\ used.revision = r /\ used.lastRefill = b.lastRefill /\ used.lastSeen = b.lastSeen
           /\ Settled(used, r)
           /\ total \in Nat
           /\ total * Policy[r].period + Worth(used, r)
                = charged * Policy[r].period + Worth(b, r)
<1>1. /\ d \in Decisions /\ d.remaining \in Nat /\ d.remaining <= b.tokens
      /\ d.remaining = IF d.allowed THEN b.tokens - cost ELSE b.tokens
  BY DecideFacts, Zenon
<1>2. /\ used \in Buckets /\ used.tokens = d.remaining /\ used.remainder = b.remainder
      /\ used.revision = r /\ used.lastRefill = b.lastRefill /\ used.lastSeen = b.lastSeen
  BY <1>1, Zenon DEF Buckets
<1>3. b.tokens \in Nat /\ b.remainder \in Nat /\ Limit(r) \in Nat
  BY PolicyTypes, Zenon DEF Buckets
<1>4. Settled(used, r)
  BY <1>1, <1>2, <1>3 DEF Settled
<1>5. total \in Nat /\ total + used.tokens = charged + b.tokens
  BY <1>1, <1>2, <1>3
<1>6. total * Policy[r].period + Worth(used, r) = charged * Policy[r].period + Worth(b, r)
  <2> DEFINE p == Policy[r].period
             v == used.tokens
             t == b.tokens
             m == b.remainder
  <2>1. p \in Int /\ v \in Int /\ t \in Int /\ m \in Int /\ total \in Int /\ charged \in Int
    BY <1>1, <1>2, <1>3, <1>5, PolicyTypes
  <2>2. total + v = charged + t
    BY <1>5, Zenon
  <2>3. Worth(used, r) = v * p + m /\ Worth(b, r) = t * p + m
    BY <1>2, Zenon DEF Worth
  <2> HIDE DEF p, v, t, m
  <2>4. (total + v) * p = total * p + v * p /\ (charged + t) * p = charged * p + t * p
    BY <2>1, Distribute
  <2>5. total * p \in Int /\ v * p \in Int /\ charged * p \in Int /\ t * p \in Int
    BY <2>1
  <2>6. total * p + (v * p + m) = charged * p + (t * p + m)
    BY <2>1, <2>2, <2>4, <2>5
  <2>. QED
    BY <2>3, <2>6, Zenon DEF p
<1>. QED
  BY <1>1, <1>2, <1>4, <1>5, <1>6, Zenon

\* The call that creates the key establishes the invariant.
LEMMA InitInv == Init => IInv
<1>0. SUFFICES ASSUME NEW r \in Revisions, NEW now \in Instants,
                     NEW cost \in 1 .. Policy[r].maxCost,
                     decision = Decide(NewState(r, now), r, cost),
                     bucket = [NewState(r, now) EXCEPT !.tokens = decision.remaining],
                     audit = [start |-> now, limit |-> Limit(r), granted |-> cost],
                     promise = NoPromise
              PROVE  IInv
  BY Zenon DEF Init
<1> DEFINE b == NewState(r, now)
<1>1. b \in Buckets /\ b.revision = r /\ Settled(b, r)
  BY NewStateFacts, Zenon
<1>2. b.tokens = Limit(r) /\ b.remainder = 0 /\ b.lastSeen = now /\ b.lastRefill = now
  BY Zenon DEF NewState
<1>3. cost \in Nat \ {0} /\ cost <= Limit(r) /\ Limit(r) \in Nat
  BY PolicyTypes
<1>4. decision.allowed
  BY <1>0, <1>2, <1>3, Zenon DEF Decide
<1> DEFINE d == Decide(b, r, cost)
           zero == 0
           total == zero + (IF d.allowed THEN cost ELSE 0)
<1>d. decision = d /\ bucket = [b EXCEPT !.tokens = d.remaining]
  BY <1>0, Zenon
<1> HIDE DEF b
<1>5. /\ decision \in Decisions /\ bucket \in Buckets
      /\ bucket.revision = r /\ bucket.lastRefill = now /\ bucket.lastSeen = now
      /\ Settled(bucket, r)
      /\ total * Policy[r].period + Worth(bucket, r)
                = zero * Policy[r].period + Worth(b, r)
  <2>1. zero \in Nat
    OBVIOUS
  <2> HIDE DEF zero
  <2>2. /\ decision \in Decisions /\ bucket \in Buckets /\ bucket.revision = r
        /\ bucket.lastRefill = b.lastRefill /\ bucket.lastSeen = b.lastSeen
        /\ Settled(bucket, r)
        /\ total * Policy[r].period + Worth(bucket, r)
                = zero * Policy[r].period + Worth(b, r)
    BY <1>1, <1>3, <1>d, <2>1, ConsumeFacts
  <2>. QED
    BY <1>2, <2>2, Zenon
<1>6. total = cost
  BY <1>3, <1>4, <1>d
<1> HIDE DEF total
<1>7. promise \in [active : BOOLEAN, revision : Revisions, cost : Nat, due : Nat]
  BY <1>0, FastestAssumption, Zenon DEF NoPromise
<1>8. audit \in [start : Instants, limit : Nat, granted : Nat]
  BY <1>0, <1>3, Zenon
<1>9. TypeOK
  BY <1>5, <1>7, <1>8, Zenon DEF TypeOK, Settled
<1>10. Covered(cost, Worth(bucket, r), r, now)
  <2> DEFINE p == Policy[r].period
             f == Policy[Fastest].period
             l == Limit(r)
  <2>1. p \in Nat \ {0} /\ f \in Nat \ {0} /\ Policy[Fastest].capacity \in Nat
    BY PolicyTypes, FastestAssumption, Zenon
  <2>2. cost * p + Worth(bucket, r) = l * p
    BY <1>2, <1>3, <1>5, <1>6, <2>1 DEF Worth
  <2>3. audit.limit * f + (now - audit.start) * Policy[Fastest].capacity = l * f
    BY <1>0, <1>3, <2>1 DEF Instants
  <2>4. l * p * f <= l * f * p
    BY <1>3, <2>1
  <2>. QED
    BY <2>2, <2>3, <2>4, Zenon DEF Covered
<1>. QED
  BY <1>0, <1>5, <1>9, <1>10 DEF IInv, Instants

\* Every call, of any revision and with any submitted instant, preserves it.
LEMMA AdmitInv ==
    ASSUME IInv, NEW r \in Revisions, NEW now \in Instants,
           NEW cost \in 1 .. Policy[r].maxCost, Admit(r, cost, now)
    PROVE  IInv'
<1> DEFINE ready == Ready(r, now)
           d == Decide(ready, r, cost)
           total == audit.granted + (IF d.allowed THEN cost ELSE 0)
<1>1. /\ ready \in Buckets /\ ready.revision = r /\ ready.lastSeen >= bucket.lastSeen
      /\ ready.lastRefill = ready.lastSeen /\ Settled(ready, r)
      /\ Covered(audit.granted, Worth(ready, r), r, ready.lastSeen)
  BY ReadyFacts, Zenon
<1>2. /\ bucket' = [ready EXCEPT !.tokens = d.remaining] /\ decision' = d
      /\ promise' \in Promises(d)
      /\ audit' = [audit EXCEPT !.granted = total]
  BY Zenon DEF Admit, IInv, TypeOK
<1>3. cost \in Nat \ {0} /\ audit.granted \in Nat /\ audit.start \in Instants
      /\ audit.limit \in Nat
  BY PolicyTypes DEF IInv, TypeOK
<1> HIDE DEF ready
<1>4. /\ d \in Decisions /\ bucket' \in Buckets /\ bucket'.revision = r
      /\ bucket'.lastRefill = ready.lastRefill /\ bucket'.lastSeen = ready.lastSeen
      /\ Settled(bucket', r) /\ total \in Nat
      /\ total * Policy[r].period + Worth(bucket', r)
                = audit.granted * Policy[r].period + Worth(ready, r)
  BY <1>1, <1>2, <1>3, ConsumeFacts
<1> HIDE DEF d, total
<1>5. /\ audit' \in [start : Instants, limit : Nat, granted : Nat]
      /\ audit'.start = audit.start /\ audit'.limit = audit.limit
      /\ audit'.granted = total
  BY <1>2, <1>4, Zenon DEF IInv, TypeOK
<1>6. promise' \in [active : BOOLEAN, revision : Revisions, cost : Nat, due : Nat]
  <2>1. NoPromise \in [active : BOOLEAN, revision : Revisions, cost : Nat, due : Nat]
    BY FastestAssumption, Zenon DEF NoPromise
  <2>2. d.revision \in Revisions /\ d.cost \in Nat /\ d.at + d.retryAfter \in Nat
    BY <1>4 DEF Decisions, Instants
  <2>3. promise \in [active : BOOLEAN, revision : Revisions, cost : Nat, due : Nat]
    BY Zenon DEF IInv, TypeOK
  <2>4. \/ promise' = NoPromise
        \/ promise' = promise
        \/ promise' = [active |-> TRUE, revision |-> d.revision, cost |-> d.cost,
                       due |-> d.at + d.retryAfter]
    BY <1>2, Zenon DEF Promises
  <2>5. CASE promise' = [active |-> TRUE, revision |-> d.revision, cost |-> d.cost,
                         due |-> d.at + d.retryAfter]
    BY <2>2, <2>5, Zenon
  <2>. QED
    BY <2>1, <2>3, <2>4, <2>5, Zenon
<1>7. TypeOK'
  BY <1>2, <1>4, <1>5, <1>6, Zenon DEF TypeOK, Settled
<1>8. Covered(audit.granted, Worth(bucket, bucket.revision), bucket.revision, bucket.lastSeen)'
  BY <1>1, <1>4, <1>5, Zenon DEF Covered, Worth
<1>9. audit'.start <= bucket'.lastSeen
  <2>1. /\ audit.start \in Instants /\ bucket.lastSeen \in Instants /\ ready.lastSeen \in Instants
        /\ audit.start <= bucket.lastSeen /\ ready.lastSeen >= bucket.lastSeen
    BY <1>1, <1>3, Zenon DEF IInv, TypeOK, Buckets
  <2>2. audit.start <= ready.lastSeen
    BY <2>1 DEF Instants
  <2>. QED
    BY <1>4, <1>5, <2>2, Zenon
<1>. QED
  BY <1>1, <1>4, <1>7, <1>8, <1>9, Zenon DEF IInv, Settled

\* A measurement may start at any moment: a settled bucket is worth no more
\* than its limit.
LEMMA StartAuditInv == IInv /\ StartAudit => IInv'
<1>. SUFFICES ASSUME IInv, StartAudit PROVE IInv'
  OBVIOUS
<1> DEFINE r == bucket.revision
           p == Policy[r].period
           f == Policy[Fastest].period
           l == Limit(r)
<1>1. /\ bucket' = bucket /\ decision' = decision /\ promise' = promise
      /\ audit' = [start |-> bucket.lastSeen, limit |-> l, granted |-> 0]
  BY Zenon DEF StartAudit
<1>2. bucket \in Buckets /\ r \in Revisions /\ bucket.lastSeen \in Instants
  BY Zenon DEF IInv, TypeOK, Buckets
<1>3. p \in Nat \ {0} /\ f \in Nat \ {0} /\ l \in Nat /\ Policy[Fastest].capacity \in Nat
  BY <1>2, PolicyTypes, FastestAssumption, Zenon
<1>4. TypeOK'
  BY <1>1, <1>2, <1>3, Zenon DEF IInv, TypeOK
<1>5. Worth(bucket, r) <= l * p
  <2> DEFINE t == bucket.tokens
             m == bucket.remainder
  <2>1. t \in Nat /\ m \in Nat /\ t <= l /\ m < p /\ (t = l => m = 0)
    BY <1>2, Zenon DEF IInv, Settled, Buckets
  <2>2. t * p + m <= l * p
    <3> HIDE DEF t, m, p, l
    <3>1. CASE t = l
      BY <3>1, <2>1, <1>3
    <3>2. CASE t + 1 <= l
      <4>1. (t + 1) * p <= l * p
        BY <3>2, <2>1, <1>3, Monotone
      <4>2. (t + 1) * p = t * p + p
        BY <2>1, <1>3
      <4>3. t * p \in Int /\ l * p \in Int /\ p \in Int /\ m \in Int
        BY <2>1, <1>3
      <4>. QED
        BY <4>1, <4>2, <4>3, <2>1
    <3>. QED
      BY <3>1, <3>2, <2>1, <1>3
  <2>. QED
    BY <2>2, Zenon DEF Worth
<1>6. Covered(audit.granted, Worth(bucket, bucket.revision), bucket.revision, bucket.lastSeen)'
  <2> DEFINE w == Worth(bucket, r)
  <2>1. w \in Int
    BY <1>2, <1>3 DEF Worth, Buckets
  <2>2. w * f <= l * p * f
    BY <1>5, <1>3, <2>1, Monotone
  <2>3. (0 * p + w) * f = w * f /\ l * p * f = l * f * p
    BY <1>3, <2>1
  <2>4. (0 * p + w) * f <= l * f * p
    BY <2>2, <2>3, Zenon
  <2>5. l * f + (bucket.lastSeen - bucket.lastSeen) * Policy[Fastest].capacity = l * f
    BY <1>2, <1>3 DEF Instants
  <2>. QED
    BY <1>1, <2>4, <2>5, Zenon DEF Covered, Worth
<1>7. audit'.start <= bucket'.lastSeen
  BY <1>1, <1>2 DEF Instants
<1>. QED
  BY <1>1, <1>4, <1>6, <1>7, Zenon DEF IInv, Settled

\* IInv is inductive.
LEMMA NextInv == IInv /\ [Next]_vars => IInv'
<1>. SUFFICES ASSUME IInv, [Next]_vars PROVE IInv'
  OBVIOUS
<1>1. CASE \E r \in Revisions, now \in Instants :
              \E cost \in 1 .. Policy[r].maxCost : Admit(r, cost, now)
  BY <1>1, AdmitInv, Zenon
<1>2. CASE StartAudit
  BY <1>2, StartAuditInv, Zenon
<1>3. CASE UNCHANGED vars
  BY <1>3, Zenon DEF vars, IInv, TypeOK, Settled, Covered, Worth
<1>. QED
  BY <1>1, <1>2, <1>3, Zenon DEF Next

\* What is admitted is bounded: Covered without the balance that is left.
LEMMA InvBound == IInv => NoOverAdmission
<1>. SUFFICES ASSUME IInv PROVE NoOverAdmission
  OBVIOUS
<1> DEFINE g == audit.granted
           w == Worth(bucket, bucket.revision)
           p == Policy[bucket.revision].period
           f == Policy[Fastest].period
           x == audit.limit * f + (bucket.lastSeen - audit.start) * Policy[Fastest].capacity
<1>1. bucket.revision \in Revisions /\ bucket.tokens \in Nat /\ bucket.remainder \in Nat
  BY Zenon DEF IInv, TypeOK, Buckets
<1>2. /\ p \in Nat \ {0} /\ f \in Nat \ {0} /\ g \in Nat /\ audit.limit \in Nat
      /\ bucket.lastSeen - audit.start \in Int /\ Policy[Fastest].capacity \in Nat
  BY <1>1, PolicyTypes, FastestAssumption DEF IInv, TypeOK, Buckets, Instants
<1>3. w \in Nat /\ x \in Int
  BY <1>1, <1>2 DEF Worth
<1>4. (g * p + w) * f <= x * p
  BY Zenon DEF IInv, Covered
<1> HIDE DEF g, w, p, f, x
<1>5. g * f <= x
  <2> DEFINE y == g * f
  <2>1. (g * p + w) * f = y * p + w * f /\ w * f >= 0 /\ y \in Int
    BY <1>2, <1>3
  <2> HIDE DEF y
  <2>2. y * p <= x * p
    BY <1>2, <1>3, <1>4, <2>1
  <2>3. SUFFICES ASSUME x + 1 <= y PROVE FALSE
    BY <1>3, <2>1 DEF y
  <2>4. (x + 1) * p <= y * p
    BY <1>2, <1>3, <2>1, <2>3, Monotone
  <2>5. (x + 1) * p = x * p + p
    BY <1>2, <1>3
  <2>6. x * p \in Int /\ y * p \in Int /\ p \in Int /\ p >= 1
    BY <1>2, <1>3, <2>1
  <2>. QED
    BY <2>2, <2>4, <2>5, <2>6
<1>. QED
  BY <1>5, Zenon DEF NoOverAdmission, g, f, x

\* The state of a key keeps its shape whatever revisions, costs and instants
\* the callers of Admit submit.
THEOREM TypeCorrect == Spec => []TypeOK
<1>1. IInv => TypeOK
  BY Zenon DEF IInv
<1>. QED
  BY <1>1, InitInv, NextInv, PTL DEF Spec

\* No sequence of calls of Admit over-admits, for every set of policy
\* revisions that NewPolicy accepts.
THEOREM NeverOverAdmits == Spec => []NoOverAdmission
BY InitInv, NextInv, InvBound, PTL DEF Spec

------------------------------------------------------------------------------
(* What RetryAfter and Reset announce. *)

\* Left to accrue, b reaches n tokens at `due' and not before.
Due(b, r, n, due) ==
    \A t \in Nat : t >= b.lastRefill =>
        (Worth(b, r) + (t - b.lastRefill) * Policy[r].capacity >= n * Policy[r].period
           <=> t >= due)

\* The last Reset is the instant at which the bucket is full, and the followed
\* rejection's delay ends when the bucket has its cost.
Announced ==
    /\ decision.revision = bucket.revision
    /\ Due(bucket, bucket.revision, Limit(bucket.revision), decision.reset)
    /\ promise.active =>
         /\ promise.revision = bucket.revision
         /\ promise.cost \in 1 .. Limit(bucket.revision)
         /\ Due(bucket, bucket.revision, promise.cost, promise.due)

\* refillDuration from any balance is exact.
LEMMA DurationIsDue ==
    ASSUME NEW b \in Buckets, NEW r \in Revisions, b.remainder < Policy[r].period,
           NEW n \in Nat, b.tokens <= n,
           NEW due, due = b.lastRefill + RefillDuration(n - b.tokens, b.remainder, r)
    PROVE  Due(b, r, n, due)
<1> DEFINE P == Policy[r].period
           C == Policy[r].capacity
           T == b.tokens
           m == b.remainder
           k == n - T
           x == k * P - m
           last == b.lastRefill
<1>1. P \in Nat \ {0} /\ C \in Nat \ {0}
  BY PolicyTypes, Zenon
<1>2. T \in Nat /\ m \in Nat /\ m < P /\ last \in Nat /\ k \in Nat
  BY DEF Buckets, Instants
<1>3. SUFFICES ASSUME NEW t \in Nat, t >= last
               PROVE  T * P + m + (t - last) * C >= n * P <=> t >= due
  BY Zenon DEF Due, Worth
<1>4. due = last + RefillDuration(k, m, r)
  OBVIOUS
<1>5. RefillDuration(k, m, r) = IF k = 0 THEN 0 ELSE (x + C - 1) \div C
  BY Zenon DEF RefillDuration
<1> DEFINE d == t - last
<1>6. d \in Nat
  BY <1>2, <1>3
<1>7. T * P \in Int /\ n * P \in Int /\ k * P \in Int /\ d * C \in Nat
      /\ n * P = T * P + k * P
  <2>1. n = T + k
    BY <1>2
  <2> HIDE DEF P, C, T, k, d
  <2>. QED
    BY <1>1, <1>2, <1>6, <2>1, Distribute
<1>8. CASE k = 0
  <2>1. k * P = 0 /\ due = last
    BY <1>1, <1>2, <1>4, <1>5, <1>8
  <2>2. T * P + m + d * C >= n * P
    <3> HIDE DEF P, C, T, m, k, d
    <3>. QED
      BY <1>2, <1>7, <2>1
  <2>. QED
    BY <1>3, <2>1, <2>2, Zenon
<1>9. CASE k # 0
  <2>1. x \in Nat
    <3>1. 1 * P <= k * P
      BY <1>1, <1>2, <1>9, Monotone
    <3> HIDE DEF P, m, k
    <3>. QED
      BY <1>1, <1>2, <1>7, <3>1
  <2>2. RefillDuration(k, m, r) \in Nat
    BY <1>2, DurationFacts, Zenon
  <2>3. d * C >= x <=> d >= RefillDuration(k, m, r)
    <3> HIDE DEF x, C, d
    <3>. QED
      BY <1>1, <1>5, <1>6, <1>9, <2>1, CeilExact
  <2>4. T * P + m + d * C >= n * P <=> d * C >= x
    <3>1. x = k * P - m
      OBVIOUS
    <3> HIDE DEF P, C, T, m, k, d, x
    <3>. QED
      BY <1>2, <1>7, <3>1
  <2>5. d >= RefillDuration(k, m, r) <=> t >= due
    <3>1. d = t - last
      OBVIOUS
    <3> HIDE DEF d, k, m, last
    <3>. QED
      BY <1>2, <1>3, <1>4, <2>2, <3>1
  <2>. QED
    BY <2>3, <2>4, <2>5, Zenon
<1>. QED
  BY <1>8, <1>9, Zenon

\* A refill that does not fill the bucket credits every elapsed microsecond, and
\* one that does had that much to credit.
LEMMA RefillExact ==
    ASSUME NEW b \in Buckets, NEW r \in Revisions, NEW now \in Instants,
           b.lastRefill <= now, Settled(b, r)
    PROVE  LET v == Worth(b, r) + (now - b.lastRefill) * Policy[r].capacity
           IN  \/ Refill(b, r, now).tokens = Limit(r) /\ v >= Limit(r) * Policy[r].period
               \/ Worth(Refill(b, r, now), r) = v
<1> DEFINE P == Policy[r].period
           C == Policy[r].capacity
           accrued == (now - b.lastRefill) * C
           credit == accrued + b.remainder
           whole == credit \div P
           rest == credit % P
           tokens == b.tokens + whole
           v == Worth(b, r) + accrued
<1> SUFFICES \/ Refill(b, r, now).tokens = Limit(r) /\ v >= Limit(r) * P
             \/ Worth(Refill(b, r, now), r) = v
  OBVIOUS
<1>1. P \in Nat \ {0} /\ C \in Nat \ {0} /\ Limit(r) \in Nat \ {0}
  BY PolicyTypes, Zenon
<1>2. b.tokens \in Nat /\ b.remainder \in Nat /\ now - b.lastRefill \in Nat
  BY DEF Buckets, Instants
<1>3. accrued \in Nat /\ credit \in Nat
  BY <1>1, <1>2
<1>4. whole \in Nat /\ rest \in Nat /\ rest < P /\ credit = whole * P + rest
  BY <1>1, <1>3, DivMod, Zenon
<1>5. v = b.tokens * P + b.remainder + accrued
  BY Zenon DEF Worth
<1>6. tokens * P + rest = v /\ tokens \in Nat /\ tokens * P \in Int /\ b.tokens * P \in Int
  <2> HIDE DEF P, C, accrued, whole, rest, v
  <2>1. tokens * P = b.tokens * P + whole * P /\ tokens \in Nat
    BY <1>1, <1>2, <1>4, Distribute
  <2>2. b.tokens * P \in Int /\ whole * P \in Int
    BY <1>1, <1>2, <1>4
  <2> HIDE DEF tokens
  <2>. QED
    BY <2>1, <2>2, <1>2, <1>3, <1>4, <1>5
<1>7. CASE now <= b.lastRefill
  <2>1. Refill(b, r, now) = b /\ now - b.lastRefill = 0
    BY <1>7 DEF Refill, Instants, Buckets
  <2>2. accrued = 0
    BY <1>1, <2>1
  <2>. QED
    BY <1>1, <1>2, <2>1, <2>2 DEF Worth
<1>8. CASE ~(now <= b.lastRefill) /\ (b.tokens = Limit(r) \/ tokens >= Limit(r))
  <2>1. Refill(b, r, now).tokens = Limit(r)
    BY <1>8, Zenon DEF Refill, Buckets
  <2>2. v >= Limit(r) * P
    <3> HIDE DEF P, C, accrued, rest, tokens, v
    <3>1. CASE b.tokens = Limit(r)
      BY <3>1, <1>2, <1>3, <1>5, <1>6
    <3>2. CASE tokens >= Limit(r)
      <4>1. Limit(r) * P <= tokens * P
        BY <3>2, <1>6, <1>1, Monotone
      <4>. QED
        BY <4>1, <1>1, <1>4, <1>6
    <3>. QED
      BY <3>1, <3>2, <1>8, Zenon
  <2>. QED
    BY <2>1, <2>2, Zenon
<1>9. CASE ~(now <= b.lastRefill) /\ ~(b.tokens = Limit(r) \/ tokens >= Limit(r))
  <2>1. Refill(b, r, now) = [b EXCEPT !.tokens = tokens, !.remainder = rest, !.lastRefill = now]
    BY <1>9, Zenon DEF Refill
  <2>2. Refill(b, r, now).tokens = tokens /\ Refill(b, r, now).remainder = rest
    BY <2>1, Zenon DEF Buckets
  <2>. QED
    BY <2>2, <1>6, Zenon DEF Worth
<1>. QED
  BY <1>7, <1>8, <1>9, Zenon

\* A refill reaches n tokens exactly when they are due, and moves no due date.
LEMMA RefillKeepsDue ==
    ASSUME NEW b \in Buckets, NEW r \in Revisions, NEW now \in Instants,
           b.lastRefill <= now, Settled(b, r),
           NEW n \in 1 .. Limit(r), NEW due \in Nat, Due(b, r, n, due)
    PROVE  /\ Refill(b, r, now).tokens >= n <=> now >= due
           /\ Due(Refill(b, r, now), r, n, due)
<1> DEFINE P == Policy[r].period
           C == Policy[r].capacity
           full == Refill(b, r, now)
           w == Worth(b, r)
           v == w + (now - b.lastRefill) * C
<1>1. /\ P \in Nat \ {0} /\ C \in Nat \ {0} /\ Limit(r) \in Nat \ {0}
      /\ now \in Nat /\ b.lastRefill \in Nat /\ n \in Nat /\ n <= Limit(r)
  BY PolicyTypes DEF Buckets, Instants
<1>2. full \in Buckets /\ full.lastRefill = now /\ Settled(full, r)
  BY RefillFacts, Zenon
<1>3. full.tokens \in Nat /\ full.remainder \in 0 .. P - 1
  BY <1>1, <1>2 DEF Buckets, Settled
<1>4. w \in Int /\ v \in Int /\ Worth(full, r) \in Int
  <2>1. b.tokens \in Int /\ b.remainder \in Int
    BY DEF Buckets
  <2>. HIDE DEF full
  <2>2. w \in Int /\ Worth(full, r) \in Int
    BY <1>1, <1>3, <2>1 DEF Worth
  <2>. HIDE DEF w
  <2>. QED
    BY <1>1, <2>2
<1>5. v >= n * P <=> now >= due
  BY <1>1, Zenon DEF Due
<1>6. full.tokens >= n <=> Worth(full, r) >= n * P
  <2>. HIDE DEF full
  <2>1. n \in Int /\ P \in Nat \ {0} /\ full.tokens \in Int /\ full.remainder \in 0 .. P - 1
    BY <1>1, <1>3
  <2>. QED
    BY <2>1, WholePart, Zenon DEF Worth
<1>7. \/ full.tokens = Limit(r) /\ v >= Limit(r) * P
      \/ Worth(full, r) = v
  BY RefillExact, Zenon
<1>8. n * P <= Limit(r) * P /\ n * P \in Int /\ Limit(r) * P \in Int
  BY <1>1, Monotone
<1>9. full.tokens >= n <=> now >= due
  <2> HIDE DEF P, full, v
  <2>. QED
    BY <1>1, <1>4, <1>5, <1>6, <1>7, <1>8
<1>10. ASSUME NEW t \in Nat, t >= now
       PROVE  Worth(full, r) + (t - now) * C >= n * P <=> t >= due
  <2>1. (t - now) * C \in Nat
    BY <1>1, <1>10
  <2>2. CASE Worth(full, r) = v
    <3>1. w + (t - b.lastRefill) * C >= n * P <=> t >= due
      BY <1>1, <1>10 DEF Due
    <3>2. (t - b.lastRefill) * C = (now - b.lastRefill) * C + (t - now) * C
      <4>1. t - b.lastRefill = (now - b.lastRefill) + (t - now)
        BY <1>1
      <4>2. ((now - b.lastRefill) + (t - now)) * C = (now - b.lastRefill) * C + (t - now) * C
        <5>1. now - b.lastRefill \in Int /\ t - now \in Int /\ C \in Int
          BY <1>1
        <5>. QED
          BY <5>1, Distribute, Zenon
      <4>. QED
        BY <4>1, <4>2, Zenon
    <3>3. w + (t - b.lastRefill) * C = Worth(full, r) + (t - now) * C
      <4>1. (now - b.lastRefill) * C \in Int
        BY <1>1
      <4>2. Worth(full, r) = w + (now - b.lastRefill) * C
        BY <2>2, Zenon
      <4> HIDE DEF w, full, C
      <4>. QED
        BY <1>4, <2>1, <3>2, <4>1, <4>2
    <3>. QED
      BY <3>1, <3>3, Zenon
  <2>3. CASE full.tokens = Limit(r)
    <3>1. Worth(full, r) >= n * P /\ now >= due
      BY <1>1, <1>6, <1>9, <2>3, Zenon
    <3> HIDE DEF full, P
    <3>. QED
      BY <1>1, <1>4, <1>8, <1>10, <2>1, <3>1
  <2>. QED
    BY <1>7, <2>2, <2>3, Zenon
<1>11. Due(full, r, n, due)
  BY <1>2, <1>10, Zenon DEF Due
<1>. QED
  BY <1>9, <1>11, Zenon

\* Only balance and instant matter to what is due.
LEMMA SameDue ==
    ASSUME NEW b, NEW c, b.tokens = c.tokens, b.remainder = c.remainder,
           b.lastRefill = c.lastRefill, NEW r, NEW n, NEW due, Due(b, r, n, due)
    PROVE  Due(c, r, n, due)
BY Zenon DEF Due, Worth

\* The fields of a decision.
LEMMA DecideFields ==
    ASSUME NEW b, NEW r, NEW cost, NEW d, d = Decide(b, r, cost)
    PROVE  /\ d.allowed <=> cost <= b.tokens
           /\ d.revision = r /\ d.cost = cost /\ d.at = b.lastSeen
           /\ d.remaining = IF cost <= b.tokens THEN b.tokens - cost ELSE b.tokens
           /\ d.reset = b.lastSeen + RefillDuration(Limit(r) - d.remaining, b.remainder, r)
           /\ ~d.allowed => d.retryAfter = RefillDuration(cost - b.tokens, b.remainder, r)
BY Zenon DEF Decide

\* A call under the revision of the stored bucket only refills it: what was due
\* is met at its due date, and stays due if not.
LEMMA ReadyKeepsDue ==
    ASSUME IInv, NEW now \in Instants, NEW r, r = bucket.revision,
           NEW n \in 1 .. Limit(r), NEW due \in Nat, Due(bucket, r, n, due)
    PROVE  /\ Ready(r, now).tokens >= n <=> Ready(r, now).lastSeen >= due
           /\ Due(Ready(r, now), r, n, due)
<1> DEFINE at == Later(now, bucket.lastSeen)
           seen == [bucket EXCEPT !.lastSeen = at]
<1>1. bucket \in Buckets /\ r \in Revisions /\ Settled(bucket, r) /\ bucket.lastRefill = bucket.lastSeen
  BY Zenon DEF IInv, TypeOK, Buckets
<1>2. Ready(r, now) = Refill(seen, r, at)
  BY Zenon DEF Ready, GetOrCreate
<1>3. at \in Instants /\ bucket.lastRefill <= at
  BY <1>1 DEF Later, Instants, Buckets
<1> HIDE DEF at
<1>4. /\ seen \in Buckets /\ seen.lastSeen = at /\ seen.tokens = bucket.tokens
      /\ seen.remainder = bucket.remainder /\ seen.lastRefill = bucket.lastRefill
  BY <1>1, <1>3, Zenon DEF Buckets
<1> HIDE DEF seen
<1>5. Settled(seen, r) /\ Due(seen, r, n, due)
  <2>1. Due(seen, r, n, due)
    BY <1>4, SameDue, Zenon
  <2>. QED
    BY <1>1, <1>4, <2>1, Zenon DEF Settled
<1>6. Refill(seen, r, at).lastSeen = at
  BY <1>1, <1>3, <1>4, <1>5, RefillFacts, Zenon
<1>. QED
  BY <1>1, <1>2, <1>3, <1>4, <1>5, <1>6, RefillKeepsDue

\* The bucket that a decision leaves behind is full at the Reset it reports, and
\* a rejection's cost is there when its delay ends.
LEMMA DecideAnnounces ==
    ASSUME NEW b \in Buckets, NEW r \in Revisions, Settled(b, r), b.lastRefill = b.lastSeen,
           NEW cost \in Nat \ {0}, NEW d, d = Decide(b, r, cost),
           NEW used, used = [b EXCEPT !.tokens = d.remaining]
    PROVE  /\ Due(used, r, Limit(r), d.reset)
           /\ ~d.allowed => Due(used, r, cost, d.at + d.retryAfter)
<1>1. /\ d.remaining \in Nat /\ d.remaining <= b.tokens
      /\ d.at = b.lastSeen
      /\ d.allowed <=> cost <= b.tokens
      /\ d.remaining = IF cost <= b.tokens THEN b.tokens - cost ELSE b.tokens
      /\ d.reset = b.lastSeen + RefillDuration(Limit(r) - d.remaining, b.remainder, r)
      /\ ~d.allowed => d.retryAfter = RefillDuration(cost - b.tokens, b.remainder, r)
  BY DecideFacts, DecideFields
<1>2. b.tokens \in Nat /\ b.tokens <= Limit(r) /\ b.remainder < Policy[r].period
      /\ Limit(r) \in Nat
  BY PolicyTypes, Zenon DEF Settled, Buckets
<1>3. /\ used \in Buckets /\ used.tokens = d.remaining /\ used.remainder = b.remainder
      /\ used.lastRefill = b.lastSeen
  BY <1>1, Zenon DEF Buckets
<1>4. Due(used, r, Limit(r), d.reset)
  <2>1. d.reset = used.lastRefill + RefillDuration(Limit(r) - used.tokens, used.remainder, r)
    BY <1>1, <1>3, Zenon
  <2>2. used.remainder < Policy[r].period /\ used.tokens <= Limit(r)
    BY <1>1, <1>2, <1>3
  <2>. QED
    BY <1>2, <1>3, <2>1, <2>2, DurationIsDue, Zenon
<1>5. ASSUME ~d.allowed PROVE Due(used, r, cost, d.at + d.retryAfter)
  <2>1. used.tokens = b.tokens /\ used.tokens <= cost
    BY <1>1, <1>2, <1>3, <1>5
  <2>2. d.at + d.retryAfter
          = used.lastRefill + RefillDuration(cost - used.tokens, used.remainder, r)
    BY <1>1, <1>3, <1>5, <2>1, Zenon
  <2>3. used.remainder < Policy[r].period
    BY <1>2, <1>3, Zenon
  <2>. QED
    BY <1>3, <2>1, <2>2, <2>3, DurationIsDue, Zenon
<1>. QED
  BY <1>4, <1>5, Zenon

\* The call that creates the key announces when its bucket is full again.
LEMMA InitAnnounced == Init => Announced
<1> SUFFICES ASSUME NEW r \in Revisions, NEW now \in Instants,
                    NEW cost \in 1 .. Policy[r].maxCost,
                    decision = Decide(NewState(r, now), r, cost),
                    bucket = [NewState(r, now) EXCEPT !.tokens = decision.remaining],
                    promise = NoPromise
             PROVE  Announced
  BY Zenon DEF Init
<1> DEFINE b == NewState(r, now)
<1>1. b \in Buckets /\ b.revision = r /\ Settled(b, r) /\ b.lastRefill = b.lastSeen
  BY NewStateFacts, Zenon DEF NewState
<1>2. cost \in Nat \ {0}
  BY PolicyTypes
<1>3. decision = Decide(b, r, cost) /\ bucket = [b EXCEPT !.tokens = decision.remaining]
  OBVIOUS
<1> HIDE DEF b
<1>4. Due(bucket, r, Limit(r), decision.reset)
  BY <1>1, <1>2, <1>3, DecideAnnounces, Zenon
<1>5. bucket.revision = r /\ decision.revision = r
  BY <1>1, <1>3, DecideFields DEF Buckets
<1>6. promise.active = FALSE
  BY Zenon DEF NoPromise
<1>. QED
  BY <1>4, <1>5, <1>6, Zenon DEF Announced

\* Every call keeps what is announced, and meets it.
LEMMA AdmitAnnounces ==
    ASSUME IInv, Announced, NEW r \in Revisions, NEW now \in Instants,
           NEW cost \in 1 .. Policy[r].maxCost, Admit(r, cost, now)
    PROVE  /\ Announced'
           /\ promise.active /\ decision'.revision = promise.revision =>
                /\ decision'.at >= promise.due /\ decision'.cost <= promise.cost
                     => decision'.allowed
                /\ decision'.at < promise.due /\ decision'.cost >= promise.cost
                     => ~decision'.allowed
           /\ decision'.revision = decision.revision =>
                (decision'.at >= decision.reset
                   <=> decision'.remaining + (IF decision'.allowed THEN decision'.cost ELSE 0)
                         = Limit(decision'.revision))
<1> DEFINE ready == Ready(r, now)
           d == Decide(ready, r, cost)
<1>1. /\ ready \in Buckets /\ ready.revision = r /\ ready.lastRefill = ready.lastSeen
      /\ Settled(ready, r)
  BY ReadyFacts, Zenon
<1>2. bucket' = [ready EXCEPT !.tokens = d.remaining] /\ decision' = d /\ promise' \in Promises(d)
  BY Zenon DEF Admit
<1>3. /\ cost \in Nat \ {0} /\ cost \in 1 .. Limit(r) /\ Limit(r) \in Nat \ {0}
      /\ promise.due \in Nat /\ promise.cost \in Nat /\ decision.reset \in Nat
      /\ bucket.revision \in Revisions
  BY PolicyTypes DEF IInv, TypeOK, Decisions, Buckets
<1>4. /\ r = bucket.revision =>
           (ready.tokens >= Limit(r) <=> ready.lastSeen >= decision.reset)
      /\ promise.active /\ promise.revision = r =>
           /\ ready.tokens >= promise.cost <=> ready.lastSeen >= promise.due
           /\ Due(ready, r, promise.cost, promise.due)
           /\ promise.cost \in 1 .. Limit(r)
  <2>1. ASSUME r = bucket.revision
        PROVE  ready.tokens >= Limit(r) <=> ready.lastSeen >= decision.reset
    <3>1. Due(bucket, r, Limit(r), decision.reset) /\ Limit(r) \in 1 .. Limit(r)
      BY <1>3, <2>1 DEF Announced
    <3>. QED
      BY <1>3, <2>1, <3>1, ReadyKeepsDue, Zenon
  <2>2. ASSUME promise.active, promise.revision = r
        PROVE  /\ ready.tokens >= promise.cost <=> ready.lastSeen >= promise.due
               /\ Due(ready, r, promise.cost, promise.due)
               /\ promise.cost \in 1 .. Limit(r)
    <3>1. /\ r = bucket.revision /\ promise.cost \in 1 .. Limit(r)
          /\ Due(bucket, r, promise.cost, promise.due)
      BY <2>2, Zenon DEF Announced
    <3>. QED
      BY <1>3, <3>1, ReadyKeepsDue, Zenon
  <2>. QED
    BY <2>1, <2>2, Zenon
<1> HIDE DEF ready
<1>5. /\ d.allowed <=> cost <= ready.tokens
      /\ d.revision = r /\ d.cost = cost /\ d.at = ready.lastSeen
      /\ d.remaining = IF cost <= ready.tokens THEN ready.tokens - cost ELSE ready.tokens
  BY DecideFields
<1>6. Due(bucket', r, Limit(r), d.reset) /\ (~d.allowed => Due(bucket', r, cost, d.at + d.retryAfter))
  BY <1>1, <1>2, <1>3, DecideAnnounces, Zenon
<1> HIDE DEF d
<1>7. /\ bucket'.revision = r /\ bucket'.tokens = d.remaining
      /\ bucket'.remainder = ready.remainder /\ bucket'.lastRefill = ready.lastRefill
  BY <1>1, <1>2, Zenon DEF Buckets
<1>8. ASSUME promise'.active
      PROVE  /\ promise'.revision = r /\ promise'.cost \in 1 .. Limit(r)
             /\ Due(bucket', r, promise'.cost, promise'.due)
  <2>1. ~d.allowed /\ (\/ promise' = [active |-> TRUE, revision |-> d.revision, cost |-> d.cost,
                                      due |-> d.at + d.retryAfter]
                       \/ promise.active /\ promise.revision = d.revision /\ promise' = promise)
    BY <1>2, <1>8 DEF Promises, NoPromise
  <2>2. CASE promise' = [active |-> TRUE, revision |-> d.revision, cost |-> d.cost,
                         due |-> d.at + d.retryAfter]
    <3>1. promise'.revision = r /\ promise'.cost = cost /\ promise'.due = d.at + d.retryAfter
      BY <1>5, <2>2, Zenon
    <3>. QED
      BY <1>3, <1>6, <2>1, <3>1, Zenon
  <2>3. CASE promise.active /\ promise.revision = d.revision /\ promise' = promise
    <3>1. Due(ready, r, promise.cost, promise.due) /\ promise.cost \in 1 .. Limit(r)
      BY <1>4, <1>5, <2>3, Zenon
    <3>2. bucket'.tokens = ready.tokens
      BY <1>5, <1>7, <2>1, Zenon
    <3>3. Due(bucket', r, promise.cost, promise.due)
      BY <1>7, <3>1, <3>2, SameDue, Zenon
    <3>. QED
      BY <1>5, <2>3, <3>1, <3>3, Zenon
  <2>. QED
    BY <2>1, <2>2, <2>3, Zenon
<1>9. Announced'
  BY <1>2, <1>5, <1>6, <1>7, <1>8, Zenon DEF Announced, Due, Worth, Limit
<1>10. ready.tokens \in Nat /\ ready.tokens <= Limit(r) /\ ready.lastSeen \in Nat
  BY <1>1 DEF Buckets, Settled, Instants
<1>11. ASSUME promise.active, d.revision = promise.revision
       PROVE  /\ d.at >= promise.due /\ d.cost <= promise.cost => d.allowed
              /\ d.at < promise.due /\ d.cost >= promise.cost => ~d.allowed
  <2>1. /\ ready.tokens >= promise.cost <=> ready.lastSeen >= promise.due
        /\ promise.cost \in 1 .. Limit(r) /\ Limit(r) \in Nat /\ cost \in Nat
    BY <1>3, <1>4, <1>5, <1>11, Zenon
  <2>2. promise.cost \in Nat /\ promise.due \in Int
    BY <2>1 DEF IInv, TypeOK
  <2>. QED
    BY <1>5, <1>10, <2>1, <2>2
<1>12. ASSUME d.revision = decision.revision
       PROVE  d.at >= decision.reset
                <=> d.remaining + (IF d.allowed THEN d.cost ELSE 0) = Limit(d.revision)
  <2>1. d.remaining + (IF d.allowed THEN d.cost ELSE 0) = ready.tokens
    BY <1>3, <1>5, <1>10
  <2>2. r = bucket.revision
    BY <1>5, <1>12, Zenon DEF Announced
  <2>3. ready.tokens >= Limit(r) <=> ready.lastSeen >= decision.reset
    BY <1>4, <2>2, Zenon
  <2>4. ready.tokens = Limit(r) <=> ready.tokens >= Limit(r)
    BY <1>3, <1>10
  <2>. QED
    BY <1>5, <2>1, <2>3, <2>4, Zenon
<1>. QED
  BY <1>2, <1>9, <1>11, <1>12, Zenon

\* Every step keeps what is announced.
LEMMA NextAnnounced == IInv /\ Announced /\ [Next]_vars => Announced'
<1> SUFFICES ASSUME IInv, Announced, [Next]_vars PROVE Announced'
  OBVIOUS
<1>1. CASE UNCHANGED <<bucket, decision, promise>>
  BY <1>1, Zenon DEF Announced, Due, Worth, Limit
<1>. QED
  BY <1>1, AdmitAnnounces, Zenon DEF Next, StartAudit, vars

\* RetryAfter is exact for every policy, whatever requests are rejected while a
\* caller waits (admitToken, refillDuration).
THEOREM RetryAfterIsExact == Spec => RetryAfterExact
<1>1. IInv /\ Announced /\ [Next]_vars =>
        [promise.active /\ decision'.revision = promise.revision =>
           /\ decision'.at >= promise.due /\ decision'.cost <= promise.cost
                => decision'.allowed
           /\ decision'.at < promise.due /\ decision'.cost >= promise.cost
                => ~decision'.allowed]_decision
  BY AdmitAnnounces, Zenon DEF Next, StartAudit, vars
<1>. QED
  BY <1>1, InitInv, NextInv, InitAnnounced, NextAnnounced, PTL DEF Spec, RetryAfterExact

\* Reset is exact for every policy: a later request of the same revision finds a
\* full bucket from the instant reported on, and not before.
THEOREM ResetIsExact == Spec => ResetExact
<1>1. IInv /\ Announced /\ [Next]_vars =>
        [decision'.revision = decision.revision =>
           (decision'.at >= decision.reset
              <=> decision'.remaining + (IF decision'.allowed THEN decision'.cost ELSE 0)
                    = Limit(decision'.revision))]_decision
  BY AdmitAnnounces, Zenon DEF Next, StartAudit, vars
<1>. QED
  BY <1>1, InitInv, NextInv, InitAnnounced, NextAnnounced, PTL DEF Spec, ResetExact
=============================================================================

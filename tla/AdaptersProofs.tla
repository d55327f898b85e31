---------------------------- MODULE AdaptersProofs ----------------------------
(***************************************************************************)
(* Proofs about the two services and the middlewares, for every length of  *)
(* a batch and every number of rules.  StrictInv and ReleasedInv say where *)
(* a call of either service is and what is known of each item; they rest   *)
(* on what normalisation may conclude from a reply (NormalizeSound).       *)
(* AdapterInv adds what a middleware has learnt from the rules it asked.   *)
(***************************************************************************)
EXTENDS Adapters, SequenceTheorems, TLAPS

Methods == {"admit", "batch", "acquire", "release", "atomic"}

Reasons == {"allowed", "limited", "fail_open", "backend_unavailable", "canceled", "deadline",
            "outcome_unknown"}

\* What a backend may return for a method.
Possible(method) == Replies(method) \cup IF method = "atomic" THEN {Panic} ELSE {}

ItemErrors == [index : Nat, err : Errors]

\* A sequence of one element.
LEMMA Singleton ==
    ASSUME NEW S, NEW x \in S
    PROVE  <<x>> \in Seq(S) /\ Len(<<x>>) = 1 /\ <<x>>[1] = x /\ <<x>> # <<>>
OBVIOUS

\* Errors are told apart by their kind, and known by what they say.
LEMMA ErrorFacts ==
    ASSUME NEW e \in Errors
    PROVE  /\ e.kind \in {"nil", "foreign", "category", "outcome"}
           /\ e = Nil <=> e.kind = "nil"
           /\ e.what = "nil" <=> e.kind = "nil"
           /\ e.kind = "category" <=> e.what \in Categories
           /\ e.kind = "category" => e = Category(e.what)
           /\ e.kind = "outcome" <=> e.what \in {"canceled", "deadline", "unknown"}
           /\ e.kind = "outcome" => e = Outcome(e.what)
BY DEF Errors, Nil, Category, Outcome, Categories

\* What normalisation may conclude.
Sound(method, mode, r, v) ==
    /\ v.reason \in Reasons /\ v.err \in Errors
    /\ v.reason = "allowed" => Confirms(method, r)
    /\ v.reason \notin {"allowed", "outcome_unknown"} => Denies(method, r)
    /\ v.reason = "fail_open" => mode = "open" /\ method \in {"admit", "batch"}
    /\ v.err = Nil <=> v.reason \in {"allowed", "fail_open"}
    /\ v.err.what = "nil" <=> v.err = Nil
    /\ v.err.what = "rejected" => v.reason = "limited"

\* The conclusions of normalisation, each with what makes it sound.
LEMMA VerdictSound ==
    ASSUME NEW method \in Methods, NEW mode \in {"open", "closed"}, NEW r, r.err \in Errors
    PROVE  /\ Sound(method, mode, r, Unknown)
           /\ Confirms(method, r) => Sound(method, mode, r, Verdict("allowed", Nil))
           /\ Denies(method, r) /\ mode = "open" /\ method \in {"admit", "batch"}
                => Sound(method, mode, r, Verdict("fail_open", Nil))
           /\ Denies(method, r) /\ Safe(r.err) /\ r.err.what = "rejected"
                => Sound(method, mode, r, Verdict("limited", r.err))
           /\ Denies(method, r) /\ Safe(r.err) /\ r.err.what # "rejected"
                => Sound(method, mode, r, Verdict("backend_unavailable", r.err))
<1>1. Nil \in Errors /\ Outcome("unknown") \in Errors /\ Nil.what = "nil"
      /\ Outcome("unknown").what = "unknown" /\ Outcome("unknown") # Nil
  BY Zenon DEF Errors, Nil, Outcome
<1>2. Sound(method, mode, r, Unknown)
  BY <1>1, Zenon DEF Sound, Unknown, Verdict, Reasons
<1>3. Confirms(method, r) => Sound(method, mode, r, Verdict("allowed", Nil))
  BY <1>1, Zenon DEF Sound, Verdict, Reasons
<1>4. Denies(method, r) /\ mode = "open" /\ method \in {"admit", "batch"}
        => Sound(method, mode, r, Verdict("fail_open", Nil))
  BY <1>1, Zenon DEF Sound, Verdict, Reasons
<1>5. Safe(r.err) => r.err # Nil /\ r.err.what # "nil"
  BY ErrorFacts, Zenon DEF Safe
<1>6. Denies(method, r) /\ Safe(r.err) /\ r.err.what = "rejected"
        => Sound(method, mode, r, Verdict("limited", r.err))
  BY <1>5, Zenon DEF Sound, Verdict, Reasons
<1>7. Denies(method, r) /\ Safe(r.err) /\ r.err.what # "rejected"
        => Sound(method, mode, r, Verdict("backend_unavailable", r.err))
  BY <1>5, Zenon DEF Sound, Verdict, Reasons
<1>. QED
  BY <1>2, <1>3, <1>4, <1>6, <1>7, Zenon

\* An outcome the backend declares is repeated; only canceled and deadline deny.
LEMMA OutcomeSound ==
    ASSUME NEW method \in Methods, NEW mode \in {"open", "closed"}, NEW r, r.err \in Errors,
           r.err.kind = "outcome", r.err.what # "unknown" => Denies(method, r)
    PROVE  Sound(method, mode, r,
                 Verdict(IF r.err.what = "unknown" THEN "outcome_unknown" ELSE r.err.what, r.err))
<1>1. r.err.what \in {"canceled", "deadline", "unknown"} /\ r.err # Nil
  BY ErrorFacts, Zenon
<1>2. CASE r.err.what = "unknown"
  BY <1>1, <1>2, Zenon DEF Sound, Verdict, Reasons
<1>3. CASE r.err.what # "unknown"
  BY <1>1, <1>3, Zenon DEF Sound, Verdict, Reasons
<1>. QED
  BY <1>2, <1>3, Zenon

\* A declared outcome with neither decision, lease nor command denies, unless it
\* is unknown.
LEMMA OutcomeDenies ==
    ASSUME NEW method \in Methods, NEW r, r.err \in Errors, r.err.kind = "outcome",
           r.lease = "none", r.decision = "zero", method = "atomic" => r.command # "own",
           r.err.what # "unknown"
    PROVE  Denies(method, r)
BY ErrorFacts, Zenon DEF Denies

\* A category the method may return, with neither decision, lease nor command.
LEMMA CategoryDenies ==
    ASSUME NEW method \in Methods, NEW r, Safe(r.err), r.lease = "none", r.decision = "zero",
           method = "atomic" => r.command # "own", r.err.what \in Applicable(method) \ {"rejected"}
    PROVE  Denies(method, r)
BY Zenon DEF Denies

\* A rejection with a decision that says so.
LEMMA RejectionDenies ==
    ASSUME NEW method \in Methods, NEW r, Safe(r.err), r.err.what = "rejected", r.lease = "none",
           r.decision = "rejected", method = "atomic" => r.command = "own"
    PROVE  Denies(method, r)
BY Zenon DEF Denies

\* Admit and the items of a batch.
LEMMA NormalizeAdmitSound ==
    ASSUME NEW method \in {"admit", "batch"}, NEW mode \in {"open", "closed"}, NEW r \in Replies(method)
    PROVE  Sound(method, mode, r, NormalizeAdmit(mode, r))
<1>1. method \in Methods /\ method # "atomic" /\ r.lease = "none" /\ r.err \in Errors
  BY Zenon DEF Replies, Methods
<1>2. Applicable("admit") = Applicable(method)
  BY Zenon DEF Applicable
<1>3. Outcome("deadline").kind = "outcome" /\ Outcome("deadline").what # "unknown"
  BY Zenon DEF Outcome
<1>4. r.err = Nil /\ r.decision = "allowed" => Confirms(method, r)
  BY Zenon DEF Confirms
<1>5. Safe(r.err) /\ r.err.what = "rejected" /\ r.decision = "rejected" => Denies(method, r)
  BY <1>1, RejectionDenies, Zenon
<1>6. r.err.kind = "outcome" /\ r.decision = "zero" /\ r.err.what # "unknown" => Denies(method, r)
  BY <1>1, OutcomeDenies, Zenon
<1>7. Safe(r.err) /\ r.err.what \in Applicable(method) \ {"rejected"} /\ r.decision = "zero"
        => Denies(method, r)
  BY <1>1, CategoryDenies, Zenon
<1>8. r.err.kind = "outcome" /\ r.decision = "zero"
        => Sound(method, mode, r,
                 Verdict(IF r.err.what = "unknown" THEN "outcome_unknown" ELSE r.err.what, r.err))
  BY <1>1, <1>6, OutcomeSound, Zenon
<1>. QED
  BY <1>1, <1>2, <1>3, <1>4, <1>5, <1>6, <1>7, <1>8, VerdictSound, Zenon DEF NormalizeAdmit

\* Acquire.
LEMMA NormalizeAcquireSound ==
    ASSUME NEW mode \in {"open", "closed"}, NEW r \in Replies("acquire")
    PROVE  Sound("acquire", mode, r, NormalizeAcquire(r))
<1>1. "acquire" \in Methods /\ r.err \in Errors
  BY Zenon DEF Replies, Methods
<1>2. r.err = Nil /\ r.decision = "allowed" /\ r.lease = "matching" => Confirms("acquire", r)
  BY Zenon DEF Confirms
<1>3. Safe(r.err) /\ r.err.what = "rejected" /\ r.lease = "none" /\ r.decision = "rejected"
        => Denies("acquire", r)
  BY <1>1, RejectionDenies, Zenon
<1>4. r.err.kind = "outcome" /\ r.lease = "none" /\ r.decision = "zero"
        => Sound("acquire", mode, r,
                 Verdict(IF r.err.what = "unknown" THEN "outcome_unknown" ELSE r.err.what, r.err))
  BY <1>1, OutcomeDenies, OutcomeSound, Zenon
<1>5. Safe(r.err) /\ r.err.what \in Applicable("acquire") \ {"rejected"} /\ r.lease = "none"
        /\ r.decision = "zero" => Denies("acquire", r)
  BY <1>1, CategoryDenies, Zenon
<1>. QED
  BY <1>1, <1>2, <1>3, <1>4, <1>5, VerdictSound, Zenon DEF NormalizeAcquire

\* Release.
LEMMA NormalizeReleaseSound ==
    ASSUME NEW mode \in {"open", "closed"}, NEW r \in Replies("release")
    PROVE  Sound("release", mode, r, NormalizeRelease(r))
<1>1. "release" \in Methods /\ r.lease = "none" /\ r.decision = "zero" /\ r.err \in Errors
  BY Zenon DEF Replies, Methods
<1>2. r.err = Nil => Confirms("release", r)
  BY Zenon DEF Confirms
<1>3. r.err.kind = "outcome"
        => Sound("release", mode, r,
                 Verdict(IF r.err.what = "unknown" THEN "outcome_unknown" ELSE r.err.what, r.err))
  BY <1>1, OutcomeDenies, OutcomeSound, Zenon
<1>4. "rejected" \notin Applicable("release")
  BY Zenon DEF Applicable
<1>5. Safe(r.err) /\ r.err.what \in Applicable("release") => Denies("release", r)
  BY <1>1, <1>4, CategoryDenies, Zenon
<1>. QED
  BY <1>1, <1>2, <1>3, <1>4, <1>5, VerdictSound, Zenon DEF NormalizeRelease

\* AdmitAtomicBatch, whose backend may panic.
LEMMA NormalizeAtomicSound ==
    ASSUME NEW mode \in {"open", "closed"}, NEW r \in Possible("atomic")
    PROVE  Sound("atomic", mode, r, NormalizeAtomic(r))
<1>1. "atomic" \in Methods /\ r.lease = "none" /\ r.err \in Errors
  BY Zenon DEF Possible, Replies, Panic, NoReply, Errors, Nil, Methods
<1>2. r.command = "own" /\ r.decision = "allowed" /\ r.err = Nil => Confirms("atomic", r)
  BY Zenon DEF Confirms
<1>3. r.err = Category("rejected") => Safe(r.err) /\ r.err.what = "rejected"
  BY DEF Category, Safe
<1>4. r.command = "own" /\ r.decision = "rejected" /\ r.err = Category("rejected") => Denies("atomic", r)
  BY <1>1, <1>3, RejectionDenies, Zenon
<1>5. r.command = "none" /\ r.decision = "zero" /\ r.err.kind = "outcome"
        => Sound("atomic", mode, r,
                 Verdict(IF r.err.what = "unknown" THEN "outcome_unknown" ELSE r.err.what, r.err))
  BY <1>1, OutcomeDenies, OutcomeSound, Zenon
<1>6. r.command = "none" /\ r.decision = "zero" /\ Safe(r.err)
        /\ r.err.what \in Applicable("atomic") \ {"rejected"} => Denies("atomic", r)
  BY <1>1, CategoryDenies, Zenon
<1>. QED
  BY <1>1, <1>2, <1>3, <1>4, <1>5, <1>6, VerdictSound, Zenon DEF NormalizeAtomic

\* Every method: whatever the backend returns, the conclusion is sound.
LEMMA NormalizeSound ==
    ASSUME NEW method \in Methods, NEW mode \in {"open", "closed"}, NEW r \in Possible(method)
    PROVE  Sound(method, mode, r, Normalize(method, mode, r))
BY NormalizeAdmitSound, NormalizeAcquireSound, NormalizeReleaseSound, NormalizeAtomicSound, Zenon
   DEF Normalize, Methods, Possible

------------------------------------------------------------------------------
(* The strict service. *)

StrictTyped ==
    /\ op \in Methods
    /\ modes \in Seq({"open", "closed"})
    /\ ctx \in {"open", "canceled", "deadline"}
    /\ pc \in {"idle", "loop", "check", "dispatch", "reply"}
    /\ pc = "reply" => raw \in Possible(op)
    /\ decisions \in Seq({"zero"} \cup Reasons) /\ Len(decisions) = Len(modes)
    /\ attempted \in Seq(Nat) /\ index = Len(attempted) + 1
    /\ items \in Seq(ItemErrors)
    /\ observed \in Seq(Reasons)
    /\ late \in Nat

\* Where the call is in its batch.
Placed ==
    /\ Len(decisions) # 0
    /\ op # "batch" => Len(decisions) = 1
    /\ Len(attempted) <= Len(decisions)
    /\ pc # "idle" => Len(attempted) < Len(decisions)
    /\ \A i \in DOMAIN attempted : attempted[i] = i

\* What is known of the item at hand and of those to come.
Ahead ==
    /\ done \subseteq 1 .. (IF pc = "reply" THEN index ELSE Len(attempted))
    /\ pc = "reply" => IF index \in done THEN ~Denies(op, raw) ELSE ~Confirms(op, raw)
    /\ pc # "idle" \/ op = "batch" =>
          \A i \in DOMAIN decisions : decisions[i] = "zero" <=> i > Len(attempted)

\* Observers follow the decisions.
Watched ==
    ~Silent => /\ Len(observed) <= Len(decisions)
               /\ pc # "idle" => Len(observed) = Len(attempted)
               /\ \A i \in DOMAIN decisions :
                     decisions[i] = IF i <= Len(observed) THEN observed[i] ELSE "zero"

\* Why a batch ended early.
Stopped ==
    op = "batch" /\ pc = "idle" /\ Len(attempted) < Len(decisions) =>
        /\ ctx # "open"
        /\ items # <<>>
        /\ items[Len(items)].index \in {Len(attempted), Len(attempted) + 1}

\* Allowed acquisitions have a lease, and nothing else has one.
Leased == lease = IF op = "acquire" /\ decisions[1] = "allowed" THEN "matching" ELSE "none"

\* The error of Admit repeats its decision.
Told ==
    op = "admit" =>
        IF decisions[1] \in {"zero", "allowed", "fail_open"} THEN items = <<>>
        ELSE /\ items # <<>> /\ items[1].err.what # "nil"
             /\ items[1].err.what = "rejected" => decisions[1] = "limited"

\* Only rates fail open.
Closed == op \notin {"admit", "batch"} => decisions[1] # "fail_open"

\* The check that had passed when the context ended is the last one to pass.
Dispatches == late = 0 \/ (late = 1 /\ ctx # "open" /\ pc # "dispatch")

StrictInv ==
    /\ StrictTyped /\ Placed /\ Ahead /\ Honest /\ Watched /\ Stopped /\ Leased /\ Told
    /\ Closed /\ Dispatches

\* The invariant gives every property of a call.
LEMMA StrictProperties ==
    ASSUME StrictInv
    PROVE  /\ Honest /\ ObservedOnce /\ BatchAccounted /\ LeaseComplete /\ StopsWhenEnded
           /\ op = "atomic" => decisions[1] # "fail_open"
<1>. USE DEF StrictInv
<1>1. ObservedOnce
  <2>1. /\ DOMAIN observed = 1 .. Len(observed) /\ Len(observed) \in Nat
        /\ DOMAIN decisions = 1 .. Len(decisions) /\ Len(decisions) \in Nat
        /\ \A i \in DOMAIN observed : observed[i] \in Reasons
    BY DEF StrictTyped
  <2>2. "zero" \notin Reasons
    BY Zenon DEF Reasons
  <2>. QED
    BY <2>1, <2>2 DEF ObservedOnce, Watched
<1>2. BatchAccounted
  <2> DEFINE n == Len(attempted)
  <2>1. n \in Nat /\ attempted \in [1 .. n -> Nat] /\ Len(decisions) \in Nat /\ index = n + 1
    BY DEF StrictTyped
  <2>2. attempted = [i \in 1 .. n |-> i]
    BY <2>1, Zenon DEF Placed
  <2>3. done \subseteq 1 .. (IF pc = "reply" THEN n + 1 ELSE n)
    BY <2>1, Zenon DEF Ahead
  <2>4. op = "batch" => \A i \in DOMAIN decisions : decisions[i] = "zero" <=> i > n
    BY Zenon DEF Ahead
  <2>. QED
    BY <2>2, <2>3, <2>4, Zenon DEF BatchAccounted, Stopped, Size
<1>3. LeaseComplete
  BY Zenon DEF LeaseComplete, Leased
<1>4. StopsWhenEnded
  BY DEF StopsWhenEnded, Dispatches
<1>5. op = "atomic" => decisions[1] # "fail_open"
  BY Zenon DEF Closed
<1>. QED
  BY <1>1, <1>2, <1>3, <1>4, <1>5, Zenon

\* A new call.
LEMMA StrictBegins ==
    ASSUME NEW method \in Methods, NEW n \in Nat \ {0}, NEW m \in [1 .. n -> {"open", "closed"}],
           Begin(method, m)
    PROVE  StrictInv'
<1>1. m \in Seq({"open", "closed"}) /\ Len(m) = n
  OBVIOUS
<1>2. decisions' \in Seq({"zero"}) /\ Len(decisions') = n /\ \A i \in 1 .. n : decisions'[i] = "zero"
  BY <1>1 DEF Begin
<1>3. decisions' \in Seq({"zero"} \cup Reasons) /\ DOMAIN decisions' = 1 .. n
  BY <1>2
<1>4. items' \in Seq(ItemErrors) /\ (method # "release" => items' = <<>>)
  <2> DEFINE e == [index |-> 1, err |-> Category("not_owned")]
  <2>1. e \in ItemErrors
    BY Zenon DEF Errors, Categories, ItemErrors
  <2>2. items' = <<>> \/ (method = "release" /\ items' = <<e>>)
    BY Zenon DEF Begin
  <2>. HIDE DEF e
  <2>3. <<e>> \in Seq(ItemErrors)
    BY <2>1, Singleton, Zenon
  <2>. QED
    BY <2>2, <2>3, EmptySeq, Zenon
<1>5. /\ op' = method /\ modes' = m /\ ctx' = "open" /\ pc' \in {"idle", "loop"} /\ index' = 1
      /\ attempted' = <<>> /\ lease' = "none" /\ observed' = <<>> /\ done' = {} /\ late' = 0
      /\ method # "batch" => n = 1
      /\ pc' = "idle" => method = "release"
  BY <1>1, Zenon DEF Begin
<1>6. StrictTyped'
  BY <1>1, <1>2, <1>3, <1>4, <1>5 DEF StrictTyped
<1>7. Placed' /\ Ahead'
  BY <1>1, <1>2, <1>3, <1>5 DEF Placed, Ahead
<1>8. Honest' /\ Watched'
  BY <1>2, <1>3, <1>5 DEF Honest, Watched, Silent
<1>9. Stopped' /\ Leased' /\ Told' /\ Closed' /\ Dispatches'
  BY <1>2, <1>3, <1>4, <1>5 DEF Stopped, Leased, Told, Closed, Dispatches
<1>. QED
  BY <1>6, <1>7, <1>8, <1>9, Zenon DEF StrictInv

\* The context ends.
LEMMA StrictContextEnds == ASSUME StrictInv, ContextEnds PROVE StrictInv'
<1>. USE DEF StrictInv, ContextEnds
<1>1. StrictTyped'
  BY Zenon DEF StrictTyped
<1>2. Placed' /\ Ahead'
  BY Zenon DEF Placed, Ahead
<1>3. Honest' /\ Watched'
  BY Zenon DEF Honest, Watched, Silent
<1>4. Stopped' /\ Leased' /\ Told' /\ Closed' /\ Dispatches'
  BY Zenon DEF Stopped, Leased, Told, Closed, Dispatches
<1>. QED
  BY <1>1, <1>2, <1>3, <1>4, Zenon

\* The head of the batch loop.
LEMMA StrictLoop == ASSUME StrictInv, Loop PROVE StrictInv'
<1>. USE DEF StrictInv, Loop
<1>1. StrictTyped'
  <2>1. CASE UNCHANGED items
    BY <2>1, Zenon DEF StrictTyped
  <2>2. CASE op = "batch" /\ Ended /\ pc' = "idle"
             /\ items' = Append(items, [index |-> index, err |-> Outcome(ctx)])
    <3>1. [index |-> index, err |-> Outcome(ctx)] \in ItemErrors
      BY <2>2 DEF StrictTyped, Ended, Errors, ItemErrors
    <3>. QED
      BY <2>2, <3>1 DEF StrictTyped
  <2>. QED
    BY <2>1, <2>2, Zenon
<1>2. Placed' /\ Ahead'
  BY Zenon DEF Placed, Ahead, StrictTyped
<1>3. Honest' /\ Watched'
  BY Zenon DEF Honest, Watched, Silent
<1>4. Stopped'
  <2>1. SUFFICES ASSUME op = "batch", Ended, pc' = "idle",
                        items' = Append(items, [index |-> index, err |-> Outcome(ctx)])
                 PROVE  Stopped'
    BY Zenon DEF Stopped
  <2> DEFINE e == [index |-> index, err |-> Outcome(ctx)]
  <2>2. items' # <<>> /\ items'[Len(items')] = e
    <3>1. e \in ItemErrors /\ items \in Seq(ItemErrors)
      BY <2>1 DEF StrictTyped, Ended, Errors, ItemErrors
    <3>. HIDE DEF e
    <3>. QED
      BY <2>1, <3>1, AppendProperties DEF e
  <2>. QED
    BY <2>1, <2>2 DEF Stopped, Ended, StrictTyped
<1>5. Leased' /\ Told' /\ Closed' /\ Dispatches'
  BY Zenon DEF Leased, Told, Closed, Dispatches
<1>. QED
  BY <1>1, <1>2, <1>3, <1>4, <1>5, Zenon

\* The context is looked at before the dispatch.
LEMMA StrictCheck == ASSUME StrictInv, Check PROVE StrictInv'
<1>. USE DEF StrictInv
<1>1. CASE pc' = "dispatch" /\ UNCHANGED <<decisions, items, observed>> /\ ~Ended
  <2>. USE <1>1 DEF Check
  <2>1. StrictTyped' /\ Placed' /\ Ahead'
    BY Zenon DEF StrictTyped, Placed, Ahead
  <2>2. Honest' /\ Watched'
    BY Zenon DEF Honest, Watched, Silent
  <2>3. Stopped' /\ Leased' /\ Told' /\ Closed' /\ Dispatches'
    BY Zenon DEF Stopped, Leased, Told, Closed, Dispatches, Ended
  <2>. QED
    BY <2>1, <2>2, <2>3, Zenon
<1>2. CASE /\ op \in {"acquire", "release", "atomic"} /\ pc' = "idle"
           /\ items' = <<[index |-> 1, err |-> Category("unsupported")]>>
           /\ UNCHANGED <<decisions, observed>>
  <2>. USE <1>2 DEF Check
  <2>1. [index |-> 1, err |-> Category("unsupported")] \in ItemErrors
    BY Zenon DEF Errors, Categories, ItemErrors
  <2>2. items' \in Seq(ItemErrors)
    BY <2>1, Singleton, Zenon
  <2>3. StrictTyped' /\ Placed' /\ Ahead'
    BY <2>2, Zenon DEF StrictTyped, Placed, Ahead
  <2>4. Honest' /\ Watched'
    BY Zenon DEF Honest, Watched, Silent
  <2>5. Stopped' /\ Leased' /\ Told' /\ Closed' /\ Dispatches'
    BY Zenon DEF Stopped, Leased, Told, Closed, Dispatches
  <2>. QED
    BY <2>3, <2>4, <2>5, Zenon
<1>3. CASE /\ Ended /\ op = "batch" /\ pc' = "idle"
           /\ items' = Append(items, [index |-> index, err |-> Outcome(ctx)])
           /\ UNCHANGED <<decisions, observed>>
  <2>. USE <1>3 DEF Check
  <2> DEFINE e == [index |-> index, err |-> Outcome(ctx)]
  <2>1. e \in ItemErrors /\ items \in Seq(ItemErrors)
    BY DEF StrictTyped, Ended, Errors, ItemErrors
  <2>2. /\ items' \in Seq(ItemErrors)
        /\ items' # <<>> /\ items'[Len(items')] = e
    <3>. HIDE DEF e
    <3>. QED
      BY <2>1, AppendProperties DEF e
  <2>3. StrictTyped' /\ Placed' /\ Ahead'
    BY <2>2, Zenon DEF StrictTyped, Placed, Ahead
  <2>4. Honest' /\ Watched'
    BY Zenon DEF Honest, Watched, Silent
  <2>5. Stopped'
    BY <2>2 DEF Stopped, Ended, StrictTyped
  <2>6. Leased' /\ Told' /\ Closed' /\ Dispatches'
    BY Zenon DEF Leased, Told, Closed, Dispatches
  <2>. QED
    BY <2>3, <2>4, <2>5, <2>6, Zenon
<1>4. CASE Ended /\ op # "batch"
  <2> DEFINE open == op = "admit" /\ ctx = "deadline" /\ modes[1] = "open"
             why  == IF open THEN "fail_open" ELSE ctx
             e    == [index |-> 1, err |-> Outcome(ctx)]
  <2>1. /\ pc = "check" /\ pc' = "idle"
        /\ decisions' = [decisions EXCEPT ![1] = why]
        /\ items' = IF open THEN items ELSE Append(items, e)
        /\ observed' = IF Silent THEN observed ELSE Append(observed, why)
        /\ UNCHANGED <<op, modes, ctx, index, raw, attempted, lease, done, late>>
    BY <1>4, Zenon DEF Check
  <2>2. why \in {"fail_open", "canceled", "deadline"} /\ why \in Reasons
    BY <1>4, Zenon DEF StrictTyped, Ended, Reasons
  <2>3. e \in ItemErrors /\ e.err.what \in {"canceled", "deadline"}
    BY <1>4, Zenon DEF StrictTyped, Ended, Errors, Outcome, ItemErrors
  <2>4. /\ Len(decisions) = 1 /\ attempted = <<>> /\ Len(attempted) = 0 /\ index = 1
        /\ decisions[1] = "zero" /\ done = {}
        /\ ~Silent => observed = <<>> /\ Len(observed) = 0
    <3>1. Len(decisions) = 1 /\ Len(attempted) = 0 /\ index = 1
      <4>1. Len(attempted) \in Nat /\ index = Len(attempted) + 1
        BY DEF StrictTyped
      <4>2. Len(decisions) = 1 /\ Len(attempted) < Len(decisions)
        BY <1>4, <2>1, Zenon DEF Placed
      <4>. QED
        BY <4>1, <4>2
    <3>2. attempted = <<>>
      BY <3>1 DEF StrictTyped
    <3>3. done = {}
      BY <2>1, <3>1 DEF Ahead
    <3>4. 1 \in DOMAIN decisions
      BY <3>1 DEF StrictTyped
    <3>5. decisions[1] = "zero"
      BY <2>1, <3>1, <3>4 DEF Ahead
    <3>6. ~Silent => Len(observed) = 0
      BY <2>1, <3>1, Zenon DEF Watched
    <3>7. Len(observed) = 0 => observed = <<>>
      BY DEF StrictTyped
    <3>. QED
      BY <3>1, <3>2, <3>3, <3>5, <3>6, <3>7, Zenon
  <2>5. /\ decisions' \in Seq({"zero"} \cup Reasons) /\ Len(decisions') = 1 /\ decisions'[1] = why
        /\ DOMAIN decisions' = {1}
    <3>. HIDE DEF why
    <3>1. decisions \in Seq({"zero"} \cup Reasons) /\ 1 \in 1 .. Len(decisions) /\ why \in {"zero"} \cup Reasons
      BY <2>2, <2>4 DEF StrictTyped
    <3>2. /\ decisions' \in Seq({"zero"} \cup Reasons) /\ Len(decisions') = Len(decisions)
          /\ decisions'[1] = why
      BY <2>1, <3>1, ExceptSeq
    <3>. QED
      BY <2>4, <3>2, LenProperties
  <2>6. /\ observed' \in Seq(Reasons)
        /\ ~Silent => Len(observed') = 1 /\ observed'[1] = why
    BY <2>1, <2>2, <2>4, AppendProperties DEF StrictTyped
  <2>7. /\ items' \in Seq(ItemErrors)
        /\ open => items' = items
        /\ ~open /\ op = "admit" => items' # <<>> /\ items'[1] = e
    <3>1. op = "admit" => items = <<>> /\ Len(items) = 0
      BY <2>4, Zenon DEF Told
    <3>2. items \in Seq(ItemErrors)
      BY Zenon DEF StrictTyped
    <3>. HIDE DEF e, open
    <3>3. /\ Append(items, e) \in Seq(ItemErrors) /\ Append(items, e) # <<>>
          /\ Append(items, e)[Len(items) + 1] = e
      BY <2>3, <3>2, AppendProperties, Zenon
    <3>. QED
      BY <2>1, <3>1, <3>2, <3>3
  <2>8. open => op = "admit" /\ modes[1] = "open"
    OBVIOUS
  <2>9. ~open => why \in {"canceled", "deadline"}
    BY <1>4, Zenon DEF StrictTyped, Ended
  <2>10. open => why = "fail_open"
    OBVIOUS
  <2>. HIDE DEF e, open, why
  <2>11. StrictTyped' /\ Placed' /\ Ahead'
    BY <1>4, <2>1, <2>4, <2>5, <2>6, <2>7, Zenon DEF StrictTyped, Placed, Ahead
  <2>12. Honest'
    BY <2>1, <2>2, <2>4, <2>5, <2>8, <2>9, Zenon DEF Honest
  <2>13. Watched'
    BY <2>1, <2>4, <2>5, <2>6 DEF Watched, Silent
  <2>14. Told'
    BY <2>1, <2>3, <2>4, <2>5, <2>7, <2>9, <2>10, Zenon DEF Told
  <2>15. Stopped' /\ Leased' /\ Closed' /\ Dispatches'
    BY <1>4, <2>1, <2>4, <2>5, <2>8, <2>9, Zenon DEF Stopped, Leased, Closed, Dispatches
  <2>. QED
    BY <2>11, <2>12, <2>13, <2>14, <2>15, Zenon
<1>. QED
  BY <1>1, <1>2, <1>3, <1>4, Zenon DEF Check

\* The backend acts and replies.
LEMMA StrictBackend == ASSUME StrictInv, Backend PROVE StrictInv'
<1>. USE DEF StrictInv, Backend
<1>1. StrictTyped' /\ Placed'
  <2>1. raw' \in Possible(op)'
    BY Zenon DEF Possible
  <2>2. late' \in Nat
    BY DEF StrictTyped
  <2>3. Placed'
    BY Zenon DEF Placed
  <2>. QED
    BY <2>1, <2>2, <2>3, Zenon DEF StrictTyped
<1>2. Ahead'
  <2>1. index \notin done /\ index \in Nat \ {0}
    BY DEF StrictTyped, Ahead
  <2>2. /\ done' \subseteq 1 .. index
        /\ IF index \in done' THEN ~Denies(op, raw') ELSE ~Confirms(op, raw')
    <3>1. Len(attempted) \in Nat /\ index = Len(attempted) + 1
      BY DEF StrictTyped
    <3>2. done \subseteq 1 .. Len(attempted)
      BY Zenon DEF Ahead
    <3>3. done' \subseteq done \cup {index}
      OBVIOUS
    <3>4. done' \subseteq 1 .. index
      <4>1. 1 .. Len(attempted) \subseteq 1 .. index /\ index \in 1 .. index
        BY <3>1
      <4>. QED
        BY <3>2, <3>3, <4>1, Zenon
    <3>. QED
      BY <2>1, <3>4, Zenon
  <2>. QED
    BY <2>2, Zenon DEF Ahead
<1>3. Honest'
  BY DEF Honest, Ahead, StrictTyped
<1>4. Watched'
  BY Zenon DEF Watched, Silent
<1>5. Stopped' /\ Leased' /\ Told' /\ Closed' /\ Dispatches'
  BY DEF Stopped, Leased, Told, Closed, Dispatches
<1>. QED
  BY <1>1, <1>2, <1>3, <1>4, <1>5, Zenon

\* The reply is normalised and recorded.
LEMMA StrictFinish == ASSUME StrictInv, Finish PROVE StrictInv'
<1> DEFINE v == Normalize(op, modes[index], raw)
           e == [index |-> index, err |-> v.err]
           n == Len(decisions)
<1>1. /\ pc = "reply"
      /\ decisions' = [decisions EXCEPT ![index] = v.reason]
      /\ attempted' = Append(attempted, index)
      /\ items' = IF v.err = Nil THEN items ELSE Append(items, e)
      /\ lease' = IF op = "acquire" /\ v.reason = "allowed" THEN raw.lease ELSE "none"
      /\ observed' = IF Silent THEN observed ELSE Append(observed, v.reason)
      /\ pc' = IF index = n \/ (v.err = Outcome("unknown") /\ Ended) THEN "idle" ELSE "loop"
      /\ index' = index + 1
      /\ UNCHANGED <<op, modes, ctx, done, late>>
  BY Zenon DEF Finish, Size
<1>. HIDE DEF v, e
<1>2. /\ op \in Methods /\ modes \in Seq({"open", "closed"}) /\ raw \in Possible(op)
      /\ decisions \in Seq({"zero"} \cup Reasons) /\ n = Len(modes) /\ n \in Nat
      /\ attempted \in Seq(Nat) /\ Len(attempted) \in Nat /\ index = Len(attempted) + 1
      /\ items \in Seq(ItemErrors) /\ observed \in Seq(Reasons) /\ Len(observed) \in Nat
      /\ DOMAIN decisions = 1 .. n
  BY <1>1 DEF StrictInv, StrictTyped
<1>3. index \in 1 .. n /\ Len(attempted) < n /\ (op # "batch" => n = 1)
  <2>1. Len(attempted) < n /\ (op # "batch" => n = 1)
    BY <1>1, Zenon DEF StrictInv, Placed
  <2>. QED
    BY <1>2, <2>1
<1>4. modes[index] \in {"open", "closed"}
  BY <1>2, <1>3
<1>5. Sound(op, modes[index], raw, v)
  BY <1>2, <1>4, NormalizeSound, Zenon DEF v
<1>6. e \in ItemErrors /\ e.index = index /\ e.err = v.err
  BY <1>3, <1>5 DEF ItemErrors, Sound, e
<1>7. /\ decisions' \in Seq({"zero"} \cup Reasons) /\ Len(decisions') = n
      /\ decisions'[index] = v.reason /\ DOMAIN decisions' = 1 .. n
      /\ \A i \in 1 .. n : i # index => decisions'[i] = decisions[i]
  <2>1. v.reason \in {"zero"} \cup Reasons
    BY <1>5, Zenon DEF Sound
  <2>2. /\ decisions' \in Seq({"zero"} \cup Reasons) /\ Len(decisions') = n
        /\ \A i \in 1 .. n : decisions'[i] = IF i = index THEN v.reason ELSE decisions[i]
    <3>1. index \in 1 .. Len(decisions)
      BY <1>3, Zenon
    <3>. HIDE DEF n
    <3>2. decisions' = [decisions EXCEPT ![index] = v.reason] /\ decisions \in Seq({"zero"} \cup Reasons)
      BY <1>1, <1>2, Zenon
    <3>. QED
      BY <2>1, <3>1, <3>2, ExceptSeq DEF n
  <2>. QED
    BY <1>3, <2>2, LenProperties, Zenon
<1>. HIDE DEF n
<1>8. /\ attempted' \in Seq(Nat) /\ Len(attempted') = index /\ DOMAIN attempted' = 1 .. index
      /\ \A i \in DOMAIN attempted' : attempted'[i] = i
  <2>1. index \in Nat /\ DOMAIN attempted = 1 .. Len(attempted)
    BY <1>2
  <2>2. /\ attempted' \in Seq(Nat) /\ Len(attempted') = Len(attempted) + 1
        /\ \A i \in 1 .. Len(attempted) : attempted'[i] = attempted[i]
        /\ attempted'[Len(attempted) + 1] = index
    BY <1>1, <1>2, <2>1, AppendProperties
  <2>3. \A i \in 1 .. Len(attempted) : attempted[i] = i
    BY <2>1, Zenon DEF StrictInv, Placed
  <2>4. DOMAIN attempted' = 1 .. index /\ Len(attempted') = index
    BY <1>2, <2>2
  <2>5. \A i \in 1 .. index : i = index \/ i \in 1 .. Len(attempted)
    BY <1>2
  <2>. QED
    BY <1>2, <2>2, <2>3, <2>4, <2>5, Zenon
<1>9. /\ items' \in Seq(ItemErrors)
      /\ v.err = Nil => items' = items
      /\ v.err # Nil => items' # <<>> /\ items'[Len(items')] = e /\ (items = <<>> => items'[1] = e)
  <2>1. /\ Append(items, e) \in Seq(ItemErrors) /\ Append(items, e) # <<>>
        /\ Len(Append(items, e)) = Len(items) + 1
        /\ Append(items, e)[Len(items) + 1] = e
    <3>1. items \in Seq(ItemErrors) /\ e \in ItemErrors
      BY <1>2, <1>6
    <3>. QED
      BY <3>1, AppendProperties, Zenon
  <2>2. items = <<>> => Len(items) = 0
    OBVIOUS
  <2>3. CASE v.err = Nil
    BY <1>1, <1>2, <2>3, Zenon
  <2>4. CASE v.err # Nil
    <3>1. items' = Append(items, e)
      BY <1>1, <2>4, Zenon
    <3>. QED
      BY <2>1, <2>2, <2>4, <3>1
  <2>. QED
    BY <2>3, <2>4, Zenon
<1>10. /\ observed' \in Seq(Reasons)
       /\ ~Silent => /\ Len(observed) = Len(attempted) /\ Len(observed') = index
                     /\ observed'[index] = v.reason
                     /\ \A i \in 1 .. Len(attempted) : observed'[i] = observed[i]
  <2>1. v.reason \in Reasons
    BY <1>5, Zenon DEF Sound
  <2>2. /\ Append(observed, v.reason) \in Seq(Reasons)
        /\ Len(Append(observed, v.reason)) = Len(observed) + 1
        /\ Append(observed, v.reason)[Len(observed) + 1] = v.reason
        /\ \A i \in 1 .. Len(observed) : Append(observed, v.reason)[i] = observed[i]
    BY <1>2, <2>1, AppendProperties
  <2>3. ~Silent => Len(observed) = Len(attempted)
    BY <1>1, Zenon DEF StrictInv, Watched
  <2>. QED
    BY <1>1, <1>2, <2>2, <2>3, Zenon
<1>11. pc' \in {"idle", "loop"} /\ (pc' = "loop" => index < n) /\ (index = n => pc' = "idle")
  <2>1. index \in 1 .. n /\ n \in Nat
    BY <1>2, <1>3, Zenon
  <2>2. pc' = IF index = n \/ (v.err = Outcome("unknown") /\ Ended) THEN "idle" ELSE "loop"
    BY <1>1, Zenon
  <2>. QED
    BY <2>1, <2>2
<1>12. /\ index \in Nat \ {0} /\ n \in Nat \ {0}
       /\ \A i \in 1 .. n : decisions[i] = "zero" <=> i >= index
  <2>1. index \in 1 .. n /\ n \in Nat /\ index = Len(attempted) + 1 /\ Len(attempted) \in Nat
    BY <1>2, <1>3, Zenon
  <2>2. \A i \in 1 .. n : decisions[i] = "zero" <=> i > Len(attempted)
    BY <1>1, <1>2, Zenon DEF StrictInv, Ahead
  <2>. QED
    BY <2>1, <2>2
<1>13. v.reason # "zero"
  BY <1>5, Zenon DEF Sound, Reasons
<1>14. StrictTyped'
  <2>1. index' = Len(attempted') + 1 /\ Len(decisions') = Len(modes') /\ late' \in Nat /\ ctx' = ctx
    BY <1>1, <1>2, <1>7, <1>8, Zenon DEF StrictInv, StrictTyped
  <2>. QED
    BY <1>1, <1>2, <1>7, <1>8, <1>9, <1>10, <1>11, <2>1, Zenon DEF StrictInv, StrictTyped
<1>15. Placed'
  BY <1>1, <1>3, <1>7, <1>8, <1>11, <1>12 DEF Placed
<1>16. Ahead'
  <2>1. done \subseteq 1 .. index
    BY <1>1, Zenon DEF StrictInv, Ahead
  <2>2. \A i \in 1 .. n : decisions'[i] = "zero" <=> i > index
    BY <1>7, <1>12, <1>13
  <2>. QED
    BY <1>1, <1>7, <1>8, <1>11, <2>1, <2>2, Zenon DEF Ahead
<1>17. Honest'
  <2>1. /\ v.reason = "allowed" => index \in done
        /\ v.reason = "fail_open" => index \notin done /\ modes[index] = "open"
        /\ index \in done => v.reason \in {"allowed", "outcome_unknown"}
    BY <1>1, <1>5, Zenon DEF StrictInv, Ahead, Sound
  <2>2. ASSUME NEW i \in 1 .. n, i # index
        PROVE  /\ decisions[i] = "allowed" => i \in done
               /\ decisions[i] = "fail_open" => i \notin done /\ modes[i] = "open"
               /\ i \in done => decisions[i] \in {"allowed", "outcome_unknown"}
    BY <1>2, <2>2, Zenon DEF StrictInv, Honest, n
  <2>. QED
    BY <1>1, <1>7, <2>1, <2>2, Zenon DEF Honest
<1>18. Watched'
  <2>1. SUFFICES ASSUME ~Silent PROVE Watched'
    BY <1>1, Zenon DEF Watched, Silent
  <2>2. \A i \in 1 .. n : i <= Len(attempted) => decisions[i] = observed[i]
    BY <1>2, <1>10, <2>1, Zenon DEF StrictInv, Watched, n
  <2>3. \A i \in 1 .. n : decisions'[i] = IF i <= index THEN observed'[i] ELSE "zero"
    <3>. TAKE i \in 1 .. n
    <3>1. CASE i = index
      BY <1>7, <1>10, <1>12, <2>1, <3>1
    <3>2. CASE i < index
      <4>1. i \in 1 .. Len(attempted) /\ i <= Len(attempted) /\ i # index
        BY <1>2, <3>2
      <4>. QED
        BY <1>7, <1>10, <1>12, <2>1, <2>2, <3>2, <4>1
    <3>3. CASE i > index
      BY <1>7, <1>12, <3>3
    <3>. QED
      BY <1>12, <3>1, <3>2, <3>3
  <2>. QED
    BY <1>3, <1>7, <1>8, <1>10, <1>12, <2>1, <2>3 DEF Watched
<1>19. Stopped'
  <2>1. SUFFICES ASSUME pc' = "idle", index < n PROVE Stopped'
    BY <1>7, <1>8, Zenon DEF Stopped
  <2>2. v.err = Outcome("unknown") /\ Ended
    BY <1>1, <1>12, <2>1 DEF n
  <2>3. v.err # Nil
    BY <2>2 DEF Outcome, Nil
  <2>. QED
    BY <1>1, <1>6, <1>8, <1>9, <2>2, <2>3, Zenon DEF Stopped, Ended
<1>20. Leased'
  <2>1. op # "acquire" => Leased'
    BY <1>1, Zenon DEF Leased
  <2>2. SUFFICES ASSUME op = "acquire" PROVE Leased'
    BY <2>1, Zenon
  <2>3. v.reason = "allowed" => raw.lease = "matching"
    BY <1>5, <2>2, Zenon DEF Sound, Confirms
  <2>4. n = 1 /\ index = 1
    BY <1>3, <2>2
  <2>5. decisions'[1] = v.reason
    BY <1>7, <2>4, Zenon
  <2>. QED
    BY <1>1, <2>2, <2>3, <2>5, Zenon DEF Leased
<1>21. Told'
  <2>1. SUFFICES ASSUME op = "admit" PROVE Told'
    BY <1>1, Zenon DEF Told
  <2>2. n = 1 /\ index = 1
    BY <1>3, <2>1
  <2>3. items = <<>>
    BY <1>12, <2>1, <2>2 DEF StrictInv, Told
  <2>4. v.err = Nil <=> v.reason \in {"allowed", "fail_open"}
    BY <1>5, Zenon DEF Sound
  <2>5. v.err # Nil => v.err.what # "nil" /\ (v.err.what = "rejected" => v.reason = "limited")
    BY <1>5, Zenon DEF Sound
  <2>. QED
    BY <1>6, <1>7, <1>9, <1>13, <2>2, <2>3, <2>4, <2>5, Zenon DEF Told
<1>22. Closed'
  <2>1. op \notin {"admit", "batch"} => n = 1 /\ index = 1 /\ v.reason # "fail_open"
    BY <1>3, <1>5 DEF Sound
  <2>. QED
    BY <1>1, <1>7, <2>1, Zenon DEF Closed
<1>23. Dispatches'
  BY <1>1, <1>11, Zenon DEF StrictInv, Dispatches
<1>. QED
  BY <1>14, <1>15, <1>16, <1>17, <1>18, <1>19, <1>20, <1>21, <1>22, <1>23, Zenon DEF StrictInv

\* A step of a call keeps the invariant.
LEMMA StrictProceeds == ASSUME StrictInv, Proceed PROVE StrictInv'
BY StrictContextEnds, StrictLoop, StrictCheck, StrictBackend, StrictFinish, Zenon DEF Proceed

------------------------------------------------------------------------------
(* The released service. *)

ReleasedTyped ==
    /\ op \in {"admit", "batch", "acquire", "release"}
    /\ modes \in Seq({"open", "closed"}) /\ Len(modes) # 0 /\ (op # "batch" => Len(modes) = 1)
    /\ ctx \in {"open", "canceled", "deadline"}
    /\ pc \in {"idle", "dispatch", "reply"}
    /\ reply \in Released!Replies
    /\ decisions \in Seq(Reasons)
    /\ errs \in Seq(Released!Replies)
    /\ replies \in Seq(Released!Replies)

\* One error and one reply for each decision.
Paired ==
    /\ Len(decisions) <= Len(errs)
    /\ Len(replies) = Len(decisions) + IF pc = "reply" THEN 1 ELSE 0
    /\ pc # "idle" => Len(decisions) < Len(modes) /\ Len(errs) = Len(decisions)
    /\ pc = "idle" /\ op = "batch" => Len(decisions) = Len(modes) /\ Len(errs) = Len(modes)
    /\ done \subseteq 1 .. Len(replies)

\* What is known of the item at hand.
Answered ==
    pc = "reply" => /\ replies[Len(decisions) + 1] = reply
                    /\ reply = "nil" => Len(decisions) + 1 \in done
                    /\ reply = "rejected" => Len(decisions) + 1 \notin done

\* What was told of the items before it.
Reported ==
    \A i \in 1 .. Len(decisions) :
        /\ errs[i] = "nil" <=> decisions[i] \in {"allowed", "fail_open"}
        /\ errs[i] = "rejected" => i \notin done
        /\ decisions[i] = "allowed" => i \in done
        /\ decisions[i] = "fail_open" => modes[i] = "open"
        /\ ctx = "open" /\ replies[i] \in {"corrupt", "overflow"}
              => decisions[i] \notin {"allowed", "fail_open"}

ReleasedInv == ReleasedTyped /\ Paired /\ Answered /\ Reported

\* The invariant gives the properties of the released service.
LEMMA ReleasedProperties ==
    ASSUME ReleasedInv
    PROVE  Released!BatchRunsToEnd /\ Released!LiveIntegrityFailsClosed
<1>1. DOMAIN decisions = 1 .. Len(decisions)
  BY DEF ReleasedInv, ReleasedTyped
<1>. QED
  BY <1>1 DEF ReleasedInv, Paired, Reported, Released!BatchRunsToEnd,
     Released!LiveIntegrityFailsClosed, Released!IntegrityFailsClosed

\* A new call.
LEMMA ReleasedBegins ==
    ASSUME NEW method \in {"admit", "batch", "acquire", "release"},
           NEW n \in Nat \ {0}, NEW m \in [1 .. n -> {"open", "closed"}],
           Released!Begin(method, m)
    PROVE  ReleasedInv'
<1>1. m \in Seq({"open", "closed"}) /\ Len(m) = n
  OBVIOUS
<1>2. /\ "nil" \in Released!Replies /\ "unsupported" \in Released!Replies
      /\ "not_owned" \in Released!Replies
  BY Zenon DEF Released!Replies, Released!Sentinels
<1>3. /\ op' = method /\ modes' = m /\ (method # "batch" => n = 1)
      /\ pc' \in {"idle", "dispatch"} /\ (pc' # "idle" => errs' = <<>>)
      /\ (pc' = "idle" => method # "batch")
      /\ errs' \in {<<>>, <<"unsupported">>, <<"not_owned">>}
      /\ ctx' \in {"open", "canceled", "deadline"} /\ reply' = "nil"
      /\ decisions' = <<>> /\ replies' = <<>> /\ done' = {}
  BY <1>1, Zenon DEF Released!Begin
<1>4. errs' \in Seq(Released!Replies) /\ Len(errs') \in Nat
  <2>1. <<>> \in Seq(Released!Replies) /\ <<"unsupported">> \in Seq(Released!Replies)
        /\ <<"not_owned">> \in Seq(Released!Replies)
    BY <1>2
  <2>2. errs' \in Seq(Released!Replies)
    BY <1>3, <2>1, Zenon DEF Released!Begin
  <2>. QED
    BY <2>2, LenProperties, Zenon
<1>5. ReleasedTyped'
  BY <1>1, <1>2, <1>3, <1>4 DEF ReleasedTyped
<1>6. Paired' /\ Answered' /\ Reported'
  BY <1>1, <1>3, <1>4 DEF Paired, Answered, Reported
<1>. QED
  BY <1>5, <1>6, Zenon DEF ReleasedInv

\* The context ends.
LEMMA ReleasedContextEnds == ASSUME ReleasedInv, Released!ContextEnds PROVE ReleasedInv'
BY Zenon DEF ReleasedInv, ReleasedTyped, Paired, Answered, Reported, Released!ContextEnds

\* The backend acts and replies.
LEMMA ReleasedBackend == ASSUME ReleasedInv, Released!Backend PROVE ReleasedInv'
<1> DEFINE n == Len(decisions)
<1>1. /\ n \in Nat /\ replies \in Seq(Released!Replies) /\ Len(replies) = n
      /\ done \subseteq 1 .. n /\ pc = "dispatch"
  BY DEF ReleasedInv, ReleasedTyped, Paired, Released!Backend
<1>2. /\ pc' = "reply" /\ reply' \in Released!Replies /\ replies' = Append(replies, reply')
      /\ done' \subseteq done \cup {n + 1} /\ done \subseteq done'
      /\ reply' = "nil" => n + 1 \in done'
      /\ reply' = "rejected" => done' = done
      /\ UNCHANGED <<op, modes, ctx, decisions, errs>>
  BY Zenon DEF Released!Backend, Released!Index
<1>3. /\ replies' \in Seq(Released!Replies) /\ Len(replies') = n + 1
      /\ replies'[n + 1] = reply' /\ \A i \in 1 .. n : replies'[i] = replies[i]
  BY <1>1, <1>2, AppendProperties
<1>. HIDE DEF n
<1>4. n + 1 \notin done /\ 1 .. n \subseteq 1 .. n + 1 /\ n + 1 \in 1 .. n + 1
  BY <1>1
<1>5. done' \subseteq 1 .. n + 1 /\ \A i \in 1 .. n : i \in done' <=> i \in done
  BY <1>1, <1>2, <1>4
<1>6. ReleasedTyped'
  BY <1>2, <1>3, Zenon DEF ReleasedInv, ReleasedTyped
<1>7. Paired'
  BY <1>1, <1>2, <1>3, <1>5, Zenon DEF ReleasedInv, Paired, n
<1>8. Answered'
  BY <1>2, <1>3, <1>4, Zenon DEF Answered, n
<1>9. Reported'
  BY <1>2, <1>3, <1>5, Zenon DEF ReleasedInv, Reported, n
<1>. QED
  BY <1>6, <1>7, <1>8, <1>9, Zenon DEF ReleasedInv

\* An answer to the caller.
LEMMA ReleasedReturn ==
    ASSUME ReleasedInv, pc = "reply", NEW reason \in Reasons, NEW err \in Released!Replies,
           err = "nil" <=> reason \in {"allowed", "fail_open"},
           err = "rejected" => reply = "rejected",
           reason = "allowed" => reply = "nil",
           reason = "fail_open" => modes[Len(decisions) + 1] = "open",
           ctx = "open" /\ reply \in {"corrupt", "overflow"} => reason \notin {"allowed", "fail_open"},
           Released!Return(reason, err)
    PROVE  ReleasedInv'
<1> DEFINE n == Len(decisions)
<1>1. /\ n \in Nat /\ Len(modes) \in Nat /\ n < Len(modes) /\ Len(errs) = n /\ Len(replies) = n + 1
      /\ decisions \in Seq(Reasons) /\ errs \in Seq(Released!Replies)
  BY DEF ReleasedInv, ReleasedTyped, Paired
<1>2. /\ decisions' = Append(decisions, reason) /\ errs' = Append(errs, err)
      /\ pc' = IF n + 1 = Len(modes) THEN "idle" ELSE "dispatch"
      /\ reply' = "nil" /\ UNCHANGED <<op, modes, ctx, replies, done>>
  BY Zenon DEF Released!Return, Released!Index
<1>3. /\ decisions' \in Seq(Reasons) /\ Len(decisions') = n + 1 /\ decisions'[n + 1] = reason
      /\ \A i \in 1 .. n : decisions'[i] = decisions[i]
  BY <1>1, <1>2, AppendProperties
<1>4. /\ errs' \in Seq(Released!Replies) /\ Len(errs') = n + 1 /\ errs'[n + 1] = err
      /\ \A i \in 1 .. n : errs'[i] = errs[i]
  BY <1>1, <1>2, AppendProperties
<1>5. /\ replies[n + 1] = reply
      /\ reply = "nil" => n + 1 \in done
      /\ reply = "rejected" => n + 1 \notin done
  BY Zenon DEF ReleasedInv, Answered
<1>. HIDE DEF n
<1>6. ReleasedTyped'
  <2>1. "nil" \in Released!Replies
    BY Zenon DEF Released!Replies
  <2>. QED
    BY <1>2, <1>3, <1>4, <2>1, Zenon DEF ReleasedInv, ReleasedTyped
<1>7. Paired'
  <2>1. done \subseteq 1 .. Len(replies)
    BY Zenon DEF ReleasedInv, Paired
  <2>. QED
    BY <1>1, <1>2, <1>3, <1>4, <2>1 DEF Paired
<1>8. Answered'
  BY <1>2, Zenon DEF Answered
<1>9. Reported'
  <2>1. \A i \in 1 .. n + 1 : i = n + 1 \/ i \in 1 .. n
    BY <1>1
  <2>2. ASSUME NEW i \in 1 .. n
        PROVE  /\ errs'[i] = "nil" <=> decisions'[i] \in {"allowed", "fail_open"}
               /\ errs'[i] = "rejected" => i \notin done
               /\ decisions'[i] = "allowed" => i \in done
               /\ decisions'[i] = "fail_open" => modes[i] = "open"
               /\ ctx = "open" /\ replies[i] \in {"corrupt", "overflow"}
                     => decisions'[i] \notin {"allowed", "fail_open"}
    BY <1>3, <1>4, Zenon DEF ReleasedInv, Reported, n
  <2>3. /\ errs'[n + 1] = "nil" <=> decisions'[n + 1] \in {"allowed", "fail_open"}
        /\ errs'[n + 1] = "rejected" => n + 1 \notin done
        /\ decisions'[n + 1] = "allowed" => n + 1 \in done
        /\ decisions'[n + 1] = "fail_open" => modes[n + 1] = "open"
        /\ ctx = "open" /\ replies[n + 1] \in {"corrupt", "overflow"}
              => decisions'[n + 1] \notin {"allowed", "fail_open"}
    BY <1>3, <1>4, <1>5, Zenon DEF n
  <2>. QED
    BY <1>2, <1>3, <2>1, <2>2, <2>3, Zenon DEF Reported
<1>. QED
  BY <1>6, <1>7, <1>8, <1>9, Zenon DEF ReleasedInv

\* Normalised errors are neither nil nor a rejection.
LEMMA NormalizeBackendErrorFacts ==
    ASSUME NEW context, NEW e
    PROVE  /\ Released!NormalizeBackendError(context, e)
                \in {"deadline", "overflow", "corrupt", "unavailable"}
           /\ context = "open" /\ e \in {"corrupt", "overflow"}
                => Released!NormalizeBackendError(context, e) = e
BY Zenon DEF Released!NormalizeBackendError

\* The rest of Admit, and of Acquire and Release.
LEMMA ReleasedFinish ==
    ASSUME ReleasedInv, Released!FinishAdmit \/ Released!FinishLease
    PROVE  ReleasedInv'
<1> DEFINE err == Released!NormalizeBackendError(ctx, reply)
<1>1. /\ err \in {"deadline", "overflow", "corrupt", "unavailable"}
      /\ ctx = "open" /\ reply \in {"corrupt", "overflow"} => err = reply
  BY NormalizeBackendErrorFacts, Zenon
<1>2. pc = "reply" /\ reply \in Released!Replies
  BY Zenon DEF ReleasedInv, ReleasedTyped, Released!FinishAdmit, Released!FinishLease
<1>3. /\ {"nil", "rejected", "deadline", "overflow", "corrupt", "unavailable"} \subseteq Released!Replies
      /\ {"allowed", "limited", "fail_open", "backend_unavailable"} \subseteq Reasons
  BY Zenon DEF Released!Replies, Released!Sentinels, Reasons
<1>4. CASE Released!FinishAdmit
  <2>1. CASE reply = "nil" /\ Released!Return("allowed", "nil")
    BY <1>2, <1>3, <2>1, ReleasedReturn, Zenon
  <2>2. CASE reply = "rejected" /\ Released!Return("limited", "rejected")
    BY <1>2, <1>3, <2>2, ReleasedReturn, Zenon
  <2>3. CASE /\ modes[Len(decisions) + 1] = "open" /\ err \in {"unavailable", "deadline"}
             /\ Released!Return("fail_open", "nil")
    BY <1>1, <1>2, <1>3, <2>3, ReleasedReturn, Zenon
  <2>4. CASE Released!Return("backend_unavailable", err)
    <3>. HIDE DEF err
    <3>. QED
      BY <1>1, <1>2, <1>3, <2>4, ReleasedReturn, Zenon
  <2>. QED
    BY <1>4, <2>1, <2>2, <2>3, <2>4, Zenon DEF Released!FinishAdmit, Released!Index
<1>5. CASE Released!FinishLease
  <2> DEFINE reason == IF reply = "nil" THEN "allowed" ELSE "limited"
             told == IF reply = "nil" \/ Released!StableLease(reply) THEN reply ELSE err
  <2>1. Released!Return(reason, told)
    BY <1>5, Zenon DEF Released!FinishLease
  <2>2. told \in Released!Replies /\ reason \in Reasons
    BY <1>1, <1>2, <1>3, Zenon
  <2>3. /\ told = "nil" <=> reply = "nil"
        /\ told = "rejected" => reply = "rejected"
    BY <1>1, Zenon
  <2>4. reason = "allowed" <=> reply = "nil"
    OBVIOUS
  <2>5. reason \in {"allowed", "limited"}
    OBVIOUS
  <2>. HIDE DEF reason, told
  <2>. QED
    BY <1>2, <2>1, <2>2, <2>3, <2>4, <2>5, ReleasedReturn, Zenon
<1>. QED
  BY <1>4, <1>5, Zenon

\* A step of a call keeps the invariant.
LEMMA ReleasedProceeds == ASSUME ReleasedInv, Released!Proceed PROVE ReleasedInv'
BY ReleasedContextEnds, ReleasedBackend, ReleasedFinish, Zenon DEF Released!Proceed

------------------------------------------------------------------------------
(* The application and the adapters. *)

\* Every step of Admit belongs to the same call, and the last one decides.
LEMMA StrictAnswers ==
    ASSUME StrictInv, Proceed, op = "admit"
    PROVE  op' = op /\ modes' = modes /\ (pc' = "idle" => decisions'[1] # "zero")
<1>1. /\ Len(decisions) = 1 /\ decisions \in Seq({"zero"} \cup Reasons)
      /\ ctx \in {"open", "canceled", "deadline"}
  BY Zenon DEF StrictInv, StrictTyped, Placed
<1>2. "zero" \notin Reasons
  BY Zenon DEF Reasons
<1>3. CASE ContextEnds \/ Loop \/ Backend
  BY <1>3, Zenon DEF ContextEnds, Loop, Backend
<1>4. CASE Check
  BY <1>1, <1>4 DEF Check, Ended
<1>5. CASE Finish
  <2> DEFINE v == Normalize(op, modes[index], raw)
  <2>1. index = 1
    <3>1. Len(attempted) \in Nat /\ index = Len(attempted) + 1
      BY DEF StrictInv, StrictTyped
    <3>2. Len(attempted) < Len(decisions)
      BY <1>5, Zenon DEF StrictInv, Placed, Finish
    <3>. QED
      BY <1>1, <3>1, <3>2
  <2>2. Sound(op, modes[index], raw, v)
    <3>1. modes[index] \in {"open", "closed"}
      <4>1. modes \in Seq({"open", "closed"}) /\ Len(modes) = 1
        BY <1>1, Zenon DEF StrictInv, StrictTyped
      <4>. QED
        BY <2>1, <4>1
    <3>. QED
      BY <1>5, <3>1, NormalizeSound, Zenon DEF StrictInv, StrictTyped, Finish
  <2>3. v.reason # "zero"
    BY <1>2, <2>2, Zenon DEF Sound
  <2>4. decisions' = [decisions EXCEPT ![index] = v.reason] /\ UNCHANGED <<op, modes>>
    BY <1>5, Zenon DEF Finish
  <2>. HIDE DEF v
  <2>. QED
    BY <1>1, <2>1, <2>3, <2>4
<1>. QED
  BY <1>3, <1>4, <1>5, Zenon DEF Proceed

\* The same for the released service.
LEMMA ReleasedAnswers ==
    ASSUME ReleasedInv, Released!Proceed, op = "admit"
    PROVE  op' = op /\ modes' = modes /\ (pc' = "idle" => Len(decisions') = 1)
<1>1. Len(modes) = 1 /\ Len(decisions) \in Nat /\ decisions \in Seq(Reasons)
  BY DEF ReleasedInv, ReleasedTyped
<1>2. CASE Released!ContextEnds \/ Released!Backend
  BY <1>2, Zenon DEF Released!ContextEnds, Released!Backend
<1>3. ASSUME NEW reason, NEW err, pc = "reply", Released!Return(reason, err)
      PROVE  op' = op /\ modes' = modes /\ Len(decisions') = 1
  <2>1. Len(decisions) = 0
    BY <1>1, <1>3 DEF ReleasedInv, Paired
  <2>. QED
    BY <1>1, <1>3, <2>1 DEF Released!Return
<1>4. CASE Released!FinishAdmit \/ Released!FinishLease
  BY <1>3, <1>4, Zenon DEF Released!FinishAdmit, Released!FinishLease
<1>. QED
  BY <1>2, <1>4, Zenon DEF Released!Proceed

\* The service in use keeps its invariant.
AppInv ==
    /\ service \in {"strict", "released"}
    /\ service = "strict" => StrictInv
    /\ service = "released" => ReleasedInv /\ late = 0

\* Whether Admit, which was asked, has decided.
Decided ==
    pc = "idle" => IF service = "strict" THEN decisions[1] # "zero" ELSE Len(decisions) = 1

\* What a middleware may conclude from the error of Admit.
LEMMA ReturnedFacts ==
    ASSUME AppInv, op = "admit", pc = "idle", Decided
    PROVE  /\ Returned = "nil" => done # {} \/ modes[1] = "open"
           /\ Returned = "rejected" => done = {}
<1>1. CASE service = "strict"
  <2>1. /\ DOMAIN decisions = {1} /\ decisions[1] \in Reasons \cup {"zero"}
        /\ Len(attempted) \in Nat /\ Len(attempted) <= 1
    BY <1>1 DEF AppInv, StrictInv, StrictTyped, Placed
  <2>2. done \subseteq {1}
    <3>1. done \subseteq 1 .. Len(attempted)
      BY <1>1, Zenon DEF AppInv, StrictInv, Ahead
    <3>. QED
      BY <2>1, <3>1
  <2>3. /\ decisions[1] = "allowed" => 1 \in done
        /\ decisions[1] = "fail_open" => modes[1] = "open"
        /\ 1 \in done => decisions[1] \in {"allowed", "outcome_unknown"}
    BY <1>1, <2>1, Zenon DEF AppInv, StrictInv, Honest
  <2>4. IF decisions[1] \in {"allowed", "fail_open"} THEN items = <<>>
        ELSE /\ items # <<>> /\ items[1].err.what # "nil"
             /\ items[1].err.what = "rejected" => decisions[1] = "limited"
    BY <1>1, Zenon DEF AppInv, StrictInv, Told, Decided
  <2>. QED
    BY <1>1, <2>2, <2>3, <2>4, Zenon DEF Returned
<1>2. CASE service = "released"
  <2>1. Len(decisions) = 1 /\ Len(replies) = 1
    <3>1. Len(decisions) = 1
      BY <1>2, Zenon DEF Decided
    <3>. QED
      BY <1>2, <3>1 DEF AppInv, ReleasedInv, Paired
  <2>2. done \subseteq {1}
    BY <1>2, <2>1 DEF AppInv, ReleasedInv, Paired
  <2>3. /\ errs[1] = "nil" <=> decisions[1] \in {"allowed", "fail_open"}
        /\ errs[1] = "rejected" => 1 \notin done
        /\ decisions[1] = "allowed" => 1 \in done
        /\ decisions[1] = "fail_open" => modes[1] = "open"
    BY <1>2, <2>1 DEF AppInv, ReleasedInv, Reported
  <2>. QED
    BY <1>2, <2>2, <2>3, Zenon DEF Returned
<1>. QED
  BY <1>1, <1>2, Zenon DEF AppInv

\* The first state.
LEMMA AppStarts == ASSUME ApplicationInit PROVE AppInv
<1>1. <<"closed">> \in Seq({"open", "closed"}) /\ Len(<<"closed">>) = 1
  OBVIOUS
<1>2. CASE service = "strict" /\ Init
  <2>1. /\ <<"zero">> \in Seq({"zero"} \cup Reasons) /\ Len(<<"zero">>) = 1 /\ <<"zero">>[1] = "zero"
        /\ DOMAIN <<"zero">> = {1}
    OBVIOUS
  <2>2. StrictTyped
    BY <1>1, <1>2, <2>1 DEF Init, StrictTyped, Methods
  <2>3. Placed /\ Ahead /\ Honest /\ Watched /\ Stopped /\ Leased /\ Told /\ Closed /\ Dispatches
    BY <1>2, <2>1 DEF Init, Placed, Ahead, Honest, Watched, Stopped, Leased, Told, Closed, Dispatches
  <2>. QED
    BY <1>2, <2>2, <2>3, Zenon DEF AppInv, StrictInv
<1>3. CASE service = "released" /\ Released!Init /\ late = 0
  BY <1>1, <1>3 DEF AppInv, Released!Init, ReleasedInv, ReleasedTyped, Paired, Answered, Reported,
     Released!Replies
<1>. QED
  BY <1>2, <1>3, Zenon DEF ApplicationInit

\* A step of a call that has begun.
LEMMA AppProceeds ==
    ASSUME AppInv, ServiceProceeds, service' = service
    PROVE  AppInv' /\ (op = "admit" => op' = op /\ modes' = modes /\ Decided')
<1>1. CASE service = "strict" /\ Proceed
  BY <1>1, StrictProceeds, StrictAnswers, Zenon DEF AppInv, Decided
<1>2. CASE service = "released" /\ Released!Proceed /\ UNCHANGED strictOnly
  BY <1>2, ReleasedProceeds, ReleasedAnswers, Zenon DEF AppInv, Decided, strictOnly
<1>. QED
  BY <1>1, <1>2, Zenon DEF ServiceProceeds

\* A step of an application that uses no adapter.
LEMMA AppSteps == ASSUME AppInv, ApplicationNext PROVE AppInv'
<1>1. 1 .. MaxBatch \subseteq Nat \ {0}
  BY MaxBatchAssumption
<1>2. CASE service = "strict" /\ Next
  <2>1. StrictInv'
    <3>1. ASSUME NEW method \in Methods, NEW n \in 1 .. MaxBatch,
                 NEW m \in [1 .. n -> {"open", "closed"}], Begin(method, m)
          PROVE  StrictInv'
      BY <1>1, <3>1, StrictBegins, Zenon
    <3>2. CASE Proceed
      BY <1>2, <3>2, StrictProceeds, Zenon DEF AppInv
    <3>. QED
      BY <1>2, <3>1, <3>2, Zenon DEF Next, Methods
  <2>. QED
    BY <1>2, <2>1, Zenon DEF AppInv, ApplicationNext
<1>3. CASE service = "released" /\ Released!Next /\ UNCHANGED strictOnly
  <2>1. ReleasedInv'
    <3>1. ASSUME NEW method \in {"admit", "batch", "acquire", "release"}, NEW n \in 1 .. MaxBatch,
                 NEW m \in [1 .. n -> {"open", "closed"}], Released!Begin(method, m)
          PROVE  ReleasedInv'
      BY <1>1, <3>1, ReleasedBegins, Zenon
    <3>2. CASE Released!Proceed
      BY <1>3, <3>2, ReleasedProceeds, Zenon DEF AppInv
    <3>. QED
      BY <1>3, <3>1, <3>2, Zenon DEF Released!Next
  <2>. QED
    BY <1>3, <2>1, Zenon DEF AppInv, ApplicationNext, strictOnly
<1>. QED
  BY <1>2, <1>3, Zenon DEF ApplicationNext

\* What a middleware knows while it asks its rules.
AdapterInv ==
    adapter # "none" =>
        /\ rules \in Seq({"open", "closed"}) /\ rule \in 1 .. Len(rules)
        /\ adapter # "rpc" => Len(rules) = 1
        /\ asked => answer = "pending" /\ op = "admit" /\ modes = <<rules[rule]>> /\ Decided
        /\ answer = "pending" => charged \subseteq 1 .. rule - 1
        /\ HandlesAdmitted

IInv == AppInv /\ AdapterInv

\* Steps that leave the service alone.
LEMMA AppKept ==
    ASSUME AppInv, UNCHANGED <<service, vars, releasedOnly>>
    PROVE  AppInv' /\ (Decided => Decided') /\ Returned' = Returned
<1>1. UNCHANGED <<service, op, modes, ctx, pc, index, raw, decisions, attempted, items, lease,
                  observed, done, late, reply, errs, replies>>
  BY Zenon DEF vars, releasedOnly
<1>2. StrictInv => StrictInv'
  <2>1. (StrictTyped => StrictTyped') /\ (Placed => Placed') /\ (Ahead => Ahead')
    BY <1>1, Zenon DEF StrictTyped, Placed, Ahead
  <2>2. (Honest => Honest') /\ (Watched => Watched') /\ (Stopped => Stopped')
    BY <1>1, Zenon DEF Honest, Watched, Silent, Stopped
  <2>3. (Leased => Leased') /\ (Told => Told') /\ (Closed => Closed') /\ (Dispatches => Dispatches')
    BY <1>1, Zenon DEF Leased, Told, Closed, Dispatches
  <2>. QED
    BY <2>1, <2>2, <2>3, Zenon DEF StrictInv
<1>3. ReleasedInv => ReleasedInv'
  <2>1. (ReleasedTyped => ReleasedTyped') /\ (Paired => Paired')
    BY <1>1, Zenon DEF ReleasedTyped, Paired
  <2>2. (Answered => Answered') /\ (Reported => Reported')
    BY <1>1, Zenon DEF Answered, Reported
  <2>. QED
    BY <2>1, <2>2, Zenon DEF ReleasedInv
<1>4. (Decided => Decided') /\ Returned' = Returned
  BY <1>1, Zenon DEF Decided, Returned
<1>. QED
  BY <1>1, <1>2, <1>3, <1>4, Zenon DEF AppInv

\* A wrapped handler is called.
LEMMA ReceiveKeeps ==
    ASSUME IInv, adapter # "none", NEW n \in 1 .. MaxRules, NEW m \in [1 .. n -> {"open", "closed"}],
           Receive(m)
    PROVE  IInv'
<1>1. AppInv'
  BY AppKept, Zenon DEF IInv, Receive
<1>2. m \in Seq({"open", "closed"}) /\ Len(m) = n /\ n \in Nat \ {0}
  BY MaxRulesAssumption
<1>3. AdapterInv'
  BY <1>2 DEF Receive, AdapterInv, HandlesAdmitted
<1>. QED
  BY <1>1, <1>3, Zenon DEF IInv

\* The arguments of Admit cannot be derived.
LEMMA InvalidKeeps == ASSUME IInv, adapter # "none", Invalid PROVE IInv'
<1>1. AppInv'
  BY AppKept, Zenon DEF IInv, Invalid
<1>2. adapter = "http" => charged = {}
  <2>1. /\ rule \in 1 .. Len(rules) /\ (adapter = "http" => Len(rules) = 1)
        /\ charged \subseteq 1 .. rule - 1
    BY Zenon DEF IInv, AdapterInv, Invalid
  <2>2. ASSUME adapter = "http" PROVE rule = 1
    <3>1. Len(rules) = 1
      BY <2>1, <2>2, Zenon
    <3>2. rule \in 1 .. 1
      BY <2>1, <3>1, Zenon
    <3>. QED
      BY <3>2
  <2>3. 1 .. 1 - 1 = {}
    OBVIOUS
  <2>. QED
    BY <2>1, <2>2, <2>3, Zenon
<1>3. AdapterInv'
  BY <1>2, Zenon DEF IInv, AdapterInv, HandlesAdmitted, Invalid
<1>. QED
  BY <1>1, <1>3, Zenon DEF IInv

\* Admit is called for the rule at hand.
LEMMA AskKeeps == ASSUME IInv, adapter # "none", Ask PROVE IInv'
<1> DEFINE m == <<rules[rule]>>
<1>1. 1 \in Nat \ {0} /\ m \in [1 .. 1 -> {"open", "closed"}]
  BY DEF IInv, AdapterInv
<1>2. AppInv' /\ op' = "admit" /\ modes' = <<rules[rule]>> /\ Decided'
  <2>1. CASE service = "strict" /\ Begin("admit", <<rules[rule]>>)
    <3>1. StrictInv'
      <4>1. Begin("admit", m) /\ "admit" \in Methods
        BY <2>1, Zenon DEF Methods
      <4>. HIDE DEF m
      <4>. QED
        BY <1>1, <4>1, StrictBegins, Zenon
    <3>. QED
      BY <2>1, <3>1, Zenon DEF AppInv, Ask, Begin, Decided
  <2>2. CASE service = "released" /\ Released!Begin("admit", <<rules[rule]>>) /\ UNCHANGED strictOnly
    <3>1. ReleasedInv'
      <4>1. Released!Begin("admit", m)
        BY <2>2, Zenon
      <4>. HIDE DEF m
      <4>. QED
        BY <1>1, <4>1, ReleasedBegins, Zenon
    <3>. QED
      BY <2>2, <3>1, Zenon DEF IInv, AppInv, Ask, Released!Begin, Decided, strictOnly
  <2>. QED
    BY <2>1, <2>2, Zenon DEF Ask
<1>3. AdapterInv'
  BY <1>2, Zenon DEF IInv, AdapterInv, HandlesAdmitted, Ask
<1>. QED
  BY <1>2, <1>3, Zenon DEF IInv

\* Admit runs.
LEMMA ServeKeeps == ASSUME IInv, adapter # "none", Serve PROVE IInv'
<1>1. op = "admit"
  BY Zenon DEF IInv, AdapterInv, Serve
<1>2. AppInv' /\ op' = op /\ modes' = modes /\ Decided'
  BY <1>1, AppProceeds, Zenon DEF IInv, Serve
<1>3. AdapterInv'
  BY <1>2, Zenon DEF IInv, AdapterInv, HandlesAdmitted, Serve, adapterVars
<1>. QED
  BY <1>2, <1>3, Zenon DEF IInv

\* Admit has returned.
LEMMA TakeKeeps == ASSUME IInv, adapter # "none", Take PROVE IInv'
<1>1. AppInv'
  BY AppKept, Zenon DEF IInv, Take
<1>2. /\ rules \in Seq({"open", "closed"}) /\ rule \in 1 .. Len(rules) /\ Len(rules) \in Nat
      /\ adapter # "rpc" => Len(rules) = 1
      /\ answer = "pending" /\ op = "admit" /\ modes = <<rules[rule]>> /\ Decided /\ pc = "idle"
      /\ charged \subseteq 1 .. rule - 1 /\ handled = 0
      /\ \A i \in 1 .. rule - 1 : i \in charged \/ rules[i] = "open"
  BY SMTT(30) DEF IInv, AdapterInv, HandlesAdmitted, Take
<1>3. /\ Returned = "nil" => done # {} \/ rules[rule] = "open"
      /\ Returned = "rejected" => done = {}
  BY <1>2, ReturnedFacts, Zenon DEF IInv
<1>4. /\ charged' = charged \cup (IF done = {} THEN {} ELSE {rule})
      /\ asked' = FALSE /\ UNCHANGED <<adapter, rules>>
  BY Zenon DEF Take
<1>5. charged' \subseteq 1 .. rule /\ (done = {} => rule \notin charged')
  BY <1>2, <1>4
<1>6. AdapterInv'
  <2>1. CASE Passes(Returned) /\ rule < Len(rules) /\ rule' = rule + 1 /\ UNCHANGED <<answer, handled>>
    <3>1. \A i \in 1 .. rule : i \in charged' \/ rules[i] = "open"
      BY <1>2, <1>3, <1>4, <2>1 DEF Passes
    <3>. QED
      BY <1>2, <1>4, <1>5, <2>1, <3>1 DEF AdapterInv, HandlesAdmitted
  <2>2. CASE /\ Passes(Returned) /\ rule = Len(rules) /\ handled' = handled + 1 /\ answer' = "handled"
             /\ UNCHANGED rule
    <3>1. \A i \in 1 .. Len(rules) : i \in charged' \/ rules[i] = "open"
      BY <1>2, <1>3, <1>4, <2>2 DEF Passes
    <3>. QED
      BY <1>2, <1>4, <1>5, <2>2, <3>1 DEF AdapterInv, HandlesAdmitted
  <2>3. CASE /\ answer' = IF Returned = "rejected" THEN "limited" ELSE "unavailable"
             /\ UNCHANGED <<rule, handled>>
    <3>1. \A i \in 1 .. rule - 1 : i \in charged' \/ rules[i] = "open"
      BY <1>2, <1>4, Zenon
    <3>. QED
      BY <1>2, <1>3, <1>4, <1>5, <2>3, <3>1, Zenon DEF AdapterInv, HandlesAdmitted
  <2>. QED
    BY <2>1, <2>2, <2>3, Zenon DEF Take
<1>. QED
  BY <1>1, <1>6, Zenon DEF IInv

\* The first state.
LEMMA Starts == ASSUME AdapterInit PROVE IInv
<1>1. AppInv
  BY AppStarts, Zenon DEF AdapterInit
<1>2. AdapterInv
  BY DEF AdapterInit, AdapterInv, HandlesAdmitted
<1>. QED
  BY <1>1, <1>2, Zenon DEF IInv

\* Every step keeps it.
LEMMA Steps == ASSUME IInv, AdapterNext PROVE IInv'
<1>1. CASE adapter = "none" /\ ApplicationNext /\ UNCHANGED adapterVars
  BY <1>1, AppSteps, Zenon DEF IInv, AdapterInv, adapterVars
<1>2. ASSUME adapter # "none", NEW n \in 1 .. MaxRules, NEW m \in [1 .. n -> {"open", "closed"}], Receive(m)
      PROVE  IInv'
  BY <1>2, ReceiveKeeps, Zenon
<1>3. CASE adapter # "none" /\ (Invalid \/ Ask \/ Serve \/ Take)
  BY <1>3, InvalidKeeps, AskKeeps, ServeKeeps, TakeKeeps, Zenon
<1>. QED
  BY <1>1, <1>2, <1>3, Zenon DEF AdapterNext

\* So does a step that changes nothing.
LEMMA Stutters == ASSUME IInv, UNCHANGED <<vars, service, releasedOnly, adapterVars>> PROVE IInv'
<1>1. AppInv' /\ (Decided => Decided')
  BY AppKept, Zenon DEF IInv
<1>2. UNCHANGED <<op, modes>>
  BY Zenon DEF vars
<1>3. AdapterInv'
  BY <1>1, <1>2, Zenon DEF IInv, AdapterInv, HandlesAdmitted, adapterVars
<1>. QED
  BY <1>1, <1>3, Zenon DEF IInv

\* The inductive invariant holds in every state.
THEOREM ServicesInvariant == AdapterSpec => []IInv
<1>1. AdapterInit => IInv
  BY Starts, Zenon
<1>2. IInv /\ [AdapterNext]_<<vars, service, releasedOnly, adapterVars>> => IInv'
  BY Steps, Stutters, Zenon
<1>. QED
  BY <1>1, <1>2, PTL DEF AdapterSpec

\* Allowed means charged and failed open means not charged; observers are told the
\* same, each decision once.
THEOREM StrictIsHonest == AdapterSpec => []StrictHonest
<1>1. IInv => StrictHonest
  BY StrictProperties, Zenon DEF IInv, AppInv, StrictHonest
<1>. QED
  BY <1>1, ServicesInvariant, PTL

\* An atomic batch is told to be admitted only if it was and refused only if it
\* was not, and never fails open.
THEOREM AtomicIsHonest == AdapterSpec => []AtomicHonest
<1>1. IInv => AtomicHonest
  BY StrictProperties, Zenon DEF IInv, AppInv, AtomicHonest
<1>. QED
  BY <1>1, ServicesInvariant, PTL

\* The result of a strict batch tells which items were attempted, and why not all.
THEOREM StrictBatchIsAccounted == AdapterSpec => []StrictBatchAccounted
<1>1. IInv => StrictBatchAccounted
  BY StrictProperties, Zenon DEF IInv, AppInv, StrictBatchAccounted
<1>. QED
  BY <1>1, ServicesInvariant, PTL

\* The strict service dispatches at most once after the context ended.
THEOREM StrictStops == AdapterSpec => []StopsWhenEnded
<1>1. IInv => StopsWhenEnded
  BY StrictProperties DEF IInv, AppInv, StopsWhenEnded
<1>. QED
  BY <1>1, ServicesInvariant, PTL

\* The strict service hands out a lease with every allowed acquisition and with
\* nothing else, whatever the backend returned with its decision.
THEOREM StrictLeaseIsComplete == AdapterSpec => []StrictLeaseComplete
<1>1. IInv => StrictLeaseComplete
  BY StrictProperties, Zenon DEF IInv, AppInv, StrictLeaseComplete
<1>. QED
  BY <1>1, ServicesInvariant, PTL

\* The released service denies ErrCorrupt and ErrOverflow while the context is live.
THEOREM ReleasedKeepsIntegrity == AdapterSpec => []ReleasedIntegrity
<1>1. IInv => ReleasedIntegrity
  BY ReleasedProperties, Zenon DEF IInv, AppInv, ReleasedIntegrity
<1>. QED
  BY <1>1, ServicesInvariant, PTL

\* A released batch runs to its end and tells exactly what was let through.
THEOREM ReleasedRunsToEnd == AdapterSpec => []ReleasedBatchRunsToEnd
<1>1. IInv => ReleasedBatchRunsToEnd
  BY ReleasedProperties, Zenon DEF IInv, AppInv, ReleasedBatchRunsToEnd
<1>. QED
  BY <1>1, ServicesInvariant, PTL

\* A handler runs at most once, and only when each rule was charged or fails open.
THEOREM HandlerIsAdmitted == AdapterSpec => []HandlesAdmitted
<1>1. IInv => HandlesAdmitted
  BY Zenon DEF IInv, AdapterInv, HandlesAdmitted
<1>. QED
  BY <1>1, ServicesInvariant, PTL
=============================================================================

---------------------------- MODULE StrictService ----------------------------
(***************************************************************************)
(* StrictService of strict_service.go, strict_lease.go and atomic_batch.go: *)
(* Admit, Batch, Acquire, Release and AdmitAtomicBatch on top of a strict  *)
(* backend, while the caller's context may end at any moment.              *)
(*                                                                         *)
(* The backend is the contract of StrictBackend, StrictLeaseBackend and    *)
(* StrictAtomicBatchBackend: a reply that has one of the documented        *)
(* complete forms is true, and any other reply (an error that is wrapped,  *)
(* joined or of another method, a decision, a lease or a batch of          *)
(* decisions that is incomplete or contradicts the error) says nothing     *)
(* about what the backend did.                                             *)
(***************************************************************************)
EXTENDS Integers, Sequences

CONSTANT MaxBatch  \* bound on the size of a batch: MaxBatchSize

ASSUME MaxBatchAssumption == MaxBatch \in Nat \ {0}

VARIABLES op,         \* the method called
          modes,      \* FailureMode of the policy of each item
          ctx,        \* state of the caller's context
          pc,         \* where the call is
          index,      \* the item at hand
          raw,        \* the backend's reply for it
          decisions,  \* Decisions: one reason for each item, or "zero"
          attempted,  \* Attempted
          items,      \* the item errors: [index, err]
          lease,      \* the lease returned
          observed,   \* the decisions observers were told, in order
          done,       \* items the backend carried out (history)
          late        \* dispatches made after the context ended (history)

vars == <<op, modes, ctx, pc, index, raw, decisions, attempted, items, lease,
          observed, done, late>>

------------------------------------------------------------------------------
(* Errors and replies. *)

Nil == [kind |-> "nil", what |-> "nil"]

Outcome(what) == [kind |-> "outcome", what |-> what]

Categories == {"rejected", "unavailable", "overflow", "corrupt", "unsupported",
               "not_found", "not_owned"}

\* A category, as a sentinel or as a BackendError.
Category(what) == [kind |-> "category", what |-> what]

\* A category, an outcome declaration, or any other error.
Errors ==
    {Nil, [kind |-> "foreign", what |-> "foreign"]}
      \cup {Category(what) : what \in Categories}
      \cup {Outcome(what) : what \in {"canceled", "deadline", "unknown"}}

Safe(err) == err.kind = "category"

Applicable(method) ==
    CASE method = "acquire" -> {"rejected", "unavailable", "overflow", "corrupt", "not_owned"}
      [] method = "release" -> {"unavailable", "corrupt", "not_found", "not_owned"}
      [] OTHER -> {"rejected", "unavailable", "overflow", "corrupt", "unsupported"}

\* A release returns an error only, only an acquisition returns a lease, and only
\* a batch repeats its command.  The decision of an atomic batch is allowed or
\* rejected if Allowed is so and there is one complete decision for each request,
\* rejected with at least one of them exhausted; with a wrong number of decisions,
\* or one that does not fit the others, it is incomplete.
Replies(method) ==
    [decision : IF method = "release" THEN {"zero"}
                ELSE {"zero", "allowed", "rejected", "incomplete"},
     lease : IF method = "acquire" THEN {"none", "matching", "other"} ELSE {"none"},
     command : IF method = "atomic" THEN {"none", "own", "other"} ELSE {"none"},
     err : Errors]

NoReply == [decision |-> "zero", lease |-> "none", command |-> "none", err |-> Nil]

\* The backend panics.
Panic == [NoReply EXCEPT !.decision = "panic"]

\* The backend says that the request was carried out.
Confirms(method, r) ==
    /\ r.err = Nil
    /\ method # "release" => r.decision = "allowed"
    /\ method = "acquire" => r.lease = "matching"
    /\ method = "atomic" => r.command = "own"

\* The backend says that it was not.
Denies(method, r) ==
    /\ r.lease = "none"
    /\ method = "atomic" => (r.command = "own" <=> r.decision = "rejected")
    /\ \/ Safe(r.err) /\ r.err.what = "rejected" /\ r.decision = "rejected"
       \/ r.decision = "zero" /\ r.err \in {Outcome("canceled"), Outcome("deadline")}
       \/ r.decision = "zero" /\ Safe(r.err) /\ r.err.what \in Applicable(method) \ {"rejected"}

------------------------------------------------------------------------------
(* What the service makes of a reply: a reason and an error. *)

Verdict(reason, err) == [reason |-> reason, err |-> err]

Unknown == Verdict("outcome_unknown", Outcome("unknown"))

\* Mutant: an unavailable backend is enough to fail open, whatever it returned.
NormalizeAdmitEager(mode, r) ==
    CASE r.err = Nil /\ r.decision = "allowed" -> Verdict("allowed", Nil)
      [] Safe(r.err) /\ r.err.what = "rejected" /\ r.decision = "rejected" ->
           Verdict("limited", r.err)
      [] Safe(r.err) /\ r.err.what = "unavailable" /\ mode = "open" -> Verdict("fail_open", Nil)
      [] OTHER -> Unknown

\* normalizeAdmit
NormalizeAdmit(mode, r) ==
    CASE r.err = Nil /\ r.decision = "allowed" -> Verdict("allowed", Nil)
      [] Safe(r.err) /\ r.err.what = "rejected" /\ r.decision = "rejected" ->
           Verdict("limited", r.err)
      [] r.err = Outcome("deadline") /\ r.decision = "zero" /\ mode = "open" ->
           Verdict("fail_open", Nil)
      [] r.err.kind = "outcome" /\ r.decision = "zero" /\ ~(r.err.what = "deadline" /\ mode = "open") ->
           Verdict(IF r.err.what = "unknown" THEN "outcome_unknown" ELSE r.err.what, r.err)
      [] Safe(r.err) /\ r.err.what \in Applicable("admit") \ {"rejected"} /\ r.decision = "zero" ->
           IF r.err.what = "unavailable" /\ mode = "open" THEN Verdict("fail_open", Nil)
           ELSE Verdict("backend_unavailable", r.err)
      [] OTHER -> Unknown

\* Mutant: the lease is not compared with the request.
NormalizeAcquireAnyLease(r) ==
    IF r.err = Nil /\ r.decision = "allowed" THEN Verdict("allowed", Nil) ELSE Unknown

\* normalizeAcquire: concurrency never fails open.
NormalizeAcquire(r) ==
    CASE r.err = Nil /\ r.decision = "allowed" /\ r.lease = "matching" -> Verdict("allowed", Nil)
      [] Safe(r.err) /\ r.err.what = "rejected" /\ r.lease = "none" /\ r.decision = "rejected" ->
           Verdict("limited", r.err)
      [] r.err.kind = "outcome" /\ r.lease = "none" /\ r.decision = "zero" ->
           Verdict(IF r.err.what = "unknown" THEN "outcome_unknown" ELSE r.err.what, r.err)
      [] /\ Safe(r.err) /\ r.err.what \in Applicable("acquire") \ {"rejected"}
         /\ r.lease = "none" /\ r.decision = "zero" -> Verdict("backend_unavailable", r.err)
      [] OTHER -> Unknown

\* The end of Release.  A release has no decision; its reason repeats the error.
NormalizeRelease(r) ==
    CASE r.err = Nil -> Verdict("allowed", Nil)
      [] r.err.kind = "outcome" ->
           Verdict(IF r.err.what = "unknown" THEN "outcome_unknown" ELSE r.err.what, r.err)
      [] Safe(r.err) /\ r.err.what \in Applicable("release") -> Verdict("backend_unavailable", r.err)
      [] OTHER -> Unknown

\* Mutant: the decisions are not looked at.
NormalizeAtomicLoose(r) ==
    CASE r.command = "own" /\ r.err = Nil -> Verdict("allowed", Nil)
      [] OTHER -> Unknown

\* The end of AdmitAtomicBatch, which recovers from a panic of the backend.
NormalizeAtomic(r) ==
    CASE r.command = "own" /\ r.decision = "allowed" /\ r.err = Nil -> Verdict("allowed", Nil)
      [] r.command = "own" /\ r.decision = "rejected" /\ r.err = Category("rejected") ->
           Verdict("limited", r.err)
      [] r.command = "none" /\ r.decision = "zero" /\ r.err.kind = "outcome" ->
           Verdict(IF r.err.what = "unknown" THEN "outcome_unknown" ELSE r.err.what, r.err)
      [] /\ r.command = "none" /\ r.decision = "zero"
         /\ Safe(r.err) /\ r.err.what \in Applicable("atomic") \ {"rejected"} ->
           Verdict("backend_unavailable", r.err)
      [] OTHER -> Unknown

Normalize(method, mode, r) ==
    CASE method = "release" -> NormalizeRelease(r)
      [] method = "atomic" -> NormalizeAtomic(r)
      [] method = "acquire" -> NormalizeAcquire(r)
      [] OTHER -> NormalizeAdmit(mode, r)

------------------------------------------------------------------------------
(* A call. *)

Size == Len(decisions)

Begin(method, m) ==
    /\ pc = "idle"
    /\ op' = method /\ modes' = m
    /\ method # "batch" => Len(m) = 1
    /\ method \in {"acquire", "release", "atomic"} => m = <<"closed">>
    /\ \/ pc' = "loop" /\ items' = <<>>
       \/ /\ method = "release"   \* a lease of another backend
          /\ pc' = "idle"
          /\ items' = <<[index |-> 1, err |-> Category("not_owned")]>>
    /\ ctx' = "open" /\ index' = 1 /\ raw' = NoReply
    /\ decisions' = [i \in 1 .. Len(m) |-> "zero"]
    /\ attempted' = <<>> /\ lease' = "none" /\ observed' = <<>>
    /\ done' = {} /\ late' = 0

\* Release and AdmitAtomicBatch tell observers nothing.
Silent == op \in {"release", "atomic"}

\* The caller cancels, or the deadline passes.
ContextEnds ==
    /\ pc \notin {"idle"} /\ ctx = "open"
    /\ ctx' \in {"canceled", "deadline"}
    /\ UNCHANGED <<op, modes, pc, index, raw, decisions, attempted, items, lease,
                   observed, done, late>>

\* Mutant: a cancellation is not noticed.
EndedDeadline == ctx = "deadline"

\* strictCallerContext
Ended == ctx # "open"

\* The head of the batch loop; other methods go straight to their own check.
Loop ==
    /\ pc = "loop" /\ index <= Size
    /\ \/ /\ op = "batch" /\ Ended
          /\ items' = Append(items, [index |-> index, err |-> Outcome(ctx)])
          /\ pc' = "idle"
       \/ /\ op # "batch" \/ ~Ended
          /\ pc' = "check"
          /\ UNCHANGED items
    /\ UNCHANGED <<op, modes, ctx, index, raw, decisions, attempted, lease,
                   observed, done, late>>

\* strictCallerContext before the dispatch, then the assertion that the backend
\* has the interface for leases or atomic batches, which it may not.
Check ==
    /\ pc = "check"
    /\ \/ /\ ~Ended
          /\ pc' = "dispatch"
          /\ UNCHANGED <<decisions, items, observed>>
       \/ /\ ~Ended /\ op \in {"acquire", "release", "atomic"}
          /\ items' = <<[index |-> 1, err |-> Category("unsupported")]>>
          /\ pc' = "idle"
          /\ UNCHANGED <<decisions, observed>>
       \/ /\ Ended /\ op = "batch"
          /\ items' = Append(items, [index |-> index, err |-> Outcome(ctx)])
          /\ pc' = "idle"
          /\ UNCHANGED <<decisions, observed>>
       \/ /\ Ended /\ op # "batch"
          /\ LET open == op = "admit" /\ ctx = "deadline" /\ modes[1] = "open"
                 why  == IF open THEN "fail_open" ELSE ctx
             IN  /\ decisions' = [decisions EXCEPT ![1] = why]
                 /\ items' = IF open THEN items
                             ELSE Append(items, [index |-> 1, err |-> Outcome(ctx)])
                 /\ observed' = IF Silent THEN observed ELSE Append(observed, why)
          /\ pc' = "idle"
    /\ UNCHANGED <<op, modes, ctx, index, raw, attempted, lease, done, late>>

\* External: the backend acts and replies.
Backend ==
    /\ pc = "dispatch"
    /\ pc' = "reply"
    /\ raw' \in Replies(op) \cup IF op = "atomic" THEN {Panic} ELSE {}
    /\ \/ ~Denies(op, raw') /\ done' = done \cup {index}
       \/ ~Confirms(op, raw') /\ done' = done
    /\ late' = IF ctx = "open" THEN late ELSE late + 1
    /\ UNCHANGED <<op, modes, ctx, index, decisions, attempted, items, lease, observed>>

\* Mutant: an item that failed is not recorded as attempted.
FinishSome ==
    LET v    == Normalize(op, modes[index], raw)
        stop == v.err = Outcome("unknown") /\ Ended
    IN  /\ pc = "reply"
        /\ decisions' = [decisions EXCEPT ![index] = v.reason]
        /\ attempted' = IF v.err = Nil THEN Append(attempted, index) ELSE attempted
        /\ items' = IF v.err = Nil THEN items ELSE Append(items, [index |-> index, err |-> v.err])
        /\ lease' = IF op = "acquire" /\ v.reason = "allowed" THEN raw.lease ELSE "none"
        /\ observed' = IF Silent THEN observed ELSE Append(observed, v.reason)
        /\ pc' = IF index = Size \/ stop THEN "idle" ELSE "loop"
        /\ index' = index + 1 /\ raw' = NoReply
        /\ UNCHANGED <<op, modes, ctx, done, late>>

\* The reply is normalised, stamped, observed and recorded.
Finish ==
    LET v    == Normalize(op, modes[index], raw)
        stop == v.err = Outcome("unknown") /\ Ended
    IN  /\ pc = "reply"
        /\ decisions' = [decisions EXCEPT ![index] = v.reason]
        /\ attempted' = Append(attempted, index)
        /\ items' = IF v.err = Nil THEN items ELSE Append(items, [index |-> index, err |-> v.err])
        /\ lease' = IF op = "acquire" /\ v.reason = "allowed" THEN raw.lease ELSE "none"
        /\ observed' = IF Silent THEN observed ELSE Append(observed, v.reason)
        /\ pc' = IF index = Size \/ stop THEN "idle" ELSE "loop"
        /\ index' = index + 1 /\ raw' = NoReply
        /\ UNCHANGED <<op, modes, ctx, done, late>>

Init ==
    /\ op = "admit" /\ modes = <<"closed">> /\ ctx = "open" /\ pc = "idle" /\ index = 1
    /\ raw = NoReply /\ decisions = <<"zero">> /\ attempted = <<>> /\ items = <<>>
    /\ lease = "none" /\ observed = <<>> /\ done = {} /\ late = 0

\* A step of a call that has begun.
Proceed == ContextEnds \/ Loop \/ Check \/ Backend \/ Finish

Next ==
    \/ \E method \in {"admit", "batch", "acquire", "release", "atomic"}, n \in 1 .. MaxBatch :
         \E m \in [1 .. n -> {"open", "closed"}] : Begin(method, m)
    \/ Proceed

Spec == Init /\ [][Next]_vars

------------------------------------------------------------------------------
(* Properties. *)

\* What the caller is told is what happened.  Allowed: the backend charged it.
\* Fail-open: the backend did not, and the policy asked for it.  Any other
\* denial: nothing was charged, except for an outcome that is declared unknown.
Honest ==
    \A i \in DOMAIN decisions :
        /\ decisions[i] = "allowed" => i \in done
        /\ decisions[i] = "fail_open" => i \notin done /\ modes[i] = "open"
        /\ i \in done /\ ~(pc = "reply" /\ i = index)
              => decisions[i] \in {"allowed", "outcome_unknown"}

\* A batch can be reconciled: the attempted indexes are a prefix of the batch in
\* order, everything the backend did is among them, unattempted items keep the
\* zero decision, and when some are missing the last item error says why: the
\* context had ended.
BatchAccounted ==
    LET n == Len(attempted)
    IN  /\ attempted = [i \in 1 .. n |-> i]
        /\ done \subseteq 1 .. (IF pc = "reply" THEN n + 1 ELSE n)
        /\ op = "batch" => \A i \in DOMAIN decisions : decisions[i] = "zero" <=> i > n
        /\ op = "batch" /\ pc = "idle" /\ n < Size =>
              /\ ctx # "open"
              /\ items # <<>>
              /\ items[Len(items)].index \in {n, n + 1}

\* Once the context has ended at most one more item is dispatched, the one whose
\* check had passed.
StopsWhenEnded == late <= 1

\* An allowed acquisition comes with its lease and nothing else comes with one, and
\* the lease is the one that was asked for.
LeaseComplete ==
    /\ lease # "none" <=> op = "acquire" /\ decisions[1] = "allowed"
    /\ lease \in {"none", "matching"}

\* Observers are told every decision exactly once, in order and as the caller gets
\* it; an item that was not attempted is not observed.
ObservedOnce ==
    ~Silent => /\ DOMAIN observed \subseteq DOMAIN decisions
               /\ \A i \in DOMAIN observed : observed[i] # "zero"
               /\ \A i \in DOMAIN decisions :
                     decisions[i] = IF i \in DOMAIN observed THEN observed[i] ELSE "zero"
=============================================================================

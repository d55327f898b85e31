------------------------------- MODULE Service -------------------------------
(***************************************************************************)
(* The released Service of service.go, batch.go and lease.go: Admit,       *)
(* Batch, Acquire and Release over a backend, with the fail-open policy,   *)
(* while the caller's context may end at any moment.                       *)
(*                                                                         *)
(* Unlike StrictService it classifies errors with errors.Is, looks at the  *)
(* context only after the backend has answered, and takes successes and    *)
(* rejections as they come.  The backend is the contract of Backend: no    *)
(* error means that the request was carried out, ErrRejected that it was   *)
(* not, and any other error leaves it open.                                *)
(***************************************************************************)
EXTENDS Integers, Sequences

CONSTANT MaxBatch  \* bound on the size of a batch: MaxBatchSize

VARIABLES op,         \* the method called
          modes,      \* FailureMode of the policy of each item
          ctx,        \* state of the caller's context
          pc,         \* where the call is
          reply,      \* what the backend's error for the item at hand matches
          decisions,  \* the reasons returned so far
          errs,       \* the errors returned so far, "nil" where there is none
          replies,    \* the backend's replies so far (history)
          done        \* items the backend carried out (history)

vars == <<op, modes, ctx, pc, reply, decisions, errs, replies, done>>

\* An error is known by the one sentinel it matches, "other" when there is none.
Sentinels == {"rejected", "unavailable", "deadline", "overflow", "corrupt", "unsupported",
              "not_found", "not_owned", "context_deadline", "context_canceled", "other"}

Replies == {"nil"} \cup Sentinels

\* Mutant: corruption is one more way to be unavailable.
NormalizeCoarse(context, err) ==
    CASE context # "open" \/ err \in {"context_deadline", "context_canceled"} -> "deadline"
      [] OTHER -> "unavailable"

\* normalizeBackendError: cancellation counts as a deadline, and both come first.
NormalizeBackendError(context, err) ==
    CASE context # "open" \/ err \in {"context_deadline", "context_canceled"} -> "deadline"
      [] context = "open" /\ err \in {"overflow", "corrupt"} -> err
      [] OTHER -> "unavailable"

\* errorsIsStableLease
StableLease(err) ==
    err \in {"rejected", "not_found", "not_owned", "unavailable", "deadline", "corrupt"}

------------------------------------------------------------------------------

Index == Len(decisions) + 1

Begin(method, m) ==
    /\ pc = "idle"
    /\ op' = method /\ modes' = m
    /\ method # "batch" => Len(m) = 1
    /\ method \in {"acquire", "release"} => m = <<"closed">>
    /\ \/ pc' = "dispatch" /\ errs' = <<>>
       \/ /\ method \in {"acquire", "release"}   \* not a LeaseBackend
          /\ pc' = "idle" /\ errs' = <<"unsupported">>
       \/ /\ method = "release"   \* a lease of another backend
          /\ pc' = "idle" /\ errs' = <<"not_owned">>
    /\ ctx' \in {"open", "canceled", "deadline"}
    /\ reply' = "nil" /\ decisions' = <<>> /\ replies' = <<>> /\ done' = {}

ContextEnds ==
    /\ pc # "idle" /\ ctx = "open"
    /\ ctx' \in {"canceled", "deadline"}
    /\ UNCHANGED <<op, modes, pc, reply, decisions, errs, replies, done>>

\* External: the backend acts and replies.
Backend ==
    /\ pc = "dispatch"
    /\ pc' = "reply"
    /\ reply' \in Replies
    /\ replies' = Append(replies, reply')
    /\ \/ reply' # "rejected" /\ done' = done \cup {Index}
       \/ reply' # "nil" /\ done' = done
    /\ UNCHANGED <<op, modes, ctx, decisions, errs>>

\* Mutant: the batch ends with the first error.
ReturnFirst(reason, err) ==
    /\ decisions' = Append(decisions, reason)
    /\ errs' = Append(errs, err)
    /\ pc' = IF Index = Len(modes) \/ err # "nil" THEN "idle" ELSE "dispatch"
    /\ reply' = "nil"
    /\ UNCHANGED <<op, modes, ctx, replies, done>>

\* The call returns, or the batch goes on with its next item.
Return(reason, err) ==
    /\ decisions' = Append(decisions, reason)
    /\ errs' = Append(errs, err)
    /\ pc' = IF Index = Len(modes) THEN "idle" ELSE "dispatch"
    /\ reply' = "nil"
    /\ UNCHANGED <<op, modes, ctx, replies, done>>

\* The rest of Admit.
FinishAdmit ==
    LET err == NormalizeBackendError(ctx, reply)
    IN  /\ pc = "reply" /\ op \in {"admit", "batch"}
        /\ \/ reply = "nil" /\ Return("allowed", "nil")
           \/ reply = "rejected" /\ Return("limited", "rejected")
           \/ /\ reply \notin {"nil", "rejected"}
              /\ modes[Index] = "open" /\ err \in {"unavailable", "deadline"}
              /\ Return("fail_open", "nil")
           \/ /\ reply \notin {"nil", "rejected"}
              /\ modes[Index] = "closed" \/ err \notin {"unavailable", "deadline"}
              /\ Return("backend_unavailable", err)

\* The rest of Acquire and Release; the decision is the backend's own.
FinishLease ==
    /\ pc = "reply" /\ op \in {"acquire", "release"}
    /\ Return(IF reply = "nil" THEN "allowed" ELSE "limited",
              IF reply = "nil" \/ StableLease(reply) THEN reply
              ELSE NormalizeBackendError(ctx, reply))

Init ==
    /\ op = "admit" /\ modes = <<"closed">> /\ ctx = "open" /\ pc = "idle" /\ reply = "nil"
    /\ decisions = <<>> /\ errs = <<>> /\ replies = <<>> /\ done = {}

\* A step of a call that has begun.
Proceed == ContextEnds \/ Backend \/ FinishAdmit \/ FinishLease

Next ==
    \/ \E method \in {"admit", "batch", "acquire", "release"}, n \in 1 .. MaxBatch :
         \E m \in [1 .. n -> {"open", "closed"}] : Begin(method, m)
    \/ Proceed

Spec == Init /\ [][Next]_vars

------------------------------------------------------------------------------
(* Properties. *)

\* A policy that fails open never admits on an integrity failure: whatever the
\* backend answers with ErrCorrupt or ErrOverflow is denied (docs/outages.md).
IntegrityFailsClosed ==
    \A i \in DOMAIN decisions :
        replies[i] \in {"corrupt", "overflow"} => decisions[i] \notin {"allowed", "fail_open"}

\* What holds of it in this code: integrity failures are denied as long as the
\* context is live when the call ends.
LiveIntegrityFailsClosed == ctx = "open" => IntegrityFailsClosed

\* A batch runs to its end whatever happens to the context, every item is
\* dispatched once, and only the items whose error is nil were let through; an
\* item that was rejected was not charged.
BatchRunsToEnd ==
    /\ op = "batch" /\ pc = "idle" => Len(replies) = Len(modes) /\ Len(errs) = Len(modes)
    /\ \A i \in DOMAIN decisions :
          /\ errs[i] = "nil" <=> decisions[i] \in {"allowed", "fail_open"}
          /\ errs[i] = "rejected" => i \notin done
          /\ decisions[i] = "allowed" => i \in done
=============================================================================

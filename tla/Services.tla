------------------------------- MODULE Services -------------------------------
(***************************************************************************)
(* An application calls its backend through the strict service or through  *)
(* the released one.  The two have the caller, its context and the backend *)
(* in common, and differ in what they make of a reply.                     *)
(***************************************************************************)
EXTENDS StrictService

VARIABLES service,  \* the service in use
          reply,    \* the released service: the reply at hand
          errs,     \* the errors it has returned
          replies   \* the replies it was given (history)

Released == INSTANCE Service

strictOnly == <<index, raw, attempted, items, lease, observed, late>>

releasedOnly == <<reply, errs, replies>>

ApplicationInit ==
    \/ /\ service = "strict" /\ Init
       /\ reply = "nil" /\ errs = <<>> /\ replies = <<>>
    \/ /\ service = "released" /\ Released!Init
       /\ index = 1 /\ raw = NoReply /\ attempted = <<>> /\ items = <<>> /\ lease = "none"
       /\ observed = <<>> /\ late = 0

ApplicationNext ==
    /\ \/ service = "strict" /\ Next /\ UNCHANGED releasedOnly
       \/ service = "released" /\ Released!Next /\ UNCHANGED strictOnly
    /\ UNCHANGED service

ApplicationSpec ==
    ApplicationInit /\ [][ApplicationNext]_<<vars, service, reply, errs, replies>>

------------------------------------------------------------------------------
(* Properties. *)

\* What the caller of the strict service is told is what happened: allowed means
\* charged, failed open means not charged, and a charge is never reported as a
\* plain denial.  Observers are told the same, once.
StrictHonest == service = "strict" /\ op # "atomic" => Honest /\ ObservedOnce

\* Whatever a backend returns for an atomic batch (no or too few decisions, those
\* of another command, decisions that contradict its error, a panic), and whenever
\* the context ends: the command is told to be admitted only if it was, to be
\* refused only if it was not, and never to have failed open.
AtomicHonest ==
    service = "strict" /\ op = "atomic" =>
        Honest /\ decisions[1] # "fail_open"

\* A strict batch can be reconciled from its result alone.
StrictBatchAccounted == service = "strict" => BatchAccounted

\* A released batch runs to its end whatever happens to the context, and tells
\* exactly the items that were let through.
ReleasedBatchRunsToEnd == service = "released" => Released!BatchRunsToEnd

\* The released service denies what the backend answers with ErrCorrupt or
\* ErrOverflow as long as the context is live.
ReleasedIntegrity == service = "released" => Released!LiveIntegrityFailsClosed

\* What docs/outages.md says of both errors, whatever the context does.
IntegrityFailsClosed == service = "released" => Released!IntegrityFailsClosed

\* The strict service hands out a lease with every allowed acquisition and with
\* nothing else, and it is the one that was asked for.
StrictLeaseComplete == service = "strict" => LeaseComplete
=============================================================================

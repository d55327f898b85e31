---------------------------- MODULE RemoteBucket ----------------------------
(***************************************************************************)
(* What the token buckets of Valkey and PostgreSQL have in common:         *)
(* released and strict callers share the state of one policy ID and key on *)
(* a server, through a rollout of its policy.                              *)
(*                                                                         *)
(* The server removes the state by its own clock.  Tokens accrue by the    *)
(* clock of Options.Clock: the server's (a skew of 0), or the one of each  *)
(* client, within the skew of it.  Policies keep every product of the code *)
(* an exact integer, so its numbers are integers here.                     *)
(***************************************************************************)
EXTENDS Integers, Sequences

CONSTANTS Deployments, \* records: the backend, the policies in the order of their
                       \* deployment, and how far client clocks are off
          Floor,       \* the least retention: one second
          MaxTime      \* bound on the server's clock

\* What NewPolicy accepts.  A period change needs another policy ID.
ASSUME DeploymentAssumption ==
    \A d \in Deployments :
        /\ d.backend \in {"postgres", "valkey"} /\ d.skew \in Nat
        /\ Len(d.policies) \in Nat \ {0} /\ DOMAIN d.policies = 1 .. Len(d.policies)
        /\ \A r \in DOMAIN d.policies :
             /\ d.policies[r].capacity \in Nat \ {0} /\ d.policies[r].burst \in Nat
             /\ d.policies[r].maxCost \in 1 .. d.policies[r].capacity + d.policies[r].burst
             /\ d.policies[r].period \in Nat \ {0}
             /\ d.policies[r].period = d.policies[1].period

ASSUME TimeAssumption == MaxTime \in Nat /\ Floor \in Nat \ {0}

VARIABLES deployment, \* where and how the policy ID is deployed
          server,     \* the server's clock
          deployed,   \* the revision callers use
          bucket,     \* the stored state: the fields of the hash, or the row
          until,      \* when the server may remove it
          decision,   \* the last decision returned
          clock,      \* the latest effective instant (history)
          audit       \* an observer's tally of admitted cost (history)

vars == <<deployment, server, deployed, bucket, until, decision, clock, audit>>

Policy(r) == deployment.policies[r]

Revisions == DOMAIN deployment.policies

Limit(r) == Policy(r).capacity + Policy(r).burst

Modes == {"released", "strict"}

NoBucket == [present |-> FALSE]

Later(s, t) == IF s < t THEN t ELSE s

\* What a caller may send as now, or the server reads.
Readings == {t \in server - deployment.skew .. server + deployment.skew : t >= 0}

Full(r, now) ==
    [present |-> TRUE, revision |-> r, tokens |-> Limit(r), remainder |-> 0, last |-> now]

\* A reply without a decision.
Bare(outcome, r) ==
    [outcome |-> outcome, revision |-> r, mode |-> "strict", cost |-> 0, at |-> 0, remaining |-> 0,
     reset |-> 0, retryAfter |-> 0]

\* The greatest limit that was in force so far.
Ceiled == LET limits == {Limit(r) : r \in 1 .. deployed}
          IN  CHOOSE n \in limits : \A m \in limits : m <= n

\* What a call answers, and what the observer makes of it.
Answer(d) ==
    /\ decision' = d
    /\ clock' = Later(d.at, clock)
    /\ audit' = [audit EXCEPT !.granted = @ + IF d.outcome = "allowed" THEN d.cost ELSE 0]

\* A strict call that finds the state corrupt changes nothing.
Refuse(r) ==
    /\ decision' = Bare("corrupt", r)
    /\ UNCHANGED <<bucket, until, clock, audit>>

\* External: old revisions are drained and the next one is deployed.
Deploy ==
    /\ deployed + 1 \in Revisions
    /\ deployed' = deployed + 1
    /\ audit' = [audit EXCEPT !.limit = IF bucket.present THEN @ ELSE Later(@, Limit(deployed'))]
    /\ UNCHANGED <<deployment, server, bucket, until, decision, clock>>

\* History: the observer starts a new measurement at any moment.
StartAudit ==
    /\ audit' = [start |-> clock, limit |-> Ceiled, granted |-> 0]
    /\ UNCHANGED <<deployment, server, deployed, bucket, until, decision, clock>>

Init ==
    /\ deployment \in Deployments
    /\ server = 0 /\ deployed = 1 /\ bucket = NoBucket /\ until = 0
    /\ decision = Bare("none", 1) /\ clock = 0
    /\ audit = [start |-> 0, limit |-> Limit(1), granted |-> 0]

------------------------------------------------------------------------------
(* Properties. *)

\* No deployment lowers the limit.
Grows == \A r \in Revisions : r > 1 => Limit(r) >= Limit(r - 1)

\* "Capacity tokens refill per Period with optional Burst" (docs/algorithms.md):
\* from any moment on, the cost admitted never exceeds the greatest limit in force
\* until then (or at a rollout that found no bucket) plus what the fastest deployed
\* rate refills in the effective time since.  Neither clocks that disagree, nor
\* rollouts that raise or lower the limit, nor the removal of idle state mint
\* tokens.
NoOverAdmission ==
    \E r \in Revisions :
        audit.granted * Policy(r).period
            <= audit.limit * Policy(r).period + (clock - audit.start) * Policy(r).capacity

\* "Reset is the time until the bucket is full" (docs/algorithms.md): the next
\* request of the same revision finds a full bucket, removed and created again
\* or not, if and only if it comes no earlier than the Reset last reported.  A
\* balance that released callers carry into a smaller limit is an exception.
ResetExact ==
    [][/\ Grows
       /\ decision.outcome \in {"allowed", "limited"}
       /\ decision'.outcome \in {"allowed", "limited"}
       /\ decision'.revision = decision.revision
       => (decision'.at >= decision.reset
             <=> decision'.remaining + (IF decision'.outcome = "allowed" THEN decision'.cost ELSE 0)
                   = Limit(decision'.revision))]_decision

\* Released and strict callers can share a bucket: a strict caller never takes
\* for corrupt what either kind has written, unless the limit was lowered.
NeverCorrupt == Grows => decision.outcome # "corrupt"

\* "Token balance is capped by the new limit" (docs/deployment.md), as far as
\* strict callers are concerned: whatever balance released callers carry over into
\* a smaller limit, a strict caller is never granted from more than the limit.
StrictCapped ==
    decision.outcome = "allowed" /\ decision.mode = "strict"
        => decision.remaining + decision.cost <= Limit(decision.revision)
=============================================================================

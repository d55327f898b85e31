---------------------------- MODULE WindowPolicy ----------------------------
(***************************************************************************)
(* What the two window algorithms of memory/store.go share: the revisions  *)
(* of one policy ID, the instants callers submit (microseconds, before and *)
(* after the Unix epoch), the clamp of a clock that moves backwards and    *)
(* consumeWindow.                                                          *)
(***************************************************************************)
EXTENDS Integers

CONSTANTS Revisions,  \* the revisions under which the policy ID is deployed
          Policy,     \* [Revisions -> [limit, period, maxCost]]
          Period,     \* the period of the call that created the key
          Segments,   \* slidingSegments: 16 in the code
          MinTime, MaxTime

ASSUME PolicyAssumption ==
    \A r \in Revisions : /\ Policy[r].limit \in Nat \ {0}
                         /\ Policy[r].period \in Nat \ {0}
                         /\ Policy[r].maxCost \in 1 .. Policy[r].limit

ASSUME PeriodAssumption ==
    /\ Period \in Nat \ {0}
    /\ \E r \in Revisions : Policy[r].period = Period

ASSUME TimeAssumption ==
    /\ MinTime \in Int
    /\ MaxTime \in Int
    /\ MinTime <= MaxTime

ASSUME SegmentsAssumption == Segments \in Nat \ {0}

Instants == MinTime .. MaxTime

\* Revisions that keep the period of the key.  The released methods are only
\* deployed with these; the strict methods accept a call of any revision and
\* refuse the others.
SamePeriod == {r \in Revisions : Policy[r].period = Period}

\* Mutant: the submitted clock is taken as it is.
Submitted(s, t) == s

Later(s, t) == IF s < t THEN t ELSE s

Decisions == [outcome : {"allowed", "limited", "corrupt"}, revision : Revisions,
              cost : Nat, at : Int, remaining : Nat, reset : Int, retryAfter : Nat]

\* consumeWindow: the decision for a request that finds `used' consumed.
ConsumeWindow(used, r, cost, at, reset) ==
    LET limit     == Policy[r].limit
        remaining == IF used < limit THEN limit - used ELSE 0
        allowed   == cost <= remaining
    IN  [outcome |-> IF allowed THEN "allowed" ELSE "limited",
         revision |-> r, cost |-> cost, at |-> at,
         remaining |-> IF allowed THEN remaining - cost ELSE remaining,
         reset |-> reset,
         retryAfter |-> IF allowed \/ reset < at THEN 0 ELSE reset - at]

\* What AdmitStrict returns for a period that differs from the recorded one:
\* ErrCorrupt and no decision.
PeriodMismatch(r) ==
    [outcome |-> "corrupt", revision |-> r, cost |-> 0, at |-> 0,
     remaining |-> 0, reset |-> 0, retryAfter |-> 0]
=============================================================================

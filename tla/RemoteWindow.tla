---------------------------- MODULE RemoteWindow ----------------------------
(***************************************************************************)
(* What the window counters of Valkey and PostgreSQL have in common:       *)
(* released and strict callers of several revisions share the state of one *)
(* policy ID and key on a server, which removes it by its own clock.       *)
(*                                                                         *)
(* Strict callers keep the period and a mark for carried usage in fields   *)
(* that released callers neither read nor change.                          *)
(***************************************************************************)
EXTENDS Integers, FiniteSetsExt

CONSTANTS Revisions,  \* the revisions under which the policy ID is deployed
          Policy,     \* [Revisions -> [limit, period, maxCost]]
          Period,     \* the period of the policy ID
          Segments,   \* of a sliding window: 16 in the code
          Skew,       \* how far client clocks are off; 0 for the server's clock
          Floor,      \* the least retention: one second
          MaxTime     \* bound on the server's clock

ASSUME PolicyAssumption ==
    \A r \in Revisions : /\ Policy[r].limit \in Nat \ {0}
                         /\ Policy[r].period \in Nat \ {0}
                         /\ Policy[r].maxCost \in 1 .. Policy[r].limit

ASSUME TimeAssumption ==
    /\ Period \in Nat \ {0} /\ Segments \in Nat \ {0}
    /\ MaxTime \in Nat /\ Skew \in Nat /\ Floor \in Nat \ {0}

VARIABLES algorithm, \* Policy.Algorithm(): "fixed" or "sliding"
          server,    \* the server's clock
          state,     \* the stored state: the fields of the hash, or the row
          until,     \* when the server may remove it
          decision,  \* the last decision returned
          writer,    \* who wrote the state last (history)
          log        \* the cost admitted in each fixed window, at its start, or at
                     \* each instant of the last period (history)

vars == <<algorithm, server, state, until, decision, writer, log>>

Instants == 0 .. MaxTime + Skew

Slots == 0 .. Segments - 1

NoState == [present |-> FALSE]

Absent == [index |-> 0, used |-> 0]

Later(s, t) == IF s < t THEN t ELSE s

\* What a caller may submit as now, or the server reads.
Readings == Instants \cap (server - Skew .. server + Skew)

\* Revisions that keep the period; a change needs another policy ID.
SamePeriod == {r \in Revisions : Policy[r].period = Period}

\* Empty state.
Empty(mode, r, now) ==
    [present |-> TRUE, revision |-> r, last |-> now, window |-> 0, used |-> 0,
     segments |-> [s \in Slots |-> Absent],
     period |-> IF mode = "strict" THEN Policy[r].period ELSE 0, carried |-> FALSE]

WindowStart(r, at) == (at \div Policy[r].period) * Policy[r].period

Width(r) == (Policy[r].period + Segments - 1) \div Segments

Index(r, at) == at \div Width(r)

Oldest(r, at) == (at - Policy[r].period) \div Width(r)

\* The segments, without those that have left the window.
Live(s, r, at) ==
    [slot \in Slots |-> IF s.segments[slot].index <= Oldest(r, at) THEN Absent ELSE s.segments[slot]]

InUse(s, r, at) ==
    {slot \in Slots : s.segments[slot].used > 0 /\ s.segments[slot].index > Oldest(r, at)}

\* Usage that counts at `at'.
Usage(s, r, at) ==
    IF algorithm = "sliding"
    THEN SumFunctionOnSet([slot \in Slots |-> s.segments[slot].used], InUse(s, r, at))
    ELSE IF s.window = WindowStart(r, at) THEN s.used ELSE 0

\* A segment in use that is not where its instants put it.
Misplaced(s, r, at) ==
    \E slot \in InUse(s, r, at) : LET index == s.segments[slot].index
                                  IN  index > Index(r, at) \/ index % Segments # slot

\* The segment of the instant takes the cost.
Charged(segments, r, cost, at) ==
    LET slot == Index(r, at) % Segments
        held == IF segments[slot].index = Index(r, at) THEN segments[slot].used ELSE 0
    IN  [segments EXCEPT ![slot] = [index |-> Index(r, at), used |-> held + cost]]

Reset(s, r, at) ==
    IF algorithm = "fixed" THEN WindowStart(r, at) + Policy[r].period
    ELSE IF InUse(s, r, at) = {} THEN at + Policy[r].period
    ELSE (Min({s.segments[slot].index : slot \in InUse(s, r, at)}) + 1) * Width(r) + Policy[r].period

\* A reply without a decision.
Bare(outcome, r) ==
    [outcome |-> outcome, revision |-> r, cost |-> 0, at |-> 0, remaining |-> 0, reset |-> 0]

\* What a call answers, and what becomes of the histories.
Answer(mode, d) ==
    /\ decision' = d
    /\ writer' = mode
    /\ log' = [t \in Instants |->
                  IF algorithm = "sliding" /\ t <= d.at - Period THEN 0
                  ELSE log[t] + IF /\ d.outcome = "allowed"
                                   /\ t = IF algorithm = "fixed" THEN WindowStart(d.revision, d.at)
                                          ELSE d.at
                                THEN d.cost ELSE 0]

\* A strict call that finds the state corrupt changes nothing.
Refuse(r) ==
    /\ decision' = Bare("corrupt", r)
    /\ UNCHANGED <<state, until, writer, log>>

Init ==
    /\ algorithm \in {"fixed", "sliding"}
    /\ server = 0 /\ state = NoState /\ until = 0 /\ writer = "none"
    /\ decision = Bare("none", CHOOSE r \in SamePeriod : TRUE)
    /\ log = [t \in Instants |-> 0]

------------------------------------------------------------------------------
(* Properties. *)

\* "A rollback cannot reopen an older window" (docs/algorithms.md): an allowed
\* request keeps the cost admitted in its fixed window, by all callers and
\* revisions and through all removals of the state, within the limit of its own
\* revision.
NoOverAdmission ==
    algorithm = "fixed" /\ decision.outcome = "allowed" =>
        log[WindowStart(decision.revision, decision.at)] <= Policy[decision.revision].limit

Logged(from, to) == SumFunctionOnSet(log, Instants \cap (from .. to))

\* Whatever the clocks of callers do, and through every removal of the state, an
\* allowed request keeps the cost that a sliding window admitted over the last
\* period, less the one segment width by which mutateSliding may prune early,
\* within the limit of its revision.
RollingBound ==
    algorithm = "sliding" /\ decision.outcome = "allowed" =>
        LET r == decision.revision
        IN  Logged(decision.at - Period + Width(r), decision.at) <= Policy[r].limit

\* No request is refused that an exact account of its window, fixed or sliding,
\* could still take.
RefusalsJust ==
    decision.outcome = "limited" =>
        decision.cost + (IF algorithm = "fixed" THEN log[WindowStart(decision.revision, decision.at)]
                         ELSE Logged(decision.at - Period + 1, decision.at))
            > Policy[decision.revision].limit

\* Strict callers trust each other: through any rollouts, a strict call takes for
\* corrupt only a changed period or what a released caller wrote last.
StrictTrustsStrict ==
    decision.outcome = "corrupt" =>
        Policy[decision.revision].period # Period \/ writer = "released"
=============================================================================

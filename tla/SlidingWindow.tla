---------------------------- MODULE SlidingWindow ----------------------------
(***************************************************************************)
(* The sliding window counter of memory/store.go for one key: admitLocked  *)
(* with getOrCreate, carryRevision and admitSliding, entered through Admit *)
(* or AdmitStrict.  mutateSliding of postgres/state.go is the same ring.   *)
(***************************************************************************)
EXTENDS WindowPolicy, FiniteSetsExt

VARIABLES entry,     \* the key's entry: type state
          decision,  \* the last decision returned
          log        \* cost admitted at each instant (history)

vars == <<entry, decision, log>>

Slots == 0 .. Segments - 1

Entries == [revision : Revisions, windowPeriod : Nat \ {0}, lastSeen : Instants,
            segments : [Slots -> [index : Int, used : Nat]]]

Empty == [index |-> 0, used |-> 0]

\* Mutants: segments rounded down; a segment dropped one width early.
WidthDown(r) == Policy[r].period \div Segments

OldestEarly(r, at) ==
    LET width == (Policy[r].period + Segments - 1) \div Segments
    IN  (at - Policy[r].period + width) \div width

\* segmentSize, and the numbers of the current and of the newest dropped segment.
Width(r) == (Policy[r].period + Segments - 1) \div Segments

Index(r, at) == at \div Width(r)

Oldest(r, at) == (at - Policy[r].period) \div Width(r)

NewState(r, now) ==
    [revision |-> r, windowPeriod |-> Policy[r].period, lastSeen |-> now,
     segments |-> [s \in Slots |-> Empty]]

GetOrCreate(r) == [entry EXCEPT !.revision = r]

\* Mutant: the segment that just left is kept.
LiveOneMore(segments, r, at) ==
    [s \in Slots |-> IF segments[s].index < Oldest(r, at) THEN Empty ELSE segments[s]]

\* The ring after the segments that left the window are cleared.
Live(segments, r, at) ==
    [s \in Slots |-> IF segments[s].index <= Oldest(r, at) THEN Empty ELSE segments[s]]

Used(segments) == SumFunction([s \in Slots |-> segments[s].used])

\* Mutant: Reset at the end of the current segment.
ResetSegment(segments, r, at) == (Index(r, at) + 1) * Width(r)

\* Reset: when the earliest segment in use is over and a period has passed.
Reset(segments, r, at) ==
    LET inUse == {segments[s].index : s \in {s \in Slots : segments[s].used # 0}}
    IN  Policy[r].period
          + IF inUse = {} THEN at ELSE (Min(inUse) + 1) * Width(r)

AdmitSliding(e, r, cost, at) ==
    LET live == Live(e.segments, r, at)
    IN  ConsumeWindow(Used(live), r, cost, at, Reset(live, r, at))

\* The entry once d is decided: the current slot is claimed, then charged.
Consumed(e, r, d) ==
    LET live  == Live(e.segments, r, d.at)
        slot  == Index(r, d.at) % Segments
        held  == IF live[slot].index = Index(r, d.at) THEN live[slot].used ELSE 0
        taken == IF d.outcome = "allowed" THEN d.cost ELSE 0
    IN  [e EXCEPT !.lastSeen = d.at,
                  !.segments = [live EXCEPT ![slot] = [index |-> Index(r, d.at),
                                                       used |-> held + taken]]]

Recorded(history, d) ==
    [history EXCEPT ![d.at] = @ + (IF d.outcome = "allowed" THEN d.cost ELSE 0)]

------------------------------------------------------------------------------
Init ==
    \E r \in SamePeriod, now \in Instants :
        \E cost \in 1 .. Policy[r].maxCost :
            /\ decision = AdmitSliding(NewState(r, now), r, cost, now)
            /\ entry = Consumed(NewState(r, now), r, decision)
            /\ log = Recorded([t \in Instants |-> 0], decision)

Admit(r, cost, now) ==
    LET got == GetOrCreate(r)
        d   == AdmitSliding(got, r, cost, Later(now, got.lastSeen))
    IN  /\ decision' = d
        /\ entry' = Consumed(got, r, d)
        /\ log' = Recorded(log, d)

AdmitStrict(r, cost, now) ==
    \/ /\ entry.windowPeriod = Policy[r].period
       /\ Admit(r, cost, now)
    \/ /\ entry.windowPeriod # Policy[r].period
       /\ decision' = PeriodMismatch(r)
       /\ UNCHANGED <<entry, log>>

Next ==
    \E r \in Revisions, now \in Instants :
        \E cost \in 1 .. Policy[r].maxCost :
            \/ r \in SamePeriod /\ Admit(r, cost, now)
            \/ AdmitStrict(r, cost, now)

Spec == Init /\ [][Next]_vars

------------------------------------------------------------------------------
(* Properties. *)

\* The entry keeps its period, and every segment in use sits in the slot of its
\* number and is not in the future.
EntryOK ==
    /\ entry \in Entries
    /\ entry.windowPeriod = Period /\ entry.revision \in SamePeriod
    /\ \A s \in Slots : entry.segments[s].used # 0 =>
          /\ entry.segments[s].index % Segments = s
          /\ entry.segments[s].index <= Index(entry.revision, entry.lastSeen)

\* Claiming the slot of a new segment never wipes usage that still counts: a
\* segment in use and inside the window stays, with at least what it had.
LiveKept ==
    [][\A s \in Slots :
         /\ entry.segments[s].used # 0
         /\ entry.segments[s].index > Oldest(entry'.revision, entry'.lastSeen)
         => /\ entry'.segments[s].index = entry.segments[s].index
            /\ entry'.segments[s].used >= entry.segments[s].used]_vars

Logged(from, to) == SumFunctionOnSet(log, Instants \cap (from .. to))

\* What the pruning of admitSliding guarantees, which drops a segment up to one
\* width before its last request is a period old: an allowed request keeps the
\* cost admitted over the last period, less one segment width, within the limit
\* of its revision.
RollingBound ==
    decision.outcome = "allowed" =>
        LET r == decision.revision
        IN  Logged(decision.at - Period + Width(r), decision.at) <= Policy[r].limit

\* A request is only refused when an exact log of the last period would also
\* refuse it.
NoFalseRejection ==
    decision.outcome = "limited" =>
        Logged(decision.at - Period + 1, decision.at) + decision.cost
            > Policy[decision.revision].limit

\* Reset is in the future and useful: if nothing else is admitted, less is in
\* use at Reset than when the request was refused.  A Reset in the past would
\* make AdmitStrict report ErrCorrupt for a request it has charged.
ResetUseful ==
    LET r        == decision.revision
        InUse(t) == Logged((Oldest(r, t) + 1) * Width(r), t)
    IN  /\ decision.outcome # "corrupt" => decision.reset > decision.at
        /\ decision.outcome = "limited" => InUse(decision.reset) < InUse(decision.at)
=============================================================================

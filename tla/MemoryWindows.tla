---------------------------- MODULE MemoryWindows ----------------------------
(***************************************************************************)
(* The entry of a key in memory/store.go with a window of either kind.     *)
(* The algorithm that created the entry stays: admitLocked refuses any     *)
(* other as corrupt, and otherwise dispatches on it.                       *)
(***************************************************************************)
EXTENDS FixedWindow

VARIABLES algorithm,  \* algorithm of the entry
          entry,      \* the entry as admitSliding sees it
          log         \* the history of a sliding window

Sliding == INSTANCE SlidingWindow

allVars == <<window, decision, admitted, algorithm, entry, log>>

\* The part of an entry that its algorithm does not use.
Unused == CHOOSE r \in SamePeriod : TRUE

EntryInit ==
    \/ /\ algorithm = "fixed_window" /\ Init
       /\ entry = Sliding!NewState(Unused, MinTime) /\ log = [t \in Instants |-> 0]
    \/ /\ algorithm = "sliding_window" /\ Sliding!Init
       /\ window = NewState(Unused, MinTime) /\ admitted = [n \in Numbers |-> 0]

Dispatch ==
    \/ algorithm = "fixed_window" /\ Next /\ UNCHANGED <<entry, log>>
    \/ algorithm = "sliding_window" /\ Sliding!Next /\ UNCHANGED <<window, admitted>>

\* A request of another algorithm than that of the entry.
Mismatch ==
    /\ decision' = PeriodMismatch(Unused)
    /\ UNCHANGED <<window, admitted, entry, log>>

EntryNext == (Dispatch \/ Mismatch) /\ UNCHANGED algorithm

EntrySpec == EntryInit /\ [][EntryNext]_allVars

------------------------------------------------------------------------------
(* Properties. *)

\* An allowed request keeps the cost admitted over the last period, less the one
\* segment width by which admitSliding may prune early, within the limit.
RollingBound == Sliding!RollingBound

\* No request is refused that an exact account of its window could still take.
RefusalsJust ==
    IF algorithm = "fixed_window" THEN NoFalseRejection ELSE Sliding!NoFalseRejection

\* Reset is when a fixed window is over, exactly, and when a sliding one has
\* less in use than at the refusal; it is never in the past.
ResetHonest ==
    IF algorithm = "fixed_window" THEN ResetExact ELSE Sliding!ResetUseful

\* Claiming the slot of a new segment never wipes usage that still counts.
LiveKept == Sliding!LiveKept
=============================================================================

----------------------------- MODULE FixedWindow -----------------------------
(***************************************************************************)
(* The fixed window of memory/store.go for one key: admitLocked with       *)
(* getOrCreate, carryRevision and admitFixed, entered through Admit or     *)
(* AdmitStrict.                                                            *)
(***************************************************************************)
EXTENDS WindowPolicy

VARIABLES window,    \* the key's entry: type state
          decision,  \* the last decision returned
          admitted   \* cost admitted per window, by window number (history)

vars == <<window, decision, admitted>>

Windows == [revision : Revisions, windowStart : Int, used : Nat,
            windowPeriod : Nat \ {0}, lastSeen : Instants]

\* floorBoundary
FloorBoundary(t, size) == (t \div size) * size

Numbers == {t \div Period : t \in Instants}

NewState(r, now) ==
    [revision |-> r, windowStart |-> 0, used |-> 0,
     windowPeriod |-> Policy[r].period, lastSeen |-> now]

\* Consumption is kept across revisions.
GetOrCreate(r) == [window EXCEPT !.revision = r]

\* The entry as consumeWindow finds it.
Rolled(w, r, at) ==
    LET start == FloorBoundary(at, Policy[r].period)
    IN  [w EXCEPT !.lastSeen = at, !.windowStart = start,
                  !.used = IF w.windowStart = start THEN @ ELSE 0]

AdmitFixed(w, r, cost, at) ==
    LET start == FloorBoundary(at, Policy[r].period)
    IN  ConsumeWindow(Rolled(w, r, at).used, r, cost, at, start + Policy[r].period)

\* What the entry and the history become when d is the decision.
Consumed(w, r, d) ==
    [Rolled(w, r, d.at) EXCEPT !.used = @ + (IF d.outcome = "allowed" THEN d.cost ELSE 0)]

Recorded(history, d) ==
    [history EXCEPT ![d.at \div Period] = @ + (IF d.outcome = "allowed" THEN d.cost ELSE 0)]

------------------------------------------------------------------------------
\* The first request of the key creates the entry.
Init ==
    \E r \in SamePeriod, now \in Instants :
        \E cost \in 1 .. Policy[r].maxCost :
            /\ decision = AdmitFixed(NewState(r, now), r, cost, now)
            /\ window = Consumed(NewState(r, now), r, decision)
            /\ admitted = Recorded([n \in Numbers |-> 0], decision)

\* Admit: clamps the clock, rolls the window, consumes.
Admit(r, cost, now) ==
    LET got == GetOrCreate(r)
        d   == AdmitFixed(got, r, cost, Later(now, got.lastSeen))
    IN  /\ decision' = d
        /\ window' = Consumed(got, r, d)
        /\ admitted' = Recorded(admitted, d)

\* AdmitStrict: the same, unless the period of the key would change.
AdmitStrict(r, cost, now) ==
    \/ /\ window.windowPeriod = Policy[r].period
       /\ Admit(r, cost, now)
    \/ /\ window.windowPeriod # Policy[r].period
       /\ decision' = PeriodMismatch(r)
       /\ UNCHANGED <<window, admitted>>

Next ==
    \E r \in Revisions, now \in Instants :
        \E cost \in 1 .. Policy[r].maxCost :
            \/ r \in SamePeriod /\ Admit(r, cost, now)
            \/ AdmitStrict(r, cost, now)

Spec == Init /\ [][Next]_vars

------------------------------------------------------------------------------
(* Properties. *)

\* The entry keeps its shape, its window is the one that holds the latest
\* time seen, and the recorded period never changes.
TypeOK ==
    /\ window \in Windows
    /\ window.windowPeriod = Period
    /\ window.windowStart = FloorBoundary(window.lastSeen, Period)
    /\ decision \in Decisions
    /\ admitted \in [Numbers -> Nat]

\* No window is ever over-admitted: an allowed request keeps the cost admitted
\* in its window, over all calls and revisions since the key exists, within
\* the limit of its own revision.  A rollback does not reopen a window and a
\* rollout does not refill one.
NoOverAdmission ==
    decision.outcome = "allowed" =>
        admitted[decision.at \div Period] <= Policy[decision.revision].limit

\* No request is refused that its window could still take.
NoFalseRejection ==
    decision.outcome = "limited" =>
        admitted[decision.at \div Period] + decision.cost > Policy[decision.revision].limit

\* Reset is exact: it is the first instant of a window in which nothing has
\* been admitted, and the limited caller's own window has nothing to offer
\* before it.
ResetExact ==
    decision.outcome # "corrupt" =>
        /\ decision.reset > decision.at
        /\ \A t \in Instants :
             /\ t >= decision.reset => admitted[t \div Period] = 0
             /\ t \in decision.at .. (decision.reset - 1)
                  => t \div Period = decision.at \div Period
=============================================================================

--------------------------- MODULE PostgresWindow ---------------------------
(***************************************************************************)
(* The windows of one policy ID and key in PostgreSQL: mutateStateMode,    *)
(* mutateFixed, mutateSliding and mutateSlidingLegacy of postgres/state.go *)
(* in the transactions of the released admit (postgres/native.go) and of   *)
(* admitStrict (postgres/strict.go), with Cleanup.  The transactions of a  *)
(* key are serialised by its advisory lock, so a call is one action; one   *)
(* that is rolled back changes nothing, and a lost commit is a call whose  *)
(* answer nobody reads.                                                    *)
(***************************************************************************)
EXTENDS RemoteWindow

\* Mutant: the row is kept for half a period.
RowTTLShort(r) == Later(Policy[r].period \div 2, Floor)

\* postgresStateTTL
RowTTL(r) == Later(2 * Policy[r].period, Floor)

\* loadState and loadStateStrict: an expired row is deleted and not used.
Loaded(now) == state.present /\ until > now

\* The state a call works on, created empty if there is none.
CurrentRow(mode, r, now) == IF Loaded(now) THEN state ELSE Empty(mode, r, now)

RowClock(s, now) == Later(now, s.last)

\* The checks of the strict path.  A fixed window is checked before its usage is
\* dropped with the window, a sliding one after.
RowCorrupt(s, r, at) ==
    \/ s.period \notin {0, Policy[r].period}
    \/ algorithm = "sliding" /\ Misplaced(s, r, at)
    \/ /\ s.revision = r /\ ~s.carried
       /\ Policy[r].limit < IF algorithm = "fixed" THEN s.used ELSE Usage(s, r, at)

\* Mutant: the last unit is never given out.
DecideRowShort(s, r, cost, at) ==
    LET left == Later(Policy[r].limit - Usage(s, r, at), 0)
        ok   == cost < left
    IN  [outcome |-> IF ok THEN "allowed" ELSE "limited", revision |-> r, cost |-> cost,
         at |-> at, remaining |-> IF ok THEN left - cost ELSE left, reset |-> Reset(s, r, at)]

DecideRow(s, r, cost, at) ==
    LET left == Later(Policy[r].limit - Usage(s, r, at), 0)
        ok   == cost <= left
    IN  [outcome |-> IF ok THEN "allowed" ELSE "limited", revision |-> r, cost |-> cost,
         at |-> at, remaining |-> IF ok THEN left - cost ELSE left, reset |-> Reset(s, r, at)]

\* The row of a fixed window after a call that charges `charge'.
FixedRow(s, r, at, charge) ==
    [s EXCEPT !.window = WindowStart(r, at), !.used = Usage(s, r, at) + charge]

\* The row of a sliding window: the segment of the instant is claimed even if
\* nothing is charged.
SlidingRow(s, r, at, charge) == [s EXCEPT !.segments = Charged(Live(s, r, at), r, charge, at)]

\* The state a call writes.  encodeState keeps the marks of strict callers only.
WrittenRow(mode, s, r, d) ==
    LET charge == IF d.outcome = "allowed" THEN d.cost ELSE 0
        next   == IF algorithm = "fixed" THEN FixedRow(s, r, d.at, charge)
                  ELSE SlidingRow(s, r, d.at, charge)
    IN  [next EXCEPT !.revision = r, !.last = d.at,
                     !.period = IF mode = "strict" THEN Policy[r].period ELSE @,
                     !.carried = IF mode = "strict" THEN Usage(s, r, d.at) > Policy[r].limit ELSE @]

------------------------------------------------------------------------------
\* A rejection is committed like an admission.
WriteRow(mode, r, cost, now) ==
    LET s == CurrentRow(mode, r, now)
        d == DecideRow(s, r, cost, RowClock(s, now))
    IN  /\ Answer(mode, d)
        /\ state' = WrittenRow(mode, s, r, d)

\* Released callers count the retention from the instant they submitted.
AdmitRow(r, cost, now) ==
    /\ r \in SamePeriod
    /\ WriteRow("released", r, cost, now)
    /\ until' = now + RowTTL(r)
    /\ UNCHANGED <<algorithm, server>>

\* Strict callers find out a changed period where one of them has written.
AdmitRowStrict(r, cost, now) ==
    LET s  == CurrentRow("strict", r, now)
        at == RowClock(s, now)
    IN  /\ r \in SamePeriod \/ (Loaded(now) /\ state.period # 0)
        /\ \/ RowCorrupt(s, r, at) /\ Refuse(r)
           \/ /\ ~RowCorrupt(s, r, at)
              /\ WriteRow("strict", r, cost, now)
              /\ until' = at + RowTTL(r)
        /\ UNCHANGED <<algorithm, server>>

\* cleanupSQL, by the clock of the server.
Cleanup(now) ==
    /\ state.present /\ until <= now
    /\ state' = NoState /\ until' = 0
    /\ UNCHANGED <<algorithm, server, decision, writer, log>>

\* External: time passes.
RowTick ==
    /\ server < MaxTime
    /\ server' = server + 1
    /\ UNCHANGED <<algorithm, state, until, decision, writer, log>>

PostgresNext ==
    \/ \E r \in Revisions, now \in Readings :
         \E cost \in 1 .. Policy[r].maxCost : AdmitRow(r, cost, now) \/ AdmitRowStrict(r, cost, now)
    \/ \E now \in Readings : Cleanup(now)
    \/ RowTick

PostgresSpec == Init /\ [][PostgresNext]_vars
=============================================================================

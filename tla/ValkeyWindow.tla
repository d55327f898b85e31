---------------------------- MODULE ValkeyWindow ----------------------------
(***************************************************************************)
(* The windows of one policy ID and key in Valkey: the fixed_window and    *)
(* sliding_window branches of admitScriptBody of valkey/scripts.go, as the *)
(* released and as the strict script, on a hash that the server removes by *)
(* its own clock.  A script runs alone, so a call is one action.           *)
(***************************************************************************)
EXTENDS RemoteWindow

\* Mutant: the hash is kept for half a period.
HashTTLShort(r) == Later(Policy[r].period \div 2, Floor)

\* ttl
HashTTL(r) == Later(2 * Policy[r].period, Floor)

\* The hash a script finds, created empty if there is none.
FoundHash(mode, r, now) == IF state.present THEN state ELSE Empty(mode, r, now)

HashClock(h, now) == Later(now, h.last)

\* The checks of the strict script.
HashCorrupt(h, r, at) ==
    \/ h.period \notin {0, Policy[r].period}
    \/ algorithm = "sliding" /\ Misplaced(h, r, at)
    \/ /\ h.revision = r /\ ~h.carried
       /\ Policy[r].limit < IF algorithm = "fixed" THEN h.used ELSE Usage(h, r, at)

\* Mutant: only a rollout ever sets the mark, and nothing keeps it.
CarriedOnce(h, r, used) == h.revision # r /\ used > Policy[r].limit

\* The mark the strict script keeps for usage above the limit.
Carried(h, r, used) == used > Policy[r].limit /\ (h.carried \/ h.revision # r)

DecideScript(h, r, cost, at) ==
    LET left == Later(Policy[r].limit - Usage(h, r, at), 0)
        ok   == cost <= left
    IN  [outcome |-> IF ok THEN "allowed" ELSE "limited", revision |-> r, cost |-> cost,
         at |-> at, remaining |-> IF ok THEN left - cost ELSE left, reset |-> Reset(h, r, at)]

\* The fields of a fixed window after a decision.
FixedHash(h, r, d) ==
    [h EXCEPT !.window = WindowStart(r, d.at),
              !.used = Usage(h, r, d.at) + IF d.outcome = "allowed" THEN d.cost ELSE 0]

\* The fields of a sliding window: only an admission writes a segment.
SlidingHash(h, r, d) ==
    [h EXCEPT !.segments = IF d.outcome = "allowed" THEN Charged(Live(h, r, d.at), r, d.cost, d.at)
                           ELSE Live(h, r, d.at)]

------------------------------------------------------------------------------
\* What both scripts do once the checks have passed.
WriteHash(mode, r, cost, now) ==
    LET h    == FoundHash(mode, r, now)
        d    == DecideScript(h, r, cost, HashClock(h, now))
        next == IF algorithm = "fixed" THEN FixedHash(h, r, d) ELSE SlidingHash(h, r, d)
    IN  /\ Answer(mode, d)
        /\ state' = [next EXCEPT
                      !.revision = r, !.last = d.at,
                      !.period = IF mode = "strict" THEN Policy[r].period ELSE @,
                      !.carried = IF mode = "strict" THEN Carried(h, r, Usage(h, r, d.at)) ELSE @]
        /\ until' = server + HashTTL(r)

AdmitScript(r, cost, now) ==
    /\ r \in SamePeriod
    /\ WriteHash("released", r, cost, now)
    /\ UNCHANGED <<algorithm, server>>

\* Strict callers find out a changed period where one of them has written.
AdmitScriptStrict(r, cost, now) ==
    LET h  == FoundHash("strict", r, now)
        at == HashClock(h, now)
    IN  /\ r \in SamePeriod \/ (state.present /\ state.period # 0)
        /\ \/ HashCorrupt(h, r, at) /\ Refuse(r)
           \/ ~HashCorrupt(h, r, at) /\ WriteHash("strict", r, cost, now)
        /\ UNCHANGED <<algorithm, server>>

\* External: the server's clock advances, and it removes the hash in time.
HashTick ==
    /\ server < MaxTime
    /\ server' = server + 1
    /\ \/ /\ state.present /\ server' >= until
          /\ state' = NoState /\ until' = 0
       \/ /\ ~(state.present /\ server' >= until)
          /\ UNCHANGED <<state, until>>
    /\ UNCHANGED <<algorithm, decision, writer, log>>

ValkeyNext ==
    \/ \E r \in Revisions, now \in Readings :
         \E cost \in 1 .. Policy[r].maxCost : AdmitScript(r, cost, now) \/ AdmitScriptStrict(r, cost, now)
    \/ HashTick

ValkeySpec == Init /\ [][ValkeyNext]_vars
=============================================================================

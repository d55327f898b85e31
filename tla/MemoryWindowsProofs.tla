------------------------- MODULE MemoryWindowsProofs -------------------------
(***************************************************************************)
(* The windows of memory/store.go, for every set of revisions, every       *)
(* period and number of segments and whatever clocks the callers submit.   *)
(* A fixed window neither over-admits nor refuses wrongly, and its Reset   *)
(* is exact.  The ring of a sliding window holds what its log holds, for   *)
(* every segment that still counts, which bounds what it admits and        *)
(* justifies what it refuses.                                              *)
(***************************************************************************)
EXTENDS MemoryWindows, Arithmetic

(* The fixed window. *)

\* The counter of the entry is what was admitted in its window, and no later
\* window has been touched.
Exact ==
    /\ admitted[window.lastSeen \div Period] = window.used
    /\ \A n \in Numbers : n > window.lastSeen \div Period => admitted[n] = 0

\* A decision is about the latest instant seen, and reports the end of its window.
Reported ==
    decision.outcome # "corrupt" =>
        /\ decision.at = window.lastSeen
        /\ decision.reset = FloorBoundary(decision.at, Period) + Period

IInv == TypeOK /\ Exact /\ Reported /\ NoOverAdmission /\ NoFalseRejection

\* The invariant, of an entry, a decision and a history.
Good(v, d, a) ==
    /\ v \in Windows /\ v.windowPeriod = Period
    /\ v.windowStart = FloorBoundary(v.lastSeen, Period)
    /\ d \in Decisions /\ a \in [Numbers -> Nat]
    /\ a[v.lastSeen \div Period] = v.used
    /\ \A k \in Numbers : k > v.lastSeen \div Period => a[k] = 0
    /\ d.outcome # "corrupt" =>
         d.at = v.lastSeen /\ d.reset = FloorBoundary(d.at, Period) + Period
    /\ d.outcome = "allowed" => a[d.at \div Period] <= Policy[d.revision].limit
    /\ d.outcome = "limited" => a[d.at \div Period] + d.cost > Policy[d.revision].limit

\* Two instants have the same boundary exactly when they are in one window.
LEMMA SameWindow ==
    ASSUME NEW s \in Int, NEW t \in Int
    PROVE  /\ FloorBoundary(s, Period) \in Int
           /\ FloorBoundary(s, Period) = FloorBoundary(t, Period)
                <=> s \div Period = t \div Period
<1>1. Period \in Nat \ {0} /\ s \div Period \in Int /\ t \div Period \in Int
  BY PeriodAssumption
<1>. QED
  BY <1>1, Cancel DEF FloorBoundary

\* consumeWindow admits exactly what fits beside what is used.
LEMMA ConsumeFacts ==
    ASSUME NEW used \in Nat, NEW r \in Revisions, NEW cost \in Nat \ {0},
           NEW at \in Int, NEW reset \in Int,
           NEW d, d = ConsumeWindow(used, r, cost, at, reset)
    PROVE  /\ d \in Decisions
           /\ d.revision = r /\ d.cost = cost /\ d.at = at /\ d.reset = reset
           /\ \/ d.outcome = "allowed" /\ used + cost <= Policy[r].limit
              \/ d.outcome = "limited" /\ used + cost > Policy[r].limit
<1> DEFINE limit == Policy[r].limit
           remaining == IF used < limit THEN limit - used ELSE 0
<1>1. limit \in Nat \ {0}
  BY PolicyAssumption, Zenon
<1>2. remaining \in Nat /\ (cost <= remaining <=> used + cost <= limit)
  BY <1>1
<1>3. d = [outcome |-> IF cost <= remaining THEN "allowed" ELSE "limited",
           revision |-> r, cost |-> cost, at |-> at,
           remaining |-> IF cost <= remaining THEN remaining - cost ELSE remaining,
           reset |-> reset,
           retryAfter |-> IF cost <= remaining \/ reset < at THEN 0 ELSE reset - at]
  BY Zenon DEF ConsumeWindow
<1> HIDE DEF remaining
<1>4. CASE cost <= remaining
  <2>1. d = [outcome |-> "allowed", revision |-> r, cost |-> cost, at |-> at,
             remaining |-> remaining - cost, reset |-> reset, retryAfter |-> 0]
    BY <1>3, <1>4, Zenon
  <2>. QED
    BY <1>2, <1>4, <2>1 DEF Decisions
<1>5. CASE ~(cost <= remaining)
  <2> DEFINE retry == IF reset < at THEN 0 ELSE reset - at
  <2>1. retry \in Nat
    OBVIOUS
  <2>2. d = [outcome |-> "limited", revision |-> r, cost |-> cost, at |-> at,
             remaining |-> remaining, reset |-> reset, retryAfter |-> retry]
    BY <1>3, <1>5, Zenon
  <2> HIDE DEF retry
  <2>. QED
    BY <1>1, <1>2, <1>5, <2>1, <2>2 DEF Decisions
<1>. QED
  BY <1>4, <1>5, Zenon

\* Applying a decision to an entry whose counter is exact keeps it exact, and
\* the decision is right about the window.
LEMMA ApplyFacts ==
    ASSUME NEW w \in Windows, w.windowPeriod = Period,
           NEW r \in SamePeriod, NEW cost \in 1 .. Policy[r].maxCost,
           NEW at \in Instants, w.revision = r,
           NEW history \in [Numbers -> Nat],
           Rolled(w, r, at).used = history[at \div Period],
           \A n \in Numbers : n > at \div Period => history[n] = 0,
           NEW d, d = AdmitFixed(w, r, cost, at),
           NEW v, v = Consumed(w, r, d),
           NEW a, a = Recorded(history, d)
    PROVE  Good(v, d, a)
<1> DEFINE rolled == Rolled(w, r, at)
           n == at \div Period
           taken == IF d.outcome = "allowed" THEN cost ELSE 0
<1>1. r \in Revisions /\ Policy[r].period = Period /\ cost \in Nat \ {0}
  BY PolicyAssumption DEF SamePeriod
<1>2. at \in Int /\ n \in Int /\ n \in Numbers /\ FloorBoundary(at, Period) \in Int
  <2>1. at \in Int
    BY DEF Instants
  <2>2. n \in Int
    BY <2>1, PeriodAssumption
  <2>3. n \in Numbers
    BY Zenon DEF Numbers
  <2>4. FloorBoundary(at, Period) \in Int
    BY <2>1, SameWindow, Zenon
  <2>. QED
    BY <2>1, <2>2, <2>3, <2>4, Zenon
<1>3. /\ rolled \in Windows /\ rolled.windowPeriod = Period /\ rolled.lastSeen = at
      /\ rolled.windowStart = FloorBoundary(at, Period) /\ rolled.revision = r
  BY <1>1, <1>2, Zenon DEF Rolled, Windows
<1>4. rolled.used \in Nat /\ rolled.used = history[n]
  BY <1>3, Zenon DEF Windows
<1> HIDE DEF rolled
<1>5. /\ d \in Decisions
      /\ d.revision = r /\ d.cost = cost /\ d.at = at
      /\ d.reset = FloorBoundary(at, Period) + Period
      /\ \/ d.outcome = "allowed" /\ rolled.used + cost <= Policy[r].limit
         \/ d.outcome = "limited" /\ rolled.used + cost > Policy[r].limit
  <2> DEFINE reset == FloorBoundary(at, Period) + Period
  <2>1. reset \in Int
    BY <1>2, PeriodAssumption
  <2>2. d = ConsumeWindow(rolled.used, r, cost, at, reset)
    BY <1>1, Zenon DEF AdmitFixed, rolled
  <2>3. reset = FloorBoundary(at, Period) + Period
    OBVIOUS
  <2> HIDE DEF reset
  <2>. QED
    BY <1>1, <1>2, <1>4, <2>1, <2>2, <2>3, ConsumeFacts
<1>6. taken \in Nat
  BY <1>1, Zenon
<1> HIDE DEF n
<1>7. /\ v \in Windows /\ v.windowPeriod = Period /\ v.lastSeen = at
      /\ v.windowStart = FloorBoundary(at, Period) /\ v.revision = r
      /\ v.used = rolled.used + taken
  <2>1. v = [rolled EXCEPT !.used = rolled.used + taken]
    BY <1>3, <1>5, Zenon DEF Consumed, rolled, Windows
  <2> HIDE DEF taken
  <2>. QED
    BY <1>3, <1>4, <1>6, <2>1 DEF Windows
<1>8. a = [history EXCEPT ![n] = history[n] + taken]
  BY <1>2, <1>5, Zenon DEF Recorded, n
<1>9. a \in [Numbers -> Nat] /\ a[n] = history[n] + taken
  <2> HIDE DEF taken
  <2>. QED
    BY <1>2, <1>4, <1>6, <1>8
<1>10. \A k \in Numbers : k > n => a[k] = 0
  <2>1. \A k \in Numbers : k > n => history[k] = 0
    BY Zenon DEF n
  <2>2. \A k \in Numbers : k > n => k # n
    BY <1>2
  <2> HIDE DEF taken
  <2>. QED
    BY <2>1, <2>2, <1>8, Zenon
<1>11. /\ d.outcome = "allowed" => a[n] <= Policy[r].limit
       /\ d.outcome = "limited" => a[n] + cost > Policy[r].limit
       /\ d.outcome # "corrupt"
  BY <1>4, <1>5, <1>9
<1>. QED
  BY <1>4, <1>5, <1>7, <1>9, <1>10, <1>11, Zenon DEF n, Good

\* IInv is Good, of the current state.
LEMMA InvIsGood == IInv <=> Good(window, decision, admitted)
BY Zenon DEF IInv, TypeOK, Exact, Reported, NoOverAdmission, NoFalseRejection, Good

------------------------------------------------------------------------------
\* The call that creates the key establishes the invariant.
LEMMA InitInv == Init => IInv
<1>. SUFFICES ASSUME Init PROVE Good(window, decision, admitted)
  BY InvIsGood, Zenon
<1>1. PICK r \in SamePeriod, now \in Instants : \E cost \in 1 .. Policy[r].maxCost :
            /\ decision = AdmitFixed(NewState(r, now), r, cost, now)
            /\ window = Consumed(NewState(r, now), r, decision)
            /\ admitted = Recorded([n \in Numbers |-> 0], decision)
  BY Zenon DEF Init
<1>2. PICK cost \in 1 .. Policy[r].maxCost :
            /\ decision = AdmitFixed(NewState(r, now), r, cost, now)
            /\ window = Consumed(NewState(r, now), r, decision)
            /\ admitted = Recorded([n \in Numbers |-> 0], decision)
  BY <1>1, Zenon
<1> DEFINE w == NewState(r, now)
           history == [n \in Numbers |-> 0]
<1>3. r \in Revisions /\ Policy[r].period = Period
  BY Zenon DEF SamePeriod
<1>4. /\ w \in Windows /\ w.windowPeriod = Period /\ w.revision = r /\ w.used = 0
      /\ history \in [Numbers -> Nat]
      /\ \A n \in Numbers : n > now \div Period => history[n] = 0
  BY <1>3, PeriodAssumption DEF NewState, Windows
<1>5. history[now \div Period] = 0
  BY Zenon DEF Numbers
<1> HIDE DEF w, history
<1>6. Rolled(w, r, now).used = 0
  BY <1>4, Zenon DEF Rolled, Windows
<1>. QED
  BY <1>2, <1>4, <1>5, <1>6, ApplyFacts, Zenon DEF w, history

\* A call of a revision with the period of the key preserves it.
LEMMA AdmitInv ==
    ASSUME IInv, NEW r \in SamePeriod, NEW now \in Instants,
           NEW cost \in 1 .. Policy[r].maxCost, Admit(r, cost, now)
    PROVE  IInv'
<1> DEFINE w == GetOrCreate(r)
           at == Later(now, w.lastSeen)
<1>1. Good(window, decision, admitted)
  BY InvIsGood, Zenon
<1>2. r \in Revisions /\ Policy[r].period = Period /\ window.lastSeen \in Instants
  BY <1>1, Zenon DEF SamePeriod, Good, Windows
<1>3. /\ w \in Windows /\ w.windowPeriod = Period /\ w.revision = r
      /\ w.used = window.used /\ w.windowStart = window.windowStart
      /\ w.lastSeen = window.lastSeen
  BY <1>1, <1>2, Zenon DEF GetOrCreate, Good, Windows
<1>4. /\ decision' = AdmitFixed(w, r, cost, at)
      /\ window' = Consumed(w, r, decision')
      /\ admitted' = Recorded(admitted, decision')
  BY Zenon DEF Admit
<1> HIDE DEF w
<1>5. at \in Instants /\ window.lastSeen <= at /\ at \in Int /\ window.lastSeen \in Int
  BY <1>2, <1>3, TimeAssumption DEF Later, Instants
<1> HIDE DEF at
<1>6. window.lastSeen \div Period <= at \div Period
  BY <1>5, PeriodAssumption, DivMonotone, Zenon
<1>7. window.lastSeen \div Period \in Int /\ at \div Period \in Int
      /\ at \div Period \in Numbers /\ Numbers \subseteq Int
  BY <1>5, PeriodAssumption DEF Numbers, Instants
<1>8. \A n \in Numbers : n > at \div Period => admitted[n] = 0
  <2>1. \A k \in Numbers : k > window.lastSeen \div Period => admitted[k] = 0
    BY <1>1, Zenon DEF Good
  <2>2. \A k \in Int : k > at \div Period => k > window.lastSeen \div Period
    BY <1>6, <1>7
  <2>. QED
    BY <1>7, <2>1, <2>2, Zenon
<1>9. Rolled(w, r, at).used = admitted[at \div Period]
  <2>1. Rolled(w, r, at).used
          = IF w.windowStart = FloorBoundary(at, Period) THEN w.used ELSE 0
    BY <1>2, <1>3, Zenon DEF Rolled, Windows
  <2>2. w.windowStart = FloorBoundary(at, Period)
          <=> window.lastSeen \div Period = at \div Period
    BY <1>1, <1>3, <1>5, SameWindow DEF Good
  <2>. QED
    BY <1>1, <1>3, <1>6, <1>7, <2>1, <2>2 DEF Good
<1>10. Good(window', decision', admitted')
  <2>1. admitted \in [Numbers -> Nat]
    BY <1>1, Zenon DEF Good
  <2>. QED
    BY <1>3, <1>4, <1>5, <1>8, <1>9, <2>1, ApplyFacts, Zenon
<1>. QED
  BY <1>10, Zenon DEF Good, IInv, TypeOK, Exact, Reported, NoOverAdmission, NoFalseRejection

\* IInv is inductive.
LEMMA NextInv == IInv /\ [Next]_vars => IInv'
<1>. SUFFICES ASSUME IInv, [Next]_vars PROVE IInv'
  OBVIOUS
<1>1. ASSUME NEW r \in Revisions, NEW now \in Instants,
             NEW cost \in 1 .. Policy[r].maxCost,
             \/ r \in SamePeriod /\ Admit(r, cost, now)
             \/ AdmitStrict(r, cost, now)
      PROVE  IInv'
  <2>1. CASE r \in SamePeriod /\ Admit(r, cost, now)
    BY <2>1, AdmitInv, Zenon
  <2>2. CASE window.windowPeriod = Policy[r].period /\ Admit(r, cost, now)
    <3>1. r \in SamePeriod
      BY <2>2, Zenon DEF SamePeriod, IInv, TypeOK
    <3>. QED
      BY <2>2, <3>1, AdmitInv, Zenon
  <2>3. CASE decision' = PeriodMismatch(r) /\ UNCHANGED <<window, admitted>>
    <3>1. PeriodMismatch(r) \in Decisions /\ PeriodMismatch(r).outcome = "corrupt"
      BY DEF PeriodMismatch, Decisions
    <3>. QED
      BY <2>3, <3>1, Zenon DEF IInv, TypeOK, Exact, Reported, NoOverAdmission, NoFalseRejection
  <2>. QED
    BY <1>1, <2>1, <2>2, <2>3, Zenon DEF AdmitStrict
<1>2. CASE UNCHANGED vars
  BY <1>2, Zenon DEF vars, IInv, TypeOK, Exact, Reported, NoOverAdmission, NoFalseRejection
<1>. QED
  BY <1>1, <1>2, Zenon DEF Next

\* The entry keeps its shape, its period and its window.
THEOREM TypeCorrect == Spec => []TypeOK
<1>1. IInv => TypeOK
  BY Zenon DEF IInv
<1>. QED
  BY <1>1, InitInv, NextInv, PTL DEF Spec

\* No window is over-admitted by any sequence of calls, clocks and revisions.
THEOREM NeverOverAdmits == Spec => []NoOverAdmission
<1>1. IInv => NoOverAdmission
  BY Zenon DEF IInv
<1>. QED
  BY <1>1, InitInv, NextInv, PTL DEF Spec

\* No request is refused that its window could take.
THEOREM NeverRefusesWrongly == Spec => []NoFalseRejection
<1>1. IInv => NoFalseRejection
  BY Zenon DEF IInv
<1>. QED
  BY <1>1, InitInv, NextInv, PTL DEF Spec

\* Reset is the first instant of a window in which nothing has been admitted,
\* and every instant before it is in the window of the decision.
LEMMA ResetFromInv == IInv => ResetExact
<1> SUFFICES ASSUME IInv, decision.outcome # "corrupt"
             PROVE  /\ decision.reset > decision.at
                    /\ \A t \in Instants :
                         /\ t >= decision.reset => admitted[t \div Period] = 0
                         /\ t \in decision.at .. (decision.reset - 1)
                              => t \div Period = decision.at \div Period
  BY Zenon DEF ResetExact
<1> DEFINE at == window.lastSeen
           n == at \div Period
<1>1. at \in Int /\ n \in Int /\ Period \in Nat \ {0} /\ n * Period <= at /\ at < n * Period + Period
  <2>1. at \in Int /\ Period \in Nat \ {0}
    BY PeriodAssumption, TimeAssumption DEF IInv, TypeOK, Windows, Instants
  <2> HIDE DEF at
  <2>. QED
    BY <2>1, FloorDiv, FloorBounds, Zenon
<1>2. decision.at = at /\ decision.reset = n * Period + Period
  BY Zenon DEF IInv, Reported, FloorBoundary
<1> HIDE DEF at, n
<1>3. ASSUME NEW t \in Instants
      PROVE  /\ t >= decision.reset => admitted[t \div Period] = 0
             /\ t \in decision.at .. (decision.reset - 1) => t \div Period = n
  <2>1. t \in Int /\ t \div Period \in Numbers /\ t \div Period \in Int
    BY <1>1, FloorDiv DEF Numbers, Instants
  <2>2. ASSUME t >= decision.reset PROVE admitted[t \div Period] = 0
    <3>1. (n + 1) * Period = n * Period + Period /\ n * Period \in Int
      BY <1>1
    <3>2. (n + 1) * Period <= t
      BY <1>2, <2>2, <3>1, Zenon
    <3>3. t \div Period >= n + 1
      <4>1. ((n + 1) * Period) \div Period = n + 1
        BY <1>1, <3>1, FloorUnique
      <4>. QED
        BY <1>1, <2>1, <3>1, <3>2, <4>1, DivMonotone
    <3>. QED
      BY <1>1, <2>1, <3>3 DEF IInv, Exact, n, at
  <2>3. ASSUME t \in decision.at .. (decision.reset - 1) PROVE t \div Period = n
    <3>1. n * Period <= t /\ t < n * Period + Period
      BY <1>1, <1>2, <2>1, <2>3
    <3>. QED
      BY <1>1, <2>1, <3>1, FloorUnique, Zenon
  <2>. QED
    BY <2>2, <2>3, Zenon
<1>. QED
  BY <1>1, <1>2, <1>3, Zenon DEF n

\* The same, in every state.
THEOREM ResetIsExact == Spec => []ResetExact
BY ResetFromInv, InitInv, NextInv, PTL DEF Spec

------------------------------------------------------------------------------
(* The sliding window. *)

\* Segments widths, rounded up, cover the period.
LEMMA WidthFacts ==
    ASSUME NEW r \in Sliding!SamePeriod
    PROVE  /\ r \in Revisions /\ Policy[r].period = Period
           /\ Sliding!Width(r) \in Nat \ {0}
           /\ Period <= Sliding!Width(r) * Segments
<1> DEFINE w == (Period + Segments - 1) \div Segments
           m == (Period + Segments - 1) % Segments
<1>1. r \in Revisions /\ Policy[r].period = Period
  BY Zenon DEF Sliding!SamePeriod
<1>2. Period \in Nat \ {0} /\ Segments \in Nat \ {0} /\ Period + Segments - 1 \in Nat
  BY PeriodAssumption, SegmentsAssumption
<1>3. w \in Nat /\ m \in Nat /\ m < Segments /\ Period + Segments - 1 = w * Segments + m
  BY <1>2, DivMod, Zenon
<1>4. Sliding!Width(r) = w
  BY <1>1, Zenon DEF Sliding!Width
<1> HIDE DEF w, m
<1> DEFINE prod == w * Segments
<1>5. prod \in Nat /\ Period + Segments - 1 = prod + m
  BY <1>2, <1>3
<1>6. w = 0 => prod = 0
  BY <1>2
<1> HIDE DEF prod
<1>7. Period <= prod /\ w # 0
  BY <1>2, <1>3, <1>5, <1>6
<1>. QED
  BY <1>1, <1>3, <1>4, <1>7, Zenon DEF prod

\* From the newest dropped segment to the current one there are at most Segments.
LEMMA Span ==
    ASSUME NEW r \in Sliding!SamePeriod, NEW at \in Int
    PROVE  /\ Sliding!Index(r, at) \in Int /\ Sliding!Oldest(r, at) \in Int
           /\ Sliding!Index(r, at) <= Sliding!Oldest(r, at) + Segments
<1> DEFINE w == Sliding!Width(r)
           q == at \div w
           o == (at - Period) \div w
<1>1. w \in Nat \ {0} /\ Period \in Nat \ {0} /\ Segments \in Nat \ {0} /\ Period <= w * Segments
  BY WidthFacts, PeriodAssumption, SegmentsAssumption, Zenon
<1>2. Sliding!Index(r, at) = q /\ Sliding!Oldest(r, at) = o
  BY WidthFacts, Zenon DEF Sliding!Index, Sliding!Oldest
<1> HIDE DEF w
<1>3. q \in Int /\ o \in Int /\ q * w <= at /\ at - Period < o * w + w
  BY <1>1, FloorDiv, FloorBounds
<1> HIDE DEF q, o
<1>4. CASE q >= o + Segments + 1
  <2>1. (o + Segments + 1) * w <= q * w
    BY <1>1, <1>3, <1>4, Monotone
  <2>2. (o + Segments + 1) * w = o * w + Segments * w + w
    BY <1>1, <1>3, Distribute
  <2> DEFINE ow == o * w
             qw == q * w
             sw == w * Segments
  <2>3. ow \in Int /\ qw \in Int /\ sw \in Int /\ Segments * w = sw
    BY <1>1, <1>3
  <2>4. ow + sw + w <= qw /\ qw <= at /\ at - Period < ow + w /\ Period <= sw
    BY <1>1, <1>3, <2>1, <2>2, <2>3, Zenon
  <2> HIDE DEF ow, qw, sw
  <2>. QED
    BY <1>1, <2>3, <2>4
<1>. QED
  BY <1>1, <1>2, <1>3, <1>4

\* Two numbers of one slot that are less than Segments apart are the same.
LEMMA SlotUnique ==
    ASSUME NEW n \in Nat \ {0}, NEW i \in Int, NEW q \in Int,
           i <= q, q < i + n, i % n = q % n
    PROVE  i = q
<1> DEFINE a == i \div n
           b == q \div n
           m == q % n
<1>1. a \in Int /\ b \in Int /\ m \in Int /\ i = a * n + m /\ q = b * n + m
  BY FloorDiv
<1> HIDE DEF a, b, m
<1> DEFINE an == a * n
           bn == b * n
<1>2. an \in Int /\ bn \in Int /\ an <= bn /\ bn < an + n
  BY <1>1
<1>3. ASSUME b >= a + 1 PROVE FALSE
  <2>1. (a + 1) * n <= bn /\ (a + 1) * n = an + n
    BY <1>1, <1>3, Monotone, Distribute
  <2> HIDE DEF an, bn
  <2>. QED
    BY <1>2, <2>1
<1>4. ASSUME a >= b + 1 PROVE FALSE
  <2>1. (b + 1) * n <= an /\ (b + 1) * n = bn + n
    BY <1>1, <1>4, Monotone, Distribute
  <2> HIDE DEF an, bn
  <2>. QED
    BY <1>2, <2>1
<1>5. a = b
  BY <1>1, <1>3, <1>4
<1>. QED
  BY <1>1, <1>5, Zenon

------------------------------------------------------------------------------
\* The shape of an entry and the places of its segments.
Aligned(e) ==
    /\ e \in Sliding!Entries
    /\ e.windowPeriod = Period /\ e.revision \in Sliding!SamePeriod
    /\ \A s \in Sliding!Slots : e.segments[s].used # 0 =>
          /\ e.segments[s].index % Segments = s
          /\ e.segments[s].index <= Sliding!Index(e.revision, e.lastSeen)

\* From e to v, usage inside the window of v stays.
Kept(e, v) ==
    \A s \in Sliding!Slots :
       /\ e.segments[s].used # 0
       /\ e.segments[s].index > Sliding!Oldest(v.revision, v.lastSeen)
       => /\ v.segments[s].index = e.segments[s].index
          /\ v.segments[s].used >= e.segments[s].used

\* Revisions with one period have one width, so a rollout moves no segment.
LEMMA GetOrCreateFacts ==
    ASSUME NEW e, Aligned(e), NEW r \in Sliding!SamePeriod
    PROVE  Aligned([e EXCEPT !.revision = r])
<1>1. \A t : Sliding!Index(r, t) = Sliding!Index(e.revision, t)
  BY Zenon DEF Aligned, Sliding!Index, Sliding!Width, Sliding!SamePeriod
<1>2. r \in Revisions
  BY Zenon DEF Sliding!SamePeriod
<1>. QED
  BY <1>1, <1>2, Zenon DEF Aligned, Sliding!Entries

\* Charging the current segment keeps the ring aligned and its live usage.
LEMMA ConsumedFacts ==
    ASSUME NEW e, Aligned(e), NEW r \in Sliding!SamePeriod, e.revision = r,
           NEW d, d.at \in Sliding!Instants, e.lastSeen <= d.at, d.cost \in Nat,
           NEW v, v = Sliding!Consumed(e, r, d)
    PROVE  Aligned(v) /\ Kept(e, v) /\ v.revision = r /\ v.lastSeen = d.at
<1> DEFINE at    == d.at
           index == Sliding!Index(r, at)
           old   == Sliding!Oldest(r, at)
           live  == Sliding!Live(e.segments, r, at)
           slot  == index % Segments
           held  == IF live[slot].index = index THEN live[slot].used ELSE 0
           taken == IF d.outcome = "allowed" THEN d.cost ELSE 0
           ring  == [live EXCEPT ![slot] = [index |-> index, used |-> held + taken]]
<1>1. at \in Int /\ e.lastSeen \in Int
  BY TimeAssumption DEF Aligned, Sliding!Entries, Sliding!Instants
<1>2. index \in Int /\ old \in Int /\ index <= old + Segments /\ Segments \in Nat \ {0}
  BY <1>1, Span, SegmentsAssumption, Zenon
<1>3. Sliding!Index(r, e.lastSeen) \in Int /\ Sliding!Index(r, e.lastSeen) <= index
  BY <1>1, WidthFacts, Span, DivMonotone, Zenon DEF Sliding!Index
<1>4. taken \in Nat
  OBVIOUS
<1>5. e.segments \in [Sliding!Slots -> [index : Int, used : Nat]]
  BY Zenon DEF Aligned, Sliding!Entries
<1>6. live \in [Sliding!Slots -> [index : Int, used : Nat]]
      /\ \A s \in Sliding!Slots : live[s] = IF e.segments[s].index <= old THEN Sliding!Empty ELSE e.segments[s]
  BY <1>5 DEF Sliding!Live, Sliding!Empty
<1> HIDE DEF live, taken, index, old
<1>7. slot \in Sliding!Slots
  BY <1>2, FloorDiv, Zenon DEF Sliding!Slots
<1>8. held \in Nat
  BY <1>6, <1>7, Zenon
<1>9. v = [e EXCEPT !.lastSeen = at, !.segments = ring]
  BY Zenon DEF Sliding!Consumed, live, taken, index
<1>10. /\ ring \in [Sliding!Slots -> [index : Int, used : Nat]]
       /\ ring[slot].index = index /\ ring[slot].used = held + taken
       /\ \A s \in Sliding!Slots : s # slot => ring[s] = live[s]
  <2> HIDE DEF held, slot
  <2>. QED
    BY <1>2, <1>4, <1>6, <1>7, <1>8
<1> HIDE DEF ring, slot
<1>11. /\ v \in Sliding!Entries /\ v.windowPeriod = Period /\ v.revision = r
       /\ v.lastSeen = at /\ v.segments = ring
  BY <1>9, <1>10, Zenon DEF Aligned, Sliding!Entries
<1>12. ASSUME NEW s \in Sliding!Slots, live[s].used # 0
       PROVE  /\ live[s] = e.segments[s] /\ e.segments[s].used # 0
              /\ e.segments[s].index % Segments = s
              /\ e.segments[s].index \in Int
              /\ e.segments[s].index <= index
              /\ e.segments[s].index > old
  <2>1. live[s] = e.segments[s] /\ ~(e.segments[s].index <= old)
    BY <1>6, <1>12 DEF Sliding!Empty
  <2>2. e.segments[s].index <= Sliding!Index(r, e.lastSeen) /\ e.segments[s].index \in Int
    BY <1>5, <1>12, <2>1, Zenon DEF Aligned
  <2>. QED
    BY <1>2, <1>3, <1>12, <2>1, <2>2 DEF Aligned
<1>13. Aligned(v)
  <2>1. ASSUME NEW s \in Sliding!Slots, ring[s].used # 0
        PROVE  ring[s].index % Segments = s /\ ring[s].index <= index
    <3>1. CASE s = slot
      BY <1>2, <1>10, <3>1 DEF slot
    <3>2. CASE s # slot
      BY <1>10, <1>12, <2>1, <3>2, Zenon
    <3>. QED
      BY <3>1, <3>2, Zenon
  <2>. QED
    BY <1>11, <2>1, Zenon DEF Aligned, index
<1>14. Kept(e, v)
  <2>1. ASSUME NEW s \in Sliding!Slots, e.segments[s].used # 0, e.segments[s].index > old
        PROVE  ring[s].index = e.segments[s].index /\ ring[s].used >= e.segments[s].used
    <3>1. live[s] = e.segments[s] /\ e.segments[s].used \in Nat /\ e.segments[s].index \in Int
      BY <1>2, <1>5, <1>6, <2>1
    <3>2. /\ e.segments[s].index % Segments = s
          /\ e.segments[s].index <= index
      BY <1>12, <2>1, <3>1, Zenon
    <3>3. CASE s = slot
      <4> DEFINE i == e.segments[s].index
      <4>1. i \in Int /\ i <= index /\ index < i + Segments /\ i % Segments = index % Segments
        BY <1>2, <2>1, <3>1, <3>2, <3>3 DEF slot
      <4> HIDE DEF i
      <4>2. i = index
        BY <1>2, <4>1, SlotUnique, Zenon
      <4>3. held = e.segments[s].used
        BY <3>1, <3>3, <4>2, Zenon DEF i
      <4> HIDE DEF held
      <4>. QED
        BY <1>4, <1>10, <3>1, <3>3, <4>2, <4>3 DEF i
    <3>4. CASE s # slot
      BY <1>10, <3>1, <3>4
    <3>. QED
      BY <3>3, <3>4, Zenon
  <2>. QED
    BY <1>11, <2>1, Zenon DEF Kept, old
<1>. QED
  BY <1>11, <1>13, <1>14, Zenon

\* A decision of AdmitSliding is about the request.
LEMMA DecisionFacts ==
    ASSUME NEW e, NEW r, NEW cost, NEW at, NEW d, d = Sliding!AdmitSliding(e, r, cost, at)
    PROVE  d.at = at /\ d.cost = cost
BY Zenon DEF Sliding!AdmitSliding, Sliding!ConsumeWindow

------------------------------------------------------------------------------
\* The width of a segment and the numbers of segments, which all revisions with
\* the period of the key share.
Breadth == (Period + Segments - 1) \div Segments

Number(t) == t \div Breadth

Gone(t) == (t - Period) \div Breadth

\* The revisions of a key agree on the numbers.
LEMMA Shared ==
    ASSUME NEW r \in Sliding!SamePeriod
    PROVE  /\ Sliding!Width(r) = Breadth
           /\ \A t : Sliding!Index(r, t) = Number(t) /\ Sliding!Oldest(r, t) = Gone(t)
BY Zenon DEF Sliding!SamePeriod, Sliding!Width, Sliding!Index, Sliding!Oldest, Breadth, Number, Gone

\* A segment is not wider than the period.
LEMMA BreadthFacts == Breadth \in Nat \ {0} /\ Breadth <= Period
<1>1. Period \in Nat \ {0} /\ Segments \in Nat \ {0}
  BY PeriodAssumption, SegmentsAssumption, Zenon
<1>2. PICK r \in Revisions : Policy[r].period = Period
  BY PeriodAssumption, Zenon
<1>3. r \in Sliding!SamePeriod
  BY <1>2, Zenon DEF Sliding!SamePeriod
<1>4. Breadth \in Nat \ {0}
  BY <1>3, WidthFacts, Shared, Zenon
<1>5. Breadth <= Period
  <2>1. Breadth * Segments <= Period + Segments - 1
    BY <1>1, FloorBounds DEF Breadth
  <2>2. CASE Breadth >= Period + 1
    <3>1. (Period + 1) * Segments <= Breadth * Segments /\ (Period + 1) * Segments = Period * Segments + Segments
      BY <1>1, <1>4, <2>2, Monotone, Distribute
    <3>2. Period * 1 <= Period * Segments /\ 1 * Period <= Segments * Period
      BY <1>1, Monotone
    <3> DEFINE a == Period * Segments
               b == Breadth * Segments
    <3>3. a \in Int /\ b \in Int /\ Period <= a /\ a + Segments <= b /\ b <= Period + Segments - 1
      BY <1>1, <1>4, <2>1, <3>1, <3>2
    <3>. HIDE DEF a, b
    <3>. QED
      BY <1>1, <3>3
  <2>. QED
    BY <1>1, <1>4, <2>2
<1>. QED
  BY <1>4, <1>5, Zenon

\* The current segment is in the window, which spans at most Segments numbers.
LEMMA NumberFacts ==
    ASSUME NEW t \in Int
    PROVE  /\ Number(t) \in Int /\ Gone(t) \in Int
           /\ Gone(t) < Number(t) /\ Number(t) <= Gone(t) + Segments
           /\ Number(t) * Breadth <= t /\ t < Number(t) * Breadth + Breadth
           /\ Gone(t) * Breadth <= t - Period /\ t - Period < Gone(t) * Breadth + Breadth
           /\ \A u \in Int : t <= u => Number(t) <= Number(u) /\ Gone(t) <= Gone(u)
<1>1. Period \in Nat \ {0} /\ Segments \in Nat \ {0} /\ Breadth \in Nat \ {0} /\ Breadth <= Period
  BY PeriodAssumption, SegmentsAssumption, BreadthFacts, Zenon
<1>2. PICK r \in Revisions : Policy[r].period = Period
  BY PeriodAssumption, Zenon
<1>3. r \in Sliding!SamePeriod
  BY <1>2, Zenon DEF Sliding!SamePeriod
<1>4. Number(t) \in Int /\ Gone(t) \in Int /\ Number(t) <= Gone(t) + Segments
  BY <1>3, Span, Shared, Zenon
<1>5. /\ Number(t) * Breadth <= t /\ t < Number(t) * Breadth + Breadth
      /\ Gone(t) * Breadth <= t - Period /\ t - Period < Gone(t) * Breadth + Breadth
  BY <1>1, FloorBounds DEF Number, Gone
<1>6. \A u \in Int : t <= u => Number(t) <= Number(u) /\ Gone(t) <= Gone(u)
  BY <1>1, DivMonotone DEF Number, Gone
<1>7. Gone(t) < Number(t)
  <2>1. SUFFICES ASSUME Number(t) <= Gone(t) PROVE FALSE
    BY <1>4
  <2>2. Number(t) * Breadth <= Gone(t) * Breadth
    BY <1>1, <1>4, <2>1, Monotone, Zenon
  <2> DEFINE n == Number(t) * Breadth
             g == Gone(t) * Breadth
  <2>3. n \in Int /\ g \in Int /\ n <= g /\ t < n + Breadth /\ g <= t - Period
    BY <1>1, <1>4, <1>5, <2>2
  <2>. HIDE DEF n, g
  <2>. QED
    BY <1>1, <2>3
<1>. QED
  BY <1>4, <1>5, <1>6, <1>7, Zenon

\* Where an instant is relative to the first instant of a segment.
LEMMA NumberReaches ==
    ASSUME NEW t \in Int, NEW n \in Int
    PROVE  Number(t) >= n <=> t >= n * Breadth
<1>1. Breadth \in Nat \ {0} /\ n * Breadth \in Int
  BY BreadthFacts
<1>2. Number(n * Breadth) = n
  BY <1>1, FloorUnique DEF Number
<1>3. Number(t) \in Int /\ t < Number(t) * Breadth + Breadth
  BY NumberFacts, Zenon
<1>4. ASSUME t >= n * Breadth PROVE Number(t) >= n
  BY <1>1, <1>2, <1>3, <1>4, NumberFacts, Zenon
<1>5. ASSUME Number(t) >= n PROVE t >= n * Breadth
  <2>1. n * Breadth <= Number(t) * Breadth
    BY <1>1, <1>3, <1>5, Monotone, Zenon
  <2>2. Number(t) * Breadth <= t
    BY NumberFacts, Zenon
  <2>3. Number(t) * Breadth \in Int
    BY <1>1, <1>3
  <2>. QED
    BY <1>1, <2>1, <2>2, <2>3
<1>. QED
  BY <1>4, <1>5, Zenon

------------------------------------------------------------------------------
\* The instants that count once the segments up to old are gone, and those of
\* them that share a slot.
Counted(old) == {t \in Sliding!Instants : Number(t) > old}

Cell(s, old) == {t \in Counted(old) : Number(t) % Segments = s}

\* Every admission that counts is in the segment of its number.
Found(segments, old, l) ==
    \A t \in Counted(old) : l[t] # 0 => segments[Number(t) % Segments].index = Number(t)

\* Every slot holds what was admitted in it and counts.
Held(segments, old, l) ==
    \A s \in Sliding!Slots : segments[s].used = SumFunctionOnSet(l, Cell(s, old))

\* The ring e holds what the log l holds.
Ledger(e, l) ==
    /\ Aligned(e)
    /\ l \in [Sliding!Instants -> Nat]
    /\ \A t \in Sliding!Instants : t > e.lastSeen => l[t] = 0
    /\ Found(e.segments, Gone(e.lastSeen), l)
    /\ Held(e.segments, Gone(e.lastSeen), l)

\* Sums over instants.
LEMMA InstantFacts ==
    /\ IsFiniteSet(Sliding!Instants) /\ IsFiniteSet(Sliding!Slots) /\ Sliding!Instants \subseteq Int
    /\ \A t \in Sliding!Instants : Number(t) % Segments \in Sliding!Slots
    /\ \A old : /\ Counted(old) \subseteq Sliding!Instants /\ IsFiniteSet(Counted(old))
                /\ \A s : Cell(s, old) \subseteq Counted(old) /\ IsFiniteSet(Cell(s, old))
<1>1. MinTime \in Int /\ MaxTime \in Int /\ Segments \in Nat \ {0} /\ 0 \in Int /\ Segments - 1 \in Int
  BY TimeAssumption, SegmentsAssumption
<1>2. IsFiniteSet(Sliding!Instants) /\ IsFiniteSet(Sliding!Slots) /\ Sliding!Instants \subseteq Int
  BY <1>1, FS_Interval DEF Sliding!Instants, Sliding!Slots
<1>3. ASSUME NEW t \in Sliding!Instants PROVE Number(t) % Segments \in Sliding!Slots
  BY <1>1, <1>2, NumberFacts, FloorDiv, Zenon DEF Sliding!Slots
<1>4. \A old : /\ Counted(old) \subseteq Sliding!Instants
               /\ \A s : Cell(s, old) \subseteq Counted(old)
  BY Zenon DEF Counted, Cell
<1>5. \A old : /\ IsFiniteSet(Counted(old))
               /\ \A s : IsFiniteSet(Cell(s, old))
  BY <1>2, <1>4, FS_Subset, Zenon
<1>. QED
  BY <1>2, <1>3, <1>4, <1>5, Zenon

\* Two admissions that count and share a slot are in one segment.
LEMMA CellUnique ==
    ASSUME NEW at \in Int, NEW t \in Counted(Gone(at)), t <= at,
           Number(t) % Segments = Number(at) % Segments
    PROVE  Number(t) = Number(at)
<1>1. t \in Int /\ Segments \in Nat \ {0}
  BY InstantFacts, SegmentsAssumption, Zenon
<1>2. Number(t) \in Int /\ Number(at) \in Int /\ Gone(at) \in Int
      /\ Number(t) <= Number(at) /\ Number(at) <= Gone(at) + Segments
  BY <1>1, NumberFacts, Zenon
<1>3. Number(t) > Gone(at)
  BY Zenon DEF Counted
<1>. QED
  BY <1>1, <1>2, <1>3, SlotUnique

\* Clearing the segments that left the window clears what no longer counts.
LEMMA LiveHeld ==
    ASSUME NEW e, NEW l, Ledger(e, l), NEW at \in Int, e.lastSeen <= at,
           NEW live, live = Sliding!Live(e.segments, e.revision, at)
    PROVE  Found(live, Gone(at), l) /\ Held(live, Gone(at), l)
<1> DEFINE old == Gone(e.lastSeen)
           new == Gone(at)
           seg == e.segments
<1>1. e.lastSeen \in Int /\ e.revision \in Sliding!SamePeriod
      /\ seg \in [Sliding!Slots -> [index : Int, used : Nat]]
  BY InstantFacts, Zenon DEF Ledger, Aligned, Sliding!Entries
<1>2. old \in Int /\ new \in Int /\ old <= new
  BY <1>1, NumberFacts, Zenon
<1>3. \A s \in Sliding!Slots : live[s] = IF seg[s].index <= new THEN Sliding!Empty ELSE seg[s]
  BY <1>1, Shared, Zenon DEF Sliding!Live
<1>4. l \in [Sliding!Instants -> Nat] /\ Found(seg, old, l) /\ Held(seg, old, l)
  BY Zenon DEF Ledger
<1>. HIDE DEF old, new, seg
<1>5. Counted(new) \subseteq Counted(old)
  <2>1. ASSUME NEW t \in Sliding!Instants, Number(t) > new PROVE Number(t) > old
    <3>1. Number(t) \in Int
      BY InstantFacts, NumberFacts, Zenon
    <3>. QED
      BY <1>2, <2>1, <3>1
  <2>. QED
    BY <2>1, Zenon DEF Counted
<1>6. ASSUME NEW t \in Counted(new), l[t] # 0
      PROVE  live[Number(t) % Segments].index = Number(t) /\ seg[Number(t) % Segments].index = Number(t)
  <2>1. seg[Number(t) % Segments].index = Number(t)
    BY <1>4, <1>5, <1>6, Zenon DEF Found
  <2>2. t \in Sliding!Instants /\ Number(t) \in Int /\ Number(t) > new
    BY InstantFacts, NumberFacts, Zenon DEF Counted
  <2>3. Number(t) % Segments \in Sliding!Slots
    BY <2>2, InstantFacts, Zenon
  <2>4. ~(seg[Number(t) % Segments].index <= new)
    BY <1>2, <2>1, <2>2
  <2>. QED
    BY <1>3, <2>1, <2>3, <2>4, Zenon
<1>7. ASSUME NEW s \in Sliding!Slots PROVE live[s].used = SumFunctionOnSet(l, Cell(s, new))
  <2>1. seg[s].used = SumFunctionOnSet(l, Cell(s, old)) /\ seg[s].index \in Int
    BY <1>1, <1>4, Zenon DEF Held, seg
  <2>2. IsFiniteSet(Cell(s, new)) /\ IsFiniteSet(Cell(s, old)) /\ Cell(s, new) \subseteq Cell(s, old)
        /\ \A t \in Cell(s, old) : t \in Sliding!Instants
    <3>1. Cell(s, new) \subseteq Cell(s, old)
      BY <1>5, Zenon DEF Cell
    <3>. QED
      BY <3>1, InstantFacts, Zenon
  <2>3. CASE seg[s].index <= new
    <3>1. live[s].used = 0
      BY <1>3, <2>3 DEF Sliding!Empty
    <3>2. ASSUME NEW t \in Cell(s, new), l[t] # 0 PROVE FALSE
      <4>1. t \in Counted(new) /\ Number(t) % Segments = s /\ Number(t) > new /\ Number(t) \in Int
        BY InstantFacts, NumberFacts, Zenon DEF Cell, Counted
      <4>2. seg[s].index = Number(t)
        BY <1>6, <3>2, <4>1, Zenon
      <4>. QED
        BY <1>2, <2>3, <4>1, <4>2
    <3>. QED
      BY <2>2, <3>1, <3>2, SumZero, Zenon
  <2>4. CASE ~(seg[s].index <= new)
    <3>1. live[s].used = seg[s].used
      BY <1>3, <2>4, Zenon
    <3>2. ASSUME NEW t \in Cell(s, old) \ Cell(s, new), l[t] # 0 PROVE FALSE
      <4>1. t \in Counted(old) /\ Number(t) % Segments = s
        BY Zenon DEF Cell
      <4>2. seg[s].index = Number(t)
        BY <1>4, <3>2, <4>1, Zenon DEF Found
      <4>3. t \in Sliding!Instants /\ Number(t) \in Int
        BY <2>2, InstantFacts, NumberFacts, Zenon
      <4>4. Number(t) > new
        BY <1>2, <2>4, <4>2, <4>3
      <4>. QED
        BY <4>1, <4>3, <4>4, Zenon DEF Cell, Counted
    <3>3. \A t \in Cell(s, old) : l[t] \in Nat
      BY <1>4, <2>2, Zenon
    <3>. QED
      BY <2>1, <2>2, <3>1, <3>2, <3>3, SumSubset
  <2>. QED
    BY <2>3, <2>4, Zenon
<1>. QED
  BY <1>6, <1>7, Zenon DEF Found, Held, new

\* What is in use is what was admitted and counts.
LEMMA UsedIsLogged ==
    ASSUME NEW live \in [Sliding!Slots -> [index : Int, used : Nat]],
           NEW l \in [Sliding!Instants -> Nat], NEW old, Held(live, old, l)
    PROVE  /\ Sliding!Used(live) = SumFunctionOnSet(l, Counted(old))
           /\ Sliding!Used(live) \in Nat
<1> DEFINE h == [s \in Sliding!Slots |-> live[s].used]
           c == [t \in Sliding!Instants |-> Number(t) % Segments]
<1>1. Sliding!Used(live) = SumFunctionOnSet(h, Sliding!Slots)
  BY Zenon DEF Sliding!Used, Sliding!SumFunction, Sliding!SumFunctionOnSet, SumFunctionOnSet,
     Sliding!FoldFunctionOnSet, FoldFunctionOnSet, Sliding!MapThenFoldSet, MapThenFoldSet
<1>2. /\ IsFiniteSet(Counted(old)) /\ IsFiniteSet(Sliding!Slots)
      /\ \A t \in Counted(old) : l[t] \in Nat /\ c[t] \in Sliding!Slots
  BY InstantFacts, Zenon
<1>3. ASSUME NEW s \in Sliding!Slots
      PROVE  h[s] = SumFunctionOnSet(l, Group(c, Counted(old), s))
  <2>1. Group(c, Counted(old), s) = Cell(s, old)
    BY InstantFacts, Zenon DEF Cell, Group
  <2>. QED
    BY <2>1, Zenon DEF Held
<1>. HIDE DEF h, c
<1>4. SumFunctionOnSet(h, Sliding!Slots) = SumFunctionOnSet(l, Counted(old))
  BY <1>2, <1>3, SumGroups
<1>. QED
  BY <1>1, <1>2, <1>4, SumNat

\* Charging the current segment keeps the ring and the log in step.
LEMMA ChargeKept ==
    ASSUME NEW e, NEW l, Ledger(e, l), NEW r \in Sliding!SamePeriod, e.revision = r,
           NEW d, d.at \in Sliding!Instants, e.lastSeen <= d.at, d.cost \in Nat,
           NEW v, v = Sliding!Consumed(e, r, d), NEW m, m = Sliding!Recorded(l, d)
    PROVE  /\ Ledger(v, m)
           /\ SumFunctionOnSet(m, Counted(Gone(d.at)))
                = SumFunctionOnSet(l, Counted(Gone(d.at)))
                    + (IF d.outcome = "allowed" THEN d.cost ELSE 0)
<1> DEFINE at    == d.at
           n     == Number(at)
           old   == Gone(at)
           live  == Sliding!Live(e.segments, r, at)
           slot  == n % Segments
           held  == IF live[slot].index = n THEN live[slot].used ELSE 0
           taken == IF d.outcome = "allowed" THEN d.cost ELSE 0
           cell  == [index |-> n, used |-> held + taken]
<1>1. /\ Aligned(v) /\ v.revision = r /\ v.lastSeen = at
  BY ConsumedFacts DEF Ledger
<1>2. Found(live, old, l) /\ Held(live, old, l)
  BY LiveHeld, InstantFacts, Zenon
<1>3. /\ at \in Int /\ e.lastSeen \in Int /\ l \in [Sliding!Instants -> Nat] /\ taken \in Nat
      /\ \A t \in Sliding!Instants : t > e.lastSeen => l[t] = 0
  BY InstantFacts, Zenon DEF Ledger, Aligned, Sliding!Entries
<1>4. n \in Int /\ old \in Int /\ n > old /\ slot \in Sliding!Slots /\ at \in Counted(old) /\ at \in Cell(slot, old)
  BY <1>3, NumberFacts, InstantFacts, Zenon DEF Counted, Cell
<1>5. live \in [Sliding!Slots -> [index : Int, used : Nat]]
  BY DEF Ledger, Aligned, Sliding!Entries, Sliding!Live, Sliding!Empty
<1>6. v.segments = [live EXCEPT ![slot] = cell]
  <2>1. Sliding!Index(r, d.at) = n
    BY Shared, Zenon
  <2>2. "segments" \in DOMAIN e /\ "lastSeen" \in DOMAIN e
    BY Zenon DEF Ledger, Aligned, Sliding!Entries
  <2>. QED
    BY <2>1, <2>2, Zenon DEF Sliding!Consumed
<1>7. m = [l EXCEPT ![at] = l[at] + taken]
  BY <1>3, Zenon DEF Sliding!Recorded
<1>. HIDE DEF live, taken, at, n, old
<1>8. held \in Nat
  BY <1>4, <1>5, Zenon
<1>. HIDE DEF held
<1>9. /\ v.segments[slot].index = n /\ v.segments[slot].used = held + taken
      /\ \A s \in Sliding!Slots : s # slot => v.segments[s] = live[s]
  BY <1>4, <1>5, <1>6
<1>. HIDE DEF cell
<1>10. /\ m \in [Sliding!Instants -> Nat] /\ m[at] = l[at] + taken
       /\ \A t \in Sliding!Instants : t # at => m[t] = l[t]
  BY <1>3, <1>7 DEF at
<1>11. ASSUME NEW t \in Counted(old), m[t] # 0
       PROVE  t \in Sliding!Instants /\ t \in Int /\ t <= at
  <2>1. t \in Sliding!Instants /\ t \in Int
    BY InstantFacts, Zenon
  <2>2. CASE t = at
    BY <1>3, <2>1, <2>2
  <2>3. CASE t # at
    <3>1. l[t] # 0
      BY <1>10, <1>11, <2>1, <2>3, Zenon
    <3>2. ~(t > e.lastSeen)
      BY <1>3, <2>1, <3>1, Zenon
    <3>3. e.lastSeen <= at
      BY Zenon DEF at
    <3>. QED
      BY <1>3, <2>1, <3>2, <3>3
  <2>. QED
    BY <2>2, <2>3, Zenon
<1>12. ASSUME NEW t \in Counted(old), m[t] # 0, Number(t) % Segments = slot
       PROVE  Number(t) = n
  BY <1>3, <1>11, <1>12, CellUnique, Zenon DEF n, old
<1>13. Found(v.segments, old, m)
  <2>1. ASSUME NEW t \in Counted(old), m[t] # 0
        PROVE  v.segments[Number(t) % Segments].index = Number(t)
    <3>1. CASE Number(t) % Segments = slot
      BY <1>9, <1>12, <2>1, <3>1, Zenon
    <3>2. CASE Number(t) % Segments # slot
      <4>1. t # at /\ t \in Sliding!Instants /\ Number(t) % Segments \in Sliding!Slots
        BY <1>4, <3>2, InstantFacts, Zenon DEF n
      <4>2. l[t] # 0
        BY <1>10, <2>1, <4>1, Zenon
      <4>. QED
        BY <1>2, <1>9, <3>2, <4>1, <4>2, Zenon DEF Found
    <3>. QED
      BY <3>1, <3>2, Zenon
  <2>. QED
    BY <2>1, Zenon DEF Found
<1>14. \A s : \A t \in Cell(s, old) : t \in Sliding!Instants /\ l[t] \in Nat
  BY <1>3, InstantFacts, Zenon
<1>15. held = SumFunctionOnSet(l, Cell(slot, old))
  <2>1. CASE live[slot].index = n
    BY <1>2, <1>4, <2>1, Zenon DEF Held, held
  <2>2. CASE live[slot].index # n
    <3>1. ASSUME NEW t \in Cell(slot, old), l[t] # 0 PROVE FALSE
      <4>1. t \in Counted(old) /\ Number(t) % Segments = slot /\ t \in Sliding!Instants
        BY <1>14, Zenon DEF Cell
      <4>2. m[t] # 0
        <5>1. CASE t = at
          <6>1. l[at] \in Nat /\ l[at] # 0
            BY <1>14, <3>1, <5>1, Zenon
          <6>. QED
            BY <1>3, <1>10, <5>1, <6>1
        <5>2. CASE t # at
          BY <1>10, <3>1, <4>1, <5>2, Zenon
        <5>. QED
          BY <5>1, <5>2, Zenon
      <4>3. Number(t) = n
        BY <1>12, <4>1, <4>2, Zenon
      <4>. QED
        BY <1>2, <2>2, <3>1, <4>1, <4>3, Zenon DEF Found
    <3>2. IsFiniteSet(Cell(slot, old))
      BY InstantFacts, Zenon
    <3>. QED
      BY <2>2, <3>1, <3>2, SumZero, Zenon DEF held
  <2>. QED
    BY <2>1, <2>2, Zenon
<1>16. Held(v.segments, old, m)
  <2>1. ASSUME NEW s \in Sliding!Slots PROVE v.segments[s].used = SumFunctionOnSet(m, Cell(s, old))
    <3>0. IsFiniteSet(Cell(s, old))
      BY InstantFacts, Zenon
    <3>1. CASE s = slot
      <4>1. \A t \in Cell(slot, old) : t # at => m[t] = l[t]
        BY <1>10, <1>14, Zenon
      <4>2. \A t \in Cell(slot, old) : l[t] \in Nat
        BY <1>14, Zenon
      <4>3. SumFunctionOnSet(m, Cell(slot, old)) = SumFunctionOnSet(l, Cell(slot, old)) + taken
        <5>1. taken \in Nat /\ m[at] = l[at] + taken /\ at \in Cell(slot, old) /\ IsFiniteSet(Cell(slot, old))
          BY <1>3, <1>4, <1>10, <3>0, <3>1, Zenon
        <5>. QED
          BY <4>1, <4>2, <5>1, SumChange, ZenonT(20)
      <4>. QED
        BY <1>9, <1>15, <3>1, <4>3, Zenon
    <3>2. CASE s # slot
      <4>1. \A t \in Cell(s, old) : t # at
        BY <3>2, Zenon DEF Cell, n
      <4>2. \A t \in Cell(s, old) : m[t] = l[t]
        BY <1>10, <1>14, <4>1, Zenon
      <4>3. SumFunctionOnSet(m, Cell(s, old)) = SumFunctionOnSet(l, Cell(s, old))
        BY <3>0, <4>2, SumEqual, Zenon
      <4>. QED
        BY <1>2, <1>9, <3>2, <4>3, Zenon DEF Held
    <3>. QED
      BY <3>1, <3>2, Zenon
  <2>. QED
    BY <2>1, Zenon DEF Held
<1>17. \A t \in Sliding!Instants : t > at => m[t] = 0
  <2>1. ASSUME NEW t \in Sliding!Instants, t > at PROVE m[t] = 0
    <3>1. t \in Int /\ e.lastSeen <= at
      BY InstantFacts, Zenon DEF at
    <3>2. t # at /\ t > e.lastSeen
      BY <1>3, <2>1, <3>1
    <3>. QED
      BY <1>3, <1>10, <3>2, Zenon
  <2>. QED
    BY <2>1, Zenon
<1>18. SumFunctionOnSet(m, Counted(old)) = SumFunctionOnSet(l, Counted(old)) + taken
  <2>1. IsFiniteSet(Counted(old)) /\ \A t \in Counted(old) : t \in Sliding!Instants
    BY InstantFacts, Zenon
  <2>2. \A t \in Counted(old) : l[t] \in Nat
    BY <1>3, <2>1, Zenon
  <2>3. \A t \in Counted(old) : t # at => m[t] = l[t]
    BY <1>10, <2>1, Zenon
  <2>4. taken \in Nat /\ m[at] = l[at] + taken /\ at \in Counted(old)
    BY <1>3, <1>4, <1>10, Zenon
  <2>. QED
    BY <2>1, <2>2, <2>3, <2>4, SumChange, ZenonT(20)
<1>. QED
  BY <1>1, <1>10, <1>13, <1>16, <1>17, <1>18, Zenon DEF Ledger, old, at, taken

\* The cost that l records from one instant to another.
LoggedIn(l, from, to) == SumFunctionOnSet(l, Sliding!Instants \cap (from .. to))

\* What the run checks of a decision, of the log l.
Judged(d, l) ==
    LET r == d.revision
    IN  /\ d.outcome # "corrupt" =>
              d.at \in Sliding!Instants /\ r \in Sliding!SamePeriod /\ d.reset > d.at
        /\ d.outcome = "allowed" =>
              LoggedIn(l, d.at - Period + Sliding!Width(r), d.at) <= Policy[r].limit
        /\ d.outcome = "limited" =>
              /\ LoggedIn(l, d.at - Period + 1, d.at) + d.cost > Policy[r].limit
              /\ LoggedIn(l, (Sliding!Oldest(r, d.reset) + 1) * Sliding!Width(r), d.reset)
                   < LoggedIn(l, (Sliding!Oldest(r, d.at) + 1) * Sliding!Width(r), d.at)

\* What counts, between instants.
LEMMA CountedBounds ==
    ASSUME NEW l \in [Sliding!Instants -> Nat], NEW at \in Sliding!Instants,
           \A t \in Sliding!Instants : t > at => l[t] = 0
    PROVE  /\ LoggedIn(l, at - Period + Breadth, at) <= SumFunctionOnSet(l, Counted(Gone(at)))
           /\ SumFunctionOnSet(l, Counted(Gone(at))) <= LoggedIn(l, at - Period + 1, at)
           /\ LoggedIn(l, (Gone(at) + 1) * Breadth, at) = SumFunctionOnSet(l, Counted(Gone(at)))
           /\ LoggedIn(l, at - Period + 1, at) \in Nat
           /\ LoggedIn(l, at - Period + Breadth, at) \in Nat
           /\ SumFunctionOnSet(l, Counted(Gone(at))) \in Nat
<1> DEFINE g == Gone(at)
           I == Sliding!Instants
           C == Counted(g)
           D == {t \in C : t <= at}
           A == I \cap (at - Period + Breadth .. at)
           B == I \cap (at - Period + 1 .. at)
           E == I \cap ((g + 1) * Breadth .. at)
<1>1. /\ at \in Int /\ g \in Int /\ Breadth \in Nat \ {0} /\ Period \in Nat \ {0}
      /\ g * Breadth <= at - Period /\ at - Period < g * Breadth + Breadth
      /\ I \subseteq Int /\ IsFiniteSet(I)
  BY InstantFacts, NumberFacts, BreadthFacts, PeriodAssumption, Zenon
<1>2. (g + 1) * Breadth = g * Breadth + Breadth /\ g * Breadth \in Int /\ (g + 1) * Breadth \in Int
  BY <1>1, Distribute
<1>3. C \subseteq I /\ IsFiniteSet(C) /\ \A t \in I : l[t] \in Nat
  BY InstantFacts, Zenon
<1>4. ASSUME NEW t \in I PROVE t \in Int /\ (t \in C <=> t >= (g + 1) * Breadth)
  <2>1. t \in Int /\ Number(t) \in Int
    BY <1>1, NumberFacts, Zenon
  <2>2. Number(t) > g <=> Number(t) >= g + 1
    BY <1>1, <2>1
  <2>3. Number(t) >= g + 1 <=> t >= (g + 1) * Breadth
    BY <1>1, <2>1, NumberReaches
  <2>. QED
    BY <2>1, <2>2, <2>3, Zenon DEF Counted
<1>. HIDE DEF g, I, C
<1>5. A \subseteq D
  <2>1. ASSUME NEW t \in A PROVE t \in D
    <3>1. t \in I /\ t \in Int /\ t >= at - Period + Breadth /\ t <= at
      BY <1>1
    <3>2. t >= (g + 1) * Breadth
      BY <1>1, <1>2, <3>1
    <3>. QED
      BY <1>4, <3>1, <3>2, Zenon
  <2>. QED
    BY <2>1, Zenon
<1>6. D \subseteq B
  <2>1. ASSUME NEW t \in D PROVE t \in B
    <3>1. t \in I /\ t \in Int /\ t >= (g + 1) * Breadth /\ t <= at
      BY <1>3, <1>4, Zenon
    <3>2. t >= at - Period + 1
      BY <1>1, <1>2, <3>1
    <3>. QED
      BY <1>1, <3>1, <3>2
  <2>. QED
    BY <2>1, Zenon
<1>7. D = E
  <2>1. ASSUME NEW t \in I PROVE t \in D <=> t \in E
    BY <1>1, <1>2, <1>4
  <2>. QED
    BY <1>3, <2>1, Zenon
<1>8. \A t \in C \ D : l[t] = 0
  <2>1. ASSUME NEW t \in C, ~(t <= at) PROVE l[t] = 0
    <3>1. t \in I /\ t \in Int /\ t > at
      BY <1>1, <1>3, <2>1
    <3>. QED
      BY <3>1, Zenon DEF I
  <2>. QED
    BY <2>1, Zenon
<1>9. D \subseteq C /\ B \subseteq I /\ A \subseteq I
  OBVIOUS
<1>10. IsFiniteSet(B) /\ \A t \in B : l[t] \in Nat
  BY <1>1, <1>3, <1>9, FS_Subset, Zenon
<1>11. \A t \in C : l[t] \in Nat
  BY <1>3, Zenon
<1>. HIDE DEF A, B, D, E
<1>12. SumFunctionOnSet(l, D) = SumFunctionOnSet(l, C) /\ SumFunctionOnSet(l, C) \in Nat
  BY <1>3, <1>8, <1>9, <1>11, SumSubset, Zenon
<1>13. IsFiniteSet(D) /\ \A t \in D : l[t] \in Nat
  BY <1>3, <1>9, <1>11, FS_Subset, Zenon
<1>14. SumFunctionOnSet(l, A) <= SumFunctionOnSet(l, D) /\ SumFunctionOnSet(l, A) \in Nat
  BY <1>5, <1>13, SumSubset, Zenon
<1>15. SumFunctionOnSet(l, D) <= SumFunctionOnSet(l, B) /\ SumFunctionOnSet(l, B) \in Nat
  BY <1>6, <1>10, SumSubset, Zenon
<1>. QED
  BY <1>7, <1>12, <1>14, <1>15, Zenon DEF LoggedIn, A, B, C, E, I, g

\* Reset is in the future; at Reset less is in use than when something was in use.
LEMMA ResetFacts ==
    ASSUME NEW live \in [Sliding!Slots -> [index : Int, used : Nat]],
           NEW l \in [Sliding!Instants -> Nat], NEW r \in Sliding!SamePeriod,
           NEW at \in Sliding!Instants, \A t \in Sliding!Instants : t > at => l[t] = 0,
           Found(live, Gone(at), l), Held(live, Gone(at), l),
           \A s \in Sliding!Slots : live[s].used # 0 => live[s].index > Gone(at),
           NEW reset, reset = Sliding!Reset(live, r, at)
    PROVE  /\ reset \in Int /\ reset > at
           /\ Sliding!Used(live) # 0 =>
                LoggedIn(l, (Gone(reset) + 1) * Breadth, reset)
                  < LoggedIn(l, (Gone(at) + 1) * Breadth, at)
<1> DEFINE g == Gone(at)
           I == Sliding!Instants
           C == Counted(g)
           slots == {s \in Sliding!Slots : live[s].used # 0}
           inUse == {live[s].index : s \in slots}
           first == Min(inUse)
<1>1. /\ at \in Int /\ g \in Int /\ Breadth \in Nat \ {0} /\ Period \in Nat \ {0}
      /\ at - Period < g * Breadth + Breadth /\ I \subseteq Int /\ IsFiniteSet(I)
  BY InstantFacts, NumberFacts, BreadthFacts, PeriodAssumption, Zenon
<1>2. reset = Period + IF inUse = {} THEN at ELSE (first + 1) * Breadth
  <2>1. Policy[r].period = Period /\ Sliding!Width(r) = Breadth
    BY WidthFacts, Shared, Zenon
  <2>. QED
    BY <2>1 DEF Sliding!Reset, Sliding!Min, Min
<1>3. Sliding!Used(live) = SumFunctionOnSet(l, C) /\ SumFunctionOnSet(l, C) \in Nat
  BY UsedIsLogged, Zenon
<1>4. CASE inUse = {}
  <2>1. \A s \in Sliding!Slots : live[s].used = 0
    BY <1>4, Zenon
  <2>2. \A t \in C : l[t] = 0
    <3>1. ASSUME NEW t \in C, l[t] # 0 PROVE FALSE
      <4> DEFINE s == Number(t) % Segments
      <4>1. s \in Sliding!Slots /\ t \in Cell(s, g) /\ IsFiniteSet(Cell(s, g))
            /\ \A u \in Cell(s, g) : l[u] \in Nat
        BY InstantFacts, Zenon DEF Cell
      <4>. HIDE DEF s
      <4>2. SumFunctionOnSet(l, Cell(s, g)) = l[t] + SumFunctionOnSet(l, Cell(s, g) \ {t})
        BY <4>1, SumSplit
      <4>3. SumFunctionOnSet(l, Cell(s, g) \ {t}) \in Nat
        BY <4>1, SumSubset, Zenon
      <4>4. SumFunctionOnSet(l, Cell(s, g)) = 0
        BY <2>1, <4>1, Zenon DEF Held
      <4>5. l[t] \in Nat
        BY <4>1, Zenon
      <4>. QED
        BY <3>1, <4>2, <4>3, <4>4, <4>5
    <3>. QED
      BY <3>1, Zenon
  <2>3. SumFunctionOnSet(l, C) = 0
    BY <2>2, InstantFacts, SumZero, Zenon
  <2>. QED
    BY <1>1, <1>2, <1>3, <1>4, <2>3
<1>5. CASE inUse # {}
  <2>1. first \in inUse /\ \A y \in inUse : first <= y
    <3>1. inUse \in SUBSET Int /\ \A x \in inUse : g <= x
      BY <1>1
    <3>. HIDE DEF inUse
    <3>. QED
      BY <1>1, <1>5, <3>1, MinFacts, Zenon
  <2>2. PICK s \in Sliding!Slots : live[s].used # 0 /\ live[s].index = first
    BY <2>1, Zenon
  <2>. HIDE DEF first, inUse
  <2>3. first \in Int /\ first > g
    BY <2>2, Zenon
  <2>4. /\ reset = Period + (first + 1) * Breadth
        /\ (first + 1) * Breadth \in Int /\ (first + 1) * Breadth = first * Breadth + Breadth
        /\ first * Breadth \in Int /\ reset \in Int
    BY <1>1, <1>2, <1>5, <2>3, Distribute
  <2>5. reset > at
    <3>1. (g + 1) * Breadth <= first * Breadth /\ (g + 1) * Breadth = g * Breadth + Breadth
          /\ g * Breadth \in Int
      BY <1>1, <2>3, Monotone, Distribute
    <3> DEFINE fb == first * Breadth
               gb == g * Breadth
    <3>2. fb \in Int /\ gb \in Int /\ gb + Breadth <= fb /\ reset = Period + (fb + Breadth)
          /\ at - Period < gb + Breadth
      BY <1>1, <2>4, <3>1, Zenon
    <3>. HIDE DEF fb, gb
    <3>. QED
      BY <1>1, <3>2
  <2>6. Gone(reset) = first + 1
    <3>1. reset - Period = (first + 1) * Breadth
      BY <1>1, <2>4
    <3>. QED
      BY <1>1, <2>3, <2>4, <3>1, FloorUnique DEF Gone
  <2> DEFINE D == I \cap ((first + 2) * Breadth .. reset)
  <2>7. LoggedIn(l, (Gone(reset) + 1) * Breadth, reset) = SumFunctionOnSet(l, D)
    <3>1. Gone(reset) + 1 = first + 2
      BY <2>3, <2>6
    <3>. QED
      BY <3>1, Zenon DEF LoggedIn
  <2>8. PICK t \in Cell(s, g) : l[t] # 0
    <3>1. SumFunctionOnSet(l, Cell(s, g)) # 0
      BY <2>2, Zenon DEF Held
    <3>. QED
      BY <3>1, InstantFacts, SumZero, Zenon
  <2>9. t \in C /\ t \in I /\ Number(t) = first
    BY <2>2, <2>8, InstantFacts, Zenon DEF Cell, Found
  <2>10. D \subseteq C \ {t}
    <3>1. ASSUME NEW u \in D PROVE u \in C /\ u # t
      <4>1. u \in I /\ u \in Int /\ u >= (first + 2) * Breadth
        BY <1>1, <2>3
      <4>2. Number(u) >= first + 2 /\ Number(u) \in Int
        BY <2>3, <4>1, NumberReaches, NumberFacts
      <4>3. Number(u) > g /\ Number(u) # first
        BY <1>1, <2>3, <4>2
      <4>. QED
        BY <2>9, <4>1, <4>3, Zenon DEF Counted
    <3>. QED
      BY <3>1, Zenon
  <2>11. IsFiniteSet(C) /\ IsFiniteSet(C \ {t}) /\ \A u \in C : l[u] \in Nat
    BY InstantFacts, FS_Subset, Zenon
  <2>12. SumFunctionOnSet(l, C) = l[t] + SumFunctionOnSet(l, C \ {t})
    BY <2>9, <2>11, SumSplit
  <2>13. /\ SumFunctionOnSet(l, D) <= SumFunctionOnSet(l, C \ {t})
         /\ SumFunctionOnSet(l, D) \in Nat /\ SumFunctionOnSet(l, C \ {t}) \in Nat
    <3>1. \A u \in C \ {t} : l[u] \in Nat
      BY <2>11, Zenon
    <3>. HIDE DEF D, C
    <3>. QED
      BY <2>10, <2>11, <3>1, SumSubset, Zenon
  <2>14. l[t] \in Nat /\ l[t] # 0
    BY <2>8, <2>9, <2>11, Zenon
  <2>15. LoggedIn(l, (Gone(at) + 1) * Breadth, at) = SumFunctionOnSet(l, C)
    BY CountedBounds, Zenon
  <2>. HIDE DEF C, D
  <2>. QED
    BY <2>4, <2>5, <2>7, <2>12, <2>13, <2>14, <2>15
<1>. QED
  BY <1>4, <1>5, Zenon

\* A request: the decision is right about the log, and ring and log stay in step.
LEMMA Judge ==
    ASSUME NEW e, NEW l, Ledger(e, l), NEW r \in Sliding!SamePeriod, e.revision = r,
           NEW cost \in 1 .. Policy[r].maxCost, NEW at \in Sliding!Instants, e.lastSeen <= at,
           NEW d, d = Sliding!AdmitSliding(e, r, cost, at),
           NEW v, v = Sliding!Consumed(e, r, d), NEW m, m = Sliding!Recorded(l, d)
    PROVE  Ledger(v, m) /\ Judged(d, m) /\ Kept(e, v)
<1> DEFINE live  == Sliding!Live(e.segments, r, at)
           used  == Sliding!Used(live)
           reset == Sliding!Reset(live, r, at)
           limit == Policy[r].limit
           count == SumFunctionOnSet(m, Counted(Gone(at)))
<1>1. /\ r \in Revisions /\ cost \in Nat \ {0} /\ limit \in Nat \ {0} /\ cost <= limit
      /\ at \in Int /\ Gone(at) \in Int
  <2>1. r \in Revisions
    BY Zenon DEF Sliding!SamePeriod
  <2>2. limit \in Nat \ {0} /\ Policy[r].maxCost \in 1 .. limit
    BY <2>1, PolicyAssumption, Zenon
  <2>3. at \in Int
    BY InstantFacts, Zenon
  <2>4. Gone(at) \in Int
    BY <2>3, NumberFacts, Zenon
  <2>. HIDE DEF limit
  <2>5. cost \in Nat \ {0} /\ cost <= limit
    BY <2>2
  <2>. QED
    BY <2>1, <2>2, <2>3, <2>4, <2>5, Zenon
<1>2. live \in [Sliding!Slots -> [index : Int, used : Nat]]
  BY DEF Ledger, Aligned, Sliding!Entries, Sliding!Live, Sliding!Empty
<1>3. Found(live, Gone(at), l) /\ Held(live, Gone(at), l)
  BY <1>1, LiveHeld, Zenon
<1>4. \A s \in Sliding!Slots : live[s].used # 0 => live[s].index > Gone(at)
  <2>1. \A s \in Sliding!Slots :
           live[s] = IF e.segments[s].index <= Gone(at) THEN Sliding!Empty ELSE e.segments[s]
    BY Shared, Zenon DEF Sliding!Live
  <2>2. \A s \in Sliding!Slots : e.segments[s].index \in Int
    BY Zenon DEF Ledger, Aligned, Sliding!Entries
  <2>. HIDE DEF live
  <2>. QED
    BY <1>1, <2>1, <2>2 DEF Sliding!Empty
<1>5. /\ l \in [Sliding!Instants -> Nat]
      /\ \A t \in Sliding!Instants : t > at => l[t] = 0
  <2>1. \A t \in Sliding!Instants : t > e.lastSeen => l[t] = 0
    BY Zenon DEF Ledger
  <2>2. e.lastSeen \in Int
    BY InstantFacts, Zenon DEF Ledger, Aligned, Sliding!Entries
  <2>3. \A t \in Sliding!Instants : t > at => t > e.lastSeen
    <3>1. \A t \in Sliding!Instants : t \in Int
      BY InstantFacts, Zenon
    <3>2. at \in Int
      BY <1>1, Zenon
    <3>. QED
      BY <2>2, <3>1, <3>2
  <2>. QED
    BY <2>1, <2>3, Zenon DEF Ledger
<1>6. used \in Nat /\ used = SumFunctionOnSet(l, Counted(Gone(at)))
  <2>. HIDE DEF live
  <2>. QED
    BY <1>2, <1>3, <1>5, UsedIsLogged, Zenon
<1>7. /\ reset \in Int /\ reset > at
      /\ used # 0 => LoggedIn(l, (Gone(reset) + 1) * Breadth, reset)
                       < LoggedIn(l, (Gone(at) + 1) * Breadth, at)
  <2>. HIDE DEF live
  <2>. QED
    BY <1>2, <1>3, <1>4, <1>5, ResetFacts, Zenon
<1>8. d = ConsumeWindow(used, r, cost, at, reset)
  BY Zenon DEF Sliding!AdmitSliding, Sliding!ConsumeWindow, ConsumeWindow
<1>. HIDE DEF live, used, reset
<1>9. /\ d.revision = r /\ d.cost = cost /\ d.at = at /\ d.reset = reset
      /\ \/ d.outcome = "allowed" /\ used + cost <= limit
         \/ d.outcome = "limited" /\ used + cost > limit
  <2>1. used \in Nat /\ reset \in Int /\ at \in Int /\ r \in Revisions /\ cost \in Nat \ {0}
    BY <1>1, <1>6, <1>7, Zenon
  <2>. QED
    BY <1>8, <2>1, ConsumeFacts
<1>10. Ledger(v, m) /\ count = used + (IF d.outcome = "allowed" THEN cost ELSE 0)
  <2>1. d.at \in Sliding!Instants /\ e.lastSeen <= d.at /\ d.cost \in Nat
    BY <1>1, <1>9, Zenon
  <2>2. Ledger(v, m) /\ SumFunctionOnSet(m, Counted(Gone(d.at)))
                          = SumFunctionOnSet(l, Counted(Gone(d.at)))
                              + (IF d.outcome = "allowed" THEN d.cost ELSE 0)
    BY <2>1, ChargeKept
  <2>. QED
    BY <1>6, <1>9, <2>2, Zenon
<1>11. Kept(e, v) /\ v.lastSeen = at
  <2>1. d.at \in Sliding!Instants /\ e.lastSeen <= d.at /\ d.cost \in Nat /\ Aligned(e)
    BY <1>1, <1>9, Zenon DEF Ledger
  <2>2. Kept(e, v) /\ v.lastSeen = d.at
    BY <2>1, ConsumedFacts
  <2>. QED
    BY <1>9, <2>2, Zenon
<1>12. /\ m \in [Sliding!Instants -> Nat]
       /\ \A t \in Sliding!Instants : t > at => m[t] = 0
  BY <1>10, <1>11, Zenon DEF Ledger
<1>13. /\ LoggedIn(m, at - Period + Breadth, at) <= count
       /\ count <= LoggedIn(m, at - Period + 1, at)
       /\ LoggedIn(m, at - Period + 1, at) \in Nat /\ count \in Nat
       /\ LoggedIn(m, at - Period + Breadth, at) \in Nat
  BY <1>12, CountedBounds, Zenon
<1>. HIDE DEF count
<1>14. Sliding!Width(r) = Breadth /\ \A t : Sliding!Oldest(r, t) = Gone(t)
  BY Shared, Zenon
<1>15. CASE d.outcome = "allowed"
  <2>1. LoggedIn(m, at - Period + Breadth, at) <= limit
    <3> DEFINE x == LoggedIn(m, at - Period + Breadth, at)
    <3>1. count = used + cost /\ used + cost <= limit /\ x <= count /\ x \in Nat
      BY <1>9, <1>10, <1>13, <1>15, Zenon
    <3>2. used \in Nat /\ cost \in Nat /\ limit \in Nat
      BY <1>1, <1>6, Zenon
    <3>. HIDE DEF x, limit
    <3>. QED
      BY <3>1, <3>2 DEF x
  <2>. QED
    BY <1>7, <1>9, <1>10, <1>11, <1>14, <1>15, <2>1, Zenon DEF Judged
<1>16. CASE d.outcome = "limited"
  <2>0. /\ count = used + 0 /\ used + cost > limit
        /\ used \in Nat /\ cost \in Nat /\ limit \in Nat /\ cost <= limit
    BY <1>1, <1>6, <1>9, <1>10, <1>16, Zenon
  <2>1. LoggedIn(m, at - Period + 1, at) + cost > limit
    <3> DEFINE x == LoggedIn(m, at - Period + 1, at)
    <3>1. count <= x /\ x \in Nat
      BY <1>13, Zenon
    <3>. HIDE DEF x, limit
    <3>. QED
      BY <2>0, <3>1 DEF x
  <2>2. used # 0
    <3>. HIDE DEF limit
    <3>. QED
      BY <2>0
  <2>3. m = l
    BY <1>5, <1>9, <1>16 DEF Sliding!Recorded
  <2>. QED
    BY <1>7, <1>9, <1>10, <1>11, <1>14, <1>16, <2>1, <2>2, <2>3, Zenon DEF Judged
<1>. QED
  BY <1>9, <1>15, <1>16, Zenon

------------------------------------------------------------------------------
(* The entry, with either algorithm. *)

SlidingInv == Ledger(entry, log) /\ Judged(decision, log)

\* The call that creates a sliding window.
LEMMA SlidingStarts == ASSUME Sliding!Init PROVE SlidingInv
<1>0. PICK r \in Sliding!SamePeriod, now \in Sliding!Instants : \E cost \in 1 .. Policy[r].maxCost :
            /\ decision = Sliding!AdmitSliding(Sliding!NewState(r, now), r, cost, now)
            /\ entry = Sliding!Consumed(Sliding!NewState(r, now), r, decision)
            /\ log = Sliding!Recorded([t \in Sliding!Instants |-> 0], decision)
  BY Zenon DEF Sliding!Init
<1>1. PICK cost \in 1 .. Policy[r].maxCost :
            /\ decision = Sliding!AdmitSliding(Sliding!NewState(r, now), r, cost, now)
            /\ entry = Sliding!Consumed(Sliding!NewState(r, now), r, decision)
            /\ log = Sliding!Recorded([t \in Sliding!Instants |-> 0], decision)
  BY <1>0, Zenon
<1> DEFINE e == Sliding!NewState(r, now)
           l == [t \in Sliding!Instants |-> 0]
<1>2. r \in Revisions /\ Policy[r].period = Period /\ now <= now /\ Period \in Nat \ {0} /\ now \in Int
  BY PeriodAssumption, InstantFacts DEF Sliding!SamePeriod
<1>3. /\ Aligned(e) /\ e.revision = r /\ e.lastSeen = now
      /\ \A s \in Sliding!Slots : e.segments[s].used = 0
  BY <1>2 DEF Sliding!NewState, Aligned, Sliding!Entries, Sliding!Empty
<1>4. l \in [Sliding!Instants -> Nat] /\ \A t \in Sliding!Instants : l[t] = 0
  OBVIOUS
<1>. HIDE DEF e, l
<1>5. Found(e.segments, Gone(now), l)
  BY <1>4, InstantFacts, Zenon DEF Found
<1>6. Held(e.segments, Gone(now), l)
  <2>1. ASSUME NEW s \in Sliding!Slots PROVE SumFunctionOnSet(l, Cell(s, Gone(now))) = 0
    <3>1. IsFiniteSet(Cell(s, Gone(now))) /\ \A t \in Cell(s, Gone(now)) : t \in Sliding!Instants
      BY InstantFacts, Zenon
    <3>2. \A t \in Cell(s, Gone(now)) : l[t] = 0
      BY <1>4, <3>1, Zenon
    <3>. QED
      BY <3>1, <3>2, SumZero, Zenon
  <2>. QED
    BY <1>3, <2>1, Zenon DEF Held
<1>7. Ledger(e, l)
  BY <1>3, <1>4, <1>5, <1>6, Zenon DEF Ledger
<1>. QED
  BY <1>1, <1>2, <1>3, <1>7, Judge, Zenon DEF SlidingInv, e, l

\* A call of a revision with the period of the key.
LEMMA SlidingAdmits ==
    ASSUME SlidingInv, NEW r \in Sliding!SamePeriod, NEW now \in Sliding!Instants,
           NEW cost \in 1 .. Policy[r].maxCost, Sliding!Admit(r, cost, now)
    PROVE  SlidingInv' /\ Kept(entry, entry')
<1> DEFINE e  == Sliding!GetOrCreate(r)
           at == Sliding!Later(now, e.lastSeen)
<1>1. Aligned(entry) /\ Ledger(entry, log)
  BY Zenon DEF SlidingInv, Ledger
<1>2. Aligned(e)
  BY <1>1, GetOrCreateFacts, Zenon DEF Sliding!GetOrCreate
<1>3. e.revision = r /\ e.lastSeen = entry.lastSeen /\ e.segments = entry.segments
  BY <1>1, Zenon DEF Sliding!GetOrCreate, Aligned, Sliding!Entries
<1>4. /\ decision' = Sliding!AdmitSliding(e, r, cost, at) /\ entry' = Sliding!Consumed(e, r, decision')
      /\ log' = Sliding!Recorded(log, decision')
  BY Zenon DEF Sliding!Admit
<1>. HIDE DEF e
<1>5. at \in Sliding!Instants /\ e.lastSeen <= at
  BY <1>2, TimeAssumption DEF Sliding!Later, Aligned, Sliding!Entries, Sliding!Instants
<1>. HIDE DEF at
<1>6. Ledger(e, log)
  BY <1>1, <1>2, <1>3, Zenon DEF Ledger
<1>7. Ledger(entry', log') /\ Judged(decision', log') /\ Kept(e, entry')
  BY <1>3, <1>4, <1>5, <1>6, Judge, Zenon
<1>. QED
  BY <1>3, <1>7, Zenon DEF Kept, SlidingInv

\* A decision that refuses the request as corrupt says nothing.
LEMMA CorruptJudged ==
    ASSUME NEW r, NEW l
    PROVE  Judged(PeriodMismatch(r), l) /\ Judged(Sliding!PeriodMismatch(r), l)
BY Zenon DEF PeriodMismatch, Sliding!PeriodMismatch, Judged

\* Every call.
LEMMA SlidingSteps ==
    ASSUME SlidingInv, Sliding!Next
    PROVE  SlidingInv' /\ Kept(entry, entry')
<1>1. ASSUME NEW r \in Revisions, NEW now \in Sliding!Instants,
             NEW cost \in 1 .. Policy[r].maxCost,
             \/ r \in Sliding!SamePeriod /\ Sliding!Admit(r, cost, now)
             \/ Sliding!AdmitStrict(r, cost, now)
      PROVE  SlidingInv' /\ Kept(entry, entry')
  <2>1. CASE r \in Sliding!SamePeriod /\ Sliding!Admit(r, cost, now)
    BY <2>1, SlidingAdmits, Zenon
  <2>2. CASE entry.windowPeriod = Policy[r].period /\ Sliding!Admit(r, cost, now)
    <3>1. r \in Sliding!SamePeriod
      BY <2>2, Zenon DEF Sliding!SamePeriod, SlidingInv, Ledger, Aligned
    <3>. QED
      BY <2>2, <3>1, SlidingAdmits, Zenon
  <2>3. CASE decision' = Sliding!PeriodMismatch(r) /\ UNCHANGED <<entry, log>>
    <3>1. \A s \in Sliding!Slots : entry.segments[s].used \in Nat
      BY Zenon DEF SlidingInv, Ledger, Aligned, Sliding!Entries
    <3>2. Judged(decision', log')
      BY <2>3, CorruptJudged, Zenon
    <3>. QED
      BY <2>3, <3>1, <3>2 DEF SlidingInv, Kept
  <2>. QED
    BY <1>1, <2>1, <2>2, <2>3, Zenon DEF Sliding!AdmitStrict
<1>. QED
  BY <1>1, Zenon DEF Sliding!Next

\* The part of the entry that its algorithm does not use stays as it was created.
EntryInv ==
    \/ /\ algorithm = "fixed_window" /\ IInv
       /\ entry = Sliding!NewState(Unused, MinTime) /\ log = [t \in Instants |-> 0]
    \/ /\ algorithm = "sliding_window" /\ SlidingInv
       /\ admitted = [n \in Numbers |-> 0]

\* Usage of an entry that does not change is kept.
LEMMA KeptSame ==
    ASSUME EntryInv, UNCHANGED entry
    PROVE  Kept(entry, entry')
<1>1. \A s \in Sliding!Slots : entry.segments[s].used \in Nat
  <2>1. CASE algorithm = "fixed_window" /\ entry = Sliding!NewState(Unused, MinTime)
    BY <2>1, Zenon DEF Sliding!NewState, Sliding!Empty
  <2>2. CASE SlidingInv
    BY <2>2, Zenon DEF SlidingInv, Ledger, Aligned, Sliding!Entries
  <2>. QED
    BY <2>1, <2>2, Zenon DEF EntryInv
<1>. QED
  BY <1>1 DEF Kept

\* Every step keeps the invariant, and the usage that counts.
LEMMA EntrySteps ==
    ASSUME EntryInv, [EntryNext]_allVars
    PROVE  EntryInv' /\ Kept(entry, entry')
<1>1. CASE algorithm = "fixed_window" /\ Next /\ UNCHANGED <<entry, log, algorithm>>
  <2>1. IInv
    BY <1>1, Zenon DEF EntryInv
  <2>2. IInv'
    BY <1>1, <2>1, NextInv, Zenon
  <2>. QED
    BY <1>1, <2>2, KeptSame, Zenon DEF EntryInv
<1>2. CASE algorithm = "sliding_window" /\ Sliding!Next /\ UNCHANGED <<window, admitted, algorithm>>
  <2>1. SlidingInv
    BY <1>2, Zenon DEF EntryInv
  <2>2. SlidingInv' /\ Kept(entry, entry')
    BY <1>2, <2>1, SlidingSteps, Zenon
  <2>. QED
    BY <1>2, <2>2, Zenon DEF EntryInv
<1>3. CASE Mismatch /\ UNCHANGED algorithm
  <2>1. Unused \in Revisions
    <3>1. PICK r \in Revisions : Policy[r].period = Period
      BY PeriodAssumption, Zenon
    <3>2. SamePeriod # {}
      BY <3>1, Zenon DEF SamePeriod
    <3>. QED
      BY <3>2, Zenon DEF Unused, SamePeriod
  <2>2. IInv => IInv'
    <3>1. PeriodMismatch(Unused) \in Decisions /\ PeriodMismatch(Unused).outcome = "corrupt"
      BY <2>1 DEF PeriodMismatch, Decisions
    <3>. QED
      BY <1>3, <3>1, Zenon DEF Mismatch, IInv, TypeOK, Exact, Reported, NoOverAdmission, NoFalseRejection
  <2>3. SlidingInv => SlidingInv'
    <3>1. Judged(decision', log') /\ UNCHANGED <<entry, log>>
      BY <1>3, CorruptJudged, Zenon DEF Mismatch
    <3>. QED
      BY <3>1, Zenon DEF SlidingInv
  <2>4. UNCHANGED <<entry, log, admitted>>
    BY <1>3, Zenon DEF Mismatch
  <2>. QED
    BY <1>3, <2>2, <2>3, <2>4, KeptSame, Zenon DEF EntryInv
<1>4. CASE UNCHANGED allVars
  <2>1. UNCHANGED <<window, decision, admitted, algorithm, entry, log>>
    BY <1>4, Zenon DEF allVars
  <2>2. (IInv => IInv') /\ (SlidingInv => SlidingInv')
    BY <2>1, Zenon DEF IInv, TypeOK, Exact, Reported, NoOverAdmission, NoFalseRejection, SlidingInv
  <2>. QED
    BY <2>1, <2>2, KeptSame, Zenon DEF EntryInv
<1>. QED
  BY <1>1, <1>2, <1>3, <1>4, Zenon DEF EntryNext, Dispatch

\* The first state.
LEMMA EntryStarts == ASSUME EntryInit PROVE EntryInv
<1>1. CASE algorithm = "fixed_window" /\ Init
  BY <1>1, InitInv, Zenon DEF EntryInit, EntryInv
<1>2. CASE algorithm = "sliding_window" /\ Sliding!Init
  BY <1>2, SlidingStarts, Zenon DEF EntryInit, EntryInv
<1>. QED
  BY <1>1, <1>2, Zenon DEF EntryInit

\* An entry of either algorithm keeps its invariant.
THEOREM EntryKeepsInvariant == EntrySpec => []EntryInv
<1>1. EntryInit => EntryInv
  BY EntryStarts, Zenon
<1>2. EntryInv /\ [EntryNext]_allVars => EntryInv'
  BY EntrySteps, Zenon
<1>. QED
  BY <1>1, <1>2, PTL DEF EntrySpec

\* The history of an algorithm that is not used is empty.
LEMMA NothingLogged ==
    ASSUME NEW S, S \subseteq Sliding!Instants
    PROVE  SumFunctionOnSet([t \in Instants |-> 0], S) = 0
<1>1. IsFiniteSet(S)
  BY InstantFacts, FS_Subset, Zenon
<1>2. \A t \in S : [u \in Instants |-> 0][t] = 0
  BY Zenon DEF Sliding!Instants, Instants
<1>. QED
  BY <1>1, <1>2, SumZero, Zenon

\* What the sliding window's properties say of a log.
LEMMA LoggedIsLoggedIn ==
    ASSUME NEW from, NEW to
    PROVE  Sliding!Logged(from, to) = LoggedIn(log, from, to)
BY Zenon DEF Sliding!Logged, LoggedIn, Sliding!SumFunctionOnSet, SumFunctionOnSet,
   Sliding!FoldFunctionOnSet, FoldFunctionOnSet, Sliding!MapThenFoldSet, MapThenFoldSet

\* No fixed window is over-admitted by any sequence of calls, clocks and revisions.
THEOREM EntryNeverOverAdmits == EntrySpec => []NoOverAdmission
<1>1. EntryInv => NoOverAdmission
  <2>1. CASE algorithm = "fixed_window" /\ IInv
    BY <2>1, Zenon DEF IInv
  <2>2. CASE SlidingInv /\ admitted = [n \in Numbers |-> 0] /\ decision.outcome = "allowed"
    <3>1. decision.at \in Instants /\ decision.revision \in Revisions
      BY <2>2, Zenon DEF SlidingInv, Judged, Sliding!Instants, Instants, Sliding!SamePeriod
    <3>2. admitted[decision.at \div Period] = 0 /\ Policy[decision.revision].limit \in Nat
      BY <2>2, <3>1, PolicyAssumption, Zenon DEF Numbers
    <3>. QED
      BY <3>2 DEF NoOverAdmission
  <2>. QED
    BY <2>1, <2>2, Zenon DEF EntryInv, NoOverAdmission
<1>. QED
  BY <1>1, EntryKeepsInvariant, PTL

\* An allowed request keeps what was admitted over the last period, less one segment
\* width, within the limit.
THEOREM RollingIsBounded == EntrySpec => []RollingBound
<1>1. EntryInv => RollingBound
  <2>. SUFFICES ASSUME EntryInv, decision.outcome = "allowed"
                PROVE  LoggedIn(log, decision.at - Period + Sliding!Width(decision.revision), decision.at)
                         <= Policy[decision.revision].limit
    BY LoggedIsLoggedIn, Zenon DEF RollingBound, Sliding!RollingBound
  <2>1. CASE IInv /\ log = [t \in Instants |-> 0]
    <3>1. decision.revision \in Revisions
      BY <2>1, Zenon DEF IInv, TypeOK, Decisions
    <3>. QED
      BY <2>1, <3>1, NothingLogged, PolicyAssumption DEF LoggedIn
  <2>2. CASE SlidingInv
    BY <2>2, Zenon DEF SlidingInv, Judged
  <2>. QED
    BY <2>1, <2>2, Zenon DEF EntryInv
<1>. QED
  BY <1>1, EntryKeepsInvariant, PTL

\* No request is refused that an exact account of its window could still take.
THEOREM EntryRefusesJustly == EntrySpec => []RefusalsJust
<1>1. EntryInv => RefusalsJust
  <2>1. CASE algorithm = "fixed_window" /\ IInv
    BY <2>1, Zenon DEF IInv, RefusalsJust
  <2>2. CASE algorithm = "sliding_window" /\ SlidingInv
    BY <2>2, LoggedIsLoggedIn, Zenon DEF SlidingInv, Judged, RefusalsJust, Sliding!NoFalseRejection
  <2>. QED
    BY <2>1, <2>2, Zenon DEF EntryInv
<1>. QED
  BY <1>1, EntryKeepsInvariant, PTL

\* Reset is exact for a fixed window, and useful for a sliding one.
THEOREM ResetIsHonest == EntrySpec => []ResetHonest
<1>1. EntryInv => ResetHonest
  <2>1. CASE algorithm = "fixed_window" /\ IInv
    BY <2>1, ResetFromInv, Zenon DEF ResetHonest
  <2>2. CASE algorithm = "sliding_window" /\ SlidingInv
    BY <2>2, LoggedIsLoggedIn, Zenon DEF SlidingInv, Judged, ResetHonest, Sliding!ResetUseful
  <2>. QED
    BY <2>1, <2>2, Zenon DEF EntryInv
<1>. QED
  BY <1>1, EntryKeepsInvariant, PTL

\* No call wipes usage that still counts.
THEOREM NeverForgetsUsage == EntrySpec => LiveKept
<1> DEFINE Step == \A s \in Sliding!Slots :
                     /\ entry.segments[s].used # 0
                     /\ entry.segments[s].index > Sliding!Oldest(entry'.revision, entry'.lastSeen)
                     => /\ entry'.segments[s].index = entry.segments[s].index
                        /\ entry'.segments[s].used >= entry.segments[s].used
<1>1. EntryInv /\ [EntryNext]_allVars => [Step]_(Sliding!vars)
  BY EntrySteps, Zenon DEF Kept
<1>. QED
  BY <1>1, EntryKeepsInvariant, PTL DEF EntrySpec, LiveKept, Sliding!LiveKept

\* Every segment in use stays in the slot of its number, none in the future.
THEOREM RingAligned == EntrySpec => [](algorithm = "sliding_window" => Sliding!EntryOK)
<1>1. EntryInv => (algorithm = "sliding_window" => Sliding!EntryOK)
  BY Zenon DEF EntryInv, SlidingInv, Ledger, Aligned, Sliding!EntryOK
<1>. QED
  BY <1>1, EntryKeepsInvariant, PTL
=============================================================================

------------------------ MODULE WindowBackendsProofs ------------------------
(***************************************************************************)
(* The window counters of PostgreSQL and of Valkey, for every set of       *)
(* revisions, every period and number of segments, and every skew of the   *)
(* callers' clocks that the retention of the state allows.                 *)
(*                                                                         *)
(* The state a call works on accounts for the log of admissions: the       *)
(* counter of a fixed window holds what was admitted in it, the ring of a  *)
(* sliding window what was admitted in the segments that still count.      *)
(* State that was removed, or that has expired, accounted for nothing that *)
(* still counts.                                                           *)
(*                                                                         *)
(* The first part is about rings in general: a ring of segments holds a    *)
(* log when each slot holds the sum of the log over the segment it stands  *)
(* for.                                                                    *)
(***************************************************************************)
EXTENDS WindowBackends, Arithmetic

(* Segments: a period p in n segments, whose width is rounded up. *)

SegmentWidth(p, n) == (p + n - 1) \div n

\* The segment of an instant, and the newest that has left the window at it.
SegmentOf(p, n, t) == t \div SegmentWidth(p, n)

LastGone(p, n, t) == (t - p) \div SegmentWidth(p, n)

\* Two numbers of one slot that are less than n apart are the same.
LEMMA SlotUnique ==
    ASSUME NEW n \in Nat \ {0}, NEW i \in Int, NEW q \in Int,
           i <= q, q < i + n, i % n = q % n
    PROVE  i = q
<1> DEFINE a == i \div n
           b == q \div n
           m == q % n
<1>1. a \in Int /\ b \in Int /\ m \in Int /\ i = a * n + m /\ q = b * n + m
  BY FloorDiv
<1> HIDE DEF a, b, m
<1> DEFINE an == a * n
           bn == b * n
<1>2. an \in Int /\ bn \in Int /\ an <= bn /\ bn < an + n
  BY <1>1
<1>3. ASSUME b >= a + 1 PROVE FALSE
  <2>1. (a + 1) * n <= bn /\ (a + 1) * n = an + n
    BY <1>1, <1>3, Monotone, Distribute
  <2> HIDE DEF an, bn
  <2>. QED
    BY <1>2, <2>1
<1>4. ASSUME a >= b + 1 PROVE FALSE
  <2>1. (b + 1) * n <= an /\ (b + 1) * n = bn + n
    BY <1>1, <1>4, Monotone, Distribute
  <2> HIDE DEF an, bn
  <2>. QED
    BY <1>2, <2>1
<1>5. a = b
  BY <1>1, <1>3, <1>4
<1>. QED
  BY <1>1, <1>5, Zenon

\* The segments cover the period, and none is wider than it.
LEMMA WidthFacts ==
    ASSUME NEW p \in Nat \ {0}, NEW n \in Nat \ {0}
    PROVE  /\ SegmentWidth(p, n) \in Nat \ {0} /\ SegmentWidth(p, n) <= p
           /\ p <= SegmentWidth(p, n) * n
<1> DEFINE w == (p + n - 1) \div n
           m == (p + n - 1) % n
<1>1. p + n - 1 \in Nat
  OBVIOUS
<1>2. w \in Nat /\ m \in Nat /\ m < n /\ p + n - 1 = w * n + m
  BY <1>1, DivMod, Zenon
<1>3. SegmentWidth(p, n) = w
  BY Zenon DEF SegmentWidth
<1> HIDE DEF w, m
<1> DEFINE prod == w * n
<1>4. prod \in Nat /\ p + n - 1 = prod + m /\ (w = 0 => prod = 0)
  BY <1>2
<1>5. w <= p
  <2>1. CASE w >= p + 1
    <3>1. (p + 1) * n <= w * n /\ (p + 1) * n = p * n + n
      BY <1>2, <2>1, Monotone, Distribute
    <3>2. 1 * p <= n * p
      BY Monotone
    <3> DEFINE a == p * n
    <3>3. a \in Int /\ p <= a /\ a + n <= prod
      BY <1>2, <3>1, <3>2
    <3>. HIDE DEF a, prod
    <3>. QED
      BY <1>2, <1>4, <3>3
  <2>. QED
    BY <1>2, <2>1
<1> HIDE DEF prod
<1>6. p <= prod /\ w # 0
  BY <1>2, <1>4
<1>. QED
  BY <1>2, <1>3, <1>5, <1>6, Zenon DEF prod

\* The current segment is in the window, which spans at most n of them.
LEMMA SegmentFacts ==
    ASSUME NEW p \in Nat \ {0}, NEW n \in Nat \ {0}, NEW t \in Int
    PROVE  /\ SegmentOf(p, n, t) \in Int /\ LastGone(p, n, t) \in Int
           /\ LastGone(p, n, t) < SegmentOf(p, n, t)
           /\ SegmentOf(p, n, t) <= LastGone(p, n, t) + n
           /\ SegmentOf(p, n, t) % n \in 0 .. n - 1
           /\ \A u \in Int : t <= u => /\ SegmentOf(p, n, t) <= SegmentOf(p, n, u)
                                       /\ LastGone(p, n, t) <= LastGone(p, n, u)
<1> DEFINE w == SegmentWidth(p, n)
           q == t \div w
           o == (t - p) \div w
<1>1. w \in Nat \ {0} /\ w <= p /\ p <= w * n
  BY WidthFacts, Zenon
<1>2. SegmentOf(p, n, t) = q /\ LastGone(p, n, t) = o
  BY Zenon DEF SegmentOf, LastGone
<1> HIDE DEF w
<1>3. \A u \in Int : t <= u => t \div w <= u \div w /\ (t - p) \div w <= (u - p) \div w
  BY <1>1, DivMonotone
<1>4. \A u \in Int : t <= u => /\ SegmentOf(p, n, t) <= SegmentOf(p, n, u)
                               /\ LastGone(p, n, t) <= LastGone(p, n, u)
  BY <1>3, Zenon DEF SegmentOf, LastGone, w
<1>5. /\ q \in Int /\ o \in Int /\ q * w <= t /\ t < q * w + w
      /\ o * w <= t - p /\ t - p < o * w + w
  BY <1>1, FloorDiv, FloorBounds
<1> HIDE DEF q, o
<1> DEFINE ow == o * w
           qw == q * w
           nw == w * n
<1>6. ow \in Int /\ qw \in Int /\ nw \in Int /\ n * w = nw
  BY <1>1, <1>5
<1>7. o < q
  <2>1. SUFFICES ASSUME q <= o PROVE FALSE
    BY <1>5
  <2>2. qw <= ow
    BY <1>1, <1>5, <2>1, Monotone, Zenon
  <2>3. t < qw + w /\ ow <= t - p
    BY <1>5, Zenon
  <2>. HIDE DEF ow, qw, nw
  <2>. QED
    BY <1>1, <1>6, <2>2, <2>3
<1>8. q <= o + n
  <2>1. SUFFICES ASSUME q >= o + n + 1 PROVE FALSE
    BY <1>5
  <2>2. (o + n + 1) * w <= q * w
    BY <1>1, <1>5, <2>1, Monotone
  <2>3. (o + n + 1) * w = o * w + n * w + w
    BY <1>1, <1>5, Distribute
  <2>4. ow + nw + w <= qw /\ qw <= t /\ t - p < ow + w /\ p <= nw
    BY <1>1, <1>5, <1>6, <2>2, <2>3, Zenon
  <2> HIDE DEF ow, qw, nw
  <2>. QED
    BY <1>1, <1>6, <2>4
<1>9. q % n \in 0 .. n - 1
  BY <1>5, FloorDiv, Zenon
<1>. QED
  BY <1>2, <1>4, <1>5, <1>7, <1>8, <1>9, Zenon

\* Where an instant is relative to the first instant of a segment.
LEMMA SegmentReaches ==
    ASSUME NEW p \in Nat \ {0}, NEW n \in Nat \ {0}, NEW t \in Int, NEW k \in Int
    PROVE  SegmentOf(p, n, t) >= k <=> t >= k * SegmentWidth(p, n)
<1> DEFINE w == SegmentWidth(p, n)
           q == t \div w
<1>1. w \in Nat \ {0}
  BY WidthFacts, Zenon
<1>2. SegmentOf(p, n, t) = q
  BY Zenon DEF SegmentOf
<1>. HIDE DEF w
<1>3. q \in Int /\ q * w <= t /\ t < q * w + w
  BY <1>1, FloorDiv, FloorBounds
<1>4. k * w \in Int /\ (k * w) \div w = k
  <2>1. k * w \in Int /\ k * w <= k * w /\ k * w < k * w + w
    BY <1>1
  <2>. QED
    BY <1>1, <2>1, FloorUnique, Zenon
<1>5. ASSUME t >= k * w PROVE q >= k
  <2>1. (k * w) \div w <= q
    BY <1>1, <1>4, <1>5, DivMonotone
  <2>. QED
    BY <1>3, <1>4, <2>1
<1>. HIDE DEF q
<1>6. ASSUME q >= k PROVE t >= k * w
  <2>1. k * w <= q * w
    BY <1>1, <1>3, <1>6, Monotone, Zenon
  <2>2. q * w \in Int
    BY <1>1, <1>3
  <2>. QED
    BY <1>3, <1>4, <2>1, <2>2
<1>. QED
  BY <1>2, <1>5, <1>6, Zenon DEF w

------------------------------------------------------------------------------
(* Rings: n segments that hold what a log l holds of the instants I. *)

\* The instants that count once the segments up to old are gone, and those of
\* them that share a slot.
Counting(I, p, n, old) == {t \in I : SegmentOf(p, n, t) > old}

CellOf(I, p, n, s, old) == {t \in Counting(I, p, n, old) : SegmentOf(p, n, t) % n = s}

\* Every admission that counts is in the segment of its number, and every slot
\* holds what was admitted in it.
Ring(I, p, n, g, old, l) ==
    /\ \A t \in Counting(I, p, n, old) :
          l[t] # 0 => g[SegmentOf(p, n, t) % n].index = SegmentOf(p, n, t)
    /\ \A s \in 0 .. n - 1 : g[s].used = SumFunctionOnSet(l, CellOf(I, p, n, s, old))

\* What a ring is about.
Timeline(I, p, n, l) ==
    /\ p \in Nat \ {0} /\ n \in Nat \ {0}
    /\ I \in SUBSET Int /\ IsFiniteSet(I)
    /\ l \in [I -> Nat]

Segment == [index : Int, used : Nat]

\* Sums over what counts.
LEMMA CountingFacts ==
    ASSUME NEW I, NEW p, NEW n, NEW l, Timeline(I, p, n, l), NEW old
    PROVE  /\ Counting(I, p, n, old) \subseteq I /\ IsFiniteSet(Counting(I, p, n, old))
           /\ \A t \in Counting(I, p, n, old) :
                 /\ t \in I /\ t \in Int /\ l[t] \in Nat
                 /\ SegmentOf(p, n, t) \in Int /\ SegmentOf(p, n, t) > old
                 /\ SegmentOf(p, n, t) % n \in 0 .. n - 1
           /\ \A s : /\ CellOf(I, p, n, s, old) \subseteq Counting(I, p, n, old)
                     /\ IsFiniteSet(CellOf(I, p, n, s, old))
<1>1. /\ p \in Nat \ {0} /\ n \in Nat \ {0} /\ I \subseteq Int /\ IsFiniteSet(I)
      /\ \A t \in I : t \in Int /\ l[t] \in Nat
  BY Zenon DEF Timeline
<1>2. /\ Counting(I, p, n, old) \subseteq I
      /\ \A s : CellOf(I, p, n, s, old) \subseteq Counting(I, p, n, old)
  BY Zenon DEF Counting, CellOf
<1>3. IsFiniteSet(Counting(I, p, n, old)) /\ \A s : IsFiniteSet(CellOf(I, p, n, s, old))
  BY <1>1, <1>2, FS_Subset, Zenon
<1>4. \A t \in Counting(I, p, n, old) :
         /\ t \in I /\ t \in Int /\ l[t] \in Nat /\ SegmentOf(p, n, t) > old
         /\ SegmentOf(p, n, t) \in Int /\ SegmentOf(p, n, t) % n \in 0 .. n - 1
  BY <1>1, SegmentFacts, Zenon DEF Counting
<1>. QED
  BY <1>2, <1>3, <1>4, Zenon

\* Segments that left the window are cleared with what no longer counts.
LEMMA RingCleared ==
    ASSUME NEW I, NEW p, NEW n, NEW l, Timeline(I, p, n, l),
           NEW g \in [0 .. n - 1 -> Segment], NEW old \in Int, Ring(I, p, n, g, old, l),
           NEW new \in Int, old <= new, NEW live,
           \A s \in 0 .. n - 1 : IF g[s].index <= new THEN live[s].used = 0 ELSE live[s] = g[s]
    PROVE  Ring(I, p, n, live, new, l)
<1> DEFINE N(t) == SegmentOf(p, n, t)
           C(o) == Counting(I, p, n, o)
           D(s, o) == CellOf(I, p, n, s, o)
<1>1. \A o : /\ C(o) \subseteq I /\ IsFiniteSet(C(o))
             /\ \A t \in C(o) : t \in I /\ l[t] \in Nat /\ N(t) \in Int /\ N(t) > o /\ N(t) % n \in 0 .. n - 1
             /\ \A s : D(s, o) \subseteq C(o) /\ IsFiniteSet(D(s, o))
  BY CountingFacts, Zenon
<1>2. \A o, t : t \in C(o) <=> t \in I /\ N(t) > o
  BY Zenon DEF Counting
<1>3. \A s, o, t : t \in D(s, o) <=> t \in C(o) /\ N(t) % n = s
  BY Zenon DEF CellOf
<1>4. /\ \A t \in C(old) : l[t] # 0 => g[N(t) % n].index = N(t)
      /\ \A s \in 0 .. n - 1 : g[s].used = SumFunctionOnSet(l, D(s, old))
  BY Zenon DEF Ring
<1>5. \A s \in 0 .. n - 1 : g[s].index \in Int
  BY Zenon DEF Segment
<1>. HIDE DEF N, C, D
<1>6. C(new) \subseteq C(old)
  <2>1. ASSUME NEW t \in C(new) PROVE N(t) > old
    <3>1. N(t) \in Int /\ N(t) > new
      BY <1>1, Zenon
    <3>. QED
      BY <3>1
  <2>. QED
    BY <1>1, <1>2, <2>1, Zenon
<1>7. ASSUME NEW t \in C(new), l[t] # 0 PROVE g[N(t) % n].index = N(t) /\ live[N(t) % n].index = N(t)
  <2>1. g[N(t) % n].index = N(t) /\ N(t) \in Int /\ N(t) > new /\ N(t) % n \in 0 .. n - 1
    BY <1>1, <1>4, <1>6, <1>7, Zenon
  <2>2. ~(g[N(t) % n].index <= new)
    BY <2>1
  <2>. QED
    BY <2>1, <2>2, Zenon
<1>8. ASSUME NEW s \in 0 .. n - 1 PROVE live[s].used = SumFunctionOnSet(l, D(s, new))
  <2>1. /\ g[s].used = SumFunctionOnSet(l, D(s, old)) /\ g[s].index \in Int
        /\ D(s, new) \subseteq D(s, old) /\ IsFiniteSet(D(s, new)) /\ IsFiniteSet(D(s, old))
        /\ \A t \in D(s, old) : l[t] \in Nat
    BY <1>1, <1>3, <1>4, <1>5, <1>6, Zenon
  <2>2. CASE g[s].index <= new
    <3>1. live[s].used = 0
      BY <2>2, Zenon
    <3>2. ASSUME NEW t \in D(s, new), l[t] # 0 PROVE FALSE
      <4>1. N(t) > new /\ N(t) \in Int /\ g[s].index = N(t)
        BY <1>1, <1>3, <1>7, <3>2, Zenon
      <4>. QED
        BY <2>2, <4>1
    <3>. QED
      BY <2>1, <3>1, <3>2, SumZero, Zenon
  <2>3. CASE ~(g[s].index <= new)
    <3>1. live[s].used = g[s].used
      BY <2>3, Zenon
    <3>2. ASSUME NEW t \in D(s, old) \ D(s, new), l[t] # 0 PROVE FALSE
      <4>1. t \in C(old) /\ N(t) % n = s /\ t \in I /\ N(t) \in Int
        BY <1>1, <1>3, Zenon
      <4>2. g[s].index = N(t)
        BY <1>4, <3>2, <4>1, Zenon
      <4>3. N(t) > new
        BY <2>1, <2>3, <4>1, <4>2
      <4>. QED
        BY <1>2, <1>3, <3>2, <4>1, <4>3, Zenon
    <3>. QED
      BY <2>1, <3>1, <3>2, SumSubset
  <2>. QED
    BY <2>2, <2>3, Zenon
<1>. QED
  BY <1>7, <1>8, Zenon DEF Ring, N, C, D

\* The ring holds, all in all, what counts.
LEMMA RingTotal ==
    ASSUME NEW I, NEW p, NEW n, NEW l, Timeline(I, p, n, l), NEW old, NEW g, Ring(I, p, n, g, old, l),
           NEW h, \A s \in 0 .. n - 1 : h[s] = g[s].used
    PROVE  /\ SumFunctionOnSet(h, 0 .. n - 1) = SumFunctionOnSet(l, Counting(I, p, n, old))
           /\ SumFunctionOnSet(l, Counting(I, p, n, old)) \in Nat
           /\ \A s \in 0 .. n - 1 : h[s] \in Nat
<1> DEFINE C == Counting(I, p, n, old)
           c == [t \in C |-> SegmentOf(p, n, t) % n]
           K == 0 .. n - 1
<1>1. /\ IsFiniteSet(C) /\ \A t \in C : l[t] \in Nat /\ c[t] \in K
      /\ \A s : CellOf(I, p, n, s, old) \subseteq C /\ IsFiniteSet(CellOf(I, p, n, s, old))
  BY CountingFacts, Zenon
<1>2. IsFiniteSet(K)
  BY FS_Interval DEF Timeline
<1>3. ASSUME NEW s \in K
      PROVE  h[s] = SumFunctionOnSet(l, Group(c, C, s)) /\ h[s] \in Nat
  <2>1. Group(c, C, s) = CellOf(I, p, n, s, old)
    BY Zenon DEF CellOf, Group
  <2>2. \A t \in CellOf(I, p, n, s, old) : l[t] \in Nat
    BY <1>1, Zenon
  <2>3. h[s] = SumFunctionOnSet(l, CellOf(I, p, n, s, old))
    BY Zenon DEF Ring, K
  <2>. QED
    BY <1>1, <2>1, <2>2, <2>3, SumNat, Zenon
<1>. HIDE DEF c, C, K
<1>4. SumFunctionOnSet(h, K) = SumFunctionOnSet(l, C)
  BY <1>1, <1>2, <1>3, SumGroups
<1>5. SumFunctionOnSet(l, C) \in Nat
  BY <1>1, SumNat, Zenon
<1>. QED
  BY <1>3, <1>4, <1>5, Zenon DEF K, C

\* A slot in use has the number of an admission that counts.
LEMMA RingPlaces ==
    ASSUME NEW I, NEW p, NEW n, NEW l, Timeline(I, p, n, l), NEW old, NEW g, Ring(I, p, n, g, old, l),
           NEW s \in 0 .. n - 1, g[s].used # 0
    PROVE  \E t \in Counting(I, p, n, old) :
              /\ l[t] # 0 /\ SegmentOf(p, n, t) % n = s /\ g[s].index = SegmentOf(p, n, t)
<1>1. SumFunctionOnSet(l, CellOf(I, p, n, s, old)) # 0 /\ IsFiniteSet(CellOf(I, p, n, s, old))
  BY CountingFacts, Zenon DEF Ring
<1>2. PICK t \in CellOf(I, p, n, s, old) : l[t] # 0
  BY <1>1, SumZero, Zenon
<1>. QED
  BY <1>2, Zenon DEF CellOf, Ring

\* An empty ring holds what counts when nothing does.
LEMMA RingEmpty ==
    ASSUME NEW I, NEW p, NEW n, NEW l, Timeline(I, p, n, l), NEW old, NEW g,
           \A s \in 0 .. n - 1 : g[s].used = 0, \A t \in Counting(I, p, n, old) : l[t] = 0
    PROVE  Ring(I, p, n, g, old, l)
<1>1. ASSUME NEW s \in 0 .. n - 1 PROVE g[s].used = SumFunctionOnSet(l, CellOf(I, p, n, s, old))
  <2>1. IsFiniteSet(CellOf(I, p, n, s, old)) /\ \A t \in CellOf(I, p, n, s, old) : l[t] = 0
    BY CountingFacts, Zenon
  <2>. QED
    BY <2>1, SumZero, Zenon
<1>. QED
  BY <1>1, Zenon DEF Ring

\* Only the instants that count matter.
LEMMA RingAgrees ==
    ASSUME NEW I, NEW p, NEW n, NEW l, Timeline(I, p, n, l), NEW old, NEW g, Ring(I, p, n, g, old, l),
           NEW m, \A t \in Counting(I, p, n, old) : m[t] = l[t]
    PROVE  /\ Ring(I, p, n, g, old, m)
           /\ SumFunctionOnSet(m, Counting(I, p, n, old)) = SumFunctionOnSet(l, Counting(I, p, n, old))
<1>1. ASSUME NEW s \in 0 .. n - 1 PROVE g[s].used = SumFunctionOnSet(m, CellOf(I, p, n, s, old))
  <2>1. IsFiniteSet(CellOf(I, p, n, s, old)) /\ \A t \in CellOf(I, p, n, s, old) : m[t] = l[t]
    BY CountingFacts, Zenon
  <2>2. SumFunctionOnSet(m, CellOf(I, p, n, s, old)) = SumFunctionOnSet(l, CellOf(I, p, n, s, old))
    BY <2>1, SumEqual, Zenon
  <2>. QED
    BY <2>2, Zenon DEF Ring
<1>2. SumFunctionOnSet(m, Counting(I, p, n, old)) = SumFunctionOnSet(l, Counting(I, p, n, old))
  <2>1. IsFiniteSet(Counting(I, p, n, old))
    BY CountingFacts, Zenon
  <2>. QED
    BY <2>1, SumEqual, Zenon
<1>. QED
  BY <1>1, <1>2, Zenon DEF Ring

\* The ring g after segment q has taken the cost.
RingWith(g, n, q, cost) ==
    LET held == IF g[q % n].index = q THEN g[q % n].used ELSE 0
    IN  [g EXCEPT ![q % n] = [index |-> q, used |-> held + cost]]

\* Charging the segment of an instant keeps ring and log in step.
LEMMA RingCharged ==
    ASSUME NEW I, NEW p, NEW n, NEW l, Timeline(I, p, n, l), NEW g \in [0 .. n - 1 -> Segment],
           NEW at \in I, Ring(I, p, n, g, LastGone(p, n, at), l), \A t \in I : t > at => l[t] = 0,
           NEW taken \in Nat, NEW m, m[at] = l[at] + taken,
           \A t \in Counting(I, p, n, LastGone(p, n, at)) : t # at => m[t] = l[t]
    PROVE  /\ RingWith(g, n, SegmentOf(p, n, at), taken) \in [0 .. n - 1 -> Segment]
           /\ Ring(I, p, n, RingWith(g, n, SegmentOf(p, n, at), taken), LastGone(p, n, at), m)
           /\ SumFunctionOnSet(m, Counting(I, p, n, LastGone(p, n, at)))
                = SumFunctionOnSet(l, Counting(I, p, n, LastGone(p, n, at))) + taken
<1> DEFINE N(t) == SegmentOf(p, n, t)
           old  == LastGone(p, n, at)
           C    == Counting(I, p, n, old)
           D(s) == CellOf(I, p, n, s, old)
           slot == N(at) % n
           held == IF g[slot].index = N(at) THEN g[slot].used ELSE 0
           v    == [g EXCEPT ![slot] = [index |-> N(at), used |-> held + taken]]
<1>1. /\ IsFiniteSet(C)
      /\ \A t \in C : t \in I /\ t \in Int /\ l[t] \in Nat /\ N(t) \in Int /\ N(t) > old /\ N(t) % n \in 0 .. n - 1
      /\ \A s : D(s) \subseteq C /\ IsFiniteSet(D(s))
  BY CountingFacts, Zenon
<1>2. \A s, t : t \in D(s) <=> t \in C /\ N(t) % n = s
  BY Zenon DEF CellOf
<1>3. /\ \A t \in C : l[t] # 0 => g[N(t) % n].index = N(t)
      /\ \A s \in 0 .. n - 1 : g[s].used = SumFunctionOnSet(l, D(s))
  BY Zenon DEF Ring
<1>4. p \in Nat \ {0} /\ n \in Nat \ {0} /\ at \in Int
  BY Zenon DEF Timeline
<1>5. /\ N(at) \in Int /\ old \in Int /\ old < N(at) /\ N(at) <= old + n /\ slot \in 0 .. n - 1
      /\ \A t \in Int : t <= at => N(t) <= N(at)
  <2>1. \A t \in Int : t <= at => N(t) <= N(at)
    BY <1>4, SegmentFacts, Zenon
  <2>. QED
    BY <1>4, <2>1, SegmentFacts, Zenon
<1>6. at \in C /\ at \in D(slot)
  <2>1. N(at) > old
    BY <1>5
  <2>. HIDE DEF old
  <2>2. at \in C
    BY <2>1, Zenon DEF Counting
  <2>. QED
    BY <1>2, <2>2, Zenon
<1>7. \A t \in C : t # at => m[t] = l[t]
  BY Zenon
<1>8. RingWith(g, n, N(at), taken) = v
  BY Zenon DEF RingWith
<1>. HIDE DEF N, old, C, D, slot, held, v
<1>9. ASSUME NEW t \in C, l[t] # 0, N(t) % n = slot PROVE N(t) = N(at)
  <2>1. t \in Int /\ N(t) \in Int /\ N(t) > old /\ ~(t > at)
    BY <1>1, <1>9, Zenon
  <2>2. t <= at
    BY <1>4, <2>1
  <2>3. N(t) <= N(at) /\ N(at) < N(t) + n
    BY <1>4, <1>5, <2>1, <2>2
  <2>4. N(t) % n = N(at) % n
    BY <1>9, Zenon DEF slot
  <2>. QED
    BY <1>4, <1>5, <2>1, <2>3, <2>4, SlotUnique, Zenon
<1>10. held = SumFunctionOnSet(l, D(slot)) /\ held \in Nat
  <2>1. g[slot].used \in Nat
    BY <1>5, Zenon DEF Segment
  <2>2. CASE g[slot].index = N(at)
    BY <1>3, <1>5, <2>1, <2>2, Zenon DEF held
  <2>3. CASE g[slot].index # N(at)
    <3>1. \A t \in D(slot) : l[t] = 0
      BY <1>2, <1>3, <1>9, <2>3, Zenon
    <3>2. SumFunctionOnSet(l, D(slot)) = 0
      BY <1>1, <3>1, SumZero, Zenon
    <3>3. held = 0
      BY <2>3, Zenon DEF held
    <3>. QED
      BY <3>2, <3>3
  <2>. QED
    BY <2>2, <2>3, Zenon
<1>11. /\ v[slot].index = N(at) /\ v[slot].used = held + taken
       /\ \A s \in 0 .. n - 1 : s # slot => v[s] = g[s]
       /\ v \in [0 .. n - 1 -> Segment]
  <2>1. v = [g EXCEPT ![slot] = [index |-> N(at), used |-> held + taken]]
    BY Zenon DEF v
  <2>2. [index |-> N(at), used |-> held + taken] \in Segment
    BY <1>5, <1>10 DEF Segment
  <2>. DEFINE cell == [index |-> N(at), used |-> held + taken]
  <2>3. cell.index = N(at) /\ cell.used = held + taken
    BY Zenon
  <2>. HIDE DEF cell
  <2>. QED
    BY <1>5, <2>1, <2>2, <2>3 DEF cell
<1>12. ASSUME NEW t \in C, m[t] # 0 PROVE v[N(t) % n].index = N(t)
  <2>1. CASE t = at
    BY <1>11, <2>1, Zenon DEF slot
  <2>2. CASE t # at
    <3>1. l[t] # 0 /\ N(t) % n \in 0 .. n - 1
      BY <1>1, <1>7, <1>12, <2>2, Zenon
    <3>2. CASE N(t) % n = slot
      BY <1>9, <1>11, <3>1, <3>2, Zenon
    <3>3. CASE N(t) % n # slot
      BY <1>3, <1>11, <3>1, <3>3, Zenon
    <3>. QED
      BY <3>2, <3>3, Zenon
  <2>. QED
    BY <2>1, <2>2, Zenon
<1>13. ASSUME NEW s \in 0 .. n - 1 PROVE v[s].used = SumFunctionOnSet(m, D(s))
  <2>1. IsFiniteSet(D(s)) /\ \A t \in D(s) : l[t] \in Nat /\ (t # at => m[t] = l[t])
    BY <1>1, <1>7, Zenon
  <2>2. CASE s = slot
    <3>1. at \in D(s)
      BY <1>6, <2>2, Zenon
    <3>2. SumFunctionOnSet(m, D(s)) = SumFunctionOnSet(l, D(s)) + taken
      BY <2>1, <3>1, SumChange, ZenonT(20)
    <3>. QED
      BY <1>10, <1>11, <2>2, <3>2, Zenon
  <2>3. CASE s # slot
    <3>1. \A t \in D(s) : m[t] = l[t]
      BY <1>2, <2>1, <2>3, Zenon DEF slot
    <3>2. SumFunctionOnSet(m, D(s)) = SumFunctionOnSet(l, D(s))
      BY <2>1, <3>1, SumEqual, Zenon
    <3>. QED
      BY <1>3, <1>11, <2>3, <3>2, Zenon
  <2>. QED
    BY <2>2, <2>3, Zenon
<1>14. SumFunctionOnSet(m, C) = SumFunctionOnSet(l, C) + taken
  <2>1. \A t \in C : l[t] \in Nat
    BY <1>1, Zenon
  <2>. QED
    BY <1>1, <1>6, <1>7, <2>1, SumChange, ZenonT(20)
<1>. QED
  BY <1>11, <1>12, <1>13, <1>14, <1>8, Zenon DEF Ring, N, C, D, old

\* The sum of l from one instant to another.
Between(I, l, from, to) == SumFunctionOnSet(l, I \cap (from .. to))

\* What counts, between instants: at most what was admitted over the period, at
\* least that less one segment.
LEMMA CountingBounds ==
    ASSUME NEW I, NEW p, NEW n, NEW l, Timeline(I, p, n, l), NEW at \in I,
           \A t \in I : t > at => l[t] = 0
    PROVE  LET w     == SegmentWidth(p, n)
               total == SumFunctionOnSet(l, Counting(I, p, n, LastGone(p, n, at)))
           IN  /\ \A t \in Counting(I, p, n, LastGone(p, n, at)) : t > at - p
               /\ Between(I, l, at - p + w, at) <= total
               /\ total <= Between(I, l, at - p + 1, at)
               /\ Between(I, l, (LastGone(p, n, at) + 1) * w, at) = total
               /\ Between(I, l, at - p + w, at) \in Nat
               /\ Between(I, l, at - p + 1, at) \in Nat
               /\ total \in Nat
<1> DEFINE w == SegmentWidth(p, n)
           g == LastGone(p, n, at)
           C == Counting(I, p, n, g)
           D == {t \in C : t <= at}
           A == I \cap (at - p + w .. at)
           B == I \cap (at - p + 1 .. at)
           E == I \cap ((g + 1) * w .. at)
<1>1. p \in Nat \ {0} /\ n \in Nat \ {0} /\ at \in Int /\ I \subseteq Int /\ IsFiniteSet(I)
      /\ \A t \in I : l[t] \in Nat
  BY Zenon DEF Timeline
<1>2. w \in Nat \ {0} /\ w <= p
  BY <1>1, WidthFacts, Zenon
<1>3. g \in Int /\ g * w <= at - p /\ at - p < g * w + w
  <2>1. at - p \in Int /\ g = (at - p) \div w
    BY <1>1 DEF LastGone
  <2>. HIDE DEF g, w
  <2>. QED
    BY <1>2, <2>1, FloorDiv, FloorBounds, Zenon
<1>4. C \subseteq I /\ IsFiniteSet(C) /\ \A t \in C : l[t] \in Nat
  BY CountingFacts, Zenon
<1>5. ASSUME NEW t \in I PROVE t \in Int /\ (t \in C <=> t >= (g + 1) * w)
  <2>1. t \in Int /\ SegmentOf(p, n, t) \in Int
    BY <1>1, SegmentFacts, Zenon
  <2>. HIDE DEF g, w
  <2>2. SegmentOf(p, n, t) > g <=> SegmentOf(p, n, t) >= g + 1
    BY <1>3, <2>1
  <2>3. SegmentOf(p, n, t) >= g + 1 <=> t >= (g + 1) * w
    <3>1. g + 1 \in Int
      BY <1>3
    <3>. QED
      BY <1>1, <2>1, <3>1, SegmentReaches, Zenon DEF w
  <2>. QED
    BY <2>1, <2>2, <2>3, Zenon DEF Counting
<1>. HIDE DEF g, C, w
<1>6. (g + 1) * w = g * w + w /\ g * w \in Int /\ (g + 1) * w \in Int
  BY <1>2, <1>3, Distribute
<1>7. \A t \in C : t \in I /\ t \in Int /\ t > at - p
  BY <1>1, <1>2, <1>3, <1>4, <1>5, <1>6
<1>8. A \subseteq D
  <2>1. ASSUME NEW t \in A PROVE t \in D
    <3>1. t \in I /\ t \in Int /\ t >= at - p + w /\ t <= at
      BY <1>1, <1>2
    <3>2. t >= (g + 1) * w
      BY <1>1, <1>2, <1>3, <1>6, <3>1
    <3>. QED
      BY <1>5, <3>1, <3>2, Zenon
  <2>. QED
    BY <2>1, Zenon
<1>9. D \subseteq B
  BY <1>1, <1>7
<1>10. D = E
  <2>1. ASSUME NEW t \in I PROVE t \in D <=> t \in E
    BY <1>1, <1>3, <1>5, <1>6
  <2>. QED
    BY <1>4, <2>1, Zenon
<1>11. \A t \in C \ D : l[t] = 0
  <2>1. ASSUME NEW t \in C, ~(t <= at) PROVE l[t] = 0
    <3>1. t \in I /\ t > at
      BY <1>1, <1>7, <2>1
    <3>. QED
      BY <3>1, Zenon
  <2>. QED
    BY <2>1, Zenon
<1>12. D \subseteq C /\ B \subseteq I
  OBVIOUS
<1>13. IsFiniteSet(B) /\ \A t \in B : l[t] \in Nat
  BY <1>1, <1>12, FS_Subset, Zenon
<1>. HIDE DEF A, B, D, E
<1>14. SumFunctionOnSet(l, D) = SumFunctionOnSet(l, C) /\ SumFunctionOnSet(l, C) \in Nat
  BY <1>4, <1>11, <1>12, SumSubset, Zenon
<1>15. IsFiniteSet(D) /\ \A t \in D : l[t] \in Nat
  BY <1>4, <1>12, FS_Subset, Zenon
<1>16. SumFunctionOnSet(l, A) <= SumFunctionOnSet(l, D) /\ SumFunctionOnSet(l, A) \in Nat
  BY <1>8, <1>15, SumSubset, Zenon
<1>17. SumFunctionOnSet(l, D) <= SumFunctionOnSet(l, B) /\ SumFunctionOnSet(l, B) \in Nat
  BY <1>9, <1>13, SumSubset, Zenon
<1>. QED
  BY <1>7, <1>10, <1>14, <1>16, <1>17, Zenon DEF Between, A, B, C, E, g, w

------------------------------------------------------------------------------
(* The state of a key. *)

\* What all revisions with the period of the policy ID share.
Start(t) == (t \div Period) * Period

Gone(t) == LastGone(Period, Segments, t)

Counted(old) == Counting(Instants, Period, Segments, old)

LEMMA Constants ==
    /\ Period \in Nat \ {0} /\ Segments \in Nat \ {0} /\ Skew \in Nat /\ MaxTime \in Nat
    /\ Instants \in SUBSET Int /\ Instants \in SUBSET Nat /\ IsFiniteSet(Instants)
    /\ Slots = 0 .. Segments - 1 /\ IsFiniteSet(Slots)
<1>1. Period \in Nat \ {0} /\ Segments \in Nat \ {0} /\ Skew \in Nat /\ MaxTime \in Nat
  BY TimeAssumption, Zenon
<1>. QED
  BY <1>1, FS_Interval DEF Instants, Slots

\* Revisions with one period have one width, so a rollout moves no segment.
LEMMA Shared ==
    ASSUME NEW r \in SamePeriod
    PROVE  /\ r \in Revisions /\ Policy[r].period = Period
           /\ Policy[r].limit \in Nat \ {0} /\ Policy[r].maxCost \in 1 .. Policy[r].limit
           /\ Width(r) = SegmentWidth(Period, Segments)
           /\ \A t : /\ WindowStart(r, t) = Start(t) /\ Oldest(r, t) = Gone(t)
                     /\ Index(r, t) = SegmentOf(Period, Segments, t)
<1>1. r \in Revisions /\ Policy[r].period = Period
  BY Zenon DEF SamePeriod
<1>2. Policy[r].limit \in Nat \ {0} /\ Policy[r].maxCost \in 1 .. Policy[r].limit
  BY <1>1, PolicyAssumption, Zenon
<1>3. Width(r) = SegmentWidth(Period, Segments)
  BY <1>1, Zenon DEF Width, SegmentWidth
<1>. QED
  BY <1>1, <1>2, <1>3, Zenon DEF WindowStart, Oldest, Index, Start, Gone, LastGone, SegmentOf

\* The window of an instant.
LEMMA StartFacts ==
    ASSUME NEW t \in Instants
    PROVE  /\ t \in Nat /\ Start(t) \in Instants /\ Start(t) \in Nat
           /\ Start(t) <= t /\ t < Start(t) + Period
           /\ \A u \in Instants : t <= u => Start(t) <= Start(u)
<1>1. Period \in Nat \ {0} /\ t \in Nat /\ Instants \in SUBSET Nat
  BY Constants, Zenon
<1>2. t \div Period \in Nat
  BY <1>1, DivMod, Zenon
<1>3. Start(t) \in Nat
  BY <1>1, <1>2 DEF Start
<1>4. Start(t) <= t /\ t < Start(t) + Period
  BY <1>1, FloorBounds DEF Start
<1>5. Start(t) \in Instants
  BY <1>1, <1>3, <1>4, TimeAssumption DEF Instants
<1>6. ASSUME NEW u \in Instants, t <= u PROVE Start(t) <= Start(u)
  <2>1. u \in Nat /\ u \div Period \in Nat
    BY <1>1, DivMod, Zenon
  <2>2. t \div Period <= u \div Period
    BY <1>1, <1>6, <2>1, DivMonotone
  <2>. QED
    BY <1>1, <1>2, <2>1, <2>2, Monotone DEF Start
<1>. QED
  BY <1>1, <1>3, <1>4, <1>5, <1>6, Zenon

------------------------------------------------------------------------------
(* The state that a call works on. *)

States ==
    [present : {TRUE}, revision : SamePeriod, last : Instants, window : Nat, used : Nat,
     segments : [Slots -> Segment], period : {0, Period}, carried : BOOLEAN]

\* What the log l says is in use at `at'.
Account(at, l) ==
    IF algorithm = "fixed" THEN l[Start(at)] ELSE SumFunctionOnSet(l, Counted(Gone(at)))

\* At `at', the counter of a fixed window is the log's, and nothing later is logged.
FixedReady(s, at, l) ==
    /\ l[Start(at)] = IF s.window = Start(at) THEN s.used ELSE 0
    /\ \A t \in Instants : t > Start(at) => l[t] = 0

\* At `at', the ring of a sliding window holds at least the log that counts.
SlidingReady(s, at, l) ==
    \E old \in Int : old <= Gone(at) /\ Ring(Instants, Period, Segments, s.segments, old, l)

Ready(s, at, l) ==
    /\ s \in States /\ at \in Instants /\ s.last <= at
    /\ l \in [Instants -> Nat] /\ \A t \in Instants : t > at => l[t] = 0
    /\ algorithm \in {"fixed", "sliding"}
    /\ algorithm = "fixed" => FixedReady(s, at, l)
    /\ algorithm = "sliding" => SlidingReady(s, at, l)

\* The stored state accounts for the log at the instant it was written.
Sound(s, l) ==
    /\ Ready(s, s.last, l)
    /\ algorithm = "fixed" => s.window = Start(s.last)

\* A log and the sums over it.
LEMMA LogFacts ==
    ASSUME NEW l \in [Instants -> Nat], NEW at \in Instants
    PROVE  /\ Timeline(Instants, Period, Segments, l)
           /\ Account(at, l) \in Nat
<1>1. Timeline(Instants, Period, Segments, l)
  BY Constants, Zenon DEF Timeline
<1>2. IsFiniteSet(Counted(Gone(at))) /\ \A t \in Counted(Gone(at)) : l[t] \in Nat
  BY <1>1, CountingFacts, Zenon DEF Counted
<1>3. SumFunctionOnSet(l, Counted(Gone(at))) \in Nat
  BY <1>2, SumNat, Zenon
<1>4. l[Start(at)] \in Nat
  BY StartFacts, Zenon
<1>. QED
  BY <1>1, <1>3, <1>4, Zenon DEF Account

\* Time passes: what the state accounts for can only leave the window.
LEMMA LoadedReady ==
    ASSUME NEW s, NEW l, Sound(s, l), NEW at \in Instants, s.last <= at
    PROVE  Ready(s, at, l) /\ Account(at, l) <= Account(s.last, l)
<1>1. /\ s \in States /\ l \in [Instants -> Nat] /\ s.last \in Instants
      /\ \A t \in Instants : t > s.last => l[t] = 0
      /\ algorithm \in {"fixed", "sliding"}
  BY Zenon DEF Sound, Ready
<1>2. at \in Int /\ s.last \in Int /\ \A t \in Instants : t \in Int
  BY <1>1, Constants, Zenon
<1>3. \A t \in Instants : t > at => l[t] = 0
  <2>1. \A t \in Instants : t > at => t > s.last
    BY <1>2
  <2>. QED
    BY <1>1, <2>1, Zenon
<1>4. CASE algorithm = "fixed"
  <2> DEFINE a == Start(at)
             b == Start(s.last)
  <2>1. /\ s.window = b /\ l[b] = s.used
        /\ \A t \in Instants : t > b => l[t] = 0
    BY <1>4, Zenon DEF Sound, Ready, FixedReady
  <2>2. a \in Instants /\ a \in Int /\ b \in Int /\ b <= a
    <3>1. a \in Instants /\ b \in Instants /\ b <= a
      BY <1>1, StartFacts, Zenon
    <3>. QED
      BY <1>2, <3>1, Zenon
  <2>. HIDE DEF a, b
  <2>3. a = b \/ (a # b /\ l[a] = 0)
    <3>1. a = b \/ (a # b /\ a > b)
      BY <2>2
    <3>. QED
      BY <2>1, <2>2, <3>1, Zenon
  <2>4. \A t \in Instants : t > a => l[t] = 0
    <3>1. \A t \in Instants : t > a => t > b
      BY <1>2, <2>2
    <3>. QED
      BY <2>1, <3>1, Zenon
  <2>5. FixedReady(s, at, l)
    BY <2>1, <2>3, <2>4, Zenon DEF FixedReady, a
  <2>6. l[a] <= l[b]
    <3>1. l[a] \in Nat /\ l[b] \in Nat
      BY <1>1, StartFacts, Zenon DEF a, b
    <3>. QED
      BY <2>3, <3>1
  <2>. QED
    BY <1>1, <1>3, <1>4, <2>5, <2>6, Zenon DEF Ready, Account, a, b
<1>5. CASE algorithm = "sliding"
  <2>1. Gone(s.last) \in Int /\ Gone(at) \in Int /\ Gone(s.last) <= Gone(at)
    BY <1>2, Constants, SegmentFacts, Zenon DEF Gone
  <2>2. PICK old \in Int : old <= Gone(s.last) /\ Ring(Instants, Period, Segments, s.segments, old, l)
    BY <1>5, Zenon DEF Sound, Ready, SlidingReady
  <2>3. old <= Gone(at)
    BY <2>1, <2>2
  <2>4. Ready(s, at, l)
    BY <1>1, <1>3, <1>5, <2>2, <2>3, Zenon DEF Ready, SlidingReady
  <2>5. Timeline(Instants, Period, Segments, l)
    BY <1>1, LogFacts, Zenon
  <2>6. /\ IsFiniteSet(Counted(Gone(s.last)))
        /\ \A t \in Counted(Gone(s.last)) : l[t] \in Nat
        /\ \A t \in Counted(Gone(at)) : SegmentOf(Period, Segments, t) \in Int /\ t \in Instants
    BY <2>5, CountingFacts, Zenon DEF Counted
  <2>7. Counted(Gone(at)) \subseteq Counted(Gone(s.last))
    <3>1. ASSUME NEW t \in Counted(Gone(at)) PROVE SegmentOf(Period, Segments, t) > Gone(s.last)
      <4>1. SegmentOf(Period, Segments, t) > Gone(at) /\ SegmentOf(Period, Segments, t) \in Int
        BY <2>6, Zenon DEF Counted, Counting
      <4>. QED
        BY <2>1, <4>1
    <3>. QED
      BY <2>6, <3>1, Zenon DEF Counted, Counting
  <2>8. SumFunctionOnSet(l, Counted(Gone(at))) <= SumFunctionOnSet(l, Counted(Gone(s.last)))
    BY <2>6, <2>7, SumSubset, Zenon
  <2>. QED
    BY <1>5, <2>4, <2>8 DEF Account
<1>. QED
  BY <1>1, <1>4, <1>5, Zenon

\* New state accounts for a log whose admissions are a period old.
LEMMA FreshReady ==
    ASSUME NEW mode, NEW r \in SamePeriod, NEW now \in Instants, NEW l \in [Instants -> Nat],
           \A t \in Instants : l[t] # 0 => t + Period <= now,
           algorithm \in {"fixed", "sliding"}
    PROVE  Ready(Empty(mode, r, now), now, l) /\ Account(now, l) = 0
<1> DEFINE s == Empty(mode, r, now)
<1>1. now \in Int /\ Period \in Nat \ {0} /\ \A t \in Instants : t \in Int /\ l[t] \in Nat
  BY Constants, Zenon
<1>2. s \in States /\ s.last = now /\ s.window = 0 /\ s.used = 0
      /\ s.segments = [slot \in Slots |-> Absent]
  BY Shared DEF States, Empty, Absent, Segment
<1>3. ASSUME NEW t \in Instants, t > now - Period PROVE l[t] = 0
  BY <1>1, <1>3
<1>4. \A t \in Instants : t > now => l[t] = 0
  BY <1>1, <1>3
<1>. HIDE DEF s
<1>5. CASE algorithm = "fixed"
  <2>1. Start(now) \in Instants /\ Start(now) > now - Period /\ Start(now) \in Int
    <3>1. Start(now) \in Instants /\ Start(now) \in Nat /\ now < Start(now) + Period
      BY StartFacts, Zenon
    <3>. QED
      BY <1>1, <3>1
  <2>2. \A t \in Instants : t > Start(now) => l[t] = 0
    BY <1>1, <1>3, <2>1
  <2>3. l[Start(now)] = 0
    BY <1>3, <2>1, Zenon
  <2>4. FixedReady(s, now, l)
    BY <1>2, <2>2, <2>3, Zenon DEF FixedReady
  <2>5. s.last <= now
    BY <1>1, <1>2
  <2>. QED
    BY <1>2, <1>4, <1>5, <2>3, <2>4, <2>5, Zenon DEF Ready, Account, s
<1>6. CASE algorithm = "sliding"
  <2>1. Timeline(Instants, Period, Segments, l) /\ Gone(now) \in Int
    BY <1>1, LogFacts, Constants, SegmentFacts, Zenon DEF Gone
  <2>2. \A t \in Counted(Gone(now)) : t > now - Period /\ t \in Instants
    BY <1>4, <2>1, CountingBounds, CountingFacts, Zenon DEF Counted, Gone
  <2>3. \A t \in Counted(Gone(now)) : l[t] = 0
    BY <1>3, <2>2, Zenon
  <2>4. \A slot \in 0 .. Segments - 1 : s.segments[slot].used = 0
    BY <1>2, Constants DEF Absent
  <2>5. Ring(Instants, Period, Segments, s.segments, Gone(now), l)
    BY <2>1, <2>3, <2>4, RingEmpty, Zenon DEF Counted
  <2>6. SumFunctionOnSet(l, Counted(Gone(now))) = 0
    BY <2>1, <2>3, CountingFacts, SumZero, Zenon DEF Counted
  <2>7. s.last <= now /\ Gone(now) <= Gone(now)
    BY <1>1, <1>2, <2>1
  <2>8. SlidingReady(s, now, l)
    BY <2>1, <2>5, <2>7, Zenon DEF SlidingReady
  <2>. QED
    BY <1>2, <1>4, <1>6, <2>6, <2>7, <2>8 DEF Ready, Account, s
<1>. QED
  BY <1>5, <1>6, Zenon

\* The ring without the segments that left the window.
LEMMA LiveRing ==
    ASSUME NEW s, NEW at, NEW l, Ready(s, at, l), algorithm = "sliding", NEW r \in SamePeriod
    PROVE  /\ Live(s, r, at) \in [Slots -> Segment]
           /\ Ring(Instants, Period, Segments, Live(s, r, at), Gone(at), l)
           /\ \A slot \in Slots :
                Live(s, r, at)[slot] = IF s.segments[slot].index <= Gone(at) THEN Absent ELSE s.segments[slot]
<1> DEFINE live == Live(s, r, at)
           g    == s.segments
<1>1. /\ g \in [Slots -> Segment] /\ at \in Instants /\ l \in [Instants -> Nat]
      /\ Oldest(r, at) = Gone(at)
  BY Shared, Zenon DEF Ready, States
<1>2. Timeline(Instants, Period, Segments, l) /\ Slots = 0 .. Segments - 1 /\ Gone(at) \in Int
  BY <1>1, LogFacts, Constants, SegmentFacts, Zenon DEF Gone
<1>3. \A slot \in Slots : live[slot] = IF g[slot].index <= Gone(at) THEN Absent ELSE g[slot]
  BY <1>1, Zenon DEF Live
<1>4. Absent \in Segment /\ Absent.used = 0
  BY DEF Absent, Segment
<1>5. live \in [Slots -> Segment]
  <2>1. live = [slot \in Slots |-> IF g[slot].index <= Gone(at) THEN Absent ELSE g[slot]]
    BY <1>1, Zenon DEF Live
  <2>. HIDE DEF live, g
  <2>. QED
    BY <1>1, <1>4, <2>1, Zenon
<1>6. PICK old \in Int : old <= Gone(at) /\ Ring(Instants, Period, Segments, g, old, l)
  BY Zenon DEF Ready, SlidingReady
<1>7. \A slot \in 0 .. Segments - 1 : IF g[slot].index <= Gone(at) THEN live[slot].used = 0 ELSE live[slot] = g[slot]
  BY <1>2, <1>3, <1>4, Zenon
<1>. HIDE DEF live, g
<1>8. Ring(Instants, Period, Segments, live, Gone(at), l)
  BY <1>1, <1>2, <1>6, <1>7, RingCleared, Zenon
<1>. QED
  BY <1>3, <1>5, <1>8, Zenon DEF live, g

\* What a call finds in use is what the log says.
LEMMA UsageFacts ==
    ASSUME NEW s, NEW at, NEW l, Ready(s, at, l), NEW r \in SamePeriod
    PROVE  Usage(s, r, at) = Account(at, l) /\ Account(at, l) \in Nat
<1>1. /\ s \in States /\ at \in Instants /\ l \in [Instants -> Nat]
      /\ algorithm \in {"fixed", "sliding"} /\ WindowStart(r, at) = Start(at) /\ Oldest(r, at) = Gone(at)
  BY Shared, Zenon DEF Ready
<1>2. Account(at, l) \in Nat /\ Timeline(Instants, Period, Segments, l)
  BY <1>1, LogFacts, Zenon
<1>3. CASE algorithm = "fixed"
  <2>1. algorithm # "sliding"
    BY <1>3
  <2>. QED
    BY <1>1, <1>2, <1>3, <2>1, Zenon DEF Usage, Account, Ready, FixedReady
<1>4. CASE algorithm = "sliding"
  <2> DEFINE live == Live(s, r, at)
             h    == [slot \in Slots |-> live[slot].used]
             f    == [slot \in Slots |-> s.segments[slot].used]
             U    == InUse(s, r, at)
  <2>1. /\ Ring(Instants, Period, Segments, live, Gone(at), l)
        /\ \A slot \in Slots : live[slot] = IF s.segments[slot].index <= Gone(at) THEN Absent ELSE s.segments[slot]
    BY <1>4, LiveRing, Zenon
  <2>2. Slots = 0 .. Segments - 1 /\ IsFiniteSet(Slots) /\ Gone(at) \in Int
    BY <1>1, Constants, SegmentFacts, Zenon DEF Gone
  <2>3. \A slot \in 0 .. Segments - 1 : h[slot] = live[slot].used
    BY <2>2, Zenon
  <2>4. U = {slot \in Slots : s.segments[slot].used > 0 /\ s.segments[slot].index > Gone(at)}
    BY <1>1, Zenon DEF InUse
  <2>5. \A slot \in Slots : s.segments[slot].used \in Nat /\ s.segments[slot].index \in Int
    BY <1>1, Zenon DEF States, Segment
  <2>. HIDE DEF live
  <2>6. ASSUME NEW slot \in U PROVE f[slot] = h[slot] /\ slot \in Slots
    <3>1. slot \in Slots /\ s.segments[slot].index > Gone(at)
      BY <2>4, Zenon
    <3>2. ~(s.segments[slot].index <= Gone(at))
      BY <2>2, <2>5, <3>1
    <3>. QED
      BY <2>1, <3>1, <3>2, Zenon
  <2>7. ASSUME NEW slot \in Slots, slot \notin U PROVE h[slot] = 0
    <3>1. s.segments[slot].used = 0 \/ s.segments[slot].index <= Gone(at)
      BY <2>2, <2>4, <2>5, <2>7
    <3>2. Absent.used = 0
      BY DEF Absent
    <3>. QED
      BY <2>1, <3>1, <3>2, Zenon
  <2>. HIDE DEF h, f, U
  <2>8. SumFunctionOnSet(h, Slots) = SumFunctionOnSet(l, Counted(Gone(at))) /\ \A slot \in Slots : h[slot] \in Nat
    <3>1. /\ SumFunctionOnSet(h, 0 .. Segments - 1) = SumFunctionOnSet(l, Counted(Gone(at)))
          /\ \A slot \in 0 .. Segments - 1 : h[slot] \in Nat
      BY <1>2, <2>1, <2>3, RingTotal DEF Counted
    <3>. QED
      BY <2>2, <3>1, Zenon
  <2>9. U \subseteq Slots /\ IsFiniteSet(U)
    BY <2>2, <2>6, FS_Subset, Zenon
  <2>10. SumFunctionOnSet(f, U) = SumFunctionOnSet(h, U)
    BY <2>6, <2>9, SumEqual, Zenon
  <2>11. SumFunctionOnSet(h, U) = SumFunctionOnSet(h, Slots)
    <3>1. \A slot \in Slots \ U : h[slot] = 0
      BY <2>7, Zenon
    <3>. QED
      BY <2>2, <2>8, <2>9, <3>1, SumSubset, Zenon
  <2>12. Usage(s, r, at) = SumFunctionOnSet(f, U) /\ algorithm # "fixed"
    BY <1>4 DEF Usage, f, U
  <2>. QED
    BY <1>2, <2>8, <2>10, <2>11, <2>12, Zenon DEF Account
<1>. QED
  BY <1>1, <1>3, <1>4, Zenon

\* No segment in use is out of place.
LEMMA NotMisplaced ==
    ASSUME NEW s, NEW at, NEW l, Ready(s, at, l), algorithm = "sliding", NEW r \in SamePeriod
    PROVE  ~Misplaced(s, r, at)
<1> DEFINE N(t) == SegmentOf(Period, Segments, t)
<1>1. /\ s \in States /\ at \in Instants /\ l \in [Instants -> Nat] /\ Index(r, at) = N(at)
      /\ \A t \in Instants : t > at => l[t] = 0
  BY Shared, Zenon DEF Ready
<1>2. SUFFICES ASSUME NEW slot \in InUse(s, r, at)
               PROVE  ~(s.segments[slot].index > N(at)) /\ s.segments[slot].index % Segments = slot
  BY <1>1, Zenon DEF Misplaced
<1>3. slot \in Slots /\ s.segments[slot].used > 0 /\ s.segments[slot].used \in Nat
  BY <1>1, Zenon DEF InUse, States, Segment
<1>4. s.segments[slot].used # 0 /\ slot \in 0 .. Segments - 1
  BY <1>3, Constants
<1>5. PICK old \in Int : old <= Gone(at) /\ Ring(Instants, Period, Segments, s.segments, old, l)
  BY Zenon DEF Ready, SlidingReady
<1>6. Timeline(Instants, Period, Segments, l)
  BY <1>1, LogFacts, Zenon
<1>7. PICK t \in Counting(Instants, Period, Segments, old) :
         l[t] # 0 /\ N(t) % Segments = slot /\ s.segments[slot].index = N(t)
  <2> DEFINE g == s.segments
  <2>1. Ring(Instants, Period, Segments, g, old, l) /\ g[slot].used # 0
    BY <1>4, <1>5, Zenon
  <2>. HIDE DEF g
  <2>2. \E t \in Counting(Instants, Period, Segments, old) :
           /\ l[t] # 0 /\ SegmentOf(Period, Segments, t) % Segments = slot
           /\ g[slot].index = SegmentOf(Period, Segments, t)
    BY <1>4, <1>6, <2>1, RingPlaces
  <2>. QED
    BY <2>2, Zenon DEF g
<1>8. t \in Instants /\ t \in Int /\ at \in Int /\ ~(t > at) /\ Period \in Nat \ {0} /\ Segments \in Nat \ {0}
  BY <1>1, <1>6, <1>7, CountingFacts, Constants, Zenon
<1>9. t <= at
  BY <1>8
<1>10. N(t) \in Int /\ N(at) \in Int /\ N(t) <= N(at)
  BY <1>8, <1>9, SegmentFacts, Zenon
<1>. HIDE DEF N
<1>11. ~(N(t) > N(at))
  BY <1>10
<1>. QED
  BY <1>7, <1>11, Zenon

------------------------------------------------------------------------------
(* A call: the decision, the log and the state it leaves. *)

\* The log after a decision, as Answer has it.
Entered(l, d) ==
    [t \in Instants |->
        IF algorithm = "sliding" /\ t <= d.at - Period THEN 0
        ELSE l[t] + IF /\ d.outcome = "allowed"
                       /\ t = IF algorithm = "fixed" THEN WindowStart(d.revision, d.at) ELSE d.at
                    THEN d.cost ELSE 0]

Charge(d) == IF d.outcome = "allowed" THEN d.cost ELSE 0

\* A decision about a request, given what is in use.
Decided(d, r, cost, at, u) ==
    /\ d.revision = r /\ d.cost = cost /\ d.at = at
    /\ \/ d.outcome = "allowed" /\ u + cost <= Policy[r].limit
       \/ d.outcome = "limited" /\ u + cost > Policy[r].limit

\* What the run checks of a decision and the log after it.
Judged(d, l) ==
    LET r == d.revision
    IN  /\ algorithm = "fixed" /\ d.outcome = "allowed" =>
              l[WindowStart(r, d.at)] <= Policy[r].limit
        /\ algorithm = "sliding" /\ d.outcome = "allowed" =>
              Between(Instants, l, d.at - Period + Width(r), d.at) <= Policy[r].limit
        /\ d.outcome = "limited" =>
              d.cost + (IF algorithm = "fixed" THEN l[WindowStart(r, d.at)]
                        ELSE Between(Instants, l, d.at - Period + 1, d.at))
                > Policy[r].limit

\* Both backends give out what is left.
LEMMA DecisionFacts ==
    ASSUME NEW s, NEW at, NEW l, Ready(s, at, l), NEW r \in SamePeriod, NEW cost \in 1 .. Policy[r].maxCost
    PROVE  /\ cost \in Nat
           /\ Decided(DecideRow(s, r, cost, at), r, cost, at, Account(at, l))
           /\ Decided(DecideScript(s, r, cost, at), r, cost, at, Account(at, l))
<1> DEFINE u == Usage(s, r, at)
           k == Policy[r].limit
           left == Later(k - u, 0)
<1>1. u \in Nat /\ u = Account(at, l) /\ k \in Nat \ {0} /\ Policy[r].maxCost \in 1 .. k
  BY UsageFacts, Shared, Zenon
<1>2. cost \in Nat \ {0}
  BY <1>1
<1>3. DecideScript(s, r, cost, at) = DecideRow(s, r, cost, at)
  BY Zenon DEF DecideRow, DecideScript
<1> DEFINE d == DecideRow(s, r, cost, at)
<1>4. /\ d.revision = r /\ d.cost = cost /\ d.at = at
      /\ d.outcome = IF cost <= left THEN "allowed" ELSE "limited"
  BY Zenon DEF DecideRow
<1>. HIDE DEF u, k, d
<1>5. cost <= left <=> u + cost <= k
  BY <1>1, <1>2 DEF Later
<1>6. ~(u + cost <= k) => u + cost > k
  BY <1>1, <1>2
<1>. HIDE DEF left
<1>7. Decided(d, r, cost, at, u)
  BY <1>4, <1>5, <1>6, Zenon DEF Decided, k
<1>. QED
  BY <1>1, <1>2, <1>3, <1>7, Zenon DEF d

\* The log m is the log l with c charged at `at', or in the window of `at'.
Posted(at, l, m, c) ==
    /\ m \in [Instants -> Nat] /\ \A t \in Instants : t > at => m[t] = 0
    /\ algorithm = "fixed" => \A t \in Instants : t > Start(at) => m[t] = 0
    /\ algorithm = "sliding" =>
          m[at] = l[at] + c /\ \A t \in Counted(Gone(at)) : t # at => m[t] = l[t]
    /\ Account(at, m) = Account(at, l) + c

\* What a decision adds to the log, and what the log forgets, which no longer counts.
LEMMA EntryFacts ==
    ASSUME NEW s, NEW at, NEW l, Ready(s, at, l), NEW r \in SamePeriod, NEW cost \in Nat,
           NEW d, Decided(d, r, cost, at, Account(at, l))
    PROVE  Posted(at, l, Entered(l, d), Charge(d)) /\ Charge(d) \in Nat
<1> DEFINE m == Entered(l, d)
           c == Charge(d)
           x == IF algorithm = "fixed" THEN Start(at) ELSE at
<1>1. /\ at \in Instants /\ l \in [Instants -> Nat] /\ \A t \in Instants : t > at => l[t] = 0
      /\ algorithm \in {"fixed", "sliding"} /\ d.at = at /\ d.revision = r /\ d.cost = cost
  BY Zenon DEF Ready, Decided
<1>2. /\ at \in Int /\ Period \in Nat \ {0} /\ \A t \in Instants : t \in Int /\ l[t] \in Nat
      /\ Start(at) \in Instants /\ Start(at) \in Int /\ Start(at) <= at
  BY <1>1, Constants, StartFacts, Zenon
<1>3. c \in Nat
  BY <1>1, Zenon DEF Charge
<1>4. WindowStart(r, at) = Start(at)
  BY Shared, Zenon
<1>5. x \in Instants
  BY <1>1, <1>2, Zenon
<1>6. ASSUME NEW t \in Instants
      PROVE  m[t] = IF algorithm = "sliding" /\ t <= at - Period THEN 0
                    ELSE l[t] + IF t = x THEN c ELSE 0
  <2>1. m[t] = IF algorithm = "sliding" /\ t <= at - Period THEN 0
               ELSE l[t] + IF d.outcome = "allowed" /\ t = x THEN cost ELSE 0
    BY <1>1, <1>4, Zenon DEF Entered
  <2>2. c = IF d.outcome = "allowed" THEN cost ELSE 0
    BY <1>1, Zenon DEF Charge
  <2>. HIDE DEF m, c, x
  <2>. QED
    BY <2>1, <2>2, Zenon
<1>7. m = [t \in Instants |-> m[t]]
  BY Zenon DEF Entered
<1>. HIDE DEF m, c
<1>8. m \in [Instants -> Nat]
  <2>1. ASSUME NEW t \in Instants PROVE m[t] \in Nat
    BY <1>2, <1>3, <1>6
  <2>. QED
    BY <1>7, <2>1, Zenon
<1>9. CASE algorithm = "fixed"
  <2>1. \A t \in Instants : m[t] = l[t] + IF t = Start(at) THEN c ELSE 0
    BY <1>6, <1>9
  <2>2. \A t \in Instants : t > Start(at) => l[t] = 0
    BY <1>9, Zenon DEF Ready, FixedReady
  <2>3. \A t \in Instants : t > Start(at) => m[t] = 0
    BY <1>2, <2>1, <2>2
  <2>4. \A t \in Instants : t > at => m[t] = 0
    BY <1>2, <2>3
  <2>5. m[Start(at)] = l[Start(at)] + c
    BY <1>2, <2>1, Zenon
  <2>6. algorithm # "sliding"
    BY <1>9
  <2>. QED
    BY <1>3, <1>8, <1>9, <2>3, <2>4, <2>5, <2>6, Zenon DEF Posted, Account, m, c
<1>10. CASE algorithm = "sliding"
  <2>1. Timeline(Instants, Period, Segments, l)
    BY <1>1, LogFacts, Zenon
  <2>2. /\ IsFiniteSet(Counted(Gone(at)))
        /\ \A t \in Counted(Gone(at)) : t \in Instants /\ t > at - Period /\ l[t] \in Nat
    <3>1. \A t \in Counted(Gone(at)) : t > at - Period
      BY <1>1, <2>1, CountingBounds, Zenon DEF Counted, Gone
    <3>2. IsFiniteSet(Counted(Gone(at))) /\ \A t \in Counted(Gone(at)) : t \in Instants /\ l[t] \in Nat
      BY <2>1, CountingFacts, Zenon DEF Counted
    <3>. QED
      BY <3>1, <3>2, Zenon
  <2>3. at \in Counted(Gone(at)) /\ ~(at <= at - Period)
    <3>1. Gone(at) \in Int /\ SegmentOf(Period, Segments, at) \in Int /\ Gone(at) < SegmentOf(Period, Segments, at)
      BY <1>2, Constants, SegmentFacts, Zenon DEF Gone
    <3>2. SegmentOf(Period, Segments, at) > Gone(at) /\ ~(at <= at - Period)
      BY <1>2, <3>1
    <3>. QED
      BY <1>1, <3>2, Zenon DEF Counted, Counting
  <2>4. algorithm # "fixed" /\ x = at
    BY <1>10
  <2>. HIDE DEF x
  <2>5. m[at] = l[at] + c
    BY <1>1, <1>6, <2>3, <2>4, Zenon
  <2>6. \A t \in Counted(Gone(at)) : t # at => m[t] = l[t]
    <3>1. ASSUME NEW t \in Counted(Gone(at)), t # at PROVE m[t] = l[t]
      BY <1>2, <1>6, <2>2, <2>4, <3>1
    <3>. QED
      BY <3>1, Zenon
  <2>7. \A t \in Instants : t > at => m[t] = 0
    BY <1>1, <1>2, <1>6, <2>4
  <2>8. SumFunctionOnSet(m, Counted(Gone(at))) = SumFunctionOnSet(l, Counted(Gone(at))) + c
    <3>1. \A t \in Counted(Gone(at)) : l[t] \in Nat
      BY <2>2, Zenon
    <3> DEFINE C == Counted(Gone(at))
    <3>2. /\ IsFiniteSet(C) /\ at \in C /\ c \in Nat
          /\ \A t \in C : l[t] \in Nat
          /\ \A t \in C : t # at => m[t] = l[t]
      BY <1>3, <2>2, <2>3, <2>6, <3>1, Zenon
    <3>. HIDE DEF C, c, m
    <3>3. SumFunctionOnSet(m, C) = SumFunctionOnSet(l, C) + c
      BY <2>5, <3>2, SumChange
    <3>. QED
      BY <3>3, Zenon DEF C
  <2>. QED
    BY <1>3, <1>8, <2>4, <2>5, <2>6, <2>7, <2>8, Zenon DEF Posted, Account, m, c
<1>. QED
  BY <1>1, <1>9, <1>10, Zenon

\* The decision is right about the log.
LEMMA Judge ==
    ASSUME NEW s, NEW at, NEW l, Ready(s, at, l), NEW r \in SamePeriod, NEW cost \in Nat,
           NEW d, Decided(d, r, cost, at, Account(at, l))
    PROVE  Judged(d, Entered(l, d))
<1> DEFINE m == Entered(l, d)
           u == Account(at, l)
           k == Policy[r].limit
           w == SegmentWidth(Period, Segments)
           A == Between(Instants, m, at - Period + w, at)
           B == Between(Instants, m, at - Period + 1, at)
<1>1. /\ at \in Instants /\ l \in [Instants -> Nat] /\ algorithm \in {"fixed", "sliding"}
      /\ d.at = at /\ d.revision = r /\ d.cost = cost
  BY Zenon DEF Ready, Decided
<1>2. Posted(at, l, m, Charge(d)) /\ Charge(d) \in Nat
  BY EntryFacts, Zenon
<1>3. k \in Nat /\ WindowStart(r, at) = Start(at) /\ Width(r) = w
  BY Shared, Zenon
<1>4. m \in [Instants -> Nat] /\ \A t \in Instants : t > at => m[t] = 0
  BY <1>2, Zenon DEF Posted
<1>. HIDE DEF m
<1>5. u \in Nat /\ Account(at, m) \in Nat /\ Account(at, m) = u + Charge(d)
  BY <1>1, <1>2, <1>4, LogFacts, Zenon DEF Posted
<1>6. CASE algorithm = "fixed"
  <2>1. m[Start(at)] = u + Charge(d) /\ algorithm # "sliding"
    BY <1>5, <1>6 DEF Account
  <2>. HIDE DEF u, k
  <2>2. d.outcome = "allowed" => m[Start(at)] <= k
    BY <1>1, <1>3, <1>5, <2>1 DEF Decided, Charge, k, u
  <2>3. d.outcome = "limited" => cost + m[Start(at)] > k
    BY <1>1, <1>3, <1>5, <2>1 DEF Decided, Charge, k, u
  <2>. QED
    BY <1>1, <1>3, <1>6, <2>1, <2>2, <2>3, Zenon DEF Judged, m, k
<1>7. CASE algorithm = "sliding"
  <2>1. Timeline(Instants, Period, Segments, m) /\ algorithm # "fixed"
    BY <1>1, <1>4, <1>7, LogFacts
  <2>2. A \in Nat /\ B \in Nat /\ A <= Account(at, m) /\ Account(at, m) <= B
    <3> DEFINE C == SumFunctionOnSet(m, Counting(Instants, Period, Segments, LastGone(Period, Segments, at)))
    <3>1. A \in Nat /\ B \in Nat /\ A <= C /\ C <= B
      BY <1>1, <1>4, <2>1, CountingBounds, Zenon
    <3>2. C = Account(at, m)
      BY <2>1, Zenon DEF Account, Counted, Gone
    <3>. QED
      BY <3>1, <3>2, Zenon
  <2>. HIDE DEF A, B, u, k
  <2>3. d.outcome = "allowed" => A <= k
    BY <1>1, <1>3, <1>5, <2>2 DEF Decided, Charge, k, u
  <2>4. d.outcome = "limited" => cost + B > k
    BY <1>1, <1>3, <1>5, <2>2 DEF Decided, Charge, k, u
  <2>. QED
    BY <1>1, <1>3, <2>1, <2>3, <2>4, Zenon DEF Judged, m, k, A, B
<1>. QED
  BY <1>1, <1>6, <1>7, Zenon

\* The state a call writes accounts for the log.
LEMMA StoredSound ==
    ASSUME NEW s, NEW at, NEW l, Ready(s, at, l), NEW r \in SamePeriod, NEW c \in Nat,
           NEW m, Posted(at, l, m, c), NEW v \in States, v.last = at,
           algorithm = "fixed" => v.window = Start(at) /\ v.used = Account(at, m),
           algorithm = "sliding" =>
              \/ v.segments = Charged(Live(s, r, at), r, c, at)
              \/ c = 0 /\ v.segments = Live(s, r, at)
    PROVE  Sound(v, m)
<1>1. /\ at \in Instants /\ l \in [Instants -> Nat] /\ \A t \in Instants : t > at => l[t] = 0
      /\ algorithm \in {"fixed", "sliding"}
      /\ m \in [Instants -> Nat] /\ \A t \in Instants : t > at => m[t] = 0
  BY Zenon DEF Ready, Posted
<1>2. at \in Int /\ v.last <= at
  BY <1>1, Constants
<1>3. CASE algorithm = "fixed"
  <2>1. v.window = Start(at) /\ v.used = m[Start(at)] /\ algorithm # "sliding"
    BY <1>3 DEF Account
  <2>2. FixedReady(v, at, m)
    BY <1>3, <2>1, Zenon DEF FixedReady, Posted
  <2>. QED
    BY <1>1, <1>2, <1>3, <2>1, <2>2, Zenon DEF Sound, Ready
<1>4. CASE algorithm = "sliding"
  <2> DEFINE live == Live(s, r, at)
             q    == SegmentOf(Period, Segments, at)
  <2>1. /\ live \in [Slots -> Segment] /\ Ring(Instants, Period, Segments, live, Gone(at), l)
        /\ Index(r, at) = q
    BY <1>4, LiveRing, Shared, Zenon
  <2>2. /\ Slots = 0 .. Segments - 1 /\ Timeline(Instants, Period, Segments, l)
        /\ Gone(at) \in Int /\ algorithm # "fixed"
    <3>1. Gone(at) \in Int
      BY <1>2, Constants, SegmentFacts, Zenon DEF Gone
    <3>. QED
      BY <1>1, <1>4, <3>1, Constants, LogFacts
  <2>3. m[at] = l[at] + c /\ \A t \in Counted(Gone(at)) : t # at => m[t] = l[t]
    BY <1>4, Zenon DEF Posted
  <2>4. ASSUME v.segments = Charged(live, r, c, at)
        PROVE  Ring(Instants, Period, Segments, v.segments, Gone(at), m)
    <3>1. v.segments = RingWith(live, Segments, q, c)
      BY <2>1, <2>4, Zenon DEF Charged, RingWith
    <3>. HIDE DEF live
    <3>2. live \in [0 .. Segments - 1 -> Segment] /\ Ring(Instants, Period, Segments, live, LastGone(Period, Segments, at), l)
      BY <2>1, <2>2, Zenon DEF Gone
    <3>3. \A t \in Counting(Instants, Period, Segments, LastGone(Period, Segments, at)) : t # at => m[t] = l[t]
      BY <2>3, Zenon DEF Counted, Gone
    <3>. HIDE DEF q
    <3>4. Ring(Instants, Period, Segments, RingWith(live, Segments, q, c), LastGone(Period, Segments, at), m)
      BY <1>1, <2>2, <2>3, <3>2, <3>3, RingCharged, SMTT(30) DEF q
    <3>. QED
      BY <3>1, <3>4, Zenon DEF Gone
  <2>5. ASSUME c = 0, v.segments = live
        PROVE  Ring(Instants, Period, Segments, v.segments, Gone(at), m)
    <3>1. \A t \in Counted(Gone(at)) : m[t] = l[t]
      BY <1>1, <2>3, <2>5
    <3>. HIDE DEF live
    <3>2. Ring(Instants, Period, Segments, live, Gone(at), m)
      BY <2>1, <2>2, <3>1, RingAgrees, Zenon DEF Counted
    <3>. QED
      BY <2>1, <2>2, <2>5, <3>2, Zenon
  <2>6. Ring(Instants, Period, Segments, v.segments, Gone(at), m)
    BY <1>4, <2>4, <2>5, Zenon
  <2>7. Gone(at) <= Gone(at)
    BY <2>2
  <2>8. SlidingReady(v, at, m)
    BY <2>2, <2>6, <2>7, Zenon DEF SlidingReady
  <2>. QED
    BY <1>1, <1>2, <1>4, <2>2, <2>8, Zenon DEF Sound, Ready
<1>. QED
  BY <1>1, <1>3, <1>4, Zenon

\* Usage above the limit of the state's revision is marked, where a strict caller
\* wrote last.
Frugal(s, l, w) ==
    w = "strict" /\ ~s.carried => Account(s.last, l) <= Policy[s.revision].limit

\* What the marks and the counters become, whichever backend writes them.
Written(mode, s, r, at, u, c, v) ==
    /\ v \in States /\ v.last = at /\ v.revision = r
    /\ algorithm = "fixed" => v.window = Start(at) /\ v.used = u + c
    /\ algorithm = "sliding" =>
          \/ v.segments = Charged(Live(s, r, at), r, c, at)
          \/ c = 0 /\ v.segments = Live(s, r, at)
    /\ mode = "strict" /\ ~v.carried => u + c <= Policy[r].limit

\* What a call leaves behind.
Settled(mode, d, at, v, m) ==
    /\ Sound(v, m) /\ Frugal(v, m, mode) /\ v.last = at
    /\ Judged(d, m) /\ d.outcome \in {"allowed", "limited"}

LEMMA Settle ==
    ASSUME NEW mode, NEW s, NEW at, NEW l, Ready(s, at, l), NEW r \in SamePeriod, NEW cost \in Nat,
           NEW d, Decided(d, r, cost, at, Account(at, l)),
           NEW v, Written(mode, s, r, at, Account(at, l), Charge(d), v)
    PROVE  Settled(mode, d, at, v, Entered(l, d))
<1> DEFINE m == Entered(l, d)
           c == Charge(d)
<1>1. Posted(at, l, m, c) /\ c \in Nat /\ Judged(d, m)
  BY EntryFacts, Judge, Zenon
<1>. HIDE DEF m, c
<1>2. Account(at, m) = Account(at, l) + c
  BY <1>1, Zenon DEF Posted
<1>3. /\ v \in States /\ v.last = at /\ v.revision = r
      /\ algorithm = "fixed" => v.window = Start(at) /\ v.used = Account(at, m)
      /\ algorithm = "sliding" =>
            \/ v.segments = Charged(Live(s, r, at), r, c, at)
            \/ c = 0 /\ v.segments = Live(s, r, at)
      /\ mode = "strict" /\ ~v.carried => Account(at, m) <= Policy[r].limit
  BY <1>2, Zenon DEF Written, c
<1>4. Sound(v, m)
  BY <1>1, <1>3, StoredSound, Zenon
<1>5. Frugal(v, m, mode)
  BY <1>3, Zenon DEF Frugal
<1>6. d.outcome \in {"allowed", "limited"}
  BY Zenon DEF Decided
<1>. QED
  BY <1>1, <1>3, <1>4, <1>5, <1>6, Zenon DEF Settled, m

\* The ring after a call is a ring.
LEMMA ChargedFacts ==
    ASSUME NEW s, NEW at, NEW l, Ready(s, at, l), algorithm = "sliding", NEW r \in SamePeriod, NEW c \in Nat
    PROVE  Charged(Live(s, r, at), r, c, at) \in [Slots -> Segment] /\ Live(s, r, at) \in [Slots -> Segment]
<1> DEFINE live == Live(s, r, at)
           q    == Index(r, at)
           slot == q % Segments
           held == IF live[slot].index = q THEN live[slot].used ELSE 0
<1>1. live \in [Slots -> Segment]
  BY LiveRing, Zenon
<1>2. q \in Int /\ slot \in Slots
  <2>1. q = SegmentOf(Period, Segments, at) /\ at \in Int /\ Slots = 0 .. Segments - 1
    BY Shared, Constants, Zenon DEF Ready
  <2>. QED
    BY <2>1, Constants, SegmentFacts, Zenon
<1>3. Charged(live, r, c, at) = [live EXCEPT ![slot] = [index |-> q, used |-> held + c]]
  BY Zenon DEF Charged
<1>. HIDE DEF live, q, slot
<1>4. held \in Nat
  BY <1>1, <1>2, Zenon DEF Segment
<1>. HIDE DEF held
<1>5. [index |-> q, used |-> held + c] \in Segment
  BY <1>2, <1>4 DEF Segment
<1>. QED
  BY <1>1, <1>2, <1>3, <1>5, Zenon DEF live

\* A transaction.
LEMMA RowCall ==
    ASSUME NEW mode \in {"released", "strict"}, NEW s, NEW at, NEW l, Ready(s, at, l),
           NEW r \in SamePeriod, NEW cost \in 1 .. Policy[r].maxCost,
           NEW d, d = DecideRow(s, r, cost, at), NEW v, v = WrittenRow(mode, s, r, d)
    PROVE  Settled(mode, d, at, v, Entered(l, d))
<1> DEFINE u == Account(at, l)
           c == Charge(d)
           next == IF algorithm = "fixed" THEN FixedRow(s, r, at, c) ELSE SlidingRow(s, r, at, c)
           period  == IF mode = "strict" THEN Policy[r].period ELSE s.period
           carried == IF mode = "strict" THEN u > Policy[r].limit ELSE s.carried
<1>1. cost \in Nat /\ Decided(d, r, cost, at, u)
  BY DecisionFacts, Zenon
<1>2. c \in Nat
  BY <1>1, Zenon DEF Decided, Charge
<1>3. /\ d.at = at /\ Usage(s, r, at) = u /\ u \in Nat /\ s \in States /\ at \in Instants
      /\ algorithm \in {"fixed", "sliding"} /\ WindowStart(r, at) = Start(at) /\ Start(at) \in Nat
      /\ Policy[r].limit \in Nat /\ Policy[r].period = Period
  <2>1. d.at = at /\ s \in States /\ at \in Instants /\ algorithm \in {"fixed", "sliding"}
    BY <1>1, Zenon DEF Decided, Ready
  <2>2. Usage(s, r, at) = u /\ u \in Nat
    BY UsageFacts, Zenon
  <2>3. WindowStart(r, at) = Start(at) /\ Policy[r].limit \in Nat /\ Policy[r].period = Period
    BY Shared, Zenon
  <2>4. Start(at) \in Nat
    BY <2>1, StartFacts, Zenon
  <2>. QED
    BY <2>1, <2>2, <2>3, <2>4, Zenon
<1>. HIDE DEF u
<1>4. v = [next EXCEPT !.revision = r, !.last = at,
                       !.period = IF mode = "strict" THEN Policy[r].period ELSE @,
                       !.carried = IF mode = "strict" THEN u > Policy[r].limit ELSE @]
  BY <1>3, Zenon DEF WrittenRow, Charge
<1>. HIDE DEF c
<1>5. /\ next \in States /\ next.period = s.period /\ next.carried = s.carried
      /\ algorithm = "fixed" => next.window = Start(at) /\ next.used = u + c
      /\ algorithm = "sliding" => next.segments = Charged(Live(s, r, at), r, c, at)
  <2>1. CASE algorithm = "fixed"
    <3>1. next = [s EXCEPT !.window = Start(at), !.used = u + c] /\ algorithm # "sliding"
      BY <1>3, <2>1 DEF FixedRow
    <3>2. u + c \in Nat
      BY <1>2, <1>3
    <3>. HIDE DEF next
    <3>. QED
      BY <1>3, <2>1, <3>1, <3>2, Zenon DEF States
  <2>2. CASE algorithm = "sliding"
    <3>1. next = [s EXCEPT !.segments = Charged(Live(s, r, at), r, c, at)] /\ algorithm # "fixed"
      BY <2>2 DEF SlidingRow
    <3>2. Charged(Live(s, r, at), r, c, at) \in [Slots -> Segment]
      BY <1>2, <2>2, ChargedFacts, Zenon
    <3>. HIDE DEF next
    <3>. QED
      BY <1>3, <2>2, <3>1, <3>2, Zenon DEF States
  <2>. QED
    BY <1>3, <2>1, <2>2, Zenon
<1>. HIDE DEF next
<1>6. v = [next EXCEPT !.revision = r, !.last = at, !.period = period, !.carried = carried]
  BY <1>4, <1>5, Zenon
<1>7. period \in {0, Period} /\ carried \in BOOLEAN
  <2>1. s.period \in {0, Period} /\ s.carried \in BOOLEAN
    BY <1>3, Zenon DEF States
  <2>2. (u > Policy[r].limit) \in BOOLEAN
    BY <1>3
  <2>. QED
    BY <1>3, <2>1, <2>2, Zenon
<1>8. mode = "strict" /\ ~carried => u + c <= Policy[r].limit
  <2>1. mode = "strict" /\ ~carried => u <= Policy[r].limit
    BY <1>3
  <2>. QED
    BY <1>1, <1>3, <2>1 DEF Decided, Charge, c
<1>. HIDE DEF period, carried
<1>9. /\ v \in States /\ v.last = at /\ v.revision = r /\ v.carried = carried
      /\ v.window = next.window /\ v.used = next.used /\ v.segments = next.segments
  BY <1>3, <1>5, <1>6, <1>7, Zenon DEF States
<1>10. Written(mode, s, r, at, u, c, v)
  BY <1>5, <1>8, <1>9, Zenon DEF Written
<1>. QED
  BY <1>1, <1>10, Settle, Zenon DEF u, c

\* What a script writes.
WrittenHash(mode, h, r, d) ==
    LET next == IF algorithm = "fixed" THEN FixedHash(h, r, d) ELSE SlidingHash(h, r, d)
    IN  [next EXCEPT
          !.revision = r, !.last = d.at,
          !.period = IF mode = "strict" THEN Policy[r].period ELSE @,
          !.carried = IF mode = "strict" THEN Carried(h, r, Usage(h, r, d.at)) ELSE @]

\* A script; the strict one has made its checks.
LEMMA HashCall ==
    ASSUME NEW mode \in {"released", "strict"}, NEW s, NEW at, NEW l, Ready(s, at, l),
           NEW r \in SamePeriod, NEW cost \in 1 .. Policy[r].maxCost,
           mode = "strict" => ~HashCorrupt(s, r, at),
           NEW d, d = DecideScript(s, r, cost, at), NEW v, v = WrittenHash(mode, s, r, d)
    PROVE  Settled(mode, d, at, v, Entered(l, d))
<1> DEFINE u == Account(at, l)
           c == Charge(d)
           next == IF algorithm = "fixed" THEN FixedHash(s, r, d) ELSE SlidingHash(s, r, d)
           period  == IF mode = "strict" THEN Policy[r].period ELSE s.period
           carried == IF mode = "strict" THEN Carried(s, r, u) ELSE s.carried
<1>1. cost \in Nat /\ Decided(d, r, cost, at, u)
  BY DecisionFacts, Zenon
<1>2. c \in Nat
  BY <1>1, Zenon DEF Decided, Charge
<1>3. /\ d.at = at /\ Usage(s, r, at) = u /\ u \in Nat /\ s \in States /\ at \in Instants
      /\ algorithm \in {"fixed", "sliding"} /\ WindowStart(r, at) = Start(at) /\ Start(at) \in Nat
      /\ Policy[r].limit \in Nat /\ Policy[r].period = Period
  <2>1. d.at = at /\ s \in States /\ at \in Instants /\ algorithm \in {"fixed", "sliding"}
    BY <1>1, Zenon DEF Decided, Ready
  <2>2. Usage(s, r, at) = u /\ u \in Nat
    BY UsageFacts, Zenon
  <2>3. WindowStart(r, at) = Start(at) /\ Policy[r].limit \in Nat /\ Policy[r].period = Period
    BY Shared, Zenon
  <2>4. Start(at) \in Nat
    BY <2>1, StartFacts, Zenon
  <2>. QED
    BY <2>1, <2>2, <2>3, <2>4, Zenon
<1>. HIDE DEF u
<1>4. v = [next EXCEPT !.revision = r, !.last = at,
                       !.period = IF mode = "strict" THEN Policy[r].period ELSE @,
                       !.carried = IF mode = "strict" THEN Carried(s, r, u) ELSE @]
  BY <1>3, Zenon DEF WrittenHash
<1>. HIDE DEF c
<1>5. /\ next \in States /\ next.period = s.period /\ next.carried = s.carried
      /\ algorithm = "fixed" => next.window = Start(at) /\ next.used = u + c
      /\ algorithm = "sliding" => \/ next.segments = Charged(Live(s, r, at), r, c, at)
                                  \/ c = 0 /\ next.segments = Live(s, r, at)
  <2>1. CASE algorithm = "fixed"
    <3>1. next = [s EXCEPT !.window = Start(at), !.used = u + c] /\ algorithm # "sliding"
      BY <1>3, <2>1 DEF FixedHash, Charge, c
    <3>2. u + c \in Nat
      BY <1>2, <1>3
    <3>. HIDE DEF next
    <3>. QED
      BY <1>3, <2>1, <3>1, <3>2, Zenon DEF States
  <2>2. CASE algorithm = "sliding"
    <3> DEFINE ring == IF d.outcome = "allowed" THEN Charged(Live(s, r, at), r, d.cost, at) ELSE Live(s, r, at)
    <3>1. next = [s EXCEPT !.segments = ring] /\ algorithm # "fixed"
      BY <1>3, <2>2 DEF SlidingHash
    <3>2. Charged(Live(s, r, at), r, c, at) \in [Slots -> Segment] /\ Live(s, r, at) \in [Slots -> Segment]
      BY <1>2, <2>2, ChargedFacts, Zenon
    <3>3. /\ \/ ring = Charged(Live(s, r, at), r, c, at)
             \/ c = 0 /\ ring = Live(s, r, at)
          /\ ring \in [Slots -> Segment]
      BY <3>2, Zenon DEF Charge, c
    <3>. HIDE DEF next, ring
    <3>4. next \in States /\ next.period = s.period /\ next.carried = s.carried /\ next.segments = ring
      BY <1>3, <3>1, <3>3, Zenon DEF States
    <3>. QED
      BY <3>1, <3>3, <3>4, Zenon
  <2>. QED
    BY <1>3, <2>1, <2>2, Zenon
<1>. HIDE DEF next
<1>6. v = [next EXCEPT !.revision = r, !.last = at, !.period = period, !.carried = carried]
  BY <1>4, <1>5, Zenon
<1>7. period \in {0, Period} /\ carried \in BOOLEAN
  BY <1>3, Zenon DEF States, Carried
<1>8. mode = "strict" /\ ~carried => u + c <= Policy[r].limit
  <2>1. SUFFICES ASSUME mode = "strict", ~carried PROVE u + c <= Policy[r].limit
    BY Zenon
  <2>2. u <= Policy[r].limit
    <3>1. SUFFICES ASSUME u > Policy[r].limit PROVE FALSE
      BY <1>3
    <3>2. ~s.carried /\ s.revision = r
      BY <2>1, <3>1, Zenon DEF Carried
    <3>3. ~(Policy[r].limit < IF algorithm = "fixed" THEN s.used ELSE u)
      BY <1>3, <2>1, <3>2, Zenon DEF HashCorrupt
    <3>4. algorithm = "fixed" => u = s.used
      <4>1. algorithm = "fixed" => u = IF s.window = Start(at) THEN s.used ELSE 0
        BY Zenon DEF Account, Ready, FixedReady, u
      <4>. QED
        BY <1>3, <3>1, <4>1
    <3>. QED
      BY <1>3, <3>1, <3>3, <3>4
  <2>. QED
    BY <1>1, <1>3, <2>2 DEF Decided, Charge, c
<1>. HIDE DEF period, carried
<1>9. /\ v \in States /\ v.last = at /\ v.revision = r /\ v.carried = carried
      /\ v.window = next.window /\ v.used = next.used /\ v.segments = next.segments
  BY <1>3, <1>5, <1>6, <1>7, Zenon DEF States
<1>10. Written(mode, s, r, at, u, c, v)
  BY <1>5, <1>8, <1>9, Zenon DEF Written
<1>. QED
  BY <1>1, <1>10, Settle, Zenon DEF u, c

------------------------------------------------------------------------------
(* What strict callers find. *)

\* The checks of both backends are the same.
LEMMA CorruptSame == \A s, r, at : HashCorrupt(s, r, at) <=> RowCorrupt(s, r, at)
BY Zenon DEF HashCorrupt, RowCorrupt

\* What a strict caller wrote last is not corrupt to a strict caller.
LEMMA StoredTrusted ==
    ASSUME NEW s, NEW l, Sound(s, l), Frugal(s, l, "strict"), NEW r \in SamePeriod,
           NEW at \in Instants, s.last <= at
    PROVE  ~RowCorrupt(s, r, at)
<1> DEFINE a == Account(at, l)
           b == Account(s.last, l)
           k == Policy[r].limit
<1>1. Ready(s, at, l) /\ a <= b
  BY LoadedReady, Zenon
<1>2. /\ s \in States /\ s.last \in Instants /\ l \in [Instants -> Nat]
      /\ Policy[r].period = Period /\ k \in Nat
  BY Shared, Zenon DEF Sound, Ready
<1>3. Usage(s, r, at) = a /\ a \in Nat /\ b \in Nat
  BY <1>1, <1>2, UsageFacts, LogFacts, Zenon
<1>4. s.period \in {0, Policy[r].period}
  BY <1>2, Zenon DEF States
<1>5. algorithm = "sliding" => ~Misplaced(s, r, at)
  BY <1>1, NotMisplaced, Zenon
<1>6. ASSUME s.revision = r, ~s.carried
      PROVE  ~(k < IF algorithm = "fixed" THEN s.used ELSE a)
  <2>1. b <= k
    BY <1>6, Zenon DEF Frugal
  <2>2. algorithm = "fixed" => s.used = b
    BY Zenon DEF Sound, Ready, FixedReady, Account
  <2>. HIDE DEF a, b, k
  <2>. QED
    BY <1>1, <1>2, <1>3, <2>1, <2>2
<1>. QED
  BY <1>3, <1>4, <1>5, <1>6, Zenon DEF RowCorrupt

\* New state is not corrupt.
LEMMA FreshTrusted ==
    ASSUME NEW r \in SamePeriod, NEW now \in Instants
    PROVE  ~RowCorrupt(Empty("strict", r, now), r, now)
<1> DEFINE s == Empty("strict", r, now)
<1>1. /\ s.period = Policy[r].period /\ s.used = 0 /\ s.segments = [slot \in Slots |-> Absent]
      /\ s.window = 0
  BY DEF Empty
<1>2. Policy[r].limit \in Nat \ {0}
  BY Shared, Zenon
<1>. HIDE DEF s
<1>3. InUse(s, r, now) = {}
  BY <1>1 DEF InUse, Absent
<1>4. Usage(s, r, now) = 0
  <2>1. SumFunctionOnSet([slot \in Slots |-> s.segments[slot].used], {}) = 0
    BY SumUnfold, FS_EmptySet, Zenon
  <2>. QED
    BY <1>1, <1>3, <2>1, Zenon DEF Usage
<1>5. ~Misplaced(s, r, now)
  BY <1>3, Zenon DEF Misplaced
<1>6. ~(Policy[r].limit < IF algorithm = "fixed" THEN s.used ELSE Usage(s, r, now))
  BY <1>1, <1>2, <1>4
<1>. QED
  BY <1>1, <1>5, <1>6, Zenon DEF RowCorrupt, s

\* A strict call under a revision that changes the period finds that out.
LEMMA PeriodChecked ==
    ASSUME NEW s \in States, s.period # 0, NEW r \in Revisions, r \notin SamePeriod, NEW at
    PROVE  RowCorrupt(s, r, at) /\ Policy[r].period # Period
<1>1. s.period = Period /\ Period # 0 /\ Policy[r].period # Period
  BY Constants, Zenon DEF States, SamePeriod
<1>. QED
  BY <1>1, Zenon DEF RowCorrupt

------------------------------------------------------------------------------
(* The steps. *)

\* A call that writes.
Wrote(mode, s, at) ==
    /\ writer' = mode
    /\ decision'.outcome \in {"allowed", "limited"}
    /\ log' = Entered(log, decision')
    /\ \A l : Ready(s, at, l) => Settled(mode, decision', at, state', Entered(l, decision'))

LEMMA RowWrites ==
    ASSUME NEW mode \in {"released", "strict"}, NEW r \in SamePeriod,
           NEW cost \in 1 .. Policy[r].maxCost, NEW now, WriteRow(mode, r, cost, now),
           NEW s, s = CurrentRow(mode, r, now), NEW at, at = RowClock(s, now)
    PROVE  Wrote(mode, s, at)
<1> DEFINE d == DecideRow(s, r, cost, at)
<1>1. Answer(mode, d) /\ state' = WrittenRow(mode, s, r, d)
  BY Zenon DEF WriteRow
<1>2. decision' = d /\ writer' = mode /\ log' = Entered(log, d)
  BY <1>1, Zenon DEF Answer, Entered
<1>3. d.outcome \in {"allowed", "limited"}
  BY Zenon DEF DecideRow
<1>. HIDE DEF d
<1>4. ASSUME NEW l, Ready(s, at, l)
      PROVE  Settled(mode, d, at, state', Entered(l, d))
  BY <1>1, <1>4, RowCall, Zenon DEF d
<1>. QED
  BY <1>2, <1>3, <1>4, Zenon DEF Wrote

LEMMA HashWrites ==
    ASSUME NEW mode \in {"released", "strict"}, NEW r \in SamePeriod,
           NEW cost \in 1 .. Policy[r].maxCost, NEW now, WriteHash(mode, r, cost, now),
           NEW s, s = FoundHash(mode, r, now), NEW at, at = HashClock(s, now),
           mode = "strict" => ~HashCorrupt(s, r, at)
    PROVE  Wrote(mode, s, at) /\ until' = server + HashTTL(r)
<1> DEFINE d == DecideScript(s, r, cost, at)
<1>1. Answer(mode, d) /\ state' = WrittenHash(mode, s, r, d) /\ until' = server + HashTTL(r)
  BY Zenon DEF WriteHash, WrittenHash
<1>2. decision' = d /\ writer' = mode /\ log' = Entered(log, d)
  BY <1>1, Zenon DEF Answer, Entered
<1>3. d.outcome \in {"allowed", "limited"}
  BY Zenon DEF DecideScript
<1>. HIDE DEF d
<1>4. ASSUME NEW l, Ready(s, at, l)
      PROVE  Settled(mode, d, at, state', Entered(l, d))
  BY <1>1, <1>4, HashCall, Zenon DEF d
<1>. QED
  BY <1>1, <1>2, <1>3, <1>4, Zenon DEF Wrote

Kinds == /\ algorithm \in {"fixed", "sliding"} /\ backend \in {"postgres", "valkey"}

\* Nothing but the algorithm and the constants matters to these.
LEMMA SameAlgorithm ==
    ASSUME algorithm' = algorithm
    PROVE  /\ \A s, l : Sound(s, l)' <=> Sound(s, l)
           /\ Sound(state, log)' <=> Sound(state', log')
           /\ Judged(decision, log)' <=> Judged(decision', log')
BY Zenon DEF Sound, Ready, FixedReady, SlidingReady, Judged

\* What a strict caller may rely on, whatever became of earlier state: the state
\* accounts for some log.
Trusted(s, w) == \E l : Sound(s, l) /\ Frugal(s, l, w)

\* Between calls, the state is absent or accounts for the log.  It lies no further
\* ahead of the server than a caller's clock can, and it is kept until nothing it
\* accounts for can count for any caller.
Margin == IF backend = "postgres" THEN 2 * Skew ELSE Skew

Stored(s, u, l) ==
    /\ Sound(s, l) /\ s.last <= server + Skew
    /\ u \in Int /\ s.last + Period + Margin <= u

Forgotten(l) == \A t \in Instants : l[t] # 0 => t + Period + Skew <= server

\* The callers' clocks are off by at most a quarter of the period, with Valkey by
\* at most half of it.
Patient == IF backend = "postgres" THEN 4 * Skew <= Period ELSE 2 * Skew <= Period

AccountInv ==
    /\ Kinds /\ Patient /\ server \in Nat /\ log \in [Instants -> Nat]
    /\ \/ state = NoState /\ Forgotten(log)
       \/ Stored(state, until, log)
    /\ Judged(decision, log)

TrustInv ==
    /\ Kinds /\ server \in Nat
    /\ \/ state = NoState
       \/ Trusted(state, writer) /\ writer \in {"released", "strict"}
    /\ StrictTrustsStrict

\* Readings are instants near the server's clock.
LEMMA ReadingFacts ==
    ASSUME server \in Nat, NEW now \in Readings
    PROVE  now \in Instants /\ now \in Int /\ server - Skew <= now /\ now <= server + Skew
BY Constants DEF Readings

\* The state a call finds accounts for the log: it was stored and is in use, or
\* whatever was stored before has expired.
LEMMA FoundReady ==
    ASSUME AccountInv, NEW now \in Readings, NEW r \in SamePeriod, NEW mode,
           NEW found \in BOOLEAN, found => state.present,
           ~found /\ state.present => backend = "postgres" /\ until <= now,
           NEW s, s = (IF found THEN state ELSE Empty(mode, r, now)),
           NEW at, at = Later(now, s.last)
    PROVE  /\ Ready(s, at, log) /\ at \in Int
           /\ now <= at /\ at <= server + Skew /\ at <= now + 2 * Skew
<1>1. /\ server \in Nat /\ log \in [Instants -> Nat] /\ algorithm \in {"fixed", "sliding"}
      /\ (state = NoState /\ Forgotten(log)) \/ Stored(state, until, log)
  BY Zenon DEF AccountInv, Kinds
<1>2. now \in Instants /\ now \in Int /\ server - Skew <= now /\ now <= server + Skew /\ Skew \in Nat
      /\ Period \in Nat \ {0} /\ \A t \in Instants : t \in Int
  BY <1>1, ReadingFacts, Constants, Zenon
<1>3. CASE found
  <2>1. s = state /\ state # NoState
    BY <1>3 DEF NoState
  <2>2. Sound(s, log) /\ s.last <= server + Skew
    BY <1>1, <2>1, Zenon DEF Stored
  <2>3. s.last \in Instants /\ s.last \in Int /\ server \in Nat
    BY <1>1, <1>2, <2>2, Zenon DEF Sound, Ready
  <2>4. at \in Instants /\ s.last <= at /\ now <= at /\ at <= server + Skew /\ at \in Int
    BY <1>2, <2>2, <2>3 DEF Later
  <2>5. Ready(s, at, log)
    BY <2>2, <2>4, LoadedReady, Zenon
  <2>. QED
    BY <1>1, <1>2, <2>4, <2>5
<1>4. CASE ~found
  <2>1. s = Empty(mode, r, now)
    BY <1>4, Zenon
  <2>2. s.last = now
    BY <2>1 DEF Empty
  <2>3. at = now
    BY <1>2, <2>2 DEF Later
  <2>4. \A t \in Instants : log[t] # 0 => t + Period <= now
    <3>1. CASE state = NoState /\ Forgotten(log)
      <4>1. server \in Nat /\ \A t \in Instants : log[t] # 0 => t + Period + Skew <= server
        BY <1>1, <3>1, Zenon DEF Forgotten
      <4>. QED
        BY <1>2, <4>1
    <3>2. CASE Stored(state, until, log)
      <4>1. state.present /\ state.last \in Instants /\ \A t \in Instants : t > state.last => log[t] = 0
        BY <3>2, Zenon DEF Stored, Sound, Ready, States
      <4>2. until <= now /\ until \in Int /\ state.last + Period + 2 * Skew <= until
        BY <1>4, <3>2, <4>1, Zenon DEF Stored, Margin
      <4>3. ASSUME NEW t \in Instants, log[t] # 0 PROVE t + Period <= now
        <5>1. t \in Int /\ state.last \in Int /\ ~(t > state.last)
          BY <1>2, <4>1, <4>3, Zenon
        <5>. QED
          BY <1>2, <4>2, <5>1
      <4>. QED
        BY <4>3, Zenon
    <3>. QED
      BY <1>1, <3>1, <3>2, Zenon
  <2>5. Ready(s, at, log)
    BY <1>1, <1>2, <2>1, <2>3, <2>4, FreshReady, Zenon
  <2>. QED
    BY <1>1, <1>2, <2>3, <2>5
<1>. QED
  BY <1>3, <1>4, Zenon

\* The state a call finds accounts for some log, and a strict call trusts it.
LEMMA FoundTrusted ==
    ASSUME TrustInv, NEW now \in Readings, NEW r \in SamePeriod, NEW mode,
           NEW found \in BOOLEAN, found => state.present,
           NEW s, s = (IF found THEN state ELSE Empty(mode, r, now)),
           NEW at, at = Later(now, s.last)
    PROVE  /\ \E l : Ready(s, at, l)
           /\ mode = "strict" /\ RowCorrupt(s, r, at) => writer = "released"
<1>1. /\ server \in Nat /\ algorithm \in {"fixed", "sliding"}
      /\ state = NoState \/ (Trusted(state, writer) /\ writer \in {"released", "strict"})
  BY Zenon DEF TrustInv, Kinds
<1>2. now \in Instants /\ now \in Int
  BY <1>1, ReadingFacts, Zenon
<1>3. CASE found
  <2>1. s = state /\ state # NoState
    BY <1>3 DEF NoState
  <2>2. PICK l : Sound(s, l) /\ Frugal(s, l, writer)
    BY <1>1, <2>1, Zenon DEF Trusted
  <2>3. s.last \in Instants /\ s.last \in Int
    BY <2>2, Constants, Zenon DEF Sound, Ready
  <2>4. at \in Instants /\ s.last <= at
    BY <1>2, <2>3 DEF Later
  <2>5. Ready(s, at, l)
    BY <2>2, <2>4, LoadedReady, Zenon
  <2>6. writer = "strict" => ~RowCorrupt(s, r, at)
    BY <2>2, <2>4, StoredTrusted, Zenon
  <2>. QED
    BY <1>1, <2>1, <2>5, <2>6, Zenon
<1>4. CASE ~found
  <2>1. s = Empty(mode, r, now)
    BY <1>4, Zenon
  <2>2. s.last = now
    BY <2>1 DEF Empty
  <2>3. at = now
    BY <1>2, <2>2 DEF Later
  <2> DEFINE l == [t \in Instants |-> 0]
  <2>4. l \in [Instants -> Nat] /\ \A t \in Instants : l[t] # 0 => t + Period <= now
    OBVIOUS
  <2>. HIDE DEF l
  <2>5. Ready(s, at, l)
    BY <1>1, <1>2, <2>1, <2>3, <2>4, FreshReady, Zenon
  <2>6. mode = "strict" => ~RowCorrupt(s, r, at)
    BY <1>2, <2>1, <2>3, FreshTrusted, Zenon
  <2>. QED
    BY <2>5, <2>6, Zenon
<1>. QED
  BY <1>3, <1>4, Zenon

\* A call that writes keeps both invariants.
LEMMA WroteInv ==
    ASSUME NEW mode \in {"released", "strict"}, NEW s, NEW at, Wrote(mode, s, at),
           UNCHANGED <<algorithm, server, backend>>
    PROVE  /\ TrustInv /\ (\E l : Ready(s, at, l)) => TrustInv'
           /\ /\ AccountInv /\ Ready(s, at, log) /\ at <= server + Skew
              /\ until' \in Int /\ at + Period + Margin <= until'
              => AccountInv'
<1>1. ASSUME NEW l, Ready(s, at, l)
      PROVE  Settled(mode, decision', at, state', Entered(l, decision'))
  BY <1>1, Zenon DEF Wrote
<1>2. ASSUME TrustInv, NEW l, Ready(s, at, l) PROVE TrustInv'
  <2>1. Sound(state', Entered(l, decision')) /\ Frugal(state', Entered(l, decision'), mode)
    BY <1>1, <1>2, Zenon DEF Settled
  <2>2. \E m : Sound(state', m) /\ Frugal(state', m, mode)
    BY <2>1, Zenon
  <2>3. Trusted(state, writer)'
    <3>1. writer' = mode
      BY Zenon DEF Wrote
    <3>. QED
      BY <2>2, <3>1, Zenon DEF Trusted, Sound, Frugal, Ready, FixedReady, SlidingReady, Account
  <2>4. writer' \in {"released", "strict"} /\ decision'.outcome # "corrupt"
    BY DEF Wrote
  <2>5. Kinds' /\ server' \in Nat
    BY <1>2, Zenon DEF TrustInv, Kinds
  <2>6. StrictTrustsStrict'
    BY <2>4, Zenon DEF StrictTrustsStrict
  <2>. QED
    BY <2>3, <2>4, <2>5, <2>6, Zenon DEF TrustInv
<1>3. ASSUME AccountInv, Ready(s, at, log), at <= server + Skew,
             until' \in Int, at + Period + Margin <= until'
      PROVE  AccountInv'
  <2>1. log' = Entered(log, decision')
    BY Zenon DEF Wrote
  <2>2. Sound(state', log') /\ state'.last = at /\ Judged(decision', log')
    BY <1>1, <1>3, <2>1, Zenon DEF Settled
  <2>3. Sound(state, log)' /\ Judged(decision, log)'
    BY <2>2, SameAlgorithm, Zenon
  <2>4. log' \in [Instants -> Nat]
    BY <2>2, Zenon DEF Sound, Ready
  <2>5. Stored(state, until, log)'
    BY <1>3, <2>2, <2>3, Zenon DEF Stored, Margin
  <2>6. Kinds' /\ Patient' /\ server' \in Nat
    BY <1>3, Zenon DEF AccountInv, Kinds, Patient
  <2>. QED
    BY <2>3, <2>4, <2>5, <2>6, Zenon DEF AccountInv
<1>. QED
  BY <1>2, <1>3, Zenon

\* A refused call leaves everything but the decision.
LEMMA RefuseInv ==
    ASSUME NEW r, Refuse(r), UNCHANGED <<algorithm, server, backend>>
    PROVE  /\ TrustInv /\ (Policy[r].period # Period \/ writer = "released") => TrustInv'
           /\ AccountInv => AccountInv'
<1>1. /\ decision' = Bare("corrupt", r)
      /\ state' = state /\ until' = until /\ writer' = writer /\ log' = log
      /\ algorithm' = algorithm /\ server' = server /\ backend' = backend
  BY Zenon DEF Refuse
<1>2. decision'.outcome = "corrupt" /\ decision'.revision = r
  BY <1>1 DEF Bare
<1>3. ASSUME TrustInv, Policy[r].period # Period \/ writer = "released" PROVE TrustInv'
  <2>1. StrictTrustsStrict'
    BY <1>1, <1>2, <1>3, Zenon DEF StrictTrustsStrict
  <2>2. Trusted(state, writer)' <=> Trusted(state, writer)
    BY <1>1, Zenon DEF Trusted, Sound, Frugal, Ready, FixedReady, SlidingReady, Account
  <2>. QED
    BY <1>1, <1>3, <2>1, <2>2, Zenon DEF TrustInv, Kinds
<1>4. ASSUME AccountInv PROVE AccountInv'
  <2>1. Judged(decision', log')
    BY <1>2 DEF Judged
  <2>2. Judged(decision, log)' /\ (Sound(state, log)' <=> Sound(state, log))
    BY <1>1, <2>1, SameAlgorithm, Zenon
  <2>. QED
    BY <1>1, <1>4, <2>2, Zenon DEF AccountInv, Kinds, Patient, Forgotten, Stored, Margin
<1>. QED
  BY <1>3, <1>4, Zenon

\* The state is removed, or the server's clock advances, or nothing changes.
LEMMA QuietInv ==
    ASSUME UNCHANGED <<algorithm, decision, writer, log, backend>>,
           server' \in Nat, server <= server',
           UNCHANGED <<state, until>> \/ state' = NoState
    PROVE  /\ TrustInv => TrustInv'
           /\ /\ AccountInv
              /\ \/ UNCHANGED <<state, until>>
                 \/ \A t \in Instants : log[t] # 0 => t + Period + Skew <= server'
              => AccountInv'
<1>1. /\ algorithm' = algorithm /\ decision' = decision /\ writer' = writer /\ log' = log
      /\ backend' = backend
  BY Zenon
<1>2. ASSUME TrustInv PROVE TrustInv'
  <2>1. StrictTrustsStrict'
    BY <1>1, <1>2, Zenon DEF TrustInv, StrictTrustsStrict
  <2>2. state' = state => (Trusted(state, writer)' <=> Trusted(state, writer))
    BY <1>1, Zenon DEF Trusted, Sound, Frugal, Ready, FixedReady, SlidingReady, Account
  <2>. QED
    BY <1>1, <1>2, <2>1, <2>2, Zenon DEF TrustInv, Kinds
<1>3. ASSUME AccountInv, \/ UNCHANGED <<state, until>>
                         \/ \A t \in Instants : log[t] # 0 => t + Period + Skew <= server'
      PROVE  AccountInv'
  <2>1. Judged(decision, log)' /\ (state' = state => (Sound(state, log)' <=> Sound(state, log)))
    BY <1>1, <1>3, SameAlgorithm, Zenon DEF AccountInv
  <2>2. Kinds' /\ Patient' /\ log' \in [Instants -> Nat]
    BY <1>1, <1>3, Zenon DEF AccountInv, Kinds, Patient
  <2>3. server \in Nat /\ Skew \in Nat /\ Period \in Nat /\ \A t \in Instants : t \in Int
    BY <1>3, Constants, Zenon DEF AccountInv
  <2>4. CASE UNCHANGED <<state, until>>
    <3>1. ASSUME Stored(state, until, log) PROVE Stored(state, until, log)'
      <4>1. Sound(state, log) /\ state.last <= server + Skew
        BY <3>1, Zenon DEF Stored
      <4>2. state.last \in Int
        BY <2>3, <4>1, Zenon DEF Sound, Ready
      <4>3. state.last <= server' + Skew
        BY <2>3, <4>1, <4>2
      <4>. QED
        BY <1>1, <2>1, <2>4, <3>1, <4>1, <4>3, Zenon DEF Stored, Margin
    <3>2. ASSUME Forgotten(log) PROVE Forgotten(log)'
      <4>1. \A t \in Instants : t + Period + Skew <= server => t + Period + Skew <= server'
        BY <2>3
      <4>. QED
        BY <1>1, <3>2, <4>1, Zenon DEF Forgotten
    <3>. QED
      BY <1>3, <2>1, <2>2, <2>4, <3>1, <3>2, Zenon DEF AccountInv
  <2>5. CASE state' = NoState /\ \A t \in Instants : log[t] # 0 => t + Period + Skew <= server'
    <3>1. Forgotten(log)'
      BY <1>1, <2>5, Zenon DEF Forgotten
    <3>. QED
      BY <2>1, <2>2, <2>5, <3>1, Zenon DEF AccountInv
  <2>. QED
    BY <1>3, <2>4, <2>5, Zenon
<1>. QED
  BY <1>2, <1>3, Zenon

\* The retention is two periods or more.
LEMMA RetentionFacts ==
    ASSUME NEW r \in SamePeriod
    PROVE  /\ RowTTL(r) \in Int /\ 2 * Period <= RowTTL(r)
           /\ HashTTL(r) \in Int /\ 2 * Period <= HashTTL(r)
<1>1. Policy[r].period = Period /\ Period \in Nat /\ Floor \in Nat
  BY Shared, Constants, TimeAssumption
<1>. QED
  BY <1>1 DEF RowTTL, HashTTL, Later

\* A released transaction.
LEMMA AdmitRowInv ==
    ASSUME backend = "postgres", UNCHANGED backend, NEW r \in Revisions, NEW now \in Readings,
           NEW cost \in 1 .. Policy[r].maxCost, AdmitRow(r, cost, now)
    PROVE  (TrustInv => TrustInv') /\ (AccountInv => AccountInv')
<1> DEFINE s  == CurrentRow("released", r, now)
           at == RowClock(s, now)
           found == Loaded(now)
<1>1. /\ r \in SamePeriod /\ WriteRow("released", r, cost, now) /\ until' = now + RowTTL(r)
      /\ UNCHANGED <<algorithm, server, backend>>
  BY Zenon DEF AdmitRow
<1>2. Wrote("released", s, at)
  BY <1>1, RowWrites, Zenon
<1>3. /\ s = (IF found THEN state ELSE Empty("released", r, now)) /\ at = Later(now, s.last)
      /\ found \in BOOLEAN /\ (found => state.present)
  BY Zenon DEF CurrentRow, RowClock, Loaded
<1>. HIDE DEF s, at
<1>4. ASSUME TrustInv PROVE TrustInv'
  <2>1. \E l : Ready(s, at, l)
    BY <1>1, <1>3, <1>4, FoundTrusted, Zenon
  <2>. QED
    BY <1>1, <1>2, <1>4, <2>1, WroteInv, Zenon
<1>5. ASSUME AccountInv PROVE AccountInv'
  <2>1. ~found /\ state.present => until <= now
    <3>1. state.present => until \in Int
      <4>1. state = NoState => ~state.present
        BY DEF NoState
      <4>. QED
        BY <1>5, <4>1, Zenon DEF AccountInv, Stored
    <3>2. now \in Int
      BY <1>5, ReadingFacts, Zenon DEF AccountInv
    <3>. QED
      BY <3>1, <3>2 DEF Loaded
  <2>. HIDE DEF found
  <2>2. /\ Ready(s, at, log) /\ at \in Int /\ now <= at /\ at <= server + Skew /\ at <= now + 2 * Skew
    BY <1>1, <1>3, <1>5, <2>1, FoundReady, Zenon
  <2>3. /\ now \in Int /\ Skew \in Nat /\ Period \in Nat /\ 4 * Skew <= Period
        /\ Margin = 2 * Skew /\ RowTTL(r) \in Int /\ 2 * Period <= RowTTL(r)
    BY <1>1, <1>5, ReadingFacts, Constants, RetentionFacts, Zenon DEF AccountInv, Patient, Margin
  <2>4. until' \in Int /\ at + Period + Margin <= until'
    BY <1>1, <2>2, <2>3
  <2>. QED
    BY <1>1, <1>2, <1>5, <2>2, <2>4, WroteInv, Zenon
<1>. QED
  BY <1>4, <1>5, Zenon

\* A strict transaction, which may find the row corrupt.
LEMMA AdmitRowStrictInv ==
    ASSUME backend = "postgres", UNCHANGED backend, NEW r \in Revisions, NEW now \in Readings,
           NEW cost \in 1 .. Policy[r].maxCost, AdmitRowStrict(r, cost, now)
    PROVE  (TrustInv => TrustInv') /\ (AccountInv => AccountInv')
<1> DEFINE s  == CurrentRow("strict", r, now)
           at == RowClock(s, now)
           found == Loaded(now)
<1>1. /\ UNCHANGED <<algorithm, server, backend>>
      /\ r \in SamePeriod \/ (found /\ state.period # 0)
      /\ \/ RowCorrupt(s, r, at) /\ Refuse(r)
         \/ /\ ~RowCorrupt(s, r, at)
            /\ WriteRow("strict", r, cost, now) /\ until' = at + RowTTL(r)
  BY Zenon DEF AdmitRowStrict
<1>2. /\ s = (IF found THEN state ELSE Empty("strict", r, now)) /\ at = Later(now, s.last)
      /\ found \in BOOLEAN /\ (found => state.present)
  BY Zenon DEF CurrentRow, RowClock, Loaded
<1>3. ASSUME r \notin SamePeriod, TrustInv \/ AccountInv
      PROVE  RowCorrupt(s, r, at) /\ Policy[r].period # Period
  <2>1. s = state /\ state.present /\ state.period # 0
    BY <1>1, <1>2, <1>3, Zenon
  <2>2. state # NoState
    BY <2>1 DEF NoState
  <2>3. s \in States
    BY <1>3, <2>1, <2>2, Zenon DEF TrustInv, AccountInv, Stored, Trusted, Sound, Ready
  <2>. HIDE DEF at
  <2>. QED
    BY <1>3, <2>1, <2>3, PeriodChecked, Zenon
<1>4. CASE Refuse(r) /\ RowCorrupt(s, r, at)
  <2>1. ASSUME TrustInv PROVE Policy[r].period # Period \/ writer = "released"
    <3>1. CASE r \in SamePeriod
      <4>. HIDE DEF s, at, found
      <4>. QED
        BY <1>2, <1>4, <2>1, <3>1, FoundTrusted, Zenon
    <3>. QED
      BY <1>3, <2>1, <3>1, Zenon
  <2>. QED
    BY <1>1, <1>4, <2>1, RefuseInv, Zenon
<1>5. CASE ~RowCorrupt(s, r, at) /\ WriteRow("strict", r, cost, now) /\ until' = at + RowTTL(r)
  <2>1. SUFFICES ASSUME TrustInv \/ AccountInv PROVE (TrustInv => TrustInv') /\ (AccountInv => AccountInv')
    BY Zenon
  <2>2. r \in SamePeriod
    BY <1>3, <1>5, <2>1, Zenon
  <2>3. Wrote("strict", s, at)
    BY <1>5, <2>2, RowWrites, Zenon
  <2>. HIDE DEF s, at
  <2>4. ASSUME TrustInv PROVE TrustInv'
    <3>1. \E l : Ready(s, at, l)
      BY <1>2, <2>2, <2>4, FoundTrusted, Zenon
    <3>. QED
      BY <1>1, <2>3, <2>4, <3>1, WroteInv, Zenon
  <2>5. ASSUME AccountInv PROVE AccountInv'
    <3>1. ~found /\ state.present => until <= now
      <4>1. state.present => until \in Int
        <5>1. state = NoState => ~state.present
          BY DEF NoState
        <5>. QED
          BY <2>5, <5>1, Zenon DEF AccountInv, Stored
      <4>2. now \in Int
        BY <2>5, ReadingFacts, Zenon DEF AccountInv
      <4>. QED
        BY <4>1, <4>2 DEF Loaded
    <3>. HIDE DEF found
    <3>2. Ready(s, at, log) /\ at \in Int /\ at <= server + Skew
      BY <1>2, <2>2, <2>5, <3>1, FoundReady, Zenon
    <3>3. /\ Skew \in Nat /\ Period \in Nat /\ 4 * Skew <= Period
          /\ Margin = 2 * Skew /\ RowTTL(r) \in Int /\ 2 * Period <= RowTTL(r)
      BY <2>2, <2>5, Constants, RetentionFacts, Zenon DEF AccountInv, Patient, Margin
    <3>4. until' \in Int /\ at + Period + Margin <= until'
      BY <1>5, <3>2, <3>3
    <3>. QED
      BY <1>1, <2>3, <2>5, <3>2, <3>4, WroteInv, Zenon
  <2>. QED
    BY <2>4, <2>5, Zenon
<1>. QED
  BY <1>1, <1>4, <1>5, Zenon

\* Cleanup removes a row once nothing it accounts for can count.
LEMMA CleanupInv ==
    ASSUME backend = "postgres", UNCHANGED backend, NEW now \in Readings, Cleanup(now)
    PROVE  (TrustInv => TrustInv') /\ (AccountInv => AccountInv')
<1>1. /\ state.present /\ until <= now /\ state' = NoState
      /\ UNCHANGED <<algorithm, server, decision, writer, log>>
  BY Zenon DEF Cleanup
<1>2. SUFFICES ASSUME TrustInv \/ AccountInv PROVE (TrustInv => TrustInv') /\ (AccountInv => AccountInv')
  BY Zenon
<1>3. server \in Nat /\ server' \in Nat /\ server <= server'
  BY <1>1, <1>2 DEF TrustInv, AccountInv
<1>4. ASSUME AccountInv PROVE \A t \in Instants : log[t] # 0 => t + Period + Skew <= server'
  <2>1. state # NoState
    BY <1>1 DEF NoState
  <2>2. Sound(state, log) /\ until \in Int /\ state.last + Period + 2 * Skew <= until
    BY <1>4, <2>1, Zenon DEF AccountInv, Stored, Margin
  <2>3. state.last \in Instants /\ \A t \in Instants : t > state.last => log[t] = 0
    BY <2>2, Zenon DEF Sound, Ready
  <2>4. now \in Int /\ now <= server + Skew /\ Skew \in Nat /\ Period \in Nat /\ server' = server
    BY <1>1, <1>3, ReadingFacts, Constants, Zenon
  <2>5. ASSUME NEW t \in Instants, log[t] # 0 PROVE t + Period + Skew <= server'
    <3>1. t \in Int /\ state.last \in Int /\ ~(t > state.last)
      BY <2>3, <2>5, Constants, Zenon
    <3>. QED
      BY <1>1, <1>3, <2>2, <2>4, <3>1
  <2>. QED
    BY <2>5, Zenon
<1>. QED
  BY <1>1, <1>3, <1>4, QuietInv, Zenon

\* PostgreSQL.
LEMMA PostgresInv ==
    ASSUME backend = "postgres", UNCHANGED backend, PostgresNext
    PROVE  (TrustInv => TrustInv') /\ (AccountInv => AccountInv')
<1>1. ASSUME RowTick PROVE (TrustInv => TrustInv') /\ (AccountInv => AccountInv')
  <2>1. UNCHANGED <<algorithm, state, until, decision, writer, log>> /\ server' = server + 1
    BY <1>1, Zenon DEF RowTick
  <2>2. server \in Nat => server' \in Nat /\ server <= server'
    BY <2>1
  <2>. QED
    BY <2>1, <2>2, QuietInv, Zenon DEF TrustInv, AccountInv
<1>. QED
  BY <1>1, AdmitRowInv, AdmitRowStrictInv, CleanupInv, Zenon DEF PostgresNext

\* A script that writes.
LEMMA ScriptInv ==
    ASSUME backend = "valkey", UNCHANGED <<algorithm, server, backend>>, NEW r \in SamePeriod,
           NEW now \in Readings, NEW cost \in 1 .. Policy[r].maxCost, NEW mode \in {"released", "strict"},
           WriteHash(mode, r, cost, now), NEW s, s = FoundHash(mode, r, now),
           mode = "strict" => ~HashCorrupt(s, r, HashClock(s, now))
    PROVE  (TrustInv => TrustInv') /\ (AccountInv => AccountInv')
<1> DEFINE at == HashClock(s, now)
           found == state.present
<1>1. Wrote(mode, s, at) /\ until' = server + HashTTL(r)
  BY HashWrites, Zenon
<1>2. s = (IF found THEN state ELSE Empty(mode, r, now)) /\ at = Later(now, s.last)
  BY Zenon DEF FoundHash, HashClock
<1>. HIDE DEF at
<1>3. ASSUME TrustInv \/ AccountInv PROVE found \in BOOLEAN
  <2>1. NoState.present \in BOOLEAN
    BY DEF NoState
  <2>2. state = NoState \/ state \in States
    BY <1>3, Zenon DEF TrustInv, AccountInv, Stored, Trusted, Sound, Ready
  <2>. QED
    BY <2>1, <2>2, Zenon DEF States
<1>4. ASSUME TrustInv PROVE TrustInv'
  <2>1. \E l : Ready(s, at, l)
    BY <1>2, <1>3, <1>4, FoundTrusted, Zenon
  <2>. QED
    BY <1>1, <1>4, <2>1, WroteInv, Zenon
<1>5. ASSUME AccountInv PROVE AccountInv'
  <2>1. ~found /\ state.present => backend = "postgres" /\ until <= now
    BY Zenon
  <2>2. Ready(s, at, log) /\ at \in Int /\ at <= server + Skew
    BY <1>2, <1>3, <1>5, <2>1, FoundReady, Zenon
  <2>3. /\ server \in Nat /\ Skew \in Nat /\ Period \in Nat /\ 2 * Skew <= Period
        /\ Margin = Skew /\ HashTTL(r) \in Int /\ 2 * Period <= HashTTL(r)
    <3>1. backend # "postgres"
      OBVIOUS
    <3>. QED
      BY <1>5, <3>1, Constants, RetentionFacts, Zenon DEF AccountInv, Patient, Margin
  <2>4. until' \in Int /\ at + Period + Margin <= until'
    BY <1>1, <2>2, <2>3
  <2>. QED
    BY <1>1, <1>5, <2>2, <2>4, WroteInv, Zenon
<1>. QED
  BY <1>4, <1>5, Zenon

\* The strict script, which may find the hash corrupt.
LEMMA AdmitScriptStrictInv ==
    ASSUME backend = "valkey", UNCHANGED backend, NEW r \in Revisions, NEW now \in Readings,
           NEW cost \in 1 .. Policy[r].maxCost, AdmitScriptStrict(r, cost, now)
    PROVE  (TrustInv => TrustInv') /\ (AccountInv => AccountInv')
<1> DEFINE s  == FoundHash("strict", r, now)
           at == HashClock(s, now)
           found == state.present
<1>1. /\ UNCHANGED <<algorithm, server, backend>>
      /\ r \in SamePeriod \/ (found /\ state.period # 0)
      /\ \/ HashCorrupt(s, r, at) /\ Refuse(r)
         \/ ~HashCorrupt(s, r, at) /\ WriteHash("strict", r, cost, now)
  BY Zenon DEF AdmitScriptStrict
<1>2. s = (IF found THEN state ELSE Empty("strict", r, now)) /\ at = Later(now, s.last)
  BY Zenon DEF FoundHash, HashClock
<1>3. SUFFICES ASSUME TrustInv \/ AccountInv PROVE (TrustInv => TrustInv') /\ (AccountInv => AccountInv')
  BY Zenon
<1>4. state = NoState \/ state \in States
  BY <1>3, Zenon DEF TrustInv, AccountInv, Stored, Trusted, Sound, Ready
<1>5. found \in BOOLEAN
  <2>1. NoState.present \in BOOLEAN
    BY DEF NoState
  <2>. QED
    BY <1>4, <2>1, Zenon DEF States
<1>6. ASSUME r \notin SamePeriod PROVE HashCorrupt(s, r, at) /\ Policy[r].period # Period
  <2>1. s = state /\ state.present /\ state.period # 0
    BY <1>1, <1>2, <1>6, Zenon
  <2>2. state # NoState
    BY <2>1 DEF NoState
  <2>. HIDE DEF at
  <2>. QED
    BY <1>4, <1>6, <2>1, <2>2, PeriodChecked, CorruptSame, Zenon
<1>7. CASE Refuse(r) /\ HashCorrupt(s, r, at)
  <2>1. ASSUME TrustInv PROVE Policy[r].period # Period \/ writer = "released"
    <3>1. CASE r \in SamePeriod
      <4>1. RowCorrupt(s, r, at)
        BY <1>7, CorruptSame, Zenon
      <4>. HIDE DEF s, at
      <4>. QED
        BY <1>2, <1>5, <2>1, <3>1, <4>1, FoundTrusted, Zenon
    <3>. QED
      BY <1>6, <3>1, Zenon
  <2>. QED
    BY <1>1, <1>7, <2>1, RefuseInv, Zenon
<1>8. CASE ~HashCorrupt(s, r, at) /\ WriteHash("strict", r, cost, now)
  BY <1>1, <1>6, <1>8, ScriptInv, Zenon
<1>. QED
  BY <1>1, <1>7, <1>8, Zenon

\* The server's clock advances, and the server removes what has expired.
LEMMA HashTickInv ==
    ASSUME backend = "valkey", UNCHANGED backend, HashTick
    PROVE  (TrustInv => TrustInv') /\ (AccountInv => AccountInv')
<1>1. /\ server' = server + 1 /\ UNCHANGED <<algorithm, decision, writer, log>>
      /\ \/ state.present /\ server' >= until /\ state' = NoState
         \/ UNCHANGED <<state, until>>
  BY Zenon DEF HashTick
<1>2. SUFFICES ASSUME TrustInv \/ AccountInv PROVE (TrustInv => TrustInv') /\ (AccountInv => AccountInv')
  BY Zenon
<1>3. server \in Nat
  BY <1>2, Zenon DEF TrustInv, AccountInv
<1>4. server' \in Nat /\ server <= server'
  BY <1>1, <1>3
<1>5. ASSUME AccountInv, state.present, server' >= until
      PROVE  \A t \in Instants : log[t] # 0 => t + Period + Skew <= server'
  <2>1. state # NoState /\ backend # "postgres"
    BY <1>5 DEF NoState
  <2>2. Sound(state, log) /\ until \in Int /\ state.last + Period + Skew <= until
    BY <1>5, <2>1, Zenon DEF AccountInv, Stored, Margin
  <2>3. state.last \in Instants /\ \A t \in Instants : t > state.last => log[t] = 0
    BY <2>2, Zenon DEF Sound, Ready
  <2>4. ASSUME NEW t \in Instants, log[t] # 0 PROVE t + Period + Skew <= server'
    <3>1. t \in Int /\ state.last \in Int /\ ~(t > state.last) /\ Skew \in Nat /\ Period \in Nat
      BY <2>3, <2>4, Constants, Zenon
    <3>. QED
      BY <1>4, <1>5, <2>2, <3>1
  <2>. QED
    BY <2>4, Zenon
<1>. QED
  BY <1>1, <1>4, <1>5, QuietInv, Zenon

\* Valkey.
LEMMA ValkeyInv ==
    ASSUME backend = "valkey", UNCHANGED backend, ValkeyNext
    PROVE  (TrustInv => TrustInv') /\ (AccountInv => AccountInv')
<1>1. ASSUME NEW r \in Revisions, NEW now \in Readings, NEW cost \in 1 .. Policy[r].maxCost,
             AdmitScript(r, cost, now)
      PROVE  (TrustInv => TrustInv') /\ (AccountInv => AccountInv')
  <2>1. r \in SamePeriod /\ WriteHash("released", r, cost, now) /\ UNCHANGED <<algorithm, server>>
    BY <1>1, Zenon DEF AdmitScript
  <2>2. "released" \in {"released", "strict"} /\ "released" # "strict"
    OBVIOUS
  <2>. QED
    BY <2>1, <2>2, ScriptInv, Zenon
<1>. QED
  BY <1>1, AdmitScriptStrictInv, HashTickInv, Zenon DEF ValkeyNext

\* Every step keeps both invariants.
LEMMA NextInv ==
    ASSUME [DeploymentNext]_<<vars, backend>>
    PROVE  (TrustInv => TrustInv') /\ (AccountInv => AccountInv')
<1>1. CASE DeploymentNext
  BY <1>1, PostgresInv, ValkeyInv, Zenon DEF DeploymentNext
<1>2. CASE UNCHANGED <<vars, backend>>
  <2>1. UNCHANGED <<algorithm, server, state, until, decision, writer, log, backend>>
    BY <1>2, Zenon DEF vars
  <2>2. server \in Nat => server' \in Nat /\ server <= server'
    BY <2>1
  <2>. QED
    BY <2>1, <2>2, QuietInv, Zenon DEF TrustInv, AccountInv
<1>. QED
  BY <1>1, <1>2, Zenon

\* No state is stored at first.
LEMMA InitInv ==
    ASSUME DeploymentInit
    PROVE  TrustInv /\ (Patient => AccountInv)
<1>1. /\ algorithm \in {"fixed", "sliding"} /\ backend \in {"postgres", "valkey"}
      /\ server = 0 /\ state = NoState /\ log = [t \in Instants |-> 0]
      /\ decision = Bare("none", CHOOSE r \in SamePeriod : TRUE)
  BY Zenon DEF DeploymentInit, Init
<1>2. decision.outcome = "none"
  BY <1>1 DEF Bare
<1>3. decision.outcome # "allowed" /\ decision.outcome # "limited" /\ decision.outcome # "corrupt"
  BY <1>2
<1>4. StrictTrustsStrict /\ Judged(decision, log)
  BY <1>3, Zenon DEF StrictTrustsStrict, Judged
<1>5. log \in [Instants -> Nat] /\ Forgotten(log) /\ server \in Nat
  BY <1>1 DEF Forgotten
<1>. QED
  BY <1>1, <1>4, <1>5, Zenon DEF TrustInv, AccountInv, Kinds

------------------------------------------------------------------------------
(* Theorems. *)

\* The state of a key accounts for what was admitted under it, through all
\* removals by the server and all rollouts, in PostgreSQL where the callers' clocks
\* are off by at most a quarter of the period and in Valkey where they are off by
\* at most half of it.
THEOREM StateAccounts == DeploymentSpec /\ Patient => []AccountInv
BY InitInv, NextInv, PTL DEF DeploymentSpec

\* What the invariant says of the last decision.
LEMMA JudgedFacts == AccountInv => NoOverAdmission /\ RollingBound /\ RefusalsJust
<1>1. ASSUME AccountInv PROVE Judged(decision, log)
  BY <1>1, Zenon DEF AccountInv
<1>2. \A from, to : Logged(from, to) = Between(Instants, log, from, to)
  BY Zenon DEF Logged, Between
<1>. QED
  BY <1>1, <1>2, Zenon DEF Judged, NoOverAdmission, RollingBound, RefusalsJust

\* "A rollback cannot reopen an older window" (docs/algorithms.md), in either
\* backend: mutateFixed and the fixed_window branch of admitScriptBody keep what
\* all callers and revisions admit in a window within the limit of each admission.
THEOREM FixedNeverOverAdmits == DeploymentSpec /\ Patient => []NoOverAdmission
BY StateAccounts, JudgedFacts, PTL

\* mutateSliding, mutateSlidingLegacy and the sliding_window branch admit no more
\* than the limit over a period less one segment, however the callers' clocks move
\* within the skew.
THEOREM SlidingNeverOverAdmits == DeploymentSpec /\ Patient => []RollingBound
BY StateAccounts, JudgedFacts, PTL

\* Neither backend refuses a request that an exact account of the window could take.
THEOREM RemoteRefusalsAreJust == DeploymentSpec /\ Patient => []RefusalsJust
BY StateAccounts, JudgedFacts, PTL

\* Through any rollouts, and whatever the clocks do, the checks of admitStrict and
\* of the strict script take for corrupt only a changed period or what a released
\* caller wrote last.
THEOREM StrictCallersAgree == DeploymentSpec => []StrictTrustsStrict
<1>1. TrustInv => StrictTrustsStrict
  BY Zenon DEF TrustInv
<1>. QED
  BY <1>1, InitInv, NextInv, PTL DEF DeploymentSpec
=============================================================================

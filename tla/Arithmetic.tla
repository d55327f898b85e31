------------------------------ MODULE Arithmetic ------------------------------
(* Facts about division, multiplication, least elements, induction and finite *)
(* sums that the proofs share.                                                *)
EXTENDS Integers, FiniteSetsExt, FiniteSetTheorems, WellFoundedInduction, TLAPS

\* Euclidean division of a natural number, as the code's bits.Div64 uses it.
LEMMA DivMod ==
    ASSUME NEW x \in Nat, NEW p \in Nat \ {0}
    PROVE  /\ x \div p \in Nat
           /\ x % p \in Nat
           /\ x % p < p
           /\ x = (x \div p) * p + (x % p)
OBVIOUS

\* Division rounds down for negative numbers too, as floorBoundary does.
LEMMA FloorDiv ==
    ASSUME NEW x \in Int, NEW p \in Nat \ {0}
    PROVE  /\ x \div p \in Int
           /\ x % p \in 0 .. p - 1
           /\ x = (x \div p) * p + (x % p)
OBVIOUS

\* Multiplication distributes over addition.
LEMMA Distribute ==
    ASSUME NEW a \in Int, NEW b \in Int, NEW c \in Int
    PROVE  (a + b) * c = a * c + b * c
OBVIOUS

\* Multiplication by a natural number is monotone.
LEMMA Monotone ==
    ASSUME NEW a \in Int, NEW b \in Int, NEW c \in Nat, a <= b
    PROVE  a * c <= b * c
OBVIOUS

\* Multiplication by a positive number can be cancelled.
LEMMA Cancel ==
    ASSUME NEW a \in Int, NEW b \in Int, NEW c \in Nat \ {0}, a * c = b * c
    PROVE  a = b
OBVIOUS

\* A quotient is the floor: the multiples of the divisor around x.
LEMMA FloorBounds ==
    ASSUME NEW x \in Int, NEW p \in Nat \ {0}
    PROVE  /\ (x \div p) * p <= x
           /\ x < (x \div p) * p + p
<1> DEFINE q == x \div p
           m == x % p
<1>1. q \in Int /\ m \in 0 .. p - 1 /\ x = q * p + m
  BY FloorDiv
<1>2. q * p \in Int
  BY <1>1
<1> HIDE DEF q, m
<1>. QED
  BY <1>1, <1>2 DEF q

\* A quotient is the only number with these bounds.
LEMMA FloorUnique ==
    ASSUME NEW x \in Int, NEW p \in Nat \ {0}, NEW q \in Int, q * p <= x, x < q * p + p
    PROVE  x \div p = q
<1> DEFINE k == x \div p
<1>1. k \in Int /\ k * p <= x /\ x < k * p + p
  BY FloorDiv, FloorBounds
<1> HIDE DEF k
<1>2. k * p \in Int /\ q * p \in Int
  BY <1>1
<1>3. ~(k + 1 <= q)
  <2>. SUFFICES ASSUME k + 1 <= q PROVE FALSE
    OBVIOUS
  <2>1. (k + 1) * p <= q * p
    BY <1>1, Monotone
  <2>2. (k + 1) * p = k * p + p
    BY <1>1
  <2>. QED
    BY <1>1, <1>2, <2>1, <2>2
<1>4. ~(q + 1 <= k)
  <2>. SUFFICES ASSUME q + 1 <= k PROVE FALSE
    OBVIOUS
  <2>1. (q + 1) * p <= k * p
    BY <1>1, Monotone
  <2>2. (q + 1) * p = q * p + p
    OBVIOUS
  <2>. QED
    BY <1>1, <1>2, <2>1, <2>2
<1>. QED
  BY <1>1, <1>3, <1>4 DEF k

\* Quotients are monotone.
LEMMA DivMonotone ==
    ASSUME NEW x \in Int, NEW y \in Int, NEW p \in Nat \ {0}, x <= y
    PROVE  x \div p <= y \div p
<1> DEFINE a == x \div p
           b == y \div p
<1>1. a \in Int /\ b \in Int /\ a * p <= x /\ y < b * p + p
  BY FloorDiv, FloorBounds
<1> HIDE DEF a, b
<1>2. SUFFICES ASSUME b + 1 <= a PROVE FALSE
  BY <1>1 DEF a, b
<1>3. (b + 1) * p <= a * p
  BY <1>1, <1>2, Monotone
<1>4. (b + 1) * p = b * p + p /\ a * p \in Int /\ b * p \in Int
  BY <1>1
<1>. QED
  BY <1>1, <1>3, <1>4

\* A set of integers with an upper bound has a greatest member, which is what the
\* loops that look for the latest of several instants find.
LEMMA Greatest ==
    ASSUME NEW T \in SUBSET Int, T # {}, NEW n \in Int, \A x \in T : x <= n
    PROVE  \E m \in T : \A y \in T : y <= m
<1> DEFINE D == {n - x : x \in T}
<1>1. D \subseteq Nat /\ D # {}
  <2>1. \A x \in T : x \in Int /\ n - x \in Nat
    OBVIOUS
  <2>2. D # {}
    <3>1. PICK x : x \in T
      OBVIOUS
    <3>2. n - x \in D
      BY <3>1
    <3>. QED
      BY <3>2
  <2>. QED
    BY <2>1, <2>2
<1> DEFINE R == OpToRel(<, Nat)
<1>2. \A x, y \in Nat : <<y, x>> \in R <=> y < x
  BY DEF OpToRel
<1>3. PICK d \in D : \A e \in D : ~(<<e, d>> \in R)
  <2>1. IsWellFoundedOn(R, Nat)
    BY NatLessThanWellFounded, Zenon
  <2> HIDE DEF D, R
  <2>. QED
    BY <1>1, <2>1, WFMin, Zenon
<1> HIDE DEF R
<1>4. PICK m \in T : d = n - m
  BY <1>3
<1>5. ASSUME NEW y \in T PROVE y <= m
  <2>1. n - y \in D /\ n - y \in Nat /\ d \in Nat
    BY <1>1, <1>3
  <2> HIDE DEF D
  <2>2. ~(n - y < d)
    BY <1>2, <1>3, <2>1, Zenon
  <2>. QED
    BY <1>4, <2>2
<1>. QED
  BY <1>5

\* A set of natural numbers has a least element.
LEMMA Least ==
    ASSUME NEW T \in SUBSET Nat, T # {}
    PROVE  \E m \in T : \A y \in T : m <= y
<1> DEFINE D == {0 - x : x \in T}
<1>1. D \in SUBSET Int /\ \A x \in D : x <= 0
  OBVIOUS
<1>2. D # {}
  <2>1. PICK x : x \in T
    OBVIOUS
  <2>2. 0 - x \in D
    BY <2>1
  <2>. QED
    BY <2>2
<1> HIDE DEF D
<1>3. PICK m \in D : \A y \in D : y <= m
  BY <1>1, <1>2, Greatest
<1>4. PICK n \in T : m = 0 - n
  BY DEF D
<1>5. \A y \in T : 0 - y <= 0 - n
  BY <1>3, <1>4 DEF D
<1>. QED
  BY <1>5

\* A set of integers with a lower bound has a minimum.
LEMMA MinFacts ==
    ASSUME NEW T \in SUBSET Int, T # {}, NEW n \in Int, \A x \in T : n <= x
    PROVE  Min(T) \in T /\ \A y \in T : Min(T) <= y
<1> DEFINE D == {0 - x : x \in T}
           b == 0 - n
<1>1. D \in SUBSET Int /\ b \in Int /\ \A x \in D : x <= b
  OBVIOUS
<1>2. D # {}
  <2>1. PICK x : x \in T
    OBVIOUS
  <2>2. 0 - x \in D
    BY <2>1
  <2>. QED
    BY <2>2
<1>. HIDE DEF D, b
<1>3. PICK m \in D : \A y \in D : y <= m
  BY <1>1, <1>2, Greatest, Zenon
<1>4. PICK k \in T : m = 0 - k
  BY DEF D
<1>5. \A y \in T : 0 - y <= 0 - k
  BY <1>3, <1>4 DEF D
<1>6. \A y \in T : k <= y
  BY <1>5
<1>. QED
  BY <1>6, Zenon DEF Min

\* A quotient rounded up is the first multiplier that reaches x.
LEMMA CeilExact ==
    ASSUME NEW x \in Nat, NEW c \in Nat \ {0}, NEW d \in Int
    PROVE  d * c >= x <=> d >= (x + c - 1) \div c
<1> DEFINE q == (x + c - 1) \div c
<1>1. q \in Int /\ q * c <= x + c - 1 /\ x + c - 1 < q * c + c
  BY FloorDiv, FloorBounds
<1> HIDE DEF q
<1>2. d * c \in Int /\ q * c \in Int /\ (q - 1) * c = q * c - c
  BY <1>1
<1>3. CASE d >= q
  <2>1. q * c <= d * c
    BY <1>1, <1>3, Monotone
  <2>. QED
    BY <1>1, <1>2, <1>3, <2>1 DEF q
<1>4. CASE d <= q - 1
  <2>1. d * c <= (q - 1) * c
    BY <1>1, <1>4, Monotone
  <2>2. ~(d * c >= x)
    BY <1>1, <1>2, <2>1
  <2>. QED
    BY <1>1, <1>4, <2>2 DEF q
<1>. QED
  BY <1>1, <1>3, <1>4

\* A proper fraction m/p does not help t reach the whole number n.
LEMMA WholePart ==
    ASSUME NEW t \in Int, NEW n \in Int, NEW p \in Nat \ {0}, NEW m \in 0 .. p - 1
    PROVE  t >= n <=> t * p + m >= n * p
<1>1. t * p \in Int /\ n * p \in Int /\ (n - 1) * p = n * p - p
  OBVIOUS
<1>2. CASE t >= n
  <2>1. n * p <= t * p
    BY <1>2, Monotone
  <2>. QED
    BY <1>1, <1>2, <2>1
<1>3. CASE t <= n - 1
  <2>1. t * p <= (n - 1) * p
    BY <1>3, Monotone
  <2>2. ~(t * p + m >= n * p)
    BY <1>1, <2>1
  <2>. QED
    BY <1>3, <2>2
<1>. QED
  BY <1>2, <1>3

------------------------------------------------------------------------------
\* How the community modules take a sum: the elements of a set one by one, in an
\* order that is not specified.
Chosen(s) == CHOOSE x \in s : TRUE

\* The element that is taken is in the set.
LEMMA ChosenIn == ASSUME NEW s, s # {} PROVE Chosen(s) \in s
BY DEF Chosen

SumStep(f, g, s) == IF s = {} THEN 0 ELSE f[Chosen(s)] + g[s \ {Chosen(s)}]

\* The definition of the sum.
LEMMA SumDef ==
    ASSUME NEW f, NEW S
    PROVE  SumFunctionOnSet(f, S) = (CHOOSE g : g = [s \in SUBSET S |-> SumStep(f, g, s)])[S]
BY DEF SumFunctionOnSet, FoldFunctionOnSet, MapThenFoldSet, SumStep, Chosen

\* Induction over the natural numbers, for a set of them.
LEMMA Induct ==
    ASSUME NEW T \in SUBSET Nat, 0 \in T, \A n \in T : n + 1 \in T
    PROVE  T = Nat
<1>. DEFINE C == Nat \ T
<1>1. SUFFICES ASSUME C # {} PROVE FALSE
  BY Zenon
<1>2. PICK m \in C : \A y \in C : m <= y
  BY <1>1, Least, Zenon
<1>3. m # 0 /\ m \in Nat
  OBVIOUS
<1>4. m - 1 \in Nat /\ ~(m <= m - 1) /\ (m - 1) + 1 = m
  BY <1>3
<1>5. m - 1 \in T
  BY <1>2, <1>4
<1>6. (m - 1) + 1 \in T
  BY <1>5
<1>7. m \in T
  BY <1>6, <1>4
<1>. QED
  BY <1>7

\* There is a function that satisfies the recursive definition of a sum: on the
\* subsets of at most n elements, for each n.
LEMMA SumExists ==
    ASSUME NEW f, NEW S, IsFiniteSet(S)
    PROVE  \E g : g = [s \in SUBSET S |-> SumStep(f, g, s)]
<1>. DEFINE D(n) == {s \in SUBSET S : Cardinality(s) <= n}
            N == {n \in Nat : \E g : g = [s \in D(n) |-> SumStep(f, g, s)]}
<1>0. \A s \in SUBSET S : IsFiniteSet(s) /\ Cardinality(s) \in Nat
  BY FS_Subset, FS_CardinalityType
<1>1. 0 \in N
  <2>1. \A s \in D(0) : s = {}
    BY <1>0, FS_EmptySet
  <2>. DEFINE g == [s \in D(0) |-> 0]
  <2>2. \A s \in D(0) : SumStep(f, g, s) = 0
    BY <2>1 DEF SumStep
  <2>3. g = [s \in D(0) |-> SumStep(f, g, s)]
    BY <2>2
  <2>. QED
    BY <2>3, Zenon
<1>2. ASSUME NEW n \in N PROVE n + 1 \in N
  <2>1. PICK g : g = [s \in D(n) |-> SumStep(f, g, s)]
    BY Zenon
  <2>. DEFINE h == [s \in D(n + 1) |-> SumStep(f, g, s)]
  <2>2. ASSUME NEW s \in D(n), s # {} PROVE s \ {Chosen(s)} \in D(n)
    <3>1. Chosen(s) \in s
      BY <2>2, ChosenIn
    <3>2. Cardinality(s \ {Chosen(s)}) = Cardinality(s) - 1
      BY <1>0, <3>1, FS_RemoveElement
    <3>. QED
      BY <1>0, <3>2
  <2>3. ASSUME NEW s \in D(n + 1), s # {} PROVE s \ {Chosen(s)} \in D(n)
    <3>1. Chosen(s) \in s
      BY <2>3, ChosenIn
    <3>2. Cardinality(s \ {Chosen(s)}) = Cardinality(s) - 1
      BY <1>0, <3>1, FS_RemoveElement
    <3>. QED
      BY <1>0, <3>2
  <2>4. D(n) \subseteq D(n + 1)
    BY <1>0
  <2>. HIDE DEF D
  <2>5. ASSUME NEW s \in D(n) PROVE h[s] = g[s]
    <3>1. g[s] = SumStep(f, g, s)
      BY <2>1
    <3>2. h[s] = SumStep(f, g, s)
      BY <2>4
    <3>. QED
      BY <3>1, <3>2
  <2>6. ASSUME NEW s \in D(n + 1) PROVE SumStep(f, g, s) = SumStep(f, h, s)
    <3>1. CASE s = {}
      BY <3>1 DEF SumStep
    <3>2. CASE s # {}
      <4>1. h[s \ {Chosen(s)}] = g[s \ {Chosen(s)}]
        BY <2>3, <2>5, <3>2
      <4>. HIDE DEF h
      <4>. QED
        BY <4>1, <3>2 DEF SumStep
    <3>. QED
      BY <3>1, <3>2
  <2>7. h = [s \in D(n + 1) |-> SumStep(f, h, s)]
    <3>. DEFINE k == [s \in D(n + 1) |-> SumStep(f, h, s)]
    <3>1. \A s \in D(n + 1) : h[s] = k[s]
      BY <2>6
    <3>. QED
      BY <3>1
  <2>. HIDE DEF h
  <2>. QED
    BY <2>7
<1>. HIDE DEF N
<1>3. N = Nat
  <2>1. N \in SUBSET Nat
    BY DEF N
  <2>. QED
    BY <1>1, <1>2, <2>1, Induct
<1>4. Cardinality(S) \in N
  BY <1>3, FS_CardinalityType
<1>5. D(Cardinality(S)) = SUBSET S
  BY FS_Subset
<1>. HIDE DEF D
<1>. QED
  BY <1>4, <1>5 DEF N

\* Induction over the subsets of a finite set, from the smaller to the larger.
LEMMA SetInduct ==
    ASSUME NEW S, IsFiniteSet(S), NEW T,
           \A s \in SUBSET S : (\A x \in s : s \ {x} \in T) => s \in T
    PROVE  \A s \in SUBSET S : s \in T
<1> DEFINE N == {n \in Nat : \A s \in SUBSET S : Cardinality(s) = n => s \in T}
<1>0. \A s \in SUBSET S : IsFiniteSet(s) /\ Cardinality(s) \in Nat
  BY FS_Subset, FS_CardinalityType
<1>1. 0 \in N
  <2>1. \A s \in SUBSET S : Cardinality(s) = 0 => s = {}
    BY <1>0, FS_EmptySet
  <2>2. {} \in T
    OBVIOUS
  <2>. QED
    BY <2>1, <2>2
<1>2. ASSUME NEW n \in N PROVE n + 1 \in N
  <2>1. SUFFICES ASSUME NEW s \in SUBSET S, Cardinality(s) = n + 1 PROVE s \in T
    OBVIOUS
  <2>2. n \in Nat /\ \A u \in SUBSET S : Cardinality(u) = n => u \in T
    OBVIOUS
  <2>3. ASSUME NEW x \in s PROVE s \ {x} \in T
    <3>1. Cardinality(s \ {x}) = Cardinality(s) - 1
      BY <1>0, FS_RemoveElement
    <3>2. Cardinality(s \ {x}) = n /\ s \ {x} \in SUBSET S
      BY <2>1, <2>2, <3>1
    <3>. QED
      BY <2>2, <3>2
  <2>. QED
    BY <2>3
<1>. HIDE DEF N
<1>3. N = Nat
  <2>1. N \in SUBSET Nat
    BY DEF N
  <2>. QED
    BY <1>1, <1>2, <2>1, Induct
<1>. QED
  BY <1>0, <1>3 DEF N

\* A sum is taken element by element.
LEMMA SumUnfold ==
    ASSUME NEW f, NEW S, IsFiniteSet(S)
    PROVE  /\ SumFunctionOnSet(f, {}) = 0
           /\ S # {} => SumFunctionOnSet(f, S) = f[Chosen(S)] + SumFunctionOnSet(f, S \ {Chosen(S)})
<1> DEFINE G(U) == CHOOSE g : g = [s \in SUBSET U |-> SumStep(f, g, s)]
<1>1. ASSUME NEW U, IsFiniteSet(U)
      PROVE  G(U) = [s \in SUBSET U |-> SumStep(f, G(U), s)]
  <2>1. \E g : g = [s \in SUBSET U |-> SumStep(f, g, s)]
    BY <1>1, SumExists, Zenon
  <2>. QED
    BY <2>1
<1>2. \A U : SumFunctionOnSet(f, U) = G(U)[U]
  BY SumDef, Zenon
<1>. HIDE DEF G
<1>3. SumFunctionOnSet(f, {}) = 0
  <2>1. G({})[{}] = SumStep(f, G({}), {})
    BY <1>1, FS_EmptySet, Zenon
  <2>. QED
    BY <1>2, <2>1 DEF SumStep
<1>4. ASSUME S # {} PROVE SumFunctionOnSet(f, S) = f[Chosen(S)] + SumFunctionOnSet(f, S \ {Chosen(S)})
  <2> DEFINE U == S \ {Chosen(S)}
             a == G(S)
             b == G(U)
             T == {s \in SUBSET U : a[s] = b[s]}
  <2>1. IsFiniteSet(U) /\ U \in SUBSET S
    BY FS_Subset
  <2>. HIDE DEF U
  <2>2. /\ \A s \in SUBSET S : a[s] = SumStep(f, a, s)
        /\ \A s \in SUBSET U : b[s] = SumStep(f, b, s)
    <3>1. a = [s \in SUBSET S |-> SumStep(f, a, s)]
      BY <1>1, Zenon
    <3>2. b = [s \in SUBSET U |-> SumStep(f, b, s)]
      BY <1>1, <2>1, Zenon
    <3>. HIDE DEF a, b
    <3>. QED
      BY <3>1, <3>2
  <2>. HIDE DEF a, b
  <2>3. \A s \in SUBSET U : s \in T
    <3>1. ASSUME NEW s \in SUBSET U, \A x \in s : s \ {x} \in T PROVE s \in T
      <4>1. s \in SUBSET S
        BY <2>1
      <4>2. CASE s = {}
        BY <2>2, <4>1, <4>2 DEF SumStep
      <4>3. CASE s # {}
        <5>1. a[s \ {Chosen(s)}] = b[s \ {Chosen(s)}]
          BY <3>1, <4>3, ChosenIn
        <5>. QED
          BY <2>2, <4>1, <4>3, <5>1 DEF SumStep
      <4>. QED
        BY <4>2, <4>3
    <3>. HIDE DEF T
    <3>. QED
      BY <2>1, <3>1, SetInduct, Zenon
  <2>4. a[U] = b[U]
    BY <2>3
  <2>5. a[S] = f[Chosen(S)] + a[U]
    BY <1>4, <2>2 DEF SumStep, U
  <2>. QED
    BY <1>2, <2>4, <2>5 DEF a, b, U
<1>. QED
  BY <1>3, <1>4

\* A sum of natural numbers is one.
LEMMA SumNat ==
    ASSUME NEW f, NEW S, IsFiniteSet(S), \A x \in S : f[x] \in Nat
    PROVE  SumFunctionOnSet(f, S) \in Nat
<1> DEFINE T == {s \in SUBSET S : SumFunctionOnSet(f, s) \in Nat}
<1>1. ASSUME NEW s \in SUBSET S, \A x \in s : s \ {x} \in T PROVE s \in T
  <2>1. IsFiniteSet(s)
    BY FS_Subset
  <2>2. CASE s = {}
    <3>1. SumFunctionOnSet(f, {}) = 0
      BY SumUnfold, FS_EmptySet, Zenon
    <3>. QED
      BY <2>2, <3>1
  <2>3. CASE s # {}
    <3>1. Chosen(s) \in s
      BY <2>3, ChosenIn
    <3>2. SumFunctionOnSet(f, s \ {Chosen(s)}) \in Nat /\ f[Chosen(s)] \in Nat
      BY <1>1, <3>1
    <3>. QED
      BY <2>1, <2>3, <3>2, SumUnfold
  <2>. QED
    BY <2>2, <2>3
<1>. HIDE DEF T
<1>2. \A s \in SUBSET S : s \in T
  BY <1>1, SetInduct, Zenon
<1>. QED
  BY <1>2 DEF T

\* Any element may be taken first.
LEMMA SumSplit ==
    ASSUME NEW f, NEW S, IsFiniteSet(S), \A x \in S : f[x] \in Nat, NEW x \in S
    PROVE  SumFunctionOnSet(f, S) = f[x] + SumFunctionOnSet(f, S \ {x})
<1> DEFINE Sum(s) == SumFunctionOnSet(f, s)
           T == {s \in SUBSET S : \A y \in s : Sum(s) = f[y] + Sum(s \ {y})}
<1>0. \A s \in SUBSET S : IsFiniteSet(s) /\ Sum(s) \in Nat
  BY FS_Subset, SumNat
<1>1. ASSUME NEW s \in SUBSET S, \A y \in s : s \ {y} \in T PROVE s \in T
  <2>1. ASSUME NEW y \in s PROVE Sum(s) = f[y] + Sum(s \ {y})
    <3> DEFINE p == Chosen(s)
    <3>1. p \in s
      BY ChosenIn
    <3>2. Sum(s) = f[p] + Sum(s \ {p})
      BY <1>0, SumUnfold
    <3>. HIDE DEF p, Sum
    <3>3. CASE y = p
      BY <3>2, <3>3
    <3>4. CASE y # p
      <4>1. s \ {p} \in T /\ s \ {y} \in T /\ y \in s \ {p} /\ p \in s \ {y}
        BY <1>1, <3>1, <3>4
      <4>2. (s \ {p}) \ {y} = (s \ {y}) \ {p} /\ (s \ {p}) \ {y} \in SUBSET S
        OBVIOUS
      <4>3. Sum(s \ {p}) = f[y] + Sum((s \ {p}) \ {y}) /\ Sum(s \ {y}) = f[p] + Sum((s \ {p}) \ {y})
        BY <4>1, <4>2, Zenon
      <4>4. f[y] \in Nat /\ f[p] \in Nat /\ Sum((s \ {p}) \ {y}) \in Nat
        BY <1>0, <3>1, <4>2
      <4>. HIDE DEF T
      <4>. QED
        BY <3>2, <4>3, <4>4
    <3>. QED
      BY <3>3, <3>4
  <2>. QED
    BY <2>1
<1>. HIDE DEF T
<1>2. \A s \in SUBSET S : s \in T
  BY <1>1, SetInduct, Zenon
<1>. QED
  BY <1>2 DEF T

\* A sum depends on the values in its set alone.
LEMMA SumEqual ==
    ASSUME NEW f, NEW g, NEW S, IsFiniteSet(S), \A x \in S : f[x] = g[x]
    PROVE  SumFunctionOnSet(f, S) = SumFunctionOnSet(g, S)
<1> DEFINE T == {s \in SUBSET S : SumFunctionOnSet(f, s) = SumFunctionOnSet(g, s)}
<1>1. ASSUME NEW s \in SUBSET S, \A x \in s : s \ {x} \in T PROVE s \in T
  <2>1. IsFiniteSet(s)
    BY FS_Subset
  <2>2. CASE s = {}
    BY <2>2, SumUnfold, FS_EmptySet, Zenon
  <2>3. CASE s # {}
    <3>1. Chosen(s) \in s
      BY <2>3, ChosenIn
    <3>2. SumFunctionOnSet(f, s \ {Chosen(s)}) = SumFunctionOnSet(g, s \ {Chosen(s)}) /\ f[Chosen(s)] = g[Chosen(s)]
      BY <1>1, <3>1
    <3>. QED
      BY <2>1, <2>3, <3>2, SumUnfold
  <2>. QED
    BY <2>2, <2>3
<1>. HIDE DEF T
<1>2. \A s \in SUBSET S : s \in T
  BY <1>1, SetInduct, Zenon
<1>. QED
  BY <1>2 DEF T

\* Sums over disjoint sets add up.
LEMMA SumDisjoint ==
    ASSUME NEW f, NEW A, NEW B, IsFiniteSet(A), IsFiniteSet(B), A \cap B = {},
           \A x \in A \cup B : f[x] \in Nat
    PROVE  SumFunctionOnSet(f, A \cup B) = SumFunctionOnSet(f, A) + SumFunctionOnSet(f, B)
<1> DEFINE Sum(s) == SumFunctionOnSet(f, s)
           T == {s \in SUBSET A : Sum(s \cup B) = Sum(s) + Sum(B)}
<1>1. ASSUME NEW s \in SUBSET A, \A x \in s : s \ {x} \in T PROVE s \in T
  <2>1. IsFiniteSet(s) /\ IsFiniteSet(s \cup B)
    BY FS_Subset, FS_Union, Zenon
  <2>2. Sum(B) \in Nat
    BY SumNat
  <2>3. CASE s = {}
    <3>1. Sum(s) = 0 /\ s \cup B = B
      BY <2>3, SumUnfold, FS_EmptySet
    <3>. HIDE DEF Sum
    <3>. QED
      BY <2>2, <3>1
  <2>4. CASE s # {}
    <3>1. PICK x : x \in s
      BY <2>4
    <3>2. Sum(s \cup B) = f[x] + Sum((s \cup B) \ {x}) /\ Sum(s) = f[x] + Sum(s \ {x})
      BY <2>1, <3>1, SumSplit
    <3>3. (s \cup B) \ {x} = (s \ {x}) \cup B
      BY <3>1
    <3>4. Sum((s \ {x}) \cup B) = Sum(s \ {x}) + Sum(B)
      BY <1>1, <3>1
    <3>5. f[x] \in Nat /\ Sum(s \ {x}) \in Nat
      <4>1. IsFiniteSet(s \ {x})
        BY <2>1, FS_Subset
      <4>. QED
        BY <3>1, <4>1, SumNat
    <3>. HIDE DEF Sum
    <3>. QED
      BY <2>2, <3>2, <3>3, <3>4, <3>5
  <2>. QED
    BY <2>3, <2>4
<1>. HIDE DEF T
<1>2. \A s \in SUBSET A : s \in T
  BY <1>1, SetInduct, Zenon
<1>. QED
  BY <1>2 DEF T

\* A sum of zeros is zero.
LEMMA SumZero ==
    ASSUME NEW f, NEW S, IsFiniteSet(S), \A x \in S : f[x] = 0
    PROVE  SumFunctionOnSet(f, S) = 0
<1> DEFINE T == {s \in SUBSET S : SumFunctionOnSet(f, s) = 0}
<1>1. ASSUME NEW s \in SUBSET S, \A x \in s : s \ {x} \in T PROVE s \in T
  <2>1. IsFiniteSet(s)
    BY FS_Subset
  <2>2. CASE s = {}
    BY <2>2, SumUnfold, FS_EmptySet, Zenon
  <2>3. CASE s # {}
    <3>1. Chosen(s) \in s
      BY <2>3, ChosenIn
    <3>2. SumFunctionOnSet(f, s \ {Chosen(s)}) = 0 /\ f[Chosen(s)] = 0
      BY <1>1, <3>1
    <3>. QED
      BY <2>1, <2>3, <3>2, SumUnfold
  <2>. QED
    BY <2>2, <2>3
<1>. HIDE DEF T
<1>2. \A s \in SUBSET S : s \in T
  BY <1>1, SetInduct, Zenon
<1>. QED
  BY <1>2 DEF T

\* A larger set has a larger sum; the same, when it only adds zeros.
LEMMA SumSubset ==
    ASSUME NEW f, NEW A, NEW B, IsFiniteSet(B), A \subseteq B, \A x \in B : f[x] \in Nat
    PROVE  /\ SumFunctionOnSet(f, A) \in Nat /\ SumFunctionOnSet(f, B) \in Nat
           /\ SumFunctionOnSet(f, A) <= SumFunctionOnSet(f, B)
           /\ (\A x \in B \ A : f[x] = 0) => SumFunctionOnSet(f, A) = SumFunctionOnSet(f, B)
<1> DEFINE C == B \ A
<1>1. IsFiniteSet(A) /\ IsFiniteSet(C) /\ A \cap C = {} /\ A \cup C = B
  BY FS_Subset
<1>2. SumFunctionOnSet(f, B) = SumFunctionOnSet(f, A) + SumFunctionOnSet(f, C)
  <2>. HIDE DEF C
  <2>. QED
    BY <1>1, SumDisjoint
<1>3. SumFunctionOnSet(f, A) \in Nat /\ SumFunctionOnSet(f, C) \in Nat
  BY <1>1, SumNat
<1>4. (\A x \in C : f[x] = 0) => SumFunctionOnSet(f, C) = 0
  BY <1>1, SumZero
<1>. HIDE DEF C
<1>. QED
  BY <1>2, <1>3, <1>4 DEF C

\* When one value changes, so does the sum.
LEMMA SumChange ==
    ASSUME NEW f, NEW S, IsFiniteSet(S), \A x \in S : f[x] \in Nat, NEW y \in S, NEW g,
           \A x \in S : x # y => g[x] = f[x], NEW n \in Nat, g[y] = f[y] + n
    PROVE  SumFunctionOnSet(g, S) = SumFunctionOnSet(f, S) + n
<1> DEFINE U == S \ {y}
<1>1. IsFiniteSet(U) /\ \A x \in U : f[x] = g[x] /\ f[x] \in Nat
  BY FS_Subset
<1>2. SumFunctionOnSet(f, S) = f[y] + SumFunctionOnSet(f, U)
  BY SumSplit
<1>3. \A x \in S : g[x] \in Nat
  OBVIOUS
<1>4. SumFunctionOnSet(g, S) = g[y] + SumFunctionOnSet(g, U)
  BY <1>3, SumSplit
<1>. HIDE DEF U
<1>5. SumFunctionOnSet(f, U) = SumFunctionOnSet(g, U) /\ SumFunctionOnSet(f, U) \in Nat
  BY <1>1, SumEqual, SumNat
<1>. QED
  BY <1>2, <1>4, <1>5

\* The elements of S that c puts into group k.
Group(c, S, k) == {x \in S : c[x] = k}

\* A sum may be taken group by group.
LEMMA SumGroups ==
    ASSUME NEW f, NEW S, IsFiniteSet(S), \A x \in S : f[x] \in Nat,
           NEW c, NEW K, IsFiniteSet(K), \A x \in S : c[x] \in K,
           NEW h, \A k \in K : h[k] = SumFunctionOnSet(f, Group(c, S, k))
    PROVE  SumFunctionOnSet(h, K) = SumFunctionOnSet(f, S)
<1> DEFINE P(L) == {x \in S : c[x] \in L}
           Q(k) == Group(c, S, k)
           T == {L \in SUBSET K : SumFunctionOnSet(h, L) = SumFunctionOnSet(f, P(L))}
<1>0. /\ \A k \in K : IsFiniteSet(Q(k)) /\ h[k] = SumFunctionOnSet(f, Q(k)) /\ h[k] \in Nat
      /\ \A L : IsFiniteSet(P(L)) /\ SumFunctionOnSet(f, P(L)) \in Nat
  <2>1. \A U \in SUBSET S : IsFiniteSet(U) /\ SumFunctionOnSet(f, U) \in Nat
    BY FS_Subset, SumNat
  <2>2. \A k : Q(k) \in SUBSET S /\ \A L : P(L) \in SUBSET S
    BY DEF Group
  <2>. QED
    BY <2>1, <2>2
<1>1. ASSUME NEW L \in SUBSET K, \A k \in L : L \ {k} \in T PROVE L \in T
  <2>1. IsFiniteSet(L)
    BY FS_Subset
  <2>2. CASE L = {}
    <3>1. P(L) = {}
      BY <2>2
    <3>. QED
      BY <2>2, <3>1, SumUnfold, FS_EmptySet, Zenon
  <2>3. CASE L # {}
    <3>1. PICK k : k \in L
      BY <2>3
    <3>2. SumFunctionOnSet(h, L) = h[k] + SumFunctionOnSet(h, L \ {k})
      <4>1. \A j \in L : h[j] \in Nat
        BY <1>0
      <4>. QED
        BY <2>1, <3>1, <4>1, SumSplit
    <3>3. SumFunctionOnSet(h, L \ {k}) = SumFunctionOnSet(f, P(L \ {k}))
      BY <1>1, <3>1
    <3>4. P(L) = Q(k) \cup P(L \ {k}) /\ Q(k) \cap P(L \ {k}) = {}
      BY <3>1 DEF Group
    <3>5. SumFunctionOnSet(f, P(L)) = SumFunctionOnSet(f, Q(k)) + SumFunctionOnSet(f, P(L \ {k}))
      <4>1. k \in K /\ \A x \in Q(k) \cup P(L \ {k}) : f[x] \in Nat
        BY <3>1 DEF Group
      <4>2. IsFiniteSet(Q(k)) /\ IsFiniteSet(P(L \ {k}))
        BY <1>0, <4>1, Zenon
      <4>. HIDE DEF P, Q
      <4>3. SumFunctionOnSet(f, Q(k) \cup P(L \ {k}))
              = SumFunctionOnSet(f, Q(k)) + SumFunctionOnSet(f, P(L \ {k}))
        BY <3>4, <4>1, <4>2, SumDisjoint, Zenon
      <4>. QED
        BY <3>4, <4>3
    <3>. HIDE DEF P, Q
    <3>. QED
      BY <1>0, <3>1, <3>2, <3>3, <3>5
  <2>. QED
    BY <2>2, <2>3
<1>2. P(K) = S
  OBVIOUS
<1>3. \A L \in SUBSET K : L \in T
  <2>. HIDE DEF T
  <2>. QED
    BY <1>1, SetInduct, Zenon
<1>. QED
  BY <1>2, <1>3

\* One of finitely many numbers is the greatest.
LEMMA GreatestOf ==
    ASSUME NEW n \in Nat \ {0}, NEW f, \A i \in 1 .. n : f[i] \in Nat
    PROVE  \E i \in 1 .. n : \A j \in 1 .. n : f[j] <= f[i]
<1> DEFINE T == {k \in Nat : k + 1 <= n => \E i \in 1 .. k + 1 : \A j \in 1 .. k + 1 : f[j] <= f[i]}
<1>1. 0 \in T
  <2>1. 1 .. 0 + 1 = {1} /\ 1 \in 1 .. n
    OBVIOUS
  <2>. QED
    BY <2>1
<1>2. ASSUME NEW k \in T PROVE k + 1 \in T
  <2>1. k \in Nat /\ k + 1 \in Nat
    OBVIOUS
  <2>2. SUFFICES ASSUME (k + 1) + 1 <= n
                 PROVE  \E i \in 1 .. (k + 1) + 1 : \A j \in 1 .. (k + 1) + 1 : f[j] <= f[i]
    BY <2>1
  <2>3. PICK i \in 1 .. k + 1 : \A j \in 1 .. k + 1 : f[j] <= f[i]
    BY <2>1, <2>2
  <2>4. /\ i \in 1 .. (k + 1) + 1 /\ i \in 1 .. n /\ (k + 1) + 1 \in 1 .. n
        /\ \A j \in 1 .. (k + 1) + 1 : j \in 1 .. k + 1 \/ j = (k + 1) + 1
        /\ \A j \in 1 .. k + 1 : j \in 1 .. n
    BY <2>1, <2>2, <2>3
  <2>5. f[i] \in Nat /\ f[(k + 1) + 1] \in Nat /\ \A j \in 1 .. k + 1 : f[j] \in Nat
    BY <2>4, Zenon
  <2>6. CASE f[(k + 1) + 1] <= f[i]
    BY <2>3, <2>4, <2>6, Zenon
  <2>7. CASE f[i] < f[(k + 1) + 1]
    <3>1. \A j \in 1 .. k + 1 : f[j] <= f[(k + 1) + 1]
      BY <2>3, <2>5, <2>7
    <3>2. f[(k + 1) + 1] <= f[(k + 1) + 1]
      BY <2>5
    <3>3. (k + 1) + 1 \in 1 .. (k + 1) + 1
      BY <2>1
    <3>. QED
      BY <2>4, <3>1, <3>2, <3>3, Zenon
  <2>. QED
    BY <2>5, <2>6, <2>7
<1>. HIDE DEF T
<1>3. T = Nat
  <2>1. T \in SUBSET Nat
    BY DEF T
  <2>. QED
    BY <1>1, <1>2, <2>1, Induct
<1>4. PICK k \in Nat : k + 1 = n
  <2>1. n - 1 \in Nat /\ (n - 1) + 1 = n
    OBVIOUS
  <2>. QED
    BY <2>1
<1>5. k + 1 <= n => \E i \in 1 .. k + 1 : \A j \in 1 .. k + 1 : f[j] <= f[i]
  BY <1>3, Zenon DEF T
<1>6. k + 1 <= n
  BY <1>4
<1>. QED
  BY <1>4, <1>5, <1>6, Zenon
=============================================================================

----------------------------- MODULE RequestProofs -----------------------------
(***************************************************************************)
(* For any bodies and any workflow: what a client asked for is what the    *)
(* model is run with, what it is charged for and what it is told.          *)
(***************************************************************************)
EXTENDS RequestPath, FiniteSetTheorems, NaturalsInduction, WellFoundedInduction, TLAPS

-----------------------------------------------------------------------------
(* Induction over the naturals below a bound, the property being the set of  *)
(* the numbers that have it.                                                 *)
LEMMA LeastNat ==
  ASSUME NEW T \in SUBSET Nat, T # {}
  PROVE  \E m \in T : \A k \in T : ~ (k < m)
<1>1. \E m \in T : \A k \in T : <<k, m>> \notin OpToRel(<, Nat)
  BY NatLessThanWellFounded, WFMin
<1>2. \A k, m \in Nat : k < m => <<k, m>> \in OpToRel(<, Nat)
  BY DEF OpToRel
<1> QED
  BY <1>1, <1>2, Zenon

LEMMA Climb ==
  ASSUME NEW N \in Nat, NEW G, 0 \in G, \A n \in 1..N : n - 1 \in G => n \in G
  PROVE  0..N \subseteq G
<1> DEFINE T == (0..N) \ G
<1>1. SUFFICES ASSUME T # {} PROVE FALSE
  OBVIOUS
<1>2. T \in SUBSET Nat
  OBVIOUS
<1>3. PICK m \in T : \A k \in T : ~ (k < m)
  BY <1>1, <1>2, LeastNat
<1>4. m \in 1..N /\ m - 1 \in 0..N /\ m \notin G
  BY <1>3
<1> QED
  BY <1>3, <1>4

(* How many of the places lie up to i.                                       *)
Rank(places, i) == Cardinality({k \in places : k <= i})

LEMMA RankSteps ==
  ASSUME NEW N \in Nat, NEW places, places \subseteq 1..N
  PROVE  /\ Rank(places, 0) = 0 /\ Rank(places, N) = Cardinality(places)
         /\ \A n \in 0..N : Rank(places, n) \in Nat
         /\ \A n \in 1..N : n \notin places => Rank(places, n) = Rank(places, n - 1)
         /\ \A n \in 1..N : n \in places => Rank(places, n) = Rank(places, n - 1) + 1
         /\ \A i, n \in 0..N : i <= n => Rank(places, i) <= Rank(places, n)
<1> DEFINE Below(i) == {k \in places : k <= i}
<1>1. IsFiniteSet(1..N)
  BY FS_Interval
<1>2. IsFiniteSet(places) /\ \A i \in Nat : IsFiniteSet(Below(i)) /\ Cardinality(Below(i)) \in Nat
  BY <1>1, FS_Subset, FS_CardinalityType
<1>3. Rank(places, 0) = 0
  <2>1. Below(0) = {}
    <3>1. \A k \in places : ~ (k <= 0)
      OBVIOUS
    <3> QED
      BY <3>1
  <2> QED
    BY <2>1, FS_EmptySet DEF Rank
<1>4. Rank(places, N) = Cardinality(places)
  <2>1. Below(N) = places
    <3>1. \A k \in places : k <= N
      OBVIOUS
    <3> QED
      BY <3>1
  <2> QED
    BY <2>1 DEF Rank
<1>5. ASSUME NEW n \in 1..N, n \notin places PROVE Rank(places, n) = Rank(places, n - 1)
  <2>1. Below(n) = Below(n - 1)
    <3>1. \A k \in places : k <= n <=> k <= n - 1
      BY <1>5
    <3> QED
      BY <3>1
  <2> QED
    BY <2>1 DEF Rank
<1>6. ASSUME NEW n \in 1..N, n \in places PROVE Rank(places, n) = Rank(places, n - 1) + 1
  <2>1. Below(n) = Below(n - 1) \cup {n} /\ n \notin Below(n - 1)
    <3>1. \A k \in places : k <= n <=> (k <= n - 1 \/ k = n)
      OBVIOUS
    <3>2. Below(n) = Below(n - 1) \cup {n}
      BY <1>6, <3>1
    <3>3. ~ (n <= n - 1)
      OBVIOUS
    <3> QED
      BY <3>2, <3>3
  <2>2. n - 1 \in Nat
    OBVIOUS
  <2>3. Cardinality(Below(n - 1) \cup {n}) = Cardinality(Below(n - 1)) + 1
    BY <1>2, <2>1, <2>2, FS_AddElement
  <2> QED
    BY <2>1, <2>3 DEF Rank
<1>7. ASSUME NEW i \in 0..N, NEW n \in 0..N, i <= n PROVE Rank(places, i) <= Rank(places, n)
  <2>1. Below(i) \subseteq Below(n) /\ IsFiniteSet(Below(n))
    <3>1. \A k \in places : k <= i => k <= n
      BY <1>7
    <3>2. Below(i) \subseteq Below(n)
      BY <3>1
    <3> QED
      BY <1>2, <3>2
  <2> QED
    BY <2>1, FS_Subset DEF Rank
<1>8. \A n \in 0..N : Rank(places, n) \in Nat
  BY <1>2 DEF Rank
<1> QED
  BY <1>3, <1>4, <1>5, <1>6, <1>7, <1>8

LEMMA KeptRuns ==
  ASSUME NEW s, Len(s) \in Nat, NEW places
  PROVE  \E f : /\ f[0] = <<>> /\ Kept(s, places) = f[Len(s)]
                /\ \A n \in 1..Len(s) :
                     f[n] = IF n \in places THEN Append(f[n - 1], s[n]) ELSE f[n - 1]
<1> DEFINE Runs(f, m) ==
             [n \in 0..m |->
                IF n = 0 THEN <<>>
                ELSE IF n \in places THEN Append(f[n - 1], s[n]) ELSE f[n - 1]]
<1>1. \E f : f = Runs(f, 0)
  <2> DEFINE f == [n \in 0..0 |-> <<>>]
  <2>1. f = Runs(f, 0)
    OBVIOUS
  <2> QED
    BY <2>1
<1>2. ASSUME NEW m \in 1..Len(s), \E f : f = Runs(f, m - 1) PROVE \E f : f = Runs(f, m)
  <2>1. PICK g : g = Runs(g, m - 1)
    BY <1>2
  <2> DEFINE f == [n \in 0..m |-> IF n < m THEN g[n]
                                  ELSE IF m \in places THEN Append(g[m - 1], s[m]) ELSE g[m - 1]]
  <2>2. ASSUME NEW n \in 0..m PROVE f[n] = Runs(f, m)[n]
    <3>1. CASE n = m
      BY <3>1
    <3>2. CASE n < m
      <4>1. n \in 0..(m - 1) /\ f[n] = g[n] /\ (n # 0 => n - 1 \in 0..m /\ f[n - 1] = g[n - 1])
        BY <3>2
      <4>2. g[n] = Runs(g, m - 1)[n]
        BY <2>1
      <4> QED
        BY <4>1, <4>2
    <3> QED
      BY <3>1, <3>2
  <2>3. f = Runs(f, m)
    BY <2>2
  <2> QED
    BY <2>3
<1>3. \E f : f = Runs(f, Len(s))
  <2> DEFINE Good(m) == \E f : f = Runs(f, m)
             G == {m \in 0..Len(s) : Good(m)}
  <2>1. Good(0) /\ \A m \in 1..Len(s) : Good(m - 1) => Good(m)
    BY <1>1, <1>2
  <2> HIDE DEF Good
  <2>2. 0 \in G /\ \A m \in 1..Len(s) : m - 1 \in G => m \in G
    BY <2>1
  <2> HIDE DEF G
  <2>3. 0..Len(s) \subseteq G
    BY <2>2, Climb
  <2>4. Len(s) \in 0..Len(s)
    OBVIOUS
  <2>5. Good(Len(s))
    BY <2>3, <2>4 DEF G
  <2> QED
    BY <2>5 DEF Good
<1>4. PICK f : f = Runs(f, Len(s)) /\ Kept(s, places) = f[Len(s)]
  BY <1>3 DEF Kept
<1>5. \A n \in 0..Len(s) : f[n] = Runs(f, Len(s))[n]
  BY <1>4
<1>6. /\ f[0] = <<>>
      /\ \A n \in 1..Len(s) :
           f[n] = IF n \in places THEN Append(f[n - 1], s[n]) ELSE f[n - 1]
  BY <1>5
<1> QED
  BY <1>4, <1>6

(* What is kept of a sequence: as many elements as places, each at the rank  *)
(* of its place, and nothing else.                                           *)
LEMMA KeptFacts ==
  ASSUME NEW X, NEW s \in Seq(X), NEW places \in SUBSET DOMAIN s
  PROVE  /\ Kept(s, places) \in Seq(X)
         /\ Len(Kept(s, places)) = Cardinality(places)
         /\ Cardinality(places) \in Nat
         /\ \A i \in places : /\ Rank(places, i) \in 1..Cardinality(places)
                              /\ Kept(s, places)[Rank(places, i)] = s[i]
         /\ \A n \in 1..Cardinality(places) : \E i \in places : n = Rank(places, i)
<1> DEFINE N == Len(s)  R(i) == Rank(places, i)
<1>1. N \in Nat /\ places \subseteq 1..N /\ \A i \in 1..N : s[i] \in X
  OBVIOUS
<1> HIDE DEF N
<1>2. /\ R(0) = 0 /\ R(N) = Cardinality(places) /\ \A n \in 0..N : R(n) \in Nat
      /\ \A n \in 1..N : n \notin places => R(n) = R(n - 1)
      /\ \A n \in 1..N : n \in places => R(n) = R(n - 1) + 1
      /\ \A i, n \in 0..N : i <= n => R(i) <= R(n)
  <2>1. N \in Nat /\ places \subseteq 1..N
    BY <1>1
  <2> QED
    BY <2>1, RankSteps, Zenon
<1>3. PICK f : /\ f[0] = <<>> /\ Kept(s, places) = f[N]
               /\ \A n \in 1..N :
                    f[n] = IF n \in places THEN Append(f[n - 1], s[n]) ELSE f[n - 1]
  BY <1>1, KeptRuns DEF N
<1> HIDE DEF R
<1> DEFINE Good(n) == /\ f[n] \in Seq(X) /\ Len(f[n]) = R(n)
                      /\ \A i \in places : i <= n => /\ R(i) \in 1..R(n) /\ f[n][R(i)] = s[i]
                      /\ \A m \in 1..R(n) : \E i \in places : i <= n /\ m = R(i)
           G == {n \in 0..N : Good(n)}
<1>4. Good(0)
  BY <1>1, <1>2, <1>3
<1>5. ASSUME NEW n \in 1..N, Good(n - 1) PROVE Good(n)
  <2>1. n - 1 \in 0..N /\ n \in 0..N /\ R(n - 1) \in Nat /\ R(n) \in Nat
    BY <1>1, <1>2
  <2>2. CASE n \notin places
    <3>1. f[n] = f[n - 1] /\ R(n) = R(n - 1)
      BY <1>2, <1>3, <2>2
    <3>2. \A i \in places : i <= n <=> i <= n - 1
      BY <1>1, <2>2
    <3> QED
      BY <1>5, <3>1, <3>2
  <2>3. CASE n \in places
    <3> DEFINE g == f[n - 1]  h == f[n]
    <3>1. h = Append(g, s[n]) /\ R(n) = R(n - 1) + 1
      BY <1>2, <1>3, <2>3
    <3>2. g \in Seq(X) /\ Len(g) = R(n - 1) /\ s[n] \in X
      BY <1>1, <1>5
    <3>3. /\ h \in Seq(X) /\ Len(h) = R(n) /\ h[R(n)] = s[n]
          /\ \A m \in 1..R(n - 1) : h[m] = g[m]
      BY <2>1, <3>1, <3>2
    <3>4. ASSUME NEW i \in places, i <= n PROVE R(i) \in 1..R(n) /\ h[R(i)] = s[i]
      <4>1. CASE i = n
        BY <2>1, <3>1, <3>3, <4>1
      <4>2. CASE i <= n - 1
        <5>1. R(i) \in 1..R(n - 1) /\ g[R(i)] = s[i]
          BY <1>5, <4>2
        <5> QED
          BY <2>1, <3>1, <3>3, <5>1
      <4> QED
        BY <1>1, <3>4, <4>1, <4>2
    <3>5. ASSUME NEW m \in 1..R(n) PROVE \E i \in places : i <= n /\ m = R(i)
      <4>1. CASE m = R(n)
        BY <2>3, <4>1
      <4>2. CASE m # R(n)
        <5>1. m \in 1..R(n - 1)
          BY <2>1, <3>1, <4>2
        <5>2. PICK i \in places : i <= n - 1 /\ m = R(i)
          BY <1>5, <5>1
        <5> QED
          BY <1>1, <5>2
      <4> QED
        BY <4>1, <4>2
    <3> QED
      BY <3>3, <3>4, <3>5
  <2> QED
    BY <2>2, <2>3
<1> HIDE DEF Good
<1>6. 0 \in G /\ \A n \in 1..N : n - 1 \in G => n \in G
  BY <1>1, <1>4, <1>5
<1> HIDE DEF G
<1>7. 0..N \subseteq G
  <2>1. N \in Nat
    BY <1>1
  <2> QED
    BY <1>6, <2>1, Climb
<1>8. Good(N)
  <2>1. N \in 0..N
    BY <1>1
  <2> QED
    BY <1>7, <2>1 DEF G
<1>9. \A i \in places : i <= N
  BY <1>1
<1> QED
  BY <1>1, <1>2, <1>3, <1>8, <1>9 DEF Good, R

LEMMA KeptAll ==
  ASSUME NEW X, NEW s \in Seq(X)
  PROVE  Kept(s, DOMAIN s) = s
<1> DEFINE N == Len(s)  k == Kept(s, DOMAIN s)
<1>1. N \in Nat /\ DOMAIN s = 1..N
  OBVIOUS
<1>2. Cardinality(1..N) = N /\ \A i \in 1..N : Cardinality(1..i) = i
  BY <1>1, FS_Interval
<1>3. ASSUME NEW i \in 1..N PROVE Rank(DOMAIN s, i) = i
  <2>1. \A m \in 1..N : m <= i <=> m \in 1..i
    OBVIOUS
  <2>2. {m \in 1..N : m <= i} = 1..i
    <3>1. \A m \in 1..i : m \in 1..N
      BY <1>1
    <3> QED
      BY <2>1, <3>1
  <2> QED
    BY <1>1, <1>2, <2>2 DEF Rank
<1>4. k \in Seq(X) /\ Len(k) = N /\ \A i \in 1..N : k[i] = s[i]
  BY <1>1, <1>2, <1>3, KeptFacts
<1> HIDE DEF k
<1> QED
  BY <1>4 DEF k

LEMMA KeptNone ==
  ASSUME NEW X, NEW s \in Seq(X)
  PROVE  Kept(s, {}) = <<>>
<1>1. Kept(s, {}) \in Seq(X) /\ Len(Kept(s, {})) = 0
  BY KeptFacts, FS_EmptySet
<1> QED
  BY <1>1

LEMMA KeptOne ==
  ASSUME NEW X, NEW s \in Seq(X), NEW i \in DOMAIN s
  PROVE  Len(Kept(s, {i})) = 1 /\ Kept(s, {i})[1] = s[i]
<1>1. {i} \in SUBSET DOMAIN s /\ Cardinality({i}) = 1
  BY FS_Singleton
<1>2. Rank({i}, i) \in 1..1 /\ Kept(s, {i})[Rank({i}, i)] = s[i] /\ Len(Kept(s, {i})) = 1
  BY <1>1, KeptFacts
<1> QED
  BY <1>2

(* The first that is kept is the one at the lowest place.                    *)
LEMMA KeptFirst ==
  ASSUME NEW X, NEW s \in Seq(X), NEW places \in SUBSET DOMAIN s, NEW i \in places,
         \A k \in places : i <= k
  PROVE  Kept(s, places) # <<>> /\ Head(Kept(s, places)) = s[i]
<1>1. Cardinality({i}) = 1
  BY FS_Singleton
<1>2. Rank(places, i) = 1
  <2>1. \A k \in places : k <= i <=> k = i
    OBVIOUS
  <2>2. {k \in places : k <= i} = {i}
    BY <2>1
  <2> QED
    BY <1>1, <2>2 DEF Rank
<1>3. /\ Kept(s, places) \in Seq(X) /\ Len(Kept(s, places)) = Cardinality(places)
      /\ 1 \in 1..Cardinality(places) /\ Kept(s, places)[1] = s[i]
  BY <1>2, KeptFacts
<1> QED
  BY <1>3

(* Of two locations, those that are given, in order.                         *)
LEMMA GivenOfTwo ==
  ASSUME NEW u, NEW v
  PROVE  Given(<<u, v>>) = IF u = NoUrl THEN IF v = NoUrl THEN <<>> ELSE <<v>>
                           ELSE IF v = NoUrl THEN <<u>> ELSE <<u, v>>
<1> DEFINE s == <<u, v>>  at == {i \in DOMAIN s : s[i] # NoUrl}
<1>1. Len(s) = 2 /\ (1 \in at <=> u # NoUrl) /\ (2 \in at <=> v # NoUrl)
      /\ s[1] = u /\ s[2] = v
  OBVIOUS
<1> HIDE DEF s, at
<1>2. PICK f : /\ f[0] = <<>> /\ Kept(s, at) = f[2]
               /\ \A n \in 1..2 : f[n] = IF n \in at THEN Append(f[n - 1], s[n]) ELSE f[n - 1]
  BY <1>1, KeptRuns
<1>3. /\ f[1] = IF 1 \in at THEN Append(<<>>, u) ELSE <<>>
      /\ f[2] = IF 2 \in at THEN Append(f[1], v) ELSE f[1]
  <2>1. 1 \in 1..2 /\ 2 \in 1..2 /\ 1 - 1 = 0 /\ 2 - 1 = 1
    OBVIOUS
  <2> QED
    BY <1>1, <1>2, <2>1
<1>4. /\ Append(<<>>, u) = <<u>> /\ Append(<<>>, v) = <<v>>
      /\ Append(<<u>>, v) = <<u, v>>
  <2> DEFINE h == Append(<<u>>, v)
  <2>1. Append(<<>>, u) = <<u>>
    OBVIOUS
  <2>2. Append(<<>>, v) = <<v>>
    OBVIOUS
  <2>3. h \in Seq({u, v}) /\ Len(h) = 2 /\ h[1] = u /\ h[2] = v
    OBVIOUS
  <2> HIDE DEF h
  <2>4. h = <<h[1], h[2]>>
    BY <2>3
  <2> QED
    BY <2>1, <2>2, <2>3, <2>4 DEF h
<1>5. Kept(s, at) = IF u = NoUrl THEN IF v = NoUrl THEN <<>> ELSE <<v>>
                    ELSE IF v = NoUrl THEN <<u>> ELSE <<u, v>>
  <2>1. CASE u = NoUrl /\ v = NoUrl
    BY <1>1, <1>2, <1>3, <2>1
  <2>2. CASE u = NoUrl /\ v # NoUrl
    BY <1>1, <1>2, <1>3, <1>4, <2>2
  <2>3. CASE u # NoUrl /\ v = NoUrl
    BY <1>1, <1>2, <1>3, <1>4, <2>3
  <2>4. CASE u # NoUrl /\ v # NoUrl
    BY <1>1, <1>2, <1>3, <1>4, <2>4
  <2> QED
    BY <2>1, <2>2, <2>3, <2>4
<1> QED
  BY <1>5 DEF Given, s, at

-----------------------------------------------------------------------------
(* Arithmetic: integer division by a positive number, the rounding of a      *)
(* quotient, and the frame counts.                                           *)
LEMMA DivMod ==
  ASSUME NEW m \in Nat, NEW d \in Nat \ {0}
  PROVE  m = (d * (m \div d)) + (m % d) /\ m % d \in 0..(d - 1) /\ m \div d \in Nat
OBVIOUS

(* A rounded quotient is within half of the divisor; of whole numbers it is  *)
(* whole, whatever their signs.                                              *)
LEMMA RoundedNear ==
  ASSUME NEW m \in Nat, NEW d \in Nat \ {0}
  PROVE  /\ RoundedUnder(m, d) \in Nat
         /\ 2 * ((d * RoundedUnder(m, d)) - m) <= d
         /\ 2 * (m - (d * RoundedUnder(m, d))) <= d
<1> DEFINE q == m \div d  r == m % d
<1>1. m = (d * q) + r /\ r \in 0..(d - 1) /\ q \in Nat
  BY DivMod
<1>2. RoundedUnder(m, d) = IF 2 * r < d \/ (2 * r = d /\ q % 2 = 0) THEN q ELSE q + 1
  BY DEF RoundedUnder
<1> HIDE DEF q, r
<1>3. CASE RoundedUnder(m, d) = q /\ 2 * r <= d
  BY <1>1, <1>3
<1>4. CASE RoundedUnder(m, d) = q + 1 /\ 2 * r >= d
  <2>1. d * (q + 1) = (d * q) + d
    BY <1>1
  <2> QED
    BY <1>1, <1>4, <2>1
<1> QED
  BY <1>1, <1>2, <1>3, <1>4

LEMMA RoundedWhole ==
  ASSUME NEW a \in Int, NEW b \in Int \ {0}
  PROVE  Rounded(a, b) \in Int /\ (b > 0 => Rounded(a, b) = RoundedUnder(a, b))
<1>1. ASSUME NEW m \in Int, NEW d \in Nat \ {0} PROVE RoundedUnder(m, d) \in Int
  <2> DEFINE q == m \div d
  <2>1. q \in Int
    OBVIOUS
  <2>2. RoundedUnder(m, d) \in {q, q + 1}
    BY DEF RoundedUnder
  <2> HIDE DEF q
  <2> QED
    BY <2>1, <2>2
<1>2. CASE b > 0
  <2>1. b \in Nat \ {0} /\ Rounded(a, b) = RoundedUnder(a, b)
    BY <1>2 DEF Rounded
  <2> QED
    BY <1>1, <2>1
<1>3. CASE b < 0
  <2>1. -b \in Nat \ {0} /\ -a \in Int /\ Rounded(a, b) = RoundedUnder(-a, -b)
    BY <1>3 DEF Rounded
  <2> QED
    BY <1>1, <1>3, <2>1
<1> QED
  BY <1>2, <1>3

(* The longer edge of a canvas, of positive sides: no shorter than the short *)
(* one, and as the ratio asks to within 16 pixels.                           *)
Tiles(edge, big, small) == Rounded(edge * big, small * 32)

Fits(k, edge, big, small) ==
  /\ k \in Nat /\ edge <= k * 32
  /\ (k * 32 * small) - (edge * big) \in (-16 * small)..(16 * small)

LEMMA LongEdge ==
  ASSUME NEW edge \in {768, 480}, NEW big \in Nat, NEW small \in Nat \ {0}, small <= big
  PROVE  Fits(Tiles(edge, big, small), edge, big, small)
<1> DEFINE k == Tiles(edge, big, small)  x == small * k
<1>1. /\ k \in Nat
      /\ 2 * ((small * 32 * k) - (edge * big)) <= small * 32
      /\ 2 * ((edge * big) - (small * 32 * k)) <= small * 32
  <2>1. edge * big \in Nat /\ small * 32 \in Nat \ {0}
    OBVIOUS
  <2>2. k = RoundedUnder(edge * big, small * 32)
    BY <2>1, RoundedWhole DEF Tiles
  <2> HIDE DEF k
  <2> QED
    BY <2>1, <2>2, RoundedNear
<1> HIDE DEF k
<1>2. x \in Int /\ small * 32 * k = 32 * x /\ k * 32 * small = 32 * x
  BY <1>1
<1> HIDE DEF x
<1>3. (k * 32 * small) - (edge * big) \in (-16 * small)..(16 * small)
  BY <1>1, <1>2
<1>4. edge <= k * 32
  <2>1. \A m \in Nat : k < m => x <= small * (m - 1)
    BY <1>1 DEF x
  <2>2. CASE edge = 768
    <3>1. k < 24 => x <= small * 23
      BY <2>1
    <3> QED
      BY <1>1, <1>2, <2>2, <3>1
  <2>3. CASE edge = 480
    <3>1. k < 15 => x <= small * 14
      BY <2>1
    <3> QED
      BY <1>1, <1>2, <2>3, <3>1
  <2> QED
    BY <2>2, <2>3
<1> QED
  BY <1>1, <1>3, <1>4 DEF k, Fits

(* The frame count follows the length up to the model's limits.              *)
LEMMA FramesFollow ==
  ASSUME NEW d \in Int
  PROVE  /\ FramesFor(d) \in 120..360
         /\ FramesFor(d) % 17 = 5 \/ (d < 5 /\ FramesFor(d) = 120)
         /\ 24 * d > FramesFor(d) + 16 => d > 15
         /\ FramesFor(d) > (24 * d) + 16 => d < 5
<1> DEFINE n == AtLeast(5, 24 * d)
           up == n + ((5 - (n % 17)) % 17)
           down == SteppedDown(up)
<1>1. n \in Nat /\ n >= 5 /\ n >= 24 * d /\ (n = 24 * d \/ (n = 5 /\ d < 1))
  BY DEF AtLeast
<1>2. FramesFor(d) = AtLeast(120, down)
  BY DEF FramesFor
<1> HIDE DEF n
<1>3. up \in Nat /\ up % 17 = 5 /\ up >= n /\ up <= n + 16
  BY <1>1
<1> HIDE DEF up
<1>4. /\ down \in Nat /\ down % 17 = 5 /\ down <= 360
      /\ up <= 360 => down = up
      /\ up > 360 => down >= 344
  BY <1>3 DEF SteppedDown
<1> HIDE DEF down
<1>5. CASE down < 120
  <2>1. FramesFor(d) = 120 /\ up < 120 /\ d < 5
    BY <1>1, <1>2, <1>3, <1>4, <1>5 DEF AtLeast
  <2> QED
    BY <2>1, <1>1, <1>3
<1>6. CASE down >= 120
  <2>1. FramesFor(d) = down
    BY <1>2, <1>4, <1>6 DEF AtLeast
  <2> QED
    BY <2>1, <1>1, <1>3, <1>4, <1>6
<1> QED
  BY <1>4, <1>5, <1>6

-----------------------------------------------------------------------------
(* The path of a request, stage by stage: each stage holds exactly what the  *)
(* translations make of the body, nothing runs that the shim would divide by *)
(* 0 for, and a task that succeeded was billed and told with its own media.  *)
Refused == IF kind = "video" THEN VideoRefused(body) ELSE ImageRefused(body)
Accepted == body # None /\ ~ Refused
Asked   == IF kind = "video" THEN ParseVideo(body) ELSE ParseImage(body)
Length  == IF kind = "video" THEN ParseVideo(body).duration ELSE 0
CallOf(request) == IF kind = "image" THEN ToFlux(request) ELSE ToSglang(Reloaded(request))
JobOf(c) == IF kind = "image" THEN RunImage(c) ELSE RunVideo(c)
Media    == Materialized(IF kind = "image" THEN job.n ELSE 1)

Submitted ==
  IF body = None THEN kind = None /\ row = None /\ answer = None
  ELSE \/ kind = "video" /\ body \in VideoBodies
       \/ kind = "image" /\ body \in ImageBodies
Stored ==
  IF ~ Accepted THEN row = None /\ call = None /\ job = None
  ELSE /\ DOMAIN row = {"request", "duration", "status", "urls"}
       /\ row.request = Asked /\ row.duration = Length
       /\ row.status \in {"queued", "running", "succeeded", "failed"}
Called == call # None => call = CallOf(row.request)
Started ==
  job # None => /\ call # None /\ job = JobOf(call)
                /\ IF kind = "image" THEN HasSize(call) ELSE HasCanvas(call.ratio)
Paid ==
  (Accepted /\ row.status = "succeeded") =>
    job # None /\ row.urls = Media /\ charged = Charge(Media)
Told ==
  /\ body # None /\ Refused => answer = Refusal
  /\ answer # None =>
       \/ Refused /\ answer = Refusal
       \/ /\ Accepted /\ answer.status # "refused"
          /\ answer.status = "ok" => row.status = "succeeded" /\ answer.urls = row.urls

PathInv == Submitted /\ Stored /\ Called /\ Started /\ Paid /\ Told

(* A row, once there, holds what was asked for.                              *)
LEMMA RowThere ==
  ASSUME PathInv, row # None
  PROVE  /\ Accepted
         /\ \/ kind = "video" /\ body \in VideoBodies
            \/ kind = "image" /\ body \in ImageBodies
         /\ DOMAIN row = {"request", "duration", "status", "urls"}
         /\ row.request = Asked /\ row.duration = Length
         /\ row.status \in {"queued", "running", "succeeded", "failed"}
BY DEF PathInv, Submitted, Stored, Accepted

LEMMA PathInvInit == Init => PathInv
BY DEF Init, PathInv, Accepted, Submitted, Stored, Called, Started, Paid, Told

LEMMA SubmitPathInv ==
  ASSUME PathInv, NEW b, (b \in VideoBodies /\ SubmitVideo(b)) \/ (b \in ImageBodies /\ SubmitImage(b))
  PROVE  PathInv'
<1>1. body = None /\ kind = None /\ row = None /\ call = None /\ job = None /\ answer = None
  BY DEF PathInv, Submitted, Stored, Accepted, SubmitVideo, SubmitImage
<1>2. body' = b /\ b # None /\ call' = None /\ job' = None
  BY <1>1, BodiesAssumption DEF SubmitVideo, SubmitImage
<1>3. \/ kind' = "video" /\ b \in VideoBodies
      \/ kind' = "image" /\ b \in ImageBodies
  BY DEF SubmitVideo, SubmitImage
<1>4. CASE Refused'
  <2>1. row' = None /\ answer' = Refusal
    BY <1>1, <1>4 DEF Refused, SubmitVideo, SubmitImage
  <2> QED
    BY <1>2, <1>3, <1>4, <2>1 DEF PathInv, Accepted, Submitted, Stored, Called, Started, Paid, Told
<1>5. CASE ~ Refused'
  <2>1. row' = Queued(Asked', Length') /\ answer' = None
    BY <1>1, <1>2, <1>5 DEF Refused, SubmitVideo, SubmitImage, Asked, Length
  <2> QED
    BY <1>2, <1>3, <1>5, <2>1
    DEF Queued, PathInv, Accepted, Submitted, Stored, Called, Started, Paid, Told
<1> QED
  BY <1>4, <1>5

(* What only the route and the body decide stays.                            *)
LEMMA SameRequest ==
  ASSUME UNCHANGED <<kind, body>>
  PROVE  Refused' = Refused /\ Accepted' = Accepted /\ Asked' = Asked /\ Length' = Length
BY DEF Refused, Accepted, Asked, Length

LEMMA GeneratePathInv == ASSUME PathInv, Generate PROVE PathInv'
<1> USE DEF Generate
<1>1. row # None /\ row.status = "queued"
  OBVIOUS
<1>2. Refused' = Refused /\ Accepted' = Accepted /\ Asked' = Asked /\ Length' = Length
  BY SameRequest
<1>3. /\ DOMAIN row' = DOMAIN row /\ row'.request = row.request
      /\ row'.duration = row.duration /\ row'.status = "running"
  BY <1>1, RowThere
<1>4. call' = CallOf(Asked)
  BY <1>1, RowThere DEF CallOf
<1>6. Submitted' /\ Stored'
  BY <1>1, <1>2, <1>3, RowThere DEF Submitted, Stored, Accepted
<1>7. Called' /\ Started'
  BY <1>1, <1>3, <1>4, RowThere DEF PathInv, Called, Started, CallOf, JobOf
<1>8. Paid' /\ Told'
  BY <1>1, <1>2, <1>3, RowThere DEF PathInv, Paid, Told
<1> QED
  BY <1>6, <1>7, <1>8 DEF PathInv

LEMMA RunPathInv == ASSUME PathInv, Run PROVE PathInv'
<1> USE DEF Run
<1>1. Refused' = Refused /\ Accepted' = Accepted /\ Asked' = Asked /\ Length' = Length
  BY SameRequest
<1>2. Submitted' /\ Stored' /\ Told'
  BY <1>1 DEF PathInv, Submitted, Stored, Told
<1>3. Called' /\ Started'
  BY DEF PathInv, Called, Started, CallOf, JobOf
<1>4. Paid'
  BY <1>1 DEF PathInv, Paid
<1> QED
  BY <1>2, <1>3, <1>4 DEF PathInv

LEMMA PublishPathInv == ASSUME PathInv, Publish PROVE PathInv'
<1>0. Refused' = Refused /\ Accepted' = Accepted /\ Asked' = Asked /\ Length' = Length
  BY SameRequest DEF Publish
<1>1. /\ job # None /\ row.status = "running"
      /\ row' = [row EXCEPT !.status = "succeeded", !.urls = Media]
      /\ charged' = Charge(Media)
      /\ UNCHANGED <<kind, body, call, job, answer>>
  BY DEF Publish, Media
<1>2. /\ Accepted
      /\ DOMAIN row = {"request", "duration", "status", "urls"}
      /\ row.request = Asked /\ row.duration = Length
  BY <1>1 DEF PathInv, Stored
<1>3. /\ DOMAIN row' = DOMAIN row /\ row'.request = row.request
      /\ row'.duration = row.duration /\ row'.status = "succeeded" /\ row'.urls = Media
  BY <1>1, <1>2
<1>4. Media' = Media /\ Charge(Media)' = Charge(Media)
  BY <1>1, <1>3 DEF Media, Charge
<1>5. Submitted' /\ Stored'
  BY <1>0, <1>1, <1>2, <1>3 DEF PathInv, Submitted, Stored, Accepted
<1>6. Called' /\ Started'
  BY <1>1, <1>3 DEF PathInv, Called, Started, CallOf, JobOf
<1>7. Paid'
  BY <1>1, <1>3, <1>4 DEF Paid
<1>8. Told'
  BY <1>0, <1>1, <1>3 DEF PathInv, Told
<1> QED
  BY <1>5, <1>6, <1>7, <1>8 DEF PathInv

LEMMA FailPathInv == ASSUME PathInv, Fail PROVE PathInv'
<1> USE DEF Fail
<1>0. Refused' = Refused /\ Accepted' = Accepted /\ Asked' = Asked /\ Length' = Length
  BY SameRequest
<1>1. row # None /\ row.status = "running"
  OBVIOUS
<1>2. /\ DOMAIN row' = DOMAIN row /\ row'.request = row.request
      /\ row'.duration = row.duration /\ row'.status = "failed"
  BY <1>1, RowThere
<1>3. Submitted' /\ Stored'
  BY <1>0, <1>1, <1>2, RowThere DEF PathInv, Submitted, Stored, Accepted
<1>4. Called' /\ Started'
  BY <1>1, <1>2, RowThere DEF PathInv, Called, Started, CallOf, JobOf
<1>5. Paid' /\ Told'
  BY <1>0, <1>1, <1>2 DEF PathInv, Paid, Told
<1> QED
  BY <1>3, <1>4, <1>5 DEF PathInv

LEMMA AnswerPathInv == ASSUME PathInv, Answer PROVE PathInv'
<1> USE DEF Answer
<1>0. Refused' = Refused /\ Accepted' = Accepted /\ Asked' = Asked /\ Length' = Length
  BY SameRequest
<1>1. Accepted /\ row.status \in {"queued", "running", "succeeded", "failed"}
  BY RowThere
<1>2. Submitted' /\ Stored' /\ Called' /\ Started'
  BY <1>0, <1>1 DEF PathInv, Submitted, Stored, Called, Started, CallOf, JobOf, Accepted
<1>3. Paid'
  BY <1>0 DEF PathInv, Paid, Media, Charge
<1>4. /\ answer'.status # "refused"
      /\ answer'.status = "ok" => row.status = "succeeded" /\ answer'.urls = row.urls
  BY <1>1 DEF ImageResponse, PollResponse
<1>5. Told'
  BY <1>0, <1>1, <1>4 DEF Told, Accepted
<1> QED
  BY <1>2, <1>3, <1>5 DEF PathInv

THEOREM PathAsParsed == Spec => []PathInv
<1>1. PathInv /\ [Next]_pathVars => PathInv'
  <2>1. ASSUME PathInv, UNCHANGED pathVars PROVE PathInv'
    BY <2>1 DEF pathVars, PathInv, Submitted, Stored, Called, Started, Paid, Told,
                Accepted, Refused, Asked, Length, CallOf, JobOf, Media, Charge
  <2> QED
    BY <2>1, SubmitPathInv, GeneratePathInv, RunPathInv, PublishPathInv, FailPathInv,
       AnswerPathInv DEF Next
<1> QED
  BY PathInvInit, <1>1, PTL DEF Spec

-----------------------------------------------------------------------------
(* What a run of either model is given, read off the body.                   *)
LEMMA VideoPath ==
  ASSUME PathInv, VideoRun
  PROVE  /\ body \in VideoBodies /\ ~ VideoRefused(body)
         /\ row.request = ParseVideo(body) /\ row.duration = AskedDuration(body.duration)
         /\ call = ToSglang(Reloaded(ParseVideo(body))) /\ job = RunVideo(call)
<1>1. kind = "video" /\ call # None /\ job = RunVideo(call)
  BY DEF VideoRun, PathInv, Started, JobOf
<1>2. Accepted /\ row.request = ParseVideo(body) /\ row.duration = ParseVideo(body).duration
  BY <1>1 DEF PathInv, Stored, Asked, Length
<1>3. call = ToSglang(Reloaded(ParseVideo(body)))
  BY <1>1, <1>2 DEF PathInv, Called, CallOf
<1>4. body \in VideoBodies /\ ~ VideoRefused(body)
  BY <1>1, <1>2 DEF PathInv, Submitted, Accepted, Refused
<1> QED
  BY <1>1, <1>2, <1>3, <1>4 DEF ParseVideo

LEMMA ImagePath ==
  ASSUME PathInv, kind = "image", job # None
  PROVE  /\ Accepted /\ body \in ImageBodies
         /\ row.request = ParseImage(body)
         /\ call = ToFlux(ParseImage(body)) /\ job = RunImage(call)
<1>1. call # None /\ job = RunImage(call)
  BY DEF PathInv, Started, JobOf
<1>2. Accepted /\ row.request = ParseImage(body)
  BY <1>1 DEF PathInv, Stored, Asked
<1>3. call = ToFlux(ParseImage(body))
  BY <1>1, <1>2 DEF PathInv, Called, CallOf
<1>4. body \in ImageBodies
  BY <1>2 DEF PathInv, Submitted, Accepted
<1> QED
  BY <1>1, <1>2, <1>3, <1>4

(* The length and the ratio reach the model, whatever was stored in between. *)
LEMMA VideoCall ==
  ASSUME PathInv, VideoRun
  PROVE  /\ call.duration = IF row.duration = 0 THEN 6 ELSE row.duration
         /\ call.ratio = row.request.ratio
         /\ call.shortEdge = IF row.request.resolution = "768P" THEN 768 ELSE 480
         /\ job.frames = FramesFor(call.duration)
         /\ job.width = ShortEdgeDims(call.shortEdge, call.ratio)[1]
         /\ job.height = ShortEdgeDims(call.shortEdge, call.ratio)[2]
         /\ row.request.ratio = Or(body.ratio, DefaultRatio)
<1> DEFINE p == row.request  q == Reloaded(p)
<1>1. /\ p.duration = row.duration /\ p.ratio = Or(body.ratio, DefaultRatio)
      /\ DOMAIN p = {"references", "keyframes", "resolution", "ratio", "duration"}
  BY VideoPath DEF ParseVideo
<1>2. call = ToSglang(q) /\ job = RunVideo(call)
  BY VideoPath
<1> HIDE DEF p
<1>3. /\ q.duration = (IF row.duration = 0 THEN 6 ELSE row.duration) /\ q.ratio = p.ratio
      /\ q.resolution = p.resolution
  BY <1>1 DEF Reloaded, DefaultDuration
<1> HIDE DEF q
<1>4. /\ ToSglang(q).duration = q.duration /\ ToSglang(q).ratio = q.ratio
      /\ ToSglang(q).shortEdge = IF q.resolution = "768P" THEN 768 ELSE 480
  BY DEF ToSglang
<1>5. /\ RunVideo(call).frames = FramesFor(IF call.duration = 0 THEN 6 ELSE call.duration)
      /\ RunVideo(call).width = ShortEdgeDims(call.shortEdge, call.ratio)[1]
      /\ RunVideo(call).height = ShortEdgeDims(call.shortEdge, call.ratio)[2]
  BY DEF RunVideo
<1>6. (IF call.duration = 0 THEN 6 ELSE call.duration) = call.duration
  BY <1>2, <1>3, <1>4
<1> QED
  BY <1>1, <1>2, <1>3, <1>4, <1>5, <1>6 DEF p

LEMMA LengthIsWhole ==
  ASSUME NEW b \in VideoBodies
  PROVE  AskedDuration(b.duration) \in Int
BY BodiesAssumption DEF AskedDuration, IntOr, Lengths, DefaultDuration

(* RequestPath!ChargeFollowsClip: the seconds charged for a clip are its     *)
(* length to within a step of 17 frames, but at the model's limits.          *)
THEOREM ClipChargedAtItsLength == Spec => []ChargeFollowsClip
<1>1. PathInv => ChargeFollowsClip
  <2> SUFFICES ASSUME PathInv, VideoRun, row.status = "succeeded"
               PROVE  /\ 24 * charged > job.frames + 16 => charged > 15
                      /\ job.frames > (24 * charged) + 16 => charged < 5
    BY DEF ChargeFollowsClip
  <2> DEFINE d == row.duration
  <2>1. charged = d
    BY VideoPath DEF PathInv, Paid, Charge, VideoRun, Stored
  <2>2. d \in Int
    BY VideoPath, LengthIsWhole
  <2>3. job.frames = FramesFor(IF d = 0 THEN 6 ELSE d)
    BY VideoCall
  <2> HIDE DEF d
  <2>4. CASE d = 0
    <3>1. job.frames \in 120..360
      BY <2>3, <2>4, FramesFollow
    <3> QED
      BY <2>1, <2>4, <3>1
  <2>5. CASE d # 0
    BY <2>1, <2>2, <2>3, <2>5, FramesFollow
  <2> QED
    BY <2>4, <2>5
<1> QED
  BY PathAsParsed, <1>1, PTL

LEMMA RatioHasSides ==
  ASSUME NEW b \in VideoBodies \cup ImageBodies
  PROVE  /\ Sides(Or(b.ratio, DefaultRatio))[1] \in Int
         /\ Sides(Or(b.ratio, DefaultRatio))[2] \in Int
<1>1. b.ratio \in (Int \X Int) \cup {Absent, Junk}
  BY BodiesAssumption DEF RatioTexts
<1>2. Sides(Or(b.ratio, DefaultRatio)) \in Int \X Int
  BY <1>1 DEF Sides, Or, DefaultRatio
<1> QED
  BY <1>2

(* RequestPath!GeometryAccepted: for any two integers as a ratio, a clip of  *)
(* 5 seconds or more has 17k + 5 frames and every clip 120 to 360; one edge  *)
(* is as asked, the other whole steps of 32, within a step of the ratio.     *)
THEOREM ModelAcceptsGeometry == Spec => []GeometryAccepted
<1>1. PathInv => GeometryAccepted
  <2> SUFFICES ASSUME PathInv, VideoRun PROVE GeometryAccepted
    BY DEF GeometryAccepted
  <2> DEFINE asked == row.duration
             w == Sides(row.request.ratio)[1]  h == Sides(row.request.ratio)[2]
             edge == IF row.request.resolution = "768P" THEN 768 ELSE 480
             short == IF w >= h THEN job.height ELSE job.width
             long  == IF w >= h THEN job.width ELSE job.height
             big   == IF w >= h THEN w ELSE h
             small == IF w >= h THEN h ELSE w
  <2>1. asked \in Int
    BY VideoPath, LengthIsWhole
  <2>2. w \in Int /\ h \in Int /\ edge \in {768, 480}
    BY VideoPath, VideoCall, RatioHasSides
  <2>3. /\ job.frames \in 120..360
        /\ asked = 0 \/ asked >= 5 => job.frames % 17 = 5
    <3>1. job.frames = FramesFor(IF asked = 0 THEN 6 ELSE asked)
      BY VideoCall
    <3>2. CASE asked = 0
      BY <3>1, <3>2, FramesFollow
    <3>3. CASE asked # 0
      BY <2>1, <3>1, <3>3, FramesFollow
    <3> QED
      BY <3>2, <3>3
  <2>4. /\ job.width = ShortEdgeDims(edge, row.request.ratio)[1]
        /\ job.height = ShortEdgeDims(edge, row.request.ratio)[2]
    BY VideoCall
  <2>5. small # 0
    <3>1. HasCanvas(call.ratio) /\ call.ratio = row.request.ratio
      BY VideoCall DEF PathInv, Started, VideoRun
    <3> QED
      BY <3>1 DEF HasCanvas
  <2> HIDE DEF edge
  <2>6. short = edge /\ long = Tiles(edge, big, small) * 32
    BY <2>4 DEF ShortEdgeDims, Tiles
  <2>7. big \in Int /\ small \in Int /\ small <= big
    BY <2>2
  <2>8. GeometryAccepted <=>
          /\ job.frames \in 120..360
          /\ asked = 0 \/ asked >= 5 => job.frames % 17 = 5
          /\ short = edge /\ long % 32 = 0
          /\ small > 0 => /\ short <= long
                          /\ (long * small) - (edge * big) \in (-31 * small)..(31 * small)
    BY DEF GeometryAccepted, edge
  <2> HIDE DEF asked, w, h, short, long, big, small
  <2> DEFINE k == Tiles(edge, big, small)
  <2>9. k \in Int
    <3>1. edge * big \in Int /\ small * 32 \in Int \ {0}
      BY <2>2, <2>5, <2>7
    <3> QED
      BY <3>1, RoundedWhole DEF Tiles
  <2>10. ASSUME small > 0 PROVE Fits(k, edge, big, small)
    <3>1. big \in Nat /\ small \in Nat \ {0}
      BY <2>7, <2>10
    <3> HIDE DEF k
    <3> QED
      BY <2>2, <2>7, <3>1, LongEdge DEF k
  <2> HIDE DEF k
  <2>11. long = k * 32
    BY <2>6 DEF k
  <2>12. ASSUME small > 0
         PROVE  /\ short <= long
                /\ (long * small) - (edge * big) \in (-31 * small)..(31 * small)
    <3> DEFINE off == (long * small) - (edge * big)
    <3>1. short <= long /\ off \in (-16 * small)..(16 * small)
      BY <2>6, <2>10, <2>11, <2>12 DEF Fits
    <3> HIDE DEF off
    <3>2. off \in (-31 * small)..(31 * small)
      BY <2>7, <2>12, <3>1
    <3> QED
      BY <3>1, <3>2 DEF off
  <2>13. long % 32 = 0
    BY <2>9, <2>11
  <2> QED
    BY <2>3, <2>6, <2>8, <2>12, <2>13
<1> QED
  BY PathAsParsed, <1>1, PTL

-----------------------------------------------------------------------------
(* The image path: the sides of a body are numbers once it is sized.         *)
LEMMA ImageCall ==
  ASSUME PathInv, kind = "image", job # None
  PROVE  /\ Accepted /\ body \in ImageBodies
         /\ call.width \in Int /\ call.height \in Int
         /\ call.sized => call.width = body.width /\ call.height = body.height
         /\ call.ratio = Or(body.ratio, DefaultRatio)
         /\ call.n = AtLeast(1, Clamped(IntOr(body.n, 1)))
         /\ job.width = ImageDims(call)[1] /\ job.height = ImageDims(call)[2]
         /\ job.n = Clamped(call.n)
<1> DEFINE p == ParseImage(body)
<1>1. Accepted /\ body \in ImageBodies /\ call = ToFlux(p) /\ job = RunImage(call)
  BY ImagePath
<1>2. {body.width, body.height} \subseteq Int \cup {Absent, Junk} /\ Absent \notin Int
  BY <1>1, BodiesAssumption DEF Lengths
<1>3. /\ p.width \in Int /\ (p.width # 0 => p.width = body.width)
      /\ p.height \in Int /\ (p.height # 0 => p.height = body.height)
      /\ p.ratio = Or(body.ratio, DefaultRatio) /\ p.n = Clamped(IntOr(body.n, 1))
  BY <1>2 DEF ParseImage, IntOr
<1> HIDE DEF p
<1>4. /\ call.width = p.width /\ call.height = p.height /\ call.ratio = p.ratio
      /\ call.n = AtLeast(1, p.n) /\ call.sized = (p.width # 0 /\ p.height # 0)
  BY <1>1 DEF ToFlux
<1>5. /\ job.width = ImageDims(call)[1] /\ job.height = ImageDims(call)[2]
      /\ job.n = Clamped(call.n)
  BY <1>1 DEF RunImage, ImageCount
<1> QED
  BY <1>1, <1>3, <1>4, <1>5

(* An edge of whole tiles of 16, and at least 256.                           *)
LEMMA EdgeOfTiles ==
  ASSUME NEW k \in Int
  PROVE  /\ AtLeast(256, k * 16) % 16 = 0 /\ AtLeast(256, k * 16) >= 256
         /\ AtLeast(256, 1024) % 16 = 0 /\ AtLeast(256, 1024) >= 256
BY DEF AtLeast

LEMMA TilesBelow ==
  ASSUME NEW m \in Int
  PROVE  m \div 16 \in Int /\ AtLeast(256, (m \div 16) * 16) <= AtLeast(256, m)
<1>1. m \div 16 \in Int /\ (m \div 16) * 16 <= m
  OBVIOUS
<1> QED
  BY <1>1 DEF AtLeast

LEMMA TilesOfRatio ==
  ASSUME NEW by \in Int \ {0}, NEW side \in Int
  PROVE  Rounded(1024 * side, by * 16) \in Int
<1>1. 1024 * side \in Int /\ by * 16 \in Int \ {0}
  OBVIOUS
<1> QED
  BY <1>1, RoundedWhole

(* RequestPath!ImagesAccounted: as many images as asked for are told, in     *)
(* order, and charged; their edges are ones the model takes, and no larger   *)
(* than asked.                                                               *)
THEOREM ImagesToldAndCharged == Spec => []ImagesAccounted
<1>1. PathInv => ImagesAccounted
  <2> SUFFICES ASSUME PathInv, kind = "image", job # None PROVE ImagesAccounted
    BY DEF ImagesAccounted
  <2> DEFINE w == Sides(call.ratio)[1]  h == Sides(call.ratio)[2]
  <2>1. w \in Int /\ h \in Int /\ call.width \in Int /\ call.height \in Int
    BY ImageCall, RatioHasSides
  <2>2. ASSUME call.sized
        PROVE  /\ \A edge \in {job.width, job.height} : edge % 16 = 0 /\ edge >= 256
               /\ job.width <= AtLeast(256, body.width)
               /\ job.height <= AtLeast(256, body.height)
    <3>1. /\ job.width = AtLeast(256, (call.width \div 16) * 16)
          /\ job.height = AtLeast(256, (call.height \div 16) * 16)
      BY <2>2, ImageCall DEF ImageDims
    <3>2. /\ job.width % 16 = 0 /\ job.width >= 256 /\ job.height % 16 = 0 /\ job.height >= 256
      BY <2>1, <3>1, TilesBelow, EdgeOfTiles
    <3>3. job.width <= AtLeast(256, call.width) /\ job.height <= AtLeast(256, call.height)
      BY <2>1, <3>1, TilesBelow
    <3> QED
      BY <2>2, <3>2, <3>3, ImageCall
  <2>3. ASSUME ~ call.sized
        PROVE  \A edge \in {job.width, job.height} : edge % 16 = 0 /\ edge >= 256
    <3> DEFINE across == Rounded(1024 * w, h * 16)  up == Rounded(1024 * h, w * 16)
    <3>1. \/ /\ w >= h /\ w # 0
             /\ job.width = AtLeast(256, 1024) /\ job.height = AtLeast(256, up * 16)
          \/ /\ ~ (w >= h) /\ h # 0
             /\ job.width = AtLeast(256, across * 16) /\ job.height = AtLeast(256, 1024)
      <4>1. HasSize(call)
        BY DEF PathInv, Started
      <4>2. IF w >= h THEN w # 0 ELSE h # 0
        BY <2>3, <4>1 DEF HasSize
      <4> QED
        BY <2>3, <4>2, ImageCall DEF ImageDims
    <3>2. (w # 0 => up \in Int) /\ (h # 0 => across \in Int)
      BY <2>1, TilesOfRatio
    <3> HIDE DEF across, up
    <3> QED
      BY <3>1, <3>2, EdgeOfTiles
  <2>4. job.n \in 1..9 /\ (body.n \in 1..9 => job.n = body.n)
    <3>1. body.n \in Int \cup {Absent, Junk} /\ Absent \notin Int /\ Junk \notin Int
      BY ImageCall, BodiesAssumption DEF Lengths
    <3>2. IntOr(body.n, 1) \in Int /\ (body.n \in Int => IntOr(body.n, 1) = body.n)
      BY <3>1 DEF IntOr
    <3> QED
      BY <3>2, ImageCall DEF Clamped, AtLeast, ImageMaxN
  <2>5. ASSUME answer # None, answer.status = "ok"
        PROVE  answer.urls = [i \in 1..job.n |-> i] /\ charged = job.n
    <3>1. Accepted /\ row.status = "succeeded" /\ answer.urls = row.urls
      BY <2>5 DEF PathInv, Told, Refusal
    <3>2. Media = [i \in 1..job.n |-> i]
      BY DEF Media, Materialized
    <3>3. row.urls = Media /\ charged = Len(Media)
      BY <3>1 DEF PathInv, Paid, Charge
    <3> QED
      BY <2>4, <3>1, <3>2, <3>3
  <2> QED
    BY <2>2, <2>3, <2>4, <2>5 DEF ImagesAccounted
<1> QED
  BY PathAsParsed, <1>1, PTL

-----------------------------------------------------------------------------
(* What the parser finds in a body: for each end one frame, of the earliest  *)
(* content item of its roles or else of the field, and the references in     *)
(* their order.                                                              *)
FrameAsked(roles, field) ==
  LET places == PlacesOf(LAMBDA role : role \in roles)
  IN  IF places = {} THEN field
      ELSE body.content[CHOOSE i \in places : \A k \in places : i <= k].url
Opening == FrameAsked(FirstRoles, body.first)
Closing == FrameAsked(LastRoles, body.last)

Shown(part) ==
  {i \in DOMAIN body.content : /\ body.content[i].type = "image_url"
                               /\ body.content[i].url # NoUrl
                               /\ Part(body.content[i].role) = part}
Pictures == [i \in DOMAIN body.content |-> body.content[i].url]

LEMMA PartsApart ==
  ASSUME NEW role
  PROVE  /\ Part(role) = "first" <=> role \in FirstRoles
         /\ Part(role) = "last" <=> role \in LastRoles
         /\ Part(role) = "subject" <=> role \notin FirstRoles \cup LastRoles
BY DEF Part, FirstRoles, LastRoles

LEMMA PlacesByPart ==
  /\ PlacesOf(LAMBDA role : role \in FirstRoles) = Shown("first")
  /\ PlacesOf(LAMBDA role : role \in LastRoles) = Shown("last")
  /\ ReferencePlaces = Shown("subject")
  /\ FramePlaces = Shown("first") \cup Shown("last")
<1>1. PlacesOf(LAMBDA role : role \in FirstRoles) = Shown("first")
  BY PartsApart DEF PlacesOf, Shown
<1>2. PlacesOf(LAMBDA role : role \in LastRoles) = Shown("last")
  BY PartsApart DEF PlacesOf, Shown
<1>3. ReferencePlaces = Shown("subject")
  BY PartsApart DEF PlacesOf, Shown, ReferencePlaces
<1>4. FramePlaces = Shown("first") \cup Shown("last")
  BY PartsApart DEF PlacesOf, Shown, FramePlaces
<1> QED
  BY <1>1, <1>2, <1>3, <1>4

LEMMA PicturesListed ==
  ASSUME body \in VideoBodies
  PROVE  /\ Pictures \in Seq(Locations) /\ DOMAIN Pictures = DOMAIN body.content
         /\ \A part : Shown(part) \in SUBSET DOMAIN Pictures
         /\ \A part : Images(body.content, part) = Kept(Pictures, Shown(part))
         /\ Len(body.content) \in Nat /\ DOMAIN body.content = 1..Len(body.content)
<1>1. body.content \in Seq(Items)
  BY BodiesAssumption
<1>2. \A i \in DOMAIN body.content : body.content[i].url \in Locations
  <2>1. \A i \in DOMAIN body.content : body.content[i] \in Items
    BY <1>1
  <2> QED
    BY <2>1 DEF Items
<1>3. Pictures \in Seq(Locations) /\ DOMAIN Pictures = DOMAIN body.content
  BY <1>1, <1>2 DEF Pictures
<1> QED
  BY <1>1, <1>3 DEF Shown, Images, Pictures

(* One end: the earliest image of its roles, or the field.                   *)
LEMMA FrameFound ==
  ASSUME body \in VideoBodies, NEW part, NEW roles, NEW field,
         PlacesOf(LAMBDA role : role \in roles) = Shown(part)
  PROVE  /\ FirstOf(Images(body.content, part), field) = FrameAsked(roles, field)
         /\ FrameAsked(roles, field) # NoUrl <=> (Shown(part) # {} \/ field # NoUrl)
         /\ FrameAsked(roles, field) \in {body.content[i].url : i \in Shown(part)} \cup {field}
<1> DEFINE S == PlacesOf(LAMBDA role : role \in roles)  images == Images(body.content, part)
<1>1. S = Shown(part)
  OBVIOUS
<1>2. FrameAsked(roles, field) =
        IF S = {} THEN field ELSE body.content[CHOOSE i \in S : \A k \in S : i <= k].url
  BY DEF FrameAsked
<1> HIDE DEF S, images
<1>3. /\ Pictures \in Seq(Locations) /\ S \in SUBSET DOMAIN Pictures
      /\ images = Kept(Pictures, S) /\ S \subseteq Nat
  <2>1. S \in SUBSET DOMAIN Pictures /\ images = Kept(Pictures, S)
    BY <1>1, PicturesListed DEF images
  <2>2. Pictures \in Seq(Locations) /\ DOMAIN Pictures \subseteq Nat
    BY PicturesListed
  <2> QED
    BY <2>1, <2>2
<1>4. \A i \in S : body.content[i].url # NoUrl /\ Pictures[i] = body.content[i].url
  BY <1>1 DEF Shown, Pictures
<1>5. CASE S = {}
  <2>1. images = <<>>
    BY <1>3, <1>5, KeptNone
  <2> QED
    BY <1>1, <1>2, <1>5, <2>1 DEF FirstOf, images
<1>6. CASE S # {}
  <2>1. \E i \in S : \A k \in S : i <= k
    <3>1. PICK i \in S : \A k \in S : ~ (k < i)
      BY <1>3, <1>6, LeastNat
    <3>2. \A k \in S : i <= k
      BY <1>3, <3>1
    <3> QED
      BY <3>2
  <2> DEFINE i == CHOOSE i \in S : \A k \in S : i <= k
  <2>2. i \in S /\ \A k \in S : i <= k
    BY <2>1
  <2>3. FrameAsked(roles, field) = body.content[i].url
    BY <1>2, <1>6
  <2> HIDE DEF i
  <2>4. images # <<>> /\ Head(images) = Pictures[i]
    BY <1>3, <2>2, KeptFirst
  <2> QED
    BY <1>1, <1>4, <1>6, <2>2, <2>3, <2>4 DEF FirstOf, images
<1> QED
  BY <1>5, <1>6

LEMMA FramesParsed ==
  ASSUME body \in VideoBodies
  PROVE  /\ Keyframes(body) = Given(<<Opening, Closing>>)
         /\ (Opening # NoUrl \/ Closing # NoUrl) <=> FramesAsked # {}
         /\ {Opening, Closing} \ {NoUrl} \subseteq FramesAsked
<1>1. /\ FirstOf(Images(body.content, "first"), body.first) = Opening
      /\ Opening # NoUrl <=> (Shown("first") # {} \/ body.first # NoUrl)
      /\ Opening \in {body.content[i].url : i \in Shown("first")} \cup {body.first}
  BY FrameFound, PlacesByPart DEF Opening
<1>2. /\ FirstOf(Images(body.content, "last"), body.last) = Closing
      /\ Closing # NoUrl <=> (Shown("last") # {} \/ body.last # NoUrl)
      /\ Closing \in {body.content[i].url : i \in Shown("last")} \cup {body.last}
  BY FrameFound, PlacesByPart DEF Closing
<1>3. \A i \in Shown("first") \cup Shown("last") : body.content[i].url # NoUrl
  BY DEF Shown
<1>4. FramesAsked = ({body.content[i].url : i \in Shown("first") \cup Shown("last")}
                       \cup {body.first, body.last}) \ {NoUrl}
  BY PlacesByPart DEF FramesAsked
<1>5. Keyframes(body) = Given(<<Opening, Closing>>)
  BY <1>1, <1>2 DEF Keyframes
<1> HIDE DEF Shown
<1>6. (Opening # NoUrl \/ Closing # NoUrl) <=> FramesAsked # {}
  BY <1>1, <1>2, <1>3, <1>4
<1>7. {Opening, Closing} \ {NoUrl} \subseteq FramesAsked
  BY <1>1, <1>2, <1>4
<1> QED
  BY <1>5, <1>6, <1>7

LEMMA ReferencesParsed ==
  ASSUME body \in VideoBodies
  PROVE  LET R == References(body)  inContent == Cardinality(ReferencePlaces)
         IN  /\ R \in Seq(Locations) /\ Subjects \in Seq(Locations) /\ inContent \in Nat
             /\ Len(R) = inContent + Len(Subjects)
             /\ \A i \in ReferencePlaces : /\ Rank(ReferencePlaces, i) \in 1..inContent
                                           /\ R[Rank(ReferencePlaces, i)] = body.content[i].url
             /\ \A n \in 1..inContent : \E i \in ReferencePlaces : n = Rank(ReferencePlaces, i)
             /\ \A m \in DOMAIN Subjects : R[inContent + m] = Subjects[m]
<1> DEFINE P == ReferencePlaces  in == Kept(Pictures, P)  c == Cardinality(P)
<1>1. P = Shown("subject") /\ Images(body.content, "subject") = in
  BY PlacesByPart, PicturesListed
<1>2. Pictures \in Seq(Locations) /\ P \in SUBSET DOMAIN Pictures
  BY <1>1, PicturesListed
<1>3. \A i \in P : Pictures[i] = body.content[i].url
  BY <1>1 DEF Shown, Pictures
<1> HIDE DEF P
<1>4. /\ in \in Seq(Locations) /\ Len(in) = c /\ c \in Nat
      /\ \A i \in P : Rank(P, i) \in 1..c /\ in[Rank(P, i)] = Pictures[i]
      /\ \A n \in 1..c : \E i \in P : n = Rank(P, i)
  BY <1>2, KeptFacts
<1>5. Subjects \in Seq(Locations)
  <2> DEFINE flat == FlattenSeq(body.subject)
  <2>1. flat \in Seq(Locations)
    BY BodiesAssumption
  <2> HIDE DEF flat
  <2>2. Given(flat) \in Seq(Locations)
    BY <2>1, KeptFacts DEF Given
  <2> QED
    BY <2>2 DEF Subjects, flat
<1>6. References(body) = in \o Subjects
  BY <1>1 DEF References, SubjectReferences, Subjects
<1> HIDE DEF in, c
<1>7. /\ in \o Subjects \in Seq(Locations) /\ Len(in \o Subjects) = c + Len(Subjects)
      /\ \A n \in 1..c : (in \o Subjects)[n] = in[n]
      /\ \A m \in DOMAIN Subjects : (in \o Subjects)[c + m] = Subjects[m]
  BY <1>4, <1>5
<1> QED
  BY <1>3, <1>4, <1>5, <1>6, <1>7 DEF P, c

-----------------------------------------------------------------------------
(* What the backend and the shim make of a request, by its workflow.         *)
LEMMA FirstPart ==
  ASSUME NEW X, NEW s \in Seq(X), NEW n \in Nat
  PROVE  LET m == IF Len(s) < n THEN Len(s) ELSE n
         IN  /\ Upto(n, s) \in Seq(X) /\ Len(Upto(n, s)) = m
             /\ DOMAIN Upto(n, s) = 1..m
             /\ \A i \in 1..m : Upto(n, s)[i] = s[i]
<1> DEFINE m == IF Len(s) < n THEN Len(s) ELSE n
<1>1. m \in 0..Len(s) /\ Upto(n, s) = SubSeq(s, 1, m)
  BY DEF Upto
<1> HIDE DEF m
<1> QED
  BY <1>1 DEF m

LEMMA OneOrTwo ==
  ASSUME NEW X, NEW K \in Seq(X), Len(K) = 1 \/ Len(K) = 2
  PROVE  K # <<>> /\ (Len(K) = 1 => DOMAIN K = {1}) /\ (Len(K) = 2 => DOMAIN K = {1, 2})
OBVIOUS

LEMMA FramesRun ==
  ASSUME NEW q, NEW X, NEW K \in Seq(X), q.keyframes = K, Len(K) = 1 \/ Len(K) = 2
  PROVE  LET job1 == RunVideo(ToSglang(q))
         IN  /\ job1.image = K[1]
             /\ job1.lastImage = IF Len(K) = 1 THEN NoUrl ELSE K[2]
             /\ job1.references = <<>> /\ job1.steps = 9
             /\ Workflow = "both" => job1.adapter = "fl2v"
<1> DEFINE c == ToSglang(q)  conds == c.conditions
<1>1. Task(q) = "fl2va"
  <2>1. K # <<>>
    BY OneOrTwo
  <2> QED
    BY <2>1 DEF Task
<1>2. Upto(2, K) \in Seq(X) /\ DOMAIN Upto(2, K) = 1..Len(K) /\ \A i \in 1..Len(K) : Upto(2, K)[i] = K[i]
  BY FirstPart
<1>3. /\ c.task = "fl2va"
      /\ conds = [i \in DOMAIN Upto(2, K) |->
                    [uri |-> Upto(2, K)[i], frame |-> <<0, -1>>[i], index |-> Absent]]
  BY <1>1 DEF ToSglang
<1> HIDE DEF conds
<1>4. /\ DOMAIN conds = DOMAIN K /\ conds[1].uri = K[1] /\ conds[1].frame = 0
      /\ Len(K) = 2 => conds[2].uri = K[2] /\ conds[2].frame = -1
      /\ conds \in Seq(Range(conds))
  <2>1. DOMAIN conds = 1..Len(K) /\ 1..Len(K) = DOMAIN K /\ Len(K) \in Nat
    BY <1>2, <1>3
  <2>2. \A i \in 1..Len(K) : conds[i].uri = K[i] /\ conds[i].frame = <<0, -1>>[i]
    BY <1>2, <1>3
  <2>3. conds = [i \in 1..Len(K) |-> conds[i]]
    BY <1>3, <2>1
  <2>4. conds \in Seq(Range(conds))
    BY <2>1, <2>3 DEF Range
  <2> QED
    BY <2>1, <2>2, <2>4
<1>5. FrameAt(c, 0) = K[1]
  <2> DEFINE S == {i \in DOMAIN conds : conds[i].frame = 0}
  <2>1. S = {1}
    <3>1. DOMAIN conds = {1} \/ (DOMAIN conds = {1, 2} /\ conds[2].frame = -1)
      BY <1>4, OneOrTwo
    <3> QED
      BY <1>4, <3>1
  <2>2. Len(Kept(conds, S)) = 1 /\ Kept(conds, S)[1] = conds[1]
    BY <1>4, <2>1, KeptOne
  <2> QED
    BY <1>4, <2>2 DEF FrameAt, Last, conds
<1>6. FrameAt(c, -1) = IF Len(K) = 1 THEN NoUrl ELSE K[2]
  <2> DEFINE S == {i \in DOMAIN conds : conds[i].frame = -1}
  <2>1. CASE Len(K) = 1
    <3>1. S = {}
      BY <1>4, <2>1
    <3>2. Kept(conds, S) = <<>>
      BY <1>4, <3>1, KeptNone
    <3> QED
      BY <2>1, <3>2 DEF FrameAt, conds
  <2>2. CASE Len(K) = 2
    <3>1. S = {2}
      BY <1>4, <2>2
    <3>2. Len(Kept(conds, S)) = 1 /\ Kept(conds, S)[1] = conds[2]
      BY <1>4, <2>2, <3>1, KeptOne
    <3> QED
      BY <1>4, <2>2, <3>2 DEF FrameAt, Last, conds
  <2> QED
    BY <2>1, <2>2
<1> HIDE DEF c
<1>7. LET job1 == RunVideo(c)
      IN  /\ job1.image = FrameAt(c, 0) /\ job1.lastImage = FrameAt(c, -1)
          /\ job1.references = <<>> /\ job1.steps = 9
          /\ Workflow = "both" => job1.adapter = "fl2v"
  BY <1>3 DEF RunVideo
<1> QED
  BY <1>5, <1>6, <1>7 DEF c

(* Conditions numbered as they come are sorted already.                      *)
LEMMA SortedByIndex ==
  ASSUME NEW m \in Nat, NEW S, NEW f \in [1..m -> S], \A i \in 1..m : f[i].index = i - 1
  PROVE  DOMAIN ByIndex(f) = 1..m /\ \A n \in 1..m : ByIndex(f)[n] = f[n]
<1> DEFINE Lower(c) == {d \in Range(f) : d.index < c.index}
<1>1. Range(f) = {f[i] : i \in 1..m}
  BY DEF Range
<1>2. ASSUME NEW n \in 1..m PROVE Cardinality(Lower(f[n])) = n - 1
  <2> DEFINE g == [i \in 1..(n - 1) |-> f[i]]
  <2>1. ASSUME NEW i \in 1..(n - 1)
        PROVE  i \in 1..m /\ f[i].index = i - 1 /\ f[i] \in Lower(f[n])
    <3>1. i \in 1..m /\ i - 1 < n - 1
      OBVIOUS
    <3> QED
      BY <1>1, <3>1
  <2>2. ASSUME NEW d \in Lower(f[n]) PROVE \E i \in 1..(n - 1) : f[i] = d
    <3>1. PICK i \in 1..m : d = f[i]
      BY <1>1
    <3>2. i - 1 < n - 1
      BY <3>1
    <3>3. i \in 1..(n - 1)
      BY <3>2
    <3> QED
      BY <3>1, <3>3
  <2>3. g \in [1..(n - 1) -> Lower(f[n])]
    BY <2>1
  <2>4. \A i, k \in 1..(n - 1) : g[i] = g[k] => i = k
    <3> SUFFICES ASSUME NEW i \in 1..(n - 1), NEW k \in 1..(n - 1), f[i] = f[k] PROVE i = k
      OBVIOUS
    <3>1. i - 1 = k - 1
      BY <2>1
    <3> QED
      BY <3>1
  <2>5. \A d \in Lower(f[n]) : \E i \in 1..(n - 1) : g[i] = d
    BY <2>2
  <2> HIDE DEF g, Lower
  <2>6. ExistsBijection(1..(n - 1), Lower(f[n]))
    BY <2>3, <2>4, <2>5 DEF ExistsBijection, Bijection, Injection, Surjection, IsInjective
  <2>7. IsFiniteSet(1..(n - 1)) /\ Cardinality(1..(n - 1)) = n - 1
    BY FS_Interval
  <2> QED
    BY <2>6, <2>7, FS_Bijection
<1>3. ASSUME NEW n \in 1..m PROVE ByIndex(f)[n] = f[n]
  <2> DEFINE Nth(c) == Cardinality(Lower(c)) = n - 1
  <2>1. f[n] \in Range(f) /\ Nth(f[n])
    BY <1>1, <1>2
  <2>2. \A c \in Range(f) : Nth(c) => c = f[n]
    BY <1>1, <1>2
  <2>3. ByIndex(f)[n] = CHOOSE c \in Range(f) : Nth(c)
    BY DEF ByIndex
  <2> HIDE DEF Nth
  <2> QED
    BY <2>1, <2>2, <2>3
<1>4. DOMAIN ByIndex(f) = 1..m
  BY DEF ByIndex
<1> QED
  BY <1>3, <1>4

LEMMA ReferencesRun ==
  ASSUME NEW q, NEW X, NEW R \in Seq(X), q.keyframes = <<>>, q.references = R, R # <<>>
  PROVE  LET job1 == RunVideo(ToSglang(q))
         IN  /\ job1.image = NoUrl /\ job1.lastImage = NoUrl
             /\ job1.references \in Seq(X) /\ job1.steps = 5
             /\ Len(job1.references) = IF Len(R) < MaxReferences THEN Len(R) ELSE MaxReferences
             /\ \A n \in 1..Len(job1.references) : job1.references[n] = R[n]
             /\ Workflow = "both" => job1.adapter = "ref2v"
<1> DEFINE c == ToSglang(q)  conds == c.conditions  refs == Upto(MaxReferences, R)
           m == IF Len(R) < MaxReferences THEN Len(R) ELSE MaxReferences
<1>1. Task(q) = "ref2va"
  BY DEF Task
<1>2. m \in Nat /\ DOMAIN refs = 1..m /\ \A i \in 1..m : refs[i] = R[i] /\ R[i] \in X
  BY ModelCallAssumption, FirstPart
<1>3. /\ c.task = "ref2va"
      /\ conds = [i \in DOMAIN refs |-> [uri |-> refs[i], frame |-> Absent, index |-> i - 1]]
  BY <1>1 DEF ToSglang
<1> HIDE DEF conds, refs, m
<1>4. /\ conds \in [1..m -> Range(conds)] /\ conds \in Seq(Range(conds)) /\ DOMAIN conds = 1..m
      /\ \A i \in 1..m : /\ conds[i].uri = R[i] /\ conds[i].frame = Absent
                         /\ conds[i].index = i - 1
  <2>1. DOMAIN conds = 1..m /\ conds = [i \in 1..m |-> conds[i]]
    BY <1>2, <1>3
  <2>2. \A i \in 1..m : conds[i] \in Range(conds)
    BY <2>1 DEF Range
  <2>3. ASSUME NEW i \in 1..m
        PROVE  conds[i].uri = R[i] /\ conds[i].frame = Absent /\ conds[i].index = i - 1
    <3>1. conds[i] = [uri |-> R[i], frame |-> Absent, index |-> i - 1]
      BY <1>2, <1>3
    <3> QED
      BY <3>1
  <2>4. conds \in [1..m -> Range(conds)]
    BY <2>1, <2>2
  <2>5. conds \in Seq(Range(conds))
    BY <1>2, <2>4
  <2> QED
    BY <2>1, <2>3, <2>4, <2>5
<1>5. {i \in DOMAIN conds : conds[i].frame = Absent} = DOMAIN conds
  BY <1>4
<1> DEFINE sorted == ByIndex(Kept(conds, {i \in DOMAIN conds : conds[i].frame = Absent}))
<1>6. DOMAIN sorted = 1..m /\ \A n \in 1..m : sorted[n] = conds[n]
  <2>1. Kept(conds, {i \in DOMAIN conds : conds[i].frame = Absent}) = conds
    BY <1>4, <1>5, KeptAll
  <2>2. sorted = ByIndex(conds)
    BY <2>1
  <2> HIDE DEF sorted
  <2>3. DOMAIN ByIndex(conds) = 1..m /\ \A n \in 1..m : ByIndex(conds)[n] = conds[n]
    <3>1. m \in Nat /\ conds \in [1..m -> Range(conds)]
      BY <1>2, <1>4
    <3>2. \A i \in 1..m : conds[i].index = i - 1
      BY <1>4
    <3> QED
      BY <3>1, <3>2, SortedByIndex, ZenonT(30)
  <2> QED
    BY <2>2, <2>3
<1>7. LET job1 == RunVideo(c)
      IN  /\ job1.image = NoUrl /\ job1.lastImage = NoUrl /\ job1.steps = 5
          /\ job1.references = [n \in DOMAIN sorted |-> sorted[n].uri]
          /\ Workflow = "both" => job1.adapter = "ref2v"
  BY <1>3 DEF RunVideo, conds
<1> HIDE DEF sorted
<1> DEFINE listed == [n \in DOMAIN sorted |-> sorted[n].uri]
<1>8. listed \in Seq(X) /\ Len(listed) = m /\ \A n \in 1..m : listed[n] = R[n]
  <2>1. \A n \in 1..m : sorted[n].uri = R[n] /\ R[n] \in X
    BY <1>2, <1>4, <1>6
  <2>2. listed = [n \in 1..m |-> R[n]]
    BY <1>6, <2>1
  <2> HIDE DEF listed
  <2>3. listed \in [1..m -> X]
    BY <2>1, <2>2
  <2> QED
    BY <1>2, <2>2, <2>3
<1> HIDE DEF listed
<1>9. RunVideo(c).references = listed
  BY <1>7 DEF listed
<1> HIDE DEF c
<1> QED
  BY <1>7, <1>8, <1>9 DEF m, c

LEMMA TextRun ==
  ASSUME NEW q, q.keyframes = <<>>, q.references = <<>>
  PROVE  LET job1 == RunVideo(ToSglang(q))
         IN  /\ job1.image = NoUrl /\ job1.lastImage = NoUrl
             /\ job1.references = <<>> /\ job1.steps = 9
             /\ Workflow = "both" => job1.adapter = "fl2v"
<1> DEFINE c == ToSglang(q)
<1>1. Task(q) = "t2va"
  BY DEF Task
<1>2. c.task = "t2va" /\ c.conditions = <<>>
  BY <1>1 DEF ToSglang
<1> HIDE DEF c
<1>3. \A at : FrameAt(c, at) = NoUrl
  <2> SUFFICES ASSUME NEW at PROVE FrameAt(c, at) = NoUrl
    OBVIOUS
  <2>1. {i \in DOMAIN c.conditions : c.conditions[i].frame = at} = {}
    BY <1>2
  <2>2. Kept(<<>>, {}) = <<>>
    <3>1. <<>> \in Seq({})
      OBVIOUS
    <3> QED
      BY <3>1, KeptNone
  <2> QED
    BY <1>2, <2>1, <2>2 DEF FrameAt
<1>4. LET job1 == RunVideo(c)
      IN  /\ job1.image = FrameAt(c, 0) /\ job1.lastImage = FrameAt(c, -1)
          /\ job1.references = <<>> /\ job1.steps = 9
          /\ Workflow = "both" => job1.adapter = "fl2v"
  BY <1>2 DEF RunVideo
<1> QED
  BY <1>3, <1>4 DEF c

-----------------------------------------------------------------------------
FramesIn(K, u, v) ==
  /\ K = <<>> <=> (u = NoUrl /\ v = NoUrl)
  /\ K # <<>> => K \in Seq({u, v}) /\ (Len(K) = 1 \/ Len(K) = 2)
  /\ u # NoUrl => K[1] = u /\ v = IF Len(K) = 1 THEN NoUrl ELSE K[2]
  /\ u = NoUrl /\ v # NoUrl => K[1] = v /\ Len(K) = 1

LEMMA FrameList ==
  ASSUME NEW u, NEW v, NEW K, K = Given(<<u, v>>)
  PROVE  FramesIn(K, u, v)
<1> USE DEF FramesIn
<1>1. /\ u = NoUrl /\ v = NoUrl => K = <<>>
      /\ u # NoUrl /\ v = NoUrl => K = <<u>>
      /\ u = NoUrl /\ v # NoUrl => K = <<v>>
      /\ u # NoUrl /\ v # NoUrl => K = <<u, v>>
  BY GivenOfTwo
<1>2. <<>> # <<u>> /\ <<>> # <<v>> /\ <<>> # <<u, v>>
  OBVIOUS
<1>3. CASE u = NoUrl /\ v = NoUrl
  BY <1>1, <1>3
<1>4. CASE u # NoUrl /\ v = NoUrl
  BY <1>1, <1>2, <1>4
<1>5. CASE u = NoUrl /\ v # NoUrl
  BY <1>1, <1>2, <1>5
<1>6. CASE u # NoUrl /\ v # NoUrl
  <2>1. K = <<u, v>> /\ K # <<>>
    BY <1>1, <1>2, <1>6
  <2>2. <<u, v>> \in Seq({u, v}) /\ Len(<<u, v>>) = 2
    OBVIOUS
  <2>3. <<u, v>>[1] = u /\ <<u, v>>[2] = v
    OBVIOUS
  <2>4. Len(K) = 2 /\ K[1] = u /\ K[2] = v /\ K \in Seq({u, v})
    BY <2>1, <2>2, <2>3
  <2> QED
    BY <1>6, <2>1, <2>4
<1> QED
  BY <1>3, <1>4, <1>5, <1>6

(* A video run, by what the parser made of the body: from frames, from       *)
(* references, or from the text alone.                                       *)
LEMMA RunByMode ==
  ASSUME PathInv, VideoRun
  PROVE  LET K == Keyframes(body)  R == References(body)
         IN  \/ /\ K # <<>> /\ R = <<>> /\ job.references = <<>> /\ job.steps = 9
                /\ job.image = K[1] /\ job.lastImage = IF Len(K) = 1 THEN NoUrl ELSE K[2]
                /\ Workflow = "both" => job.adapter = "fl2v"
             \/ /\ K = <<>> /\ R # <<>> /\ job.references \in Seq(Locations)
                /\ job.image = NoUrl /\ job.lastImage = NoUrl /\ job.steps = 5
                /\ Len(job.references) =
                     IF Len(R) < MaxReferences THEN Len(R) ELSE MaxReferences
                /\ \A n \in 1..Len(job.references) : job.references[n] = R[n]
                /\ Workflow = "both" => job.adapter = "ref2v"
             \/ /\ K = <<>> /\ R = <<>> /\ job.references = <<>> /\ job.steps = 9
                /\ job.image = NoUrl /\ job.lastImage = NoUrl
                /\ Workflow = "both" => job.adapter = "fl2v"
<1> DEFINE K == Keyframes(body)  R == References(body)  q == Reloaded(ParseVideo(body))
<1>1. body \in VideoBodies /\ job = RunVideo(ToSglang(q)) /\ (K = <<>> \/ R = <<>>)
  BY VideoPath DEF VideoRefused
<1>2. q.keyframes = K /\ q.references = R
  BY DEF ParseVideo, Reloaded
<1>3. K = Given(<<Opening, Closing>>)
  BY <1>1, FramesParsed
<1>4. R \in Seq(Locations)
  BY <1>1, ReferencesParsed
<1> HIDE DEF q, K, R
<1>5. K # <<>> => K \in Seq({Opening, Closing}) /\ (Len(K) = 1 \/ Len(K) = 2)
  BY <1>3, FrameList DEF FramesIn
<1>6. CASE K # <<>>
  <2>1. K \in Seq({Opening, Closing}) /\ (Len(K) = 1 \/ Len(K) = 2) /\ R = <<>>
    BY <1>1, <1>5, <1>6
  <2> QED
    BY <1>1, <1>2, <1>6, <2>1, FramesRun DEF K, R
<1>7. CASE K = <<>> /\ R # <<>>
  BY <1>1, <1>2, <1>4, <1>7, ReferencesRun DEF K, R
<1>8. CASE K = <<>> /\ R = <<>>
  BY <1>1, <1>2, <1>8, TextRun DEF K, R
<1> QED
  BY <1>6, <1>7, <1>8

LEMMA FramesOfRun ==
  ASSUME PathInv, VideoRun
  PROVE  IF Opening # NoUrl THEN job.image = Opening /\ job.lastImage = Closing
         ELSE job.image = Closing /\ job.lastImage = NoUrl
<1> DEFINE K == Keyframes(body)
<1>1. K = Given(<<Opening, Closing>>)
  BY VideoPath, FramesParsed
<1>2. \/ /\ K # <<>> /\ job.image = K[1]
         /\ job.lastImage = IF Len(K) = 1 THEN NoUrl ELSE K[2]
      \/ K = <<>> /\ job.image = NoUrl /\ job.lastImage = NoUrl
  BY RunByMode
<1> HIDE DEF K
<1>3. FramesIn(K, Opening, Closing)
  BY <1>1, FrameList
<1> QED
  BY <1>2, <1>3 DEF FramesIn

(* The parser's choice for an end is among what was asked for there, and is  *)
(* nothing only if nothing was.                                              *)
LEMMA FrameAmongAsked ==
  ASSUME body \in VideoBodies, NEW roles, NEW field
  PROVE  IF FrameAsked(roles, field) = NoUrl THEN FramesAt(roles, field) = {}
         ELSE FrameAsked(roles, field) \in FramesAt(roles, field)
<1> DEFINE S == PlacesOf(LAMBDA role : role \in roles)
           Least == {k \in S : \A n \in S : k <= n}
<1>1. /\ FrameAsked(roles, field) =
           IF S = {} THEN field ELSE body.content[CHOOSE i \in S : \A k \in S : i <= k].url
      /\ FramesAt(roles, field) =
           ({field} \cup {body.content[i].url : i \in Least}) \ {NoUrl}
  BY DEF FrameAsked, FramesAt
<1>2. S \subseteq Nat /\ \A i \in S : body.content[i].url # NoUrl
  BY PicturesListed DEF PlacesOf
<1> HIDE DEF S
<1>3. CASE S = {}
  BY <1>1, <1>3
<1>4. CASE S # {}
  <2>1. PICK m \in S : \A k \in S : ~ (k < m)
    BY <1>2, <1>4, LeastNat
  <2>2. \A k \in S : m <= k
    BY <1>2, <2>1
  <2> DEFINE i == CHOOSE i \in S : \A k \in S : i <= k
  <2>3. i \in S /\ \A k \in S : i <= k
    BY <2>2
  <2>4. FrameAsked(roles, field) = body.content[i].url
    BY <1>1, <1>4
  <2> HIDE DEF i
  <2>5. i \in Least
    BY <2>3
  <2> QED
    BY <1>1, <1>2, <2>3, <2>4, <2>5
<1> QED
  BY <1>3, <1>4

(* RequestPath!FramesInPlace: a clip with an opening frame opens with one    *)
(* asked for at that end and closes with one asked for at the other, if any  *)
(* was: whichever of content and field wins, no end gets the other's frame.  *)
THEOREM FramesStayInPlace == Spec => []FramesInPlace
<1>1. PathInv => FramesInPlace
  <2> SUFFICES ASSUME PathInv, VideoRun, Openings # {}
               PROVE  /\ job.image \in Openings
                      /\ IF Closings = {} THEN job.lastImage = NoUrl
                         ELSE job.lastImage \in Closings
    BY DEF FramesInPlace
  <2>1. body \in VideoBodies
    BY VideoPath
  <2>2. IF Opening = NoUrl THEN Openings = {} ELSE Opening \in Openings
    BY <2>1, FrameAmongAsked DEF Opening, Openings
  <2>3. IF Closing = NoUrl THEN Closings = {} ELSE Closing \in Closings
    BY <2>1, FrameAmongAsked DEF Closing, Closings
  <2>4. job.image = Opening /\ job.lastImage = Closing /\ Opening # NoUrl
    BY <2>2, FramesOfRun
  <2> QED
    BY <2>2, <2>3, <2>4
<1> QED
  BY PathAsParsed, <1>1, PTL

(* RequestPath!ReferencesInOrder: the references the model is given are      *)
(* those of the request, content before subjects, in the client's order.     *)
THEOREM ReferencesStayInOrder == Spec => []ReferencesInOrder
<1>1. PathInv => ReferencesInOrder
  <2> SUFFICES ASSUME PathInv, VideoRun PROVE ReferencesInOrder
    BY DEF ReferencesInOrder
  <2> DEFINE R == References(body)  P == ReferencePlaces  c == Cardinality(P)
             total == c + Len(Subjects)
  <2>1. /\ R \in Seq(Locations) /\ Subjects \in Seq(Locations) /\ c \in Nat
        /\ Len(R) = total
        /\ \A i \in P : Rank(P, i) \in 1..c /\ R[Rank(P, i)] = body.content[i].url
        /\ \A m \in DOMAIN Subjects : R[c + m] = Subjects[m]
    BY VideoPath, ReferencesParsed
  <2>2. /\ Len(job.references) = IF Len(R) < MaxReferences THEN Len(R) ELSE MaxReferences
        /\ \A n \in 1..Len(job.references) : job.references[n] = R[n]
    <3>1. R = <<>> => job.references = <<>>
      BY RunByMode
    <3>2. CASE R = <<>>
      <4>1. Len(R) = 0 /\ Len(job.references) = 0
        BY <3>1, <3>2
      <4> QED
        BY <4>1, ModelCallAssumption
    <3>3. CASE R # <<>>
      BY <3>3, RunByMode
    <3> QED
      BY <3>2, <3>3
  <2> HIDE DEF R
  <2>3. Len(job.references) = IF total < MaxReferences THEN total ELSE MaxReferences
    BY <2>1, <2>2
  <2>4. ASSUME NEW i \in P, Rank(P, i) <= MaxReferences
        PROVE  job.references[Rank(P, i)] = body.content[i].url
    <3> DEFINE n == Rank(P, i)
    <3>1. n \in 1..c /\ R[n] = body.content[i].url
      BY <2>1
    <3>2. n <= MaxReferences
      BY <2>4
    <3> HIDE DEF n
    <3>3. Len(Subjects) \in Nat
      BY <2>1
    <3> HIDE DEF c
    <3>4. n \in 1..Len(job.references)
      BY <2>1, <2>3, <3>1, <3>2, <3>3, ModelCallAssumption
    <3> QED
      BY <2>2, <3>1, <3>4 DEF n
  <2>5. ASSUME NEW s \in DOMAIN Subjects, c + s <= MaxReferences
        PROVE  job.references[c + s] = Subjects[s]
    <3>1. Len(Subjects) \in Nat /\ s \in 1..Len(Subjects)
      BY <2>1
    <3> HIDE DEF c
    <3>2. c + s \in 1..Len(job.references)
      BY <2>1, <2>3, <2>5, <3>1, ModelCallAssumption
    <3> QED
      BY <2>1, <2>2, <3>2
  <2> QED
    BY <2>3, <2>4, <2>5 DEF ReferencesInOrder, Rank
<1> QED
  BY PathAsParsed, <1>1, PTL

(* What the references of a request are, and when the parser refuses it.     *)
LEMMA ReferencesCollected ==
  ASSUME body \in VideoBodies
  PROVE  /\ References(body) = <<>> <=> ReferencesAsked = {}
         /\ \A n \in 1..Len(References(body)) : References(body)[n] \in ReferencesAsked
<1> DEFINE R == References(body)  P == ReferencePlaces  c == Cardinality(P)
<1>1. /\ R \in Seq(Locations) /\ Subjects \in Seq(Locations) /\ c \in Nat
      /\ Len(R) = c + Len(Subjects)
      /\ \A i \in P : Rank(P, i) \in 1..c /\ R[Rank(P, i)] = body.content[i].url
      /\ \A n \in 1..c : \E i \in P : n = Rank(P, i)
      /\ \A m \in DOMAIN Subjects : R[c + m] = Subjects[m]
  BY ReferencesParsed
<1>2. ReferencesAsked =
        {body.content[i].url : i \in P} \cup {Subjects[m] : m \in 1..Len(Subjects)}
  BY <1>1 DEF ReferencesAsked, Range
<1> HIDE DEF R, P, c
<1>3. ASSUME NEW n \in 1..Len(R) PROVE R[n] \in ReferencesAsked
  <2>1. CASE n \in 1..c
    <3>1. PICK i \in P : n = Rank(P, i)
      BY <1>1, <2>1
    <3>2. R[n] = body.content[i].url
      BY <1>1, <3>1
    <3> QED
      BY <1>2, <3>2
  <2>2. CASE n \notin 1..c
    <3> DEFINE m == n - c
    <3>1. m \in 1..Len(Subjects) /\ n = c + m
      BY <1>1, <2>2
    <3> HIDE DEF m
    <3>2. R[n] = Subjects[m]
      BY <1>1, <3>1
    <3> QED
      BY <1>2, <3>1, <3>2
  <2> QED
    BY <2>1, <2>2
<1>4. ASSUME R = <<>> PROVE ReferencesAsked = {}
  <2>1. Len(R) = 0
    BY <1>4
  <2>2. c = 0 /\ Len(Subjects) = 0
    BY <1>1, <2>1
  <2>3. P = {} /\ 1..Len(Subjects) = {}
    BY <1>1, <2>2
  <2> QED
    BY <1>2, <2>3
<1>5. ASSUME R # <<>> PROVE ReferencesAsked # {}
  <2>1. 1 \in 1..Len(R)
    BY <1>1, <1>5
  <2> QED
    BY <1>3, <2>1
<1> QED
  BY <1>3, <1>4, <1>5 DEF R

LEMMA RefusedAsMixed ==
  ASSUME body \in VideoBodies
  PROVE  /\ Keyframes(body) = <<>> <=> FramesAsked = {}
         /\ VideoRefused(body) <=>
              \/ body.content = <<>>
              \/ FramesAsked # {} /\ ReferencesAsked # {}
<1>1. FramesIn(Keyframes(body), Opening, Closing)
  BY FramesParsed, FrameList
<1>2. Keyframes(body) = <<>> <=> FramesAsked = {}
  BY <1>1, FramesParsed DEF FramesIn
<1> QED
  BY <1>2, ReferencesCollected DEF VideoRefused

(* RequestPath!ModesApart: no reference becomes a frame nor a frame a        *)
(* reference, neither kind is lost, the adapter and the steps follow, and    *)
(* only a request that mixes the two, or has no content, is refused.         *)
THEOREM ModesStayApart == Spec => []ModesApart
<1>1. PathInv => ModesApart
  <2> SUFFICES ASSUME PathInv PROVE ModesApart
    OBVIOUS
  <2>1. ASSUME VideoRun
        PROVE  LET frames == {job.image, job.lastImage} \ {NoUrl}
               IN  /\ frames \subseteq FramesAsked /\ Range(job.references) \subseteq ReferencesAsked
                   /\ frames = {} <=> FramesAsked = {}
                   /\ job.references = <<>> <=> ReferencesAsked = {}
                   /\ Workflow = "both" => (job.adapter = "ref2v" <=> ReferencesAsked # {})
                   /\ job.steps = 5 <=> ReferencesAsked # {}
    <3> DEFINE K == Keyframes(body)  R == References(body)
               frames == {job.image, job.lastImage} \ {NoUrl}
    <3>1. body \in VideoBodies
      BY <2>1, VideoPath
    <3>2. /\ K = <<>> <=> FramesAsked = {}
          /\ R = <<>> <=> ReferencesAsked = {}
          /\ \A n \in 1..Len(R) : R[n] \in ReferencesAsked
      BY <3>1, RefusedAsMixed, ReferencesCollected
    <3>3. FramesIn(K, Opening, Closing) /\ {Opening, Closing} \ {NoUrl} \subseteq FramesAsked
      BY <3>1, FramesParsed, FrameList
    <3>4. frames = {Opening, Closing} \ {NoUrl}
      <4>1. IF Opening # NoUrl THEN job.image = Opening /\ job.lastImage = Closing
            ELSE job.image = Closing /\ job.lastImage = NoUrl
        BY <2>1, FramesOfRun
      <4> QED
        BY <4>1
    <3>5. frames \subseteq FramesAsked /\ (frames = {} <=> FramesAsked = {})
      BY <3>2, <3>3, <3>4 DEF FramesIn
    <3>6. /\ job.references = <<>> <=> R = <<>>
          /\ Workflow = "both" => (job.adapter = "ref2v" <=> R # <<>>)
          /\ job.steps = 5 <=> R # <<>>
      <4>1. R # <<>> => job.references # <<>>
        <5> SUFFICES ASSUME R # <<>> PROVE job.references # <<>>
          OBVIOUS
        <5>1. Len(job.references) = IF Len(R) < MaxReferences THEN Len(R) ELSE MaxReferences
          BY <2>1, RunByMode
        <5>2. R \in Seq(Locations)
          BY <3>1, ReferencesParsed
        <5>3. Len(R) \in Nat /\ Len(R) # 0
          BY <5>2
        <5>4. Len(job.references) # 0 /\ Len(<<>>) = 0
          BY <5>1, <5>3, ModelCallAssumption
        <5> QED
          BY <5>4
      <4> QED
        BY <2>1, <4>1, RunByMode
    <3>7. Range(job.references) \subseteq ReferencesAsked
      <4>1. CASE R = <<>>
        <5>1. job.references = <<>>
          BY <3>6, <4>1
        <5> QED
          BY <5>1 DEF Range
      <4>2. CASE R # <<>>
        <5>1. /\ job.references \in Seq(Locations)
              /\ Len(job.references) = IF Len(R) < MaxReferences THEN Len(R) ELSE MaxReferences
              /\ \A n \in 1..Len(job.references) : job.references[n] = R[n]
          BY <2>1, <4>2, RunByMode
        <5>2. R \in Seq(Locations)
          BY <3>1, ReferencesParsed
        <5>3. \A n \in 1..Len(job.references) : n \in 1..Len(R)
          BY <5>1, <5>2, ModelCallAssumption
        <5>4. Range(job.references) = {job.references[n] : n \in 1..Len(job.references)}
          BY <5>1 DEF Range
        <5> QED
          BY <3>2, <5>1, <5>3, <5>4
      <4> QED
        BY <4>1, <4>2
    <3> QED
      BY <3>2, <3>5, <3>6, <3>7
  <2>2. (kind = "video" /\ answer = Refusal) <=>
          /\ kind = "video"
          /\ body.content = <<>> \/ (FramesAsked # {} /\ ReferencesAsked # {})
    <3> SUFFICES ASSUME kind = "video"
                 PROVE  answer = Refusal <=>
                          (body.content = <<>> \/ (FramesAsked # {} /\ ReferencesAsked # {}))
      OBVIOUS
    <3>1. body # None /\ body \in VideoBodies
      BY BodiesAssumption DEF PathInv, Submitted
    <3>2. answer = Refusal <=> VideoRefused(body)
      <4>1. Refused <=> VideoRefused(body)
        BY DEF Refused
      <4>2. CASE Refused
        BY <3>1, <4>1, <4>2 DEF PathInv, Told
      <4>3. CASE ~ Refused
        <5>1. answer = Refusal => answer.status = "refused"
          BY DEF Refusal
        <5> QED
          BY <4>1, <4>3, <5>1, BodiesAssumption DEF PathInv, Told
      <4> QED
        BY <4>2, <4>3
    <3> QED
      BY <3>1, <3>2, RefusedAsMixed
  <2> QED
    BY <2>1, <2>2 DEF ModesApart
<1> QED
  BY PathAsParsed, <1>1, PTL
=============================================================================

--------------------------- MODULE AgentLogProofs ---------------------------
(***************************************************************************)
(* Theorems about Segmentation and AgentLog: merging the small segments    *)
(* of a session comes to an end, every event that is kept belongs to one   *)
(* span, and the spans of one crawl lie apart; and whatever the agent      *)
(* logs, and whenever inserts fail or the daemon stops, no span is stored  *)
(* twice or without its events, and no event is marked without a span.     *)
(***************************************************************************)
EXTENDS AgentLog, TLAPS, FiniteSetTheorems, WellFoundedInduction

USE LogAssumption

-----------------------------------------------------------------------------
(* Sets of numbers.                                                        *)

\* A set of naturals that is not empty has a least element.
LEMMA HasLeast ==
    ASSUME NEW S \in SUBSET Nat, S # {}
    PROVE  FirstOf(S) \in S /\ \A y \in S : FirstOf(S) <= y
<1>1. PICK x \in S : \A y \in S : ~ (<<y, x>> \in OpToRel(<, Nat))
  BY NatLessThanWellFounded, WFMin
<1>2. \A y \in S : ~ (y < x) BY <1>1 DEF OpToRel
<1>3. \A y \in S : x <= y BY <1>2
<1> QED BY <1>3 DEF FirstOf

\* A bounded set of naturals that is not empty has a greatest element.
LEMMA HasGreatest ==
    ASSUME NEW N \in Nat, NEW S \in SUBSET (0..N), S # {}
    PROVE  LastOf(S) \in S /\ \A y \in S : y <= LastOf(S)
<1> DEFINE T == {N - x : x \in S}
<1>1. T \in SUBSET Nat /\ T # {}
  <2>1. PICK x \in S : TRUE OBVIOUS
  <2>2. N - x \in T OBVIOUS
  <2> QED BY <2>2
<1>2. FirstOf(T) \in T /\ \A y \in T : FirstOf(T) <= y
  <2> HIDE DEF T
  <2> QED BY <1>1, HasLeast
<1>3. PICK x \in S : FirstOf(T) = N - x BY <1>2
<1>4. \A y \in S : y <= x
  <2> SUFFICES ASSUME NEW y \in S PROVE y <= x OBVIOUS
  <2>1. N - y \in T OBVIOUS
  <2>2. N - x <= N - y BY <1>2, <1>3, <2>1
  <2> QED BY <2>2
<1> QED BY <1>4 DEF LastOf

\* What a function makes of a finite set is finite.
LEMMA ImageFinite ==
    ASSUME NEW D, IsFiniteSet(D), NEW f, DOMAIN f = D, f \in [D -> Range(f)]
    PROVE  IsFiniteSet(Range(f)) /\ Cardinality(Range(f)) <= Cardinality(D)
<1>1. f \in Surjection(D, Range(f)) BY DEF Surjection, Range
<1> QED BY <1>1, FS_Surjection

\* A function on 1..n is a sequence of n elements.
LEMMA SequenceOf ==
    ASSUME NEW S, NEW n \in Nat, NEW r \in [1..n -> S]
    PROVE  r \in Seq(S) /\ Len(r) = n
OBVIOUS

\* InOrder lists elements of the domain, by growing value, when no two have the same.
LEMMA InOrderSorts ==
    ASSUME NEW f, IsFiniteSet(DOMAIN f), f \in [DOMAIN f -> Nat],
           \A x, y \in DOMAIN f : f[x] = f[y] => x = y
    PROVE  LET o == InOrder(f) n == Cardinality(DOMAIN f) IN
           /\ n \in Nat /\ o \in [1..n -> DOMAIN f]
           /\ \A k, l \in 1..n : k < l => f[o[k]] < f[o[l]]
<1> DEFINE D == DOMAIN f
           n == Cardinality(D)
           Below(x) == {y \in D : f[y] < f[x]}
           r == [x \in D |-> Cardinality(Below(x))]
           o == InOrder(f)
<1>1. n \in Nat BY FS_CardinalityType
<1>2. ASSUME NEW x \in D
      PROVE  IsFiniteSet(Below(x)) /\ Cardinality(Below(x)) \in 0..n-1
  <2>1. Below(x) \in SUBSET D /\ x \notin Below(x)
    <3>1. ~ (f[x] < f[x]) OBVIOUS
    <3> QED BY <3>1, Zenon
  <2> HIDE DEF Below
  <2>2. IsFiniteSet(Below(x)) /\ Cardinality(Below(x)) <= n /\ Cardinality(Below(x)) # n
    BY <2>1, FS_Subset
  <2>3. Cardinality(Below(x)) \in Nat BY <2>2, FS_CardinalityType
  <2> HIDE DEF n
  <2> QED BY <1>1, <2>2, <2>3
<1>3. ASSUME NEW x \in D, NEW z \in D, f[x] < f[z]
      PROVE  Cardinality(Below(x)) < Cardinality(Below(z))
  <2>1. Below(x) \in SUBSET Below(z) BY <1>3
  <2>2. x \in Below(z) /\ x \notin Below(x) BY <1>3
  <2>3. /\ IsFiniteSet(Below(z)) /\ Cardinality(Below(z)) \in 0..n-1
        /\ Cardinality(Below(x)) \in 0..n-1
    BY <1>2
  <2> HIDE DEF Below
  <2>4. Cardinality(Below(x)) <= Cardinality(Below(z)) /\ Cardinality(Below(x)) # Cardinality(Below(z))
    BY <2>1, <2>2, <2>3, FS_Subset
  <2> HIDE DEF n
  <2> QED BY <2>3, <2>4, <1>1
<1>4. \A x \in D : r[x] \in 0..n-1 BY <1>2
<1>5. \A x, z \in D : f[x] < f[z] => r[x] < r[z] BY <1>3
<1> HIDE DEF Below
<1>6. \A x, z \in D : r[x] = r[z] => x = z
  <2> SUFFICES ASSUME NEW x \in D, NEW z \in D, r[x] = r[z] PROVE f[x] = f[z] OBVIOUS
  <2> HIDE DEF r
  <2> QED BY <1>1, <1>4, <1>5
<1>7. \A i \in 0..n-1 : \E x \in D : r[x] = i
  <2>1. IsFiniteSet(0..n-1) /\ Cardinality(0..n-1) = n
    <3> HIDE DEF n
    <3>1. 0 \in Int /\ n - 1 \in Int BY <1>1
    <3>2. IsFiniteSet(0..n-1) /\ Cardinality(0..n-1) = IF 0 > n-1 THEN 0 ELSE (n-1)-0+1
      BY <3>1, FS_Interval
    <3> QED BY <3>2, <1>1
  <2>2. r \in Injection(D, 0..n-1)
    <3>1. r \in [D -> 0..n-1] BY <1>4
    <3> HIDE DEF r
    <3> QED BY <3>1, <1>6 DEF Injection, IsInjective
  <2>3. r \in Surjection(D, 0..n-1) BY <2>1, <2>2, FS_Injection
  <2> HIDE DEF r
  <2> QED BY <2>3 DEF Surjection
<1>8. ASSUME NEW k \in 1..n PROVE o[k] \in D /\ r[o[k]] = k - 1
  <2>1. \E x \in D : Cardinality(Below(x)) = k - 1
    <3>1. k - 1 \in 0..n-1 BY <1>1
    <3> QED BY <1>7, <3>1
  <2>2. o[k] = CHOOSE x \in D : Cardinality(Below(x)) = k - 1
    BY DEF InOrder, Below
  <2>3. o[k] \in D /\ Cardinality(Below(o[k])) = k - 1 BY <2>1, <2>2
  <2> QED BY <2>3
<1>9. o \in [1..n -> D]
  <2> DEFINE G(k) == CHOOSE x \in D : Cardinality(Below(x)) = k - 1
  <2>1. o = [k \in 1..n |-> G(k)] BY DEF InOrder, Below
  <2> HIDE DEF o, n, G
  <2>2. \A k \in 1..n : o[k] = G(k) /\ o[k] \in D BY <2>1, <1>8
  <2> QED BY <2>1, <2>2
<1>10. ASSUME NEW k \in 1..n, NEW l \in 1..n, k < l PROVE f[o[k]] < f[o[l]]
  <2>1. r[o[k]] < r[o[l]] /\ o[k] \in D /\ o[l] \in D /\ r[o[k]] \in Int /\ r[o[l]] \in Int
    <3> HIDE DEF o, r, n
    <3> QED BY <1>8, <1>10, <1>1
  <2>2. f[o[k]] \in Nat /\ f[o[l]] \in Nat BY <2>1
  <2>3. f[o[k]] = f[o[l]] => o[k] = o[l] BY <2>1
  <2> HIDE DEF o, r
  <2> QED BY <2>1, <2>2, <2>3, <1>5
<1> QED BY <1>1, <1>9, <1>10

-----------------------------------------------------------------------------
(* Segments, for a session E and cuts K between its events.                *)

\* Cuts that leave an event on each side.
Inner(E) == 1..(Len(E) - 1)

LEMMA SegmentEnds ==
    ASSUME NEW E, Len(E) \in Nat, NEW K \in SUBSET Inner(E), NEW s \in Segments(E, K)
    PROVE  /\ s[1] \in 1..s[2] /\ s[2] \in 1..Len(E)
           /\ s[1] = 1 \/ s[1] - 1 \in K
           /\ s[2] \in K \/ s[2] = Len(E)
           /\ \A i \in K : i < s[1] \/ s[2] <= i
<1> DEFINE A == {1} \cup {i + 1 : i \in K}
           B == K \cup {Len(E)}
<1>1. /\ s \in A \X B
      /\ s[1] <= s[2] /\ \A i \in K : i < s[1] \/ s[2] <= i
  BY DEF Segments
<1>2. PICK a \in A, b \in B : s = <<a, b>>
  <2> HIDE DEF A, B
  <2> QED BY <1>1
<1>3. s[1] = a /\ s[2] = b BY <1>2
<1>4. K \subseteq Int /\ \A i \in K : 1 <= i /\ i <= Len(E) - 1 BY DEF Inner
<1>5. a \in Nat \ {0} /\ (a = 1 \/ a - 1 \in K) BY <1>4
<1>6. b \in Int /\ b <= Len(E) BY <1>4
<1> QED BY <1>1, <1>3, <1>5, <1>6

\* A segment ends before another that starts later, and two that share an event are the same.
LEMMA SegmentsApart ==
    ASSUME NEW E, Len(E) \in Nat, NEW K \in SUBSET Inner(E),
           NEW p \in Segments(E, K), NEW q \in Segments(E, K)
    PROVE  p[1] < q[1] => p[2] < q[1]
<1> SUFFICES ASSUME p[1] < q[1] PROVE p[2] < q[1] OBVIOUS
<1>1. p[1] \in 1..p[2] /\ q[1] - 1 \in K /\ q[1] \in Int /\ p[2] \in Int
  BY SegmentEnds
<1>2. q[1] - 1 < p[1] \/ p[2] <= q[1] - 1
  BY <1>1, SegmentEnds
<1> QED BY <1>1, <1>2

LEMMA SameSegment ==
    ASSUME NEW E, Len(E) \in Nat, NEW K \in SUBSET Inner(E),
           NEW p \in Segments(E, K), NEW q \in Segments(E, K),
           NEW i \in (p[1]..p[2]) \cap (q[1]..q[2])
    PROVE  p = q
<1>1. /\ p[1] \in 1..p[2] /\ p[2] \in 1..Len(E) /\ q[1] \in 1..q[2] /\ q[2] \in 1..Len(E)
      /\ p[2] \in K \/ p[2] = Len(E)
      /\ q[2] \in K \/ q[2] = Len(E)
      /\ \A j \in K : j < p[1] \/ p[2] <= j
      /\ \A j \in K : j < q[1] \/ q[2] <= j
  BY SegmentEnds
<1>2. p[1] = q[1]
  <2>1. ~ (p[1] < q[1]) BY <1>1, SegmentsApart
  <2>2. ~ (q[1] < p[1]) BY <1>1, SegmentsApart
  <2> QED BY <1>1, <2>1, <2>2
<1>3. p[2] = q[2]
  <2>1. ~ (p[2] < q[2]) BY <1>1, <1>2
  <2>2. ~ (q[2] < p[2]) BY <1>1, <1>2
  <2> QED BY <1>1, <2>1, <2>2
<1>4. p = <<p[1], p[2]>> /\ q = <<q[1], q[2]>> BY DEF Segments
<1> QED BY <1>2, <1>3, <1>4

\* As long as a segment is small and there is a cut, mergeSmallBatches takes one away.
LEMMA AbsorbedIsFewer ==
    ASSUME NEW E, Len(E) \in Nat, NEW K \in SUBSET Inner(E), K # {}, Small(E, K) # {}
    PROVE  \E i \in K : Absorbed(E, K) = K \ {i}
<1> DEFINE firsts == {s[1] : s \in Small(E, K)}
           s == CHOOSE s \in Small(E, K) : \A q \in Small(E, K) : s[1] <= q[1]
           right == s[2] # Len(E) /\ (s[1] = 1 \/ Weight(E, s[2]) < Weight(E, s[1] - 1))
           i == IF right THEN s[2] ELSE s[1] - 1
<1>1. \A q \in Small(E, K) : q \in Segments(E, K) BY DEF Small
<1>2. firsts \in SUBSET Nat /\ firsts # {}
  <2>1. PICK q \in Small(E, K) : TRUE OBVIOUS
  <2>2. q[1] \in firsts OBVIOUS
  <2>3. \A z \in Small(E, K) : z[1] \in Nat BY <1>1, SegmentEnds
  <2> QED BY <2>2, <2>3
<1>3. \E z \in Small(E, K) : \A q \in Small(E, K) : z[1] <= q[1]
  <2>1. FirstOf(firsts) \in firsts /\ \A y \in firsts : FirstOf(firsts) <= y
    <3> HIDE DEF firsts
    <3> QED BY <1>2, HasLeast
  <2> QED BY <2>1
<1>4. s \in Small(E, K) BY <1>3
<1>5. Absorbed(E, K) = K \ {i} BY DEF Absorbed
<1> HIDE DEF s
<1>6. /\ s[1] \in 1..s[2] /\ s[2] \in 1..Len(E)
      /\ s[1] = 1 \/ s[1] - 1 \in K
      /\ s[2] \in K \/ s[2] = Len(E)
      /\ \A j \in K : j < s[1] \/ s[2] <= j
  BY <1>1, <1>4, SegmentEnds
<1>7. ~ (s[1] = 1 /\ s[2] = Len(E))
  <2>1. PICK j \in K : TRUE OBVIOUS
  <2>2. j \in 1..Len(E) - 1 BY DEF Inner
  <2> QED BY <1>6, <2>2
<1>8. i \in K BY <1>6, <1>7
<1> QED BY <1>5, <1>8

-----------------------------------------------------------------------------
(* mergeSmallBatches comes to an end.  Where a chain of mergers settles    *)
(* is a function of where it begins, so there is a function merge as the   *)
(* definition of Merged asks for; the least set of cuts on which it would  *)
(* not settle, or would leave the set, would have a lesser one.            *)

Settled(E, K) == K = {} \/ Small(E, K) = {}

Chain(E, K, n, c) ==
    /\ c \in [0..n -> SUBSET Cuts(E)] /\ c[0] = K /\ Settled(E, c[n])
    /\ \A i \in 0..(n - 1) : ~Settled(E, c[i]) /\ c[i + 1] = Absorbed(E, c[i])

Ends(E, K) == {L \in SUBSET Cuts(E) : \E n \in Nat : \E c : Chain(E, K, n, c) /\ c[n] = L}

LEMMA EndsOfSettled ==
    ASSUME NEW E, NEW K \in SUBSET Cuts(E), Settled(E, K)
    PROVE  Ends(E, K) = {K}
<1>1. K \in Ends(E, K)
  <2> DEFINE c == [i \in 0..0 |-> K]
  <2>1. Chain(E, K, 0, c) /\ c[0] = K BY DEF Chain
  <2> QED BY <2>1 DEF Ends
<1>2. ASSUME NEW L \in Ends(E, K) PROVE L = K
  <2>0. PICK n \in Nat : \E c : Chain(E, K, n, c) /\ c[n] = L BY DEF Ends
  <2>1. PICK c : Chain(E, K, n, c) /\ c[n] = L BY <2>0
  <2>2. CASE n = 0 BY <2>1, <2>2 DEF Chain
  <2>3. CASE n # 0
    <3>1. 0 \in 0..(n - 1) BY <2>3
    <3> QED BY <2>1, <3>1 DEF Chain
  <2> QED BY <2>2, <2>3
<1> QED BY <1>1, <1>2

LEMMA EndsOfUnsettled ==
    ASSUME NEW E, NEW K \in SUBSET Cuts(E), ~Settled(E, K)
    PROVE  Ends(E, K) = Ends(E, Absorbed(E, K))
<1> DEFINE A == Absorbed(E, K)
<1>1. ASSUME NEW L \in Ends(E, K) PROVE L \in Ends(E, A)
  <2>0. PICK n \in Nat : \E c : Chain(E, K, n, c) /\ c[n] = L BY DEF Ends
  <2>1. PICK c : Chain(E, K, n, c) /\ c[n] = L BY <2>0
  <2> DEFINE d == [i \in 0..(n - 1) |-> c[i + 1]]
  <2>2. n # 0 BY <2>1 DEF Chain
  <2>3. n - 1 \in Nat /\ 0 \in 0..(n - 1) BY <2>2
  <2>4. /\ c \in [0..n -> SUBSET Cuts(E)] /\ c[0] = K /\ Settled(E, c[n])
        /\ \A i \in 0..(n - 1) : ~Settled(E, c[i]) /\ c[i + 1] = Absorbed(E, c[i])
    BY <2>1 DEF Chain
  <2>5. d \in [0..(n - 1) -> SUBSET Cuts(E)] BY <2>4
  <2>6. d[0] = A BY <2>3, <2>4
  <2>7. d[n - 1] = c[n] BY <2>3
  <2>8. ASSUME NEW i \in 0..(n - 2)
        PROVE  ~Settled(E, d[i]) /\ d[i + 1] = Absorbed(E, d[i])
    <3>1. i + 1 \in 0..(n - 1) /\ i \in 0..(n - 1) BY <2>3
    <3>2. d[i] = c[i + 1] /\ d[i + 1] = c[i + 1 + 1] BY <3>1
    <3> QED BY <2>4, <3>1, <3>2
  <2>9. Chain(E, A, n - 1, d)
    <3>1. n - 1 - 1 = n - 2 OBVIOUS
    <3> HIDE DEF d, A
    <3> QED BY <2>4, <2>5, <2>6, <2>7, <2>8, <3>1 DEF Chain
  <2> HIDE DEF d, A
  <2> QED BY <2>1, <2>3, <2>7, <2>9 DEF Ends
<1>2. ASSUME NEW L \in Ends(E, A) PROVE L \in Ends(E, K)
  <2>0. PICK n \in Nat : \E c : Chain(E, A, n, c) /\ c[n] = L BY DEF Ends
  <2>1. PICK c : Chain(E, A, n, c) /\ c[n] = L BY <2>0
  <2> DEFINE d == [i \in 0..(n + 1) |-> IF i = 0 THEN K ELSE c[i - 1]]
  <2>2. /\ c \in [0..n -> SUBSET Cuts(E)] /\ c[0] = A /\ Settled(E, c[n])
        /\ \A i \in 0..(n - 1) : ~Settled(E, c[i]) /\ c[i + 1] = Absorbed(E, c[i])
    BY <2>1 DEF Chain
  <2>3. d \in [0..(n + 1) -> SUBSET Cuts(E)] BY <2>2
  <2>4. d[0] = K /\ d[n + 1] = c[n] /\ d[1] = c[0] OBVIOUS
  <2>5. ASSUME NEW i \in 0..n PROVE ~Settled(E, d[i]) /\ d[i + 1] = Absorbed(E, d[i])
    <3>1. CASE i = 0 BY <2>2, <2>4, <3>1
    <3>2. CASE i # 0
      <4>1. i - 1 \in 0..(n - 1) BY <3>2
      <4>2. d[i] = c[i - 1] /\ d[i + 1] = c[i - 1 + 1] BY <3>2
      <4> QED BY <2>2, <4>1, <4>2
    <3> QED BY <3>1, <3>2
  <2>6. Chain(E, K, n + 1, d)
    <3>1. n + 1 - 1 = n OBVIOUS
    <3> HIDE DEF d
    <3> QED BY <2>2, <2>3, <2>4, <2>5, <3>1 DEF Chain
  <2>7. n + 1 \in Nat OBVIOUS
  <2> HIDE DEF d
  <2> QED BY <2>1, <2>4, <2>6, <2>7 DEF Ends
<1> QED BY <1>1, <1>2

LEMMA AbsorbedStays ==
    ASSUME NEW E, NEW K \in SUBSET Cuts(E)
    PROVE  Absorbed(E, K) \in SUBSET Cuts(E)
BY DEF Absorbed

\* The function merge is there, and Merged is its value for the cuts of the session.
LEMMA MergeIsThere ==
    ASSUME NEW E
    PROVE  \E f : /\ f = [K \in SUBSET Cuts(E) |->
                             IF K = {} \/ Small(E, K) = {} THEN K ELSE f[Absorbed(E, K)]]
                  /\ Merged(E) = f[Cuts(E)]
<1> DEFINE f == [K \in SUBSET Cuts(E) |-> CHOOSE L : L \in Ends(E, K)]
<1>1. ASSUME NEW K \in SUBSET Cuts(E)
      PROVE  f[K] = IF K = {} \/ Small(E, K) = {} THEN K ELSE f[Absorbed(E, K)]
  <2>1. CASE Settled(E, K)
    <3>1. f[K] = CHOOSE L : L \in {K} BY <2>1, EndsOfSettled
    <3>2. (CHOOSE L : L \in {K}) = K OBVIOUS
    <3> QED BY <2>1, <3>1, <3>2 DEF Settled
  <2>2. CASE ~Settled(E, K)
    <3>1. Ends(E, K) = Ends(E, Absorbed(E, K)) BY <2>2, EndsOfUnsettled
    <3>2. Absorbed(E, K) \in SUBSET Cuts(E) BY AbsorbedStays
    <3>3. f[K] = f[Absorbed(E, K)] BY <3>1, <3>2
    <3> QED BY <2>2, <3>3 DEF Settled
  <2> QED BY <2>1, <2>2
<1>2. f = [K \in SUBSET Cuts(E) |-> f[K]] OBVIOUS
<1>3. f = [K \in SUBSET Cuts(E) |-> IF K = {} \/ Small(E, K) = {} THEN K ELSE f[Absorbed(E, K)]]
  <2> HIDE DEF f
  <2> QED BY <1>1, <1>2
<1>4. \E g : g = [K \in SUBSET Cuts(E) |-> IF K = {} \/ Small(E, K) = {} THEN K ELSE g[Absorbed(E, K)]]
  <2> HIDE DEF f
  <2> QED BY <1>3
<1> DEFINE g == CHOOSE g : g = [K \in SUBSET Cuts(E) |->
                                  IF K = {} \/ Small(E, K) = {} THEN K ELSE g[Absorbed(E, K)]]
<1>5. g = [K \in SUBSET Cuts(E) |-> IF K = {} \/ Small(E, K) = {} THEN K ELSE g[Absorbed(E, K)]]
  BY <1>4
<1>6. Merged(E) = g[Cuts(E)] BY DEF Merged
<1> HIDE DEF g
<1> QED BY <1>5, <1>6

\* Merging ends, within the cuts it began with: with no cut left, or with no segment that is small.
THEOREM MergingSettles ==
    ASSUME NEW E, Len(E) \in Nat
    PROVE  Merged(E) \subseteq Cuts(E) /\ (Merged(E) = {} \/ Small(E, Merged(E)) = {})
<1>1. PICK f : /\ f = [K \in SUBSET Cuts(E) |->
                          IF K = {} \/ Small(E, K) = {} THEN K ELSE f[Absorbed(E, K)]]
               /\ Merged(E) = f[Cuts(E)]
  BY MergeIsThere
<1>2. Cuts(E) \in SUBSET Inner(E) /\ IsFiniteSet(Cuts(E))
  <2>1. Cuts(E) \in SUBSET Inner(E) BY DEF Cuts, Inner
  <2>2. IsFiniteSet(Inner(E)) BY FS_Interval DEF Inner
  <2> QED BY <2>1, <2>2, FS_Subset
<1> DEFINE Good(K) == f[K] \subseteq K /\ Settled(E, f[K])
           Bad == {K \in SUBSET Cuts(E) : ~Good(K)}
           Sizes == {Cardinality(K) : K \in Bad}
<1>3. \A K \in SUBSET Cuts(E) : IsFiniteSet(K) /\ Cardinality(K) \in Nat
  BY <1>2, FS_Subset, FS_CardinalityType
<1>4. ASSUME Bad # {} PROVE FALSE
  <2>1. FirstOf(Sizes) \in Sizes /\ \A n \in Sizes : FirstOf(Sizes) <= n
    <3>1. PICK K \in Bad : TRUE BY <1>4
    <3>2. Cardinality(K) \in Sizes OBVIOUS
    <3>3. Sizes \in SUBSET Nat
      <4> HIDE DEF Good
      <4> QED BY <1>3
    <3> HIDE DEF Sizes
    <3> QED BY <3>2, <3>3, HasLeast
  <2>2. PICK K \in Bad : \A L \in Bad : Cardinality(K) <= Cardinality(L)
    <3> HIDE DEF Bad
    <3> QED BY <2>1
  <2>3. K \in SUBSET Cuts(E) /\ K \in SUBSET Inner(E) /\ ~Good(K) BY <1>2
  <2>4. ~Settled(E, K)
    <3> SUFFICES ASSUME Settled(E, K) PROVE FALSE OBVIOUS
    <3>1. f[K] = K BY <1>1, <2>3 DEF Settled
    <3> QED BY <2>3, <3>1
  <2>5. PICK i \in K : Absorbed(E, K) = K \ {i}
    BY <2>3, <2>4, AbsorbedIsFewer DEF Settled
  <2>6. f[K] = f[K \ {i}] BY <1>1, <2>3, <2>4, <2>5 DEF Settled
  <2>7. K \ {i} \in SUBSET Cuts(E) /\ Cardinality(K \ {i}) = Cardinality(K) - 1 /\ Cardinality(K) \in Nat
    BY <1>3, <2>3, FS_RemoveElement
  <2>8. K \ {i} \notin Bad
    <3> HIDE DEF Bad
    <3>1. Cardinality(K \ {i}) < Cardinality(K) BY <2>7
    <3> QED BY <2>2, <2>7, <3>1
  <2>9. Good(K \ {i}) BY <2>7, <2>8
  <2> QED BY <2>3, <2>6, <2>9
<1>5. Good(Cuts(E)) BY <1>4
<1> QED BY <1>1, <1>5 DEF Settled

-----------------------------------------------------------------------------
(* The spans of one session.                                               *)

\* Events as they stand in a log.
Stamped(e, t, u) == [e EXCEPT !.at = t, !.uuid = u]
Logged == {Stamped(e, t, u) : e \in EventKinds, t \in Nat, u \in Nat}

LEMMA LoggedTypes == \A x \in Logged : x.at \in Nat /\ x.uuid \in Nat
<1>1. ASSUME NEW e \in EventKinds, NEW t \in Nat, NEW u \in Nat
      PROVE  Stamped(e, t, u).at = t /\ Stamped(e, t, u).uuid = u
  <2>1. "at" \in DOMAIN e /\ "uuid" \in DOMAIN e OBVIOUS
  <2> QED BY <2>1 DEF Stamped
<1>2. ASSUME NEW x \in Logged PROVE x.at \in Nat /\ x.uuid \in Nat
  <2>1. PICK e \in EventKinds, t \in Nat, u \in Nat : x = Stamped(e, t, u)
    BY DEF Logged
  <2> QED BY <2>1, <1>1
<1> QED BY <1>2

\* Events of a log in order, all at moments of their own.
Session(E) ==
    /\ E \in Seq(Logged)
    /\ \A i, j \in 1..Len(E) : i < j => E[i].at < E[j].at

\* The segments that make spans.
Spanning(E) == {q \in Segments(E, Merged(E)) : Persisted(E, q) # {}}

LEMMA SpanningIsApart ==
    ASSUME NEW E \in Seq(Logged)
    PROVE  /\ \A p, q \in Spanning(E) : p[1] < q[1] => p[2] < q[1]
           /\ \A p, q \in Spanning(E), i \in 1..Len(E) : i \in p[1]..p[2] /\ i \in q[1]..q[2] => p = q
<1>1. Len(E) \in Nat /\ Merged(E) \in SUBSET Inner(E)
  BY MergingSettles DEF Cuts, Inner
<1>2. \A p \in Spanning(E) : p \in Segments(E, Merged(E)) BY DEF Spanning
<1> QED BY <1>1, <1>2, SegmentsApart, SameSegment

LEMMA SpanningEnds ==
    ASSUME NEW E \in Seq(Logged), NEW s \in Spanning(E)
    PROVE  LET P == Persisted(E, s) IN
           /\ s[1] \in 1..s[2] /\ s[2] \in 1..Len(E) /\ Len(E) \in Nat
           /\ P \subseteq s[1]..s[2]
           /\ FirstOf(P) \in P /\ LastOf(P) \in P
           /\ FirstOf(P) <= LastOf(P)
<1> DEFINE P == Persisted(E, s)
<1>1. Len(E) \in Nat /\ Merged(E) \in SUBSET Inner(E)
  BY MergingSettles DEF Cuts, Inner
<1>2. s \in Segments(E, Merged(E)) /\ P # {} BY DEF Spanning
<1>3. s[1] \in 1..s[2] /\ s[2] \in 1..Len(E) BY <1>1, <1>2, SegmentEnds
<1>4. P \subseteq s[1]..s[2] BY DEF Persisted
<1> HIDE DEF P
<1>5. P \in SUBSET Nat /\ P \in SUBSET (0..s[2]) /\ s[2] \in Nat BY <1>1, <1>3, <1>4
<1>6. FirstOf(P) \in P /\ \A y \in P : FirstOf(P) <= y BY <1>2, <1>5, HasLeast
<1>7. LastOf(P) \in P BY <1>2, <1>5, HasGreatest
<1> QED BY <1>1, <1>3, <1>4, <1>6, <1>7 DEF P

\* What the events of a session that get a row are called.
Kept(E) == {E[i].uuid : i \in {k \in 1..Len(E) : Persistable(E[k])}}

\* A span runs from one of its events to another, and claims such events.
LEMMA SpanTypes ==
    ASSUME NEW E, Session(E), NEW s \in Spanning(E)
    PROVE  LET c == ComputedSpan(E, s) IN
           /\ c.start \in Nat /\ c.end \in Nat /\ c.start <= c.end
           /\ c.events \subseteq Kept(E)
           /\ \E i, j \in s[1]..s[2] : c.start = E[i].at /\ c.end = E[j].at
<1> DEFINE P == Persisted(E, s)
           c == ComputedSpan(E, s)
           a == FirstOf(P)
           b == LastOf(P)
<1>1. /\ s[1] \in 1..s[2] /\ s[2] \in 1..Len(E) /\ Len(E) \in Nat
      /\ P \subseteq s[1]..s[2] /\ a \in P /\ b \in P /\ a <= b
  BY SpanningEnds DEF Session
<1>2. c.start = E[a].at /\ c.end = E[b].at /\ c.events = {E[i].uuid : i \in P}
  BY DEF ComputedSpan
<1>9. \A k \in P : Persistable(E[k]) BY DEF Persisted
<1> HIDE DEF P, c, a, b
<1>3. a \in 1..Len(E) /\ b \in 1..Len(E) /\ a \in s[1]..s[2] /\ b \in s[1]..s[2]
  BY <1>1
<1>4. E[a] \in Logged /\ E[b] \in Logged BY <1>3 DEF Session
<1>5. E[a].at \in Nat /\ E[b].at \in Nat BY <1>4, LoggedTypes
<1>6. E[a].at <= E[b].at BY <1>1, <1>3, <1>5 DEF Session
<1>7. P \subseteq 1..Len(E) BY <1>1
<1>8. c.events \subseteq Kept(E) BY <1>2, <1>7, <1>9 DEF Kept
<1> QED BY <1>2, <1>3, <1>5, <1>6, <1>8 DEF c

\* No two spans of a session start together, and one is over before the next begins.
LEMMA SpansApart ==
    ASSUME NEW E, Session(E), NEW p \in Spanning(E), NEW q \in Spanning(E)
    PROVE  /\ ComputedSpan(E, p).start = ComputedSpan(E, q).start => p = q
           /\ ComputedSpan(E, p).start < ComputedSpan(E, q).start
                 => ComputedSpan(E, p).end < ComputedSpan(E, q).start
<1> DEFINE c == ComputedSpan(E, p)
           d == ComputedSpan(E, q)
<1>1. PICK a \in p[1]..p[2], b \in p[1]..p[2] : c.start = E[a].at /\ c.end = E[b].at
  BY SpanTypes
<1>2. PICK i \in q[1]..q[2] : d.start = E[i].at
  BY SpanTypes
<1>3. /\ p[1] \in 1..p[2] /\ p[2] \in 1..Len(E) /\ q[1] \in 1..q[2] /\ q[2] \in 1..Len(E)
      /\ Len(E) \in Nat
  BY SpanningEnds DEF Session
<1>4. /\ p[1] < q[1] => p[2] < q[1]
      /\ q[1] < p[1] => q[2] < p[1]
      /\ \A k \in 1..Len(E) : k \in p[1]..p[2] /\ k \in q[1]..q[2] => p = q
  BY SpanningIsApart DEF Session
<1> HIDE DEF c, d
<1>5. a \in 1..Len(E) /\ b \in 1..Len(E) /\ i \in 1..Len(E) BY <1>3
<1>6. /\ \A j, k \in 1..Len(E) : j < k => E[j].at < E[k].at
      /\ \A k \in 1..Len(E) : E[k].at \in Nat
  BY LoggedTypes DEF Session
<1>7. ASSUME c.start = d.start PROVE p = q
  <2>1. E[a].at = E[i].at BY <1>1, <1>2, <1>7
  <2>2. a = i BY <2>1, <1>5, <1>6
  <2> QED BY <2>2, <1>4, <1>5
<1>8. ASSUME c.start < d.start PROVE c.end < d.start
  <2>1. E[a].at < E[i].at BY <1>1, <1>2, <1>8
  <2>2. a < i BY <2>1, <1>5, <1>6
  <2>3. p # q
    <3> SUFFICES ASSUME p = q PROVE FALSE OBVIOUS
    <3>1. c = d BY DEF c, d
    <3>2. c.start \in Nat BY <1>1, <1>5, <1>6
    <3> QED BY <3>1, <3>2, <1>8
  <2>4. p[2] < q[1]
    <3>1. ~ (q[1] < p[1]) BY <1>3, <1>4, <2>2
    <3>2. p[1] # q[1]
      <4> SUFFICES ASSUME p[1] = q[1] PROVE FALSE OBVIOUS
      <4>1. p[1] \in p[1]..p[2] /\ p[1] \in q[1]..q[2] /\ p[1] \in 1..Len(E) BY <1>3
      <4> QED BY <4>1, <1>4, <2>3
    <3> QED BY <1>3, <1>4, <3>1, <3>2
  <2>5. b < i BY <1>3, <2>4
  <2> QED BY <1>1, <1>2, <1>5, <1>6, <2>5
<1> QED BY <1>7, <1>8 DEF c, d

\* The finalised spans: finitely many, over by now, each of events of the session and apart from the others.
LEMMA ComputedFacts ==
    ASSUME NEW E, Session(E), NEW now \in Nat
    PROVE  LET S == ComputedSpans(E, now) IN
           /\ IsFiniteSet(S)
           /\ \A c \in S : /\ c.start \in Nat /\ c.end \in Nat /\ c.start <= c.end /\ c.end <= now
                           /\ c.events \subseteq Kept(E)
           /\ \A c, d \in S : /\ c.start = d.start => c = d
                              /\ c.start < d.start => c.end < d.start
<1> DEFINE S == ComputedSpans(E, now)
           f == [s \in Spanning(E) |-> ComputedSpan(E, s)]
<1>1. S \in SUBSET Range(f)
  <2>1. Range(f) = {ComputedSpan(E, s) : s \in Spanning(E)} BY DEF Range
  <2>2. S \in SUBSET {ComputedSpan(E, s) : s \in Spanning(E)} BY DEF ComputedSpans, Spanning
  <2> QED BY <2>1, <2>2
<1>2. IsFiniteSet(Spanning(E))
  <2>1. Len(E) \in Nat BY DEF Session
  <2>2. IsFiniteSet((1..Len(E)) \X (1..Len(E)))
    <3>1. IsFiniteSet(1..Len(E)) BY <2>1, FS_Interval
    <3> QED BY <3>1, FS_Product
  <2>3. ASSUME NEW s \in Spanning(E) PROVE s \in (1..Len(E)) \X (1..Len(E))
    <3>1. s[1] \in 1..s[2] /\ s[2] \in 1..Len(E) BY SpanningEnds DEF Session
    <3>2. s = <<s[1], s[2]>> BY DEF Spanning, Segments
    <3>3. s[1] \in 1..Len(E) BY <2>1, <3>1
    <3> QED BY <3>1, <3>2, <3>3
  <2> QED BY <2>2, <2>3, FS_Subset
<1>3. IsFiniteSet(S)
  <2>1. DOMAIN f = Spanning(E) /\ f \in [Spanning(E) -> Range(f)] BY DEF Range
  <2> HIDE DEF f, S
  <2>2. IsFiniteSet(Range(f)) BY <1>2, <2>1, ImageFinite
  <2> QED BY <1>1, <2>2, FS_Subset
<1>4. ASSUME NEW c \in S PROVE \E s \in Spanning(E) : c = ComputedSpan(E, s)
  <2>1. c \in Range(f) BY <1>1
  <2> QED BY <2>1 DEF Range
<1>5. \A c \in S : c.end <= now - HardBreak BY DEF ComputedSpans
<1> HIDE DEF S, f
<1>6. ASSUME NEW c \in S
      PROVE  /\ c.start \in Nat /\ c.end \in Nat /\ c.start <= c.end /\ c.end <= now
             /\ c.events \subseteq Kept(E)
  <2>1. PICK s \in Spanning(E) : c = ComputedSpan(E, s) BY <1>4
  <2>2. /\ c.start \in Nat /\ c.end \in Nat /\ c.start <= c.end
        /\ c.events \subseteq Kept(E)
    BY <2>1, SpanTypes
  <2>3. c.end <= now BY <1>5, <2>2 DEF HardBreak
  <2> QED BY <2>2, <2>3
<1>7. ASSUME NEW c \in S, NEW d \in S
      PROVE  /\ c.start = d.start => c = d
             /\ c.start < d.start => c.end < d.start
  <2>1. PICK p \in Spanning(E) : c = ComputedSpan(E, p) BY <1>4
  <2>2. PICK q \in Spanning(E) : d = ComputedSpan(E, q) BY <1>4
  <2> QED BY <2>1, <2>2, SpansApart
<1> QED BY <1>3, <1>6, <1>7 DEF S

\* The window of a span reaches past its end, by LinkEps at most, and not past the next span's start.
LEMMA EffectiveEnds ==
    ASSUME NEW S, NEW c \in S,
           \A d \in S : d.start \in Nat /\ d.end \in Nat /\ d.start <= d.end,
           \A d \in S : c.start < d.start => c.end < d.start
    PROVE  /\ EffectiveEnd(S, c) \in c.end .. c.end + LinkEps
           /\ \A d \in S : c.start < d.start => EffectiveEnd(S, c) <= d.start
<1> DEFINE next == {n.start : n \in S} \cap (c.start + 1 .. c.end + LinkEps)
           e == EffectiveEnd(S, c)
<1>1. c.start \in Nat /\ c.end \in Nat /\ c.end + LinkEps \in Nat BY DEF LinkEps
<1>2. ASSUME NEW x \in next PROVE c.end < x /\ x <= c.end + LinkEps /\ x \in Nat
  <2>1. PICK n \in S : x = n.start /\ x \in c.start + 1 .. c.end + LinkEps OBVIOUS
  <2>2. c.start < n.start BY <1>1, <2>1
  <2> QED BY <1>1, <2>1, <2>2
<1>3. \A d \in S : c.start < d.start /\ d.start <= c.end + LinkEps => d.start \in next
  BY <1>1
<1>4. CASE next = {}
  <2>1. e = c.end + LinkEps BY <1>4 DEF EffectiveEnd
  <2> HIDE DEF e, next
  <2>2. \A d \in S : c.start < d.start => e <= d.start BY <1>1, <1>3, <1>4, <2>1
  <2>3. e \in c.end .. c.end + LinkEps BY <1>1, <2>1 DEF LinkEps
  <2> QED BY <2>2, <2>3 DEF e
<1>5. CASE next # {}
  <2>1. e = FirstOf(next) BY <1>5 DEF EffectiveEnd
  <2> HIDE DEF e, next
  <2>2. next \in SUBSET Nat BY <1>2
  <2>3. e \in next /\ \A x \in next : e <= x BY <1>5, <2>1, <2>2, HasLeast
  <2>4. e \in c.end .. c.end + LinkEps BY <1>1, <1>2, <2>3
  <2>5. ASSUME NEW d \in S, c.start < d.start PROVE e <= d.start
    <3>1. CASE d.start <= c.end + LinkEps BY <1>3, <2>3, <2>5, <3>1
    <3>2. CASE ~ (d.start <= c.end + LinkEps) BY <1>1, <2>4, <3>2
    <3> QED BY <3>1, <3>2
  <2> QED BY <2>4, <2>5 DEF e
<1> QED BY <1>4, <1>5

-----------------------------------------------------------------------------
(* What becomes of each event.                                             *)

\* Wherever the cuts are, every event is in a segment.
LEMMA HasSegment ==
    ASSUME NEW E, Len(E) \in Nat, NEW K \in SUBSET Inner(E), NEW i \in 1..Len(E)
    PROVE  \E s \in Segments(E, K) : i \in s[1]..s[2]
<1> DEFINE B == {k \in K : k < i}
           A == {k \in K \cup {Len(E)} : i <= k}
           a == IF B = {} THEN 1 ELSE LastOf(B) + 1
           b == FirstOf(A)
<1>1. K \subseteq 1..Len(E) BY DEF Inner
<1>2. B \in SUBSET (0..Len(E)) /\ A \in SUBSET Nat /\ A # {}
  <2>1. Len(E) \in A OBVIOUS
  <2>2. A \subseteq 1..Len(E) \cup {Len(E)} BY <1>1
  <2>3. B \subseteq 1..Len(E) BY <1>1
  <2> QED BY <2>1, <2>2, <2>3
<1>3. b \in A /\ \A y \in A : b <= y
  <2> HIDE DEF A
  <2> QED BY <1>2, HasLeast
<1>4. B # {} => LastOf(B) \in B /\ \A y \in B : y <= LastOf(B)
  <2> HIDE DEF B
  <2> QED BY <1>2, HasGreatest
<1> HIDE DEF a, b
<1>5. /\ a \in {1} \cup {k + 1 : k \in K} /\ a \in 1..i
      /\ \A k \in K : k < a \/ i <= k
  <2>1. CASE B = {} BY <1>1, <2>1 DEF a
  <2>2. CASE B # {}
    <3>1. a = LastOf(B) + 1 BY <2>2 DEF a
    <3>2. LastOf(B) \in K /\ LastOf(B) < i /\ \A k \in K : k < i => k <= LastOf(B)
      BY <1>4, <2>2
    <3> HIDE DEF B
    <3>3. LastOf(B) \in 1..Len(E) BY <1>1, <3>2
    <3> QED BY <1>1, <3>1, <3>2, <3>3
  <2> QED BY <2>1, <2>2
<1>6. b \in K \cup {Len(E)} /\ b \in i..Len(E) /\ \A k \in K : i <= k => b <= k
  BY <1>1, <1>3
<1>7. <<a, b>> \in Segments(E, K)
  <2>1. a <= b BY <1>5, <1>6
  <2>2. \A k \in K : k < a \/ b <= k BY <1>5, <1>6
  <2> QED BY <1>5, <1>6, <2>1, <2>2 DEF Segments
<1> QED BY <1>5, <1>6, <1>7

\* Where the events go, whatever they are, also where some share their moment or their uuid: each that is
\* kept is in the segment of one span; if that span is not over yet, one of its events from there on is of the
\* last HardBreak, so that a session at rest for that long is claimed to its last event; where no event
\* is logged before an earlier one, no span is over before one it comes after; and a span has
\* MinSpanMessages events or is all there is (spans.ts, computeSpans, mergeSmallBatches).
THEOREM EveryEventHasItsSpan ==
    ASSUME NEW E \in Seq(Logged), NEW now \in Nat
    PROVE  LET over(s) == ComputedSpan(E, s).end <= now - HardBreak
               inTime == \A i, j \in 1..Len(E) : i < j => E[i].at <= E[j].at
           IN
           /\ ComputedSpans(E, now) = {ComputedSpan(E, s) : s \in {q \in Spanning(E) : over(q)}}
           /\ \A i \in 1..Len(E) : Persistable(E[i]) =>
                 \E s \in Spanning(E) :
                    /\ i \in s[1]..s[2] /\ E[i].uuid \in ComputedSpan(E, s).events
                    /\ \A t \in Spanning(E) : i \in t[1]..t[2] => t = s
                    /\ over(s) \/ \E j \in i..s[2] : Persistable(E[j]) /\ E[j].at > now - HardBreak
           /\ inTime => \A s, t \in Spanning(E) : s[1] < t[1] /\ over(t) => over(s)
           /\ \A s \in Spanning(E) : \/ Cardinality(Persisted(E, s)) >= MinSpanMessages
                                     \/ Spanning(E) = {s}
<1> DEFINE over(s) == ComputedSpan(E, s).end <= now - HardBreak
           inTime == \A i, j \in 1..Len(E) : i < j => E[i].at <= E[j].at
<1>1. Len(E) \in Nat /\ Merged(E) \in SUBSET Inner(E)
  BY MergingSettles DEF Cuts, Inner
<1>2. ComputedSpans(E, now) = {ComputedSpan(E, s) : s \in {q \in Spanning(E) : over(q)}}
  BY DEF ComputedSpans, Spanning
<1>3. \A k \in 1..Len(E) : E[k].at \in Nat BY LoggedTypes
<1>4. ASSUME NEW s \in Spanning(E)
      PROVE  LET b == LastOf(Persisted(E, s)) IN
             /\ s[1] \in 1..s[2] /\ s[2] \in 1..Len(E)
             /\ b \in s[1]..s[2] /\ b \in 1..Len(E) /\ Persistable(E[b])
             /\ \A i \in s[1]..s[2] : Persistable(E[i]) => i <= b
             /\ ComputedSpan(E, s).end = E[b].at
             /\ \A i \in s[1]..s[2] : Persistable(E[i]) => E[i].uuid \in ComputedSpan(E, s).events
  <2> DEFINE P == Persisted(E, s)
  <2>1. s[1] \in 1..s[2] /\ s[2] \in 1..Len(E) /\ P \subseteq s[1]..s[2] /\ P # {}
    BY SpanningEnds DEF Spanning
  <2>2. \A i : i \in P <=> i \in s[1]..s[2] /\ Persistable(E[i]) BY DEF Persisted
  <2>3. ComputedSpan(E, s).end = E[LastOf(P)].at /\ ComputedSpan(E, s).events = {E[i].uuid : i \in P}
    BY DEF ComputedSpan
  <2> HIDE DEF P
  <2>4. P \in SUBSET (0..s[2]) /\ s[2] \in Nat BY <1>1, <2>1
  <2>5. LastOf(P) \in P /\ \A y \in P : y <= LastOf(P) BY <2>1, <2>4, HasGreatest
  <2>6. P \subseteq 1..Len(E) BY <1>1, <2>1
  <2> QED BY <2>1, <2>2, <2>3, <2>5, <2>6 DEF P
<1>5. ASSUME NEW i \in 1..Len(E), Persistable(E[i])
      PROVE  \E s \in Spanning(E) :
                /\ i \in s[1]..s[2] /\ E[i].uuid \in ComputedSpan(E, s).events
                /\ \A t \in Spanning(E) : i \in t[1]..t[2] => t = s
                /\ over(s) \/ \E j \in i..s[2] : Persistable(E[j]) /\ E[j].at > now - HardBreak
  <2>1. PICK s \in Segments(E, Merged(E)) : i \in s[1]..s[2] BY <1>1, HasSegment
  <2>2. i \in Persisted(E, s) BY <1>5, <2>1 DEF Persisted
  <2>3. s \in Spanning(E) BY <2>1, <2>2 DEF Spanning
  <2>4. \A t \in Spanning(E) : i \in t[1]..t[2] => t = s BY <2>1, <2>3, SpanningIsApart
  <2>5. over(s) \/ \E j \in i..s[2] : Persistable(E[j]) /\ E[j].at > now - HardBreak
    <3>1. PICK b \in s[1]..s[2] : /\ b \in 1..Len(E) /\ Persistable(E[b]) /\ i <= b
                                 /\ ComputedSpan(E, s).end = E[b].at
      BY <1>4, <1>5, <2>1, <2>3
    <3>2. b \in i..s[2] BY <3>1
    <3>3. E[b].at \in Nat BY <1>3, <3>1
    <3> QED BY <3>1, <3>2, <3>3 DEF HardBreak
  <2> QED BY <1>4, <1>5, <2>1, <2>3, <2>4, <2>5
<1>6. ASSUME inTime, NEW s \in Spanning(E), NEW t \in Spanning(E), s[1] < t[1], over(t) PROVE over(s)
  <2>1. PICK a \in s[1]..s[2] : a \in 1..Len(E) /\ ComputedSpan(E, s).end = E[a].at BY <1>4
  <2>2. PICK b \in t[1]..t[2] : b \in 1..Len(E) /\ ComputedSpan(E, t).end = E[b].at BY <1>4
  <2>3. s[2] < t[1] BY <1>6, SpanningIsApart
  <2>4. a < b BY <1>4, <2>1, <2>2, <2>3
  <2>5. E[a].at <= E[b].at BY <1>6, <2>1, <2>2, <2>4
  <2>6. E[a].at \in Nat /\ E[b].at \in Nat BY <1>3, <2>1, <2>2
  <2> QED BY <1>6, <2>1, <2>2, <2>5, <2>6 DEF HardBreak
<1>7. ASSUME NEW s \in Spanning(E)
      PROVE  Cardinality(Persisted(E, s)) >= MinSpanMessages \/ Spanning(E) = {s}
  <2>1. CASE Small(E, Merged(E)) = {}
    <3>1. ~ (Cardinality(Persisted(E, s)) < MinSpanMessages) BY <2>1 DEF Small, Spanning
    <3>2. Cardinality(Persisted(E, s)) \in Nat
      <4>1. IsFiniteSet(1..Len(E)) BY <1>1, FS_Interval
      <4>2. Persisted(E, s) \in SUBSET (1..Len(E))
        <5>1. s[1] \in 1..s[2] /\ s[2] \in 1..Len(E) BY <1>4
        <5>2. s[1]..s[2] \subseteq 1..Len(E) BY <1>1, <5>1
        <5> QED BY <5>2 DEF Persisted
      <4> QED BY <4>1, <4>2, FS_Subset, FS_CardinalityType
    <3> QED BY <3>1, <3>2 DEF MinSpanMessages
  <2>2. CASE Merged(E) = {}
    <3>1. ASSUME NEW t \in Spanning(E) PROVE t = s
      <4>1. s \in Segments(E, {}) /\ t \in Segments(E, {}) BY <2>2 DEF Spanning
      <4> QED BY <4>1 DEF Segments
    <3> QED BY <3>1
  <2> QED BY <1>1, <2>1, <2>2, MergingSettles
<1> QED BY <1>2, <1>5, <1>6, <1>7

\* Once the whole of a session is HardBreak old, each event that is kept is claimed by a finalised span,
\* whatever the order, the moments and the uuids of its events (spans.ts, closeBeforeMs).
THEOREM QuietSessionIsClaimed ==
    ASSUME NEW E \in Seq(Logged), NEW now \in Nat, \A i \in 1..Len(E) : E[i].at + HardBreak <= now
    PROVE  \A i \in 1..Len(E) : Persistable(E[i]) =>
              \E c \in ComputedSpans(E, now) : E[i].uuid \in c.events
<1> SUFFICES ASSUME NEW i \in 1..Len(E), Persistable(E[i])
             PROVE  \E c \in ComputedSpans(E, now) : E[i].uuid \in c.events
  OBVIOUS
<1>1. PICK s \in Spanning(E) :
         /\ E[i].uuid \in ComputedSpan(E, s).events
         /\ \/ ComputedSpan(E, s).end <= now - HardBreak
            \/ \E j \in i..s[2] : Persistable(E[j]) /\ E[j].at > now - HardBreak
  BY EveryEventHasItsSpan
<1>2. ASSUME NEW j \in i..s[2] PROVE ~ (E[j].at > now - HardBreak)
  <2>1. j \in 1..Len(E) BY SpanningEnds
  <2>2. E[j].at \in Nat /\ E[j].at + HardBreak <= now BY <2>1, LoggedTypes
  <2> QED BY <2>2 DEF HardBreak
<1>3. ComputedSpan(E, s).end <= now - HardBreak BY <1>1, <1>2
<1> QED BY <1>1, <1>3, EveryEventHasItsSpan

-----------------------------------------------------------------------------
(* The rows a crawl emits.                                                 *)

SpanRows == [start : Nat, end : Nat, eff : Nat, events : SUBSET Nat]

\* Whatever the session: the rows begin and end within its time, refer to events of it that have rows, start where
\* no span known does and in order, and the window of each is over when the next span begins (spans.ts,
\* computeEffectiveEnd, existingSpanKeys).
THEOREM EmittedApart ==
    ASSUME NEW E, Session(E), NEW now \in Nat, NEW keys
    PROVE  LET R == Emitted(E, now, keys) IN
           /\ R \in Seq(SpanRows)
           /\ \A i \in 1..Len(R) :
                 /\ R[i].start <= R[i].end /\ R[i].end <= now
                 /\ R[i].eff \in R[i].end .. R[i].end + LinkEps
                 /\ R[i].events # {} /\ R[i].events \subseteq Rowed(E)
                 /\ R[i].start \notin keys
           /\ \A i, j \in 1..Len(R) : i < j => R[i].start < R[j].start /\ R[i].eff <= R[j].start
<1> DEFINE S == ComputedSpans(E, now)
           New == {c \in S : c.start \notin keys /\ c.events \cap Rowed(E) # {}}
           T == {SpanRow(E, S, c) : c \in New}
           f == [r \in T |-> r.start]
           R == InOrder(f)
           n == Cardinality(T)
<1>1. /\ IsFiniteSet(S)
      /\ \A c \in S : /\ c.start \in Nat /\ c.end \in Nat /\ c.start <= c.end /\ c.end <= now
                      /\ c.events \subseteq Kept(E)
      /\ \A c, d \in S : /\ c.start = d.start => c = d
                         /\ c.start < d.start => c.end < d.start
  BY ComputedFacts
<1>2. Emitted(E, now, keys) = R BY DEF Emitted, ByStart
<1>3. Rowed(E) \subseteq Nat
  BY LoggedTypes DEF Session, Rowed
<1> HIDE DEF S
<1>4. ASSUME NEW c \in S
      PROVE  /\ EffectiveEnd(S, c) \in c.end .. c.end + LinkEps
             /\ \A d \in S : c.start < d.start => EffectiveEnd(S, c) <= d.start
  BY <1>1, EffectiveEnds
<1>5. ASSUME NEW r \in T
      PROVE  \E c \in S : /\ r.start = c.start /\ r.end = c.end /\ r.events = c.events \cap Rowed(E)
                          /\ r.events # {} /\ r.eff = EffectiveEnd(S, c) /\ r = SpanRow(E, S, c)
                          /\ c.start \notin keys
  <2>1. PICK c \in New : r = SpanRow(E, S, c) OBVIOUS
  <2> QED BY <2>1 DEF SpanRow
<1>6. ASSUME NEW r \in T
      PROVE  /\ r \in SpanRows /\ r.start <= r.end /\ r.end <= now
             /\ r.eff \in r.end .. r.end + LinkEps
             /\ r.events # {} /\ r.events \subseteq Rowed(E)
             /\ r.start \notin keys
  <2>1. PICK c \in S : /\ r.start = c.start /\ r.end = c.end /\ r.events = c.events \cap Rowed(E)
                       /\ r.events # {} /\ r.eff = EffectiveEnd(S, c) /\ r = SpanRow(E, S, c)
                       /\ c.start \notin keys
    BY <1>5
  <2>2. c.start \in Nat /\ c.end \in Nat /\ c.start <= c.end /\ c.end <= now
    BY <1>1
  <2>3. r.events \subseteq Rowed(E) BY <2>1
  <2>4. EffectiveEnd(S, c) \in c.end .. c.end + LinkEps BY <1>4
  <2>5. EffectiveEnd(S, c) \in Nat BY <2>2, <2>4
  <2>6. r \in SpanRows BY <1>3, <2>1, <2>2, <2>3, <2>5 DEF SpanRow, SpanRows
  <2> QED BY <2>1, <2>2, <2>3, <2>4, <2>6
<1>7. \A r, q \in T : /\ r.start = q.start => r = q
                      /\ r.start < q.start => r.eff <= q.start
  <2> SUFFICES ASSUME NEW r \in T, NEW q \in T
               PROVE  /\ r.start = q.start => r = q
                      /\ r.start < q.start => r.eff <= q.start
    OBVIOUS
  <2>1. PICK c \in S : r.start = c.start /\ r.eff = EffectiveEnd(S, c) /\ r = SpanRow(E, S, c)
    BY <1>5
  <2>2. PICK d \in S : q.start = d.start /\ q = SpanRow(E, S, d)
    BY <1>5
  <2>3. r.start = q.start => r = q BY <1>1, <2>1, <2>2
  <2>4. r.start < q.start => r.eff <= q.start BY <1>4, <2>1, <2>2
  <2> QED BY <2>3, <2>4
<1>8. IsFiniteSet(T)
  <2> DEFINE g == [c \in New |-> SpanRow(E, S, c)]
  <2>1. Range(g) = T BY DEF Range
  <2>2. DOMAIN g = New /\ g \in [New -> Range(g)] BY DEF Range
  <2>3. IsFiniteSet(New)
    <3>1. New \in SUBSET S OBVIOUS
    <3> HIDE DEF New
    <3> QED BY <1>1, <3>1, FS_Subset
  <2> HIDE DEF g, New
  <2>4. IsFiniteSet(Range(g)) BY <2>2, <2>3, ImageFinite
  <2> QED BY <2>1, <2>4
<1> HIDE DEF T
<1>9. /\ n \in Nat /\ R \in [1..n -> T]
      /\ \A k, l \in 1..n : k < l => f[R[k]] < f[R[l]]
  <2>1. DOMAIN f = T OBVIOUS
  <2>2. f \in [T -> Nat] BY <1>6 DEF SpanRows
  <2>3. \A x, y \in T : f[x] = f[y] => x = y BY <1>7
  <2> HIDE DEF f
  <2> QED BY <1>8, <2>1, <2>2, <2>3, InOrderSorts
<1>10. Len(R) = n /\ R \in Seq(SpanRows)
  <2>1. \A k \in 1..n : R[k] \in SpanRows BY <1>6, <1>9
  <2> HIDE DEF R, n
  <2>2. R \in [1..n -> SpanRows] BY <1>9, <2>1
  <2> QED BY <1>9, <2>2
<1>11. \A k \in 1..n : R[k] \in T BY <1>9
<1>12. \A k, l \in 1..n : k < l => R[k].start < R[l].start BY <1>9, <1>11
<1> HIDE DEF R, n, f
<1>13. /\ \A i \in 1..n : /\ R[i].start <= R[i].end /\ R[i].end <= now
                          /\ R[i].eff \in R[i].end .. R[i].end + LinkEps
                          /\ R[i].events # {} /\ R[i].events \subseteq Rowed(E)
                          /\ R[i].start \notin keys
       /\ \A i, j \in 1..n : i < j => R[i].start < R[j].start /\ R[i].eff <= R[j].start
  BY <1>6, <1>7, <1>11, <1>12
<1> QED BY <1>2, <1>10, <1>13

-----------------------------------------------------------------------------
(* The invariant of the crawls.                                            *)

Crawls ==
    [step : {"idle", "read", "insert", "bump"}, read : Nat, news : BOOLEAN, now : Nat, keys : SUBSET Nat,
     fresh : SUBSET Nat, emit : Seq(SpanRows), claim : SUBSET Nat, again : BOOLEAN]

\* The log grows in time, and names each event by its place.
LogInv ==
    /\ Session(log) /\ clock \in Nat
    /\ \A i \in 1..Len(log) : log[i].at <= clock /\ log[i].uuid = i

\* Rows of spans lie within the log; those of the batch under way too.
StoreInv ==
    /\ mark \in 0 .. Len(log) /\ crashes \in 0 .. MaxCrashes
    /\ rows \in Seq({"none", "unspanned", "spanned"}) /\ Len(rows) = Len(log)
    /\ spans \in Seq(SpanRows) /\ crawl \in Crawls
    /\ \A i \in 1..Len(spans) : WholeSpan(spans[i])
    /\ \A i \in 1..Len(crawl.emit) : WholeSpan(crawl.emit[i])
    /\ crawl.read \in 0 .. Len(log) /\ crawl.now <= clock
    /\ crawl.fresh \subseteq 1..Len(log) /\ crawl.claim \subseteq 1..Len(log)

Keys == Starts(spans)

\* What the crawl takes for the keys in the store covers them, and its own.
KeysKnown(keys, emit) == Keys \subseteq keys /\ \A i \in 1..Len(emit) : emit[i].start \in keys

\* While the batch waits, its spans are new to the store and apart; once it has landed, what it still
\* has to mark belongs to a stored span.
BatchInv ==
    /\ crawl.step \in {"insert", "bump"} => KeysKnown(crawl.keys, crawl.emit)
    /\ \A i \in 1..Len(crawl.emit) : crawl.emit[i].start \notin Keys
    /\ \A i, j \in 1..Len(crawl.emit) : crawl.emit[i].start = crawl.emit[j].start => i = j
    /\ EventsTaken => \A i \in crawl.claim : \E s \in Range(spans) : i \in s.events

LogsInv == LogInv /\ StoreInv /\ BatchInv /\ SpannedIsClaimed /\ OneSpanPerStart

\* What is emitted from events of the log fits the store.
LEMMA EmitsFit ==
    ASSUME LogInv, NEW E, Session(E), {E[k].uuid : k \in 1..Len(E)} \subseteq 1..Len(log),
           NEW now \in Nat, now <= clock, NEW keys
    PROVE  LET R == Emitted(E, now, keys) IN
           /\ R \in Seq(SpanRows)
           /\ \A i \in 1..Len(R) : WholeSpan(R[i]) /\ R[i].start \notin keys
           /\ \A i, j \in 1..Len(R) : R[i].start = R[j].start => i = j
           /\ \A i \in 1..Len(R) : R[i].events \subseteq Rowed(E)
<1> DEFINE R == Emitted(E, now, keys)
<1>1. /\ R \in Seq(SpanRows)
      /\ \A i \in 1..Len(R) :
            /\ R[i].start <= R[i].end /\ R[i].end <= now
            /\ R[i].eff \in R[i].end .. R[i].end + LinkEps
            /\ R[i].events \subseteq Rowed(E)
            /\ R[i].start \notin keys
      /\ \A i, j \in 1..Len(R) : i < j => R[i].start < R[j].start /\ R[i].eff <= R[j].start
  BY EmittedApart
<1> HIDE DEF R
<1>2. \A i \in 1..Len(R) : R[i].start \in Nat /\ R[i].end \in Nat
  <2>1. \A r \in SpanRows : r.start \in Nat /\ r.end \in Nat BY DEF SpanRows
  <2>2. \A i \in 1..Len(R) : R[i] \in SpanRows BY <1>1
  <2> QED BY <2>1, <2>2
<1>3. DOMAIN log = 1..Len(log) /\ clock \in Nat BY DEF LogInv, Session
<1>6. DOMAIN E = 1..Len(E) BY DEF Session
<1>4. ASSUME NEW i \in 1..Len(R) PROVE WholeSpan(R[i])
  <2>1. R[i].end \in R[i].start .. clock BY <1>1, <1>2, <1>3
  <2>2. R[i].events \subseteq DOMAIN log BY <1>1, <1>3, <1>6 DEF Rowed
  <2> QED BY <1>1, <1>2, <2>1, <2>2 DEF WholeSpan
<1>5. ASSUME NEW i \in 1..Len(R), NEW j \in 1..Len(R), R[i].start = R[j].start PROVE i = j
  <2>1. ~ (i < j) /\ ~ (j < i) BY <1>1, <1>2, <1>5
  <2> QED BY <2>1
<1> QED BY <1>1, <1>4, <1>5 DEF R

\* A part of the log read from its beginning.
LEMMA ReadSession ==
    ASSUME LogInv, NEW n \in 0..Len(log)
    PROVE  LET E == SubSeq(log, 1, n) IN
           Session(E) /\ {E[k].uuid : k \in 1..Len(E)} \subseteq 1..Len(log)
<1> DEFINE E == SubSeq(log, 1, n)
<1>1. log \in Seq(Logged) /\ Len(log) \in Nat BY DEF LogInv, Session
<1>2. E \in Seq(Logged) /\ Len(E) = n /\ \A k \in 1..n : E[k] = log[k]
  BY <1>1
<1> HIDE DEF E
<1>3. 1..n \subseteq 1..Len(log) BY <1>1
<1> QED BY <1>2, <1>3 DEF LogInv, Session, E

\* The events left over make a session, as the ones of the log they come from.
LEMMA LeftOverSession ==
    ASSUME LogInv, Unspanned \subseteq 1..Len(log)
    PROVE  /\ Session(LeftOver)
           /\ {LeftOver[k].uuid : k \in 1..Len(LeftOver)} \subseteq Unspanned
<1> DEFINE L == {log[i] : i \in Unspanned}
           f == [e \in L |-> e.at]
           o == InOrder(f)
           n == Cardinality(L)
<1>1. /\ log \in Seq(Logged) /\ Len(log) \in Nat
      /\ \A i, j \in 1..Len(log) : i < j => log[i].at < log[j].at
      /\ \A i \in 1..Len(log) : log[i].uuid = i /\ log[i] \in Logged /\ log[i].at \in Nat
  BY LoggedTypes DEF LogInv, Session
<1>2. IsFiniteSet(L)
  <2> DEFINE g == [i \in Unspanned |-> log[i]]
  <2>1. Range(g) = L BY DEF Range
  <2>2. DOMAIN g = Unspanned /\ g \in [Unspanned -> Range(g)] BY DEF Range
  <2>3. IsFiniteSet(Unspanned)
    <3>1. IsFiniteSet(1..Len(log)) BY <1>1, FS_Interval
    <3> QED BY <3>1, FS_Subset
  <2> HIDE DEF g
  <2>4. IsFiniteSet(Range(g)) BY <2>2, <2>3, ImageFinite
  <2> QED BY <2>1, <2>4
<1>3. \A x \in L : x \in Logged /\ x.at \in Nat /\ x.uuid \in Unspanned
  BY <1>1
<1>4. \A x, y \in L : x.at = y.at => x = y
  <2> SUFFICES ASSUME NEW i \in 1..Len(log), NEW j \in 1..Len(log), log[i].at = log[j].at PROVE i = j
    OBVIOUS
  <2> QED BY <1>1
<1> HIDE DEF L
<1>5. /\ n \in Nat /\ o \in [1..n -> L]
      /\ \A k, l \in 1..n : k < l => f[o[k]] < f[o[l]]
  <2>1. DOMAIN f = L OBVIOUS
  <2>2. f \in [L -> Nat] BY <1>3
  <2>3. \A x, y \in L : f[x] = f[y] => x = y BY <1>4
  <2> HIDE DEF f
  <2> QED BY <1>2, <2>1, <2>2, <2>3, InOrderSorts
<1>6. LeftOver = o BY DEF LeftOver, L
<1>7. \A k \in 1..n : o[k] \in L BY <1>5
<1>8. \A k, l \in 1..n : k < l => o[k].at < o[l].at BY <1>5, <1>7
<1> HIDE DEF o, n, f
<1>9. o \in Seq(Logged) /\ Len(o) = n
  <2>1. o \in [1..n -> Logged] BY <1>3, <1>5, <1>7
  <2> QED BY <1>5, <2>1
<1>10. Session(o) /\ {o[k].uuid : k \in 1..Len(o)} \subseteq Unspanned
  BY <1>3, <1>7, <1>8, <1>9 DEF Session
<1> QED BY <1>6, <1>10

LEMMA InitLogs == Init => LogsInv
<1> SUFFICES ASSUME Init PROVE LogsInv OBVIOUS
<1>1. <<>> \in Seq(SpanRows) /\ <<>> \in Seq(Logged) /\ <<>> \in Seq({"none", "unspanned", "spanned"})
  OBVIOUS
<1>2. LogInv BY <1>1 DEF Init, LogInv, Session
<1>3. crawl \in Crawls BY <1>1 DEF Init, Idle, Crawls
<1>4. StoreInv BY <1>1, <1>3 DEF Init, Idle, StoreInv
<1>5. BatchInv /\ SpannedIsClaimed /\ OneSpanPerStart
  BY DEF Init, Idle, BatchInv, SpannedIsClaimed, OneSpanPerStart
<1> QED BY <1>2, <1>4, <1>5 DEF LogsInv

\* A step that leaves the log and the spans alone, and marks no event, keeps what the store holds.
LEMMA SameSpans ==
    ASSUME LogsInv, UNCHANGED <<log, clock, spans>>
    PROVE  /\ LogInv' /\ OneSpanPerStart' /\ Keys' = Keys
           /\ \A i \in 1..Len(spans') : WholeSpan(spans[i])'
<1>1. LogInv' BY DEF LogsInv, LogInv, Session
<1>2. OneSpanPerStart' BY DEF LogsInv, OneSpanPerStart
<1>3. \A i \in 1..Len(spans') : WholeSpan(spans[i])'
  BY DEF LogsInv, StoreInv, WholeSpan
<1> QED BY <1>1, <1>2, <1>3 DEF Keys, Starts

LEMMA SayStep ==
    ASSUME LogsInv, NEW e \in EventKinds, NEW gap \in Gaps, Say(e, gap)
    PROVE  LogsInv'
<1> DEFINE at == IF log = <<>> THEN 0 ELSE log[Len(log)].at + gap
           x == Stamped(e, at, Len(log) + 1)
<1>1. /\ log \in Seq(Logged) /\ Len(log) \in Nat /\ clock \in Nat
      /\ \A i, j \in 1..Len(log) : i < j => log[i].at < log[j].at
      /\ \A i \in 1..Len(log) : log[i].at \in Nat /\ log[i].at <= clock /\ log[i].uuid = i
  <2>1. /\ log \in Seq(Logged) /\ clock \in Nat
        /\ \A i, j \in 1..Len(log) : i < j => log[i].at < log[j].at
        /\ \A i \in 1..Len(log) : log[i].at <= clock /\ log[i].uuid = i
    BY DEF LogsInv, LogInv, Session
  <2>2. ASSUME NEW i \in 1..Len(log) PROVE log[i] \in Logged
    BY <2>1
  <2>3. Len(log) \in Nat BY <2>1
  <2> HIDE DEF at, x
  <2> QED BY <2>1, <2>2, <2>3, LoggedTypes
<1>2. clock <= at /\ clock' = at /\ log' = Append(log, x)
  BY DEF Say, Last, Stamped
<1>3. at \in Nat
  <2>1. CASE log = <<>> BY <2>1
  <2>2. CASE log # <<>>
    <3>1. Len(log) \in 1..Len(log) BY <1>1, <2>2
    <3> QED BY <1>1, <2>2, <3>1
  <2> QED BY <2>1, <2>2
<1>4. \A i \in 1..Len(log) : log[i].at < at
  <2> SUFFICES ASSUME NEW i \in 1..Len(log) PROVE log[i].at < at OBVIOUS
  <2>1. at = log[Len(log)].at + gap /\ Len(log) \in 1..Len(log) /\ gap \in Nat \ {0} BY <1>1
  <2>2. log[i].at <= log[Len(log)].at BY <1>1, <2>1
  <2> HIDE DEF at
  <2> QED BY <1>1, <2>1, <2>2
<1>5. x \in Logged /\ x.at = at /\ x.uuid = Len(log) + 1
  <2>1. x \in Logged
    <3>1. Len(log) + 1 \in Nat BY <1>1
    <3> HIDE DEF at
    <3> QED BY <1>3, <3>1 DEF Logged
  <2>2. "at" \in DOMAIN e /\ "uuid" \in DOMAIN e OBVIOUS
  <2> HIDE DEF at
  <2> QED BY <2>1, <2>2 DEF Stamped
<1> HIDE DEF x, at
<1>6. /\ log' \in Seq(Logged) /\ Len(log') = Len(log) + 1
      /\ \A i \in 1..Len(log) : log'[i] = log[i]
      /\ log'[Len(log) + 1] = x
  BY <1>1, <1>2, <1>5
<1>7. LogInv'
  <2>1. \A i \in 1..Len(log') : i \in 1..Len(log) \/ i = Len(log) + 1 BY <1>1, <1>6
  <2>2. \A i, j \in 1..Len(log') : i < j => log'[i].at < log'[j].at
    BY <1>1, <1>4, <1>5, <1>6, <2>1
  <2>3. \A i \in 1..Len(log') : log'[i].at <= clock' /\ log'[i].uuid = i
    BY <1>1, <1>2, <1>3, <1>4, <1>5, <1>6, <2>1
  <2> QED BY <1>2, <1>3, <1>6, <2>2, <2>3 DEF LogInv, Session
<1>8. UNCHANGED <<mark, spans, crawl, crashes>> /\ rows' = Append(rows, "none") BY DEF Say
<1>9. StoreInv'
  <2>1. DOMAIN log \subseteq DOMAIN log' /\ clock <= clock' BY <1>1, <1>2, <1>6
  <2>2. \A s : WholeSpan(s) => WholeSpan(s)'
    <3> SUFFICES ASSUME NEW s, WholeSpan(s) PROVE WholeSpan(s)' OBVIOUS
    <3>1. s.end \in s.start .. clock' BY <1>1, <1>2, <1>3, <2>1 DEF WholeSpan
    <3> QED BY <2>1, <3>1 DEF WholeSpan
  <2>3. rows' \in Seq({"none", "unspanned", "spanned"}) /\ Len(rows') = Len(log')
    BY <1>6, <1>8 DEF LogsInv, StoreInv
  <2>4. \A i \in 1..Len(spans') : WholeSpan(spans[i])' BY <1>8, <2>2 DEF LogsInv, StoreInv
  <2>5. \A i \in 1..Len(crawl'.emit) : WholeSpan(crawl.emit[i])' BY <1>8, <2>2 DEF LogsInv, StoreInv
  <2>6. /\ mark \in 0 .. Len(log) /\ crawl.read \in 0 .. Len(log) /\ crawl.now <= clock
        /\ crawl.fresh \subseteq 1..Len(log) /\ crawl.claim \subseteq 1..Len(log)
        /\ crashes \in 0 .. MaxCrashes /\ spans \in Seq(SpanRows) /\ crawl \in Crawls
    BY DEF LogsInv, StoreInv
  <2>7. crawl.now \in Nat BY <2>6 DEF Crawls
  <2>8. /\ mark' \in 0 .. Len(log') /\ crawl'.read \in 0 .. Len(log') /\ crawl'.now <= clock'
        /\ crawl'.fresh \subseteq 1..Len(log') /\ crawl'.claim \subseteq 1..Len(log')
    <3>1. UNCHANGED <<mark, crawl>> BY <1>8
    <3>2. clock \in Nat /\ clock' \in Nat /\ Len(log) \in Nat /\ Len(log') = Len(log) + 1 BY <1>1, <1>2, <1>3, <1>6
    <3>3. crawl'.now <= clock' BY <2>1, <2>6, <2>7, <3>1, <3>2
    <3>4. 0 .. Len(log) \subseteq 0 .. Len(log') /\ 1 .. Len(log) \subseteq 1 .. Len(log') BY <3>2
    <3> QED BY <2>6, <3>1, <3>3, <3>4
  <2> QED BY <1>8, <2>3, <2>4, <2>5, <2>6, <2>8 DEF StoreInv
<1>10. BatchInv' BY <1>8 DEF LogsInv, BatchInv, KeysKnown, Keys, Starts
<1>11. SpannedIsClaimed'
  <2>1. rows \in Seq({"none", "unspanned", "spanned"}) BY DEF LogsInv, StoreInv
  <2>2. \A i \in DOMAIN rows' : rows'[i] = "spanned" => i \in DOMAIN rows /\ rows[i] = "spanned"
    BY <1>8, <2>1
  <2> QED BY <1>8, <2>2 DEF LogsInv, SpannedIsClaimed
<1>12. OneSpanPerStart' BY <1>8 DEF LogsInv, OneSpanPerStart
<1> QED BY <1>7, <1>9, <1>10, <1>11, <1>12 DEF LogsInv

LEMMA QuietStep == ASSUME LogsInv, Quiet PROVE LogsInv'
<1>1. /\ log # <<>> /\ clock < log[Len(log)].at + HardBreak
      /\ clock' = log[Len(log)].at + HardBreak
      /\ UNCHANGED <<log, mark, rows, spans, crawl, crashes>>
  BY DEF Quiet, Last, store
<1>2. log \in Seq(Logged) /\ clock \in Nat /\ Len(log) \in 1..Len(log)
  BY <1>1 DEF LogsInv, LogInv, Session
<1>3. clock' \in Nat /\ clock <= clock'
  <2>1. log[Len(log)].at \in Nat BY <1>2, LoggedTypes
  <2> QED BY <1>1, <1>2, <2>1 DEF HardBreak
<1>4. LogInv'
  <2>1. \A x \in Logged : x.at \in Nat BY LoggedTypes
  <2>2. \A i \in 1..Len(log) : log[i] \in Logged BY <1>2
  <2>3. \A i \in 1..Len(log) : log[i].at <= clock /\ log[i].uuid = i BY DEF LogsInv, LogInv
  <2>4. \A i \in 1..Len(log') : log'[i].at <= clock' /\ log'[i].uuid = i
    BY <1>1, <1>2, <1>3, <2>1, <2>2, <2>3
  <2> QED BY <1>1, <1>3, <2>4 DEF LogsInv, LogInv, Session
<1>5. StoreInv'
  <2>1. \A s : WholeSpan(s) => WholeSpan(s)'
    <3> SUFFICES ASSUME NEW s, WholeSpan(s) PROVE WholeSpan(s)' OBVIOUS
    <3>1. s.end \in s.start .. clock' BY <1>2, <1>3 DEF WholeSpan
    <3> QED BY <1>1, <3>1 DEF WholeSpan
  <2>2. crawl.now \in Nat /\ crawl.now <= clock BY DEF LogsInv, StoreInv, Crawls
  <2>3. crawl'.now <= clock' BY <1>1, <1>2, <1>3, <2>2
  <2> QED BY <1>1, <2>1, <2>3 DEF LogsInv, StoreInv
<1>6. BatchInv' BY <1>1 DEF LogsInv, BatchInv, KeysKnown, Keys, Starts
<1>7. SpannedIsClaimed' /\ OneSpanPerStart'
  BY <1>1 DEF LogsInv, SpannedIsClaimed, OneSpanPerStart
<1> QED BY <1>4, <1>5, <1>6, <1>7 DEF LogsInv

\* What the parts of the invariant say of the crawl, when the log and the store stay as they are.
LEMMA CrawlMoves ==
    ASSUME LogsInv, UNCHANGED <<log, clock, rows, spans, crashes>>,
           mark' \in 0 .. Len(log), crawl' \in Crawls,
           crawl'.read \in 0 .. Len(log), crawl'.now <= clock, crawl'.fresh \subseteq 1..Len(log),
           crawl'.claim \subseteq crawl.claim,
           \A i \in 1..Len(crawl'.emit) : WholeSpan(crawl'.emit[i]) /\ crawl'.emit[i].start \notin Keys,
           crawl'.step \in {"insert", "bump"} => KeysKnown(crawl'.keys, crawl'.emit),
           \A i, j \in 1..Len(crawl'.emit) : crawl'.emit[i].start = crawl'.emit[j].start => i = j
    PROVE  LogsInv'
<1>1. /\ LogInv' /\ OneSpanPerStart' /\ Keys' = Keys
      /\ \A i \in 1..Len(spans') : WholeSpan(spans[i])'
  BY SameSpans
<1>2. \A i \in 1..Len(crawl'.emit) : WholeSpan(crawl.emit[i])' BY DEF WholeSpan
<1>3. StoreInv' BY <1>1, <1>2 DEF LogsInv, StoreInv
<1>4. BatchInv' BY <1>1 DEF LogsInv, BatchInv, KeysKnown
<1>5. SpannedIsClaimed' BY DEF LogsInv, SpannedIsClaimed
<1> QED BY <1>1, <1>3, <1>4, <1>5 DEF LogsInv

LEMMA IdleFits ==
    /\ Idle \in Crawls /\ Idle.step = "idle" /\ Idle.read = 0 /\ Idle.now = 0 /\ Idle.fresh = {} /\ Idle.claim = {}
    /\ Idle.emit = <<>> /\ Len(Idle.emit) = 0
<1>1. <<>> \in Seq(SpanRows) /\ Len(<<>>) = 0 OBVIOUS
<1> QED BY <1>1 DEF Idle, Crawls

\* Back to idle, from wherever: Fail, Crash, and crawls with nothing to do.
LEMMA ToIdle ==
    ASSUME LogsInv, crawl' = Idle, UNCHANGED <<log, clock, rows, spans>>,
           crashes' \in 0 .. MaxCrashes, mark' \in 0 .. Len(log)
    PROVE  LogsInv'
<1>1. /\ LogInv' /\ OneSpanPerStart' /\ Keys' = Keys
      /\ \A i \in 1..Len(spans') : WholeSpan(spans[i])'
  BY SameSpans
<1>2. Len(log) \in Nat /\ clock \in Nat BY DEF LogsInv, LogInv, Session
<1>3. /\ crawl' \in Crawls /\ Len(crawl'.emit) = 0 /\ crawl'.read \in 0 .. Len(log') /\ crawl'.now <= clock'
      /\ crawl'.fresh \subseteq 1..Len(log') /\ crawl'.claim \subseteq 1..Len(log') /\ crawl'.claim = {}
      /\ crawl'.step = "idle"
  BY <1>2, IdleFits
<1>4. StoreInv' BY <1>1, <1>3 DEF LogsInv, StoreInv
<1>5. BatchInv' BY <1>3 DEF BatchInv
<1>6. SpannedIsClaimed' BY DEF LogsInv, SpannedIsClaimed
<1> QED BY <1>1, <1>4, <1>5, <1>6 DEF LogsInv

LEMMA ScanStep == ASSUME LogsInv, NEW news \in BOOLEAN, Scan(news) PROVE LogsInv'
<1>1. Len(log) \in Nat /\ clock \in Nat BY DEF LogsInv, LogInv, Session
<1>2. PICK n \in {0, Len(log)} :
         crawl' = [Idle EXCEPT !.step = "read", !.news = news, !.read = n]
  BY DEF Scan
<1>3. UNCHANGED <<log, clock, rows, spans, crashes>> /\ mark' \in 0 .. Len(log)
  BY DEF Scan, store, LogsInv, StoreInv
<1>4. /\ crawl' \in Crawls /\ crawl'.read = n /\ crawl'.now = 0 /\ crawl'.fresh = {}
      /\ crawl'.claim = {} /\ Len(crawl'.emit) = 0 /\ crawl'.step = "read"
  <2>1. Idle \in Crawls BY IdleFits
  <2>2. crawl' \in Crawls
    <3>1. n \in Nat /\ <<>> \in Seq(SpanRows) BY <1>1
    <3> QED BY <1>2, <3>1 DEF Idle, Crawls
  <2>3. /\ crawl'.read = n /\ crawl'.now = Idle.now /\ crawl'.fresh = Idle.fresh
        /\ crawl'.claim = Idle.claim /\ crawl'.emit = Idle.emit /\ crawl'.step = "read"
    BY <1>2 DEF Idle
  <2> QED BY <2>2, <2>3, IdleFits
<1> QED BY <1>1, <1>3, <1>4, CrawlMoves

\* The starts of a sequence of rows.
LEMMA StartsOf ==
    ASSUME NEW R \in Seq(SpanRows)
    PROVE  Starts(R) \in SUBSET Nat /\ \A i \in 1..Len(R) : R[i].start \in Starts(R)
<1>1. DOMAIN R = 1..Len(R) /\ \A i \in 1..Len(R) : R[i] \in SpanRows OBVIOUS
<1>2. \A r \in SpanRows : r.start \in Nat BY DEF SpanRows
<1> QED BY <1>1, <1>2 DEF Starts, Range

LEMMA ComputeStep == ASSUME LogsInv, Compute PROVE LogsInv'
<1> DEFINE E == SubSeq(log, 1, crawl.read)
           fresh == Fresh(crawl.read)
           emit == Emitted(E, clock, Starts(spans))
           keys == Starts(spans) \cup Starts(emit)
           inserting == [crawl EXCEPT !.step = "insert", !.now = clock, !.fresh = fresh, !.emit = emit, !.keys = keys]
<1>1. /\ Len(log) \in Nat /\ clock \in Nat /\ crawl \in Crawls /\ spans \in Seq(SpanRows) /\ crawl.read \in 0 .. Len(log)
      /\ mark \in 0 .. Len(log) /\ crashes \in 0 .. MaxCrashes /\ LogInv
  BY DEF LogsInv, LogInv, StoreInv, Session
<1>2. /\ mark' \in 0 .. Len(log) /\ UNCHANGED <<log, clock, rows, spans, crashes>>
      /\ crawl' = Idle \/ crawl' = inserting
  BY <1>1 DEF Compute, Marked, store
<1>3. /\ emit \in Seq(SpanRows)
      /\ \A i \in 1..Len(emit) : WholeSpan(emit[i]) /\ emit[i].start \notin Keys
      /\ \A i, j \in 1..Len(emit) : emit[i].start = emit[j].start => i = j
  <2>1. Session(E) /\ {E[k].uuid : k \in 1..Len(E)} \subseteq 1..Len(log)
    BY <1>1, ReadSession
  <2> HIDE DEF E
  <2> QED BY <1>1, <2>1, EmitsFit DEF Keys
<1>4. fresh \subseteq 1..Len(log) /\ fresh \in SUBSET Nat
  <2>1. fresh \subseteq 1..crawl.read BY DEF Fresh
  <2> QED BY <1>1, <2>1
<1>5. keys \in SUBSET Nat /\ KeysKnown(keys, emit)
  <2> HIDE DEF emit
  <2> QED BY <1>1, <1>3, StartsOf DEF KeysKnown, Keys
<1> HIDE DEF fresh, emit, keys
<1>6. CASE crawl' = Idle BY <1>1, <1>2, <1>6, ToIdle
<1>7. CASE crawl' = inserting
  <2>1. crawl' \in Crawls BY <1>1, <1>3, <1>4, <1>5, <1>7 DEF Crawls
  <2>2. /\ crawl'.emit = emit /\ crawl'.now = clock /\ crawl'.fresh = fresh /\ crawl'.keys = keys
        /\ crawl'.read = crawl.read /\ crawl'.claim = crawl.claim
    BY <1>1, <1>7 DEF Crawls
  <2> QED BY <1>1, <1>2, <1>3, <1>4, <1>5, <2>1, <2>2, CrawlMoves
<1> QED BY <1>2, <1>6, <1>7

LEMMA CatchUpStep == ASSUME LogsInv, CatchUp PROVE LogsInv'
<1> DEFINE emit == Emitted(LeftOver, crawl.now, crawl.keys)
           keys == crawl.keys \cup Starts(emit)
           inserting == [crawl EXCEPT !.step = "insert", !.emit = emit, !.keys = keys, !.again = TRUE]
<1>1. /\ Len(log) \in Nat /\ clock \in Nat /\ crawl \in Crawls /\ crawl.read \in 0 .. Len(log)
      /\ mark \in 0 .. Len(log) /\ crashes \in 0 .. MaxCrashes /\ LogInv
      /\ crawl.now \in Nat /\ crawl.now <= clock /\ crawl.fresh \subseteq 1..Len(log)
      /\ rows \in Seq({"none", "unspanned", "spanned"}) /\ Len(rows) = Len(log)
      /\ crawl.keys \in SUBSET Nat
  BY DEF LogsInv, LogInv, StoreInv, Session, Crawls
<1>2. /\ UNCHANGED <<log, clock, mark, rows, spans, crashes>> /\ crawl.step = "bump"
      /\ crawl' = Idle \/ crawl' = inserting
  BY DEF CatchUp, store
<1>6. Keys \subseteq crawl.keys BY <1>2 DEF LogsInv, BatchInv, KeysKnown
<1>3. /\ emit \in Seq(SpanRows)
      /\ \A i \in 1..Len(emit) : WholeSpan(emit[i]) /\ emit[i].start \notin Keys
      /\ \A i, j \in 1..Len(emit) : emit[i].start = emit[j].start => i = j
  <2>1. Unspanned \subseteq 1..Len(log) BY <1>1 DEF Unspanned
  <2>2. Session(LeftOver) /\ {LeftOver[k].uuid : k \in 1..Len(LeftOver)} \subseteq 1..Len(log)
    BY <1>1, <2>1, LeftOverSession
  <2> QED BY <1>1, <1>6, <2>2, EmitsFit
<1> HIDE DEF emit
<1>7. keys \in SUBSET Nat /\ KeysKnown(keys, emit)
  BY <1>1, <1>3, <1>6, StartsOf DEF KeysKnown
<1> HIDE DEF keys
<1>4. CASE crawl' = Idle BY <1>1, <1>2, <1>4, ToIdle
<1>5. CASE crawl' = inserting
  <2>1. crawl' \in Crawls BY <1>1, <1>3, <1>5, <1>7 DEF Crawls
  <2>2. /\ crawl'.emit = emit /\ crawl'.now = crawl.now /\ crawl'.fresh = crawl.fresh /\ crawl'.keys = keys
        /\ crawl'.read = crawl.read /\ crawl'.claim = crawl.claim
    BY <1>1, <1>5 DEF Crawls
  <2> QED BY <1>1, <1>2, <1>3, <1>7, <2>1, <2>2, CrawlMoves
<1> QED BY <1>2, <1>4, <1>5

\* What lands of a batch is like the batch: the same spans, or none, some without their messages.
LEMMA LandedRows ==
    ASSUME LogsInv, NEW refused
    PROVE  LET R == Landed(refused) IN
           /\ R \in Seq(SpanRows)
           /\ \A i \in 1..Len(R) :
                 /\ i \in 1..Len(crawl.emit) /\ R[i].start = crawl.emit[i].start /\ WholeSpan(R[i])
                 /\ R[i].events \subseteq crawl.emit[i].events \ Lost(refused)
           /\ "Span" \notin refused /\ Lost(refused) = {} => R = crawl.emit
<1> DEFINE emit == crawl.emit
           lost == Lost(refused)
           kept(k) == IF emit[k].events \cap lost = {} THEN emit[k] ELSE [emit[k] EXCEPT !.events = {}]
           R == Landed(refused)
<1>1. emit \in Seq(SpanRows) /\ DOMAIN emit = 1..Len(emit) /\ Len(emit) \in Nat
      /\ \A i \in 1..Len(emit) : WholeSpan(emit[i]) /\ emit[i] \in SpanRows
  BY DEF LogsInv, StoreInv, Crawls
<1>2. R = IF "Span" \in refused THEN <<>> ELSE [k \in DOMAIN emit |-> kept(k)] BY DEF Landed
<1> HIDE DEF emit, lost, R
<1>3. ASSUME NEW k \in 1..Len(emit)
      PROVE  /\ kept(k) \in SpanRows /\ kept(k).start = emit[k].start /\ WholeSpan(kept(k))
             /\ kept(k).events \subseteq emit[k].events \ lost
  <2>1. CASE emit[k].events \cap lost = {} BY <1>1, <2>1
  <2>2. CASE emit[k].events \cap lost # {}
    <3>1. kept(k) = [emit[k] EXCEPT !.events = {}] BY <2>2
    <3> HIDE DEF kept
    <3>2. /\ kept(k) \in SpanRows /\ kept(k).start = emit[k].start /\ kept(k).end = emit[k].end
          /\ kept(k).eff = emit[k].eff /\ kept(k).events = {}
      BY <1>1, <3>1 DEF SpanRows
    <3> QED BY <1>1, <3>2 DEF WholeSpan
  <2> QED BY <2>1, <2>2
<1>4. CASE "Span" \in refused
  <2>1. R = <<>> BY <1>2, <1>4
  <2>2. R \in Seq(SpanRows) /\ Len(R) = 0 BY <2>1
  <2> QED BY <1>4, <2>2 DEF R, lost
<1>5. CASE "Span" \notin refused
  <2>1. R = [k \in 1..Len(emit) |-> kept(k)] BY <1>1, <1>2, <1>5
  <2>2. lost = {} => R = emit
    <3>1. lost = {} => R = [k \in 1..Len(emit) |-> emit[k]] BY <2>1
    <3>2. emit = [k \in 1..Len(emit) |-> emit[k]] BY <1>1
    <3> QED BY <3>1, <3>2
  <2> HIDE DEF kept
  <2>3. R \in [1..Len(emit) -> SpanRows] BY <1>3, <2>1
  <2>4. R \in Seq(SpanRows) /\ Len(R) = Len(emit) BY <1>1, <2>3, SequenceOf
  <2>5. \A i \in 1..Len(R) : R[i] = kept(i) /\ i \in 1..Len(emit) BY <2>1, <2>4
  <2> QED BY <1>3, <2>2, <2>4, <2>5 DEF R, emit, lost
<1> QED BY <1>4, <1>5

LEMMA LandStep == ASSUME LogsInv, NEW refused \in Refusals, Land(refused) PROVE LogsInv'
<1> DEFINE batch == crawl.emit
           emit == Landed(refused)
           claim == IF "Span" \in refused THEN {}
                    ELSE (UNION {s.events : s \in Range(batch)}) \ Lost(refused)
<1>16. /\ batch \in Seq(SpanRows) /\ crawl.step = "insert" /\ DOMAIN batch = 1..Len(batch)
       /\ \A i \in 1..Len(batch) : /\ WholeSpan(batch[i]) /\ batch[i].start \notin Keys
                                   /\ batch[i].start \in crawl.keys
       /\ \A i, j \in 1..Len(batch) : batch[i].start = batch[j].start => i = j
       /\ Keys \subseteq crawl.keys
  BY DEF Land, LogsInv, StoreInv, Crawls, BatchInv, KeysKnown
<1>17. /\ emit \in Seq(SpanRows)
       /\ \A i \in 1..Len(emit) : i \in 1..Len(batch) /\ emit[i].start = batch[i].start /\ WholeSpan(emit[i])
       /\ "Span" \notin refused /\ Lost(refused) = {} => emit = batch
  BY LandedRows
<1>18. EventsTaken => \A i \in claim : \E s \in Range(emit) : i \in s.events
  <2> SUFFICES ASSUME EventsTaken, NEW i \in claim PROVE \E s \in Range(emit) : i \in s.events OBVIOUS
  <2>1. "Span" \notin refused OBVIOUS
  <2>2. refused \subseteq {"Span"} BY DEF EventsTaken
  <2>3. refused = {} BY <2>1, <2>2
  <2>4. Lost(refused) = {} BY <2>3 DEF Lost
  <2>5. emit = batch BY <1>17, <2>1, <2>4
  <2> QED BY <2>1, <2>4, <2>5
<1>1. /\ Len(log) \in Nat /\ clock \in Nat /\ crawl \in Crawls /\ spans \in Seq(SpanRows) /\ rows \in Seq({"none", "unspanned", "spanned"}) /\ Len(rows) = Len(log)
      /\ DOMAIN log = 1..Len(log)
  BY DEF LogsInv, LogInv, StoreInv, Session, Crawls
<1>2. /\ \A i \in DOMAIN rows : rows'[i] = rows[i] \/ rows'[i] = "unspanned"
      /\ DOMAIN rows' = DOMAIN rows /\ rows' = [i \in DOMAIN rows |-> rows'[i]]
      /\ spans' = spans \o emit
      /\ crawl' = [crawl EXCEPT !.step = "bump", !.fresh = {}, !.emit = <<>>, !.claim = claim]
      /\ UNCHANGED <<log, clock, mark, crashes>>
  <2>1. rows' = [i \in DOMAIN rows |-> IF i \in crawl.fresh \ Lost(refused) THEN "unspanned" ELSE rows[i]]
    BY DEF Land
  <2> QED BY <2>1 DEF Land
<1>3. /\ \A i \in 1..Len(emit) : WholeSpan(emit[i]) /\ emit[i].start \notin Keys /\ emit[i].start \in crawl.keys
      /\ \A i, j \in 1..Len(emit) : emit[i].start = emit[j].start => i = j
      /\ \A i \in 1..Len(spans) : WholeSpan(spans[i])
  <2> HIDE DEF batch, emit
  <2>1. \A i \in 1..Len(spans) : WholeSpan(spans[i]) BY DEF LogsInv, StoreInv
  <2> QED BY <1>16, <1>17, <2>1
<1>4. claim \subseteq 1..Len(log)
  <2>1. Range(batch) = {batch[k] : k \in 1..Len(batch)}
    <3>1. DOMAIN batch = 1..Len(batch) BY <1>16
    <3> QED BY <3>1, Zenon DEF Range
  <2>2. ASSUME NEW k \in 1..Len(batch) PROVE batch[k].events \subseteq 1..Len(log)
    BY <1>1, <1>16 DEF WholeSpan
  <2> HIDE DEF batch
  <2> QED BY <2>1, <2>2
<1>5. claim \in SUBSET Nat BY <1>1, <1>4
<1> HIDE DEF claim
<1>6. crawl' \in Crawls
  <2>1. <<>> \in Seq(SpanRows) /\ {} \in SUBSET Nat OBVIOUS
  <2> QED BY <1>1, <1>2, <1>5, <2>1 DEF Crawls
<1>7. /\ crawl'.emit = <<>> /\ Len(crawl'.emit) = 0 /\ crawl'.now = crawl.now /\ crawl'.fresh = {}
      /\ crawl'.read = crawl.read /\ crawl'.claim = claim /\ crawl'.keys = crawl.keys
  BY <1>1, <1>2 DEF Crawls
<1> HIDE DEF emit, batch
<1>8. /\ Len(spans') = Len(spans) + Len(emit) /\ spans' \in Seq(SpanRows)
      /\ \A i \in 1..Len(spans) : spans'[i] = spans[i]
      /\ \A i \in 1..Len(emit) : spans'[Len(spans) + i] = emit[i]
      /\ Len(spans) \in Nat /\ Len(emit) \in Nat
  BY <1>1, <1>2, <1>17
<1>9. \A i \in 1..Len(spans') :
         i \in 1..Len(spans) \/ \E k \in 1..Len(emit) : i = Len(spans) + k
  <2> SUFFICES ASSUME NEW i \in 1..Len(spans'), i \notin 1..Len(spans)
               PROVE  \E k \in 1..Len(emit) : i = Len(spans) + k
    OBVIOUS
  <2>1. i - Len(spans) \in 1..Len(emit) /\ i = Len(spans) + (i - Len(spans)) BY <1>8
  <2> QED BY <2>1
<1>10. LogInv' BY <1>2 DEF LogsInv, LogInv, Session
<1>11. StoreInv'
  <2>1. \A i \in 1..Len(spans') : WholeSpan(spans[i])'
    <3>1. ASSUME NEW i \in 1..Len(spans') PROVE WholeSpan(spans'[i])
      <4>1. CASE i \in 1..Len(spans) BY <1>3, <1>8, <4>1
      <4>2. CASE i \notin 1..Len(spans)
        <5>1. PICK k \in 1..Len(emit) : i = Len(spans) + k BY <1>9, <4>2
        <5>2. spans'[i] = emit[k] BY <1>8, <5>1
        <5> QED BY <1>3, <5>2
      <4> QED BY <4>1, <4>2
    <3> QED BY <3>1, <1>2 DEF WholeSpan
  <2>2. rows' \in Seq({"none", "unspanned", "spanned"}) /\ Len(rows') = Len(rows)
    <3>1. Len(rows) \in Nat BY <1>1
    <3>2. rows' \in [1..Len(rows) -> {"none", "unspanned", "spanned"}] BY <1>1, <1>2
    <3> QED BY <3>1, <3>2, SequenceOf
  <2>3. mark' \in 0 .. Len(log') /\ crashes' \in 0 .. MaxCrashes BY <1>2 DEF LogsInv, StoreInv
  <2>4. /\ crawl'.read \in 0 .. Len(log') /\ crawl'.now <= clock'
        /\ crawl'.fresh \subseteq 1..Len(log') /\ crawl'.claim \subseteq 1..Len(log')
    BY <1>2, <1>4, <1>7 DEF LogsInv, StoreInv
  <2> QED BY <1>1, <1>2, <1>6, <1>7, <1>8, <2>1, <2>2, <2>3, <2>4 DEF StoreInv
<1>12. Range(spans') = Range(spans) \cup Range(emit)
  <2>1. DOMAIN spans = 1..Len(spans) /\ DOMAIN spans' = 1..Len(spans') /\ DOMAIN emit = 1..Len(emit)
    BY <1>1, <1>8, <1>17
  <2>2. \A i \in 1..Len(emit) : Len(spans) + i \in 1..Len(spans') BY <1>8
  <2>3. \A i \in 1..Len(spans) : i \in 1..Len(spans') BY <1>8
  <2>4. Range(emit) \subseteq Range(spans') BY <2>1, <2>2, <1>8 DEF Range
  <2>5. Range(spans) \subseteq Range(spans') BY <2>1, <2>3, <1>8 DEF Range
  <2>6. Range(spans') \subseteq Range(spans) \cup Range(emit)
    <3> SUFFICES ASSUME NEW i \in 1..Len(spans')
                 PROVE  spans'[i] \in Range(spans) \/ spans'[i] \in Range(emit)
      BY <2>1 DEF Range
    <3>1. CASE i \in 1..Len(spans) BY <2>1, <3>1, <1>8 DEF Range
    <3>2. CASE i \notin 1..Len(spans)
      <4>1. PICK k \in 1..Len(emit) : i = Len(spans) + k BY <3>2, <1>9
      <4>2. spans'[i] = emit[k] BY <4>1, <1>8
      <4> QED BY <2>1, <4>2 DEF Range
    <3> QED BY <3>1, <3>2
  <2> QED BY <2>4, <2>5, <2>6
<1>13. BatchInv'
  <2>1. EventsTaken => \A i \in claim : \E s \in Range(spans') : i \in s.events BY <1>12, <1>18
  <2>2. Keys' \subseteq crawl.keys
    <3>1. ASSUME NEW r \in Range(emit) PROVE r.start \in crawl.keys
      <4>1. PICK k \in 1..Len(emit) : r = emit[k] BY <1>17 DEF Range
      <4> QED BY <1>3, <4>1
    <3> QED BY <1>12, <1>16, <3>1 DEF Keys, Starts
  <2> QED BY <1>7, <2>1, <2>2 DEF BatchInv, KeysKnown
<1>14. SpannedIsClaimed'
  <2>1. \A i \in DOMAIN rows' : rows'[i] = "spanned" => i \in DOMAIN rows /\ rows[i] = "spanned"
    BY <1>2
  <2> QED BY <1>12, <2>1 DEF LogsInv, SpannedIsClaimed
<1>15. OneSpanPerStart'
  <2>1. DOMAIN spans = 1..Len(spans) /\ DOMAIN spans' = 1..Len(spans') BY <1>1, <1>8
  <2>2. \A i, j \in 1..Len(spans) : spans[i].start = spans[j].start => i = j
    BY <2>1 DEF LogsInv, OneSpanPerStart
  <2>3. \A i \in 1..Len(spans), k \in 1..Len(emit) : spans[i].start # emit[k].start
    BY <1>3, <2>1 DEF Keys, Starts, Range
  <2>4. ASSUME NEW i \in 1..Len(spans'), NEW j \in 1..Len(spans'), spans'[i].start = spans'[j].start
        PROVE  i = j
    <3>1. CASE i \in 1..Len(spans) /\ j \in 1..Len(spans) BY <3>1, <2>2, <2>4, <1>8
    <3>2. CASE i \in 1..Len(spans) /\ j \notin 1..Len(spans)
      <4>1. PICK k \in 1..Len(emit) : j = Len(spans) + k BY <3>2, <1>9
      <4>2. spans'[j] = emit[k] /\ spans'[i] = spans[i] BY <3>2, <4>1, <1>8
      <4> QED BY <2>3, <2>4, <3>2, <4>2
    <3>3. CASE i \notin 1..Len(spans) /\ j \in 1..Len(spans)
      <4>1. PICK k \in 1..Len(emit) : i = Len(spans) + k BY <3>3, <1>9
      <4>2. spans'[i] = emit[k] /\ spans'[j] = spans[j] BY <3>3, <4>1, <1>8
      <4> QED BY <2>3, <2>4, <3>3, <4>2
    <3>4. CASE i \notin 1..Len(spans) /\ j \notin 1..Len(spans)
      <4>1. PICK k \in 1..Len(emit) : i = Len(spans) + k BY <3>4, <1>9
      <4>2. PICK l \in 1..Len(emit) : j = Len(spans) + l BY <3>4, <1>9
      <4>3. spans'[i] = emit[k] /\ spans'[j] = emit[l] BY <4>1, <4>2, <1>8
      <4>4. k = l BY <1>3, <2>4, <4>3
      <4> QED BY <4>1, <4>2, <4>4
    <3> QED BY <3>1, <3>2, <3>3, <3>4
  <2> QED BY <2>1, <2>4 DEF OneSpanPerStart
<1> QED BY <1>10, <1>11, <1>13, <1>14, <1>15 DEF LogsInv

LEMMA BumpStep == ASSUME LogsInv, Bump PROVE LogsInv'
<1> DEFINE i == FirstOf(crawl.claim)
<1>1. /\ Len(log) \in Nat /\ crawl \in Crawls /\ crawl.claim \subseteq 1..Len(log)
      /\ rows \in Seq({"none", "unspanned", "spanned"}) /\ Len(rows) = Len(log)
      /\ DOMAIN rows = 1..Len(log)
  BY DEF LogsInv, LogInv, StoreInv, Session
<1>2. /\ crawl.claim # {} /\ rows' = [rows EXCEPT ![i] = "spanned"]
      /\ crawl' = [crawl EXCEPT !.claim = crawl.claim \ {i}]
      /\ UNCHANGED <<log, clock, mark, spans, crashes>>
  BY DEF Bump
<1>3. i \in crawl.claim
  <2>1. crawl.claim \in SUBSET Nat BY <1>1 DEF Crawls
  <2> QED BY <1>2, <2>1, HasLeast
<1> HIDE DEF i
<1>4. /\ LogInv' /\ OneSpanPerStart' /\ Keys' = Keys
      /\ \A k \in 1..Len(spans') : WholeSpan(spans[k])'
  BY <1>2, SameSpans
<1>5. /\ crawl' \in Crawls /\ crawl'.claim = crawl.claim \ {i} /\ crawl'.emit = crawl.emit
      /\ crawl'.step = crawl.step /\ crawl'.keys = crawl.keys
      /\ crawl'.read = crawl.read /\ crawl'.now = crawl.now /\ crawl'.fresh = crawl.fresh
  BY <1>1, <1>2 DEF Crawls
<1>6. StoreInv'
  <2>1. rows' \in Seq({"none", "unspanned", "spanned"}) /\ Len(rows') = Len(rows)
    <3>1. rows \in [1..Len(rows) -> {"none", "unspanned", "spanned"}] BY <1>1
    <3>2. rows' \in [1..Len(rows) -> {"none", "unspanned", "spanned"}] BY <1>2, <3>1
    <3> QED BY <1>1, <3>2
  <2>2. \A k \in 1..Len(crawl'.emit) : WholeSpan(crawl.emit[k])'
    BY <1>2, <1>5 DEF LogsInv, StoreInv, WholeSpan
  <2> QED BY <1>2, <1>4, <1>5, <2>1, <2>2 DEF LogsInv, StoreInv
<1>7. BatchInv' BY <1>2, <1>4, <1>5 DEF LogsInv, BatchInv, KeysKnown
<1>8. SpannedIsClaimed'
  <2>1. EventsTaken => \E s \in Range(spans) : i \in s.events BY <1>3 DEF LogsInv, BatchInv
  <2>2. \A k \in DOMAIN rows' : rows'[k] = "spanned" => k = i \/ (k \in DOMAIN rows /\ rows[k] = "spanned")
    BY <1>1, <1>2
  <2> QED BY <1>2, <2>1, <2>2 DEF LogsInv, SpannedIsClaimed
<1> QED BY <1>4, <1>6, <1>7, <1>8 DEF LogsInv

LEMMA StopStep == ASSUME LogsInv, Fail \/ Crash PROVE LogsInv'
<1>1. crashes' \in 0 .. MaxCrashes BY DEF Fail, Crash, LogsInv, StoreInv
<1>2. /\ crawl' = Idle /\ UNCHANGED <<log, clock, rows, spans>> /\ mark' \in 0 .. Len(log)
  BY DEF Fail, Crash, store, LogsInv, StoreInv
<1> QED BY <1>1, <1>2, ToIdle

LEMMA StutterStep == ASSUME LogsInv, UNCHANGED vars PROVE LogsInv'
<1>1. /\ LogInv' /\ OneSpanPerStart' /\ Keys' = Keys
      /\ \A i \in 1..Len(spans') : WholeSpan(spans[i])'
  BY SameSpans DEF vars
<1>2. StoreInv' BY <1>1 DEF vars, LogsInv, StoreInv, WholeSpan
<1>3. BatchInv' BY <1>1 DEF vars, LogsInv, BatchInv, KeysKnown
<1>4. SpannedIsClaimed' BY DEF vars, LogsInv, SpannedIsClaimed
<1> QED BY <1>1, <1>2, <1>3, <1>4 DEF LogsInv

\* The invariant holds whatever the agent logs, and through every failed insert and crash.
THEOREM LogsInvariant == Spec => []LogsInv
<1>1. Init => LogsInv BY InitLogs
<1>2. LogsInv /\ [Next]_vars => LogsInv'
  <2> SUFFICES ASSUME LogsInv, [Next]_vars PROVE LogsInv' OBVIOUS
  <2>1. ASSUME NEW e \in EventKinds, NEW gap \in Gaps, Say(e, gap) PROVE LogsInv' BY <2>1, SayStep
  <2>2. CASE Quiet BY <2>2, QuietStep
  <2>3. ASSUME NEW news \in BOOLEAN, Scan(news) PROVE LogsInv' BY <2>3, ScanStep
  <2>4. CASE Compute BY <2>4, ComputeStep
  <2>5. ASSUME NEW refused \in Refusals, Land(refused) PROVE LogsInv' BY <2>5, LandStep
  <2>6. CASE Fail \/ Crash BY <2>6, StopStep
  <2>7. CASE Bump BY <2>7, BumpStep
  <2>8. CASE CatchUp BY <2>8, CatchUpStep
  <2>9. CASE UNCHANGED vars BY <2>9, StutterStep
  <2> QED BY <2>1, <2>2, <2>3, <2>4, <2>5, <2>6, <2>7, <2>8, <2>9 DEF Next
<1> QED BY <1>1, <1>2, PTL DEF Spec

\* The variables of the agent-log jobs keep their types (indexLogs.ts, fileHashes.ts).
THEOREM LogTypes == Spec => []TypeOK
<1>1. LogsInv => TypeOK
  <2> SUFFICES ASSUME LogsInv PROVE TypeOK OBVIOUS
  <2>1. /\ DOMAIN log = 1..Len(log) /\ spans \in Seq(SpanRows) /\ crawl.emit \in Seq(SpanRows)
        /\ crawl \in Crawls
    BY DEF LogsInv, LogInv, Session, StoreInv, Crawls
  <2>2. \A s \in Range(spans \o crawl.emit) : WholeSpan(s)
    <3> SUFFICES ASSUME NEW i \in 1..Len(spans) + Len(crawl.emit) PROVE WholeSpan((spans \o crawl.emit)[i])
      BY <2>1 DEF Range
    <3>1. CASE i <= Len(spans) BY <2>1, <3>1 DEF LogsInv, StoreInv
    <3>2. CASE ~ (i <= Len(spans))
      <4>1. i - Len(spans) \in 1..Len(crawl.emit) /\ (spans \o crawl.emit)[i] = crawl.emit[i - Len(spans)]
        BY <2>1, <3>2
      <4> QED BY <4>1 DEF LogsInv, StoreInv
    <3> QED BY <3>1, <3>2
  <2> QED BY <2>1, <2>2 DEF TypeOK, LogsInv, LogInv, StoreInv, Crawls
<1> QED BY <1>1, LogsInvariant, PTL

\* Where the schema has the events' types, a row marked as spanned is an event of a stored Span, for every
\* session and through every failed insert, refused Span and crash (the state bumps after insertEntries).
THEOREM SpannedAreClaimed == Spec => []SpannedIsClaimed
<1>1. LogsInv => SpannedIsClaimed BY DEF LogsInv
<1> QED BY <1>1, LogsInvariant, PTL

\* No two Span rows of a session start together (existingSpanKeys).
THEOREM NoSpanTwice == Spec => []OneSpanPerStart
<1>1. LogsInv => OneSpanPerStart BY DEF LogsInv
<1> QED BY <1>1, LogsInvariant, PTL

-----------------------------------------------------------------------------
(* Spans and the rows of their events.                                     *)

Stored == {i \in DOMAIN rows : rows[i] # "none"}

\* A span is of events that are stored, or that are in the same batch.
StoredInv ==
    /\ \A k \in 1..Len(spans) : spans[k].events \subseteq Stored
    /\ \A k \in 1..Len(crawl.emit) : crawl.emit[k].events \subseteq Stored \cup crawl.fresh
    /\ \A i \in crawl.fresh : rows[i] = "none"
    /\ \A i \in Stored \cup crawl.fresh : HasRow(log[i])
    /\ crawl.claim \subseteq Stored
    /\ crawl.step # "insert" => crawl.emit = <<>> /\ crawl.fresh = {}

\* How far a row is.
Later(r) == CASE r = "none" -> {"none", "unspanned"}
              [] r = "unspanned" -> {"unspanned", "spanned"}
              [] r = "spanned" -> {"spanned"}

RowsAdvance == \A i \in DOMAIN rows : i \in DOMAIN rows' /\ rows'[i] \in Later(rows[i])

LEMMA RowFacts ==
    ASSUME LogsInv
    PROVE  /\ Len(log) \in Nat /\ DOMAIN log = 1..Len(log)
           /\ DOMAIN rows = 1..Len(log) /\ Len(rows) = Len(log) /\ rows \in Seq({"none", "unspanned", "spanned"})
           /\ \A i \in DOMAIN rows : rows[i] \in {"none", "unspanned", "spanned"}
           /\ crawl \in Crawls /\ spans \in Seq(SpanRows) /\ crawl.emit \in Seq(SpanRows)
BY DEF LogsInv, LogInv, StoreInv, Session, Crawls

\* Steps that leave the log and the store alone: only the batch changes.
LEMMA BatchChanges ==
    ASSUME LogsInv, StoredInv, UNCHANGED <<log, rows, spans>>,
           \A k \in 1..Len(crawl'.emit) : crawl'.emit[k].events \subseteq Stored \cup crawl'.fresh,
           \A i \in crawl'.fresh : rows[i] = "none" /\ HasRow(log[i]), crawl'.claim \subseteq Stored,
           crawl'.step # "insert" => crawl'.emit = <<>> /\ crawl'.fresh = {}
    PROVE  StoredInv' /\ RowsAdvance
<1>1. Stored' = Stored BY DEF Stored
<1>2. StoredInv' BY <1>1 DEF StoredInv
<1>3. RowsAdvance BY RowFacts DEF RowsAdvance, Later
<1> QED BY <1>2, <1>3

LEMMA StoredSay ==
    ASSUME LogsInv, StoredInv, NEW e \in EventKinds, NEW gap \in Gaps, Say(e, gap)
    PROVE  StoredInv' /\ RowsAdvance
<1>1. /\ Len(log) \in Nat /\ DOMAIN log = 1..Len(log) /\ DOMAIN rows = 1..Len(log) /\ Len(rows) = Len(log)
      /\ rows \in Seq({"none", "unspanned", "spanned"}) /\ log \in Seq(Logged)
      /\ \A i \in DOMAIN rows : rows[i] \in {"none", "unspanned", "spanned"}
      /\ crawl.fresh \subseteq 1..Len(log)
  BY RowFacts DEF LogsInv, LogInv, StoreInv, Session
<1>2. PICK x : log' = Append(log, x) BY DEF Say
<1>3. rows' = Append(rows, "none") /\ UNCHANGED <<spans, crawl>> BY DEF Say
<1>4. /\ DOMAIN rows' = 1..(Len(log) + 1) /\ rows'[Len(log) + 1] = "none"
      /\ \A i \in 1..Len(log) : rows'[i] = rows[i] /\ log'[i] = log[i]
  BY <1>1, <1>2, <1>3
<1>5. Stored' = Stored
  <2>1. Stored' = {i \in 1..(Len(log) + 1) : rows'[i] # "none"} BY <1>4 DEF Stored
  <2>2. \A i : i \in 1..(Len(log) + 1) /\ rows'[i] # "none" <=> i \in 1..Len(log) /\ rows[i] # "none"
    BY <1>1, <1>4
  <2> QED BY <1>1, <2>1, <2>2 DEF Stored
<1>6. Stored \subseteq 1..Len(log) BY <1>1 DEF Stored
<1>7. StoredInv' BY <1>1, <1>3, <1>4, <1>5, <1>6 DEF StoredInv
<1>8. RowsAdvance BY <1>1, <1>4 DEF RowsAdvance, Later
<1> QED BY <1>7, <1>8

LEMMA StoredCompute == ASSUME LogsInv, StoredInv, Compute PROVE StoredInv' /\ RowsAdvance
<1> DEFINE E == SubSeq(log, 1, crawl.read)
           fresh == Fresh(crawl.read)
           emit == Emitted(E, clock, Starts(spans))
           keys == Starts(spans) \cup Starts(emit)
           inserting == [crawl EXCEPT !.step = "insert", !.now = clock, !.fresh = fresh, !.emit = emit, !.keys = keys]
<1>1. /\ Len(log) \in Nat /\ DOMAIN rows = 1..Len(log) /\ clock \in Nat
      /\ crawl \in Crawls /\ crawl.read \in 0..Len(log) /\ LogInv /\ log \in Seq(Logged)
      /\ \A i \in 1..Len(log) : log[i].uuid = i
  BY RowFacts DEF LogsInv, LogInv, StoreInv, Session
<1>2. /\ UNCHANGED <<log, rows, spans>>
      /\ crawl' = Idle \/ crawl' = inserting
  BY DEF Compute, store
<1>3. Session(E) /\ {E[k].uuid : k \in 1..Len(E)} \subseteq 1..Len(log) BY <1>1, ReadSession
<1>4. \A k \in 1..Len(emit) : emit[k].events \subseteq Rowed(E)
  <2> HIDE DEF E
  <2> QED BY <1>1, <1>3, EmitsFit
<1>5. Rowed(E) \subseteq Stored \cup fresh
  <2>1. Len(E) = crawl.read /\ \A k \in 1..crawl.read : E[k] = log[k] BY <1>1
  <2> HIDE DEF E
  <2>3. DOMAIN E = 1..Len(E) BY <1>3 DEF Session
  <2> SUFFICES ASSUME NEW k \in 1..Len(E), HasRow(E[k]) PROVE E[k].uuid \in Stored \cup fresh
    BY <2>3 DEF Rowed
  <2>2. k \in 1..Len(log) /\ k \in 1..crawl.read /\ E[k].uuid = k /\ HasRow(log[k]) BY <1>1, <2>1
  <2> QED BY <1>1, <2>2 DEF Stored, Fresh
<1>6. \A i \in fresh : rows[i] = "none" /\ HasRow(log[i]) BY DEF Fresh
<1> HIDE DEF E, fresh, emit, keys
<1>7. CASE crawl' = Idle
  <2>1. Len(crawl'.emit) = 0 /\ crawl'.emit = <<>> /\ crawl'.fresh = {} /\ crawl'.claim = {} BY <1>7, IdleFits
  <2> QED BY <1>2, <2>1, BatchChanges
<1>8. CASE crawl' = inserting
  <2>1. crawl'.step = "insert" /\ crawl'.emit = emit /\ crawl'.fresh = fresh /\ crawl'.claim = crawl.claim
    BY <1>1, <1>8 DEF Crawls
  <2>2. \A k \in 1..Len(emit) : emit[k].events \subseteq Stored \cup fresh BY <1>4, <1>5
  <2> QED BY <1>2, <1>6, <2>1, <2>2, BatchChanges DEF StoredInv
<1> QED BY <1>2, <1>7, <1>8

LEMMA StoredCatchUp == ASSUME LogsInv, StoredInv, CatchUp PROVE StoredInv' /\ RowsAdvance
<1> DEFINE emit == Emitted(LeftOver, crawl.now, crawl.keys)
           keys == crawl.keys \cup Starts(emit)
           inserting == [crawl EXCEPT !.step = "insert", !.emit = emit, !.keys = keys, !.again = TRUE]
<1>1. /\ Len(log) \in Nat /\ DOMAIN rows = 1..Len(log) /\ clock \in Nat
      /\ crawl \in Crawls /\ LogInv /\ crawl.now \in Nat /\ crawl.now <= clock
  BY RowFacts DEF LogsInv, LogInv, StoreInv, Session, Crawls
<1>2. /\ UNCHANGED <<log, rows, spans>> /\ crawl.step = "bump"
      /\ crawl' = Idle \/ crawl' = inserting
  BY DEF CatchUp, store
<1>3. Unspanned \subseteq 1..Len(log) /\ Unspanned \subseteq Stored BY <1>1 DEF Unspanned, Stored
<1>4. Session(LeftOver) /\ {LeftOver[k].uuid : k \in 1..Len(LeftOver)} \subseteq Unspanned
  BY <1>1, <1>3, LeftOverSession
<1>5. \A k \in 1..Len(emit) : emit[k].events \subseteq Rowed(LeftOver)
  BY <1>1, <1>3, <1>4, EmitsFit
<1>6. Rowed(LeftOver) \subseteq Stored
  <2>1. DOMAIN LeftOver = 1..Len(LeftOver) BY <1>4 DEF Session
  <2> QED BY <1>3, <1>4, <2>1 DEF Rowed
<1> HIDE DEF emit, keys
<1>7. CASE crawl' = Idle
  <2>1. Len(crawl'.emit) = 0 /\ crawl'.emit = <<>> /\ crawl'.fresh = {} /\ crawl'.claim = {} BY <1>7, IdleFits
  <2> QED BY <1>2, <2>1, BatchChanges
<1>8. CASE crawl' = inserting
  <2>1. /\ crawl'.step = "insert" /\ crawl'.emit = emit /\ crawl'.fresh = crawl.fresh
        /\ crawl.fresh = {} /\ crawl'.claim = crawl.claim
    BY <1>1, <1>2, <1>8 DEF Crawls, StoredInv
  <2>2. \A k \in 1..Len(emit) : emit[k].events \subseteq Stored \cup crawl'.fresh BY <1>5, <1>6
  <2> QED BY <1>2, <2>1, <2>2, BatchChanges DEF StoredInv
<1> QED BY <1>2, <1>7, <1>8

\* The rows of the batch land with its spans, but for those the schema refuses.
LEMMA StoredLand ==
    ASSUME LogsInv, StoredInv, NEW refused \in Refusals, Land(refused)
    PROVE  StoredInv' /\ RowsAdvance
<1> DEFINE emit == crawl.emit
           landed == Landed(refused)
           kept == crawl.fresh \ Lost(refused)
           claim == IF "Span" \in refused THEN {}
                    ELSE (UNION {s.events : s \in Range(emit)}) \ Lost(refused)
<1>1. /\ Len(log) \in Nat /\ DOMAIN rows = 1..Len(log) /\ crawl \in Crawls
      /\ spans \in Seq(SpanRows) /\ emit \in Seq(SpanRows) /\ DOMAIN emit = 1..Len(emit)
      /\ crawl.fresh \subseteq 1..Len(log)
      /\ \A i \in DOMAIN rows : rows[i] \in {"none", "unspanned", "spanned"}
  BY RowFacts DEF LogsInv, StoreInv
<1>2. /\ rows' = [i \in DOMAIN rows |-> IF i \in kept THEN "unspanned" ELSE rows[i]]
      /\ spans' = spans \o landed /\ log' = log
      /\ crawl' = [crawl EXCEPT !.step = "bump", !.fresh = {}, !.emit = <<>>, !.claim = claim]
  BY DEF Land
<1>9. /\ landed \in Seq(SpanRows)
      /\ \A i \in 1..Len(landed) : i \in 1..Len(emit) /\ landed[i].events \subseteq emit[i].events \ Lost(refused)
  BY LandedRows
<1>3. /\ crawl'.step = "bump" /\ crawl'.fresh = {} /\ crawl'.emit = <<>> /\ Len(crawl'.emit) = 0
      /\ crawl'.claim = claim
  <2> HIDE DEF claim
  <2> QED BY <1>1, <1>2 DEF Crawls
<1> HIDE DEF landed
<1>4. Stored' = Stored \cup kept BY <1>1, <1>2 DEF Stored
<1>10. \A k \in 1..Len(emit) : emit[k].events \ Lost(refused) \subseteq Stored'
  BY <1>4 DEF StoredInv
<1>5. ASSUME NEW k \in 1..Len(spans') PROVE spans'[k].events \subseteq Stored'
  <2> HIDE DEF claim, emit, kept
  <2>1. CASE k <= Len(spans)
    <3>1. k \in 1..Len(spans) /\ spans'[k] = spans[k] BY <1>1, <1>2, <1>9, <2>1
    <3> QED BY <1>4, <3>1 DEF StoredInv
  <2>2. CASE ~ (k <= Len(spans))
    <3>1. k - Len(spans) \in 1..Len(landed) /\ spans'[k] = landed[k - Len(spans)] BY <1>1, <1>2, <1>9, <2>2
    <3> QED BY <1>9, <1>10, <3>1
  <2> QED BY <1>1, <2>1, <2>2
<1>11. claim \subseteq Stored'
  <2> SUFFICES ASSUME NEW i \in claim PROVE i \in Stored' OBVIOUS
  <2>1. PICK s \in Range(emit) : i \in s.events \ Lost(refused) OBVIOUS
  <2>2. PICK k \in 1..Len(emit) : s = emit[k] BY <1>1, <2>1 DEF Range
  <2> QED BY <1>10, <2>1, <2>2
<1> HIDE DEF claim
<1>6. StoredInv' BY <1>2, <1>3, <1>4, <1>5, <1>11 DEF StoredInv
<1>7. RowsAdvance BY <1>1, <1>2 DEF RowsAdvance, Later, StoredInv
<1> QED BY <1>6, <1>7

\* An event is marked after its span, and so its own row, has landed.
LEMMA StoredBump == ASSUME LogsInv, StoredInv, Bump PROVE StoredInv' /\ RowsAdvance
<1> DEFINE i == FirstOf(crawl.claim)
<1>1. /\ Len(log) \in Nat /\ DOMAIN rows = 1..Len(log) /\ crawl \in Crawls
      /\ crawl.claim \subseteq 1..Len(log) /\ DOMAIN spans = 1..Len(spans)
      /\ \A k \in DOMAIN rows : rows[k] \in {"none", "unspanned", "spanned"}
  BY RowFacts DEF LogsInv, StoreInv
<1>2. /\ crawl.step = "bump" /\ crawl.claim # {}
      /\ rows' = [rows EXCEPT ![i] = "spanned"]
      /\ crawl' = [crawl EXCEPT !.claim = @ \ {i}]
      /\ UNCHANGED <<log, spans>>
  BY DEF Bump
<1>3. i \in crawl.claim
  <2>1. crawl.claim \in SUBSET Nat BY <1>1
  <2> QED BY <1>2, <2>1, HasLeast
<1> HIDE DEF i
<1>4. i \in Stored BY <1>3 DEF StoredInv
<1>5. /\ crawl'.step = crawl.step /\ crawl'.fresh = crawl.fresh /\ crawl'.emit = crawl.emit
      /\ crawl'.claim \subseteq crawl.claim
  BY <1>1, <1>2 DEF Crawls
<1>6. Stored' = Stored BY <1>1, <1>2, <1>4 DEF Stored
<1>7. StoredInv'
  <2>1. crawl'.emit = <<>> /\ crawl'.fresh = {} /\ Len(crawl'.emit) = 0 BY <1>2, <1>5 DEF StoredInv
  <2> QED BY <1>2, <1>6, <2>1 DEF StoredInv
<1>8. RowsAdvance BY <1>1, <1>2, <1>4 DEF RowsAdvance, Later, Stored
<1> QED BY <1>7, <1>8

LEMMA StoredStep == LogsInv /\ StoredInv /\ [Next]_vars => StoredInv' /\ RowsAdvance
<1> SUFFICES ASSUME LogsInv, StoredInv, [Next]_vars PROVE StoredInv' /\ RowsAdvance OBVIOUS
<1>1. ASSUME NEW e \in EventKinds, NEW gap \in Gaps, Say(e, gap) PROVE StoredInv' /\ RowsAdvance
  BY <1>1, StoredSay
<1>2. CASE Quiet \/ UNCHANGED vars
  <2>1. UNCHANGED <<log, rows, spans, crawl>> BY <1>2 DEF Quiet, vars, store
  <2> QED BY <2>1, BatchChanges DEF StoredInv
<1>3. CASE Fail \/ Crash \/ \E news \in BOOLEAN : Scan(news)
  <2>1. UNCHANGED <<log, rows, spans>> BY <1>3 DEF Fail, Crash, Scan, store
  <2>2. crawl'.emit = <<>> /\ crawl'.fresh = {} /\ Len(crawl'.emit) = 0 /\ crawl'.claim = {}
    <3>1. CASE Fail \/ Crash BY <3>1, IdleFits DEF Fail, Crash
    <3>2. CASE \E news \in BOOLEAN : Scan(news) BY <3>2, IdleFits DEF Scan, Idle
    <3> QED BY <1>3, <3>1, <3>2
  <2> QED BY <2>1, <2>2, BatchChanges
<1>4. CASE Compute BY <1>4, StoredCompute
<1>5. ASSUME NEW refused \in Refusals, Land(refused) PROVE StoredInv' /\ RowsAdvance BY <1>5, StoredLand
<1>6. CASE Bump BY <1>6, StoredBump
<1>7. CASE CatchUp BY <1>7, StoredCatchUp
<1> QED BY <1>1, <1>2, <1>3, <1>4, <1>5, <1>6, <1>7 DEF Next

LEMMA InitStored == Init => StoredInv
BY DEF Init, Idle, StoredInv, Stored

\* No Span names an event without a row: whichever crawl found the event, whichever emitted the span, and
\* whatever failed, was refused or stopped between (indexLogs.ts, existingEventIdByUuid and the one batch
\* of events and spans); and neither the scorer's own events nor proposed plans have a row.
THEOREM SpansAreOfStoredEvents ==
    Spec => [](/\ \A k \in 1..Len(spans) : spans[k].events \subseteq Stored
               /\ \A i \in Stored : HasRow(log[i]))
<1>1. LogsInv /\ StoredInv /\ [Next]_vars => StoredInv' BY StoredStep
<1>2. StoredInv => /\ \A k \in 1..Len(spans) : spans[k].events \subseteq Stored
                   /\ \A i \in Stored : HasRow(log[i])
  BY DEF StoredInv
<1> QED BY <1>1, <1>2, InitStored, LogsInvariant, PTL DEF Spec

\* A row is written unspanned and goes to spanned, once, and no crawl takes it back or writes over it
\* (indexLogs.ts; the states of AgentEvent).
THEOREM RowsOnlyAdvance == Spec => [][RowsAdvance]_rows
<1>1. LogsInv /\ StoredInv /\ [Next]_vars => StoredInv' /\ RowsAdvance BY StoredStep
<1> QED BY <1>1, InitStored, LogsInvariant, PTL DEF Spec

=============================================================================

---------------------------- MODULE FoldTheorems ----------------------------
(***************************************************************************)
(* What a fold over a sequence comes to.  FoldLeft works through the       *)
(* indices of the sequence with a function that is CHOSEN for its          *)
(* equation: there is one, and along the prefixes 1 .. k the equation says *)
(* what it is.                                                             *)
(***************************************************************************)
EXTENDS SequencesExt, Integers, WellFoundedInduction, TLAPS

\* A set that has 0 and with each number the next one up to n has them all.
LEMMA UpTo ==
    ASSUME NEW n \in Nat, NEW G, 0 \in G, \A k \in 1 .. n : k - 1 \in G => k \in G
    PROVE  \A k \in 0 .. n : k \in G
<1> DEFINE Missing == (0 .. n) \ G
<1>1. SUFFICES ASSUME Missing # {} PROVE FALSE
  OBVIOUS
<1>2. PICK k \in Missing : \A j \in Missing : ~(<<j, k>> \in OpToRel(<, Nat))
  <2>1. Missing \subseteq Nat
    OBVIOUS
  <2> HIDE DEF Missing
  <2>2. QED
    BY <1>1, <2>1, NatLessThanWellFounded, WFMin
<1>3. k \in 1 .. n
  OBVIOUS
<1>4. k - 1 \in 0 .. n /\ k - 1 \in Nat /\ k \in Nat /\ k - 1 < k
  BY <1>3
<1>5. k - 1 \notin Missing
  <2>1. <<k - 1, k>> \in OpToRel(<, Nat)
    BY <1>4 DEF OpToRel
  <2> HIDE DEF Missing
  <2>2. QED
    BY <1>2, <2>1
<1>6. QED
  BY <1>3, <1>4, <1>5

\* The greatest index.
LEMMA GreatestIndex ==
    ASSUME NEW n \in Nat, NEW w \in SUBSET (1 .. n), w # {}
    PROVE  Max(w) \in w /\ \A y \in w : Max(w) >= y
<1> DEFINE Bounds == {m \in 0 .. n : \A y \in w : y <= m}
<1>1. Bounds # {} /\ Bounds \subseteq Nat
  <2>1. n \in Bounds
    OBVIOUS
  <2>2. QED
    BY <2>1
<1>2. PICK m \in Bounds : \A k \in Bounds : ~(<<k, m>> \in OpToRel(<, Nat))
  <2> HIDE DEF Bounds
  <2>1. QED
    BY <1>1, NatLessThanWellFounded, WFMin
<1>3. ASSUME NEW k \in Bounds PROVE m <= k
  <2> HIDE DEF Bounds
  <2>1. m \in Nat /\ k \in Nat
    BY <1>1
  <2>2. <<k, m>> \notin OpToRel(<, Nat)
    BY <1>2
  <2>3. ~(k < m)
    BY <2>1, <2>2 DEF OpToRel
  <2>4. QED
    BY <2>1, <2>3
<1>4. m \in w
  <2> SUFFICES ASSUME m \notin w PROVE FALSE
    OBVIOUS
  <2>1. PICK y \in w : y \in 1 .. n
    OBVIOUS
  <2>2. m >= 1
    BY <2>1
  <2>3. m - 1 \in Bounds
    BY <2>2
  <2>4. QED
    BY <1>3, <2>3
<1>5. QED
  BY <1>4 DEF Max

\* The last index of a prefix, and the prefix before it.
LEMMA PrefixLast ==
    ASSUME NEW n \in Nat, NEW k \in 1 .. n
    PROVE  /\ 1 .. k \in SUBSET (1 .. n) /\ 1 .. k # {}
           /\ (1 .. k) \ {k} = 1 .. k - 1 /\ Max(1 .. k) = k
<1>1. k \in Nat /\ k <= n /\ k >= 1
  OBVIOUS
<1>2. \A x : x \in (1 .. k) \ {k} <=> x \in 1 .. k - 1
  BY <1>1
<1>3. k \in 1 .. k /\ \A x \in 1 .. k : x \in 1 .. n
  BY <1>1
<1>4. Max(1 .. k) = k
  <2>1. Max(1 .. k) \in 1 .. k /\ \A y \in 1 .. k : Max(1 .. k) >= y
    BY <1>1, <1>3, GreatestIndex
  <2>2. QED
    BY <1>3, <2>1
<1>5. QED
  BY <1>1, <1>2, <1>3, <1>4

\* The equation of a fold over the indices of a sequence has a solution.
IsFold(g, n, V, b, f) ==
    /\ g \in [SUBSET (1 .. n) -> V]
    /\ \A w \in SUBSET (1 .. n) : g[w] = IF w = {} THEN b ELSE f[<<Max(w), g[w \ {Max(w)}]>>]

LEMMA FoldExists ==
    ASSUME NEW n \in Nat, NEW V, NEW b \in V, NEW f \in [(1 .. n) \X V -> V]
    PROVE  \E g : IsFold(g, n, V, b, f)
<1> DEFINE At(g, w) == IF w = {} THEN b ELSE f[<<Max(w), g[w \ {Max(w)}]>>]
           Solves(g, k) == g \in [SUBSET (1 .. k) -> V] /\ \A w \in SUBSET (1 .. k) : g[w] = At(g, w)
           Solved == {k \in 0 .. n : \E g : Solves(g, k)}
<1>1. 0 \in Solved
  <2>1. Solves([w \in SUBSET (1 .. 0) |-> b], 0)
    <3>1. SUBSET (1 .. 0) = {{}}
      OBVIOUS
    <3>2. QED
      BY <3>1
  <2> HIDE DEF Solves
  <2>2. QED
    BY <2>1
<1>2. SUFFICES ASSUME NEW k \in 1 .. n, NEW g, Solves(g, k - 1) PROVE \E h : Solves(h, k)
  <2>1. \A k \in 1 .. n : k - 1 \in Solved => k \in Solved
    <3> HIDE DEF Solves
    <3>1. QED
      BY <1>2
  <2>2. n \in Solved
    <3> HIDE DEF Solved
    <3>1. n \in 0 .. n
      OBVIOUS
    <3>2. QED
      BY <1>1, <2>1, <3>1, UpTo
  <2>3. QED
    BY <2>2 DEF IsFold
<1> DEFINE h == [w \in SUBSET (1 .. k) |-> IF k \in w THEN f[<<k, g[w \ {k}]>>] ELSE g[w]]
<1>3. \A w \in SUBSET (1 .. k) : k \notin w => w \in SUBSET (1 .. k - 1) /\ h[w] = g[w]
  OBVIOUS
<1>4. h \in [SUBSET (1 .. k) -> V]
  <2>1. ASSUME NEW w \in SUBSET (1 .. k) PROVE h[w] \in V
    <3>1. CASE k \in w
      <4>1. w \ {k} \in SUBSET (1 .. k - 1)
        BY <1>3
      <4>2. g[w \ {k}] \in V
        BY <4>1, <1>2
      <4>3. k \in 1 .. n
        OBVIOUS
      <4>4. QED
        BY <3>1, <4>2, <4>3
    <3>2. CASE k \notin w
      BY <3>2, <1>2, <1>3
    <3>3. QED
      BY <3>1, <3>2
  <2>2. QED
    BY <2>1
<1>5. ASSUME NEW w \in SUBSET (1 .. k) PROVE h[w] = At(h, w)
  <2>1. CASE w = {}
    <3>1. h[w] = g[w] /\ w \in SUBSET (1 .. k - 1)
      BY <2>1, <1>3
    <3>2. QED
      BY <2>1, <3>1, <1>2
  <2>2. CASE w # {} /\ k \notin w
    <3>1. w \in SUBSET (1 .. k - 1) /\ h[w] = g[w]
      BY <2>2, <1>3
    <3>2. g[w] = f[<<Max(w), g[w \ {Max(w)}]>>]
      BY <2>2, <3>1, <1>2
    <3>3. h[w \ {Max(w)}] = g[w \ {Max(w)}]
      BY <2>2, <1>3
    <3>4. QED
      BY <2>2, <3>1, <3>2, <3>3
  <2>3. CASE k \in w
    <3>1. Max(w) \in w /\ \A y \in w : Max(w) >= y
      <4>1. k \in Nat /\ w # {}
        BY <2>3
      <4>2. QED
        BY <4>1, GreatestIndex
    <3>2. Max(w) = k
      <4>1. Max(w) \in 1 .. k /\ Max(w) >= k
        BY <2>3, <3>1
      <4>2. QED
        BY <4>1
    <3>3. h[w] = f[<<k, g[w \ {k}]>>]
      BY <2>3
    <3>4. h[w \ {k}] = g[w \ {k}]
      BY <1>3
    <3>5. QED
      BY <2>3, <3>2, <3>3, <3>4
  <2>4. QED
    BY <2>1, <2>2, <2>3
<1>6. Solves(h, k)
  <2> HIDE DEF h, At
  <2>1. QED
    BY <1>4, <1>5
<1>7. QED
  <2> HIDE DEF h, Solves
  <2>1. QED
    BY <1>6
=============================================================================

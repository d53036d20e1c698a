---------------------------- MODULE Subsequences_proofs ----------------------------
(***************************************************************************)
(* What the elements of a sequence are that were kept, in terms of places: *)
(* an increasing function leads from the places of the subsequence to      *)
(* those places of the sequence that hold an element of the set.  The      *)
(* proofs are by induction over the length: the set of the lengths without *)
(* the property would have a least element, for an order on a set that is  *)
(* well-founded has one in every subset.                                   *)
(***************************************************************************)
EXTENDS Subsequences, WellFoundedInduction, FiniteSetTheorems, TLAPS


(* A set of numbers that is not empty has a least element. *)
LEMMA LeastElement ==
    ASSUME NEW T \in SUBSET Nat, T # {}
    PROVE  \E m \in T : \A k \in T : m <= k
<1> DEFINE R == {ss \in Nat \X Nat : ss[1] < ss[2]}
<1>1. IsWellFoundedOn(R, Nat)
  BY NatLessThanWellFounded, Zenon DEF OpToRel
<1>2. \A x, y \in Nat : x < y => <<x, y>> \in R
  OBVIOUS
<1> HIDE DEF R
<1>3. PICK m \in T : \A y \in T : ~(<<y, m>> \in R)
  BY <1>1, WFMin
<1>4. \A k \in T : ~(k < m)
  BY <1>2, <1>3
<1> QED
  BY <1>4

(* Induction over a set: what holds 0 and with every number below n the next, holds n. *)
LEMMA UpTo ==
    ASSUME NEW n \in Nat, NEW T, 0 \in T,
           \A i \in 0..n : i # n /\ i \in T => i + 1 \in T
    PROVE  n \in T
<1> SUFFICES ASSUME n \notin T PROVE FALSE
  OBVIOUS
<1> DEFINE U == {i \in 0..n : i \notin T}
<1>1. U \in SUBSET Nat /\ U # {}
  OBVIOUS
<1>2. PICK m \in U : \A k \in U : m <= k
  BY <1>1, LeastElement
<1>3. m # 0 /\ m \in 1..n
  BY <1>2
<1>4. m - 1 \in 0..n /\ m - 1 # n /\ m - 1 + 1 = m
  BY <1>3
<1>5. m - 1 \in T
  BY <1>2, <1>4
<1> QED
  BY <1>2, <1>4, <1>5

(* The function of Kept as far as place n. *)
KeptUpTo(g, n, s, S) ==
    g = [i \in 0..n |-> IF i = 0 THEN <<>> ELSE IF s[i] \in S THEN Append(g[i - 1], s[i]) ELSE g[i - 1]]

(* Kept is defined: there is a function that satisfies its equation. *)
LEMMA KeptEquation ==
    ASSUME NEW s, NEW S, Len(s) \in Nat
    PROVE  \E g : KeptUpTo(g, Len(s), s, S) /\ Kept(s, S) = g[Len(s)]
<1> DEFINE T == {n \in Nat : \E g : KeptUpTo(g, n, s, S)}
<1>1. 0 \in T
  <2> DEFINE g == [i \in 0..0 |-> <<>>]
  <2>1. KeptUpTo(g, 0, s, S)
    BY DEF KeptUpTo
  <2> QED
    BY <2>1
<1>2. ASSUME NEW n \in Nat, n \in T PROVE n + 1 \in T
  <2>1. PICK g : KeptUpTo(g, n, s, S)
    BY <1>2
  <2> DEFINE e == IF s[n + 1] \in S THEN Append(g[n], s[n + 1]) ELSE g[n]
             h == [i \in 0..(n + 1) |-> IF i = n + 1 THEN e ELSE g[i]]
  <2>2. \A i \in 0..(n + 1) : h[i] = IF i = 0 THEN <<>> ELSE IF s[i] \in S THEN Append(h[i - 1], s[i]) ELSE h[i - 1]
    <3>1. TAKE i \in 0..(n + 1)
    <3>2. CASE i = n + 1
      <4>1. n \in 0..(n + 1) /\ n # n + 1 /\ i - 1 = n /\ i # 0
        BY <3>2
      <4>2. h[i] = e /\ h[i - 1] = g[n]
        BY <3>2, <4>1
      <4> HIDE DEF h
      <4> QED
        BY <3>2, <4>1, <4>2
    <3>3. CASE i # n + 1
      <4>1. i \in 0..n /\ i # n + 1
        BY <3>3
      <4>2. h[i] = g[i]
        BY <4>1
      <4>3. i # 0 => i - 1 \in 0..n /\ i - 1 # n + 1 /\ i - 1 \in 0..(n + 1)
        BY <4>1
      <4>4. i # 0 => h[i - 1] = g[i - 1]
        BY <4>3
      <4>5. g[i] = IF i = 0 THEN <<>> ELSE IF s[i] \in S THEN Append(g[i - 1], s[i]) ELSE g[i - 1]
        BY <2>1, <4>1 DEF KeptUpTo
      <4> HIDE DEF h
      <4> QED
        BY <4>2, <4>4, <4>5
    <3> QED
      BY <3>2, <3>3
  <2>3. h = [i \in 0..(n + 1) |-> h[i]]
    OBVIOUS
  <2> HIDE DEF h
  <2>4. h = [i \in 0..(n + 1) |-> IF i = 0 THEN <<>> ELSE IF s[i] \in S THEN Append(h[i - 1], s[i]) ELSE h[i - 1]]
    BY <2>2, <2>3
  <2> QED
    BY <2>4 DEF KeptUpTo
<1> HIDE DEF T
<1>3. Len(s) \in T
  BY <1>1, <1>2, UpTo
<1>4. \E g : KeptUpTo(g, Len(s), s, S)
  BY <1>3 DEF T
<1> DEFINE k == CHOOSE g : KeptUpTo(g, Len(s), s, S)
<1>5. KeptUpTo(k, Len(s), s, S)
  BY <1>4
<1>6. Kept(s, S) = k[Len(s)]
  BY DEF Kept, KeptUpTo
<1> QED
  BY <1>5, <1>6

(* f leads from the places of q to the first n places of s that hold an element of S. *)
Selects(f, q, n, s, S) ==
    /\ f \in [1..Len(q) -> 1..n]
    /\ \A j, k \in 1..Len(q) : j < k => f[j] < f[k]
    /\ \A k \in 1..Len(q) : q[k] = s[f[k]] /\ s[f[k]] \in S
    /\ \A i \in 1..n : s[i] \in S => \E k \in 1..Len(q) : f[k] = i

(* One more place of s. *)
LEMMA SelectsMore ==
    ASSUME NEW R, NEW s \in Seq(R), NEW S, NEW n \in Nat, n + 1 \in 1..Len(s),
           NEW q \in Seq(R), NEW f, Selects(f, q, n, s, S)
    PROVE  /\ s[n + 1] \in S => /\ Append(q, s[n + 1]) \in Seq(R)
                                /\ \E h : Selects(h, Append(q, s[n + 1]), n + 1, s, S)
           /\ s[n + 1] \notin S => Selects(f, q, n + 1, s, S)
<1>0. Len(q) \in Nat /\ Len(s) \in Nat
  OBVIOUS
<1>1. ASSUME s[n + 1] \notin S PROVE Selects(f, q, n + 1, s, S)
  <2>1. f \in [1..Len(q) -> 1..(n + 1)]
    BY DEF Selects
  <2>2. \A i \in 1..(n + 1) : s[i] \in S => i \in 1..n
    BY <1>1
  <2> QED
    BY <2>1, <2>2 DEF Selects
<1>2. ASSUME s[n + 1] \in S
      PROVE  Append(q, s[n + 1]) \in Seq(R) /\ \E h : Selects(h, Append(q, s[n + 1]), n + 1, s, S)
  <2> DEFINE e == s[n + 1]
             p == Append(q, e)
             h == [k \in 1..(Len(q) + 1) |-> IF k = Len(q) + 1 THEN n + 1 ELSE f[k]]
  <2>1. e \in R
    OBVIOUS
  <2>2. p \in Seq(R) /\ Len(p) = Len(q) + 1 /\ p[Len(q) + 1] = e /\ \A k \in 1..Len(q) : p[k] = q[k]
    BY <2>1
  <2>3. \A k \in 1..Len(q) : k \in 1..(Len(q) + 1) /\ k # Len(q) + 1
    BY <1>0
  <2>4. \A k \in 1..(Len(q) + 1) : k \in 1..Len(q) \/ k = Len(q) + 1
    BY <1>0
  <2>5. Len(q) + 1 \in 1..(Len(q) + 1)
    BY <1>0
  <2>6. \A k \in 1..Len(q) : f[k] \in 1..n
    BY DEF Selects
  <2>7. h[Len(q) + 1] = n + 1 /\ \A k \in 1..Len(q) : h[k] = f[k]
    BY <2>3, <2>5
  <2>8. h = [k \in 1..Len(p) |-> h[k]]
    BY <2>2
  <2> HIDE DEF e, p, h
  <2>9. h \in [1..Len(p) -> 1..(n + 1)]
    <3>1. ASSUME NEW k \in 1..Len(p) PROVE h[k] \in 1..(n + 1)
      BY <2>2, <2>4, <2>6, <2>7
    <3> QED
      BY <2>8, <3>1
  <2>10. ASSUME NEW j \in 1..Len(p), NEW k \in 1..Len(p), j < k PROVE h[j] < h[k]
    <3>1. j \in 1..Len(q)
      BY <1>0, <2>2, <2>10
    <3>2. CASE k \in 1..Len(q)
      BY <2>7, <2>10, <3>1, <3>2 DEF Selects
    <3>3. CASE k = Len(q) + 1
      <4>1. f[j] \in 1..n
        BY <2>6, <3>1
      <4> QED
        BY <2>7, <3>1, <3>3, <4>1
    <3> QED
      BY <2>2, <2>4, <3>2, <3>3
  <2>11. ASSUME NEW k \in 1..Len(p) PROVE p[k] = s[h[k]] /\ s[h[k]] \in S
    <3>1. CASE k \in 1..Len(q)
      BY <2>2, <2>7, <3>1 DEF Selects
    <3>2. CASE k = Len(q) + 1
      BY <1>2, <2>2, <2>7, <3>2 DEF e
    <3> QED
      BY <2>2, <2>4, <3>1, <3>2
  <2>12. ASSUME NEW i \in 1..(n + 1), s[i] \in S PROVE \E k \in 1..Len(p) : h[k] = i
    <3>1. CASE i = n + 1
      BY <2>2, <2>5, <2>7, <3>1
    <3>2. CASE i # n + 1
      <4>1. i \in 1..n
        BY <3>2
      <4>2. PICK k \in 1..Len(q) : f[k] = i
        BY <2>12, <4>1 DEF Selects
      <4> QED
        BY <2>2, <2>3, <2>7, <4>2
    <3> QED
      BY <3>1, <3>2
  <2>13. Selects(h, p, n + 1, s, S)
    BY <2>9, <2>10, <2>11, <2>12 DEF Selects
  <2> QED
    BY <2>2, <2>13 DEF p, e
<1> QED
  BY <1>1, <1>2

(* What Kept returns. *)
LEMMA KeptSelects ==
    ASSUME NEW R, NEW s \in Seq(R), NEW S
    PROVE  Kept(s, S) \in Seq(R) /\ \E f : Selects(f, Kept(s, S), Len(s), s, S)
<1>0. Len(s) \in Nat
  OBVIOUS
<1>1. PICK g : KeptUpTo(g, Len(s), s, S) /\ Kept(s, S) = g[Len(s)]
  BY <1>0, KeptEquation
<1> DEFINE T == {n \in 0..Len(s) : g[n] \in Seq(R) /\ \E f : Selects(f, g[n], n, s, S)}
<1>2. 0 \in T
  <2>1. g[0] = <<>>
    BY <1>0, <1>1 DEF KeptUpTo
  <2>2. <<>> \in Seq(R) /\ Len(<<>>) = 0
    OBVIOUS
  <2>3. \A i \in 1..0 : FALSE
    OBVIOUS
  <2>4. <<>> \in [1..0 -> 1..0]
    BY <2>3
  <2>5. Selects(<<>>, <<>>, 0, s, S)
    BY <2>2, <2>3, <2>4 DEF Selects
  <2>6. 0 \in 0..Len(s)
    BY <1>0
  <2>7. Selects(<<>>, g[0], 0, s, S) /\ g[0] \in Seq(R)
    BY <2>1, <2>2, <2>5
  <2> QED
    BY <2>6, <2>7
<1>3. ASSUME NEW n \in 0..Len(s), n # Len(s), n \in T PROVE n + 1 \in T
  <2>1. n + 1 \in 0..Len(s) /\ n + 1 \in 1..Len(s) /\ n + 1 # 0 /\ n + 1 - 1 = n /\ n \in Nat
    BY <1>0, <1>3
  <2>2. g[n + 1] = IF s[n + 1] \in S THEN Append(g[n], s[n + 1]) ELSE g[n]
    <3>1. g = [i \in 0..Len(s) |-> IF i = 0 THEN <<>> ELSE IF s[i] \in S THEN Append(g[i - 1], s[i]) ELSE g[i - 1]]
      BY <1>1 DEF KeptUpTo
    <3>2. \A i \in 0..Len(s) : g[i] = IF i = 0 THEN <<>> ELSE IF s[i] \in S THEN Append(g[i - 1], s[i]) ELSE g[i - 1]
      BY <3>1
    <3> QED
      BY <2>1, <3>2
  <2>3. PICK f : Selects(f, g[n], n, s, S)
    BY <1>3
  <2>4. g[n] \in Seq(R)
    BY <1>3
  <2>5. /\ s[n + 1] \in S => /\ Append(g[n], s[n + 1]) \in Seq(R)
                             /\ \E h : Selects(h, Append(g[n], s[n + 1]), n + 1, s, S)
        /\ s[n + 1] \notin S => Selects(f, g[n], n + 1, s, S)
    BY <2>1, <2>3, <2>4, SelectsMore
  <2> QED
    BY <2>1, <2>2, <2>4, <2>5
<1> HIDE DEF T
<1>4. Len(s) \in T
  BY <1>0, <1>2, <1>3, UpTo
<1> QED
  BY <1>1, <1>4 DEF T

(* The places of a sequence. *)
LEMMA PlacesAreFinite ==
    \A n \in Nat : IsFiniteSet(1..n) /\ Cardinality(1..n) = n
<1> SUFFICES ASSUME NEW n \in Nat PROVE IsFiniteSet(1..n) /\ Cardinality(1..n) = n
  OBVIOUS
<1>1. 1 \in Int /\ n \in Int /\ (IF 1 > n THEN 0 ELSE n - 1 + 1) = n
  OBVIOUS
<1> QED
  BY <1>1, FS_Interval

(* An increasing function leads to no fewer places than it comes from. *)
LEMMA NoMorePlaces ==
    ASSUME NEW n \in Nat, NEW m \in Nat, NEW f \in [1..n -> 1..m],
           \A j, k \in 1..n : j < k => f[j] < f[k]
    PROVE  n <= m
<1>1. \A j \in 1..n : f[j] \in 1..m
  OBVIOUS
<1>2. ASSUME NEW j \in 1..n, NEW k \in 1..n, f[j] = f[k] PROVE j = k
  <2>1. ~(j < k) /\ ~(k < j)
    BY <1>1, <1>2
  <2> QED
    BY <2>1
<1>3. f \in Injection(1..n, 1..m)
  BY <1>2 DEF Injection, IsInjective
<1> QED
  BY <1>3, PlacesAreFinite, FS_Injection

(* The elements that were kept are those of S that the sequence has, and there are no
   more than the sequence has places. *)
LEMMA KeptElements ==
    ASSUME NEW R, NEW s \in Seq(R), NEW S
    PROVE  /\ Kept(s, S) \in Seq(R) /\ Len(Kept(s, S)) \in 0..Len(s)
           /\ \A k \in 1..Len(Kept(s, S)) : Kept(s, S)[k] \in S /\ \E i \in 1..Len(s) : s[i] = Kept(s, S)[k]
           /\ \A i \in 1..Len(s) : s[i] \in S => \E k \in 1..Len(Kept(s, S)) : Kept(s, S)[k] = s[i]
<1> DEFINE q == Kept(s, S)
<1>1. q \in Seq(R) /\ \E f : Selects(f, q, Len(s), s, S)
  BY KeptSelects
<1> HIDE DEF q
<1>2. Len(q) \in Nat /\ Len(s) \in Nat
  BY <1>1
<1>3. PICK f : Selects(f, q, Len(s), s, S)
  BY <1>1
<1>4. \A j \in 1..Len(q) : f[j] \in 1..Len(s)
  BY <1>3 DEF Selects
<1>5. \A j, k \in 1..Len(q) : j < k => f[j] < f[k]
  BY <1>3 DEF Selects
<1>6. f \in [1..Len(q) -> 1..Len(s)]
  BY <1>3 DEF Selects
<1>7. Len(q) <= Len(s)
  BY <1>2, <1>5, <1>6, NoMorePlaces
<1> QED
  BY <1>1, <1>2, <1>3, <1>4, <1>7 DEF Selects, q

====================================================================================

-------------------------- MODULE WorldStreamerProofs --------------------------
(***************************************************************************)
(* What the streamer promises the renderer, for any regions, atlas, slabs, *)
(* budgets and hosts.                                                      *)
(*                                                                         *)
(* A frame is one action that folds over sequences many times.  After the  *)
(* laws of folds and sequences there is a part for each thing a frame      *)
(* computes, with what the invariant needs of it: the jobs on the GPU, the *)
(* plan of residency, the queue of regions on their way in, the reads, the *)
(* sweep, the scatter.  OutcomeFacts puts them together.                   *)
(*                                                                         *)
(* Map.  A slot has one tenant, and a region waits once, in its own slot   *)
(* (Tenants, StagedOk), so what is evicted takes its entries with it.      *)
(*                                                                         *)
(* Prices.  A read vouches only for regions that wait (Vouched), and what  *)
(* a probe tagged is in the count (Tallied), when the read is made and     *)
(* until the region leaves the queue.                                      *)
(*                                                                         *)
(* Holes.  What is missing of a resident region, on the map or not, is in  *)
(* one of four places (MissingIsKnown).  That a landing read covers no     *)
(* report that was not looked at rests on there being one read of the word *)
(* at a time (OneReport).                                                  *)
(*                                                                         *)
(* Scatter.  A frame that counts nothing leaves plan, queue and map as     *)
(* they were (QuietFrame).                                                 *)
(***************************************************************************)
EXTENDS WorldStreamer, TLAPS, FiniteSetTheorems, SequenceTheorems, WellFoundedInduction

-----------------------------------------------------------------------------
(* Folds                                                                   *)

(* Some natural of a set is the least.                                     *)
LEMMA LeastNatural ==
  ASSUME NEW S \in SUBSET Nat, S # {}
  PROVE  \E n \in S : \A m \in S : n <= m
  <1>1. IsWellFoundedOn(OpToRel(<, Nat), Nat)
    BY NatLessThanWellFounded
  <1>2. PICK n \in S : \A m \in S : <<m, n>> \notin OpToRel(<, Nat)
    BY <1>1, WFMin
  <1>3. ASSUME NEW m \in S PROVE ~(m < n)
    BY <1>2 DEF OpToRel
  <1> QED BY <1>3

(* What holds of 0 and goes from n to n + 1 holds of every natural.        *)
LEMMA Stepwise ==
  ASSUME NEW T, 0 \in T, \A n \in Nat : n \in T => n + 1 \in T
  PROVE  Nat \subseteq T
  <1> SUFFICES ASSUME Nat \ T # {} PROVE FALSE
    OBVIOUS
  <1>1. PICK n \in Nat \ T : \A m \in Nat \ T : n <= m
    BY LeastNatural
  <1>2. n - 1 \in Nat /\ (n - 1) + 1 = n
    OBVIOUS
  <1>3. n - 1 \in T
    BY <1>1, <1>2
  <1> QED BY <1>2, <1>3

(* The fold of steps F from a, and where its values are.                   *)
IsFold(g, n, F, a) == g = [i \in 0..n |-> IF i = 0 THEN a ELSE F[i][g[i - 1]]]
Within(g, n, W) == \A i \in 0..n : g[i] \in W[i]

(* A fold whose steps lead from one set of a family to the next exists.    *)
LEMMA FoldExists ==
  ASSUME NEW n \in Nat, NEW W, NEW F, NEW a, a \in W[0],
         \A i \in 1..n : \A x \in W[i - 1] : F[i][x] \in W[i]
  PROVE  \E g : IsFold(g, n, F, a) /\ Within(g, n, W)
<1> USE DEF IsFold, Within
<1> DEFINE Folds(g, m) == IsFold(g, m, F, a) /\ Within(g, m, W)
           T == {m \in Nat : m <= n => \E g : Folds(g, m)}
<1>1. 0 \in T
  <2>1. Folds([i \in 0..0 |-> a], 0)
    OBVIOUS
  <2> QED BY <2>1
<1>2. ASSUME NEW m \in Nat, m \in T PROVE m + 1 \in T
  <2> SUFFICES ASSUME m + 1 <= n PROVE \E g : Folds(g, m + 1)
    OBVIOUS
  <2>1. PICK g : Folds(g, m)
    BY <1>2
  <2> DEFINE h == [i \in 0..(m + 1) |-> IF i = m + 1 THEN F[m + 1][g[m]] ELSE g[i]]
  <2>2. g[m] \in W[m] /\ m + 1 \in 1..n /\ (m + 1) - 1 = m
    BY <2>1
  <2>3. F[m + 1][g[m]] \in W[m + 1]
    BY <2>2
  <2>4. ASSUME NEW i \in 0..(m + 1)
        PROVE  /\ h[i] = IF i = 0 THEN a ELSE F[i][h[i - 1]]
               /\ h[i] \in W[i]
    <3>1. CASE i = m + 1
      BY <3>1, <2>3
    <3>2. CASE i # m + 1
      <4>1. i \in 0..m /\ h[i] = g[i] /\ (i # 0 => h[i - 1] = g[i - 1])
        BY <3>2
      <4>2. g[i] = IF i = 0 THEN a ELSE F[i][g[i - 1]]
        BY <4>1, <2>1
      <4> HIDE DEF h
      <4> QED BY <4>1, <4>2, <2>1
    <3> QED BY <3>1, <3>2
  <2>5. h = [i \in 0..(m + 1) |-> h[i]]
    OBVIOUS
  <2>6. h = [i \in 0..(m + 1) |-> IF i = 0 THEN a ELSE F[i][h[i - 1]]]
    <3> HIDE DEF h
    <3> QED BY <2>4, <2>5
  <2>7. Folds(h, m + 1)
    <3> HIDE DEF h
    <3> QED BY <2>4, <2>6
  <2> HIDE DEF h, Folds
  <2> QED BY <2>7
<1>3. Nat \subseteq T
  <2> HIDE DEF T
  <2> QED BY <1>1, <1>2, Stepwise
<1>4. PICK g : Folds(g, n)
  BY <1>3
<1> QED BY <1>4

(* What follows the family step by step is in it throughout.               *)
LEMMA FoldStays ==
  ASSUME NEW n \in Nat, NEW W, NEW h, h[0] \in W[0],
         \A i \in 1..n : h[i - 1] \in W[i - 1] => h[i] \in W[i]
  PROVE  h[n] \in W[n]
<1> DEFINE T == {i \in Nat : i <= n => h[i] \in W[i]}
<1>1. 0 \in T
  OBVIOUS
<1>2. ASSUME NEW i \in Nat, i \in T PROVE i + 1 \in T
  <2> SUFFICES ASSUME i + 1 <= n PROVE h[i + 1] \in W[i + 1]
    OBVIOUS
  <2>1. h[i] \in W[i] /\ i + 1 \in 1..n /\ (i + 1) - 1 = i
    BY <1>2
  <2> QED BY <2>1
<1>3. Nat \subseteq T
  <2> HIDE DEF T
  <2> QED BY <1>1, <1>2, Stepwise
<1> QED BY <1>3

-----------------------------------------------------------------------------
(* Finite sets in order                                                    *)

(* In a total order some element of a finite set is first.                 *)
LEMMA FiniteHasFirst ==
  ASSUME NEW S, IsFiniteSet(S), S # {}, NEW R,
         \A x, y \in S : <<x, y>> \in R \/ <<y, x>> \in R,
         \A x, y, z \in S : <<x, y>> \in R /\ <<y, z>> \in R => <<x, z>> \in R
  PROVE  \E x \in S : \A y \in S : <<x, y>> \in R
<1> DEFINE First(x, X) == \A y \in X : <<x, y>> \in R
           T == {n \in Nat : \A X \in SUBSET S : Cardinality(X) = n + 1 => \E x \in X : First(x, X)}
<1>0. \A X \in SUBSET S : IsFiniteSet(X) /\ Cardinality(X) \in Nat
  BY FS_Subset, FS_CardinalityType
<1>1. 0 \in T
  <2> SUFFICES ASSUME NEW X \in SUBSET S, Cardinality(X) = 1 PROVE \E x \in X : First(x, X)
    OBVIOUS
  <2>1. PICK x : X = {x}
    BY <1>0, FS_Singleton
  <2> QED BY <2>1
<1>2. ASSUME NEW n \in Nat, n \in T PROVE n + 1 \in T
  <2> SUFFICES ASSUME NEW X \in SUBSET S, Cardinality(X) = n + 1 + 1
               PROVE  \E x \in X : First(x, X)
    OBVIOUS
  <2>1. PICK x \in X : TRUE
    BY FS_EmptySet
  <2>2. Cardinality(X \ {x}) = n + 1
    <3>1. Cardinality(X \ {x}) = Cardinality(X) - 1
      BY <1>0, FS_RemoveElement
    <3> QED BY <3>1
  <2>3. PICK y \in X \ {x} : First(y, X \ {x})
    BY <1>2, <2>2
  <2>4. CASE <<x, y>> \in R
    <3>1. First(x, X)
      BY <2>3, <2>4
    <3> QED BY <3>1
  <2>5. CASE <<y, x>> \in R
    <3>1. First(y, X)
      BY <2>3, <2>5
    <3> QED BY <3>1
  <2> QED BY <2>4, <2>5
<1>3. Nat \subseteq T
  <2> HIDE DEF T
  <2> QED BY <1>1, <1>2, Stepwise
<1>4. Cardinality(S) - 1 \in T
  <2>1. Cardinality(S) # 0
    BY FS_EmptySet
  <2> QED BY <1>0, <1>3, <2>1
<1> QED BY <1>0, <1>4

(* A finite set of integers has a least and a greatest.                    *)
LEMMA HasLeast ==
  ASSUME NEW S \in SUBSET Int, IsFiniteSet(S), S # {}
  PROVE  \E x \in S : \A y \in S : x <= y
<1> DEFINE R == {p \in S \X S : p[1] <= p[2]}
<1>1. \A x, y \in S : <<x, y>> \in R <=> x <= y
  OBVIOUS
<1>2. \A x, y, z \in S : (x <= y \/ y <= x) /\ (x <= y /\ y <= z => x <= z)
  OBVIOUS
<1> HIDE DEF R
<1>3. \A x, y \in S : <<x, y>> \in R \/ <<y, x>> \in R
  BY <1>1, <1>2
<1>4. \A x, y, z \in S : <<x, y>> \in R /\ <<y, z>> \in R => <<x, z>> \in R
  BY <1>1, <1>2
<1>5. \E x \in S : \A y \in S : <<x, y>> \in R
  BY <1>3, <1>4, FiniteHasFirst
<1> QED BY <1>1, <1>5

LEMMA HasGreatest ==
  ASSUME NEW S \in SUBSET Int, IsFiniteSet(S), S # {}
  PROVE  \E x \in S : \A y \in S : y <= x
<1> DEFINE R == {p \in S \X S : p[2] <= p[1]}
<1>1. \A x, y \in S : <<x, y>> \in R <=> y <= x
  OBVIOUS
<1>2. \A x, y, z \in S : (x <= y \/ y <= x) /\ (y <= x /\ z <= y => z <= x)
  OBVIOUS
<1> HIDE DEF R
<1>3. \A x, y \in S : <<x, y>> \in R \/ <<y, x>> \in R
  BY <1>1, <1>2
<1>4. \A x, y, z \in S : <<x, y>> \in R /\ <<y, z>> \in R => <<x, z>> \in R
  BY <1>1, <1>2
<1>5. \E x \in S : \A y \in S : <<x, y>> \in R
  BY <1>3, <1>4, FiniteHasFirst
<1> QED BY <1>1, <1>5

LEMMA AscendingExists ==
  ASSUME NEW S \in SUBSET Int, IsFiniteSet(S)
  PROVE  \E q \in [1..Cardinality(S) -> S] :
           \A i, j \in 1..Cardinality(S) : i < j => q[i] < q[j]
<1> DEFINE Sorted(q, n) == \A i, j \in 1..n : i < j => q[i] < q[j]
           Sortable(n) == \A X \in SUBSET Int : IsFiniteSet(X) /\ Cardinality(X) = n
                            => \E q \in [1..n -> X] : Sorted(q, n)
           T == {n \in Nat : Sortable(n)}
<1>1. 0 \in T
  <2> SUFFICES ASSUME NEW X \in SUBSET Int PROVE \E q \in [1..0 -> X] : Sorted(q, 0)
    OBVIOUS
  <2>1. [i \in 1..0 |-> i] \in [1..0 -> X]
    OBVIOUS
  <2> QED BY <2>1
<1>2. ASSUME NEW n \in Nat, n \in T PROVE n + 1 \in T
  <2> SUFFICES ASSUME NEW X \in SUBSET Int, IsFiniteSet(X), Cardinality(X) = n + 1
               PROVE  \E q \in [1..(n + 1) -> X] : Sorted(q, n + 1)
    OBVIOUS
  <2>1. X # {}
    BY FS_EmptySet
  <2>2. PICK x \in X : \A y \in X : x <= y
    BY <2>1, HasLeast
  <2>3. IsFiniteSet(X \ {x}) /\ Cardinality(X \ {x}) = n
    <3>1. IsFiniteSet(X \ {x}) /\ Cardinality(X \ {x}) = Cardinality(X) - 1
      BY FS_RemoveElement
    <3> QED BY <3>1
  <2>4. PICK q \in [1..n -> X \ {x}] : Sorted(q, n)
    BY <1>2, <2>3
  <2> DEFINE p == [i \in 1..(n + 1) |-> IF i = 1 THEN x ELSE q[i - 1]]
  <2>5. p \in [1..(n + 1) -> X]
    OBVIOUS
  <2>6. Sorted(p, n + 1)
    <3> SUFFICES ASSUME NEW i \in 1..(n + 1), NEW j \in 1..(n + 1), i < j PROVE p[i] < p[j]
      OBVIOUS
    <3>1. j - 1 \in 1..n /\ p[j] = q[j - 1]
      OBVIOUS
    <3>2. CASE i = 1
      <4>1. q[j - 1] \in X /\ q[j - 1] # x /\ p[i] = x
        BY <3>1, <3>2
      <4>2. x \in Int /\ q[j - 1] \in Int /\ x <= q[j - 1]
        BY <4>1, <2>2
      <4>3. x < q[j - 1]
        BY <4>1, <4>2
      <4> HIDE DEF p
      <4> QED BY <4>1, <4>3, <3>1
    <3>3. CASE i # 1
      <4>1. i - 1 \in 1..n /\ p[i] = q[i - 1] /\ i - 1 < j - 1
        BY <3>3
      <4> QED BY <4>1, <3>1, <2>4
    <3> QED BY <3>2, <3>3
  <2> HIDE DEF p
  <2> QED BY <2>5, <2>6
<1>3. Nat \subseteq T
  <2> HIDE DEF T
  <2> QED BY <1>1, <1>2, Stepwise
<1>4. Cardinality(S) \in Nat
  BY FS_CardinalityType
<1>5. Sortable(Cardinality(S))
  BY <1>3, <1>4
<1> QED BY <1>5

(* The enumeration of a finite set of integers.                            *)
LEMMA AscendingIsSeq ==
  ASSUME NEW S \in SUBSET Int, IsFiniteSet(S)
  PROVE  Ascending(S) \in Seq(S)
<1> DEFINE n == Cardinality(S)
<1>1. n \in Nat
  BY FS_CardinalityType
<1>2. Ascending(S) \in [1..n -> S]
  BY AscendingExists DEF Ascending
<1> QED BY <1>1, <1>2, IsASeq

(* The choices of the residency.                                           *)
LEMMA LowestIsIn ==
  ASSUME NEW S \in SUBSET Regions, S # {}
  PROVE  Lowest(S) \in S
<1>1. S \in SUBSET Int /\ IsFiniteSet(S)
  BY StreamerAssumption, FS_Subset
<1> QED BY <1>1, HasLeast DEF Lowest

LEMMA GreatestIsIn ==
  ASSUME NEW S \in SUBSET Int, IsFiniteSet(S), S # {}
  PROVE  Greatest(S) \in S
  BY HasGreatest DEF Greatest

LEMMA NearestIsNearest ==
  ASSUME cam \in Int, NEW S \in SUBSET Regions, S # {}
  PROVE  /\ Nearest(S) \in S
         /\ \A q \in S : Distance(Nearest(S), cam) <= Distance(q, cam)
<1> DEFINE Before(r, q) == \/ Distance(r, cam) < Distance(q, cam)
                           \/ Distance(r, cam) = Distance(q, cam) /\ r <= q
           R == {p \in S \X S : Before(p[1], p[2])}
<1>0. S \in SUBSET Int /\ IsFiniteSet(S)
  BY StreamerAssumption, FS_Subset
<1>1. \A x, y \in S : <<x, y>> \in R <=> Before(x, y)
  OBVIOUS
<1>2. /\ \A x \in S : Distance(x, cam) \in Int
      /\ \A x, y \in S : Before(x, y) \/ Before(y, x)
      /\ \A x, y, z \in S : Before(x, y) /\ Before(y, z) => Before(x, z)
  BY <1>0 DEF Distance
<1>3. \E x \in S : \A y \in S : <<x, y>> \in R
  <2> HIDE DEF R, Before
  <2>1. \A x, y \in S : <<x, y>> \in R \/ <<y, x>> \in R
    BY <1>1, <1>2
  <2>2. \A x, y, z \in S : <<x, y>> \in R /\ <<y, z>> \in R => <<x, z>> \in R
    BY <1>1, <1>2
  <2> QED BY <1>0, <2>1, <2>2, FiniteHasFirst
<1>4. \E x \in S : \A y \in S : Before(x, y)
  BY <1>1, <1>3
<1>5. Nearest(S) \in S /\ \A q \in S : Before(Nearest(S), q)
  BY <1>4 DEF Nearest
<1> QED BY <1>2, <1>5

LEMMA FurthestIsIn ==
  ASSUME cam \in Int, NEW S \in SUBSET Regions, S # {}
  PROVE  Furthest(S) \in S
<1> DEFINE Before(r, q) == \/ Distance(q, cam) < Distance(r, cam)
                           \/ Distance(q, cam) = Distance(r, cam) /\ r <= q
           R == {p \in S \X S : Before(p[1], p[2])}
<1>0. S \in SUBSET Int /\ IsFiniteSet(S)
  BY StreamerAssumption, FS_Subset
<1>1. \A x, y \in S : <<x, y>> \in R <=> Before(x, y)
  OBVIOUS
<1>2. /\ \A x \in S : Distance(x, cam) \in Int
      /\ \A x, y \in S : Before(x, y) \/ Before(y, x)
      /\ \A x, y, z \in S : Before(x, y) /\ Before(y, z) => Before(x, z)
  BY <1>0 DEF Distance
<1>3. \E x \in S : \A y \in S : <<x, y>> \in R
  <2> HIDE DEF R, Before
  <2>1. \A x, y \in S : <<x, y>> \in R \/ <<y, x>> \in R
    BY <1>1, <1>2
  <2>2. \A x, y, z \in S : <<x, y>> \in R /\ <<y, z>> \in R => <<x, z>> \in R
    BY <1>1, <1>2
  <2> QED BY <1>0, <2>1, <2>2, FiniteHasFirst
<1>4. \E x \in S : \A y \in S : Before(x, y)
  BY <1>1, <1>3
<1> QED BY <1>4 DEF Furthest

-----------------------------------------------------------------------------
(* Sequences                                                               *)

Once(q) == \A i, j \in DOMAIN q : q[i] = q[j] => i = j

LEMMA InRange ==
  ASSUME NEW q, NEW x
  PROVE  x \in Range(q) <=> \E i \in DOMAIN q : q[i] = x
  BY DEF Range

LEMMA AppendFacts ==
  ASSUME NEW T, NEW q \in Seq(T), NEW e \in T
  PROVE  /\ Append(q, e) \in Seq(T)
         /\ DOMAIN Append(q, e) = 1..(Len(q) + 1)
         /\ DOMAIN q = 1..Len(q) /\ Len(q) \in Nat
         /\ \A i \in 1..Len(q) : Append(q, e)[i] = q[i]
         /\ Append(q, e)[Len(q) + 1] = e
         /\ Range(Append(q, e)) = Range(q) \cup {e}
         /\ Once(q) /\ e \notin Range(q) => Once(Append(q, e))
<1> DEFINE p == Append(q, e)
<1>1. /\ p \in Seq(T)
      /\ Len(p) = Len(q) + 1
      /\ \A i \in 1..Len(q) : p[i] = q[i]
      /\ p[Len(q) + 1] = e
  BY AppendProperties
<1> HIDE DEF p
<1>2. Len(q) \in Nat /\ DOMAIN q = 1..Len(q) /\ DOMAIN p = 1..(Len(q) + 1)
  BY <1>1, LenProperties
<1>3. Range(p) = Range(q) \cup {e}
  <2>1. ASSUME NEW x \in Range(p) PROVE x \in Range(q) \cup {e}
    <3>1. PICK i \in 1..(Len(q) + 1) : p[i] = x
      BY <1>2, <2>1, InRange
    <3>2. CASE i = Len(q) + 1
      BY <3>1, <3>2, <1>1
    <3>3. CASE i # Len(q) + 1
      <4>1. i \in 1..Len(q)
        BY <1>2, <3>3
      <4> QED BY <4>1, <3>1, <1>1, <1>2, InRange
    <3> QED BY <3>2, <3>3
  <2>2. ASSUME NEW x \in Range(q) PROVE x \in Range(p)
    <3>1. PICK i \in 1..Len(q) : q[i] = x
      BY <1>2, <2>2, InRange
    <3>2. i \in 1..(Len(q) + 1) /\ p[i] = x
      BY <1>1, <1>2, <3>1
    <3> QED BY <3>2, <1>2, InRange
  <2>3. e \in Range(p)
    <3>1. Len(q) + 1 \in 1..(Len(q) + 1)
      BY <1>2
    <3> QED BY <3>1, <1>1, <1>2, InRange
  <2> QED BY <2>1, <2>2, <2>3
<1>4. Once(q) /\ e \notin Range(q) => Once(p)
  <2> SUFFICES ASSUME Once(q), e \notin Range(q),
                      NEW i \in 1..(Len(q) + 1), NEW j \in 1..(Len(q) + 1), p[i] = p[j]
               PROVE  i = j
    BY <1>2 DEF Once
  <2>1. \A m \in 1..Len(q) : p[m] = q[m] /\ q[m] # e
    BY <1>1, <1>2, InRange
  <2>2. \A m \in 1..(Len(q) + 1) : m = Len(q) + 1 \/ m \in 1..Len(q)
    BY <1>2
  <2> QED BY <1>1, <1>2, <2>1, <2>2 DEF Once
<1> QED BY <1>1, <1>2, <1>3, <1>4 DEF p

LEMMA ConcatFacts ==
  ASSUME NEW T, NEW q \in Seq(T), NEW p \in Seq(T)
  PROVE  q \o p \in Seq(T) /\ Range(q \o p) = Range(q) \cup Range(p)
<1> DEFINE c == q \o p
<1>1. /\ c \in Seq(T)
      /\ Len(c) = Len(q) + Len(p)
      /\ \A i \in 1..(Len(q) + Len(p)) : c[i] = IF i <= Len(q) THEN q[i] ELSE p[i - Len(q)]
  BY ConcatProperties
<1> HIDE DEF c
<1>2. /\ Len(q) \in Nat /\ Len(p) \in Nat
      /\ DOMAIN q = 1..Len(q) /\ DOMAIN p = 1..Len(p) /\ DOMAIN c = 1..(Len(q) + Len(p))
  BY <1>1, LenProperties
<1>3. ASSUME NEW x \in Range(c) PROVE x \in Range(q) \cup Range(p)
  <2>1. PICK i \in 1..(Len(q) + Len(p)) : c[i] = x
    BY <1>2, <1>3, InRange
  <2>2. CASE i <= Len(q)
    <3>1. i \in 1..Len(q) /\ q[i] = x
      BY <1>1, <1>2, <2>1, <2>2
    <3> QED BY <3>1, <1>2, InRange
  <2>3. CASE ~(i <= Len(q))
    <3>1. i - Len(q) \in 1..Len(p) /\ p[i - Len(q)] = x
      BY <1>1, <1>2, <2>1, <2>3
    <3> QED BY <3>1, <1>2, InRange
  <2> QED BY <2>2, <2>3
<1>4. ASSUME NEW x \in Range(q) PROVE x \in Range(c)
  <2>1. PICK i \in 1..Len(q) : q[i] = x
    BY <1>2, <1>4, InRange
  <2>2. i \in 1..(Len(q) + Len(p)) /\ c[i] = x
    BY <1>1, <1>2, <2>1
  <2> QED BY <2>2, <1>2, InRange
<1>5. ASSUME NEW x \in Range(p) PROVE x \in Range(c)
  <2>1. PICK i \in 1..Len(p) : p[i] = x
    BY <1>2, <1>5, InRange
  <2>2. i + Len(q) \in 1..(Len(q) + Len(p)) /\ ~(i + Len(q) <= Len(q)) /\ (i + Len(q)) - Len(q) = i
    BY <1>2
  <2>3. c[i + Len(q)] = x
    BY <1>1, <2>1, <2>2
  <2> QED BY <2>2, <2>3, <1>2, InRange
<1> QED BY <1>1, <1>3, <1>4, <1>5 DEF c

LEMMA EmptyFacts ==
  ASSUME NEW T
  PROVE  <<>> \in Seq(T) /\ Range(<<>>) = {} /\ Once(<<>>) /\ DOMAIN <<>> = {} /\ Len(<<>>) = 0
  BY DEF Range, Once

(* What is left of a sequence is what is in the set.                       *)
LEMMA OnlyFacts ==
  ASSUME NEW T, NEW q \in Seq(T), NEW S
  PROVE  /\ Only(q, S) \in Seq(T)
         /\ Range(Only(q, S)) = Range(q) \cap S
         /\ Once(q) => Once(Only(q, S))
<1> DEFINE n == Len(q)
           To(i) == {q[m] : m \in 1..i}
           V(i) == {x \in Seq(T) : Range(x) = To(i) \cap S /\ (Once(q) => Once(x))}
           W == [i \in 0..n |-> V(i)]
           Step(x, i) == IF q[i] \in S THEN Append(x, q[i]) ELSE x
           F == [i \in 1..n |-> [x \in V(i - 1) |-> Step(x, i)]]
           Folds(g) == g = [i \in 0..n |->
                              IF i = 0 THEN <<>>
                              ELSE IF q[i] \in S THEN Append(g[i - 1], q[i]) ELSE g[i - 1]]
           of == CHOOSE g : Folds(g)
<1>0. n \in Nat /\ DOMAIN q = 1..n /\ \A i \in 1..n : q[i] \in T
  BY LenProperties
<1>1. <<>> \in W[0]
  <2>1. To(0) = {}
    BY <1>0
  <2> HIDE DEF To
  <2>2. 0 \in 0..n
    BY <1>0
  <2> QED BY <2>1, <2>2, EmptyFacts
<1>2. \A i \in 1..n : \A x \in W[i - 1] : Step(x, i) \in W[i] /\ F[i][x] = Step(x, i)
  <2> SUFFICES ASSUME NEW i \in 1..n, NEW x \in W[i - 1]
               PROVE  Step(x, i) \in W[i] /\ F[i][x] = Step(x, i)
    OBVIOUS
  <2>1. i - 1 \in 0..n /\ i \in 0..n
    BY <1>0
  <2>2. x \in V(i - 1)
    BY <2>1
  <2>3. To(i) = To(i - 1) \cup {q[i]}
    <3>1. \A m \in 1..i : m = i \/ m \in 1..(i - 1)
      OBVIOUS
    <3>2. \A m \in 1..(i - 1) : m \in 1..i
      OBVIOUS
    <3>3. i \in 1..i
      OBVIOUS
    <3> QED BY <3>1, <3>2, <3>3
  <2>4. Once(q) => q[i] \notin To(i - 1)
    BY <1>0 DEF Once
  <2>5. Step(x, i) \in V(i)
    <3>1. CASE q[i] \in S
      <4> HIDE DEF To
      <4>1. x \in Seq(T) /\ Range(x) = To(i - 1) \cap S /\ (Once(q) => Once(x))
        BY <2>2
      <4>2. /\ Append(x, q[i]) \in Seq(T)
            /\ Range(Append(x, q[i])) = Range(x) \cup {q[i]}
            /\ Once(x) /\ q[i] \notin Range(x) => Once(Append(x, q[i]))
        BY <1>0, <4>1, AppendFacts
      <4> QED BY <3>1, <4>1, <4>2, <2>3, <2>4
    <3>2. CASE q[i] \notin S
      <4> HIDE DEF To
      <4> QED BY <3>2, <2>2, <2>3
    <3> QED BY <3>1, <3>2
  <2> HIDE DEF Step, V
  <2> QED BY <2>1, <2>2, <2>5
<1> HIDE DEF Step, W, F
<1>3. PICK g : IsFold(g, n, F, <<>>) /\ Within(g, n, W)
  BY <1>0, <1>1, <1>2, FoldExists
<1>4. Folds(g)
  <2>1. \A i \in 1..n : i - 1 \in 0..n /\ g[i - 1] \in W[i - 1]
    BY <1>0, <1>3 DEF Within
  <2>2. \A i \in 1..n : F[i][g[i - 1]] = Step(g[i - 1], i)
    BY <1>2, <2>1
  <2>3. g = [i \in 0..n |-> g[i]]
    BY <1>3 DEF IsFold
  <2>4. \A i \in 0..n : g[i] = IF i = 0 THEN <<>> ELSE F[i][g[i - 1]]
    BY <1>3 DEF IsFold
  <2>5. \A i \in 0..n : g[i] = IF i = 0 THEN <<>> ELSE Step(g[i - 1], i)
    BY <1>0, <2>2, <2>4
  <2> QED BY <2>3, <2>5 DEF Step
<1>5. Folds(of)
  BY <1>4
<1> HIDE DEF of
<1>6. of[0] \in W[0] /\ \A i \in 1..n : of[i - 1] \in W[i - 1] => of[i] \in W[i]
  <2>1. \A i \in 0..n : of[i] = IF i = 0 THEN <<>>
                                ELSE IF q[i] \in S THEN Append(of[i - 1], q[i]) ELSE of[i - 1]
    BY <1>5, Zenon
  <2>2. of[0] = <<>> /\ \A i \in 1..n : of[i] = Step(of[i - 1], i)
    BY <1>0, <2>1 DEF Step
  <2> QED BY <1>0, <1>1, <1>2, <2>2
<1>7. of[n] \in W[n]
  BY <1>0, <1>6, FoldStays
<1>8. Only(q, S) = of[n]
  BY DEF Only, of
<1>9. of[n] \in V(n) /\ To(n) = Range(q)
  BY <1>0, <1>7 DEF W, Range
<1> QED BY <1>8, <1>9

-----------------------------------------------------------------------------
(* Types                                                                   *)

Words == {"full", "jobs"}
Marks == {"absent", "staged", "stale", "fresh"}
Modes == {"plain", "probe", "allocate", "force", "edit"}
Homes == [Regions -> Slots \cup {None}]
Entries == [region : Regions, slot : Slots, next : 0..Slabs, force : BOOLEAN]
Tables == [Slots -> [Bricks -> Marks]]
Tallies == [Slots -> [Bricks -> Nat]]
Counts == [counts : Tallies, covers : SUBSET Regions]
Batches == [counters : Counters \cup {None}, counts : Counts \cup {None}]
Knowns == [free : Int, owed : Int, costs : [Slots -> Int], counts : Tallies, counted : SUBSET Regions]
Scatters == [at : Int, over : SUBSET (Regions \X Bricks), again : SUBSET Regions]
Gpus == [tab : Tables, tally : Tallies, over : SUBSET Words, jobs : Nat]
Jobs == [region : Regions, slot : Slots, bricks : SUBSET Bricks, mode : Modes]

-----------------------------------------------------------------------------
(* Jobs                                                                    *)

(* Where a brick may get while no overflow is reported.                    *)
Leads(a, b) == b = a \/ b = "fresh" \/ (a = "absent" /\ b = "staged")

(* What jobs make of the tables: slots are kept, a brick goes towards its  *)
(* bytes or an overflow is reported, and what is staged was counted.       *)
Advances(g, h) ==
  /\ g.over \subseteq h.over
  /\ \A s \in Slots, k \in Bricks :
        /\ h.over = {} => Leads(g.tab[s][k], h.tab[s][k])
        /\ g.tab[s][k] \in Allocated => h.tab[s][k] \in Allocated
        /\ (g.tab[s][k] = "staged" => g.tally[s][k] > 0)
             => (h.tab[s][k] = "staged" => h.tally[s][k] > 0)

(* A job of J did what changed, and a probe what became staged.            *)
Traced(g, h, J) ==
  \A s \in Slots, k \in Bricks :
     /\ h.tab[s][k] # g.tab[s][k] => \E j \in J : j.slot = s /\ k \in j.bricks
     /\ h.tab[s][k] = "staged" /\ g.tab[s][k] # "staged" => \E j \in J : j.slot = s /\ j.mode = "probe"

(* Brick k got from job j what it asks for, or an overflow is reported.    *)
Served(g, h, j, k) ==
  h.over = {} /\ k \in surf[j.region] =>
    /\ j.mode \in {"force", "edit"} => h.tab[j.slot][k] = "fresh"
    /\ j.mode = "probe" => h.tab[j.slot][k] # "absent"
    /\ j.mode = "allocate" /\ g.tab[j.slot][k] = "staged" => h.tab[j.slot][k] = "fresh"

LEMMA AdvancesItself ==
  ASSUME NEW g \in Gpus, NEW J
  PROVE  Advances(g, g) /\ Traced(g, g, J)
  BY DEF Advances, Traced, Leads

LEMMA AdvancesOn ==
  ASSUME NEW f \in Gpus, NEW g \in Gpus, NEW h \in Gpus, Advances(f, g), Advances(g, h)
  PROVE  Advances(f, h)
<1>1. f.over \subseteq h.over /\ (h.over = {} => g.over = {})
  BY DEF Advances
<1>2. ASSUME NEW s \in Slots, NEW k \in Bricks
      PROVE  /\ h.over = {} => Leads(f.tab[s][k], h.tab[s][k])
             /\ f.tab[s][k] \in Allocated => h.tab[s][k] \in Allocated
             /\ (f.tab[s][k] = "staged" => f.tally[s][k] > 0)
                  => (h.tab[s][k] = "staged" => h.tally[s][k] > 0)
  <2>1. h.over = {} => Leads(f.tab[s][k], h.tab[s][k])
    BY <1>1 DEF Advances, Leads
  <2>2. f.tab[s][k] \in Allocated => h.tab[s][k] \in Allocated
    BY DEF Advances
  <2>3. (f.tab[s][k] = "staged" => f.tally[s][k] > 0)
          => (h.tab[s][k] = "staged" => h.tally[s][k] > 0)
    BY DEF Advances
  <2> QED BY <2>1, <2>2, <2>3
<1> QED BY <1>1, <1>2 DEF Advances

LEMMA TracedOn ==
  ASSUME NEW f, NEW g, NEW h, NEW I, NEW J, Traced(f, g, I), Traced(g, h, J)
  PROVE  Traced(f, h, I \cup J)
<1> SUFFICES ASSUME NEW s \in Slots, NEW k \in Bricks
             PROVE  /\ h.tab[s][k] # f.tab[s][k] => \E j \in I \cup J : j.slot = s /\ k \in j.bricks
                    /\ h.tab[s][k] = "staged" /\ f.tab[s][k] # "staged"
                         => \E j \in I \cup J : j.slot = s /\ j.mode = "probe"
  BY DEF Traced
<1> DEFINE x == f.tab[s][k]
           y == g.tab[s][k]
           z == h.tab[s][k]
<1>1. /\ y # x => \E j \in I : j.slot = s /\ k \in j.bricks
      /\ y = "staged" /\ x # "staged" => \E j \in I : j.slot = s /\ j.mode = "probe"
  BY DEF Traced
<1>2. /\ z # y => \E j \in J : j.slot = s /\ k \in j.bricks
      /\ z = "staged" /\ y # "staged" => \E j \in J : j.slot = s /\ j.mode = "probe"
  BY DEF Traced
<1> HIDE DEF x, y, z
<1>3. /\ z # x => \E j \in I \cup J : j.slot = s /\ k \in j.bricks
      /\ z = "staged" /\ x # "staged" => \E j \in I \cup J : j.slot = s /\ j.mode = "probe"
  BY <1>1, <1>2
<1> QED BY <1>3 DEF x, z

LEMMA ServedOn ==
  ASSUME NEW f \in Gpus, NEW g \in Gpus, NEW h \in Gpus, Advances(f, g), Advances(g, h),
         NEW j \in Jobs, NEW k \in Bricks, Served(f, g, j, k) \/ Served(g, h, j, k)
  PROVE  Served(f, h, j, k)
<1> SUFFICES ASSUME h.over = {}, k \in surf[j.region]
             PROVE  /\ j.mode \in {"force", "edit"} => h.tab[j.slot][k] = "fresh"
                    /\ j.mode = "probe" => h.tab[j.slot][k] # "absent"
                    /\ j.mode = "allocate" /\ f.tab[j.slot][k] = "staged" => h.tab[j.slot][k] = "fresh"
  BY DEF Served
<1> DEFINE x == f.tab[j.slot][k]
           y == g.tab[j.slot][k]
           z == h.tab[j.slot][k]
<1>1. g.over = {} /\ j.slot \in Slots
  BY DEF Advances, Jobs
<1>2. Leads(x, y) /\ Leads(y, z)
  BY <1>1 DEF Advances
<1>3. \/ /\ j.mode \in {"force", "edit"} => y = "fresh"
         /\ j.mode = "probe" => y # "absent"
         /\ j.mode = "allocate" /\ x = "staged" => y = "fresh"
      \/ /\ j.mode \in {"force", "edit"} => z = "fresh"
         /\ j.mode = "probe" => z # "absent"
         /\ j.mode = "allocate" /\ y = "staged" => z = "fresh"
  BY <1>1 DEF Served
<1> HIDE DEF x, y, z
<1>4. /\ j.mode \in {"force", "edit"} => z = "fresh"
      /\ j.mode = "probe" => z # "absent"
      /\ j.mode = "allocate" /\ x = "staged" => z = "fresh"
  BY <1>2, <1>3 DEF Leads
<1> QED BY <1>4 DEF x, z

LEMMA GenerateFacts ==
  ASSUME NEW g \in Gpus, NEW s \in Slots, NEW k \in Bricks
  PROVE  /\ Generate(g, s, k) \in Gpus
         /\ Advances(g, Generate(g, s, k))
         /\ Generate(g, s, k).tab[s][k] = "fresh" \/ Generate(g, s, k).over # {}
         /\ Generate(g, s, k).tab[s][k] = "staged" => g.tab[s][k] = "staged"
         /\ \A a \in Slots, b \in Bricks :
               a # s \/ b # k => Generate(g, s, k).tab[a][b] = g.tab[a][b]
<1> DEFINE h == Generate(g, s, k)
<1>0. /\ g.tab \in Tables /\ g.tally \in Tallies /\ g.over \in SUBSET Words /\ g.jobs \in Nat
      /\ \A a \in Slots, b \in Bricks : g.tab[a][b] \in Marks
  BY DEF Gpus, Tables
<1> SUFFICES /\ h \in Gpus /\ h.tally = g.tally /\ g.over \subseteq h.over
             /\ \A a \in Slots, b \in Bricks : a # s \/ b # k => h.tab[a][b] = g.tab[a][b]
             /\ h.tab[s][k] = "fresh" \/ h.over # {}
             /\ \/ h.tab[s][k] \in Allocated
                \/ h.tab[s][k] = g.tab[s][k] /\ g.tab[s][k] \notin Allocated
  <2> HIDE DEF h
  <2>1. Advances(g, h)
    BY <1>0 DEF Advances, Leads, Allocated
  <2> QED BY <2>1, <1>0 DEF h, Allocated
<1>1. CASE g.tab[s][k] \notin Allocated /\ FreeSlots(g.tab) = 0
  <2>1. h = [g EXCEPT !.over = @ \cup {"full"}]
    BY <1>1 DEF Generate
  <2>2. h = [tab |-> g.tab, tally |-> g.tally, over |-> g.over \cup {"full"}, jobs |-> g.jobs]
    BY <2>1 DEF Gpus
  <2> HIDE DEF h
  <2> QED BY <1>0, <1>1, <2>2 DEF Gpus, Words
<1>2. CASE ~(g.tab[s][k] \notin Allocated /\ FreeSlots(g.tab) = 0) /\ g.jobs >= BrickJobs
  <2> DEFINE t == [g.tab EXCEPT ![s][k] = "stale"]
  <2>1. h = [g EXCEPT !.tab[s][k] = "stale", !.over = @ \cup {"jobs"}]
    BY <1>2 DEF Generate
  <2>2. h = [tab |-> t, tally |-> g.tally, over |-> g.over \cup {"jobs"}, jobs |-> g.jobs]
    BY <2>1 DEF Gpus
  <2>3. t \in Tables /\ \A a \in Slots, b \in Bricks : t[a][b] = IF a = s /\ b = k THEN "stale" ELSE g.tab[a][b]
    <3>1. g.tab \in Tables
      BY <1>0
    <3> QED BY <3>1 DEF Tables, Marks
  <2> HIDE DEF h, t
  <2> QED BY <1>0, <2>2, <2>3 DEF Gpus, Words, Allocated
<1>3. CASE ~(g.tab[s][k] \notin Allocated /\ FreeSlots(g.tab) = 0) /\ ~(g.jobs >= BrickJobs)
  <2> DEFINE t == [g.tab EXCEPT ![s][k] = "fresh"]
  <2>1. h = [g EXCEPT !.tab[s][k] = "fresh", !.jobs = @ + 1]
    BY <1>3 DEF Generate
  <2>2. h = [tab |-> t, tally |-> g.tally, over |-> g.over, jobs |-> g.jobs + 1]
    BY <2>1 DEF Gpus
  <2>3. t \in Tables /\ \A a \in Slots, b \in Bricks : t[a][b] = IF a = s /\ b = k THEN "fresh" ELSE g.tab[a][b]
    <3>1. g.tab \in Tables
      BY <1>0
    <3> QED BY <3>1 DEF Tables, Marks
  <2> HIDE DEF h, t
  <2> QED BY <1>0, <2>2, <2>3 DEF Gpus, Words, Allocated
<1> QED BY <1>1, <1>2, <1>3

LEMMA MarkFacts ==
  ASSUME surf \in [Regions -> SUBSET Bricks],
         NEW g \in Gpus, NEW j \in Jobs, NEW k \in j.bricks
  PROVE  /\ MarkBrick(g, j, k) \in Gpus
         /\ Advances(g, MarkBrick(g, j, k))
         /\ Traced(g, MarkBrick(g, j, k), {j})
         /\ Served(g, MarkBrick(g, j, k), j, k)
<1> DEFINE h == MarkBrick(g, j, k)
           s == j.slot
           has == g.tab[s][k]
<1>0. /\ s \in Slots /\ k \in Bricks /\ j.region \in Regions /\ j.mode \in Modes
      /\ g.tab \in Tables /\ g.tally \in Tallies /\ g.over \in SUBSET Words /\ g.jobs \in Nat
      /\ \A a \in Slots, b \in Bricks : g.tab[a][b] \in Marks
  BY DEF Gpus, Jobs, Tables
<1>1. CASE k \notin surf[j.region]
  <2>1. h = g
    BY <1>1 DEF MarkBrick
  <2> QED BY <1>1, <2>1, AdvancesItself DEF Served
<1>2. CASE k \in surf[j.region] /\ j.mode = "probe" /\ has # "absent"
  <2>1. h = g
    BY <1>2 DEF MarkBrick
  <2> QED BY <1>2, <2>1, AdvancesItself DEF Served
<1>3. CASE k \in surf[j.region] /\ j.mode = "probe" /\ has = "absent"
  <2> DEFINE t == [g.tab EXCEPT ![s][k] = "staged"]
             c == [g.tally EXCEPT ![s][k] = @ + 1]
  <2>1. h = [g EXCEPT !.tab[s][k] = "staged", !.tally[s][k] = @ + 1]
    BY <1>3 DEF MarkBrick
  <2>2. h = [tab |-> t, tally |-> c, over |-> g.over, jobs |-> g.jobs]
    BY <2>1 DEF Gpus
  <2>3. t \in Tables /\ \A a \in Slots, b \in Bricks : t[a][b] = IF a = s /\ b = k THEN "staged" ELSE g.tab[a][b]
    <3>1. g.tab \in Tables
      BY <1>0
    <3> QED BY <1>0, <3>1 DEF Tables, Marks
  <2>4. c \in Tallies /\ \A a \in Slots, b \in Bricks : c[a][b] = IF a = s /\ b = k THEN g.tally[a][b] + 1 ELSE g.tally[a][b]
    <3>1. g.tally \in Tallies
      BY <1>0
    <3> QED BY <1>0, <3>1 DEF Tallies
  <2>5. \A a \in Slots, b \in Bricks : g.tally[a][b] \in Nat
    BY <1>0 DEF Tallies
  <2> HIDE DEF h, t, c
  <2>6. h \in Gpus
    BY <1>0, <2>2, <2>3, <2>4 DEF Gpus
  <2>7. Advances(g, h)
    <3>1. ASSUME NEW a \in Slots, NEW b \in Bricks
          PROVE  /\ Leads(g.tab[a][b], t[a][b])
                 /\ g.tab[a][b] \in Allocated => t[a][b] \in Allocated
                 /\ (g.tab[a][b] = "staged" => g.tally[a][b] > 0)
                      => (t[a][b] = "staged" => c[a][b] > 0)
      BY <1>3, <2>3, <2>4, <2>5 DEF Leads, Allocated
    <3> QED BY <2>2, <3>1 DEF Advances
  <2>8. Traced(g, h, {j})
    BY <1>0, <1>3, <2>2, <2>3 DEF Traced
  <2>9. Served(g, h, j, k)
    BY <1>0, <1>3, <2>2, <2>3 DEF Served
  <2> QED BY <2>6, <2>7, <2>8, <2>9 DEF h
<1>4. CASE /\ k \in surf[j.region] /\ j.mode # "probe"
           /\ (j.mode = "allocate" /\ has # "staged") \/ (j.mode = "plain" /\ has \in Allocated)
  <2>1. h = g
    BY <1>4 DEF MarkBrick
  <2>2. Served(g, g, j, k)
    BY <1>4 DEF Served
  <2> QED BY <2>1, <2>2, AdvancesItself
<1>5. CASE /\ k \in surf[j.region] /\ j.mode # "probe"
           /\ ~(j.mode = "allocate" /\ has # "staged") /\ ~(j.mode = "plain" /\ has \in Allocated)
  <2>1. h = Generate(g, s, k)
    BY <1>5 DEF MarkBrick
  <2>2. /\ h \in Gpus /\ Advances(g, h)
        /\ h.tab[s][k] = "fresh" \/ h.over # {}
        /\ h.tab[s][k] = "staged" => g.tab[s][k] = "staged"
        /\ \A a \in Slots, b \in Bricks : a # s \/ b # k => h.tab[a][b] = g.tab[a][b]
    BY <1>0, <2>1, GenerateFacts
  <2> HIDE DEF h, has
  <2>3. Traced(g, h, {j})
    <3>1. ASSUME NEW a \in Slots, NEW b \in Bricks, h.tab[a][b] # g.tab[a][b]
          PROVE  a = s /\ b = k
      BY <2>2, <3>1
    <3>2. ASSUME NEW a \in Slots, NEW b \in Bricks, h.tab[a][b] = "staged", g.tab[a][b] # "staged"
          PROVE  FALSE
      <4>1. h.tab[a][b] # g.tab[a][b]
        BY <3>2
      <4> QED BY <4>1, <3>1, <3>2, <2>2
    <3> QED BY <3>1, <3>2 DEF Traced
  <2>4. Served(g, h, j, k)
    BY <1>5, <2>2 DEF Served
  <2> QED BY <2>2, <2>3, <2>4 DEF h
<1> QED BY <1>0, <1>1, <1>2, <1>3, <1>4, <1>5

(* A job does so for each of its bricks.                                   *)
LEMMA RunJobFacts ==
  ASSUME surf \in [Regions -> SUBSET Bricks], NEW a \in Gpus, NEW j \in Jobs
  PROVE  /\ RunJob(a, j) \in Gpus
         /\ Advances(a, RunJob(a, j))
         /\ Traced(a, RunJob(a, j), {j})
         /\ \A k \in j.bricks : Served(a, RunJob(a, j), j, k)
<1> DEFINE n == Slabs
           V(i) == {x \in Gpus : Advances(a, x) /\ Traced(a, x, {j}) /\ \A k \in j.bricks : k <= i => Served(a, x, j, k)}
           W == [i \in 0..n |-> V(i)]
           Step(x, i) == IF i \in j.bricks THEN MarkBrick(x, j, i) ELSE x
           F == [i \in 1..n |-> [x \in V(i - 1) |-> Step(x, i)]]
           Folds(g) == g = [i \in 0..n |-> IF i = 0 THEN a ELSE IF i \in j.bricks THEN MarkBrick(g[i - 1], j, i) ELSE g[i - 1]]
           mark == CHOOSE g : Folds(g)
<1>0. n \in Nat /\ j.bricks \in SUBSET (1..n)
  BY StreamerAssumption DEF Jobs, Bricks
<1>1. a \in W[0]
  <2>1. a \in V(0)
    BY <1>0, AdvancesItself
  <2> HIDE DEF V
  <2> QED BY <1>0, <2>1
<1>2. \A i \in 1..n : \A x \in W[i - 1] : Step(x, i) \in W[i] /\ F[i][x] = Step(x, i)
  <2> SUFFICES ASSUME NEW i \in 1..n, NEW x \in W[i - 1]
               PROVE  Step(x, i) \in W[i] /\ F[i][x] = Step(x, i)
    OBVIOUS
  <2>1. i - 1 \in 0..n /\ i \in 0..n
    BY <1>0
  <2>2. x \in V(i - 1)
    BY <2>1
  <2>3. Step(x, i) \in V(i)
    <3>0. /\ x \in Gpus /\ Advances(a, x) /\ Traced(a, x, {j})
          /\ \A k \in j.bricks : k <= i - 1 => Served(a, x, j, k)
      BY <2>2
    <3>1. CASE i \in j.bricks
      <4> DEFINE y == MarkBrick(x, j, i)
      <4>1. y \in Gpus /\ Advances(x, y) /\ Traced(x, y, {j}) /\ Served(x, y, j, i)
        BY <3>0, <3>1, MarkFacts
      <4> HIDE DEF y
      <4>2. Advances(a, y)
        BY <3>0, <4>1, AdvancesOn
      <4>3. Traced(a, y, {j} \cup {j})
        BY <3>0, <4>1, TracedOn
      <4>4. \A k \in j.bricks : k <= i => Served(a, y, j, k)
        <5> SUFFICES ASSUME NEW k \in j.bricks, k <= i PROVE Served(a, y, j, k)
          OBVIOUS
        <5>1. k \in Bricks /\ (k = i \/ k <= i - 1)
          BY <1>0 DEF Bricks
        <5>2. Served(x, y, j, k) \/ Served(a, x, j, k)
          BY <3>0, <4>1, <5>1
        <5> QED BY <3>0, <4>1, <5>1, <5>2, ServedOn
      <4>5. y \in V(i)
        BY <4>1, <4>2, <4>3, <4>4
      <4>6. Step(x, i) = y
        BY <3>1 DEF y
      <4> HIDE DEF V, Step
      <4> QED BY <4>5, <4>6
    <3>2. CASE i \notin j.bricks
      <4>1. \A k \in j.bricks : k <= i => k <= i - 1
        BY <1>0, <3>2
      <4>2. x \in V(i)
        BY <3>0, <4>1
      <4>3. Step(x, i) = x
        BY <3>2
      <4> HIDE DEF V, Step
      <4> QED BY <4>2, <4>3
    <3> QED BY <3>1, <3>2
  <2> HIDE DEF Step, V
  <2> QED BY <2>1, <2>2, <2>3
<1> HIDE DEF Step, W, F
<1>3. PICK g : IsFold(g, n, F, a) /\ Within(g, n, W)
  BY <1>0, <1>1, <1>2, FoldExists
<1>4. Folds(g)
  <2>1. \A i \in 1..n : i - 1 \in 0..n /\ g[i - 1] \in W[i - 1]
    BY <1>0, <1>3 DEF Within
  <2>2. \A i \in 1..n : F[i][g[i - 1]] = Step(g[i - 1], i)
    BY <1>2, <2>1
  <2>3. g = [i \in 0..n |-> g[i]]
    BY <1>3 DEF IsFold
  <2>4. \A i \in 0..n : g[i] = IF i = 0 THEN a ELSE F[i][g[i - 1]]
    BY <1>3 DEF IsFold
  <2>5. \A i \in 0..n : g[i] = IF i = 0 THEN a ELSE Step(g[i - 1], i)
    BY <1>0, <2>2, <2>4
  <2> QED BY <2>3, <2>5, Zenon DEF Step
<1>5. Folds(mark)
  BY <1>4
<1> HIDE DEF mark
<1>6. mark[0] \in W[0] /\ \A i \in 1..n : mark[i - 1] \in W[i - 1] => mark[i] \in W[i]
  <2>1. \A i \in 0..n : mark[i] = IF i = 0 THEN a ELSE IF i \in j.bricks THEN MarkBrick(mark[i - 1], j, i) ELSE mark[i - 1]
    BY <1>5, Zenon
  <2>2. \A i \in 0..n : mark[i] = IF i = 0 THEN a ELSE Step(mark[i - 1], i)
    BY <2>1, Zenon DEF Step
  <2>3. mark[0] = a /\ \A i \in 1..n : mark[i] = Step(mark[i - 1], i)
    BY <1>0, <2>2
  <2> QED BY <1>0, <1>1, <1>2, <2>3
<1>7. mark[n] \in W[n]
  BY <1>0, <1>6, FoldStays
<1>8. RunJob(a, j) = mark[n]
  BY DEF RunJob, mark
<1>9. RunJob(a, j) \in V(n)
  BY <1>0, <1>7, <1>8 DEF W
<1>10. \A k \in j.bricks : k <= n
  BY <1>0
<1> QED BY <1>9, <1>10

(* And a list of jobs for each of its jobs.                                *)
LEMMA RunJobsFacts ==
  ASSUME surf \in [Regions -> SUBSET Bricks], NEW a \in Gpus, NEW jobs \in Seq(Jobs)
  PROVE  /\ RunJobs(a, jobs) \in Gpus
         /\ Advances(a, RunJobs(a, jobs))
         /\ Traced(a, RunJobs(a, jobs), Range(jobs))
         /\ \A j \in Range(jobs) : \A k \in j.bricks : Served(a, RunJobs(a, jobs), j, k)
<1> DEFINE n == Len(jobs)
           To(i) == {jobs[m] : m \in 1..i}
           V(i) == {x \in Gpus : Advances(a, x) /\ Traced(a, x, To(i)) /\ \A j \in To(i) : \A k \in j.bricks : Served(a, x, j, k)}
           W == [i \in 0..n |-> V(i)]
           Step(x, i) == RunJob(x, jobs[i])
           F == [i \in 1..n |-> [x \in V(i - 1) |-> Step(x, i)]]
           Folds(g) == g = [i \in 0..n |-> IF i = 0 THEN a ELSE RunJob(g[i - 1], jobs[i])]
           run == CHOOSE g : Folds(g)
<1>0. n \in Nat /\ DOMAIN jobs = 1..n /\ \A i \in 1..n : jobs[i] \in Jobs
  BY LenProperties
<1>1. a \in W[0]
  <2>1. To(0) = {}
    OBVIOUS
  <2>2. a \in V(0)
    <3> HIDE DEF To
    <3> QED BY <2>1, AdvancesItself
  <2> HIDE DEF V
  <2> QED BY <1>0, <2>2
<1>2. \A i \in 1..n : \A x \in W[i - 1] : Step(x, i) \in W[i] /\ F[i][x] = Step(x, i)
  <2> SUFFICES ASSUME NEW i \in 1..n, NEW x \in W[i - 1]
               PROVE  Step(x, i) \in W[i] /\ F[i][x] = Step(x, i)
    OBVIOUS
  <2>1. i - 1 \in 0..n /\ i \in 0..n
    BY <1>0
  <2>2. x \in V(i - 1)
    BY <2>1
  <2>3. Step(x, i) \in V(i)
    <3> DEFINE j == jobs[i]
               y == RunJob(x, j)
    <3>0. /\ x \in Gpus /\ Advances(a, x) /\ Traced(a, x, To(i - 1))
          /\ \A l \in To(i - 1) : \A k \in l.bricks : Served(a, x, l, k)
      BY <2>2
    <3>1. To(i) = To(i - 1) \cup {j}
      <4>1. \A m \in 1..i : m = i \/ m \in 1..(i - 1)
        OBVIOUS
      <4>2. \A m \in 1..(i - 1) : m \in 1..i
        OBVIOUS
      <4>3. i \in 1..i
        OBVIOUS
      <4> QED BY <4>1, <4>2, <4>3
    <3>2. To(i - 1) \subseteq Jobs /\ j \in Jobs
      BY <1>0
    <3>3. /\ y \in Gpus /\ Advances(x, y) /\ Traced(x, y, {j})
          /\ \A k \in j.bricks : Served(x, y, j, k)
      BY <3>0, <3>2, RunJobFacts
    <3> HIDE DEF y, j, To
    <3>4. Advances(a, y) /\ Traced(a, y, To(i))
      BY <3>0, <3>1, <3>3, AdvancesOn, TracedOn
    <3>5. ASSUME NEW l \in To(i), NEW k \in l.bricks PROVE Served(a, y, l, k)
      <4>1. l \in Jobs /\ k \in Bricks /\ (l = j \/ l \in To(i - 1))
        BY <3>1, <3>2 DEF Jobs
      <4>2. Served(x, y, l, k) \/ Served(a, x, l, k)
        BY <3>0, <3>3, <4>1
      <4> QED BY <3>0, <3>3, <4>1, <4>2, ServedOn
    <3>6. y \in V(i)
      BY <3>3, <3>4, <3>5
    <3>7. Step(x, i) = y
      BY DEF y, j
    <3> HIDE DEF V, Step
    <3> QED BY <3>6, <3>7
  <2> HIDE DEF Step, V
  <2> QED BY <2>1, <2>2, <2>3
<1> HIDE DEF Step, W, F
<1>3. PICK g : IsFold(g, n, F, a) /\ Within(g, n, W)
  BY <1>0, <1>1, <1>2, FoldExists
<1>4. Folds(g)
  <2>1. \A i \in 1..n : i - 1 \in 0..n /\ g[i - 1] \in W[i - 1]
    BY <1>0, <1>3 DEF Within
  <2>2. \A i \in 1..n : F[i][g[i - 1]] = Step(g[i - 1], i)
    BY <1>2, <2>1
  <2>3. g = [i \in 0..n |-> g[i]]
    BY <1>3 DEF IsFold
  <2>4. \A i \in 0..n : g[i] = IF i = 0 THEN a ELSE F[i][g[i - 1]]
    BY <1>3 DEF IsFold
  <2>5. \A i \in 0..n : g[i] = IF i = 0 THEN a ELSE Step(g[i - 1], i)
    BY <1>0, <2>2, <2>4
  <2> QED BY <2>3, <2>5, Zenon DEF Step
<1>5. Folds(run)
  BY <1>4
<1> HIDE DEF run
<1>6. run[0] \in W[0] /\ \A i \in 1..n : run[i - 1] \in W[i - 1] => run[i] \in W[i]
  <2>1. \A i \in 0..n : run[i] = IF i = 0 THEN a ELSE RunJob(run[i - 1], jobs[i])
    BY <1>5, Zenon
  <2>2. \A i \in 0..n : run[i] = IF i = 0 THEN a ELSE Step(run[i - 1], i)
    BY <2>1, Zenon DEF Step
  <2>3. run[0] = a /\ \A i \in 1..n : run[i] = Step(run[i - 1], i)
    BY <1>0, <2>2
  <2> QED BY <1>0, <1>1, <1>2, <2>3
<1>7. run[n] \in W[n]
  BY <1>0, <1>6, FoldStays
<1>8. RunJobs(a, jobs) = run[n]
  BY DEF RunJobs, run
<1>9. RunJobs(a, jobs) \in V(n)
  BY <1>0, <1>7, <1>8 DEF W
<1>10. To(n) = Range(jobs)
  BY <1>0 DEF Range
<1> HIDE DEF To
<1> QED BY <1>9, <1>10

-----------------------------------------------------------------------------
(* The residency                                                           *)

Evictions == [region : Regions, slot : Slots]
Plans == [resident : Homes, spare : Seq(Slots), evicts : Seq(Evictions), loads : Seq(Regions),
          available : Int, line : SUBSET Regions]

(* No two regions live in one slot, and a spare slot is nobody's.          *)
Tenants(res, free) ==
  /\ \A r, q \in Regions : res[r] # None /\ res[r] = res[q] => r = q
  /\ Once(free)
  /\ \A r \in Regions : res[r] \notin Range(free)

FreedIn(p) == {e.slot : e \in Range(p.evicts)}

(* A plan loads regions that were not resident, into slots that were spare *)
(* or that it frees, and leaves all others where they are or evicts them.  *)
PlanOK(p) ==
  /\ Tenants(p.resident, p.spare)
  /\ Once(p.loads)
  /\ \A r \in Range(p.loads) : p.resident[r] # None /\ resident[r] = None
  /\ \A r \in Regions : r \notin Range(p.loads)
       => p.resident[r] = IF r \in GoneIn(p) THEN None ELSE resident[r]
  /\ \A e \in Range(p.evicts) : e.slot = resident[e.region]
  /\ Range(p.spare) \subseteq Range(spare) \cup FreedIn(p)
  /\ \A r \in Range(p.loads) : p.resident[r] \in Range(spare) \cup FreedIn(p)

(* Who is in line was not and is not resident, and no nearer than a load.  *)
LineOK(p) ==
  \A r \in p.line :
     /\ resident[r] = None /\ p.resident[r] = None
     /\ \A l \in Range(p.loads) : Distance(l, cam) <= Distance(r, cam)

(* Plan q is plan p with regions released.                                 *)
Fewer(p, q) ==
  /\ q.loads = p.loads /\ q.line = p.line
  /\ \A r \in Regions : p.resident[r] = None => q.resident[r] = None

LEMMA GoneIsRange ==
  ASSUME NEW p
  PROVE  GoneIn(p) = {e.region : e \in Range(p.evicts)}
  BY DEF GoneIn, Range

LEMMA NoneIsNoSlot == None \notin Slots
  BY StreamerAssumption DEF Slots

LEMMA PlanTypes ==
  ASSUME NEW p \in Plans
  PROVE  /\ p.resident \in Homes /\ p.spare \in Seq(Slots) /\ p.evicts \in Seq(Evictions)
         /\ p.loads \in Seq(Regions) /\ p.available \in Int /\ p.line \in SUBSET Regions
         /\ Range(p.spare) \subseteq Slots /\ Range(p.evicts) \subseteq Evictions
         /\ Range(p.loads) \subseteq Regions /\ GoneIn(p) \subseteq Regions
<1>1. /\ p.resident \in Homes /\ p.spare \in Seq(Slots) /\ p.evicts \in Seq(Evictions)
      /\ p.loads \in Seq(Regions) /\ p.available \in Int /\ p.line \in SUBSET Regions
  BY DEF Plans
<1>2. /\ Range(p.spare) \subseteq Slots /\ Range(p.evicts) \subseteq Evictions
      /\ Range(p.loads) \subseteq Regions
  BY <1>1, LenProperties DEF Range
<1> QED BY <1>1, <1>2, GoneIsRange DEF Evictions

(* What a release makes of a plan.                                         *)
Released(p, r, q) ==
  /\ q.resident = [p.resident EXCEPT ![r] = None]
  /\ q.spare = Append(p.spare, p.resident[r])
  /\ q.evicts = Append(p.evicts, [region |-> r, slot |-> p.resident[r]])
  /\ q.loads = p.loads /\ q.line = p.line

LEMMA ReleasedOK ==
  ASSUME resident \in Homes, NEW p \in Plans, PlanOK(p),
         NEW r \in ResidentIn(p), r \notin Range(p.loads),
         NEW q, Released(p, r, q)
  PROVE  /\ q.resident \in Homes /\ q.spare \in Seq(Slots) /\ q.evicts \in Seq(Evictions)
         /\ PlanOK(q) /\ Fewer(p, q) /\ GoneIn(q) = GoneIn(p) \cup {r}
<1> DEFINE s == p.resident[r]
           e == [region |-> r, slot |-> s]
           res == [p.resident EXCEPT ![r] = None]
<1>0. /\ p.resident \in Homes /\ p.spare \in Seq(Slots) /\ p.evicts \in Seq(Evictions)
      /\ Range(p.loads) \subseteq Regions /\ Range(p.spare) \subseteq Slots
  BY PlanTypes
<1>1. /\ q.spare = Append(p.spare, s) /\ q.evicts = Append(p.evicts, e) /\ q.resident = res
      /\ q.loads = p.loads /\ q.line = p.line
  BY DEF Released
<1>2. r \in Regions /\ s \in Slots /\ s # None /\ e \in Evictions
  BY <1>0, NoneIsNoSlot DEF ResidentIn, Homes, Evictions
<1>3. res \in Homes /\ \A x \in Regions : res[x] = IF x = r THEN None ELSE p.resident[x]
  BY <1>0, <1>2 DEF Homes
<1>4. q.resident = res /\ q.loads = p.loads /\ q.line = p.line
  BY <1>1
<1>5. e.region = r /\ e.slot = s /\ s = p.resident[r]
  OBVIOUS
<1> HIDE DEF res, s, e
<1>6. /\ q.spare \in Seq(Slots) /\ Range(q.spare) = Range(p.spare) \cup {s}
      /\ Once(p.spare) /\ s \notin Range(p.spare) => Once(q.spare)
  BY <1>0, <1>1, <1>2, AppendFacts
<1>7. q.evicts \in Seq(Evictions) /\ Range(q.evicts) = Range(p.evicts) \cup {e}
  BY <1>0, <1>1, <1>2, AppendFacts
<1>9. GoneIn(q) = GoneIn(p) \cup {r} /\ FreedIn(q) = FreedIn(p) \cup {s}
  BY <1>5, <1>7, GoneIsRange DEF FreedIn
<1>10. r \notin GoneIn(p) /\ s = resident[r]
  <2>1. p.resident[r] # None /\ r \in Regions /\ s = p.resident[r]
    BY <1>2, <1>5
  <2>2. p.resident[r] = IF r \in GoneIn(p) THEN None ELSE resident[r]
    BY <1>2 DEF PlanOK
  <2> QED BY <2>1, <2>2
<1>11. Tenants(q.resident, q.spare)
  <2>1. /\ \A x, y \in Regions : p.resident[x] # None /\ p.resident[x] = p.resident[y] => x = y
        /\ Once(p.spare)
        /\ \A x \in Regions : p.resident[x] \notin Range(p.spare)
    BY DEF PlanOK, Tenants
  <2>2. Once(q.spare)
    BY <1>2, <1>5, <1>6, <2>1
  <2>3. None \notin Range(p.spare)
    BY <1>0, NoneIsNoSlot
  <2>4. \A x \in Regions : res[x] \notin Range(q.spare)
    BY <1>2, <1>3, <1>5, <1>6, <2>1, <2>3
  <2>5. \A x, y \in Regions : res[x] # None /\ res[x] = res[y] => x = y
    BY <1>3, <2>1
  <2> QED BY <1>4, <2>2, <2>4, <2>5 DEF Tenants
<1>12. \A x \in Regions : x \notin Range(q.loads)
         => q.resident[x] = IF x \in GoneIn(q) THEN None ELSE resident[x]
  <2>1. \A x \in Regions : x \notin Range(p.loads)
          => p.resident[x] = IF x \in GoneIn(p) THEN None ELSE resident[x]
    BY DEF PlanOK
  <2> HIDE DEF s
  <2> QED BY <1>3, <1>4, <1>9, <2>1
<1>13. \A x \in Range(q.loads) : q.resident[x] = p.resident[x]
  BY <1>0, <1>2, <1>3, <1>4
<1>14. PlanOK(q)
  <2>1. Once(q.loads)
    BY <1>4 DEF PlanOK
  <2>2. \A x \in Range(q.loads) : q.resident[x] # None /\ resident[x] = None
    BY <1>4, <1>13 DEF PlanOK
  <2>3. \A y \in Range(q.evicts) : y.slot = resident[y.region]
    BY <1>5, <1>7, <1>10 DEF PlanOK
  <2>4. Range(q.spare) \subseteq Range(spare) \cup FreedIn(q)
    BY <1>6, <1>9 DEF PlanOK
  <2>5. \A x \in Range(q.loads) : q.resident[x] \in Range(spare) \cup FreedIn(q)
    BY <1>4, <1>9, <1>13 DEF PlanOK
  <2> QED BY <1>11, <1>12, <2>1, <2>2, <2>3, <2>4, <2>5 DEF PlanOK
<1>15. Fewer(p, q)
  BY <1>3, <1>4 DEF Fewer
<1> QED BY <1>3, <1>4, <1>6, <1>7, <1>9, <1>14, <1>15

LEMMA ReleaseOK ==
  ASSUME resident \in Homes, NEW p \in Plans, PlanOK(p),
         NEW r \in ResidentIn(p), r \notin Range(p.loads),
         NEW q, q = Release(p, r)
  PROVE  q \in Plans /\ PlanOK(q) /\ Fewer(p, q) /\ GoneIn(q) = GoneIn(p) \cup {r}
<1>1. /\ Released(p, r, q)
      /\ q = [resident |-> q.resident, spare |-> q.spare, evicts |-> q.evicts,
              loads |-> p.loads, available |-> p.available, line |-> p.line]
  <2>1. q = [resident |-> [p.resident EXCEPT ![r] = None], spare |-> Append(p.spare, p.resident[r]),
             evicts |-> Append(p.evicts, [region |-> r, slot |-> p.resident[r]]),
             loads |-> p.loads, available |-> p.available, line |-> p.line]
    BY DEF Release, Plans
  <2> QED BY <2>1 DEF Released
<1>2. /\ q.resident \in Homes /\ q.spare \in Seq(Slots) /\ q.evicts \in Seq(Evictions)
      /\ PlanOK(q) /\ Fewer(p, q) /\ GoneIn(q) = GoneIn(p) \cup {r}
  BY <1>1, ReleasedOK
<1>3. p.loads \in Seq(Regions) /\ p.available \in Int /\ p.line \in SUBSET Regions
  BY PlanTypes
<1>4. q \in Plans
  BY <1>1, <1>2, <1>3 DEF Plans
<1> QED BY <1>2, <1>4

LEMMA FreedOK ==
  ASSUME resident \in Homes, NEW p \in Plans, PlanOK(p),
         NEW r \in ResidentIn(p), r \notin Range(p.loads), NEW costs \in [Slots -> Int],
         NEW q, q = Freed(p, r, costs)
  PROVE  q \in Plans /\ PlanOK(q) /\ Fewer(p, q) /\ GoneIn(q) = GoneIn(p) \cup {r}
<1>1. PICK a \in Int : a = p.available + Cost(costs, p, r)
  <2>1. p.resident[r] \in Slots
    BY PlanTypes DEF ResidentIn, Homes
  <2> QED BY <2>1, PlanTypes DEF Cost
<1>2. PICK u : u = Release(p, r)
  OBVIOUS
<1>3. u \in Plans /\ PlanOK(u) /\ Fewer(p, u) /\ GoneIn(u) = GoneIn(p) \cup {r}
  BY <1>2, ReleaseOK
<1>4. q = [u EXCEPT !.available = a]
  <2>1. u.available = p.available
    BY <1>2 DEF Release, Plans
  <2> QED BY <1>1, <1>2, <1>3, <2>1 DEF Freed, Plans
<1>5. q = [resident |-> u.resident, spare |-> u.spare, evicts |-> u.evicts,
           loads |-> u.loads, available |-> a, line |-> u.line]
  BY <1>3, <1>4 DEF Plans
<1>6. q \in Plans
  BY <1>3, <1>5 DEF Plans
<1>7. PlanOK(q) /\ Fewer(p, q) /\ GoneIn(q) = GoneIn(u)
  BY <1>3, <1>5 DEF PlanOK, Fewer, GoneIn, FreedIn
<1> QED BY <1>3, <1>6, <1>7

LEMMA FewerOn ==
  ASSUME NEW p, NEW q, NEW u, Fewer(p, q), Fewer(q, u)
  PROVE  Fewer(p, u)
  BY DEF Fewer

(* The last spare slot, and the others.                                    *)
LEMMA LastSpare ==
  ASSUME NEW q \in Seq(Slots), q # <<>>
  PROVE  /\ Last(q) \in Slots /\ Last(q) \in Range(q)
         /\ Front(q) \in Seq(Slots) /\ Range(Front(q)) \subseteq Range(q)
         /\ Once(q) => Once(Front(q)) /\ Last(q) \notin Range(Front(q))
<1> DEFINE n == Len(q)
           f == Front(q)
<1>1. n \in Nat /\ n # 0 /\ DOMAIN q = 1..n /\ \A i \in 1..n : q[i] \in Slots
  BY LenProperties, EmptySeq
<1>2. /\ f \in Seq(Slots)
      /\ Len(f) = IF 1 <= n - 1 THEN (n - 1) - 1 + 1 ELSE 0
      /\ \A i \in 1..((n - 1) - 1 + 1) : f[i] = q[1 + i - 1]
  <2>1. 1 \in Int /\ n - 1 \in Int /\ \A i \in 1..(n - 1) : q[i] \in Slots
    BY <1>1
  <2>2. f = SubSeq(q, 1, n - 1)
    BY DEF Front
  <2> HIDE DEF f, n
  <2> QED BY <2>1, <2>2, SubSeqProperties
<1> HIDE DEF f
<1>3. Len(f) = n - 1 /\ DOMAIN f = 1..(n - 1)
  <2>1. Len(f) = n - 1
    <3> HIDE DEF n
    <3> QED BY <1>1, <1>2
  <2> QED BY <1>2, <2>1, LenProperties
<1>4. \A i \in 1..(n - 1) : f[i] = q[i] /\ i \in 1..n /\ i # n
  <2>1. \A i \in 1..(n - 1) : i \in 1..((n - 1) - 1 + 1) /\ 1 + i - 1 = i /\ i \in 1..n /\ i # n
    <3> HIDE DEF n
    <3> QED BY <1>1
  <2> QED BY <1>2, <2>1
<1>5. Last(q) = q[n] /\ n \in 1..n
  BY <1>1 DEF Last
<1>6. Range(f) \subseteq Range(q)
  BY <1>1, <1>3, <1>4 DEF Range
<1>7. Once(q) => Once(f) /\ Last(q) \notin Range(f)
  BY <1>1, <1>3, <1>4, <1>5 DEF Once, Range
<1>8. Last(q) \in Slots /\ Last(q) \in Range(q)
  BY <1>1, <1>5 DEF Range
<1> HIDE DEF n
<1> QED BY <1>2, <1>6, <1>7, <1>8 DEF f

LEMMA LoadOK ==
  ASSUME resident \in Homes, NEW p \in Plans, PlanOK(p), LineOK(p),
         NEW c \in Regions, p.resident[c] = None, resident[c] = None, p.spare # <<>>, c \notin p.line,
         \A r \in p.line : Distance(c, cam) <= Distance(r, cam), NEW price \in Int,
         NEW q, q = Load(p, c, price)
  PROVE  q \in Plans /\ PlanOK(q) /\ LineOK(q)
<1> DEFINE s == Last(p.spare)
           res == [p.resident EXCEPT ![c] = s]
<1>0. /\ p.resident \in Homes /\ p.spare \in Seq(Slots) /\ p.evicts \in Seq(Evictions)
      /\ p.loads \in Seq(Regions) /\ p.available \in Int /\ p.line \in SUBSET Regions
      /\ Range(p.loads) \subseteq Regions
  BY PlanTypes
<1>1. q = [resident |-> res, spare |-> Front(p.spare), evicts |-> p.evicts,
           loads |-> Append(p.loads, c), available |-> p.available - price, line |-> p.line]
  BY DEF Load, Plans
<1>2. /\ s \in Slots /\ s \in Range(p.spare)
      /\ Front(p.spare) \in Seq(Slots) /\ Range(Front(p.spare)) \subseteq Range(p.spare)
      /\ Once(p.spare) => Once(Front(p.spare)) /\ s \notin Range(Front(p.spare))
  BY PlanTypes, LastSpare
<1>3. res \in Homes /\ \A x \in Regions : res[x] = IF x = c THEN s ELSE p.resident[x]
  BY <1>2, PlanTypes DEF Homes
<1>4. /\ q.loads \in Seq(Regions) /\ Range(q.loads) = Range(p.loads) \cup {c}
      /\ Once(p.loads) /\ c \notin Range(p.loads) => Once(q.loads)
  BY <1>1, PlanTypes, AppendFacts
<1>5. q.resident = res /\ q.spare = Front(p.spare) /\ q.evicts = p.evicts /\ q.line = p.line
  BY <1>1
<1> HIDE DEF res, s
<1>6. q \in Plans
  <2>1. /\ p.evicts \in Seq(Evictions) /\ p.line \in SUBSET Regions /\ p.available - price \in Int
        /\ Append(p.loads, c) \in Seq(Regions)
    BY <1>1, <1>4, PlanTypes
  <2> QED BY <1>1, <1>2, <1>3, <2>1 DEF Plans
<1>7. GoneIn(q) = GoneIn(p) /\ FreedIn(q) = FreedIn(p)
  BY <1>5 DEF GoneIn, FreedIn
<1>8. c \notin Range(p.loads) /\ s # None
  BY <1>2, NoneIsNoSlot DEF PlanOK
<1>9. Tenants(q.resident, q.spare)
  <2>1. /\ \A x, y \in Regions : p.resident[x] # None /\ p.resident[x] = p.resident[y] => x = y
        /\ Once(p.spare)
        /\ \A x \in Regions : p.resident[x] \notin Range(p.spare)
    BY DEF PlanOK, Tenants
  <2>2. \A x \in Regions : p.resident[x] # s
    BY <1>2, <2>1
  <2>3. \A x, y \in Regions : res[x] # None /\ res[x] = res[y] => x = y
    BY <1>3, <2>1, <2>2
  <2>4. \A x \in Regions : res[x] \notin Range(Front(p.spare))
    BY <1>2, <1>3, <2>1
  <2> QED BY <1>2, <1>5, <2>1, <2>3, <2>4 DEF Tenants
<1>10. PlanOK(q)
  <2>1. Once(q.loads)
    BY <1>4, <1>8 DEF PlanOK
  <2>2. \A x \in Range(q.loads) : q.resident[x] # None /\ resident[x] = None
    BY <1>3, <1>4, <1>5, <1>8, PlanTypes DEF PlanOK
  <2>3. \A x \in Regions : x \notin Range(q.loads)
          => q.resident[x] = IF x \in GoneIn(q) THEN None ELSE resident[x]
    <3>1. \A x \in Regions : x \notin Range(p.loads)
            => p.resident[x] = IF x \in GoneIn(p) THEN None ELSE resident[x]
      BY DEF PlanOK
    <3> QED BY <1>3, <1>4, <1>5, <1>7, <3>1
  <2>4. \A y \in Range(q.evicts) : y.slot = resident[y.region]
    BY <1>5 DEF PlanOK
  <2>5. Range(q.spare) \subseteq Range(spare) \cup FreedIn(q)
    BY <1>2, <1>5, <1>7 DEF PlanOK
  <2>6. \A x \in Range(q.loads) : q.resident[x] \in Range(spare) \cup FreedIn(q)
    <3>1. s \in Range(spare) \cup FreedIn(q)
      BY <1>2, <1>7 DEF PlanOK
    <3>2. \A x \in Range(p.loads) : p.resident[x] \in Range(spare) \cup FreedIn(q)
      BY <1>7 DEF PlanOK
    <3> QED BY <1>3, <1>4, <1>5, <3>1, <3>2, PlanTypes
  <2> QED BY <1>9, <2>1, <2>2, <2>3, <2>4, <2>5, <2>6 DEF PlanOK
<1>11. LineOK(q)
  <2> SUFFICES ASSUME NEW r \in p.line
               PROVE  /\ resident[r] = None /\ q.resident[r] = None
                      /\ \A l \in Range(q.loads) : Distance(l, cam) <= Distance(r, cam)
    BY <1>5 DEF LineOK
  <2>1. r \in Regions /\ r # c
    BY PlanTypes
  <2>2. resident[r] = None /\ p.resident[r] = None /\ \A l \in Range(p.loads) : Distance(l, cam) <= Distance(r, cam)
    BY DEF LineOK
  <2> QED BY <2>1, <2>2, <1>3, <1>4, <1>5
<1> QED BY <1>6, <1>10, <1>11

LEMMA ResidentRegions ==
  ASSUME NEW p
  PROVE  ResidentIn(p) \in SUBSET Regions
  BY DEF ResidentIn

(* What drifted away is far.                                               *)
LEMMA DriftedOK ==
  ASSUME cam \in Int, resident \in Homes, NEW p \in Plans, PlanOK(p), NEW costs \in [Slots -> Int],
         p.loads = <<>>, p.evicts = <<>>
  PROVE  /\ Drifted(p, costs) \in Plans /\ PlanOK(Drifted(p, costs))
         /\ Drifted(p, costs).loads = <<>>
         /\ \A r \in GoneIn(Drifted(p, costs)) : Distance(r, cam) > Keep
<1> DEFINE n == Cardinality(Regions)
           V(i) == {x \in Plans : PlanOK(x) /\ x.loads = <<>> /\ \A r \in GoneIn(x) : Distance(r, cam) > Keep}
           W == [i \in 0..n |-> V(i)]
           Step(x, i) == LET far == {r \in ResidentIn(x) : Distance(r, cam) > Keep}
                         IN  IF far = {} THEN x ELSE Freed(x, Lowest(far), costs)
           F == [i \in 1..n |-> [x \in V(i - 1) |-> Step(x, i)]]
           Folds(g) == g = [i \in 0..n |-> IF i = 0 THEN p ELSE LET far == {r \in ResidentIn(g[i - 1]) : Distance(r, cam) > Keep}
                         IN  IF far = {} THEN g[i - 1] ELSE Freed(g[i - 1], Lowest(far), costs)]
           drift == CHOOSE g : Folds(g)
<1>0. n \in Nat
  BY StreamerAssumption, FS_CardinalityType
<1>01. /\ p \in Plans /\ PlanOK(p) /\ p.loads = <<>>
       /\ \A r \in GoneIn(p) : Distance(r, cam) > Keep
  BY DEF GoneIn
<1>1. p \in W[0]
  <2>1. p \in V(0)
    BY <1>01
  <2> HIDE DEF V
  <2> QED BY <1>0, <2>1
<1>2. \A i \in 1..n : \A x \in W[i - 1] : Step(x, i) \in W[i] /\ F[i][x] = Step(x, i)
  <2> SUFFICES ASSUME NEW i \in 1..n, NEW x \in W[i - 1]
               PROVE  Step(x, i) \in W[i] /\ F[i][x] = Step(x, i)
    OBVIOUS
  <2>1. i - 1 \in 0..n /\ i \in 0..n
    BY <1>0
  <2>2. x \in V(i - 1)
    BY <2>1
  <2>3. Step(x, i) \in V(i)
    <3> DEFINE far == {r \in ResidentIn(x) : Distance(r, cam) > Keep}
               r == Lowest(far)
               y == Freed(x, r, costs)
    <3>1. CASE far = {}
      <4>1. Step(x, i) = x
        BY <3>1
      <4> HIDE DEF V, Step
      <4> QED BY <2>2, <4>1 DEF V
    <3>2. CASE far # {}
      <4>0. x \in Plans /\ PlanOK(x) /\ x.loads = <<>> /\ \A q \in GoneIn(x) : Distance(q, cam) > Keep
        BY <2>2
      <4>1. far \in SUBSET Regions
        BY ResidentRegions
      <4>2. r \in far
        <5> HIDE DEF far
        <5> QED BY <3>2, <4>1, LowestIsIn
      <4>3. r \in ResidentIn(x) /\ Distance(r, cam) > Keep
        BY <4>2
      <4>4. Step(x, i) = y
        BY <3>2
      <4>5. y = Freed(x, r, costs) /\ r \notin Range(x.loads)
        BY <4>0, EmptyFacts
      <4> HIDE DEF y, r, far, Step
      <4>6. y \in Plans /\ PlanOK(y) /\ Fewer(x, y) /\ GoneIn(y) = GoneIn(x) \cup {r}
        BY <4>0, <4>3, <4>5, FreedOK
      <4>7. y.loads = <<>>
        BY <4>0, <4>6 DEF Fewer
      <4> QED BY <4>0, <4>3, <4>4, <4>6, <4>7
    <3> HIDE DEF far
    <3> QED BY <3>1, <3>2
  <2> HIDE DEF Step, V
  <2> QED BY <2>1, <2>2, <2>3
<1> HIDE DEF Step, W, F
<1>3. PICK g : IsFold(g, n, F, p) /\ Within(g, n, W)
  BY <1>0, <1>1, <1>2, FoldExists
<1>4. Folds(g)
  <2>1. \A i \in 1..n : i - 1 \in 0..n /\ g[i - 1] \in W[i - 1]
    BY <1>0, <1>3 DEF Within
  <2>2. \A i \in 1..n : F[i][g[i - 1]] = Step(g[i - 1], i)
    BY <1>2, <2>1
  <2>3. g = [i \in 0..n |-> g[i]]
    BY <1>3 DEF IsFold
  <2>4. \A i \in 0..n : g[i] = IF i = 0 THEN p ELSE F[i][g[i - 1]]
    BY <1>3 DEF IsFold
  <2>5. \A i \in 0..n : g[i] = IF i = 0 THEN p ELSE Step(g[i - 1], i)
    BY <1>0, <2>2, <2>4
  <2> QED BY <2>3, <2>5, Zenon DEF Step
<1>5. Folds(drift)
  BY <1>4
<1> HIDE DEF drift
<1>6. drift[0] \in W[0] /\ \A i \in 1..n : drift[i - 1] \in W[i - 1] => drift[i] \in W[i]
  <2>1. \A i \in 0..n : drift[i] = IF i = 0 THEN p ELSE LET far == {r \in ResidentIn(drift[i - 1]) : Distance(r, cam) > Keep}
                         IN  IF far = {} THEN drift[i - 1] ELSE Freed(drift[i - 1], Lowest(far), costs)
    BY <1>5, Zenon
  <2>2. \A i \in 0..n : drift[i] = IF i = 0 THEN p ELSE Step(drift[i - 1], i)
    BY <2>1, Zenon DEF Step
  <2>3. drift[0] = p /\ \A i \in 1..n : drift[i] = Step(drift[i - 1], i)
    BY <1>0, <2>2
  <2> QED BY <1>0, <1>1, <1>2, <2>3
<1>7. drift[n] \in W[n]
  BY <1>0, <1>6, FoldStays
<1>8. Drifted(p, costs) = drift[n]
  BY DEF Drifted, drift
<1>9. Drifted(p, costs) \in V(n)
  BY <1>0, <1>7, <1>8 DEF W
<1> QED BY <1>9

(* Payment for c releases nobody who is loaded.                            *)
LEMMA FundOK ==
  ASSUME cam \in Int, resident \in Homes, NEW p \in Plans, PlanOK(p), NEW costs \in [Slots -> Int],
         NEW c, \A l \in Range(p.loads) : Distance(l, cam) <= Distance(c, cam), c \in Regions,
         NEW price
  PROVE  Fund(p, c, costs, price) \in Plans /\ PlanOK(Fund(p, c, costs, price)) /\ Fewer(p, Fund(p, c, costs, price))
<1> DEFINE n == Cardinality(Regions)
           V(i) == {x \in Plans : PlanOK(x) /\ Fewer(p, x)}
           W == [i \in 0..n |-> V(i)]
           Step(x, i) == LET needSlot == x.spare = <<>>
                             payers == {r \in ResidentIn(x) :
                                          /\ Distance(r, cam) > Distance(c, cam)
                                          /\ needSlot \/ Cost(costs, x, r) > 0}
                         IN  IF (~needSlot /\ x.available >= price) \/ payers = {} THEN x
                             ELSE Freed(x, Furthest(payers), costs)
           F == [i \in 1..n |-> [x \in V(i - 1) |-> Step(x, i)]]
           Folds(g) == g = [i \in 0..n |-> IF i = 0 THEN p ELSE LET needSlot == g[i - 1].spare = <<>>
                             payers == {r \in ResidentIn(g[i - 1]) :
                                          /\ Distance(r, cam) > Distance(c, cam)
                                          /\ needSlot \/ Cost(costs, g[i - 1], r) > 0}
                         IN  IF (~needSlot /\ g[i - 1].available >= price) \/ payers = {} THEN g[i - 1]
                             ELSE Freed(g[i - 1], Furthest(payers), costs)]
           fund == CHOOSE g : Folds(g)
<1>0. n \in Nat
  BY StreamerAssumption, FS_CardinalityType
<1>01. p \in Plans /\ PlanOK(p) /\ Fewer(p, p)
  BY DEF Fewer
<1>1. p \in W[0]
  <2>1. p \in V(0)
    BY <1>01
  <2> HIDE DEF V
  <2> QED BY <1>0, <2>1
<1>2. \A i \in 1..n : \A x \in W[i - 1] : Step(x, i) \in W[i] /\ F[i][x] = Step(x, i)
  <2> SUFFICES ASSUME NEW i \in 1..n, NEW x \in W[i - 1]
               PROVE  Step(x, i) \in W[i] /\ F[i][x] = Step(x, i)
    OBVIOUS
  <2>1. i - 1 \in 0..n /\ i \in 0..n
    BY <1>0
  <2>2. x \in V(i - 1)
    BY <2>1
  <2>3. Step(x, i) \in V(i)
    <3> DEFINE needSlot == x.spare = <<>>
               payers == {r \in ResidentIn(x) : /\ Distance(r, cam) > Distance(c, cam)
                                                /\ needSlot \/ Cost(costs, x, r) > 0}
               r == Furthest(payers)
               y == Freed(x, r, costs)
    <3>1. CASE (~needSlot /\ x.available >= price) \/ payers = {}
      <4>1. Step(x, i) = x
        BY <3>1
      <4> HIDE DEF V, Step
      <4> QED BY <2>2, <4>1 DEF V
    <3>2. CASE ~((~needSlot /\ x.available >= price) \/ payers = {})
      <4>0. x \in Plans /\ PlanOK(x) /\ Fewer(p, x)
        BY <2>2
      <4>1. payers \in SUBSET Regions /\ payers # {}
        BY <3>2, ResidentRegions
      <4>2. r \in payers
        <5> HIDE DEF payers
        <5> QED BY <4>1, FurthestIsIn
      <4>3. r \in ResidentIn(x) /\ Distance(r, cam) > Distance(c, cam)
        BY <4>2
      <4>4. Step(x, i) = y
        BY <3>2
      <4>5. y = Freed(x, r, costs)
        OBVIOUS
      <4> HIDE DEF y, r, payers, needSlot, Step
      <4>6. r \notin Range(x.loads)
        <5>1. x.loads = p.loads /\ r \in Regions
          BY <4>0, <4>3, ResidentRegions DEF Fewer
        <5>2. Distance(r, cam) \in Int /\ Distance(c, cam) \in Int
          BY <5>1, StreamerAssumption DEF Distance
        <5> QED BY <4>3, <5>1, <5>2
      <4>7. y \in Plans /\ PlanOK(y) /\ Fewer(x, y)
        BY <4>0, <4>3, <4>5, <4>6, FreedOK
      <4>8. Fewer(p, y)
        BY <4>0, <4>7, FewerOn
      <4> QED BY <4>4, <4>7, <4>8
    <3> HIDE DEF payers, needSlot
    <3> QED BY <3>1, <3>2
  <2> HIDE DEF Step, V
  <2> QED BY <2>1, <2>2, <2>3
<1> HIDE DEF Step, W, F
<1>3. PICK g : IsFold(g, n, F, p) /\ Within(g, n, W)
  BY <1>0, <1>1, <1>2, FoldExists
<1>4. Folds(g)
  <2>1. \A i \in 1..n : i - 1 \in 0..n /\ g[i - 1] \in W[i - 1]
    BY <1>0, <1>3 DEF Within
  <2>2. \A i \in 1..n : F[i][g[i - 1]] = Step(g[i - 1], i)
    BY <1>2, <2>1
  <2>3. g = [i \in 0..n |-> g[i]]
    BY <1>3 DEF IsFold
  <2>4. \A i \in 0..n : g[i] = IF i = 0 THEN p ELSE F[i][g[i - 1]]
    BY <1>3 DEF IsFold
  <2>5. \A i \in 0..n : g[i] = IF i = 0 THEN p ELSE Step(g[i - 1], i)
    BY <1>0, <2>2, <2>4
  <2> QED BY <2>3, <2>5, Zenon DEF Step
<1>5. Folds(fund)
  BY <1>4
<1> HIDE DEF fund
<1>6. fund[0] \in W[0] /\ \A i \in 1..n : fund[i - 1] \in W[i - 1] => fund[i] \in W[i]
  <2>1. \A i \in 0..n : fund[i] = IF i = 0 THEN p ELSE LET needSlot == fund[i - 1].spare = <<>>
                             payers == {r \in ResidentIn(fund[i - 1]) :
                                          /\ Distance(r, cam) > Distance(c, cam)
                                          /\ needSlot \/ Cost(costs, fund[i - 1], r) > 0}
                         IN  IF (~needSlot /\ fund[i - 1].available >= price) \/ payers = {} THEN fund[i - 1]
                             ELSE Freed(fund[i - 1], Furthest(payers), costs)
    BY <1>5, Zenon
  <2>2. \A i \in 0..n : fund[i] = IF i = 0 THEN p ELSE Step(fund[i - 1], i)
    BY <2>1, Zenon DEF Step
  <2>3. fund[0] = p /\ \A i \in 1..n : fund[i] = Step(fund[i - 1], i)
    BY <1>0, <2>2
  <2> QED BY <1>0, <1>1, <1>2, <2>3
<1>7. fund[n] \in W[n]
  BY <1>0, <1>6, FoldStays
<1>8. Fund(p, c, costs, price) = fund[n]
  BY DEF Fund, fund
<1>9. Fund(p, c, costs, price) \in V(n)
  BY <1>0, <1>7, <1>8 DEF W
<1> QED BY <1>9

(* Another line for the plan.                                              *)
LEMMA LineSet ==
  ASSUME NEW p \in Plans, NEW S \in SUBSET Regions, NEW q, q = [p EXCEPT !.line = S]
  PROVE  /\ q \in Plans /\ q.line = S
         /\ q.resident = p.resident /\ q.spare = p.spare /\ q.loads = p.loads
         /\ GoneIn(q) = GoneIn(p)
         /\ PlanOK(p) => PlanOK(q)
<1>1. q = [resident |-> p.resident, spare |-> p.spare, evicts |-> p.evicts,
           loads |-> p.loads, available |-> p.available, line |-> S]
  BY DEF Plans
<1>2. q \in Plans
  BY <1>1, PlanTypes DEF Plans
<1>3. GoneIn(q) = GoneIn(p) /\ (PlanOK(p) => PlanOK(q))
  BY <1>1 DEF PlanOK, GoneIn, FreedIn
<1> QED BY <1>1, <1>2, <1>3

(* The nearest in line is loaded, or not.                                  *)
LEMMA SeatOK ==
  ASSUME cam \in Int, resident \in Homes, NEW p \in Plans, PlanOK(p), LineOK(p), p.line # {},
         NEW costs \in [Slots -> Int], NEW price \in Int, NEW cap, NEW gate
  PROVE  /\ Seat(p, costs, price, cap, gate) \in Plans
         /\ PlanOK(Seat(p, costs, price, cap, gate)) /\ LineOK(Seat(p, costs, price, cap, gate))
<1> DEFINE c == Nearest(p.line)
           called == [p EXCEPT !.line = @ \ {c}]
           bootstrap == ResidentIn(p) = {}
           paid == IF bootstrap THEN called ELSE Fund(called, c, costs, price)
           y == Seat(p, costs, price, cap, gate)
<1>0. p.line \in SUBSET Regions
  BY PlanTypes
<1>1. /\ c \in p.line /\ c \in Regions
      /\ \A q \in p.line : Distance(c, cam) <= Distance(q, cam)
  BY <1>0, NearestIsNearest
<1>2. called = [p EXCEPT !.line = p.line \ {c}]
  BY DEF Plans
<1>3. \/ y = [p EXCEPT !.line = {}]
      \/ y = called
      \/ y = [paid EXCEPT !.line = {}]
      \/ paid.spare # <<>> /\ y = Load(paid, c, price)
  BY Zenon DEF Seat
<1> HIDE DEF c, y
<1>4. /\ called \in Plans /\ PlanOK(called) /\ called.line = p.line \ {c}
      /\ called.resident = p.resident /\ called.loads = p.loads
  <2>1. p.line \ {c} \in SUBSET Regions
    BY <1>0
  <2> HIDE DEF called
  <2> QED BY <1>2, <2>1, LineSet
<1>5. LineOK(called)
  <2> HIDE DEF called
  <2> QED BY <1>4 DEF LineOK
<1>6. paid \in Plans /\ PlanOK(paid) /\ Fewer(called, paid)
  <2> HIDE DEF called
  <2>1. \A l \in Range(called.loads) : Distance(l, cam) <= Distance(c, cam)
    BY <1>1, <1>4 DEF LineOK
  <2>2. /\ Fund(called, c, costs, price) \in Plans /\ PlanOK(Fund(called, c, costs, price))
        /\ Fewer(called, Fund(called, c, costs, price))
    BY <1>1, <1>4, <2>1, FundOK
  <2>3. Fewer(called, called)
    BY DEF Fewer
  <2> QED BY <1>4, <2>2, <2>3
<1> HIDE DEF called, paid
<1>7. LineOK(paid)
  BY <1>0, <1>4, <1>5, <1>6 DEF LineOK, Fewer
<1>8. CASE y = [p EXCEPT !.line = {}]
  <2>1. y \in Plans /\ PlanOK(y) /\ y.line = {}
    BY <1>8, LineSet
  <2> QED BY <2>1 DEF LineOK, y
<1>9. CASE y = called
  BY <1>4, <1>5, <1>9 DEF y
<1>10. CASE y = [paid EXCEPT !.line = {}]
  <2>1. y \in Plans /\ PlanOK(y) /\ y.line = {}
    BY <1>6, <1>10, LineSet
  <2> QED BY <2>1 DEF LineOK, y
<1>11. CASE paid.spare # <<>> /\ y = Load(paid, c, price)
  <2>1. paid.resident[c] = None /\ resident[c] = None
    BY <1>1, <1>4, <1>6 DEF LineOK, Fewer
  <2>2. paid.line = p.line \ {c}
    BY <1>4, <1>6 DEF Fewer
  <2>3. y \in Plans /\ PlanOK(y) /\ LineOK(y)
    <3>1. c \notin paid.line /\ \A r \in paid.line : Distance(c, cam) <= Distance(r, cam)
      BY <1>1, <2>2
    <3> QED BY <1>1, <1>6, <1>7, <1>11, <2>1, <3>1, LoadOK
  <2> QED BY <2>3 DEF y
<1> QED BY <1>3, <1>8, <1>9, <1>10, <1>11

LEMMA UpdateOK ==
  ASSUME cam \in Int, resident \in Homes, NEW p \in Plans, PlanOK(p), p.loads = <<>>,
         \A r \in GoneIn(p) : Distance(r, cam) > Keep,
         NEW costs \in [Slots -> Int], NEW price \in Int, NEW cap, NEW gate
  PROVE  Update(p, costs, price, cap, gate) \in Plans /\ PlanOK(Update(p, costs, price, cap, gate))
<1> DEFINE n == Cardinality(Regions)
           V(i) == {x \in Plans : PlanOK(x) /\ LineOK(x)}
           W == [i \in 0..n |-> V(i)]
           Step(x, i) == IF x.line = {} THEN x ELSE Seat(x, costs, price, cap, gate)
           F == [i \in 1..n |-> [x \in V(i - 1) |-> Step(x, i)]]
           Folds(g) == g = [i \in 0..n |-> IF i = 0 THEN [p EXCEPT !.line = Candidates(p)] ELSE IF g[i - 1].line = {} THEN g[i - 1] ELSE Seat(g[i - 1], costs, price, cap, gate)]
           update == CHOOSE g : Folds(g)
<1>0. n \in Nat
  BY StreamerAssumption, FS_CardinalityType
<1>01. PICK start : start = [p EXCEPT !.line = Candidates(p)]
  OBVIOUS
<1>02. start \in Plans /\ PlanOK(start) /\ LineOK(start)
  <2>1. Candidates(p) \in SUBSET Regions
    BY DEF Candidates
  <2>2. /\ start \in Plans /\ PlanOK(start) /\ start.line = Candidates(p)
        /\ start.resident = p.resident /\ start.loads = p.loads
    BY <1>01, <2>1, LineSet
  <2>3. Range(start.loads) = {}
    BY <2>2, EmptyFacts
  <2>4. ASSUME NEW r \in Candidates(p) PROVE resident[r] = None /\ p.resident[r] = None
    <3>1. r \in Regions /\ Distance(r, cam) <= Radius /\ p.resident[r] = None
      BY DEF Candidates
    <3>2. r \notin GoneIn(p)
      <4>1. Radius \in Int /\ Keep \in Int /\ Radius <= Keep /\ r \in Int
        BY <3>1, StreamerAssumption
      <4>3. Distance(r, cam) \in Int
        BY <4>1 DEF Distance
      <4>2. ~(Distance(r, cam) > Keep)
        BY <3>1, <4>1, <4>3
      <4> QED BY <4>2
    <3>3. r \notin Range(p.loads)
      BY EmptyFacts
    <3> QED BY <3>1, <3>2, <3>3 DEF PlanOK
  <2> QED BY <2>2, <2>3, <2>4 DEF LineOK
<1>1. [p EXCEPT !.line = Candidates(p)] \in W[0]
  <2>1. start \in V(0)
    BY <1>02
  <2> HIDE DEF V
  <2> QED BY <1>0, <1>01, <2>1
<1>2. \A i \in 1..n : \A x \in W[i - 1] : Step(x, i) \in W[i] /\ F[i][x] = Step(x, i)
  <2> SUFFICES ASSUME NEW i \in 1..n, NEW x \in W[i - 1]
               PROVE  Step(x, i) \in W[i] /\ F[i][x] = Step(x, i)
    OBVIOUS
  <2>1. i - 1 \in 0..n /\ i \in 0..n
    BY <1>0
  <2>2. x \in V(i - 1)
    BY <2>1
  <2>3. Step(x, i) \in V(i)
    <3>0. x \in Plans /\ PlanOK(x) /\ LineOK(x)
      BY <2>2
    <3>1. CASE x.line = {}
      BY <3>0, <3>1
    <3>2. CASE x.line # {}
      <4>1. Step(x, i) = Seat(x, costs, price, cap, gate)
        BY <3>2
      <4> HIDE DEF Step
      <4> QED BY <3>0, <3>2, <4>1, SeatOK
    <3> QED BY <3>1, <3>2
  <2> HIDE DEF Step, V
  <2> QED BY <2>1, <2>2, <2>3
<1> HIDE DEF Step, W, F
<1>3. PICK g : IsFold(g, n, F, [p EXCEPT !.line = Candidates(p)]) /\ Within(g, n, W)
  BY <1>0, <1>1, <1>2, FoldExists
<1>4. Folds(g)
  <2>1. \A i \in 1..n : i - 1 \in 0..n /\ g[i - 1] \in W[i - 1]
    BY <1>0, <1>3 DEF Within
  <2>2. \A i \in 1..n : F[i][g[i - 1]] = Step(g[i - 1], i)
    BY <1>2, <2>1
  <2>3. g = [i \in 0..n |-> g[i]]
    BY <1>3 DEF IsFold
  <2>4. \A i \in 0..n : g[i] = IF i = 0 THEN [p EXCEPT !.line = Candidates(p)] ELSE F[i][g[i - 1]]
    BY <1>3 DEF IsFold
  <2>5. \A i \in 0..n : g[i] = IF i = 0 THEN [p EXCEPT !.line = Candidates(p)] ELSE Step(g[i - 1], i)
    BY <1>0, <2>2, <2>4
  <2> QED BY <2>3, <2>5, Zenon DEF Step
<1>5. Folds(update)
  BY <1>4
<1> HIDE DEF update
<1>6. update[0] \in W[0] /\ \A i \in 1..n : update[i - 1] \in W[i - 1] => update[i] \in W[i]
  <2>1. \A i \in 0..n : update[i] = IF i = 0 THEN [p EXCEPT !.line = Candidates(p)] ELSE IF update[i - 1].line = {} THEN update[i - 1] ELSE Seat(update[i - 1], costs, price, cap, gate)
    BY <1>5, Zenon
  <2>2. \A i \in 0..n : update[i] = IF i = 0 THEN [p EXCEPT !.line = Candidates(p)] ELSE Step(update[i - 1], i)
    BY <2>1, Zenon DEF Step
  <2>3. update[0] = [p EXCEPT !.line = Candidates(p)] /\ \A i \in 1..n : update[i] = Step(update[i - 1], i)
    BY <1>0, <2>2
  <2> QED BY <1>0, <1>1, <1>2, <2>3
<1>7. update[n] \in W[n]
  BY <1>0, <1>6, FoldStays
<1>8. Update(p, costs, price, cap, gate) = update[n]
  BY DEF Update, update
<1>9. Update(p, costs, price, cap, gate) \in V(n)
  BY <1>0, <1>7, <1>8 DEF W
<1> QED BY <1>9

(* Who is spared stays.                                                    *)
LEMMA EvictOK ==
  ASSUME cam \in Int, resident \in Homes, NEW p \in Plans, PlanOK(p), NEW costs \in [Slots -> Int],
         NEW spared, Range(p.loads) \subseteq spared, NEW want
  PROVE  LET q == EvictFurthest(p, costs, spared, want).plan
         IN  q \in Plans /\ PlanOK(q) /\ Fewer(p, q)
<1> DEFINE n == Cardinality(Regions)
           V(i) == {x \in [plan : Plans, paid : Int] : PlanOK(x.plan) /\ Fewer(p, x.plan)}
           W == [i \in 0..n |-> V(i)]
           Step(x, i) == LET payers == {r \in ResidentIn(x.plan) \ spared : Cost(costs, x.plan, r) > 0}
                         IN  IF payers = {} \/ (i > 1 /\ x.paid >= want) THEN x
                             ELSE LET r == Furthest(payers)
                                  IN  [plan |-> Release(x.plan, r), paid |-> x.paid + Cost(costs, x.plan, r)]
           F == [i \in 1..n |-> [x \in V(i - 1) |-> Step(x, i)]]
           Folds(g) == g = [i \in 0..n |-> IF i = 0 THEN [plan |-> p, paid |-> 0] ELSE LET payers == {r \in ResidentIn(g[i - 1].plan) \ spared : Cost(costs, g[i - 1].plan, r) > 0}
                         IN  IF payers = {} \/ (i > 1 /\ g[i - 1].paid >= want) THEN g[i - 1]
                             ELSE LET r == Furthest(payers)
                                  IN  [plan |-> Release(g[i - 1].plan, r), paid |-> g[i - 1].paid + Cost(costs, g[i - 1].plan, r)]]
           evict == CHOOSE g : Folds(g)
<1>0. n \in Nat
  BY StreamerAssumption, FS_CardinalityType
<1>01. p \in Plans /\ PlanOK(p) /\ Fewer(p, p)
  BY DEF Fewer
<1>1. [plan |-> p, paid |-> 0] \in W[0]
  <2>1. [plan |-> p, paid |-> 0] \in V(0)
    BY <1>01
  <2> HIDE DEF V
  <2> QED BY <1>0, <2>1
<1>2. \A i \in 1..n : \A x \in W[i - 1] : Step(x, i) \in W[i] /\ F[i][x] = Step(x, i)
  <2> SUFFICES ASSUME NEW i \in 1..n, NEW x \in W[i - 1]
               PROVE  Step(x, i) \in W[i] /\ F[i][x] = Step(x, i)
    OBVIOUS
  <2>1. i - 1 \in 0..n /\ i \in 0..n
    BY <1>0
  <2>2. x \in V(i - 1)
    BY <2>1
  <2>3. Step(x, i) \in V(i)
    <3> DEFINE payers == {r \in ResidentIn(x.plan) \ spared : Cost(costs, x.plan, r) > 0}
               r == Furthest(payers)
               y == Release(x.plan, r)
    <3>1. CASE payers = {} \/ (i > 1 /\ x.paid >= want)
      <4>1. Step(x, i) = x
        BY <3>1
      <4> HIDE DEF V, Step
      <4> QED BY <2>2, <4>1 DEF V
    <3>2. CASE ~(payers = {} \/ (i > 1 /\ x.paid >= want))
      <4>0. x.plan \in Plans /\ x.paid \in Int /\ PlanOK(x.plan) /\ Fewer(p, x.plan)
        BY <2>2
      <4>1. payers \in SUBSET Regions /\ payers # {}
        BY <3>2, ResidentRegions
      <4>2. r \in payers
        <5> HIDE DEF payers
        <5> QED BY <4>1, FurthestIsIn
      <4>3. r \in ResidentIn(x.plan) /\ r \notin spared
        BY <4>2
      <4>4. Step(x, i) = [plan |-> y, paid |-> x.paid + Cost(costs, x.plan, r)]
        BY <3>2
      <4>5. y = Release(x.plan, r)
        OBVIOUS
      <4> HIDE DEF y, r, payers, Step
      <4>6. r \notin Range(x.plan.loads)
        BY <4>0, <4>3 DEF Fewer
      <4>7. y \in Plans /\ PlanOK(y) /\ Fewer(x.plan, y)
        BY <4>0, <4>3, <4>5, <4>6, ReleaseOK
      <4>8. Fewer(p, y)
        BY <4>0, <4>7, FewerOn
      <4>9. x.paid + Cost(costs, x.plan, r) \in Int
        <5>1. x.plan.resident[r] \in Slots
          BY <4>0, <4>3, PlanTypes DEF ResidentIn, Homes
        <5> QED BY <4>0, <5>1 DEF Cost
      <4> QED BY <4>4, <4>7, <4>8, <4>9
    <3> HIDE DEF payers
    <3> QED BY <3>1, <3>2
  <2> HIDE DEF Step, V
  <2> QED BY <2>1, <2>2, <2>3
<1> HIDE DEF Step, W, F
<1>3. PICK g : IsFold(g, n, F, [plan |-> p, paid |-> 0]) /\ Within(g, n, W)
  BY <1>0, <1>1, <1>2, FoldExists
<1>4. Folds(g)
  <2>1. \A i \in 1..n : i - 1 \in 0..n /\ g[i - 1] \in W[i - 1]
    BY <1>0, <1>3 DEF Within
  <2>2. \A i \in 1..n : F[i][g[i - 1]] = Step(g[i - 1], i)
    BY <1>2, <2>1
  <2>3. g = [i \in 0..n |-> g[i]]
    BY <1>3 DEF IsFold
  <2>4. \A i \in 0..n : g[i] = IF i = 0 THEN [plan |-> p, paid |-> 0] ELSE F[i][g[i - 1]]
    BY <1>3 DEF IsFold
  <2>5. \A i \in 0..n : g[i] = IF i = 0 THEN [plan |-> p, paid |-> 0] ELSE Step(g[i - 1], i)
    BY <1>0, <2>2, <2>4
  <2> QED BY <2>3, <2>5, Zenon DEF Step
<1>5. Folds(evict)
  BY <1>4
<1> HIDE DEF evict
<1>6. evict[0] \in W[0] /\ \A i \in 1..n : evict[i - 1] \in W[i - 1] => evict[i] \in W[i]
  <2>1. \A i \in 0..n : evict[i] = IF i = 0 THEN [plan |-> p, paid |-> 0] ELSE LET payers == {r \in ResidentIn(evict[i - 1].plan) \ spared : Cost(costs, evict[i - 1].plan, r) > 0}
                         IN  IF payers = {} \/ (i > 1 /\ evict[i - 1].paid >= want) THEN evict[i - 1]
                             ELSE LET r == Furthest(payers)
                                  IN  [plan |-> Release(evict[i - 1].plan, r), paid |-> evict[i - 1].paid + Cost(costs, evict[i - 1].plan, r)]
    BY <1>5, Zenon
  <2>2. \A i \in 0..n : evict[i] = IF i = 0 THEN [plan |-> p, paid |-> 0] ELSE Step(evict[i - 1], i)
    BY <2>1, Zenon DEF Step
  <2>3. evict[0] = [plan |-> p, paid |-> 0] /\ \A i \in 1..n : evict[i] = Step(evict[i - 1], i)
    BY <1>0, <2>2
  <2> QED BY <1>0, <1>1, <1>2, <2>3
<1>7. evict[n] \in W[n]
  BY <1>0, <1>6, FoldStays
<1>8. EvictFurthest(p, costs, spared, want) = evict[n]
  BY DEF EvictFurthest, evict
<1>9. EvictFurthest(p, costs, spared, want) \in V(n)
  BY <1>0, <1>7, <1>8 DEF W
<1> QED BY <1>9

LEMMA ShrinkOK ==
  ASSUME cam \in Int, resident \in Homes, NEW p \in Plans, PlanOK(p), NEW costs \in [Slots -> Int],
         NEW price
  PROVE  Shrink(p, costs, price) \in Plans /\ PlanOK(Shrink(p, costs, price)) /\ Fewer(p, Shrink(p, costs, price))
<1> DEFINE n == Shrinks
           V(i) == {x \in Plans : PlanOK(x) /\ Fewer(p, x)}
           W == [i \in 0..n |-> V(i)]
           Step(x, i) == EvictFurthest(x, costs, Range(p.loads), price).plan
           F == [i \in 1..n |-> [x \in V(i - 1) |-> Step(x, i)]]
           Folds(g) == g = [i \in 0..n |-> IF i = 0 THEN p ELSE EvictFurthest(g[i - 1], costs, Range(p.loads), price).plan]
           shrink == CHOOSE g : Folds(g)
<1>0. n \in Nat
  BY StreamerAssumption
<1>01. p \in Plans /\ PlanOK(p) /\ Fewer(p, p)
  BY DEF Fewer
<1>1. p \in W[0]
  <2>1. p \in V(0)
    BY <1>01
  <2> HIDE DEF V
  <2> QED BY <1>0, <2>1
<1>2. \A i \in 1..n : \A x \in W[i - 1] : Step(x, i) \in W[i] /\ F[i][x] = Step(x, i)
  <2> SUFFICES ASSUME NEW i \in 1..n, NEW x \in W[i - 1]
               PROVE  Step(x, i) \in W[i] /\ F[i][x] = Step(x, i)
    OBVIOUS
  <2>1. i - 1 \in 0..n /\ i \in 0..n
    BY <1>0
  <2>2. x \in V(i - 1)
    BY <2>1
  <2>3. Step(x, i) \in V(i)
    <3>0. x \in Plans /\ PlanOK(x) /\ Fewer(p, x)
      BY <2>2
    <3>1. Range(x.loads) \subseteq Range(p.loads)
      BY <3>0 DEF Fewer
    <3>2. Step(x, i) \in Plans /\ PlanOK(Step(x, i)) /\ Fewer(x, Step(x, i))
      BY <3>0, <3>1, EvictOK
    <3> HIDE DEF Step
    <3>3. Fewer(p, Step(x, i))
      BY <3>0, <3>2, FewerOn
    <3> QED BY <3>2, <3>3
  <2> HIDE DEF Step, V
  <2> QED BY <2>1, <2>2, <2>3
<1> HIDE DEF Step, W, F
<1>3. PICK g : IsFold(g, n, F, p) /\ Within(g, n, W)
  BY <1>0, <1>1, <1>2, FoldExists
<1>4. Folds(g)
  <2>1. \A i \in 1..n : i - 1 \in 0..n /\ g[i - 1] \in W[i - 1]
    BY <1>0, <1>3 DEF Within
  <2>2. \A i \in 1..n : F[i][g[i - 1]] = Step(g[i - 1], i)
    BY <1>2, <2>1
  <2>3. g = [i \in 0..n |-> g[i]]
    BY <1>3 DEF IsFold
  <2>4. \A i \in 0..n : g[i] = IF i = 0 THEN p ELSE F[i][g[i - 1]]
    BY <1>3 DEF IsFold
  <2>5. \A i \in 0..n : g[i] = IF i = 0 THEN p ELSE Step(g[i - 1], i)
    BY <1>0, <2>2, <2>4
  <2> QED BY <2>3, <2>5, Zenon DEF Step
<1>5. Folds(shrink)
  BY <1>4
<1> HIDE DEF shrink
<1>6. shrink[0] \in W[0] /\ \A i \in 1..n : shrink[i - 1] \in W[i - 1] => shrink[i] \in W[i]
  <2>1. \A i \in 0..n : shrink[i] = IF i = 0 THEN p ELSE EvictFurthest(shrink[i - 1], costs, Range(p.loads), price).plan
    BY <1>5, Zenon
  <2>2. \A i \in 0..n : shrink[i] = IF i = 0 THEN p ELSE Step(shrink[i - 1], i)
    BY <2>1, Zenon DEF Step
  <2>3. shrink[0] = p /\ \A i \in 1..n : shrink[i] = Step(shrink[i - 1], i)
    BY <1>0, <2>2
  <2> QED BY <1>0, <1>1, <1>2, <2>3
<1>7. shrink[n] \in W[n]
  BY <1>0, <1>6, FoldStays
<1>8. Shrink(p, costs, price) = shrink[n]
  BY DEF Shrink, shrink
<1>9. Shrink(p, costs, price) \in V(n)
  BY <1>0, <1>7, <1>8 DEF W
<1> QED BY <1>9

-----------------------------------------------------------------------------
(* What a frame plans                                                      *)

(* A plan as it leaves the residency.                                      *)
LEMMA UpdatedOK ==
  ASSUME cam \in Int, resident \in Homes, spare \in Seq(Slots), Tenants(resident, spare),
         NEW kn \in Knowns, NEW gate,
         NEW upd, upd = Updated(kn, gate)
  PROVE  upd.plan \in Plans /\ PlanOK(upd.plan) /\ upd.price \in Int
<1> DEFINE dearest == Greatest({kn.costs[s] : s \in Slots})
           price   == Most(Floor, IF dearest > 0 THEN dearest ELSE Fallback)
           start   == [resident |-> resident, spare |-> spare, evicts |-> <<>>, loads |-> <<>>,
                       available |-> Most(0, kn.free - kn.owed) - Reserve(price), line |-> {}]
           drifted == Drifted(start, kn.costs)
           cap == Least(LoadsAFrame, Most(0, StagedLoads - Len(staged)))
<1>1. kn.costs \in [Slots -> Int] /\ kn.free \in Int /\ kn.owed \in Int
  BY DEF Knowns
<1>2. dearest \in Int
  <2>1. {kn.costs[s] : s \in Slots} \in SUBSET Int
    BY <1>1
  <2>2. IsFiniteSet({kn.costs[s] : s \in Slots})
    <3>1. IsFiniteSet(Slots)
      BY StreamerAssumption, FS_Interval DEF Slots
    <3>2. kn.costs \in Surjection(Slots, {kn.costs[s] : s \in Slots})
      BY <1>1 DEF Surjection
    <3> QED BY <3>1, <3>2, FS_Surjection
  <2>3. {kn.costs[s] : s \in Slots} # {}
    <3>1. 1 \in Slots
      BY StreamerAssumption DEF Slots
    <3> QED BY <3>1
  <2> QED BY <2>1, <2>2, <2>3, GreatestIsIn
<1> HIDE DEF dearest
<1>3. price \in Int
  BY <1>2, StreamerAssumption DEF Most
<1> HIDE DEF price
<1>4. Most(0, kn.free - kn.owed) - Reserve(price) \in Int
  <2>1. /\ Atlas \in Int /\ ReserveBase \in Int /\ LoadsAFrame \in Int /\ Atlas \div 4 \in Int
        /\ LoadsAFrame * price \in Int
    BY <1>3, StreamerAssumption
  <2>2. Reserve(price) \in Int
    BY <2>1 DEF Reserve, Least, Most
  <2>3. Most(0, kn.free - kn.owed) \in Int
    BY <1>1 DEF Most
  <2> QED BY <2>2, <2>3
<1>5. start \in Plans /\ start.loads = <<>> /\ start.evicts = <<>>
  <2>1. <<>> \in Seq(Evictions) /\ <<>> \in Seq(Regions)
    OBVIOUS
  <2> QED BY <1>4, <2>1 DEF Plans
<1>6. PlanOK(start)
  <2>1. GoneIn(start) = {} /\ FreedIn(start) = {} /\ Range(start.loads) = {} /\ Range(start.evicts) = {}
    BY EmptyFacts DEF GoneIn, FreedIn
  <2>2. start.resident = resident /\ start.spare = spare /\ Once(start.loads)
    BY EmptyFacts
  <2> HIDE DEF start
  <2> QED BY <2>1, <2>2 DEF PlanOK
<1> HIDE DEF start
<1>7. /\ drifted \in Plans /\ PlanOK(drifted) /\ drifted.loads = <<>>
      /\ \A r \in GoneIn(drifted) : Distance(r, cam) > Keep
  BY <1>1, <1>5, <1>6, DriftedOK
<1> HIDE DEF drifted
<1>8. Update(drifted, kn.costs, price, cap, gate) \in Plans /\ PlanOK(Update(drifted, kn.costs, price, cap, gate))
  BY <1>1, <1>3, <1>7, UpdateOK
<1>9. upd.plan = Update(drifted, kn.costs, price, cap, gate) /\ upd.price = price
  BY DEF Updated, drifted, start, price, dearest
<1> QED BY <1>3, <1>8, <1>9

(* What leaves after that spares what loads.                               *)
LEMMA SettledOK ==
  ASSUME cam \in Int, resident \in Homes, NEW kn \in Knowns,
         NEW upd, upd.plan \in Plans, PlanOK(upd.plan),
         NEW plan, plan = Settled(kn, upd)
  PROVE  plan \in Plans /\ PlanOK(plan) /\ plan.loads = upd.plan.loads
<1> DEFINE p == upd.plan
           shrunk == IF "full" \in Reported THEN Shrink(p, kn.costs, upd.price) ELSE p
           touched == {pending[i][1] : i \in DOMAIN pending} \cap ResidentIn(shrunk)
           spared == touched \cup Range(p.loads)
           e == EvictFurthest(shrunk, kn.costs, spared, Headroom).plan
<1>0. kn.costs \in [Slots -> Int]
  BY DEF Knowns
<1>1. shrunk \in Plans /\ PlanOK(shrunk) /\ shrunk.loads = p.loads
  <2>1. Shrink(p, kn.costs, upd.price) \in Plans /\ PlanOK(Shrink(p, kn.costs, upd.price))
        /\ Fewer(p, Shrink(p, kn.costs, upd.price))
    BY <1>0, ShrinkOK
  <2> QED BY <2>1 DEF Fewer
<1>2. plan = e \/ plan = shrunk
  BY Zenon DEF Settled
<1> HIDE DEF shrunk
<1>3. e \in Plans /\ PlanOK(e) /\ e.loads = p.loads
  <2>1. Range(shrunk.loads) \subseteq spared
    BY <1>1
  <2> HIDE DEF spared
  <2>2. e \in Plans /\ PlanOK(e) /\ Fewer(shrunk, e)
    BY <1>0, <1>1, <2>1, EvictOK
  <2> QED BY <1>1, <2>2 DEF Fewer
<1> HIDE DEF e, p
<1> QED BY <1>1, <1>2, <1>3 DEF p

-----------------------------------------------------------------------------
(* The queue                                                               *)

Forced(e) == e.force
Alone(st) == \A i, j \in DOMAIN st : st[i].region = st[j].region => i = j

LEMMA EntryTypes ==
  ASSUME NEW e \in Entries
  PROVE  e.region \in Regions /\ e.slot \in Slots /\ e.next \in 0..Slabs /\ Slabs \in Nat
  BY StreamerAssumption DEF Entries

LEMMA SeqFacts ==
  ASSUME NEW T, NEW q \in Seq(T)
  PROVE  /\ Len(q) \in Nat /\ DOMAIN q = 1..Len(q) /\ Range(q) \subseteq T
         /\ \A i \in 1..Len(q) : q[i] \in T /\ q[i] \in Range(q)
         /\ \A x \in Range(q) : \E i \in 1..Len(q) : q[i] = x
  BY LenProperties DEF Range

(* Regions that are in a queue once are in each part of it once.           *)
LEMMA OnlyAlone ==
  ASSUME NEW st \in Seq(Entries), Alone(st), NEW S
  PROVE  Alone(Only(st, S))
<1> DEFINE q == Only(st, S)
<1>1. q \in Seq(Entries) /\ Range(q) = Range(st) \cap S /\ (Once(st) => Once(q))
  BY OnlyFacts
<1>2. Once(st)
  BY DEF Alone, Once
<1>3. \A x, y \in Range(st) : x.region = y.region => x = y
  BY DEF Alone, Range
<1> HIDE DEF q
<1>4. \A i \in DOMAIN q : q[i] \in Range(st)
  BY <1>1 DEF Range
<1>5. Alone(q)
  BY <1>1, <1>2, <1>3, <1>4 DEF Alone, Once
<1> QED BY <1>5 DEF q

(* What restaging makes of an entry.                                       *)
Restarted(e, f, rs) ==
  /\ f.region = e.region /\ f.slot = e.slot
  /\ e.region \in rs => f.next = 0 /\ Forced(f)
  /\ e.region \notin rs => f = e

LEMMA RestageFacts ==
  ASSUME NEW st \in Seq(Entries), NEW rs, NEW q, q = Restage(st, rs)
  PROVE  /\ q \in Seq(Entries)
         /\ \A e \in Range(st) : \E f \in Range(q) : Restarted(e, f, rs)
         /\ \A f \in Range(q) : \E e \in Range(st) : Restarted(e, f, rs)
         /\ Alone(st) => Alone(q)
         /\ st = <<>> => q = <<>>
<1>1. Len(st) \in Nat /\ DOMAIN st = 1..Len(st) /\ \A i \in 1..Len(st) : st[i] \in Entries
  BY LenProperties
<1>2. ASSUME NEW i \in 1..Len(st) PROVE q[i] \in Entries /\ Restarted(st[i], q[i], rs)
  <2> DEFINE e == st[i]
             f == q[i]
  <2>1. e \in Entries /\ f = IF e.region \in rs THEN [e EXCEPT !.next = 0, !.force = TRUE] ELSE e
    BY <1>1, <1>2 DEF Restage
  <2> HIDE DEF e, f
  <2>2. CASE e.region \in rs
    <3>1. f = [region |-> e.region, slot |-> e.slot, next |-> 0, force |-> TRUE]
      BY <2>1, <2>2 DEF Entries
    <3>2. 0 \in 0..Slabs
      BY StreamerAssumption
    <3>3. f \in Entries
      BY <2>1, <3>1, <3>2, EntryTypes DEF Entries
    <3>4. Restarted(e, f, rs)
      BY <2>2, <3>1 DEF Restarted, Forced
    <3> QED BY <3>3, <3>4 DEF e, f
  <2>3. CASE e.region \notin rs
    BY <2>1, <2>3 DEF Restarted, e, f
  <2> QED BY <2>2, <2>3
<1>3. DOMAIN q = 1..Len(st) /\ q \in Seq(Entries)
  <2>1. q = [i \in 1..Len(st) |-> q[i]]
    BY <1>1 DEF Restage
  <2>2. q \in [1..Len(st) -> Entries]
    BY <1>2, <2>1
  <2> QED BY <1>1, <2>2, IsASeq
<1>4. \A e \in Range(st) : \E f \in Range(q) : Restarted(e, f, rs)
  BY <1>1, <1>2, <1>3 DEF Range
<1>5. \A f \in Range(q) : \E e \in Range(st) : Restarted(e, f, rs)
  BY <1>1, <1>2, <1>3 DEF Range
<1>6. Alone(st) => Alone(q)
  BY <1>1, <1>2, <1>3 DEF Alone, Restarted
<1>7. st = <<>> => q = <<>>
  <2> SUFFICES ASSUME st = <<>> PROVE q = <<>>
    OBVIOUS
  <2>1. Len(st) = 0
    BY EmptyFacts
  <2>2. Len(q) = 0
    BY <1>3, <2>1, LenProperties
  <2> QED BY <1>3, <2>2, EmptySeq
<1> QED BY <1>3, <1>4, <1>5, <1>6, <1>7

(* Slabs go in from where the region stands.                               *)
LEMMA SlabsDueFacts ==
  ASSUME NEW e \in Entries, NEW kn, kn.counts \in Tallies, NEW money \in Int, NEW first
  PROVE  /\ SlabsDue(e, kn, money, first).next \in e.next..Slabs
         /\ SlabsDue(e, kn, money, first).left \in Int
<1> DEFINE start == [next |-> e.next, left |-> money, stop |-> FALSE]
           Dues == [next : e.next..Slabs, left : Int, stop : BOOLEAN]
           W == [i \in 0..Slabs |-> Dues]
           Due(x, k) == IF x.stop \/ (kn.counts[e.slot][k] > x.left /\ ~(first /\ x.next = e.next))
                        THEN [x EXCEPT !.stop = TRUE]
                        ELSE [x EXCEPT !.next = k, !.left = @ - kn.counts[e.slot][k]]
           Step(x, i) == IF i <= e.next THEN start ELSE Due(x, i)
           F == [i \in 1..Slabs |-> [x \in Dues |-> Step(x, i)]]
           Folds(g) == g = [k \in 0..Slabs |->
                              IF k <= e.next THEN start
                              ELSE LET d == g[k - 1]
                                   IN  IF d.stop \/ (kn.counts[e.slot][k] > d.left /\ ~(first /\ d.next = e.next))
                                       THEN [d EXCEPT !.stop = TRUE]
                                       ELSE [d EXCEPT !.next = k, !.left = @ - kn.counts[e.slot][k]]]
           due == CHOOSE g : Folds(g)
<1>0. Slabs \in Nat /\ e.next \in 0..Slabs /\ e.slot \in Slots
  BY EntryTypes
<1>1. start \in W[0]
  BY <1>0
<1> HIDE DEF start
<1>2. \A i \in 1..Slabs : \A x \in W[i - 1] : Step(x, i) \in W[i] /\ F[i][x] = Step(x, i)
  <2> SUFFICES ASSUME NEW i \in 1..Slabs, NEW x \in W[i - 1]
               PROVE  Step(x, i) \in W[i] /\ F[i][x] = Step(x, i)
    OBVIOUS
  <2>1. i - 1 \in 0..Slabs /\ i \in 0..Slabs /\ x \in Dues /\ start \in Dues
    BY <1>0, <1>1
  <2>2. kn.counts[e.slot][i] \in Nat
    BY <1>0 DEF Tallies, Bricks
  <2>3. CASE i <= e.next
    BY <2>1, <2>3
  <2>4. CASE ~(i <= e.next)
    <3>1. i \in e.next..Slabs
      BY <1>0, <2>4
    <3>2. \/ Due(x, i) = [x EXCEPT !.stop = TRUE]
          \/ Due(x, i) = [x EXCEPT !.next = i, !.left = @ - kn.counts[e.slot][i]]
      BY Zenon
    <3> HIDE DEF Due
    <3>3. Due(x, i) \in Dues
      <4>1. [x EXCEPT !.stop = TRUE] \in Dues
        BY <2>1
      <4>2. x.left - kn.counts[e.slot][i] \in Int
        BY <2>1, <2>2
      <4>3. [x EXCEPT !.next = i, !.left = @ - kn.counts[e.slot][i]] \in Dues
        BY <2>1, <3>1, <4>2
      <4> HIDE DEF Dues
      <4> QED BY <3>2, <4>1, <4>3
    <3> HIDE DEF Dues
    <3> QED BY <2>1, <2>4, <3>3
  <2> QED BY <2>3, <2>4
<1> HIDE DEF Step, W, F
<1>3. PICK g : IsFold(g, Slabs, F, start) /\ Within(g, Slabs, W)
  BY <1>0, <1>1, <1>2, FoldExists
<1>4. \A h : Folds(h) <=> h = [k \in 0..Slabs |-> IF k <= e.next THEN start ELSE Due(h[k - 1], k)]
  OBVIOUS
<1> HIDE DEF Folds, Due
<1>5. Folds(g)
  <2>1. \A i \in 1..Slabs : i - 1 \in 0..Slabs /\ g[i - 1] \in W[i - 1]
    BY <1>0, <1>3 DEF Within
  <2>2. \A i \in 1..Slabs : F[i][g[i - 1]] = Step(g[i - 1], i)
    BY <1>2, <2>1
  <2>3. g = [i \in 0..Slabs |-> g[i]]
    BY <1>3 DEF IsFold
  <2>4. \A i \in 0..Slabs : g[i] = IF i = 0 THEN start ELSE F[i][g[i - 1]]
    BY <1>3 DEF IsFold
  <2>5. \A i \in 0..Slabs : g[i] = IF i <= e.next THEN start ELSE Due(g[i - 1], i)
    <3> SUFFICES ASSUME NEW i \in 0..Slabs PROVE g[i] = IF i <= e.next THEN start ELSE Due(g[i - 1], i)
      OBVIOUS
    <3>1. CASE i = 0
      <4>1. i <= e.next /\ g[i] = start
        BY <1>0, <2>4, <3>1
      <4> QED BY <4>1
    <3>2. CASE i # 0
      <4>1. i \in 1..Slabs /\ g[i] = Step(g[i - 1], i)
        BY <1>0, <2>2, <2>4, <3>2
      <4> QED BY <4>1 DEF Step
    <3> QED BY <3>1, <3>2
  <2> QED BY <2>3, <2>5, <1>4
<1>6. Folds(due)
  BY <1>5
<1> HIDE DEF due
<1>7. \A k \in 0..Slabs : due[k] = IF k <= e.next THEN start ELSE Due(due[k - 1], k)
  <2>1. due = [k \in 0..Slabs |-> IF k <= e.next THEN start ELSE Due(due[k - 1], k)]
    BY <1>4, <1>6
  <2> DEFINE R(k) == IF k <= e.next THEN start ELSE Due(due[k - 1], k)
  <2> HIDE DEF R
  <2>2. due = [k \in 0..Slabs |-> R(k)]
    BY <2>1 DEF R
  <2>3. \A k \in 0..Slabs : due[k] = R(k)
    BY <2>2
  <2> QED BY <2>3 DEF R
<1>8. due[0] \in W[0] /\ \A i \in 1..Slabs : due[i - 1] \in W[i - 1] => due[i] \in W[i]
  <2>1. due[0] = start
    BY <1>0, <1>7
  <2>2. \A i \in 1..Slabs : due[i] = Step(due[i - 1], i)
    BY <1>0, <1>7 DEF Step
  <2> QED BY <1>1, <1>2, <2>1, <2>2
<1>9. due[Slabs] \in W[Slabs]
  BY <1>0, <1>8, FoldStays
<1>10. SlabsDue(e, kn, money, first) = due[Slabs]
  BY DEF SlabsDue, due, Folds, start
<1>11. SlabsDue(e, kn, money, first) \in Dues
  <2>1. W[Slabs] = Dues
    <3> HIDE DEF Dues
    <3> QED BY <1>0 DEF W
  <2> QED BY <1>9, <1>10, <2>1
<1> QED BY <1>11

(* The job that takes entry e up to slab n, and what it makes of it.       *)
JobOf(e, n) ==
  [region |-> e.region, slot |-> e.slot, bricks |-> (e.next + 1)..n,
   mode |-> IF e.force THEN "force" ELSE "allocate"]

JobFor(j, e) == j.region = e.region /\ j.slot = e.slot /\ j.mode # "probe"

Went(e, f, counted, js) ==
  /\ f.region = e.region /\ f.slot = e.slot /\ (Forced(f) <=> Forced(e))
  /\ f = e \/ (e.region \in counted /\ JobOf(e, f.next) \in js)

Adds(x, e, f, counted, y) ==
  /\ y.staged = Append(x.staged, f)
  /\ \/ f = e /\ y.jobs = x.jobs
     \/ /\ e.region \in counted /\ Went(e, f, counted, {JobOf(e, f.next)})
        /\ JobOf(e, f.next) \in Jobs
        /\ y.jobs = Append(x.jobs, JobOf(e, f.next))

Schedules == [left : Int, staged : Seq(Entries), jobs : Seq(Jobs)]

LEMMA ScheduledFacts ==
  ASSUME NEW x \in Schedules, NEW e \in Entries, NEW kn, kn.counts \in Tallies,
         NEW y, y = Scheduled(x, e, kn)
  PROVE  y \in Schedules /\ \E f \in Entries : Adds(x, e, f, kn.counted, y)
<1> DEFINE d == SlabsDue(e, kn, x.left, x.jobs = <<>>)
           f == [e EXCEPT !.next = d.next]
           job == JobOf(e, d.next)
<1>0. x.left \in Int /\ x.staged \in Seq(Entries) /\ x.jobs \in Seq(Jobs)
  BY DEF Schedules
<1>1. \/ y = [x EXCEPT !.staged = Append(@, e)]
      \/ /\ e.region \in kn.counted
         /\ y = [left |-> d.left, staged |-> Append(x.staged, f), jobs |-> Append(x.jobs, job)]
  BY Zenon DEF Scheduled, JobOf
<1>2. d.next \in e.next..Slabs /\ d.left \in Int
  BY <1>0, SlabsDueFacts
<1> HIDE DEF d
<1>3. e.region \in Regions /\ e.slot \in Slots /\ e.next \in 0..Slabs /\ Slabs \in Nat
  BY EntryTypes
<1>4. f \in Entries /\ f.next = d.next /\ f.region = e.region /\ f.slot = e.slot /\ f.force = e.force
  <2>1. d.next \in 0..Slabs
    BY <1>2, <1>3
  <2> QED BY <2>1 DEF Entries
<1>5. job \in Jobs
  <2>1. (e.next + 1)..d.next \in SUBSET Bricks
    BY <1>2, <1>3 DEF Bricks
  <2> QED BY <1>3, <2>1 DEF Jobs, JobOf, Modes
<1> HIDE DEF f
<1>6. CASE y = [x EXCEPT !.staged = Append(@, e)]
  <2>1. y = [left |-> x.left, staged |-> Append(x.staged, e), jobs |-> x.jobs]
    BY <1>6 DEF Schedules
  <2>2. Append(x.staged, e) \in Seq(Entries)
    BY <1>0, AppendFacts
  <2>3. y \in Schedules /\ y.staged = Append(x.staged, e) /\ y.jobs = x.jobs
    BY <1>0, <2>1, <2>2 DEF Schedules
  <2> QED BY <2>3 DEF Adds
<1>7. CASE /\ e.region \in kn.counted
           /\ y = [left |-> d.left, staged |-> Append(x.staged, f), jobs |-> Append(x.jobs, job)]
  <2>1. Append(x.staged, f) \in Seq(Entries) /\ Append(x.jobs, job) \in Seq(Jobs)
    BY <1>0, <1>4, <1>5, AppendFacts
  <2>2. y \in Schedules
    BY <1>2, <1>7, <2>1 DEF Schedules
  <2>3. y.staged = Append(x.staged, f) /\ y.jobs = Append(x.jobs, JobOf(e, f.next)) /\ JobOf(e, f.next) \in Jobs
    BY <1>4, <1>5, <1>7
  <2>4. Forced(f) <=> Forced(e)
    BY <1>4 DEF Forced
  <2>5. Went(e, f, kn.counted, {JobOf(e, f.next)})
    BY <1>4, <1>7, <2>4 DEF Went
  <2> QED BY <1>4, <1>7, <2>2, <2>3, <2>5 DEF Adds
<1> QED BY <1>1, <1>6, <1>7

Scheduling(st, counted, z) ==
  /\ z.staged \in Seq(Entries) /\ z.jobs \in Seq(Jobs) /\ Len(z.staged) = Len(st)
  /\ \A m \in 1..Len(st) : Went(st[m], z.staged[m], counted, Range(z.jobs))
  /\ \A j \in Range(z.jobs) : \E m \in 1..Len(st) : JobFor(j, st[m])
  /\ z.jobs = <<>> => z.staged = st

LEMMA ScheduleFacts ==
  ASSUME NEW st \in Seq(Entries), NEW kn, kn.counts \in Tallies, NEW z, z = Schedule(st, kn)
  PROVE  Scheduling(st, kn.counted, z)
<1> DEFINE n == Len(st)
           V(i) == {x \in Schedules :
                      /\ Len(x.staged) = i
                      /\ \A m \in 1..i : Went(st[m], x.staged[m], kn.counted, Range(x.jobs))
                      /\ \A j \in Range(x.jobs) : \E m \in 1..i : JobFor(j, st[m])
                      /\ x.jobs = <<>> => \A m \in 1..i : x.staged[m] = st[m]}
           W == [i \in 0..n |-> V(i)]
           Step(x, i) == Scheduled(x, st[i], kn)
           F == [i \in 1..n |-> [x \in V(i - 1) |-> Step(x, i)]]
           Folds(g) == g = [i \in 0..n |-> IF i = 0 THEN [left |-> JobBudget, staged |-> <<>>, jobs |-> <<>>] ELSE Scheduled(g[i - 1], st[i], kn)]
           run == CHOOSE g : Folds(g)
<1>0. n \in Nat /\ DOMAIN st = 1..n /\ \A i \in 1..n : st[i] \in Entries
  BY LenProperties
<1>1. [left |-> JobBudget, staged |-> <<>>, jobs |-> <<>>] \in W[0]
  <2>1. PICK a : a = [left |-> JobBudget, staged |-> <<>>, jobs |-> <<>>]
    OBVIOUS
  <2>2. JobBudget \in Int /\ <<>> \in Seq(Entries) /\ <<>> \in Seq(Jobs) /\ Len(<<>>) = 0 /\ Range(<<>>) = {}
    BY StreamerAssumption, EmptyFacts
  <2>3. a \in Schedules /\ a.staged = <<>> /\ a.jobs = <<>>
    BY <2>1, <2>2 DEF Schedules
  <2>4. a \in V(0)
    BY <2>2, <2>3
  <2> HIDE DEF V
  <2> QED BY <1>0, <2>1, <2>4
<1>2. \A i \in 1..n : \A x \in W[i - 1] : Step(x, i) \in W[i] /\ F[i][x] = Step(x, i)
  <2> SUFFICES ASSUME NEW i \in 1..n, NEW x \in W[i - 1]
               PROVE  Step(x, i) \in W[i] /\ F[i][x] = Step(x, i)
    OBVIOUS
  <2>1. i - 1 \in 0..n /\ i \in 0..n
    BY <1>0
  <2>2. x \in V(i - 1)
    BY <2>1
  <2>3. Step(x, i) \in V(i)
    <3> DEFINE e == st[i]
               y == Scheduled(x, e, kn)
    <3>0. /\ x \in Schedules /\ Len(x.staged) = i - 1
          /\ \A m \in 1..(i - 1) : Went(st[m], x.staged[m], kn.counted, Range(x.jobs))
          /\ \A j \in Range(x.jobs) : \E m \in 1..(i - 1) : JobFor(j, st[m])
          /\ x.jobs = <<>> => \A m \in 1..(i - 1) : x.staged[m] = st[m]
      BY <2>2
    <3>1. e \in Entries /\ x.staged \in Seq(Entries) /\ x.jobs \in Seq(Jobs)
      BY <1>0, <3>0 DEF Schedules
    <3>2. PICK f \in Entries : y \in Schedules /\ Adds(x, e, f, kn.counted, y)
      <4>1. y = Scheduled(x, e, kn)
        OBVIOUS
      <4> HIDE DEF y, e
      <4>2. y \in Schedules /\ \E f \in Entries : Adds(x, e, f, kn.counted, y)
        BY <3>0, <3>1, <4>1, ScheduledFacts
      <4> QED BY <4>2
    <3>3. /\ y.staged = Append(x.staged, f)
          /\ \/ f = e /\ y.jobs = x.jobs
             \/ /\ e.region \in kn.counted /\ Went(e, f, kn.counted, {JobOf(e, f.next)})
                /\ JobOf(e, f.next) \in Jobs
                /\ y.jobs = Append(x.jobs, JobOf(e, f.next))
      BY <3>2 DEF Adds
    <3> HIDE DEF y
    <3>4. /\ Len(y.staged) = i /\ y.staged[i] = f
          /\ \A m \in 1..(i - 1) : y.staged[m] = x.staged[m]
      <4>1. /\ \A m \in 1..Len(x.staged) : Append(x.staged, f)[m] = x.staged[m]
            /\ Append(x.staged, f)[Len(x.staged) + 1] = f
            /\ Len(Append(x.staged, f)) = Len(x.staged) + 1
        BY <3>1, AppendProperties
      <4>2. Len(x.staged) = i - 1 /\ (i - 1) + 1 = i
        BY <3>0, <1>0
      <4> HIDE DEF n
      <4> QED BY <3>3, <4>1, <4>2
    <3>5. \A m \in 1..i : m = i \/ m \in 1..(i - 1)
      OBVIOUS
    <3>6. \A m \in 1..(i - 1) : m \in 1..i
      OBVIOUS
    <3>7. /\ Range(x.jobs) \subseteq Range(y.jobs)
          /\ y.jobs = <<>> => x.jobs = <<>>
          /\ Went(e, f, kn.counted, Range(y.jobs))
          /\ \A j \in Range(y.jobs) : j \in Range(x.jobs) \/ JobFor(j, e)
          /\ y.jobs = <<>> => f = e
      <4>1. CASE f = e /\ y.jobs = x.jobs
        BY <4>1 DEF Went
      <4>2. CASE /\ e.region \in kn.counted /\ Went(e, f, kn.counted, {JobOf(e, f.next)})
                 /\ JobOf(e, f.next) \in Jobs
                 /\ y.jobs = Append(x.jobs, JobOf(e, f.next))
        <5>1. Range(y.jobs) = Range(x.jobs) \cup {JobOf(e, f.next)}
          BY <3>1, <4>2, AppendFacts
        <5>2. y.jobs # <<>>
          <6>1. JobOf(e, f.next) \in Range(y.jobs)
            BY <5>1
          <6> QED BY <6>1, EmptyFacts
        <5>3. JobFor(JobOf(e, f.next), e)
          BY DEF JobOf, JobFor
        <5> HIDE DEF e
        <5>4. Went(e, f, kn.counted, Range(y.jobs))
          BY <4>2, <5>1 DEF Went
        <5> QED BY <5>1, <5>2, <5>3, <5>4
      <4> QED BY <3>3, <4>1, <4>2
    <3>8. \A m \in 1..i : Went(st[m], y.staged[m], kn.counted, Range(y.jobs))
      <4> SUFFICES ASSUME NEW m \in 1..i PROVE Went(st[m], y.staged[m], kn.counted, Range(y.jobs))
        OBVIOUS
      <4>1. CASE m = i
        BY <4>1, <3>4, <3>7
      <4>2. CASE m \in 1..(i - 1)
        <5>1. Went(st[m], y.staged[m], kn.counted, Range(x.jobs))
          BY <4>2, <3>0, <3>4
        <5> QED BY <5>1, <3>7 DEF Went
      <4> QED BY <4>1, <4>2, <3>5
    <3>9. \A j \in Range(y.jobs) : \E m \in 1..i : JobFor(j, st[m])
      <4>1. i \in 1..i /\ e = st[i]
        OBVIOUS
      <4> HIDE DEF e
      <4> QED BY <4>1, <3>0, <3>6, <3>7
    <3>10. y.jobs = <<>> => \A m \in 1..i : y.staged[m] = st[m]
      <4> SUFFICES ASSUME y.jobs = <<>>, NEW m \in 1..i PROVE y.staged[m] = st[m]
        OBVIOUS
      <4>1. x.jobs = <<>> /\ f = st[i]
        BY <3>7
      <4>2. CASE m = i
        BY <4>1, <4>2, <3>4
      <4>3. CASE m \in 1..(i - 1)
        BY <4>1, <4>3, <3>0, <3>4
      <4> QED BY <4>2, <4>3, <3>5
    <3>11. y \in V(i)
      BY <3>2, <3>4, <3>8, <3>9, <3>10
    <3>12. Step(x, i) = y
      BY DEF y
    <3> HIDE DEF V, Step
    <3> QED BY <3>11, <3>12
  <2> HIDE DEF Step, V
  <2> QED BY <2>1, <2>2, <2>3
<1> HIDE DEF Step, W, F
<1>3. PICK g : IsFold(g, n, F, [left |-> JobBudget, staged |-> <<>>, jobs |-> <<>>]) /\ Within(g, n, W)
  BY <1>0, <1>1, <1>2, FoldExists
<1>4. Folds(g)
  <2>1. \A i \in 1..n : i - 1 \in 0..n /\ g[i - 1] \in W[i - 1]
    BY <1>0, <1>3 DEF Within
  <2>2. \A i \in 1..n : F[i][g[i - 1]] = Step(g[i - 1], i)
    BY <1>2, <2>1
  <2>3. g = [i \in 0..n |-> g[i]]
    BY <1>3 DEF IsFold
  <2>4. \A i \in 0..n : g[i] = IF i = 0 THEN [left |-> JobBudget, staged |-> <<>>, jobs |-> <<>>] ELSE F[i][g[i - 1]]
    BY <1>3 DEF IsFold
  <2>5. \A i \in 0..n : g[i] = IF i = 0 THEN [left |-> JobBudget, staged |-> <<>>, jobs |-> <<>>] ELSE Step(g[i - 1], i)
    BY <1>0, <2>2, <2>4
  <2> QED BY <2>3, <2>5, Zenon DEF Step
<1>5. Folds(run)
  BY <1>4
<1> HIDE DEF run
<1>6. run[0] \in W[0] /\ \A i \in 1..n : run[i - 1] \in W[i - 1] => run[i] \in W[i]
  <2>1. \A i \in 0..n : run[i] = IF i = 0 THEN [left |-> JobBudget, staged |-> <<>>, jobs |-> <<>>] ELSE Scheduled(run[i - 1], st[i], kn)
    BY <1>5, Zenon
  <2>2. \A i \in 0..n : run[i] = IF i = 0 THEN [left |-> JobBudget, staged |-> <<>>, jobs |-> <<>>] ELSE Step(run[i - 1], i)
    BY <2>1, Zenon DEF Step
  <2>3. run[0] = [left |-> JobBudget, staged |-> <<>>, jobs |-> <<>>] /\ \A i \in 1..n : run[i] = Step(run[i - 1], i)
    BY <1>0, <2>2
  <2> QED BY <1>0, <1>1, <1>2, <2>3
<1>7. run[n] \in W[n]
  BY <1>0, <1>6, FoldStays
<1>8. Schedule(st, kn) = run[n]
  BY DEF Schedule, run
<1>9. Schedule(st, kn) \in V(n)
  BY <1>0, <1>7, <1>8 DEF W
<1>10. /\ z \in Schedules /\ Len(z.staged) = n
       /\ \A m \in 1..n : Went(st[m], z.staged[m], kn.counted, Range(z.jobs))
       /\ \A j \in Range(z.jobs) : \E m \in 1..n : JobFor(j, st[m])
       /\ z.jobs = <<>> => \A m \in 1..n : z.staged[m] = st[m]
  BY <1>9
<1> HIDE DEF V
<1>11. z.staged \in Seq(Entries) /\ z.jobs \in Seq(Jobs)
  BY <1>10 DEF Schedules
<1>12. z.jobs = <<>> => z.staged = st
  <2> SUFFICES ASSUME z.jobs = <<>> PROVE z.staged = st
    OBVIOUS
  <2>1. \A m \in 1..Len(st) : z.staged[m] = st[m]
    BY <1>10
  <2> HIDE DEF n
  <2> QED BY <1>10, <1>11, <2>1, SeqEqual DEF n
<1> QED BY <1>10, <1>11, <1>12 DEF Scheduling

LEMMA ConcatAlone ==
  ASSUME NEW q \in Seq(Entries), NEW p \in Seq(Entries), Alone(q), Alone(p),
         \A e \in Range(q), f \in Range(p) : e.region # f.region
  PROVE  Alone(q \o p)
<1> DEFINE c == q \o p
           a == Len(q)
           b == Len(p)
<1>1. /\ c \in Seq(Entries) /\ Len(c) = a + b
      /\ \A i \in 1..(a + b) : c[i] = IF i <= a THEN q[i] ELSE p[i - a]
  BY ConcatProperties
<1>2. /\ a \in Nat /\ b \in Nat
      /\ DOMAIN q = 1..a /\ DOMAIN p = 1..b /\ DOMAIN c = 1..(a + b)
      /\ \A i \in 1..a : q[i] \in Range(q)
      /\ \A i \in 1..b : p[i] \in Range(p)
  BY <1>1, SeqFacts
<1> HIDE DEF c, a, b
<1>3. \A i \in 1..(a + b) : \/ i <= a /\ i \in 1..a /\ c[i] = q[i]
                            \/ ~(i <= a) /\ i - a \in 1..b /\ c[i] = p[i - a]
  BY <1>1, <1>2
<1>4. ASSUME NEW i \in 1..(a + b), NEW j \in 1..(a + b), c[i].region = c[j].region PROVE i = j
  <2>1. CASE i <= a /\ j <= a
    <3>1. i \in 1..a /\ c[i] = q[i] /\ j \in 1..a /\ c[j] = q[j]
      BY <1>3, <2>1
    <3> QED BY <3>1, <1>2, <1>4 DEF Alone
  <2>2. CASE ~(i <= a) /\ ~(j <= a)
    <3>1. i - a \in 1..b /\ c[i] = p[i - a] /\ j - a \in 1..b /\ c[j] = p[j - a]
      BY <1>3, <2>2
    <3>2. i - a = j - a
      BY <3>1, <1>2, <1>4 DEF Alone
    <3> QED BY <3>2, <1>2
  <2>3. CASE i <= a /\ ~(j <= a)
    BY <1>2, <1>3, <1>4, <2>3
  <2>4. CASE ~(i <= a) /\ j <= a
    BY <1>2, <1>3, <1>4, <2>4
  <2> QED BY <2>1, <2>2, <2>3, <2>4
<1> QED BY <1>2, <1>4 DEF Alone, c

(* A region waits once, in the slot it lives in, for slabs yet to come.    *)
StagedOk ==
  /\ Alone(staged)
  /\ \A e \in Range(staged) : e.slot = resident[e.region] /\ e.next < Slabs

(* What becomes of brick k of an entry: it waits on, or a job takes it.    *)
Waits(e, f, k) == k > f.next /\ (Forced(e) => Forced(f))
Asked(e, js, k) ==
  \E j \in js : /\ j.region = e.region /\ j.slot = e.slot /\ k \in j.bricks
                /\ j.mode = "force" \/ (j.mode = "allocate" /\ ~Forced(e))
Carried(e, f, js) ==
  f.region = e.region /\ \A k \in Bricks : k > e.next => Waits(e, f, k) \/ Asked(e, js, k)

(* The queue st and the slab jobs js for a plan.                           *)
QueueOK(plan, st, js) ==
  /\ Alone(st)
  /\ \A f \in Range(st) : /\ f.slot = plan.resident[f.region]
                          /\ \/ f.region \in Range(plan.loads)
                             \/ f.region \in StagedRegions(staged) \ GoneIn(plan)
  /\ \A r \in Range(plan.loads) : \E f \in Range(st) : f.region = r /\ f.next = 0
  /\ \A e \in Range(staged) : e.region \notin GoneIn(plan) => \E f \in Range(st) : Carried(e, f, js)
  /\ \A j \in js : j.slot = plan.resident[j.region] /\ j.mode # "probe"
  /\ js = {} => \A f \in Range(st) : f.next < Slabs

LEMMA StagedRegionsRange ==
  ASSUME NEW st
  PROVE  StagedRegions(st) = {e.region : e \in Range(st)}
  BY DEF StagedRegions, Range

(* Residents before that are not evicted stay where they are, and loads    *)
(* are no residents.                                                       *)
LEMMA StaysPut ==
  ASSUME resident \in Homes, NEW plan \in Plans, PlanOK(plan), NEW r \in Regions, resident[r] # None
  PROVE  /\ r \notin Range(plan.loads)
         /\ r \notin GoneIn(plan) => plan.resident[r] = resident[r]
         /\ r \in GoneIn(plan) => plan.resident[r] = None
  BY DEF PlanOK

(* The loads of a plan as entries.                                         *)
FreshOf(plan) ==
  [i \in DOMAIN plan.loads |-> [region |-> plan.loads[i], slot |-> plan.resident[plan.loads[i]],
                                next |-> 0, force |-> FALSE]]

LEMMA FreshFacts ==
  ASSUME NEW plan \in Plans, PlanOK(plan),
         NEW fresh, fresh = FreshOf(plan)
  PROVE  /\ fresh \in Seq(Entries) /\ Alone(fresh)
         /\ \A e \in Range(fresh) : /\ e.region \in Range(plan.loads) /\ e.slot = plan.resident[e.region]
                                    /\ e.next = 0
         /\ \A r \in Range(plan.loads) : \E e \in Range(fresh) : e.region = r
<1> DEFINE q == plan.loads
           n == Len(q)
<1>1. q \in Seq(Regions)
  BY PlanTypes
<1>2. n \in Nat /\ DOMAIN q = 1..n /\ \A i \in 1..n : q[i] \in Regions /\ q[i] \in Range(q)
  BY <1>1, SeqFacts
<1>3. \A i \in 1..n : plan.resident[q[i]] \in Slots
  <2>1. \A r \in Range(q) : plan.resident[r] # None
    BY DEF PlanOK
  <2>2. plan.resident \in Homes
    BY PlanTypes
  <2> QED BY <1>2, <2>1, <2>2 DEF Homes
<1>4. 0 \in 0..Slabs
  BY StreamerAssumption
<1>5. fresh = [i \in 1..n |-> [region |-> q[i], slot |-> plan.resident[q[i]], next |-> 0, force |-> FALSE]]
  BY <1>2 DEF FreshOf
<1> HIDE DEF n, q
<1>6. \A i \in 1..n : /\ fresh[i] \in Entries /\ fresh[i].region = q[i] /\ fresh[i].next = 0
                      /\ fresh[i].slot = plan.resident[fresh[i].region]
  BY <1>2, <1>3, <1>4, <1>5 DEF Entries
<1>7. DOMAIN fresh = 1..n /\ fresh \in Seq(Entries)
  <2>1. fresh \in [1..n -> Entries]
    BY <1>5, <1>6
  <2> QED BY <1>2, <2>1, IsASeq
<1>8. Alone(fresh)
  <2>1. Once(q)
    BY DEF PlanOK, q
  <2> QED BY <1>2, <1>6, <1>7, <2>1 DEF Alone, Once
<1>9. \A e \in Range(fresh) : e.region \in Range(q) /\ e.slot = plan.resident[e.region] /\ e.next = 0
  BY <1>2, <1>6, <1>7 DEF Range
<1>10. \A r \in Range(q) : \E e \in Range(fresh) : e.region = r
  BY <1>2, <1>6, <1>7 DEF Range
<1> QED BY <1>7, <1>8, <1>9, <1>10 DEF q

LEMMA StagingFacts ==
  ASSUME resident \in Homes, staged \in Seq(Entries), forced \in SUBSET Regions, StagedOk,
         NEW kn \in Knowns, kn.counted \subseteq StagedRegions(staged),
         NEW plan \in Plans, PlanOK(plan),
         NEW g, g = Staging(kn, plan)
  PROVE  /\ g.plain \in Seq(Regions) /\ \A r \in Range(g.plain) : plan.resident[r] # None
         /\ g.slabs.staged \in Seq(Entries) /\ g.slabs.jobs \in Seq(Jobs)
         /\ QueueOK(plan, g.slabs.staged, Range(g.slabs.jobs))
<1> DEFINE gone   == GoneIn(plan)
           kept   == Kept(gone)
           fresh  == FreshOf(plan)
           q0     == kept \o fresh
           q1     == Restage(q0, forced)
           known1 == [kn EXCEPT !.counted = @ \ gone]
           st     == g.slabs.staged
           js     == Range(g.slabs.jobs)
<1>0. Range(staged) \subseteq Entries /\ Range(plan.loads) \subseteq Regions
  BY SeqFacts, PlanTypes
<1>1. /\ kept \in Seq(Entries) /\ Alone(kept)
      /\ Range(kept) = {e \in Range(staged) : e.region \notin gone}
  <2>1. Alone(staged)
    BY DEF StagedOk
  <2>2. kept = Only(staged, {e \in Range(staged) : e.region \notin gone})
    BY DEF Kept
  <2> HIDE DEF kept, gone
  <2> QED BY <2>1, <2>2, OnlyFacts, OnlyAlone
<1>2. /\ fresh \in Seq(Entries) /\ Alone(fresh)
      /\ \A e \in Range(fresh) : e.region \in Range(plan.loads) /\ e.slot = plan.resident[e.region] /\ e.next = 0
      /\ \A r \in Range(plan.loads) : \E e \in Range(fresh) : e.region = r
  <2> HIDE DEF gone
  <2> QED BY FreshFacts
<1> HIDE DEF kept, fresh
<1>3. \A e \in Range(kept) : /\ e \in Entries /\ e.region \in StagedRegions(staged) \ gone
                             /\ e.region \notin Range(plan.loads)
                             /\ e.slot = plan.resident[e.region] /\ e.next < Slabs
  <2> SUFFICES ASSUME NEW e \in Range(kept)
               PROVE  /\ e \in Entries /\ e.region \in StagedRegions(staged) \ gone
                      /\ e.region \notin Range(plan.loads)
                      /\ e.slot = plan.resident[e.region] /\ e.next < Slabs
    OBVIOUS
  <2>1. e \in Range(staged) /\ e.region \notin gone /\ e \in Entries
    BY <1>0, <1>1
  <2>2. e.slot = resident[e.region] /\ e.next < Slabs
    BY <2>1 DEF StagedOk
  <2>3. e.region \in Regions /\ resident[e.region] # None
    BY <2>1, <2>2, EntryTypes, NoneIsNoSlot
  <2>4. e.region \notin Range(plan.loads) /\ plan.resident[e.region] = resident[e.region]
    BY <2>1, <2>3, StaysPut
  <2> QED BY <2>1, <2>2, <2>4, StagedRegionsRange
<1> HIDE DEF gone
<1>4. q0 \in Seq(Entries) /\ Range(q0) = Range(kept) \cup Range(fresh) /\ Alone(q0)
  <2>1. \A e \in Range(kept), f \in Range(fresh) : e.region # f.region
    BY <1>2, <1>3
  <2> QED BY <1>1, <1>2, <2>1, ConcatFacts, ConcatAlone
<1> HIDE DEF q0
<1>5. /\ q1 \in Seq(Entries) /\ Alone(q1)
      /\ \A e \in Range(q0) : \E f \in Range(q1) : Restarted(e, f, forced)
      /\ \A f \in Range(q1) : \E e \in Range(q0) : Restarted(e, f, forced)
  BY <1>4, RestageFacts
<1> HIDE DEF q1
<1>6. known1.counts \in Tallies /\ known1.counted = kn.counted \ gone
  BY DEF Knowns
<1> HIDE DEF known1
<1>7. g.slabs = Schedule(q1, known1)
  BY DEF Staging, q1, q0, kept, fresh, FreshOf, known1, gone
<1>8. /\ st \in Seq(Entries) /\ g.slabs.jobs \in Seq(Jobs) /\ Len(st) = Len(q1)
      /\ \A m \in 1..Len(q1) : Went(q1[m], st[m], known1.counted, js)
      /\ \A j \in js : \E m \in 1..Len(q1) : JobFor(j, q1[m])
      /\ g.slabs.jobs = <<>> => st = q1
  <2>1. PICK z : z = g.slabs
    OBVIOUS
  <2>2. Scheduling(q1, known1.counted, z)
    <3>1. q1 \in Seq(Entries) /\ known1.counts \in Tallies /\ z = Schedule(q1, known1)
      BY <1>5, <1>6, <1>7, <2>1
    <3> QED BY <3>1, ScheduleFacts
  <2> QED BY <2>1, <2>2 DEF Scheduling
<1>9. g.slabs.jobs = <<>> <=> js = {}
  <2>1. PICK z : z = g.slabs.jobs /\ js = Range(z)
    OBVIOUS
  <2>2. z \in Seq(Jobs)
    BY <1>8, <2>1
  <2> HIDE DEF js
  <2>3. /\ Len(z) \in Nat /\ \A i \in 1..Len(z) : z[i] \in Range(z)
        /\ Len(z) = 0 => z = <<>>
    BY <2>2, SeqFacts, EmptySeq
  <2>4. CASE js = {}
    <3>1. Len(z) = 0
      BY <2>1, <2>3, <2>4
    <3> QED BY <2>1, <2>3, <2>4, <3>1
  <2>5. CASE z = <<>>
    BY <2>1, <2>5, EmptyFacts
  <2> QED BY <2>1, <2>4, <2>5
<1> HIDE DEF st, js
<1>10. /\ Len(q1) \in Nat /\ DOMAIN q1 = 1..Len(q1) /\ DOMAIN st = 1..Len(q1)
       /\ \A f \in Range(q1) : \E m \in 1..Len(q1) : q1[m] = f /\ st[m] \in Range(st)
       /\ \A s \in Range(st) : \E m \in 1..Len(q1) : st[m] = s /\ q1[m] \in Range(q1)
       /\ \A m \in 1..Len(q1) : q1[m] \in Range(q1)
  <2>1. Len(q1) \in Nat /\ DOMAIN q1 = 1..Len(q1) /\ DOMAIN st = 1..Len(q1)
    BY <1>5, <1>8, SeqFacts
  <2> QED BY <2>1 DEF Range
<1>11. Alone(st)
  BY <1>5, <1>8, <1>10 DEF Alone, Went
<1>12. \A f \in Range(q1) : /\ f.slot = plan.resident[f.region] /\ f.next < Slabs
                            /\ \/ f.region \in Range(plan.loads)
                               \/ f.region \in StagedRegions(staged) \ gone
  <2> SUFFICES ASSUME NEW f \in Range(q1)
               PROVE  /\ f.slot = plan.resident[f.region] /\ f.next < Slabs
                      /\ \/ f.region \in Range(plan.loads)
                         \/ f.region \in StagedRegions(staged) \ gone
    OBVIOUS
  <2>1. PICK e \in Range(q0) : Restarted(e, f, forced)
    BY <1>5
  <2>2. /\ e.slot = plan.resident[e.region] /\ e.next < Slabs
        /\ \/ e.region \in Range(plan.loads)
           \/ e.region \in StagedRegions(staged) \ gone
    BY <1>2, <1>3, <1>4, StreamerAssumption
  <2>3. f.region = e.region /\ f.slot = e.slot /\ (f.next = 0 \/ f.next = e.next)
    BY <2>1 DEF Restarted
  <2>4. 0 < Slabs
    BY StreamerAssumption
  <2> QED BY <2>2, <2>3, <2>4
<1>13. \A s \in Range(st) : /\ s.slot = plan.resident[s.region]
                            /\ \/ s.region \in Range(plan.loads)
                               \/ s.region \in StagedRegions(staged) \ gone
  <2> SUFFICES ASSUME NEW s \in Range(st)
               PROVE  /\ s.slot = plan.resident[s.region]
                      /\ \/ s.region \in Range(plan.loads)
                         \/ s.region \in StagedRegions(staged) \ gone
    OBVIOUS
  <2>1. PICK m \in 1..Len(q1) : st[m] = s /\ q1[m] \in Range(q1)
    BY <1>10
  <2>2. s.region = q1[m].region /\ s.slot = q1[m].slot
    BY <1>8, <2>1 DEF Went
  <2> QED BY <1>12, <2>1, <2>2
<1>14. \A r \in Range(plan.loads) : \E s \in Range(st) : s.region = r /\ s.next = 0
  <2> SUFFICES ASSUME NEW r \in Range(plan.loads) PROVE \E s \in Range(st) : s.region = r /\ s.next = 0
    OBVIOUS
  <2>1. PICK e \in Range(q0) : e.region = r /\ e.next = 0
    BY <1>2, <1>4
  <2>2. PICK f \in Range(q1) : Restarted(e, f, forced)
    BY <1>5
  <2>3. f.region = r /\ f.next = 0
    BY <2>1, <2>2 DEF Restarted
  <2>4. PICK m \in 1..Len(q1) : q1[m] = f /\ st[m] \in Range(st)
    BY <1>10
  <2>5. r \notin known1.counted
    <3>1. r \in Regions /\ resident[r] = None
      BY <1>0 DEF PlanOK
    <3>2. r \notin StagedRegions(staged)
      <4>1. \A e2 \in Range(staged) : resident[e2.region] # None
        BY <1>0, EntryTypes, NoneIsNoSlot DEF StagedOk
      <4> QED BY <3>1, <4>1, StagedRegionsRange
    <3> QED BY <1>6, <3>2
  <2>6. st[m] = f
    BY <1>8, <2>3, <2>4, <2>5 DEF Went
  <2> QED BY <2>3, <2>4, <2>6
<1>15. \A e \in Range(staged) : e.region \notin gone => \E s \in Range(st) : Carried(e, s, js)
  <2> SUFFICES ASSUME NEW e \in Range(staged), e.region \notin gone
               PROVE  \E s \in Range(st) : Carried(e, s, js)
    OBVIOUS
  <2>1. e \in Range(q0)
    BY <1>1, <1>4
  <2>2. PICK f \in Range(q1) : Restarted(e, f, forced)
    BY <1>5, <2>1
  <2>3. PICK m \in 1..Len(q1) : q1[m] = f /\ st[m] \in Range(st)
    BY <1>10
  <2> DEFINE s == st[m]
  <2>4. Went(f, s, known1.counted, js)
    BY <1>8, <2>3
  <2> HIDE DEF s
  <2>5. /\ f.region = e.region /\ f.slot = e.slot /\ (f.next = 0 \/ f.next = e.next)
        /\ Forced(e) => Forced(f)
    BY <2>2 DEF Restarted
  <2>6. /\ s.region = f.region /\ s.slot = f.slot /\ (Forced(s) <=> Forced(f))
        /\ s = f \/ JobOf(f, s.next) \in js
    BY <2>4 DEF Went
  <2>7. e.next \in 0..Slabs /\ f.next \in 0..Slabs /\ s.next \in 0..Slabs /\ Slabs \in Nat
    BY <1>0, <1>5, <1>8, <2>3, SeqFacts, EntryTypes DEF s
  <2>8. ASSUME NEW k \in Bricks, k > e.next PROVE Waits(e, s, k) \/ Asked(e, js, k)
    <3>0. k \in 1..Slabs /\ k > f.next
      BY <2>5, <2>7, <2>8 DEF Bricks
    <3>1. CASE k > s.next
      BY <3>1, <2>5, <2>6 DEF Waits
    <3>2. CASE ~(k > s.next)
      <4>1. s # f
        BY <3>0, <3>2
      <4> DEFINE j == JobOf(f, s.next)
      <4>2. j \in js
        BY <2>6, <4>1
      <4>3. k \in (f.next + 1)..s.next
        BY <2>7, <3>0, <3>2
      <4>4. /\ j.region = e.region /\ j.slot = e.slot /\ k \in j.bricks
            /\ j.mode = IF Forced(f) THEN "force" ELSE "allocate"
        BY <2>5, <4>3 DEF JobOf, Forced
      <4> HIDE DEF j
      <4>5. j.mode = "force" \/ (j.mode = "allocate" /\ ~Forced(e))
        BY <2>5, <4>4
      <4> QED BY <4>2, <4>4, <4>5 DEF Asked
    <3> QED BY <3>1, <3>2
  <2>9. Carried(e, s, js)
    BY <2>5, <2>6, <2>8 DEF Carried
  <2> QED BY <2>3, <2>9 DEF s
<1>16. \A j \in js : j.slot = plan.resident[j.region] /\ j.mode # "probe"
  <2> SUFFICES ASSUME NEW j \in js PROVE j.slot = plan.resident[j.region] /\ j.mode # "probe"
    OBVIOUS
  <2>1. PICK m \in 1..Len(q1) : j.region = q1[m].region /\ j.slot = q1[m].slot /\ j.mode # "probe"
    BY <1>8 DEF JobFor
  <2> QED BY <1>10, <1>12, <2>1
<1>17. js = {} => \A s \in Range(st) : s.next < Slabs
  BY <1>8, <1>9, <1>12
<1>18. g.plain \in Seq(Regions) /\ \A r \in Range(g.plain) : plan.resident[r] # None
  <2> DEFINE rs == {r \in forced : plan.resident[r] # None /\ r \notin StagedRegions(q1)}
  <2>1. g.plain = Ascending(rs)
    BY DEF Staging, q1, q0, kept, fresh, FreshOf, gone
  <2>2. rs \in SUBSET Int /\ IsFiniteSet(rs) /\ rs \subseteq Regions
    <3>1. rs \subseteq Regions
      OBVIOUS
    <3> HIDE DEF rs
    <3> QED BY <3>1, StreamerAssumption, FS_Subset
  <2>3. \A r \in rs : plan.resident[r] # None
    OBVIOUS
  <2> HIDE DEF rs
  <2>4. g.plain \in Seq(rs)
    BY <2>1, <2>2, AscendingIsSeq
  <2>5. Range(g.plain) \subseteq rs /\ g.plain \in Seq(Regions)
    <3>1. /\ Len(g.plain) \in Nat /\ DOMAIN g.plain = 1..Len(g.plain) /\ Range(g.plain) \subseteq rs
          /\ \A i \in 1..Len(g.plain) : g.plain[i] \in rs
      BY <2>4, SeqFacts
    <3>2. g.plain = [i \in 1..Len(g.plain) |-> g.plain[i]]
      BY <2>4, <3>1
    <3>3. g.plain \in [1..Len(g.plain) -> Regions]
      BY <2>2, <3>1, <3>2
    <3> QED BY <3>1, <3>3, IsASeq
  <2> QED BY <2>3, <2>5
<1>19. QueueOK(plan, st, js)
  BY <1>11, <1>13, <1>14, <1>15, <1>16, <1>17 DEF QueueOK, gone
<1> QED BY <1>8, <1>18, <1>19 DEF st, js

-----------------------------------------------------------------------------
(* The sweep                                                               *)

Sweeps == [queue : SUBSET Regions, marked : Seq(Regions), restaged : SUBSET Regions]

(* Who leaves the queue is marked, restaged, or gone.                      *)
SweptOK(queue, res, st, w) ==
  /\ w \in Sweeps
  /\ \A r \in queue : r \in w.queue \/ r \in Range(w.marked) \/ r \in w.restaged \/ res[r] = None
  /\ \A r \in Range(w.marked) : res[r] # None /\ r \notin StagedRegions(st)
  /\ w.restaged \subseteq StagedRegions(st)

LEMMA SweepFacts ==
  ASSUME NEW queue \in SUBSET Regions, NEW res, NEW st, NEW free, NEW z, z = Sweep(queue, res, st, free)
  PROVE  SweptOK(queue, res, st, z)
<1> DEFINE start == [queue |-> queue, marked |-> <<>>, restaged |-> {}]
           n == Cardinality(Regions)
           V(i) == {x \in Sweeps : SweptOK(queue, res, st, x)}
           W == [i \in 0..n |-> V(i)]
           Step(x, i) == IF x.queue = {} \/ Len(x.marked) >= Repairs \/ free <= Headroom THEN x
                         ELSE LET r == Greatest(x.queue)
                              IN  [queue    |-> x.queue \ {r},
                                   marked   |-> IF res[r] = None \/ r \in StagedRegions(st)
                                                THEN x.marked ELSE Append(x.marked, r),
                                   restaged |-> IF r \in StagedRegions(st)
                                                THEN x.restaged \cup {r} ELSE x.restaged]
           F == [i \in 1..n |-> [x \in V(i - 1) |-> Step(x, i)]]
           Folds(g) == g = [i \in 0..n |-> IF i = 0 THEN start ELSE IF g[i - 1].queue = {} \/ Len(g[i - 1].marked) >= Repairs \/ free <= Headroom THEN g[i - 1]
                         ELSE LET r == Greatest(g[i - 1].queue)
                              IN  [queue    |-> g[i - 1].queue \ {r},
                                   marked   |-> IF res[r] = None \/ r \in StagedRegions(st)
                                                THEN g[i - 1].marked ELSE Append(g[i - 1].marked, r),
                                   restaged |-> IF r \in StagedRegions(st)
                                                THEN g[i - 1].restaged \cup {r} ELSE g[i - 1].restaged]]
           sweep == CHOOSE g : Folds(g)
<1>0. n \in Nat
  BY StreamerAssumption, FS_CardinalityType
<1>1. start \in W[0]
  <2>1. PICK a : a = start /\ a = [queue |-> queue, marked |-> <<>>, restaged |-> {}]
    OBVIOUS
  <2>2. <<>> \in Seq(Regions) /\ Range(<<>>) = {}
    BY EmptyFacts
  <2>3. a \in Sweeps /\ SweptOK(queue, res, st, a)
    BY <2>1, <2>2 DEF Sweeps, SweptOK
  <2>4. a \in V(0)
    BY <2>3
  <2> HIDE DEF V
  <2> QED BY <1>0, <2>1, <2>4
<1>2. \A i \in 1..n : \A x \in W[i - 1] : Step(x, i) \in W[i] /\ F[i][x] = Step(x, i)
  <2> SUFFICES ASSUME NEW i \in 1..n, NEW x \in W[i - 1]
               PROVE  Step(x, i) \in W[i] /\ F[i][x] = Step(x, i)
    OBVIOUS
  <2>1. i - 1 \in 0..n /\ i \in 0..n
    BY <1>0
  <2>2. x \in V(i - 1)
    BY <2>1
  <2>3. Step(x, i) \in V(i)
    <3> DEFINE r == Greatest(x.queue)
               m == IF res[r] = None \/ r \in StagedRegions(st) THEN x.marked ELSE Append(x.marked, r)
               s == IF r \in StagedRegions(st) THEN x.restaged \cup {r} ELSE x.restaged
    <3>0. x \in Sweeps /\ SweptOK(queue, res, st, x)
      BY <2>2
    <3>1. CASE x.queue = {} \/ Len(x.marked) >= Repairs \/ free <= Headroom
      <4>1. Step(x, i) = x
        BY <3>1
      <4> HIDE DEF Step
      <4> QED BY <3>0, <4>1
    <3>2. CASE ~(x.queue = {} \/ Len(x.marked) >= Repairs \/ free <= Headroom)
      <4>1. Step(x, i) = [queue |-> x.queue \ {r}, marked |-> m, restaged |-> s]
        BY <3>2
      <4>2. x.queue \in SUBSET Regions /\ x.marked \in Seq(Regions) /\ x.restaged \in SUBSET Regions
        BY <3>0 DEF Sweeps
      <4>3. r \in x.queue
        <5>1. x.queue \in SUBSET Int /\ IsFiniteSet(x.queue)
          BY <4>2, StreamerAssumption, FS_Subset
        <5> QED BY <3>2, <5>1, GreatestIsIn
      <4> DEFINE y == Step(x, i)
      <4> HIDE DEF Step, r
      <4>4. r \in Regions
        BY <4>2, <4>3
      <4>5. /\ m \in Seq(Regions)
            /\ Range(m) = IF res[r] = None \/ r \in StagedRegions(st) THEN Range(x.marked) ELSE Range(x.marked) \cup {r}
        <5>1. /\ Append(x.marked, r) \in Seq(Regions)
              /\ Range(Append(x.marked, r)) = Range(x.marked) \cup {r}
          BY <4>2, <4>4, AppendFacts
        <5> QED BY <4>2, <5>1
      <4>6. s \in SUBSET Regions /\ x.restaged \subseteq s /\ (r \in StagedRegions(st) => r \in s)
                /\ s \subseteq StagedRegions(st)
        BY <4>2, <4>4, <3>0 DEF SweptOK
      <4> HIDE DEF m, s
      <4>7. y \in Sweeps /\ y.queue = x.queue \ {r} /\ y.marked = m /\ y.restaged = s
        BY <4>1, <4>2, <4>5, <4>6 DEF Sweeps
      <4> HIDE DEF y
      <4>8. \A q \in queue : q \in y.queue \/ q \in Range(y.marked) \/ q \in y.restaged \/ res[q] = None
        <5>1. \A q \in queue : q \in x.queue \/ q \in Range(x.marked) \/ q \in x.restaged \/ res[q] = None
          BY <3>0 DEF SweptOK
        <5> QED BY <4>5, <4>6, <4>7, <5>1
      <4>9. \A q \in Range(y.marked) : res[q] # None /\ q \notin StagedRegions(st)
        <5>1. \A q \in Range(x.marked) : res[q] # None /\ q \notin StagedRegions(st)
          BY <3>0 DEF SweptOK
        <5> QED BY <4>5, <4>7, <5>1
      <4>10. y \in Sweeps /\ SweptOK(queue, res, st, y)
        BY <4>6, <4>7, <4>8, <4>9 DEF SweptOK
      <4> QED BY <4>10 DEF y
    <3> HIDE DEF r, m, s, Step
    <3> QED BY <3>1, <3>2
  <2> HIDE DEF Step, V
  <2> QED BY <2>1, <2>2, <2>3
<1> HIDE DEF start
<1> HIDE DEF Step, W, F
<1>3. PICK g : IsFold(g, n, F, start) /\ Within(g, n, W)
  BY <1>0, <1>1, <1>2, FoldExists
<1>4. Folds(g)
  <2>1. \A i \in 1..n : i - 1 \in 0..n /\ g[i - 1] \in W[i - 1]
    BY <1>0, <1>3 DEF Within
  <2>2. \A i \in 1..n : F[i][g[i - 1]] = Step(g[i - 1], i)
    BY <1>2, <2>1
  <2>3. g = [i \in 0..n |-> g[i]]
    BY <1>3 DEF IsFold
  <2>4. \A i \in 0..n : g[i] = IF i = 0 THEN start ELSE F[i][g[i - 1]]
    BY <1>3 DEF IsFold
  <2>5. \A i \in 0..n : g[i] = IF i = 0 THEN start ELSE Step(g[i - 1], i)
    BY <1>0, <2>2, <2>4
  <2> QED BY <2>3, <2>5, Zenon DEF Step
<1>5. Folds(sweep)
  BY <1>4
<1> HIDE DEF sweep
<1>6. sweep[0] \in W[0] /\ \A i \in 1..n : sweep[i - 1] \in W[i - 1] => sweep[i] \in W[i]
  <2>1. \A i \in 0..n : sweep[i] = IF i = 0 THEN start ELSE IF sweep[i - 1].queue = {} \/ Len(sweep[i - 1].marked) >= Repairs \/ free <= Headroom THEN sweep[i - 1]
                         ELSE LET r == Greatest(sweep[i - 1].queue)
                              IN  [queue    |-> sweep[i - 1].queue \ {r},
                                   marked   |-> IF res[r] = None \/ r \in StagedRegions(st)
                                                THEN sweep[i - 1].marked ELSE Append(sweep[i - 1].marked, r),
                                   restaged |-> IF r \in StagedRegions(st)
                                                THEN sweep[i - 1].restaged \cup {r} ELSE sweep[i - 1].restaged]
    BY <1>5, Zenon
  <2>2. \A i \in 0..n : sweep[i] = IF i = 0 THEN start ELSE Step(sweep[i - 1], i)
    BY <2>1, Zenon DEF Step
  <2>3. sweep[0] = start /\ \A i \in 1..n : sweep[i] = Step(sweep[i - 1], i)
    BY <1>0, <2>2
  <2> QED BY <1>0, <1>1, <1>2, <2>3
<1>7. sweep[n] \in W[n]
  BY <1>0, <1>6, FoldStays
<1>8. Sweep(queue, res, st, free) = sweep[n]
  BY DEF Sweep, start, sweep
<1>9. Sweep(queue, res, st, free) \in V(n)
  BY <1>0, <1>7, <1>8 DEF W
<1> QED BY <1>9

-----------------------------------------------------------------------------
(* What a frame marks                                                      *)

LEMMA WholesFacts ==
  ASSUME NEW rs \in Seq(Regions), NEW res, \A r \in Range(rs) : res[r] \in Slots, NEW mode \in Modes,
         NEW q, q = Wholes(rs, res, mode)
  PROVE  /\ q \in Seq(Jobs)
         /\ \A j \in Range(q) : /\ j.region \in Range(rs) /\ j.slot = res[j.region]
                                /\ j.bricks = Bricks /\ j.mode = mode
         /\ \A r \in Range(rs) : \E j \in Range(q) : j.region = r /\ j.bricks = Bricks /\ j.mode = mode
<1>1. Len(rs) \in Nat /\ DOMAIN rs = 1..Len(rs) /\ \A i \in 1..Len(rs) : rs[i] \in Regions /\ rs[i] \in Range(rs)
  BY SeqFacts
<1>2. q = [i \in 1..Len(rs) |-> [region |-> rs[i], slot |-> res[rs[i]], bricks |-> Bricks, mode |-> mode]]
  BY <1>1 DEF Wholes
<1>3. \A i \in 1..Len(rs) : /\ q[i] \in Jobs /\ q[i].region = rs[i] /\ q[i].slot = res[rs[i]]
                            /\ q[i].bricks = Bricks /\ q[i].mode = mode
  BY <1>1, <1>2 DEF Jobs
<1>4. q \in [1..Len(rs) -> Jobs]
  BY <1>2, <1>3
<1>5. q \in Seq(Jobs) /\ DOMAIN q = 1..Len(rs)
  BY <1>1, <1>4, IsASeq
<1>6. \A j \in Range(q) : \E i \in 1..Len(rs) : j = q[i]
  BY <1>5 DEF Range
<1>7. \A i \in 1..Len(rs) : q[i] \in Range(q)
  BY <1>5 DEF Range
<1>8. \A r \in Range(rs) : \E i \in 1..Len(rs) : r = rs[i]
  BY <1>1 DEF Range
<1> QED BY <1>1, <1>3, <1>5, <1>6, <1>7, <1>8

(* Edits es of regions that live in slots, and jobs js for them.           *)
Placed(es, res) == \A x \in Range(es) : res[x[1]] \in Slots
MarksEdit(x, js) == \E j \in js : j.region = x[1] /\ j.bricks = {x[2]} /\ j.mode = "edit"
EditJobs(js, es, res) ==
  /\ \A j \in js : j.slot = res[j.region] /\ j.mode = "edit" /\ \E x \in Range(es) : j.region = x[1]
  /\ \A x \in Range(es) : MarksEdit(x, js)

LEMMA EditedFacts ==
  ASSUME NEW es \in Seq(Regions \X Bricks), NEW res, Placed(es, res), NEW q, q = Edited(es, res)
  PROVE  q \in Seq(Jobs) /\ EditJobs(Range(q), es, res)
<1>1. /\ Len(es) \in Nat /\ DOMAIN es = 1..Len(es)
      /\ \A i \in 1..Len(es) : es[i] \in Regions \X Bricks /\ es[i] \in Range(es)
  BY SeqFacts
<1>2. q = [i \in 1..Len(es) |-> [region |-> es[i][1], slot |-> res[es[i][1]], bricks |-> {es[i][2]}, mode |-> "edit"]]
  BY <1>1 DEF Edited
<1>3. \A i \in 1..Len(es) : es[i][1] \in Regions /\ es[i][2] \in Bricks /\ res[es[i][1]] \in Slots
  BY <1>1 DEF Placed
<1>4. \A i \in 1..Len(es) : /\ q[i] \in Jobs /\ q[i].region = es[i][1] /\ q[i].slot = res[q[i].region]
                            /\ q[i].bricks = {es[i][2]} /\ q[i].mode = "edit"
  BY <1>2, <1>3 DEF Jobs, Modes
<1>5. q \in [1..Len(es) -> Jobs]
  BY <1>2, <1>4
<1>6. q \in Seq(Jobs) /\ DOMAIN q = 1..Len(es)
  <2>1. Len(es) \in Nat
    BY <1>1
  <2>2. DOMAIN q = 1..Len(es)
    BY <1>5
  <2> QED BY <1>5, <2>1, <2>2, IsASeq
<1>7. \A j \in Range(q) : \E i \in 1..Len(es) : j = q[i]
  BY <1>6 DEF Range
<1>8. \A i \in 1..Len(es) : q[i] \in Range(q)
  BY <1>6 DEF Range
<1>9. \A x \in Range(es) : \E i \in 1..Len(es) : x = es[i]
  BY <1>1 DEF Range
<1>10. ASSUME NEW j \in Range(q)
       PROVE  j.slot = res[j.region] /\ j.mode = "edit" /\ \E x \in Range(es) : j.region = x[1]
  <2>1. PICK i \in 1..Len(es) : j = q[i]
    BY <1>7
  <2>2. q[i].region = es[i][1] /\ q[i].slot = res[q[i].region] /\ q[i].mode = "edit" /\ es[i] \in Range(es)
    BY <1>1, <1>4
  <2>3. \E x \in Range(es) : j.region = x[1]
    BY <2>1, <2>2
  <2> QED BY <2>1, <2>2, <2>3
<1>11. ASSUME NEW x \in Range(es) PROVE MarksEdit(x, Range(q))
  <2>1. PICK i \in 1..Len(es) : x = es[i]
    BY <1>9
  <2>2. q[i].region = es[i][1] /\ q[i].bricks = {es[i][2]} /\ q[i].mode = "edit" /\ q[i] \in Range(q)
    BY <1>4, <1>8
  <2>3. q[i].region = x[1] /\ q[i].bricks = {x[2]}
    BY <2>1, <2>2
  <2> QED BY <2>2, <2>3 DEF MarksEdit
<1> QED BY <1>6, <1>10, <1>11 DEF EditJobs

SparesAreEmpty == \A s \in Range(spare) : tab[s] = NoBricks

(* The tables t and the slab counts c at the first mark of a frame.        *)
StartsAt(plan, t, c) ==
  /\ t \in Tables /\ c \in Tallies
  /\ \A s \in Range(spare) \cup FreedIn(plan) : t[s] = NoBricks
  /\ \A r \in Regions : resident[r] # None /\ r \notin GoneIn(plan)
       => t[resident[r]] = tab[resident[r]] /\ c[resident[r]] = tally[resident[r]]

LEMMA VacateFacts ==
  ASSUME resident \in Homes, spare \in Seq(Slots), tab \in Tables, tally \in Tallies,
         Tenants(resident, spare), SparesAreEmpty,
         NEW plan \in Plans, PlanOK(plan)
  PROVE  StartsAt(plan, Vacate(tab, plan.evicts), Reset(tally, plan.resident, plan.loads))
<1> DEFINE t == Vacate(tab, plan.evicts)
           c == Reset(tally, plan.resident, plan.loads)
<1>0. Range(spare) \subseteq Slots /\ Range(plan.evicts) \subseteq Evictions /\ Range(plan.loads) \subseteq Regions
  BY PlanTypes, SeqFacts
<1>1. NoBricks \in [Bricks -> Marks] /\ NoCount \in [Bricks -> Nat]
  BY DEF NoBricks, NoCount, Marks
<1>2. \A s \in Slots : t[s] = IF \E e \in Range(plan.evicts) : e.slot = s THEN NoBricks ELSE tab[s]
  BY DEF Vacate, Range
<1>3. \A s \in Slots : c[s] = IF \E l \in Range(plan.loads) : plan.resident[l] = s THEN NoCount ELSE tally[s]
  BY DEF Reset, Range
<1>4. t \in Tables
  <2>1. \A s \in Slots : t[s] \in [Bricks -> Marks]
    BY <1>1, <1>2 DEF Tables
  <2>2. t = [s \in Slots |-> t[s]]
    BY DEF Vacate
  <2> HIDE DEF t
  <2> QED BY <2>1, <2>2 DEF Tables
<1>5. c \in Tallies
  <2>1. \A s \in Slots : c[s] \in [Bricks -> Nat]
    BY <1>1, <1>3 DEF Tallies
  <2>2. c = [s \in Slots |-> c[s]]
    BY DEF Reset
  <2> HIDE DEF c
  <2> QED BY <2>1, <2>2 DEF Tallies
<1> HIDE DEF t, c
<1>6. FreedIn(plan) \subseteq Slots
  BY <1>0 DEF FreedIn, Evictions
<1>7. \A s \in Range(spare) \cup FreedIn(plan) : t[s] = NoBricks
  BY <1>0, <1>2, <1>6 DEF SparesAreEmpty, FreedIn
<1>8. ASSUME NEW r \in Regions, resident[r] # None, r \notin GoneIn(plan)
      PROVE  t[resident[r]] = tab[resident[r]] /\ c[resident[r]] = tally[resident[r]]
  <2>1. resident[r] \in Slots
    BY <1>8 DEF Homes
  <2>2. ~ \E e \in Range(plan.evicts) : e.slot = resident[r]
    <3> SUFFICES ASSUME NEW e \in Range(plan.evicts), e.slot = resident[r] PROVE FALSE
      OBVIOUS
    <3>1. e.slot = resident[e.region] /\ e.region \in Regions
      BY <1>0 DEF PlanOK, Evictions
    <3>2. e.region = r
      BY <1>8, <3>1 DEF Tenants
    <3> QED BY <1>8, <3>2, GoneIsRange
  <2>3. ~ \E l \in Range(plan.loads) : plan.resident[l] = resident[r]
    <3> SUFFICES ASSUME NEW l \in Range(plan.loads), plan.resident[l] = resident[r] PROVE FALSE
      OBVIOUS
    <3>1. r \notin Range(plan.loads) /\ plan.resident[r] = resident[r]
      BY <1>8, StaysPut
    <3>2. l = r
      BY <1>0, <1>8, <3>1 DEF PlanOK, Tenants
    <3> QED BY <3>1, <3>2
  <2> QED BY <1>2, <1>3, <2>1, <2>2, <2>3
<1> QED BY <1>4, <1>5, <1>7, <1>8 DEF StartsAt, t, c

(* Every job is of the region its slot belongs to, and probes are of loads.*)
JobsOK(plan, js) ==
  /\ js \subseteq Jobs
  /\ \A j \in js : j.slot = plan.resident[j.region]
  /\ \A j \in js : j.mode = "probe" => j.region \in Range(plan.loads)

(* What the jobs leave behind, in a slot that was spare or is freed, and   *)
(* in one whose tenant stayed.                                             *)
LeftEmpty(plan, h) ==
  /\ \A s \in Range(plan.spare) : h.tab[s] = NoBricks
  /\ \A r \in Range(plan.loads), k \in Bricks :
        /\ h.tab[plan.resident[r]][k] = "staged" => h.tally[plan.resident[r]][k] > 0
        /\ h.over = {} => h.tab[plan.resident[r]][k] \in {"absent", "staged", "fresh"}
Stayed(r, h) ==
  LET s == resident[r]
  IN  \A k \in Bricks :
        /\ h.over = {} => Leads(tab[s][k], h.tab[s][k])
        /\ tab[s][k] \in Allocated => h.tab[s][k] \in Allocated
        /\ h.tab[s][k] = "staged" => tab[s][k] = "staged"
        /\ (tab[s][k] = "staged" => tally[s][k] > 0) => (h.tab[s][k] = "staged" => h.tally[s][k] > 0)
Stayers(plan, h) == \A r \in Regions : resident[r] # None /\ r \notin GoneIn(plan) => Stayed(r, h)

LEMMA AfterJobs ==
  ASSUME resident \in Homes, spare \in Seq(Slots), NEW plan \in Plans, PlanOK(plan),
         NEW g \in Gpus, StartsAt(plan, g.tab, g.tally),
         NEW h \in Gpus, NEW js, JobsOK(plan, js), Advances(g, h), Traced(g, h, js)
  PROVE  /\ LeftEmpty(plan, h)
         /\ Stayers(plan, h)
<1>0. /\ Range(spare) \subseteq Slots /\ Range(plan.spare) \subseteq Slots /\ Range(plan.loads) \subseteq Regions
      /\ plan.resident \in Homes /\ js \subseteq Jobs /\ h.tab \in Tables /\ g.tab \in Tables
  BY PlanTypes, SeqFacts DEF JobsOK, Gpus
<1>1. \A k \in Bricks : NoBricks[k] = "absent"
  BY DEF NoBricks
<1>2. ASSUME NEW s \in Range(plan.spare) PROVE h.tab[s] = NoBricks
  <2>1. s \in Slots /\ g.tab[s] = NoBricks
    BY <1>0 DEF PlanOK, StartsAt
  <2>2. ASSUME NEW k \in Bricks PROVE h.tab[s][k] = g.tab[s][k]
    <3> SUFFICES ASSUME h.tab[s][k] # g.tab[s][k] PROVE FALSE
      OBVIOUS
    <3>1. PICK j \in js : j.slot = s
      BY <2>1 DEF Traced
    <3>2. j.region \in Regions /\ plan.resident[j.region] = s
      BY <1>0, <3>1 DEF JobsOK, Jobs
    <3> QED BY <3>2 DEF PlanOK, Tenants
  <2>3. h.tab[s] \in [Bricks -> Marks]
    BY <1>0, <2>1 DEF Tables
  <2>4. h.tab[s] = [k \in Bricks |-> h.tab[s][k]]
    BY <2>3
  <2> QED BY <1>1, <2>1, <2>2, <2>4 DEF NoBricks
<1>3. ASSUME NEW r \in Range(plan.loads), NEW k \in Bricks
      PROVE  /\ h.tab[plan.resident[r]][k] = "staged" => h.tally[plan.resident[r]][k] > 0
             /\ h.over = {} => h.tab[plan.resident[r]][k] \in {"absent", "staged", "fresh"}
  <2> DEFINE s == plan.resident[r]
  <2>1. s \in Slots /\ g.tab[s][k] = "absent"
    <3>1. plan.resident[r] # None /\ plan.resident[r] \in Range(spare) \cup FreedIn(plan)
      BY DEF PlanOK
    <3> QED BY <1>0, <1>1, <3>1 DEF StartsAt, Homes
  <2> HIDE DEF s
  <2>2. h.tab[s][k] = "staged" => h.tally[s][k] > 0
    BY <2>1 DEF Advances
  <2>3. h.over = {} => h.tab[s][k] \in {"absent", "staged", "fresh"}
    BY <2>1 DEF Advances, Leads
  <2> QED BY <2>2, <2>3 DEF s
<1>4. ASSUME NEW r \in Regions, resident[r] # None, r \notin GoneIn(plan) PROVE Stayed(r, h)
  <2> DEFINE s == resident[r]
  <2>1. /\ s \in Slots /\ g.tab[s] = tab[s] /\ g.tally[s] = tally[s]
        /\ s = plan.resident[r] /\ r \notin Range(plan.loads) /\ s # None
    BY <1>4, StaysPut DEF StartsAt, Homes
  <2> HIDE DEF s
  <2>2. ASSUME NEW k \in Bricks, h.tab[s][k] = "staged", g.tab[s][k] # "staged" PROVE FALSE
    <3>1. PICK j \in js : j.slot = s /\ j.mode = "probe"
      BY <2>1, <2>2 DEF Traced
    <3>2. j.region \in Range(plan.loads) /\ j.region \in Regions /\ plan.resident[j.region] = s
      BY <1>0, <3>1 DEF JobsOK
    <3>3. j.region = r
      BY <2>1, <3>2 DEF PlanOK, Tenants
    <3> QED BY <2>1, <3>2, <3>3
  <2>3. ASSUME NEW k \in Bricks
        PROVE  /\ h.over = {} => Leads(tab[s][k], h.tab[s][k])
               /\ tab[s][k] \in Allocated => h.tab[s][k] \in Allocated
               /\ h.tab[s][k] = "staged" => tab[s][k] = "staged"
               /\ (tab[s][k] = "staged" => tally[s][k] > 0) => (h.tab[s][k] = "staged" => h.tally[s][k] > 0)
    BY <2>1, <2>2 DEF Advances
  <2> QED BY <2>3 DEF Stayed, s
<1> QED BY <1>2, <1>3, <1>4 DEF LeftEmpty, Stayers

-----------------------------------------------------------------------------
(* The reads                                                               *)

(* Reads vouch for regions that wait only.                                 *)
Vouched ==
  /\ known.counted \subseteq StagedRegions(staged)
  /\ \A i \in DOMAIN flying : flying[i].counts # None => flying[i].counts.covers \subseteq StagedRegions(staged)
  /\ landed.counts # None => landed.counts.covers \subseteq StagedRegions(staged)

(* One report is under way and no more.                                    *)
OneReport ==
  /\ \A i, j \in DOMAIN flying : flying[i].counters # None /\ flying[j].counters # None => i = j
  /\ \A i \in DOMAIN flying : flying[i].counters # None => landed.counters = None

(* Counts c price what a region of v holds.                                *)
Prices(c, v) ==
  \A e \in Range(staged) : e.region \in v => \A k \in Bricks : tab[e.slot][k] = "staged" => c[e.slot][k] > 0

LEMMA PricesRead ==
  PricesCover <=> /\ Prices(known.counts, known.counted)
                  /\ \A i \in DOMAIN flying :
                       flying[i].counts # None => Prices(flying[i].counts.counts, flying[i].counts.covers)
                  /\ landed.counts # None => Prices(landed.counts.counts, landed.counts.covers)
<1>1. PricesCover <=> \A c \in CountReads : Prices(c[1], c[2])
  <2>1. \A c : (\A i \in DOMAIN staged : staged[i].region \in c[2] =>
                  \A k \in Bricks : tab[staged[i].slot][k] = "staged" => c[1][staged[i].slot][k] > 0)
               <=> Prices(c[1], c[2])
    BY DEF Prices, Range
  <2> QED BY <2>1 DEF PricesCover
<1>2. \A c : c \in CountReads <=> \/ c = <<known.counts, known.counted>>
                                  \/ \E i \in DOMAIN flying : flying[i].counts # None
                                       /\ c = <<flying[i].counts.counts, flying[i].counts.covers>>
                                  \/ landed.counts # None /\ c = <<landed.counts.counts, landed.counts.covers>>
  BY DEF CountReads
<1> DEFINE P(c) == Prices(c[1], c[2])
<1>3. \A x, y : P(<<x, y>>) <=> Prices(x, y)
  OBVIOUS
<1>4. PricesCover <=> \A c \in CountReads : P(c)
  BY <1>1
<1> HIDE DEF P
<1>5. (\A c \in CountReads : P(c)) <=> /\ P(<<known.counts, known.counted>>)
                                       /\ \A i \in DOMAIN flying : flying[i].counts # None
                                            => P(<<flying[i].counts.counts, flying[i].counts.covers>>)
                                       /\ landed.counts # None => P(<<landed.counts.counts, landed.counts.covers>>)
  BY <1>2
<1> QED BY <1>3, <1>4, <1>5

LEMMA HarvestFacts ==
  ASSUME landed \in Batches, known \in Knowns, Vouched, PricesCover, NEW kn, kn = Harvest(known)
  PROVE  /\ kn \in Knowns
         /\ kn.counted \subseteq StagedRegions(staged)
         /\ Prices(kn.counts, kn.counted)
<1> DEFINE c == landed.counters
           s == landed.counts
<1>1. c \in Counters \cup {None} /\ s \in Counts \cup {None}
  BY DEF Batches
<1>2. kn = [free    |-> IF c = None THEN known.free ELSE c.free,
            owed    |-> IF c = None THEN known.owed ELSE c.since,
            costs   |-> IF c = None THEN known.costs ELSE c.costs,
            counts  |-> IF s = None THEN known.counts ELSE s.counts,
            counted |-> IF s = None THEN known.counted ELSE s.covers]
  BY DEF Harvest
<1>3. /\ known.free \in Int /\ known.owed \in Int /\ known.costs \in [Slots -> Int]
      /\ known.counts \in Tallies /\ known.counted \in SUBSET Regions
  BY DEF Knowns
<1>4. c # None => c.free \in Int /\ c.since \in Int /\ c.costs \in [Slots -> Int]
  BY <1>1 DEF Counters, Slots
<1>5. s # None => s.counts \in Tallies /\ s.covers \in SUBSET Regions
  BY <1>1 DEF Counts
<1>6. (s = None => kn.counts = known.counts /\ kn.counted = known.counted)
      /\ (s # None => kn.counts = s.counts /\ kn.counted = s.covers)
  BY <1>2
<1>7. kn \in Knowns
  <2>1. /\ kn.free \in Int /\ kn.owed \in Int /\ kn.costs \in [Slots -> Int]
        /\ kn.counts \in Tallies /\ kn.counted \in SUBSET Regions
    BY <1>2, <1>3, <1>4, <1>5
  <2>2. kn = [free |-> kn.free, owed |-> kn.owed, costs |-> kn.costs, counts |-> kn.counts, counted |-> kn.counted]
    BY <1>2
  <2> HIDE DEF c, s
  <2> QED BY <2>1, <2>2 DEF Knowns
<1>8. kn.counted \subseteq StagedRegions(staged)
  BY <1>6 DEF Vouched
<1>9. Prices(kn.counts, kn.counted)
  <2>1. Prices(known.counts, known.counted) /\ (s # None => Prices(s.counts, s.covers))
    BY PricesRead
  <2> HIDE DEF s, c
  <2> QED BY <1>6, <2>1
<1> QED BY <1>7, <1>8, <1>9

LEMMA HeldIsNat ==
  ASSUME NEW t, NEW s
  PROVE  Held(t, s) \in Int /\ FreeSlots(t) \in Int
<1>1. IsFiniteSet(Slots) /\ IsFiniteSet(Bricks) /\ Atlas \in Int
  BY StreamerAssumption, FS_Interval DEF Slots, Bricks
<1>2. IsFiniteSet(Slots \X Bricks)
  BY <1>1, FS_Product
<1>3. IsFiniteSet({k \in Bricks : t[s][k] \in Allocated})
  BY <1>1, FS_Subset
<1>4. IsFiniteSet({x \in Slots \X Bricks : t[x[1]][x[2]] \in Allocated})
  BY <1>2, FS_Subset
<1>5. /\ Cardinality({k \in Bricks : t[s][k] \in Allocated}) \in Nat
      /\ Cardinality({x \in Slots \X Bricks : t[x[1]][x[2]] \in Allocated}) \in Nat
  BY <1>3, <1>4, FS_CardinalityType
<1> QED BY <1>1, <1>5 DEF Held, FreeSlots

LEMMA RequestedFacts ==
  ASSUME staged \in Seq(Entries), tally \in Tallies, over \in SUBSET Words,
         NEW refused, NEW req, req = Requested(refused)
  PROVE  /\ req \in Batches
         /\ req.counters # None => (\A i \in DOMAIN flying : flying[i].counters = None) /\ req.counters.over = over
         /\ req.counts # None => req.counts.counts = tally /\ req.counts.covers = StagedRegions(staged)
<1> DEFINE c == [over |-> over, free |-> FreeSlots(tab), since |-> 0, costs |-> [s \in Slots |-> Held(tab, s)]]
           s == [counts |-> tally, covers |-> StagedRegions(staged)]
<1>1. /\ req.counters = None \/ (~CountersOut /\ req.counters = c)
      /\ req.counts = None \/ req.counts = s
      /\ req = [counters |-> req.counters, counts |-> req.counts]
  BY DEF Requested
<1>2. c \in Counters
  <2>1. [x \in Slots |-> Held(tab, x)] \in [1..RegionSlots -> Int]
    BY HeldIsNat DEF Slots
  <2> QED BY <2>1, HeldIsNat DEF Counters, Words
<1>3. s \in Counts
  <2>1. StagedRegions(staged) \subseteq Regions
    BY SeqFacts, StagedRegionsRange, EntryTypes
  <2> QED BY <2>1 DEF Counts
<1>4. c.over = over /\ s.counts = tally /\ s.covers = StagedRegions(staged)
  OBVIOUS
<1> HIDE DEF c, s
<1>5. req \in Batches
  BY <1>1, <1>2, <1>3 DEF Batches
<1> QED BY <1>1, <1>4, <1>5 DEF CountersOut

(* What is out once a frame has sent its reads.                            *)
Sent(req) == IF req.counters = None /\ req.counts = None THEN flying ELSE Append(flying, req)

LEMMA SentFacts ==
  ASSUME flying \in Seq(Batches), NEW req \in Batches
  PROVE  /\ Sent(req) \in Seq(Batches)
         /\ \A i \in DOMAIN flying : i \in DOMAIN Sent(req) /\ Sent(req)[i] = flying[i]
         /\ \A i \in DOMAIN Sent(req) : i \in DOMAIN flying \/ (i = Len(flying) + 1 /\ Sent(req)[i] = req)
         /\ req.counters # None => \E i \in DOMAIN Sent(req) : Sent(req)[i] = req
<1>1. CASE req.counters = None /\ req.counts = None
  BY <1>1 DEF Sent
<1>2. CASE ~(req.counters = None /\ req.counts = None)
  <2> DEFINE b == Append(flying, req)
  <2>1. /\ b \in Seq(Batches) /\ DOMAIN b = 1..(Len(flying) + 1)
        /\ DOMAIN flying = 1..Len(flying) /\ Len(flying) \in Nat
        /\ \A i \in 1..Len(flying) : b[i] = flying[i]
        /\ b[Len(flying) + 1] = req
    BY AppendFacts
  <2>2. Sent(req) = b
    BY <1>2 DEF Sent
  <2> HIDE DEF b
  <2>3. \A i \in 1..(Len(flying) + 1) : i \in 1..Len(flying) \/ i = Len(flying) + 1
    BY <2>1
  <2>4. \A i \in 1..Len(flying) : i \in 1..(Len(flying) + 1)
    BY <2>1
  <2>5. Len(flying) + 1 \in 1..(Len(flying) + 1)
    BY <2>1
  <2> QED BY <2>1, <2>2, <2>3, <2>4, <2>5
<1> QED BY <1>1, <1>2

LEMMA StillOutFacts ==
  ASSUME NEW b \in Seq(Batches), NEW charge \in Int, NEW st, NEW q, q = StillOut(b, charge, st)
  PROVE  /\ q \in Seq(Batches) /\ DOMAIN q = DOMAIN b
         /\ \A i \in DOMAIN b :
              /\ q[i].counters = None <=> b[i].counters = None
              /\ b[i].counters # None => q[i].counters.over = b[i].counters.over
              /\ q[i].counts # None => /\ b[i].counts # None
                                       /\ q[i].counts.counts = b[i].counts.counts
                                       /\ q[i].counts.covers = b[i].counts.covers \cap StagedRegions(st)
<1>1. Len(b) \in Nat /\ DOMAIN b = 1..Len(b) /\ \A i \in 1..Len(b) : b[i] \in Batches
  BY SeqFacts
<1> DEFINE Moved(x, y) ==
             /\ y \in Batches
             /\ y.counters = None <=> x.counters = None
             /\ x.counters # None => y.counters.over = x.counters.over
             /\ y.counts # None => /\ x.counts # None
                                   /\ y.counts.counts = x.counts.counts
                                   /\ y.counts.covers = x.counts.covers \cap StagedRegions(st)
<1>2. ASSUME NEW i \in 1..Len(b) PROVE Moved(b[i], q[i])
  <2> DEFINE x == b[i]
             y == q[i]
             c == [x.counters EXCEPT !.since = @ + charge]
             s == [x.counts EXCEPT !.covers = @ \cap StagedRegions(st)]
  <2>1. x \in Batches /\ y = [counters |-> IF x.counters = None THEN None ELSE c,
                              counts   |-> IF x.counts = None THEN None ELSE s]
    BY <1>1 DEF StillOut
  <2>2. x.counters \in Counters \cup {None} /\ x.counts \in Counts \cup {None}
    BY <2>1 DEF Batches
  <2>3. x.counters # None => c \in Counters /\ c # None /\ c.over = x.counters.over
    <3> SUFFICES ASSUME x.counters # None PROVE c \in Counters /\ c # None /\ c.over = x.counters.over
      OBVIOUS
    <3> DEFINE v == x.counters
    <3>1. v \in Counters
      BY <2>2
    <3> HIDE DEF v
    <3>2. c = [v EXCEPT !.since = @ + charge]
      BY DEF v
    <3>3. c = [over |-> v.over, free |-> v.free, since |-> v.since + charge, costs |-> v.costs]
      BY <3>1, <3>2 DEF Counters
    <3> HIDE DEF c
    <3>4. c \in Counters /\ c.over = v.over
      BY <3>1, <3>3 DEF Counters
    <3>5. c # None
      BY <3>4, StreamerAssumption
    <3> QED BY <3>4, <3>5 DEF v
  <2>4. x.counts # None => s \in Counts /\ s.counts = x.counts.counts /\ s.covers = x.counts.covers \cap StagedRegions(st)
    BY <2>2 DEF Counts
  <2> HIDE DEF x, y, c, s
  <2>5. y.counters = (IF x.counters = None THEN None ELSE c) /\ y.counts = (IF x.counts = None THEN None ELSE s)
    BY <2>1
  <2>6. y \in Batches
    BY <2>1, <2>3, <2>4 DEF Batches
  <2>7. Moved(x, y)
    BY <2>3, <2>4, <2>5, <2>6
  <2> QED BY <2>7 DEF x, y
<1>3. q \in Seq(Batches) /\ DOMAIN q = 1..Len(b)
  <2>1. q = [i \in 1..Len(b) |-> q[i]]
    BY <1>1 DEF StillOut
  <2>2. q \in [1..Len(b) -> Batches]
    BY <1>2, <2>1
  <2> QED BY <1>1, <2>2, IsASeq
<1> QED BY <1>1, <1>2, <1>3

-----------------------------------------------------------------------------
(* From one frame to the next                                              *)

(* If nobody of q waits, the last slab of all of them is in.               *)
Waiting(q, waiting) == waiting = <<>> => \A f \in Range(q) : ~(f.next < Slabs)

(* The queue st that a frame leaves when its slabs left q.                 *)
NextQueue(plan, q, st, rs) ==
  /\ st \in Seq(Entries) /\ Alone(st)
  /\ \A e \in Range(st) : /\ e.slot = plan.resident[e.region] /\ e.next < Slabs
                          /\ \/ e.region \in Range(plan.loads)
                             \/ e.region \in StagedRegions(staged) \ GoneIn(plan)
  /\ \A f \in Range(q) : f.next < Slabs => \E e \in Range(st) : Restarted(f, e, rs)
  /\ StagedRegions(st) = {f.region : f \in {x \in Range(q) : x.next < Slabs}}

LEMMA NextQueueFacts ==
  ASSUME NEW plan \in Plans, NEW q \in Seq(Entries), NEW js, QueueOK(plan, q, js), NEW rs,
         NEW waiting, waiting = Only(q, {e \in Range(q) : e.next < Slabs}),
         NEW st, st = Restage(waiting, rs)
  PROVE  /\ NextQueue(plan, q, st, rs)
         /\ waiting \in Seq(Entries) /\ StagedRegions(waiting) = StagedRegions(st)
         /\ Waiting(q, waiting)
<1>1. /\ waiting \in Seq(Entries) /\ Range(waiting) = {e \in Range(q) : e.next < Slabs}
      /\ Alone(waiting)
  <2>1. Alone(q)
    BY DEF QueueOK
  <2> QED BY <2>1, OnlyFacts, OnlyAlone
<1>2. /\ st \in Seq(Entries) /\ Alone(st)
      /\ \A e \in Range(waiting) : \E f \in Range(st) : Restarted(e, f, rs)
      /\ \A f \in Range(st) : \E e \in Range(waiting) : Restarted(e, f, rs)
  BY <1>1, RestageFacts
<1>3. StagedRegions(waiting) = {f.region : f \in {x \in Range(q) : x.next < Slabs}}
  BY <1>1, StagedRegionsRange
<1>4. StagedRegions(waiting) = StagedRegions(st)
  <2>1. \A r : r \in StagedRegions(waiting) <=> \E e \in Range(waiting) : e.region = r
    BY StagedRegionsRange
  <2>2. \A r : r \in StagedRegions(st) <=> \E e \in Range(st) : e.region = r
    BY StagedRegionsRange
  <2>3. \A e \in Range(waiting) : \E f \in Range(st) : f.region = e.region
    BY <1>2 DEF Restarted
  <2>4. \A f \in Range(st) : \E e \in Range(waiting) : f.region = e.region
    BY <1>2 DEF Restarted
  <2>5. \A r : r \in StagedRegions(waiting) => r \in StagedRegions(st)
    BY <2>1, <2>2, <2>3
  <2>6. \A r : r \in StagedRegions(st) => r \in StagedRegions(waiting)
    BY <2>1, <2>2, <2>4
  <2> QED BY <2>5, <2>6
<1>5. \A e \in Range(st) : /\ e.slot = plan.resident[e.region] /\ e.next < Slabs
                           /\ \/ e.region \in Range(plan.loads)
                              \/ e.region \in StagedRegions(staged) \ GoneIn(plan)
  <2> SUFFICES ASSUME NEW e \in Range(st)
               PROVE  /\ e.slot = plan.resident[e.region] /\ e.next < Slabs
                      /\ \/ e.region \in Range(plan.loads)
                         \/ e.region \in StagedRegions(staged) \ GoneIn(plan)
    OBVIOUS
  <2>1. PICK f \in Range(waiting) : Restarted(f, e, rs)
    BY <1>2
  <2>2. f \in Range(q) /\ f.next < Slabs
    BY <1>1, <2>1
  <2>3. e.region = f.region /\ e.slot = f.slot /\ (e.next = 0 \/ e.next = f.next)
    BY <2>1 DEF Restarted
  <2>4. 0 < Slabs
    BY StreamerAssumption
  <2> QED BY <2>2, <2>3, <2>4 DEF QueueOK
<1>6. \A f \in Range(q) : f.next < Slabs => \E e \in Range(st) : Restarted(f, e, rs)
  BY <1>1, <1>2
<1>7. Waiting(q, waiting)
  BY <1>1, EmptyFacts DEF Waiting
<1> QED BY <1>1, <1>2, <1>3, <1>4, <1>5, <1>6, <1>7 DEF NextQueue

(* Map m shows the residents but those that wait in queue st.              *)
Shows(m, st, res) == \A r \in Regions : m[r] = IF r \in StagedRegions(st) THEN None ELSE res[r]

(* The region map after the slabs q are in.                                *)
LEMMA MapOn ==
  ASSUME resident \in Homes, staged \in Seq(Entries), StagedOk, MapShowsWholeRegions,
         NEW plan \in Plans, PlanOK(plan),
         NEW q \in Seq(Entries), NEW js, QueueOK(plan, q, js), NEW rs,
         NEW st, NextQueue(plan, q, st, rs),
         NEW m, m = Shown([r \in Regions |-> IF r \in GoneIn(plan) THEN None ELSE map[r]], q)
  PROVE  m \in Homes /\ Shows(m, st, plan.resident)
<1> SUFFICES Shows(m, st, plan.resident)
  <2>1. m = [r \in Regions |-> m[r]]
    BY DEF Shown
  <2>2. plan.resident \in [Regions -> Slots \cup {None}]
    BY PlanTypes DEF Homes
  <2>3. \A r \in Regions : m[r] \in Slots \cup {None}
    BY <2>2 DEF Shows
  <2> QED BY <2>1, <2>3 DEF Homes
<1> SUFFICES ASSUME NEW r \in Regions
             PROVE  m[r] = IF r \in StagedRegions(st) THEN None ELSE plan.resident[r]
  BY DEF Shows
<1> DEFINE done == {e \in Range(q) : e.region = r /\ e.next >= Slabs}
           old == IF r \in GoneIn(plan) THEN None ELSE map[r]
<1>1. m[r] = IF done = {} THEN old ELSE (CHOOSE e \in done : TRUE).slot
  BY DEF Shown
<1>2. /\ Range(q) \subseteq Entries /\ Range(staged) \subseteq Entries /\ Slabs \in Nat
      /\ \A f \in Range(q) : f.next \in Nat
  <2>1. Range(q) \subseteq Entries /\ Range(staged) \subseteq Entries /\ Slabs \in Nat
    BY SeqFacts, StreamerAssumption
  <2>2. ASSUME NEW f \in Range(q) PROVE f.next \in Nat
    <3>1. f.next \in 0..Slabs
      BY <2>1, EntryTypes
    <3> QED BY <2>1, <3>1
  <2> QED BY <2>1, <2>2
<1>3. r \in StagedRegions(st) <=> \E f \in Range(q) : f.region = r /\ f.next < Slabs
  BY DEF NextQueue
<1>4. \A e, f \in Range(q) : e.region = f.region => e = f
  BY DEF QueueOK, Alone, Range
<1>5. CASE done # {}
  <2>1. PICK e \in done : m[r] = e.slot
    BY <1>1, <1>5
  <2>2. e \in Range(q) /\ e.region = r /\ ~(e.next < Slabs)
    BY <1>2, <2>1
  <2>3. e.slot = plan.resident[r]
    BY <2>2 DEF QueueOK
  <2>4. r \notin StagedRegions(st)
    BY <1>3, <1>4, <2>2
  <2> QED BY <2>1, <2>3, <2>4
<1>6. CASE done = {} /\ \E f \in Range(q) : f.region = r
  <2>1. PICK f \in Range(q) : f.region = r
    BY <1>6
  <2>2. f.next < Slabs
    BY <1>2, <1>6, <2>1
  <2>3. r \in StagedRegions(st)
    BY <1>3, <2>1, <2>2
  <2>4. r \in Range(plan.loads) \/ r \in StagedRegions(staged) \ GoneIn(plan)
    BY <2>1 DEF QueueOK
  <2>5. map[r] = None
    <3>1. CASE r \in Range(plan.loads)
      <4>1. resident[r] = None
        BY <3>1 DEF PlanOK
      <4> QED BY <4>1 DEF MapShowsWholeRegions
    <3>2. CASE r \in StagedRegions(staged)
      BY <3>2 DEF MapShowsWholeRegions
    <3> QED BY <2>4, <3>1, <3>2
  <2> QED BY <1>1, <1>6, <2>3, <2>5
<1>7. CASE ~ \E f \in Range(q) : f.region = r
  <2>1. done = {} /\ r \notin StagedRegions(st)
    BY <1>3, <1>7
  <2>2. r \notin Range(plan.loads)
    BY <1>7 DEF QueueOK
  <2>3. plan.resident[r] = IF r \in GoneIn(plan) THEN None ELSE resident[r]
    BY <2>2 DEF PlanOK
  <2>4. r \notin GoneIn(plan) => r \notin StagedRegions(staged)
    <3> SUFFICES ASSUME r \notin GoneIn(plan), r \in StagedRegions(staged) PROVE FALSE
      OBVIOUS
    <3>1. PICK e \in Range(staged) : e.region = r
      BY StagedRegionsRange
    <3>2. PICK f \in Range(q) : Carried(e, f, js)
      BY <3>1 DEF QueueOK
    <3> QED BY <1>7, <3>1, <3>2 DEF Carried
  <2>5. r \notin GoneIn(plan) => map[r] = resident[r]
    BY <2>4 DEF MapShowsWholeRegions
  <2> QED BY <1>1, <2>1, <2>3, <2>5
<1> QED BY <1>5, <1>6, <1>7

(* Counts that priced what a region holds still do.                        *)
LEMMA PricesOn ==
  ASSUME resident \in Homes, staged \in Seq(Entries), StagedOk,
         NEW plan \in Plans, PlanOK(plan), NEW q, NEW rs, NEW st, NextQueue(plan, q, st, rs),
         NEW h, Stayers(plan, h),
         NEW c, NEW v, v \subseteq StagedRegions(staged), Prices(c, v)
  PROVE  \A e \in Range(st) : e.region \in v =>
            \A k \in Bricks : h.tab[e.slot][k] = "staged" => c[e.slot][k] > 0
<1> SUFFICES ASSUME NEW e \in Range(st), e.region \in v, NEW k \in Bricks, h.tab[e.slot][k] = "staged"
             PROVE  c[e.slot][k] > 0
  OBVIOUS
<1> DEFINE r == e.region
<1>1. Range(staged) \subseteq Entries /\ Range(st) \subseteq Entries
  BY SeqFacts DEF NextQueue
<1>2. PICK d \in Range(staged) : d.region = r
  BY StagedRegionsRange
<1>3. r \in Regions /\ d.slot = resident[r] /\ resident[r] # None
  BY <1>1, <1>2, EntryTypes, NoneIsNoSlot DEF StagedOk
<1>4. r \notin Range(plan.loads) /\ (r \notin GoneIn(plan) => plan.resident[r] = resident[r])
  BY <1>3, StaysPut
<1>5. r \notin GoneIn(plan) /\ e.slot = plan.resident[r]
  BY <1>4 DEF NextQueue
<1> HIDE DEF r
<1>6. e.slot = resident[r] /\ d.slot = e.slot /\ d.region \in v
  BY <1>2, <1>3, <1>4, <1>5 DEF r
<1>7. tab[e.slot][k] = "staged"
  <2>1. Stayed(r, h)
    BY <1>3, <1>5 DEF Stayers
  <2> QED BY <1>6, <2>1 DEF Stayed
<1> QED BY <1>2, <1>6, <1>7 DEF Prices

(* What is staged is counted.                                              *)
Tallied == \A e \in Range(staged), k \in Bricks : tab[e.slot][k] = "staged" => tally[e.slot][k] > 0

LEMMA TalliedOn ==
  ASSUME resident \in Homes, staged \in Seq(Entries), StagedOk, Tallied,
         NEW plan \in Plans, PlanOK(plan), NEW q, NEW rs, NEW st, NextQueue(plan, q, st, rs),
         NEW h, Stayers(plan, h), LeftEmpty(plan, h)
  PROVE  \A e \in Range(st), k \in Bricks : h.tab[e.slot][k] = "staged" => h.tally[e.slot][k] > 0
<1> SUFFICES ASSUME NEW e \in Range(st), NEW k \in Bricks
             PROVE  h.tab[e.slot][k] = "staged" => h.tally[e.slot][k] > 0
  OBVIOUS
<1> DEFINE r == e.region
<1>1. Range(staged) \subseteq Entries
  BY SeqFacts
<1>2. e.slot = plan.resident[r] /\ (r \in Range(plan.loads) \/ r \in StagedRegions(staged) \ GoneIn(plan))
  BY DEF NextQueue
<1> HIDE DEF r
<1>3. CASE r \in Range(plan.loads)
  BY <1>2, <1>3 DEF LeftEmpty
<1>4. CASE r \in StagedRegions(staged) \ GoneIn(plan)
  <2>1. PICK d \in Range(staged) : d.region = r
    BY <1>4, StagedRegionsRange
  <2>2. r \in Regions /\ d.slot = resident[r] /\ resident[r] # None
    BY <1>1, <2>1, EntryTypes, NoneIsNoSlot DEF StagedOk
  <2>3. plan.resident[r] = resident[r]
    BY <1>4, <2>2, StaysPut
  <2>4. Stayed(r, h) /\ e.slot = resident[r]
    BY <1>2, <1>4, <2>2, <2>3 DEF Stayers
  <2>5. tab[e.slot][k] = "staged" => tally[e.slot][k] > 0
    BY <2>1, <2>2, <2>4 DEF Tallied
  <2> QED BY <2>4, <2>5 DEF Stayed
<1> QED BY <1>2, <1>3, <1>4

(* A brick of a region on its way in is still to come: it was found by a   *)
(* probe, or all of the region is to be marked, and its slab is not in.    *)
Coming(e, t, k) == k > e.next /\ (t[e.slot][k] = "staged" \/ Forced(e))

(* A brick that holds surface and is not whole is waiting as an edit, in a *)
(* report, in the repair sweep, or with a region on its way in.            *)
MissingIsKnown ==
  \A r \in Regions : resident[r] # None =>
    \A k \in surf[r] : \/ tab[resident[r]][k] = "fresh"
                       \/ <<r, k>> \in Range(pending)
                       \/ DropIsReported
                       \/ r \in repair
                       \/ \E e \in Range(staged) : e.region = r /\ Coming(e, tab, k)

(* Every job got what it asks for.                                         *)
AllServed(g, h, js) == \A j \in js : \A k \in j.bricks : Served(g, h, j, k)

(* What the sweep starts with, and the jobs that a frame must have.        *)
ToSweep == IF Reported # {} THEN {r \in Regions : resident[r] # None} ELSE repair
MarksAll(r, js, mode) == \E j \in js : j.region = r /\ j.bricks = Bricks /\ j.mode = mode
Live(rs, res) == \A r \in rs : res[r] # None
Dutiful(plan, js, again) ==
  /\ \A r \in Range(plan.loads) : MarksAll(r, js, "probe")
  /\ \A x \in Range(pending) : plan.resident[x[1]] # None => MarksEdit(x, js)
  /\ \A r \in again : MarksAll(r, js, "force")

(* A frame that plans plan, leaves queue q with the slabs that come in and *)
(* st in the end, runs jobs js from g to h, and sweeps w.                  *)
Framed(plan, q, slabs, rs, st, g, h, js, w) ==
  /\ plan \in Plans /\ PlanOK(plan)
  /\ q \in Seq(Entries) /\ slabs \in Seq(Jobs) /\ QueueOK(plan, q, Range(slabs)) /\ NextQueue(plan, q, st, rs)
  /\ g \in Gpus /\ StartsAt(plan, g.tab, g.tally)
  /\ h \in Gpus /\ LeftEmpty(plan, h) /\ Stayers(plan, h)
  /\ JobsOK(plan, js) /\ Range(slabs) \subseteq js /\ AllServed(g, h, js) /\ Traced(g, h, js)
  /\ SweptOK(ToSweep, plan.resident, st, w) /\ w.restaged \subseteq rs
  /\ Dutiful(plan, js, Range(w.marked))

LEMMA MissingOn ==
  ASSUME surf \in [Regions -> SUBSET Bricks], resident \in Homes, staged \in Seq(Entries), StagedOk, MissingIsKnown,
         NEW plan, NEW q, NEW slabs, NEW rs, NEW st, NEW g, NEW h, NEW js, NEW w,
         Framed(plan, q, slabs, rs, st, g, h, js, w),
         h.over = {}, DropIsReported => Reported # {},
         NEW r \in Regions, plan.resident[r] # None, NEW k \in surf[r]
  PROVE  \/ h.tab[plan.resident[r]][k] = "fresh"
         \/ r \in w.queue
         \/ \E e \in Range(st) : e.region = r /\ Coming(e, h.tab, k)
<1> DEFINE js0 == Range(slabs)
<1> SUFFICES ASSUME plan \in Plans, PlanOK(plan), q \in Seq(Entries), QueueOK(plan, q, js0), NextQueue(plan, q, st, rs),
                    g \in Gpus, StartsAt(plan, g.tab, g.tally), h \in Gpus, LeftEmpty(plan, h), Stayers(plan, h),
                    JobsOK(plan, js), js0 \subseteq js, AllServed(g, h, js),
                    SweptOK(ToSweep, plan.resident, st, w), w.restaged \subseteq rs, Dutiful(plan, js, Range(w.marked))
             PROVE  \/ h.tab[plan.resident[r]][k] = "fresh"
                    \/ r \in w.queue
                    \/ \E e \in Range(st) : e.region = r /\ Coming(e, h.tab, k)
  BY DEF Framed
<1> HIDE DEF js0
<1> DEFINE s == plan.resident[r]
           Good == \/ h.tab[s][k] = "fresh"
                   \/ r \in w.queue
                   \/ \E e \in Range(st) : e.region = r /\ Coming(e, h.tab, k)
<1>1. /\ k \in Bricks /\ k \in 1..Slabs /\ Slabs \in Nat
      /\ Range(q) \subseteq Entries /\ Range(staged) \subseteq Entries /\ js \subseteq Jobs
  BY SeqFacts, StreamerAssumption DEF Bricks, JobsOK
<1>2. \A j \in js : j.region = r => j.slot = s
  BY DEF JobsOK
<1>3. \A j \in js : j.region = r /\ k \in j.bricks /\ j.mode \in {"force", "edit"} => h.tab[s][k] = "fresh"
  BY <1>2 DEF AllServed, Served
<1>4. \A e \in Range(st) : e.region = r => e.slot = s
  BY DEF NextQueue
<1>5. ASSUME NEW f \in Range(q), f.region = r, k > f.next
      PROVE  \E e \in Range(st) : /\ e.region = r /\ e.slot = s /\ k > e.next
                                  /\ Forced(f) => Forced(e)
                                  /\ r \in rs => Forced(e)
  <2>1. f.next \in 0..Slabs
    BY <1>1, EntryTypes
  <2>2. f.next < Slabs
    BY <1>1, <1>5, <2>1
  <2>3. PICK e \in Range(st) : Restarted(f, e, rs)
    BY <2>2 DEF NextQueue
  <2>4. e.region = r /\ e.slot = s
    BY <1>4, <1>5, <2>3 DEF Restarted
  <2>5. CASE r \in rs
    <3>1. e.next = 0 /\ Forced(e)
      BY <1>5, <2>3, <2>5 DEF Restarted
    <3>2. k > e.next
      BY <1>1, <3>1
    <3> QED BY <2>4, <3>1, <3>2
  <2>6. CASE r \notin rs
    <3>1. e = f
      BY <1>5, <2>3, <2>6 DEF Restarted
    <3> QED BY <1>5, <2>4, <2>6, <3>1
  <2> QED BY <2>5, <2>6
<1>6. CASE r \in Range(plan.loads)
  <2>1. PICK j \in js : j.region = r /\ j.bricks = Bricks /\ j.mode = "probe"
    BY <1>6 DEF Dutiful, MarksAll
  <2>2. h.tab[s][k] # "absent"
    BY <1>1, <1>2, <2>1 DEF AllServed, Served
  <2>3. h.tab[s][k] \in {"staged", "fresh"}
    BY <1>1, <1>6, <2>2 DEF LeftEmpty
  <2>4. PICK f \in Range(q) : f.region = r /\ f.next = 0
    BY <1>6 DEF QueueOK
  <2>5. k > f.next
    BY <1>1, <2>4
  <2>6. PICK e \in Range(st) : e.region = r /\ e.slot = s /\ k > e.next
    BY <1>5, <2>4, <2>5
  <2> QED BY <2>3, <2>6 DEF Coming
<1>7. CASE r \notin Range(plan.loads)
  <2>1. r \notin GoneIn(plan) /\ resident[r] # None /\ s = resident[r]
    BY <1>7 DEF PlanOK
  <2>2. Stayed(r, h) /\ g.tab[s] = tab[s]
    BY <2>1 DEF StartsAt, Stayers
  <2>3. Leads(tab[s][k], h.tab[s][k])
    BY <1>1, <2>1, <2>2 DEF Stayed
  <2>4. CASE tab[s][k] = "fresh"
    BY <2>3, <2>4 DEF Leads
  <2>5. CASE <<r, k>> \in Range(pending)
    <3> DEFINE x == <<r, k>>
    <3>1. MarksEdit(x, js)
      BY <2>5 DEF Dutiful
    <3>2. PICK j \in js : j.region = r /\ j.bricks = {k} /\ j.mode = "edit"
      BY <3>1 DEF MarksEdit
    <3> QED BY <1>3, <3>2
  <2>6. CASE DropIsReported \/ r \in repair
    <3>1. r \in ToSweep
      BY <2>1, <2>6 DEF ToSweep
    <3>2. r \in w.queue \/ r \in Range(w.marked) \/ r \in w.restaged
      BY <3>1 DEF SweptOK
    <3>3. CASE r \in Range(w.marked)
      <4>1. PICK j \in js : j.region = r /\ j.bricks = Bricks /\ j.mode = "force"
        BY <3>3 DEF Dutiful, MarksAll
      <4> QED BY <1>1, <1>3, <4>1
    <3>4. CASE r \in w.restaged
      <4>1. r \in rs /\ r \in StagedRegions(st)
        BY <3>4 DEF SweptOK
      <4>2. PICK f \in Range(q) : f.region = r /\ f.next < Slabs
        BY <4>1 DEF NextQueue
      <4>3. PICK e \in Range(st) : Restarted(f, e, rs)
        BY <4>2 DEF NextQueue
      <4>4. e.region = r /\ e.next = 0 /\ Forced(e)
        BY <4>1, <4>2, <4>3 DEF Restarted
      <4>5. k > e.next
        BY <1>1, <4>4
      <4> QED BY <4>4, <4>5 DEF Coming
    <3> QED BY <3>2, <3>3, <3>4
  <2>7. ASSUME NEW d \in Range(staged), d.region = r, Coming(d, tab, k) PROVE Good
    <3>1. d.slot = s
      BY <2>1, <2>7 DEF StagedOk
    <3>2. k > d.next /\ (tab[s][k] = "staged" \/ Forced(d))
      BY <2>7, <3>1 DEF Coming
    <3>3. PICK f \in Range(q) : Carried(d, f, js0)
      BY <2>1, <2>7 DEF QueueOK
    <3>4. f.region = r /\ (Waits(d, f, k) \/ Asked(d, js0, k))
      BY <1>1, <2>7, <3>2, <3>3 DEF Carried
    <3>5. CASE Waits(d, f, k)
      <4>1. k > f.next /\ (Forced(d) => Forced(f))
        BY <3>5 DEF Waits
      <4>2. PICK e \in Range(st) : e.region = r /\ e.slot = s /\ k > e.next /\ (Forced(f) => Forced(e))
        BY <1>5, <3>4, <4>1
      <4>3. CASE Forced(d)
        BY <4>1, <4>2, <4>3 DEF Coming
      <4>4. CASE tab[s][k] = "staged"
        <5>1. h.tab[s][k] = "staged" \/ h.tab[s][k] = "fresh"
          BY <2>3, <4>4 DEF Leads
        <5> QED BY <4>2, <5>1 DEF Coming
      <4> QED BY <3>2, <4>3, <4>4
    <3>6. CASE Asked(d, js0, k)
      <4>1. PICK j \in js0 : /\ j.region = r /\ k \in j.bricks
                             /\ j.mode = "force" \/ (j.mode = "allocate" /\ ~Forced(d))
        BY <2>7, <3>6 DEF Asked
      <4>2. CASE j.mode = "force"
        BY <1>3, <4>1, <4>2
      <4>3. CASE j.mode = "allocate" /\ ~Forced(d)
        <5>1. g.tab[s][k] = "staged" /\ j.slot = s
          BY <1>2, <2>2, <3>2, <4>1, <4>3
        <5>2. h.tab[s][k] = "fresh"
          BY <4>1, <4>3, <5>1 DEF AllServed, Served
        <5> QED BY <5>2
      <4> QED BY <4>1, <4>2, <4>3
    <3> QED BY <3>4, <3>5, <3>6
  <2> QED BY <2>1, <2>4, <2>5, <2>6, <2>7 DEF MissingIsKnown
<1> QED BY <1>6, <1>7

-----------------------------------------------------------------------------
(* The reads after a frame: req was sent, and out is what is in flight.    *)

(* No read that is out reports a drop.                                     *)
Silent(out) == \A i \in DOMAIN out : out[i].counters # None => out[i].counters.over = {}

(* A drop that is reported neither by the word nor by a read on its way    *)
(* was reported to this frame.                                             *)
LEMMA ReportsOn ==
  ASSUME staged \in Seq(Entries), tally \in Tallies, over \in SUBSET Words, flying \in Seq(Batches),
         NEW refused, NEW req, req = Requested(refused),
         NEW charge \in Int, NEW st, NEW out, out = StillOut(Sent(req), charge, st),
         Cleared(req) = {},
         Silent(out)
  PROVE  DropIsReported => Reported # {}
<1>1. /\ req \in Batches
      /\ req.counters # None => req.counters.over = over
  BY RequestedFacts
<1>2. /\ Sent(req) \in Seq(Batches)
      /\ \A i \in DOMAIN flying : i \in DOMAIN Sent(req) /\ Sent(req)[i] = flying[i]
      /\ req.counters # None => \E i \in DOMAIN Sent(req) : Sent(req)[i] = req
  BY <1>1, SentFacts
<1>3. /\ DOMAIN out = DOMAIN Sent(req)
      /\ \A i \in DOMAIN Sent(req) : /\ out[i].counters = None <=> Sent(req)[i].counters = None
                                     /\ Sent(req)[i].counters # None => out[i].counters.over = Sent(req)[i].counters.over
  BY <1>2, StillOutFacts
<1>4. \A i \in DOMAIN Sent(req) : Sent(req)[i].counters # None => Sent(req)[i].counters.over = {}
  BY <1>3 DEF Silent
<1>5. over = {}
  <2>1. CASE req.counters = None
    BY <2>1 DEF Cleared
  <2>2. CASE req.counters # None
    BY <1>1, <1>2, <1>4, <2>2
  <2> QED BY <2>1, <2>2
<1>6. \A i \in DOMAIN flying : flying[i].counters # None => flying[i].counters.over = {}
  BY <1>2, <1>4
<1> QED BY <1>5, <1>6 DEF DropIsReported

LEMMA OneReportOn ==
  ASSUME staged \in Seq(Entries), tally \in Tallies, over \in SUBSET Words, flying \in Seq(Batches), OneReport,
         NEW refused, NEW req, req = Requested(refused),
         NEW charge \in Int, NEW st, NEW out, out = StillOut(Sent(req), charge, st)
  PROVE  \A i, j \in DOMAIN out : out[i].counters # None /\ out[j].counters # None => i = j
<1>1. /\ req \in Batches
      /\ req.counters # None => \A i \in DOMAIN flying : flying[i].counters = None
  BY RequestedFacts
<1>2. /\ Sent(req) \in Seq(Batches)
      /\ \A i \in DOMAIN flying : i \in DOMAIN Sent(req) /\ Sent(req)[i] = flying[i]
      /\ \A i \in DOMAIN Sent(req) : i \in DOMAIN flying \/ (i = Len(flying) + 1 /\ Sent(req)[i] = req)
  BY <1>1, SentFacts
<1>3. /\ DOMAIN out = DOMAIN Sent(req)
      /\ \A i \in DOMAIN Sent(req) : out[i].counters = None <=> Sent(req)[i].counters = None
  BY <1>2, StillOutFacts
<1> SUFFICES ASSUME NEW i \in DOMAIN Sent(req), NEW j \in DOMAIN Sent(req),
                    Sent(req)[i].counters # None, Sent(req)[j].counters # None
             PROVE  i = j
  BY <1>3
<1>4. CASE i \in DOMAIN flying /\ j \in DOMAIN flying
  BY <1>2, <1>4 DEF OneReport
<1>5. CASE i \notin DOMAIN flying /\ j \notin DOMAIN flying
  BY <1>2, <1>5
<1>6. CASE i \in DOMAIN flying /\ j \notin DOMAIN flying
  BY <1>1, <1>2, <1>6
<1>7. CASE i \notin DOMAIN flying /\ j \in DOMAIN flying
  BY <1>1, <1>2, <1>7
<1> QED BY <1>4, <1>5, <1>6, <1>7

(* Counts c price what the regions of v in the queue st hold in tables t.  *)
Pays(st, t, c, v) ==
  \A e \in Range(st) : e.region \in v => \A k \in Bricks : t[e.slot][k] = "staged" => c[e.slot][k] > 0

LEMMA CountsOn ==
  ASSUME resident \in Homes, staged \in Seq(Entries), tally \in Tallies, over \in SUBSET Words, flying \in Seq(Batches),
         StagedOk, Tallied, Vouched, PricesCover,
         NEW plan \in Plans, PlanOK(plan), NEW q, NEW rs, NEW st, NextQueue(plan, q, st, rs),
         NEW h, Stayers(plan, h),
         NEW refused, NEW req, req = Requested(refused),
         NEW charge \in Int, NEW out, out = StillOut(Sent(req), charge, st),
         NEW i \in DOMAIN out, out[i].counts # None
  PROVE  /\ out[i].counts.covers \subseteq StagedRegions(st)
         /\ Pays(st, h.tab, out[i].counts.counts, out[i].counts.covers)
<1>1. /\ req \in Batches
      /\ req.counts # None => req.counts.counts = tally /\ req.counts.covers = StagedRegions(staged)
  BY RequestedFacts
<1>2. /\ Sent(req) \in Seq(Batches)
      /\ \A m \in DOMAIN flying : Sent(req)[m] = flying[m]
      /\ \A m \in DOMAIN Sent(req) : m \in DOMAIN flying \/ Sent(req)[m] = req
  BY <1>1, SentFacts
<1>3. /\ DOMAIN out = DOMAIN Sent(req)
      /\ \A m \in DOMAIN Sent(req) :
           out[m].counts # None => /\ Sent(req)[m].counts # None
                                   /\ out[m].counts.counts = Sent(req)[m].counts.counts
                                   /\ out[m].counts.covers = Sent(req)[m].counts.covers \cap StagedRegions(st)
  BY <1>2, StillOutFacts
<1>4. PICK b : b = Sent(req)[i].counts
  OBVIOUS
<1>5. /\ b # None
      /\ out[i].counts.counts = b.counts /\ out[i].counts.covers = b.covers \cap StagedRegions(st)
  BY <1>3, <1>4
<1>6. b.covers \subseteq StagedRegions(staged) /\ Prices(b.counts, b.covers)
  <2>1. CASE i \in DOMAIN flying
    <3>1. b = flying[i].counts
      BY <1>2, <1>4, <2>1
    <3>2. b.covers \subseteq StagedRegions(staged)
      BY <1>5, <2>1, <3>1 DEF Vouched
    <3>3. Prices(b.counts, b.covers)
      BY <1>5, <2>1, <3>1, PricesRead
    <3> QED BY <3>2, <3>3
  <2>2. CASE Sent(req)[i] = req
    <3>1. b.counts = tally /\ b.covers = StagedRegions(staged)
      BY <1>1, <1>4, <1>5, <2>2
    <3>2. Prices(tally, StagedRegions(staged))
      BY DEF Tallied, Prices
    <3> QED BY <3>1, <3>2
  <2> QED BY <1>2, <1>3, <2>1, <2>2
<1> DEFINE c == b.counts
           v == b.covers
<1>7. v \subseteq StagedRegions(staged) /\ Prices(c, v)
  BY <1>6
<1> HIDE DEF c, v
<1>8. \A e \in Range(st) : e.region \in v => \A k \in Bricks : h.tab[e.slot][k] = "staged" => c[e.slot][k] > 0
  BY <1>7, PricesOn
<1>9. \A e \in Range(st) : e.region \in b.covers =>
        \A k \in Bricks : h.tab[e.slot][k] = "staged" => b.counts[e.slot][k] > 0
  BY <1>8 DEF c, v
<1> QED BY <1>5, <1>9 DEF Pays

-----------------------------------------------------------------------------
(* The grass and the leaves after a frame                                  *)

(* Jobs are of what loads, of slabs that come in, of edits, or of a region *)
(* that is marked again.                                                   *)
Excused(plan, js, js0, again) ==
  \A j \in js : \/ j.region \in Range(plan.loads)
                \/ j \in js0
                \/ Range(pending) # {}
                \/ j.region \in again

LEMMA EmptyLength ==
  ASSUME NEW T, NEW q \in Seq(T)
  PROVE  Len(q) \in Nat /\ (Len(q) = 0 => q = <<>> /\ Range(q) = {})
<1>1. Len(q) \in Nat /\ (Len(q) = 0 => q = <<>>)
  BY EmptySeq, LenProperties
<1> QED BY <1>1, EmptyFacts

(* A frame that has done nothing leaves queue and residency as they were.  *)
LEMMA QuietFrame ==
  ASSUME resident \in Homes, staged \in Seq(Entries), pending \in Seq(Regions \X Bricks), MapShowsWholeRegions,
         NEW plan \in Plans, PlanOK(plan),
         NEW q \in Seq(Entries), NEW jobs \in Seq(Jobs), QueueOK(plan, q, Range(jobs)),
         NEW rs, NEW st, NextQueue(plan, q, st, rs), NEW waiting \in Seq(Entries),
         Waiting(q, waiting),
         StagedRegions(waiting) = StagedRegions(st),
         NEW edits \in Seq(Regions \X Bricks),
         ~(Actions(plan, jobs, waiting, edits) > 0), pending = <<>>
  PROVE  /\ plan.resident = resident /\ Range(plan.loads) = {} /\ GoneIn(plan) = {}
         /\ Range(jobs) = {} /\ Range(pending) = {}
         /\ StagedRegions(st) = {} /\ \A r \in Regions : map[r] = resident[r]
<1>1. plan.loads \in Seq(Regions) /\ plan.evicts \in Seq(Evictions)
  BY PlanTypes
<1>2. /\ Len(plan.loads) \in Nat /\ Len(plan.evicts) \in Nat /\ Len(jobs) \in Nat
      /\ Len(waiting) \in Nat /\ Len(edits) \in Nat
  BY <1>1, EmptyLength
<1>3. Len(plan.loads) = 0 /\ Len(plan.evicts) = 0 /\ Len(jobs) = 0 /\ Len(waiting) = 0
  <2> DEFINE a == Len(plan.loads)
             b == Len(plan.evicts)
             c == Len(jobs)
             d == Len(waiting)
             e == Len(edits)
  <2>1. ~(a + b + c + d + e > 0)
    BY DEF Actions
  <2>2. a \in Nat /\ b \in Nat /\ c \in Nat /\ d \in Nat /\ e \in Nat
    BY <1>2
  <2> HIDE DEF a, b, c, d, e
  <2>3. a = 0 /\ b = 0 /\ c = 0 /\ d = 0
    BY <2>1, <2>2
  <2> QED BY <2>3 DEF a, b, c, d
<1>4. Range(plan.loads) = {} /\ Range(plan.evicts) = {} /\ Range(jobs) = {} /\ waiting = <<>> /\ Range(waiting) = {}
  BY <1>1, <1>3, EmptyLength
<1>5. GoneIn(plan) = {}
  BY <1>4, GoneIsRange
<1>6. plan.resident = resident
  <2>1. \A r \in Regions : plan.resident[r] = resident[r]
    BY <1>4, <1>5 DEF PlanOK
  <2>2. plan.resident \in Homes
    BY PlanTypes
  <2> QED BY <2>1, <2>2 DEF Homes
<1>7. Range(q) = {}
  <2>1. \A f \in Range(q) : f.next < Slabs
    BY <1>4 DEF QueueOK
  <2> QED BY <1>4, <2>1 DEF Waiting
<1>8. Range(staged) = {}
  BY <1>4, <1>5, <1>7 DEF QueueOK
<1>9. StagedRegions(staged) = {} /\ StagedRegions(st) = {}
  BY <1>4, <1>8, StagedRegionsRange
<1>10. \A r \in Regions : map[r] = resident[r]
  BY <1>9 DEF MapShowsWholeRegions
<1>11. Range(pending) = {}
  BY EmptyFacts
<1> QED BY <1>4, <1>5, <1>6, <1>9, <1>10, <1>11

(* What grass and leaves stand on in map m and tables t.                   *)
StandsOn(x, m, t) ==
  x # None =>
    /\ \A b \in x.over : m[b[1]] # None /\ t[m[b[1]]][b[2]] \in Allocated
    /\ \A b \in Looks(m, t) \ x.over : b[1] \in x.again

(* What the frame has done, map m that it leaves, and the regions again    *)
(* that it has marked again.                                               *)
Counted(plan, q, slabs, waiting, edits, st, m, js, again) ==
  /\ waiting \in Seq(Entries) /\ Waiting(q, waiting) /\ StagedRegions(waiting) = StagedRegions(st)
  /\ edits \in Seq(Regions \X Bricks)
  /\ Shows(m, st, plan.resident)
  /\ again \in SUBSET Regions /\ Excused(plan, js, Range(slabs), again)

LEMMA ScatterOn ==
  ASSUME cam \in Int, resident \in Homes, staged \in Seq(Entries), pending \in Seq(Regions \X Bricks),
         scattered \in Scatters \cup {None}, MapShowsWholeRegions, ScatterShowsTheWorld,
         NEW plan, NEW q, NEW jobs, NEW rs, NEW st, NEW g, NEW h, NEW js, NEW w,
         Framed(plan, q, jobs, rs, st, g, h, js, w),
         NEW waiting, NEW edits, NEW m, NEW again,
         Counted(plan, q, jobs, waiting, edits, st, m, js, again),
         NEW drawn, NEW actions, actions = Actions(plan, jobs, waiting, edits),
         NEW y, y = Scatter(Unsettled(actions), drawn, Looks(m, h.tab), again)
  PROVE  y \in Scatters \cup {None} /\ StandsOn(y, m, h.tab)
<1> SUFFICES ASSUME plan \in Plans, PlanOK(plan), q \in Seq(Entries), jobs \in Seq(Jobs),
                    QueueOK(plan, q, Range(jobs)), NextQueue(plan, q, st, rs),
                    g \in Gpus, StartsAt(plan, g.tab, g.tally), h \in Gpus, Stayers(plan, h),
                    JobsOK(plan, js), Traced(g, h, js),
                    waiting \in Seq(Entries), Waiting(q, waiting), StagedRegions(waiting) = StagedRegions(st),
                    edits \in Seq(Regions \X Bricks), Shows(m, st, plan.resident),
                    again \in SUBSET Regions, Excused(plan, js, Range(jobs), again)
             PROVE  y \in Scatters \cup {None} /\ StandsOn(y, m, h.tab)
  BY DEF Framed, Counted
<1> DEFINE looks == Looks(m, h.tab)
<1>1. looks \subseteq Regions \X Bricks
  BY DEF Looks
<1>2. CASE y = None
  BY <1>2 DEF StandsOn
<1>3. CASE y = [at |-> cam, over |-> looks, again |-> {}]
  <2>1. y \in Scatters
    BY <1>1, <1>3 DEF Scatters
  <2>2. \A b \in looks : m[b[1]] # None /\ h.tab[m[b[1]]][b[2]] \in Allocated
    BY DEF Looks, Allocated
  <2>3. y.over = looks
    BY <1>3
  <2> QED BY <2>1, <2>2, <2>3 DEF StandsOn
<1>4. CASE scattered # None /\ Unsettled(actions) = 0 /\ y = [scattered EXCEPT !.again = @ \cup again]
  <2>1. ~(Actions(plan, jobs, waiting, edits) > 0) /\ pending = <<>>
    <3>1. Settle # 0
      BY StreamerAssumption
    <3>2. Unsettled(actions) = 0
      BY <1>4
    <3>3. ~(actions > 0 \/ pending # <<>>)
      BY <3>1, <3>2, Zenon DEF Unsettled
    <3> QED BY <3>3
  <2>2. /\ plan.resident = resident /\ Range(plan.loads) = {} /\ GoneIn(plan) = {}
        /\ Range(jobs) = {} /\ Range(pending) = {}
        /\ StagedRegions(st) = {} /\ \A r \in Regions : map[r] = resident[r]
    BY <2>1, QuietFrame
  <2>3. scattered \in Scatters
    BY <1>4
  <2>4. y = [at |-> scattered.at, over |-> scattered.over, again |-> scattered.again \cup again]
    BY <1>4, <2>3 DEF Scatters
  <2>5. y \in Scatters /\ y.over = scattered.over /\ y.again = scattered.again \cup again
        /\ scattered.over \subseteq Regions \X Bricks
    BY <2>3, <2>4 DEF Scatters
  <2>6. \A r \in Regions : m[r] = map[r] /\ map[r] = resident[r]
    BY <2>2 DEF Shows
  <2>7. \A r \in Regions : map[r] # None => map[r] \in Slots /\ Stayed(r, h) /\ g.tab[map[r]] = tab[map[r]]
    BY <2>2 DEF StartsAt, Homes, Stayers
  <2>8. ASSUME NEW r \in Regions, NEW k \in Bricks, <<r, k>> \in y.over
        PROVE  m[r] # None /\ h.tab[m[r]][k] \in Allocated
    <3> DEFINE b == <<r, k>>
    <3>1. map[b[1]] # None /\ tab[map[b[1]]][b[2]] \in Allocated
      BY <1>4, <2>5, <2>8 DEF ScatterShowsTheWorld
    <3>2. map[r] # None /\ tab[resident[r]][k] \in Allocated
      BY <2>6, <3>1
    <3>3. h.tab[resident[r]][k] \in Allocated
      BY <2>7, <3>2 DEF Stayed
    <3> QED BY <2>6, <3>2, <3>3
  <2>9. ASSUME NEW r \in Regions, NEW k \in Bricks, <<r, k>> \in looks \ y.over
        PROVE  r \in y.again
    <3> DEFINE s == resident[r]
    <3>1. m[r] # None /\ h.tab[m[r]][k] = "fresh"
      BY <2>9 DEF Looks
    <3>2. map[r] = s /\ s # None /\ s \in Slots /\ h.tab[s][k] = "fresh" /\ g.tab[s] = tab[s]
      BY <2>6, <2>7, <3>1
    <3>3. CASE tab[s][k] = "fresh"
      <4>1. <<r, k>> \in Looks(map, tab) \ scattered.over
        BY <2>5, <2>9, <3>2, <3>3 DEF Looks
      <4>2. r \in scattered.again
        <5> DEFINE b == <<r, k>>
        <5>1. b[1] \in scattered.again
          BY <1>4, <4>1 DEF ScatterShowsTheWorld
        <5> QED BY <5>1
      <4> QED BY <2>5, <4>2
    <3>4. CASE tab[s][k] # "fresh"
      <4>1. PICK j \in js : j.slot = s
        BY <3>2, <3>4 DEF Traced
      <4>2. j.region \in Regions /\ plan.resident[j.region] = s
        BY <4>1 DEF JobsOK, Jobs
      <4>3. j.region = r
        BY <2>2, <3>2, <4>2 DEF PlanOK, Tenants
      <4>4. j.region \in again
        BY <2>2, <4>1 DEF Excused
      <4> QED BY <2>5, <4>3, <4>4
    <3> QED BY <3>3, <3>4
  <2>10. /\ \A b \in y.over : m[b[1]] # None /\ h.tab[m[b[1]]][b[2]] \in Allocated
         /\ \A b \in looks \ y.over : b[1] \in y.again
    <3>1. \A b \in Regions \X Bricks : b[1] \in Regions /\ b[2] \in Bricks /\ b = <<b[1], b[2]>>
      OBVIOUS
    <3> HIDE DEF looks
    <3> QED BY <1>1, <2>5, <2>8, <2>9, <3>1
  <2> QED BY <2>5, <2>10 DEF StandsOn
<1> QED BY <1>2, <1>3, <1>4 DEF Scatter

-----------------------------------------------------------------------------
(* The frame                                                               *)

Joined(q, a, b, c, d, e) == q = a \o b \o c \o d \o e

LEMMA ConcatFive ==
  ASSUME NEW T, NEW a \in Seq(T), NEW b \in Seq(T), NEW c \in Seq(T), NEW d \in Seq(T), NEW e \in Seq(T),
         NEW q, Joined(q, a, b, c, d, e)
  PROVE  /\ q \in Seq(T)
         /\ Range(q) = Range(a) \cup Range(b) \cup Range(c) \cup Range(d) \cup Range(e)
<1>1. PICK x : x = a \o b
  OBVIOUS
<1>2. PICK y : y = x \o c
  OBVIOUS
<1>3. PICK z : z = y \o d
  OBVIOUS
<1>4. q = z \o e
  BY <1>1, <1>2, <1>3 DEF Joined
<1>5. x \in Seq(T) /\ Range(x) = Range(a) \cup Range(b)
  BY <1>1, ConcatFacts
<1>6. y \in Seq(T) /\ Range(y) = Range(x) \cup Range(c)
  BY <1>2, <1>5, ConcatFacts
<1>7. z \in Seq(T) /\ Range(z) = Range(y) \cup Range(d)
  BY <1>3, <1>6, ConcatFacts
<1>8. q \in Seq(T) /\ Range(q) = Range(z) \cup Range(e)
  BY <1>4, <1>7, ConcatFacts
<1> QED BY <1>5, <1>6, <1>7, <1>8

(* Jobs js mark each region of rs whole, and nothing else.                 *)
MarkWhole(js, rs, res, mode) ==
  /\ \A j \in js : j.region \in rs /\ j.slot = res[j.region] /\ j.mode = mode
  /\ \A r \in rs : MarksAll(r, js, mode)

LEMMA MarkWholeFacts ==
  ASSUME NEW res \in Homes, NEW rs \in Seq(Regions), Live(Range(rs), res),
         NEW mode \in Modes, NEW q, q = Wholes(rs, res, mode)
  PROVE  q \in Seq(Jobs) /\ MarkWhole(Range(q), Range(rs), res, mode)
<1>1. \A r \in Range(rs) : res[r] \in Slots
  <2>1. Range(rs) \subseteq Regions
    BY SeqFacts
  <2> QED BY <2>1 DEF Homes, Live
<1>2. /\ q \in Seq(Jobs)
      /\ \A j \in Range(q) : /\ j.region \in Range(rs) /\ j.slot = res[j.region]
                             /\ j.bricks = Bricks /\ j.mode = mode
      /\ \A r \in Range(rs) : \E j \in Range(q) : j.region = r /\ j.bricks = Bricks /\ j.mode = mode
  BY <1>1, WholesFacts
<1> QED BY <1>2 DEF MarkWhole, MarksAll

(* The edits that wait for a region that is resident, as jobs.             *)
EditsOf(res, edits) ==
  /\ edits \in Seq(Regions \X Bricks)
  /\ Range(edits) = Range(pending) \cap ({r \in Regions : res[r] # None} \X Bricks)
MarkEdits(js, res) ==
  /\ \A j \in js : j.slot = res[j.region] /\ j.mode = "edit" /\ Range(pending) # {}
  /\ \A x \in Range(pending) : res[x[1]] # None => MarksEdit(x, js)

LEMMA MarkEditsFacts ==
  ASSUME pending \in Seq(Regions \X Bricks), NEW res \in Homes, NEW edits, EditsOf(res, edits),
         NEW q, q = Edited(edits, res)
  PROVE  q \in Seq(Jobs) /\ MarkEdits(Range(q), res)
<1>1. edits \in Seq(Regions \X Bricks)
  BY DEF EditsOf
<1>2. \A x \in Range(edits) : x[1] \in Regions /\ res[x[1]] # None /\ x \in Range(pending)
  BY DEF EditsOf
<1>3. Placed(edits, res)
  BY <1>2 DEF Homes, Placed
<1>4. q \in Seq(Jobs) /\ EditJobs(Range(q), edits, res)
  BY <1>1, <1>3, EditedFacts
<1>5. ASSUME NEW x \in Range(pending), res[x[1]] # None PROVE MarksEdit(x, Range(q))
  <2>1. x \in Regions \X Bricks
    BY SeqFacts
  <2>2. x \in Range(edits)
    BY <1>5, <2>1 DEF EditsOf
  <2> QED BY <1>4, <2>2 DEF EditJobs
<1> QED BY <1>2, <1>4, <1>5 DEF MarkEdits, EditJobs

(* All that a frame marks, in the order of the dispatches.                 *)
MarksOf(plan, plain, slabs, edits, redone, marked) ==
  Wholes(plain, plan.resident, "plain") \o Wholes(plan.loads, plan.resident, "probe") \o slabs
    \o Edited(edits, plan.resident) \o Wholes(redone \o marked, plan.resident, "force")

(* What each dispatch marks is resident.                                   *)
Marked(plan, q, slabs, plain, edits, redone, marked, jobs) ==
  /\ plan \in Plans /\ PlanOK(plan)
  /\ slabs \in Seq(Jobs) /\ QueueOK(plan, q, Range(slabs))
  /\ plain \in Seq(Regions) /\ Live(Range(plain), plan.resident)
  /\ EditsOf(plan.resident, edits)
  /\ redone \in Seq(Regions) /\ marked \in Seq(Regions)
  /\ Live(Range(redone), plan.resident) /\ Live(Range(marked), plan.resident)
  /\ jobs = MarksOf(plan, plain, slabs, edits, redone, marked)

(* What there is to say of the marks.                                      *)
MarksOK(plan, slabs, jobs, marked, again) ==
  /\ jobs \in Seq(Jobs) /\ JobsOK(plan, Range(jobs)) /\ Range(slabs) \subseteq Range(jobs)
  /\ Dutiful(plan, Range(jobs), Range(marked))
  /\ Excused(plan, Range(jobs), Range(slabs), again)

LEMMA FrameMarks ==
  ASSUME pending \in Seq(Regions \X Bricks), NEW plan, NEW q, NEW slabs, NEW plain, NEW edits, NEW redone,
         NEW marked, NEW jobs, Marked(plan, q, slabs, plain, edits, redone, marked, jobs)
  PROVE  MarksOK(plan, slabs, jobs, marked, Range(plain) \cup Range(redone) \cup Range(marked))
<1> SUFFICES ASSUME plan \in Plans, PlanOK(plan), slabs \in Seq(Jobs), QueueOK(plan, q, Range(slabs)),
                    plain \in Seq(Regions), Live(Range(plain), plan.resident), EditsOf(plan.resident, edits),
                    redone \in Seq(Regions), marked \in Seq(Regions),
                    Live(Range(redone), plan.resident), Live(Range(marked), plan.resident),
                    jobs = MarksOf(plan, plain, slabs, edits, redone, marked)
             PROVE  /\ jobs \in Seq(Jobs) /\ JobsOK(plan, Range(jobs)) /\ Range(slabs) \subseteq Range(jobs)
                    /\ Dutiful(plan, Range(jobs), Range(marked))
                    /\ Excused(plan, Range(jobs), Range(slabs), Range(plain) \cup Range(redone) \cup Range(marked))
  BY DEF Marked, MarksOK
<1> DEFINE again == Range(plain) \cup Range(redone) \cup Range(marked)
<1>0. /\ "plain" \in Modes /\ "probe" \in Modes /\ "force" \in Modes
      /\ plan.resident \in Homes /\ plan.loads \in Seq(Regions)
      /\ Live(Range(plan.loads), plan.resident)
  BY PlanTypes DEF Modes, PlanOK, Live
<1>1. PICK res : res = plan.resident
  OBVIOUS
<1>2. PICK both : both = redone \o marked
  OBVIOUS
<1>3. both \in Seq(Regions) /\ Range(both) = Range(redone) \cup Range(marked) /\ Live(Range(both), res)
  BY <1>1, <1>2, ConcatFacts DEF Live
<1>4. PICK a : a = Wholes(plain, res, "plain")
  OBVIOUS
<1>5. PICK b : b = Wholes(plan.loads, res, "probe")
  OBVIOUS
<1>6. PICK d : d = Edited(edits, res)
  OBVIOUS
<1>7. PICK e : e = Wholes(both, res, "force")
  OBVIOUS
<1>8. a \in Seq(Jobs) /\ MarkWhole(Range(a), Range(plain), res, "plain")
  BY <1>0, <1>1, <1>4, MarkWholeFacts
<1>9. b \in Seq(Jobs) /\ MarkWhole(Range(b), Range(plan.loads), res, "probe")
  BY <1>0, <1>1, <1>5, MarkWholeFacts
<1>10. d \in Seq(Jobs) /\ MarkEdits(Range(d), res)
  BY <1>0, <1>1, <1>6, MarkEditsFacts
<1>11. e \in Seq(Jobs) /\ MarkWhole(Range(e), Range(both), res, "force")
  BY <1>0, <1>1, <1>3, <1>7, MarkWholeFacts
<1>12. Joined(jobs, a, b, slabs, d, e)
  BY <1>1, <1>2, <1>4, <1>5, <1>6, <1>7 DEF MarksOf, Joined
<1>13. PICK js : js = Range(jobs)
  OBVIOUS
<1>14. jobs \in Seq(Jobs) /\ js = Range(a) \cup Range(b) \cup Range(slabs) \cup Range(d) \cup Range(e)
  <2>1. a \in Seq(Jobs) /\ b \in Seq(Jobs) /\ slabs \in Seq(Jobs) /\ d \in Seq(Jobs) /\ e \in Seq(Jobs)
    BY <1>8, <1>9, <1>10, <1>11
  <2>2. /\ jobs \in Seq(Jobs)
        /\ Range(jobs) = Range(a) \cup Range(b) \cup Range(slabs) \cup Range(d) \cup Range(e)
    BY <1>12, <2>1, ConcatFive
  <2> QED BY <1>13, <2>2
<1>15. js \subseteq Jobs
  BY <1>13, <1>14, SeqFacts
<1>16. \A j \in Range(slabs) : j.slot = res[j.region] /\ j.mode # "probe"
  BY <1>1 DEF QueueOK
<1>17. JobsOK(plan, js)
  <2>1. ASSUME NEW j \in js PROVE j.slot = res[j.region] /\ (j.mode = "probe" => j.region \in Range(plan.loads))
    BY <1>8, <1>9, <1>10, <1>11, <1>14, <1>16 DEF MarkWhole, MarkEdits
  <2> QED BY <1>1, <1>15, <2>1 DEF JobsOK
<1>18. Dutiful(plan, js, Range(marked))
  <2>1. \A r \in Range(plan.loads) : MarksAll(r, js, "probe")
    BY <1>9, <1>14 DEF MarkWhole, MarksAll
  <2>2. \A r \in Range(marked) : MarksAll(r, js, "force")
    BY <1>3, <1>11, <1>14 DEF MarkWhole, MarksAll
  <2>3. \A x \in Range(pending) : plan.resident[x[1]] # None => MarksEdit(x, js)
    BY <1>1, <1>10, <1>14 DEF MarkEdits, MarksEdit
  <2> QED BY <2>1, <2>2, <2>3 DEF Dutiful
<1>19. Excused(plan, js, Range(slabs), again)
  <2>1. ASSUME NEW j \in js
        PROVE  \/ j.region \in Range(plan.loads)
               \/ j \in Range(slabs)
               \/ Range(pending) # {}
               \/ j.region \in again
    BY <1>3, <1>8, <1>9, <1>10, <1>11, <1>14 DEF MarkWhole, MarkEdits
  <2> QED BY <2>1 DEF Excused
<1> QED BY <1>13, <1>14, <1>17, <1>18, <1>19

LEMMA AscendingOf ==
  ASSUME NEW rs \in SUBSET Regions
  PROVE  Ascending(rs) \in Seq(Regions) /\ Range(Ascending(rs)) \subseteq rs
<1>1. rs \in SUBSET Int /\ IsFiniteSet(rs)
  BY StreamerAssumption, FS_Subset
<1>2. PICK q : q = Ascending(rs)
  OBVIOUS
<1>3. q \in Seq(rs)
  BY <1>1, <1>2, AscendingIsSeq
<1>4. /\ Len(q) \in Nat /\ DOMAIN q = 1..Len(q) /\ Range(q) \subseteq rs
      /\ \A i \in 1..Len(q) : q[i] \in rs
  BY <1>3, SeqFacts
<1>5. q = [i \in 1..Len(q) |-> q[i]]
  BY <1>3, <1>4
<1>6. q \in [1..Len(q) -> Regions]
  BY <1>4, <1>5
<1> QED BY <1>2, <1>4, <1>6, IsASeq

LEMMA RegionsOfJobs ==
  ASSUME NEW jobs \in Seq(Jobs)
  PROVE  [i \in DOMAIN jobs |-> jobs[i].region] \in Seq(Regions)
<1>1. PICK p : p = [i \in DOMAIN jobs |-> jobs[i].region]
  OBVIOUS
<1>2. Len(jobs) \in Nat /\ DOMAIN jobs = 1..Len(jobs) /\ \A i \in 1..Len(jobs) : jobs[i] \in Jobs
  BY SeqFacts
<1>3. \A i \in 1..Len(jobs) : jobs[i].region \in Regions
  BY <1>2 DEF Jobs
<1>4. p \in [1..Len(jobs) -> Regions]
  BY <1>1, <1>2, <1>3
<1>5. p \in Seq(Regions)
  BY <1>2, <1>4, IsASeq
<1> QED BY <1>1, <1>5

(* What is generated anew after the next overflow of the job list: what    *)
(* was marked, and the regions that were edited.                           *)
Anew(marked, edits) == marked \o Ascending({edits[i][1] : i \in DOMAIN edits} \ Range(marked))
LEMMA RegenFacts ==
  ASSUME NEW marked \in Seq(Regions), NEW edits \in Seq(Regions \X Bricks)
  PROVE  Anew(marked, edits) \in Seq(Regions)
<1>1. PICK rs : rs = {edits[i][1] : i \in DOMAIN edits} \ Range(marked)
  OBVIOUS
<1>2. rs \in SUBSET Regions
  <2>1. \A i \in DOMAIN edits : edits[i] \in Regions \X Bricks
    BY SeqFacts
  <2> QED BY <1>1, <2>1
<1>3. PICK p : p = Ascending(rs)
  OBVIOUS
<1>4. p \in Seq(Regions)
  BY <1>2, <1>3, AscendingOf
<1>5. marked \o p \in Seq(Regions)
  BY <1>4, ConcatFacts
<1>6. Anew(marked, edits) = marked \o p
  BY <1>1, <1>3 DEF Anew
<1> QED BY <1>5, <1>6

(* What is marked again because the job list overflowed.                   *)
Redo(here) == IF "jobs" \in Reported THEN Only(regen, here) ELSE <<>>
LEMMA RedoFacts ==
  ASSUME regen \in Seq(Regions), NEW here \in SUBSET Regions, NEW S,
         NEW redo, redo = Redo(here),
         NEW redone, redone = Only(redo, S)
  PROVE  /\ redo \in Seq(Regions) /\ redone \in Seq(Regions)
         /\ \A r \in Range(redone) : r \in here
<1>1. redo \in Seq(Regions) /\ Range(redo) \subseteq here
  BY OnlyFacts, EmptyFacts DEF Redo
<1>2. redone \in Seq(Regions) /\ Range(redone) = Range(redo) \cap S
  BY <1>1, OnlyFacts
<1> QED BY <1>1, <1>2

Charged(kn, charge, S) == [kn EXCEPT !.owed = @ + charge, !.counted = @ \cap S]
LEMMA KnownOn ==
  ASSUME NEW kn \in Knowns, NEW charge \in Int, NEW S,
         NEW x, x = Charged(kn, charge, S)
  PROVE  x \in Knowns /\ x.counts = kn.counts /\ x.counted = kn.counted \cap S
<1>1. /\ kn.free \in Int /\ kn.owed \in Int /\ kn.costs \in [Slots -> Int]
      /\ kn.counts \in Tallies /\ kn.counted \in SUBSET Regions
  BY DEF Knowns
<1>2. x = [free |-> kn.free, owed |-> kn.owed + charge, costs |-> kn.costs,
           counts |-> kn.counts, counted |-> kn.counted \cap S]
  BY DEF Knowns, Charged
<1>3. kn.owed + charge \in Int /\ kn.counted \cap S \in SUBSET Regions
  BY <1>1
<1> QED BY <1>1, <1>2, <1>3 DEF Knowns

(* The GPU when the marks of a frame begin.                                *)
LEMMA StartFacts ==
  ASSUME resident \in Homes, spare \in Seq(Slots), tab \in Tables, tally \in Tallies, over \in SUBSET Words,
         Tenants(resident, spare), SparesAreEmpty,
         NEW plan \in Plans, PlanOK(plan), NEW req,
         NEW g, g = [tab |-> Vacate(tab, plan.evicts), tally |-> Reset(tally, plan.resident, plan.loads),
                     over |-> Cleared(req), jobs |-> 0]
  PROVE  g \in Gpus /\ StartsAt(plan, g.tab, g.tally) /\ g.over = Cleared(req)
<1>1. PICK t : t = Vacate(tab, plan.evicts)
  OBVIOUS
<1>2. PICK c : c = Reset(tally, plan.resident, plan.loads)
  OBVIOUS
<1>3. StartsAt(plan, t, c)
  BY <1>1, <1>2, VacateFacts
<1>4. Cleared(req) \in SUBSET Words
  BY DEF Cleared
<1>5. g = [tab |-> t, tally |-> c, over |-> Cleared(req), jobs |-> 0]
  BY <1>1, <1>2
<1>6. g.tab = t /\ g.tally = c /\ g.over = Cleared(req)
  BY <1>5
<1> QED BY <1>3, <1>4, <1>5, <1>6 DEF StartsAt, Gpus

-----------------------------------------------------------------------------
(* The invariant                                                           *)

StreamerType ==
  /\ cam \in Int
  /\ surf \in [Regions -> SUBSET Bricks]
  /\ pending \in Seq(Regions \X Bricks)
  /\ forced \in SUBSET Regions
  /\ resident \in Homes
  /\ spare \in Seq(Slots)
  /\ staged \in Seq(Entries)
  /\ map \in Homes
  /\ tab \in Tables
  /\ tally \in Tallies
  /\ over \in SUBSET Words
  /\ flying \in Seq(Batches)
  /\ landed \in Batches
  /\ known \in Knowns
  /\ repair \in SUBSET Regions
  /\ regen \in Seq(Regions)
  /\ scattered \in Scatters \cup {None}

IInv ==
  /\ StreamerType
  /\ Tenants(resident, spare)
  /\ SparesAreEmpty
  /\ StagedOk
  /\ MapShowsWholeRegions
  /\ Vouched
  /\ Tallied
  /\ PricesCover
  /\ OneReport
  /\ MissingIsKnown
  /\ ScatterShowsTheWorld

(* What is missing after a frame that hears of no drop.                    *)
Unheard(h) == h.over = {} /\ (DropIsReported => Reported # {})
Found(plan, st, h, w) ==
  \A r \in Regions : plan.resident[r] # None =>
    \A k \in surf[r] : \/ h.tab[plan.resident[r]][k] = "fresh"
                       \/ r \in w.queue
                       \/ \E e \in Range(st) : e.region = r /\ Coming(e, h.tab, k)

LEMMA FrameFinds ==
  ASSUME IInv, NEW plan, NEW q, NEW slabs, NEW rs, NEW st, NEW g, NEW h, NEW js, NEW w,
         Framed(plan, q, slabs, rs, st, g, h, js, w), Unheard(h)
  PROVE  Found(plan, st, h, w)
<1>1. /\ surf \in [Regions -> SUBSET Bricks] /\ resident \in Homes /\ staged \in Seq(Entries)
      /\ StagedOk /\ MissingIsKnown
  BY DEF IInv, StreamerType
<1>2. h.over = {} /\ (DropIsReported => Reported # {})
  BY DEF Unheard
<1>3. ASSUME NEW r \in Regions, plan.resident[r] # None, NEW k \in surf[r]
      PROVE  \/ h.tab[plan.resident[r]][k] = "fresh"
             \/ r \in w.queue
             \/ \E e \in Range(st) : e.region = r /\ Coming(e, h.tab, k)
  BY <1>1, <1>2, <1>3, MissingOn
<1> QED BY <1>3 DEF Found

(* What the scatter passes keep.                                           *)
Redrawn(y, plan, slabs, waiting, edits, drawn, m, h, again) ==
  y = Scatter(Unsettled(Actions(plan, slabs, waiting, edits)), drawn, Looks(m, h.tab), again)
Stands(y, m, h) == y \in Scatters \cup {None} /\ StandsOn(y, m, h.tab)

LEMMA FrameScatters ==
  ASSUME IInv, NEW plan, NEW q, NEW slabs, NEW rs, NEW st, NEW g, NEW h, NEW js, NEW w,
         Framed(plan, q, slabs, rs, st, g, h, js, w),
         NEW waiting, NEW edits, NEW m, NEW again, Counted(plan, q, slabs, waiting, edits, st, m, js, again),
         NEW drawn, NEW y, Redrawn(y, plan, slabs, waiting, edits, drawn, m, h, again)
  PROVE  Stands(y, m, h)
<1>1. /\ cam \in Int /\ resident \in Homes /\ staged \in Seq(Entries) /\ pending \in Seq(Regions \X Bricks)
      /\ scattered \in Scatters \cup {None} /\ MapShowsWholeRegions /\ ScatterShowsTheWorld
  BY DEF IInv, StreamerType
<1>2. PICK actions : actions = Actions(plan, slabs, waiting, edits)
  OBVIOUS
<1>3. y = Scatter(Unsettled(actions), drawn, Looks(m, h.tab), again)
  BY <1>2 DEF Redrawn
<1>4. y \in Scatters \cup {None} /\ StandsOn(y, m, h.tab)
  BY <1>1, <1>2, <1>3, ScatterOn
<1> QED BY <1>4 DEF Stands

(* What a frame leaves behind, but for the reads and the scatter.          *)
Leaves(plan, f) ==
  /\ plan.resident \in Homes /\ plan.spare \in Seq(Slots) /\ Tenants(plan.resident, plan.spare)
  /\ f.gpu \in Gpus
  /\ \A s \in Range(plan.spare) : f.gpu.tab[s] = NoBricks
  /\ f.staged \in Seq(Entries) /\ Alone(f.staged)
  /\ \A e \in Range(f.staged) : e.slot = plan.resident[e.region] /\ e.next < Slabs
  /\ \A e \in Range(f.staged), k \in Bricks : f.gpu.tab[e.slot][k] = "staged" => f.gpu.tally[e.slot][k] > 0
  /\ f.map \in Homes
  /\ Shows(f.map, f.staged, plan.resident)
  /\ f.repair \in SUBSET Regions /\ f.regen \in Seq(Regions)

(* What is known of a brick that is missing after it.                      *)
Misses(plan, f) ==
  \A r \in Regions : plan.resident[r] # None =>
    \A k \in surf[r] : \/ f.gpu.tab[plan.resident[r]][k] = "fresh"
                       \/ r \in f.repair
                       \/ \E e \in Range(f.staged) : e.region = r /\ Coming(e, f.gpu.tab, k)
                       \/ f.gpu.over # {}
                       \/ \E i \in DOMAIN f.flying : f.flying[i].counters # None /\ f.flying[i].counters.over # {}

(* The reads after it.                                                     *)
Reads(f) ==
  /\ f.flying \in Seq(Batches)
  /\ \A i, j \in DOMAIN f.flying : f.flying[i].counters # None /\ f.flying[j].counters # None => i = j
  /\ \A i \in DOMAIN f.flying :
       f.flying[i].counts # None => /\ f.flying[i].counts.covers \subseteq StagedRegions(f.staged)
                                    /\ Pays(f.staged, f.gpu.tab, f.flying[i].counts.counts, f.flying[i].counts.covers)
  /\ f.known \in Knowns /\ f.known.counted \subseteq StagedRegions(f.staged)
  /\ Pays(f.staged, f.gpu.tab, f.known.counts, f.known.counted)

(* The values a frame goes through, from what it reads to what it keeps.   *)
Computes(refused, gate, drawn, kn, req, upd, plan, g, f, y) ==
  /\ kn = Harvest(known) /\ req = Requested(refused)
  /\ upd = Updated(kn, gate)
  /\ plan = Settled(kn, upd)
  /\ g = Staging(kn, plan)
  /\ f = Outcome(kn, req, upd, plan, g)
  /\ y = Scatter(Unsettled(f.actions), drawn, Looks(f.map, f.gpu.tab), f.again)
Completes(plan, f, y) ==
  /\ Leaves(plan, f) /\ Misses(plan, f) /\ Reads(f)
  /\ y \in Scatters \cup {None} /\ StandsOn(y, f.map, f.gpu.tab)

LEMMA OutcomeFacts ==
  ASSUME IInv, NEW refused, NEW gate, NEW drawn, NEW kn, NEW req, NEW upd, NEW plan, NEW g, NEW f, NEW y,
         Computes(refused, gate, drawn, kn, req, upd, plan, g, f, y)
  PROVE  Completes(plan, f, y)
<1> SUFFICES ASSUME kn = Harvest(known), req = Requested(refused), upd = Updated(kn, gate),
                    plan = Settled(kn, upd), g = Staging(kn, plan), f = Outcome(kn, req, upd, plan, g),
                    y = Scatter(Unsettled(f.actions), drawn, Looks(f.map, f.gpu.tab), f.again)
             PROVE  /\ Leaves(plan, f) /\ Misses(plan, f) /\ Reads(f)
                    /\ y \in Scatters \cup {None} /\ StandsOn(y, f.map, f.gpu.tab)
  BY DEF Computes, Completes
<1>1. /\ cam \in Int /\ surf \in [Regions -> SUBSET Bricks] /\ pending \in Seq(Regions \X Bricks)
      /\ forced \in SUBSET Regions /\ resident \in Homes /\ spare \in Seq(Slots) /\ staged \in Seq(Entries)
      /\ tab \in Tables /\ tally \in Tallies /\ over \in SUBSET Words /\ flying \in Seq(Batches)
      /\ landed \in Batches /\ known \in Knowns /\ repair \in SUBSET Regions /\ regen \in Seq(Regions)
      /\ scattered \in Scatters \cup {None}
  BY DEF IInv, StreamerType
<1>2. /\ Tenants(resident, spare) /\ SparesAreEmpty /\ StagedOk /\ MapShowsWholeRegions /\ Vouched
      /\ Tallied /\ PricesCover /\ OneReport /\ MissingIsKnown /\ ScatterShowsTheWorld
  BY DEF IInv
<1>3. kn \in Knowns /\ kn.counted \subseteq StagedRegions(staged) /\ Prices(kn.counts, kn.counted)
  BY <1>1, <1>2, HarvestFacts
<1>4. upd.plan \in Plans /\ PlanOK(upd.plan) /\ upd.price \in Int
  BY <1>1, <1>2, <1>3, UpdatedOK
<1>5. plan \in Plans /\ PlanOK(plan)
  BY <1>1, <1>3, <1>4, SettledOK
<1>6. /\ g.plain \in Seq(Regions) /\ \A r \in Range(g.plain) : plan.resident[r] # None
      /\ g.slabs.staged \in Seq(Entries) /\ g.slabs.jobs \in Seq(Jobs)
      /\ QueueOK(plan, g.slabs.staged, Range(g.slabs.jobs))
  BY <1>1, <1>2, <1>3, <1>5, StagingFacts
<1> DEFINE res     == plan.resident
           q       == g.slabs.staged
           slabs   == g.slabs.jobs
           charge  == Len(upd.plan.loads) * upd.price
           waiting == Only(q, {e \in Range(q) : e.next < Slabs})
           here    == {r \in Regions : res[r] # None}
           edits   == Only(pending, here \X Bricks)
           marked  == g.plain \o [i \in DOMAIN slabs |-> slabs[i].region]
           redo    == IF "jobs" \in Reported THEN Only(regen, here) ELSE <<>>
           redone  == Only(redo, Regions \ StagedRegions(waiting))
           w       == Sweep(IF Reported # {} THEN {r \in Regions : resident[r] # None} ELSE repair,
                            res, waiting, Most(0, kn.free - kn.owed))
           jobs    == Wholes(g.plain, res, "plain") \o Wholes(plan.loads, res, "probe") \o slabs
                        \o Edited(edits, res) \o Wholes(redone \o w.marked, res, "force")
           a       == [tab |-> Vacate(tab, plan.evicts), tally |-> Reset(tally, res, plan.loads),
                       over |-> Cleared(req), jobs |-> 0]
           h       == RunJobs(a, jobs)
           nearest == {Distance(r, cam) : r \in StagedRegions(waiting) \cup upd.missing} \cup {Radius}
           st      == Restage(waiting, Range(redo) \cup w.restaged)
           m       == Shown([r \in Regions |-> IF r \in GoneIn(plan) THEN None ELSE map[r]], q)
           out     == StillOut(IF req.counters = None /\ req.counts = None THEN flying
                               ELSE Append(flying, req), charge, st)
<1>7. f = [staged   |-> st,
           map      |-> m,
           complete |-> CHOOSE d \in nearest : \A e \in nearest : d <= e,
           gpu      |-> h,
           flying   |-> out,
           known    |-> [kn EXCEPT !.owed = @ + charge, !.counted = @ \cap StagedRegions(st)],
           repair   |-> w.queue,
           regen    |-> marked \o Ascending({edits[i][1] : i \in DOMAIN edits} \ Range(marked)),
           actions  |-> Actions(plan, slabs, waiting, edits),
           again    |-> Range(g.plain \o redone \o w.marked)]
  BY Zenon DEF Outcome
<1>8. w = Sweep(ToSweep, res, waiting, Most(0, kn.free - kn.owed))
  BY DEF ToSweep
<1>9. jobs = MarksOf(plan, g.plain, slabs, edits, redone, w.marked)
  BY DEF MarksOf
<1>10. out = StillOut(Sent(req), charge, st)
  BY DEF Sent
<1>11. a = [tab |-> Vacate(tab, plan.evicts), tally |-> Reset(tally, plan.resident, plan.loads),
            over |-> Cleared(req), jobs |-> 0]
  OBVIOUS
<1> HIDE DEF res, q, slabs, charge, waiting, here, edits, marked, redo, redone, w, jobs, a, h, nearest, st, m, out
<1>12. /\ f.staged = st /\ f.map = m /\ f.gpu = h /\ f.flying = out /\ f.repair = w.queue
       /\ f.known = Charged(kn, charge, StagedRegions(st))
       /\ f.regen = Anew(marked, edits)
       /\ f.actions = Actions(plan, slabs, waiting, edits)
       /\ f.again = Range(g.plain \o redone \o w.marked)
  BY <1>7 DEF Anew, Charged
<1>13. /\ res = plan.resident /\ res \in Homes /\ plan.spare \in Seq(Slots) /\ Tenants(res, plan.spare)
       /\ charge \in Int /\ q \in Seq(Entries) /\ slabs \in Seq(Jobs) /\ QueueOK(plan, q, Range(slabs))
  <2>1. plan.resident \in Homes /\ plan.spare \in Seq(Slots) /\ Tenants(plan.resident, plan.spare)
    BY <1>5, PlanTypes DEF PlanOK
  <2>2. Len(upd.plan.loads) \in Nat
    BY <1>4, PlanTypes, SeqFacts
  <2>3. charge \in Int
    BY <1>4, <2>2 DEF charge
  <2> QED BY <1>6, <2>1, <2>3 DEF res, q, slabs
<1>14. /\ NextQueue(plan, q, st, Range(redo) \cup w.restaged)
       /\ waiting \in Seq(Entries) /\ StagedRegions(waiting) = StagedRegions(st)
       /\ Waiting(q, waiting)
  <2>1. waiting = Only(q, {e \in Range(q) : e.next < Slabs}) /\ st = Restage(waiting, Range(redo) \cup w.restaged)
    BY DEF waiting, st
  <2> QED BY <1>5, <1>13, <2>1, NextQueueFacts
<1>15. SweptOK(ToSweep, res, waiting, w)
  <2>1. ToSweep \in SUBSET Regions
    BY <1>1 DEF ToSweep
  <2> QED BY <1>8, <2>1, SweepFacts
<1>16. /\ SweptOK(ToSweep, res, st, w) /\ w.queue \in SUBSET Regions /\ w.marked \in Seq(Regions)
       /\ Live(Range(w.marked), plan.resident)
  BY <1>13, <1>14, <1>15 DEF SweptOK, Sweeps, Live
<1>17. /\ redo \in Seq(Regions) /\ redone \in Seq(Regions)
       /\ Live(Range(redone), plan.resident)
  <2>1. here \in SUBSET Regions /\ \A r \in here : res[r] # None
    BY DEF here
  <2>2. redo = Redo(here)
    BY DEF redo, Redo
  <2>3. redone = Only(redo, Regions \ StagedRegions(waiting))
    BY DEF redone
  <2>4. /\ redo \in Seq(Regions) /\ redone \in Seq(Regions)
        /\ \A r \in Range(redone) : r \in here
    BY <1>1, <2>1, <2>2, <2>3, RedoFacts
  <2> QED BY <1>13, <2>1, <2>4 DEF Live
<1>18. EditsOf(res, edits)
  <2>1. edits \in Seq(Regions \X Bricks) /\ Range(edits) = Range(pending) \cap (here \X Bricks)
    BY <1>1, OnlyFacts DEF edits
  <2> QED BY <2>1 DEF EditsOf, here
<1>19. /\ jobs \in Seq(Jobs) /\ JobsOK(plan, Range(jobs)) /\ Range(slabs) \subseteq Range(jobs)
       /\ Dutiful(plan, Range(jobs), Range(w.marked))
       /\ Excused(plan, Range(jobs), Range(slabs), Range(g.plain) \cup Range(redone) \cup Range(w.marked))
  <2>1. Live(Range(g.plain), plan.resident)
    BY <1>6 DEF Live
  <2>2. EditsOf(plan.resident, edits)
    BY <1>13, <1>18
  <2>3. Marked(plan, q, slabs, g.plain, edits, redone, w.marked, jobs)
    BY <1>5, <1>6, <1>9, <1>13, <1>16, <1>17, <2>1, <2>2 DEF Marked
  <2>4. MarksOK(plan, slabs, jobs, w.marked, Range(g.plain) \cup Range(redone) \cup Range(w.marked))
    BY <1>1, <2>3, FrameMarks
  <2> QED BY <2>4 DEF MarksOK
<1>20. a \in Gpus /\ StartsAt(plan, a.tab, a.tally) /\ a.over = Cleared(req)
  BY <1>1, <1>2, <1>5, <1>11, StartFacts
<1>21. /\ h \in Gpus /\ Advances(a, h) /\ Traced(a, h, Range(jobs))
       /\ AllServed(a, h, Range(jobs))
  BY <1>1, <1>19, <1>20, RunJobsFacts DEF h, AllServed
<1>22. /\ LeftEmpty(plan, h)
       /\ Stayers(plan, h)
  BY <1>1, <1>5, <1>19, <1>20, <1>21, AfterJobs
<1>23. /\ m \in Homes
       /\ Shows(m, st, plan.resident)
  <2>1. m = Shown([r \in Regions |-> IF r \in GoneIn(plan) THEN None ELSE map[r]], q)
    BY DEF m
  <2> QED BY <1>1, <1>2, <1>5, <1>13, <1>14, <2>1, MapOn
<1>24. \A e \in Range(st), k \in Bricks : h.tab[e.slot][k] = "staged" => h.tally[e.slot][k] > 0
  BY <1>1, <1>2, <1>5, <1>14, <1>22, TalliedOn
<1>25. Anew(marked, edits) \in Seq(Regions)
  <2>1. [i \in DOMAIN slabs |-> slabs[i].region] \in Seq(Regions)
    BY <1>13, RegionsOfJobs
  <2>2. marked \in Seq(Regions)
    BY <1>6, <2>1, ConcatFacts DEF marked
  <2> QED BY <1>18, <2>2, RegenFacts DEF EditsOf
<1>26. Leaves(plan, f)
  <2>1. /\ st \in Seq(Entries) /\ Alone(st)
        /\ \A e \in Range(st) : e.slot = plan.resident[e.region] /\ e.next < Slabs
    BY <1>14 DEF NextQueue
  <2>2. \A s \in Range(plan.spare) : h.tab[s] = NoBricks
    BY <1>22 DEF LeftEmpty
  <2> QED BY <1>12, <1>13, <1>16, <1>21, <1>23, <1>24, <1>25, <2>1, <2>2 DEF Leaves
<1> DEFINE rs == Range(redo) \cup w.restaged
<1>f. Framed(plan, q, slabs, rs, st, a, h, Range(jobs), w)
  <2>1. w.restaged \subseteq rs
    OBVIOUS
  <2>2. NextQueue(plan, q, st, rs) /\ SweptOK(ToSweep, plan.resident, st, w)
    BY <1>13, <1>14, <1>16
  <2> HIDE DEF rs
  <2> QED BY <1>5, <1>13, <1>19, <1>20, <1>21, <1>22, <2>1, <2>2 DEF Framed
<1> HIDE DEF rs
<1>27. Misses(plan, f)
  <2>1. ASSUME h.over = {}, Silent(out) PROVE Found(plan, st, h, w)
    <3>1. Cleared(req) = {}
      BY <1>20, <1>21, <2>1 DEF Advances
    <3>2. DropIsReported => Reported # {}
      BY <1>1, <1>10, <1>13, <2>1, <3>1, ReportsOn
    <3>3. Unheard(h)
      BY <2>1, <3>2 DEF Unheard
    <3> QED BY <1>f, <3>3, FrameFinds
  <2> QED BY <1>12, <1>13, <2>1 DEF Misses, Silent, Found
<1>28. Reads(f)
  <2>1. out \in Seq(Batches)
    <3>1. req \in Batches
      BY <1>1, RequestedFacts
    <3>2. Sent(req) \in Seq(Batches)
      BY <1>1, <3>1, SentFacts
    <3> QED BY <1>10, <1>13, <3>2, StillOutFacts
  <2>2. \A i, j \in DOMAIN out : out[i].counters # None /\ out[j].counters # None => i = j
    BY <1>1, <1>2, <1>10, <1>13, OneReportOn
  <2>3. \A i \in DOMAIN out :
          out[i].counts # None => /\ out[i].counts.covers \subseteq StagedRegions(st)
                                  /\ Pays(st, h.tab, out[i].counts.counts, out[i].counts.covers)
    BY <1>1, <1>2, <1>5, <1>10, <1>13, <1>14, <1>22, CountsOn
  <2>4. PICK x : x = f.known
    OBVIOUS
  <2>5. x \in Knowns /\ x.counts = kn.counts /\ x.counted = kn.counted \cap StagedRegions(st)
    <3>1. x = Charged(kn, charge, StagedRegions(st))
      BY <1>12, <2>4
    <3> QED BY <1>3, <1>13, <3>1, KnownOn
  <2>6. Pays(st, h.tab, x.counts, x.counted)
    <3>1. \A e \in Range(st) : e.region \in kn.counted =>
             \A k \in Bricks : h.tab[e.slot][k] = "staged" => kn.counts[e.slot][k] > 0
      BY <1>1, <1>2, <1>3, <1>5, <1>14, <1>22, PricesOn
    <3> QED BY <2>5, <3>1 DEF Pays
  <2> QED BY <1>12, <2>1, <2>2, <2>3, <2>4, <2>5, <2>6 DEF Reads
<1>29. y \in Scatters \cup {None} /\ StandsOn(y, f.map, f.gpu.tab)
  <2>1. PICK again : again = Range(g.plain) \cup Range(redone) \cup Range(w.marked)
    OBVIOUS
  <2>2. f.again = again /\ again \in SUBSET Regions
    <3>1. PICK x : x = g.plain \o redone
      OBVIOUS
    <3>2. x \in Seq(Regions) /\ Range(x) = Range(g.plain) \cup Range(redone)
      BY <1>6, <1>17, <3>1, ConcatFacts
    <3>3. x \o w.marked \in Seq(Regions) /\ Range(x \o w.marked) = Range(x) \cup Range(w.marked)
      BY <1>16, <3>2, ConcatFacts
    <3>4. Range(x \o w.marked) \subseteq Regions
      BY <3>3, SeqFacts
    <3> QED BY <1>12, <2>1, <3>1, <3>2, <3>3, <3>4
  <2>3. Redrawn(y, plan, slabs, waiting, edits, drawn, m, h, again)
    BY <1>12, <2>2 DEF Redrawn
  <2>4. Excused(plan, Range(jobs), Range(slabs), again)
    BY <1>19, <2>1
  <2>5. edits \in Seq(Regions \X Bricks)
    BY <1>18 DEF EditsOf
  <2>6. Counted(plan, q, slabs, waiting, edits, st, m, Range(jobs), again)
    BY <1>14, <1>23, <2>2, <2>4, <2>5 DEF Counted
  <2>7. Stands(y, m, h)
    BY <1>f, <2>3, <2>6, FrameScatters
  <2> QED BY <1>12, <2>7 DEF Stands
<1> QED BY <1>26, <1>27, <1>28, <1>29

LEMMA FrameKeeps ==
  ASSUME IInv, NEW refused, NEW gate, NEW drawn, Frame(refused, gate, drawn)
  PROVE  IInv'
<1>1. PICK kn, req, upd, plan, g, f, y :
        /\ Computes(refused, gate, drawn, kn, req, upd, plan, g, f, y)
        /\ resident' = plan.resident /\ spare' = plan.spare
        /\ staged' = f.staged /\ map' = f.map
        /\ tab' = f.gpu.tab /\ tally' = f.gpu.tally /\ over' = f.gpu.over
        /\ flying' = f.flying /\ known' = f.known
        /\ repair' = f.repair /\ regen' = f.regen
        /\ scattered' = y
  <2>1. PICK kn \in {Harvest(known)}, req \in {Requested(refused)} :
          \E upd \in {Updated(kn, gate)} :
          \E plan \in {Settled(kn, upd)} :
          \E g \in {Staging(kn, plan)} :
          \E f \in {Outcome(kn, req, upd, plan, g)} :
             /\ resident' = plan.resident
             /\ spare' = plan.spare
             /\ staged' = f.staged
             /\ map' = f.map
             /\ complete' = f.complete
             /\ tab' = f.gpu.tab
             /\ tally' = f.gpu.tally
             /\ over' = f.gpu.over
             /\ flying' = f.flying
             /\ known' = f.known
             /\ repair' = f.repair
             /\ regen' = f.regen
             /\ \E unsettled \in {Unsettled(f.actions)} :
                   /\ settle' = Most(0, unsettled - 1)
                   /\ scattered' = Scatter(unsettled, drawn, Looks(f.map, f.gpu.tab), f.again)
    BY Zenon DEF Frame
  <2>2. PICK upd, plan, g, f :
          /\ upd = Updated(kn, gate) /\ plan = Settled(kn, upd) /\ g = Staging(kn, plan)
          /\ f = Outcome(kn, req, upd, plan, g)
          /\ resident' = plan.resident /\ spare' = plan.spare
          /\ staged' = f.staged /\ map' = f.map
          /\ tab' = f.gpu.tab /\ tally' = f.gpu.tally /\ over' = f.gpu.over
          /\ flying' = f.flying /\ known' = f.known
          /\ repair' = f.repair /\ regen' = f.regen
          /\ scattered' = Scatter(Unsettled(f.actions), drawn, Looks(f.map, f.gpu.tab), f.again)
    BY Zenon, <2>1
  <2>3. kn = Harvest(known) /\ req = Requested(refused)
    OBVIOUS
  <2>4. Computes(refused, gate, drawn, kn, req, upd, plan, g, f, scattered')
    BY <2>2, <2>3 DEF Computes
  <2> QED BY Zenon, <2>2, <2>4
<1>2. /\ landed' = [counters |-> None, counts |-> None]
      /\ pending' = <<>> /\ forced' = {} /\ cam' = cam /\ surf' = surf
  BY DEF Frame
<1>3. Completes(plan, f, y)
  BY <1>1, OutcomeFacts
<1>4. Leaves(plan, f) /\ Misses(plan, f) /\ Reads(f)
      /\ y \in Scatters \cup {None} /\ StandsOn(y, f.map, f.gpu.tab)
  BY <1>3 DEF Completes
<1>5. f.gpu.tab \in Tables /\ f.gpu.tally \in Tallies /\ f.gpu.over \in SUBSET Words
  BY <1>4 DEF Leaves, Gpus
<1>6. StreamerType'
  <2>1. cam \in Int /\ surf \in [Regions -> SUBSET Bricks]
    BY DEF IInv, StreamerType
  <2>2. landed' \in Batches
    BY <1>2 DEF Batches
  <2>3. pending' \in Seq(Regions \X Bricks)
    BY <1>2
  <2>4. /\ resident' \in Homes /\ spare' \in Seq(Slots) /\ staged' \in Seq(Entries) /\ map' \in Homes
        /\ repair' \in SUBSET Regions /\ regen' \in Seq(Regions)
    BY <1>1, <1>4 DEF Leaves
  <2>5. flying' \in Seq(Batches) /\ known' \in Knowns
    BY <1>1, <1>4 DEF Reads
  <2>6. tab' \in Tables /\ tally' \in Tallies /\ over' \in SUBSET Words /\ scattered' \in Scatters \cup {None}
    BY <1>1, <1>4, <1>5
  <2> QED BY <1>2, <2>1, <2>2, <2>3, <2>4, <2>5, <2>6 DEF StreamerType
<1>7. Tenants(resident, spare)' /\ SparesAreEmpty' /\ StagedOk' /\ MapShowsWholeRegions'
  <2>1. Tenants(resident', spare') /\ \A s \in Range(spare') : tab'[s] = NoBricks
    BY <1>1, <1>4 DEF Leaves
  <2>2. Alone(staged') /\ \A e \in Range(staged') : e.slot = resident'[e.region] /\ e.next < Slabs
    BY <1>1, <1>4 DEF Leaves
  <2>3. Shows(map', staged', resident')
    BY <1>1, <1>4 DEF Leaves
  <2>4. Tenants(resident, spare)'
    BY <2>1 DEF Tenants
  <2>5. StagedOk'
    BY <2>2 DEF StagedOk
  <2>6. MapShowsWholeRegions'
    BY <2>3 DEF MapShowsWholeRegions, Shows
  <2>7. SparesAreEmpty'
    BY <2>1 DEF SparesAreEmpty
  <2> QED BY <2>4, <2>5, <2>6, <2>7
<1>8. Tallied'
  BY <1>1, <1>4 DEF Leaves, Tallied
<1>9. /\ \A i, j \in DOMAIN flying' : flying'[i].counters # None /\ flying'[j].counters # None => i = j
      /\ \A i \in DOMAIN flying' :
           flying'[i].counts # None => /\ flying'[i].counts.covers \subseteq StagedRegions(staged')
                                       /\ Pays(staged', tab', flying'[i].counts.counts, flying'[i].counts.covers)
      /\ known'.counted \subseteq StagedRegions(staged')
      /\ Pays(staged', tab', known'.counts, known'.counted)
  BY <1>1, <1>4 DEF Reads
<1>10. landed'.counters = None /\ landed'.counts = None
  BY <1>2
<1>11. Vouched' /\ OneReport'
  <2>1. Vouched'
    BY <1>9, <1>10 DEF Vouched
  <2>2. OneReport'
    BY <1>9, <1>10 DEF OneReport
  <2> QED BY <2>1, <2>2
<1>12. PricesCover'
  <2>1. (PricesCover <=> /\ Prices(known.counts, known.counted)
                         /\ \A i \in DOMAIN flying :
                              flying[i].counts # None => Prices(flying[i].counts.counts, flying[i].counts.covers)
                         /\ landed.counts # None => Prices(landed.counts.counts, landed.counts.covers))'
    BY PricesRead, PTL
  <2>2. \A c, v : Prices(c, v)' <=> Pays(staged', tab', c, v)
    BY DEF Prices, Pays
  <2>3. Prices(known.counts, known.counted)'
    BY <1>9 DEF Prices, Pays
  <2>4. (\A i \in DOMAIN flying :
            flying[i].counts # None => Prices(flying[i].counts.counts, flying[i].counts.covers))'
    BY <1>9 DEF Prices, Pays
  <2>5. (landed.counts # None => Prices(landed.counts.counts, landed.counts.covers))'
    BY <1>10
  <2> QED BY <2>1, <2>3, <2>4, <2>5
<1>13. MissingIsKnown'
  <2> SUFFICES ASSUME NEW r \in Regions, resident'[r] # None, NEW k \in surf'[r]
               PROVE  \/ tab'[resident'[r]][k] = "fresh"
                      \/ DropIsReported'
                      \/ r \in repair'
                      \/ \E e \in Range(staged') : e.region = r /\ Coming(e, tab', k)
    BY DEF MissingIsKnown
  <2>1. \/ f.gpu.tab[plan.resident[r]][k] = "fresh"
        \/ r \in f.repair
        \/ \E e \in Range(f.staged) : e.region = r /\ Coming(e, f.gpu.tab, k)
        \/ f.gpu.over # {}
        \/ \E i \in DOMAIN f.flying : f.flying[i].counters # None /\ f.flying[i].counters.over # {}
    BY <1>1, <1>2, <1>4 DEF Misses
  <2>2. over' # {} \/ (\E i \in DOMAIN flying' : flying'[i].counters # None /\ flying'[i].counters.over # {})
          => DropIsReported'
    BY DEF DropIsReported
  <2> QED BY <1>1, <2>1, <2>2
<1>14. ScatterShowsTheWorld'
  <2>1. StandsOn(scattered', map', tab')
    BY <1>1, <1>4
  <2> QED BY <2>1 DEF StandsOn, ScatterShowsTheWorld, Looks
<1> QED BY <1>6, <1>7, <1>8, <1>11, <1>12, <1>13, <1>14 DEF IInv

(* Nothing waits, nobody lives anywhere and nothing was ever read.         *)
LEMMA InitKeeps ==
  ASSUME Init
  PROVE  IInv
<1>1. /\ cam \in Int /\ surf \in [Regions -> SUBSET Bricks] /\ pending = <<>> /\ forced = {}
      /\ resident = [r \in Regions |-> None] /\ spare = [i \in Slots |-> RegionSlots + 1 - i]
      /\ staged = <<>> /\ map = [r \in Regions |-> None]
      /\ tab = [s \in Slots |-> NoBricks] /\ tally = NoCounts /\ over = {} /\ flying = <<>>
      /\ landed = [counters |-> None, counts |-> None] /\ repair = {} /\ regen = <<>> /\ scattered = None
      /\ known = [free |-> Atlas, owed |-> 0, costs |-> [s \in Slots |-> 0],
                  counts |-> NoCounts, counted |-> {}]
  BY StreamerAssumption DEF Init, Bricks
<1>2. RegionSlots \in Nat /\ Slots = 1..RegionSlots /\ None \notin Slots /\ Atlas \in Int
  BY StreamerAssumption DEF Slots
<1>3. /\ spare \in [1..RegionSlots -> Slots] /\ DOMAIN spare = Slots
      /\ \A i, j \in Slots : spare[i] = spare[j] => i = j
  BY <1>1, <1>2
<1>4. spare \in Seq(Slots)
  BY <1>2, <1>3, IsASeq
<1>5. Range(spare) \subseteq Slots
  BY <1>4, SeqFacts
<1>6. NoCount \in [Bricks -> Nat] /\ NoBricks \in [Bricks -> Marks]
  BY DEF NoCount, NoBricks, Marks
<1>7. tally \in Tallies /\ tab \in Tables
  BY <1>1, <1>6 DEF NoCounts, Tallies, Tables
<1>8. known \in Knowns
  <2>1. [s \in Slots |-> 0] \in [Slots -> Int] /\ NoCounts \in Tallies /\ {} \in SUBSET Regions /\ 0 \in Int
    BY <1>1, <1>7
  <2> QED BY <1>1, <1>2, <2>1 DEF Knowns
<1>9. landed \in Batches
  BY <1>1 DEF Batches
<1>10. StreamerType
  <2>1. resident \in Homes /\ map \in Homes
    BY <1>1 DEF Homes
  <2>2. /\ pending \in Seq(Regions \X Bricks) /\ staged \in Seq(Entries) /\ flying \in Seq(Batches)
        /\ regen \in Seq(Regions)
    BY <1>1
  <2>3. forced \in SUBSET Regions /\ over \in SUBSET Words /\ repair \in SUBSET Regions
        /\ scattered \in Scatters \cup {None}
    BY <1>1
  <2> QED BY <1>1, <1>4, <1>7, <1>8, <1>9, <2>1, <2>2, <2>3 DEF StreamerType
<1>11. Tenants(resident, spare)
  <2>1. \A r \in Regions : resident[r] = None
    BY <1>1
  <2>2. Once(spare)
    BY <1>3 DEF Once
  <2> QED BY <1>2, <1>5, <2>1, <2>2 DEF Tenants
<1>12. SparesAreEmpty
  BY <1>1, <1>5 DEF SparesAreEmpty
<1>13. DOMAIN staged = {} /\ Range(staged) = {} /\ DOMAIN flying = {} /\ StagedRegions(staged) = {}
  BY <1>1, EmptyFacts, StagedRegionsRange
<1>14. StagedOk /\ Tallied
  BY <1>13 DEF StagedOk, Alone, Tallied
<1>15. MapShowsWholeRegions
  BY <1>1, <1>13 DEF MapShowsWholeRegions
<1>16. landed.counters = None /\ landed.counts = None /\ known.counted = {}
  BY <1>1
<1>17. Vouched /\ OneReport
  BY <1>13, <1>16 DEF Vouched, OneReport
<1>18. PricesCover
  BY <1>13 DEF PricesCover
<1>19. MissingIsKnown
  BY <1>1 DEF MissingIsKnown
<1>20. ScatterShowsTheWorld
  BY <1>1 DEF ScatterShowsTheWorld
<1> QED BY <1>10, <1>11, <1>12, <1>14, <1>15, <1>17, <1>18, <1>19, <1>20 DEF IInv

(* Reads land oldest first.  The one report under way goes from flight to  *)
(* the streamer and covers no other.                                       *)
LEMMA LandKeeps ==
  ASSUME IInv, Land
  PROVE  IInv'
<1>1. /\ StreamerType /\ Tenants(resident, spare) /\ SparesAreEmpty /\ StagedOk /\ MapShowsWholeRegions
      /\ Vouched /\ Tallied /\ PricesCover /\ OneReport /\ MissingIsKnown /\ ScatterShowsTheWorld
  BY DEF IInv
<1>2. UNCHANGED <<cam, surf, pending, forced, resident, spare, staged, map, tab, tally, over, known, repair, regen, scattered>>
  BY DEF Land, tenancy, gpuVars, scatterVars
<1>3. flying \in Seq(Batches) /\ landed \in Batches
  BY <1>1 DEF StreamerType
<1>4. PICK b : b = Head(flying)
  OBVIOUS
<1>5. flying # <<>> /\ flying' = Tail(flying)
      /\ landed' = [counters |-> IF b.counters = None THEN landed.counters ELSE b.counters,
                    counts   |-> IF b.counts = None THEN landed.counts ELSE b.counts]
  BY <1>4 DEF Land
<1>6. /\ b \in Batches /\ 1 \in DOMAIN flying /\ flying[1] = b
      /\ flying' \in Seq(Batches)
      /\ \A i \in DOMAIN flying' : i + 1 \in DOMAIN flying /\ flying'[i] = flying[i + 1] /\ i + 1 # 1
      /\ \A i \in DOMAIN flying : i = 1 \/ (i - 1 \in DOMAIN flying' /\ flying'[i - 1] = flying[i])
  BY <1>3, <1>4, <1>5, HeadTailProperties, LenProperties
<1>7. /\ landed'.counters = IF b.counters = None THEN landed.counters ELSE b.counters
      /\ landed'.counts = IF b.counts = None THEN landed.counts ELSE b.counts
      /\ landed' \in Batches
  BY <1>3, <1>5, <1>6 DEF Batches
<1>8. StreamerType'
  BY <1>1, <1>2, <1>6, <1>7 DEF StreamerType
<1>9. Vouched'
  BY <1>1, <1>2, <1>6, <1>7 DEF Vouched
<1>10. OneReport'
  BY <1>1, <1>6, <1>7 DEF OneReport
<1>11. PricesCover'
  <2>1. (PricesCover <=> /\ Prices(known.counts, known.counted)
                         /\ \A i \in DOMAIN flying :
                              flying[i].counts # None => Prices(flying[i].counts.counts, flying[i].counts.covers)
                         /\ landed.counts # None => Prices(landed.counts.counts, landed.counts.covers))'
    BY PricesRead, PTL
  <2>2. /\ Prices(known.counts, known.counted)
        /\ \A i \in DOMAIN flying :
             flying[i].counts # None => Prices(flying[i].counts.counts, flying[i].counts.covers)
        /\ landed.counts # None => Prices(landed.counts.counts, landed.counts.covers)
    BY <1>1, PricesRead
  <2>3. Prices(known.counts, known.counted)'
    BY <1>2, <2>2 DEF Prices
  <2>4. (\A i \in DOMAIN flying :
            flying[i].counts # None => Prices(flying[i].counts.counts, flying[i].counts.covers))'
    <3> SUFFICES ASSUME NEW i \in DOMAIN flying', flying'[i].counts # None
                 PROVE  \A e \in Range(staged) : e.region \in flying'[i].counts.covers =>
                          \A k \in Bricks : tab[e.slot][k] = "staged" => flying'[i].counts.counts[e.slot][k] > 0
      BY <1>2 DEF Prices
    <3>1. i + 1 \in DOMAIN flying /\ flying'[i] = flying[i + 1]
      BY <1>6
    <3>2. Prices(flying[i + 1].counts.counts, flying[i + 1].counts.covers)
      BY <2>2, <3>1
    <3> QED BY <3>1, <3>2 DEF Prices
  <2>5. (landed.counts # None => Prices(landed.counts.counts, landed.counts.covers))'
    BY <1>2, <1>6, <1>7, <2>2 DEF Prices
  <2> QED BY <2>1, <2>3, <2>4, <2>5
<1>12. DropIsReported => DropIsReported'
  <2>1. CASE over # {}
    BY <1>2, <2>1 DEF DropIsReported
  <2>2. ASSUME NEW i \in DOMAIN flying, flying[i].counters # None, flying[i].counters.over # {}
        PROVE  DropIsReported'
    <3>1. CASE i = 1
      BY <1>6, <1>7, <2>2, <3>1 DEF DropIsReported, Reported
    <3>2. CASE i # 1
      BY <1>6, <2>2, <3>2 DEF DropIsReported
    <3> QED BY <3>1, <3>2
  <2>3. CASE Reported # {}
    <3>1. landed.counters # None /\ landed.counters.over # {}
      BY <2>3 DEF Reported
    <3>2. b.counters = None
      BY <1>1, <1>6, <3>1 DEF OneReport
    <3> QED BY <1>7, <3>1, <3>2 DEF DropIsReported, Reported
  <2> QED BY <2>1, <2>2, <2>3 DEF DropIsReported
<1>13. MissingIsKnown'
  BY <1>1, <1>2, <1>12 DEF MissingIsKnown, Coming, Forced
<1>14. /\ Tenants(resident, spare)' /\ SparesAreEmpty' /\ StagedOk' /\ MapShowsWholeRegions'
       /\ Tallied' /\ ScatterShowsTheWorld'
  <2>1. Tenants(resident, spare)' /\ SparesAreEmpty' /\ StagedOk'
    BY <1>1, <1>2 DEF Tenants, SparesAreEmpty, StagedOk
  <2>2. MapShowsWholeRegions' /\ Tallied' /\ ScatterShowsTheWorld'
    BY <1>1, <1>2 DEF MapShowsWholeRegions, Tallied, ScatterShowsTheWorld, Looks
  <2> QED BY <2>1, <2>2
<1> QED BY <1>8, <1>9, <1>10, <1>11, <1>13, <1>14 DEF IInv

(* What a step between frames that leaves the streamer alone preserves.    *)
LEMMA RestKeeps ==
  ASSUME IInv, StreamerType',
         UNCHANGED <<resident, spare, staged, map, tab, tally, over, flying, landed, known, repair, scattered>>,
         \A r \in Regions : \A k \in surf'[r] : k \in surf[r] \/ <<r, k>> \in Range(pending'),
         Range(pending) \subseteq Range(pending')
  PROVE  IInv'
<1>1. /\ Tenants(resident, spare) /\ SparesAreEmpty /\ StagedOk /\ MapShowsWholeRegions
      /\ Vouched /\ Tallied /\ PricesCover /\ OneReport /\ MissingIsKnown /\ ScatterShowsTheWorld
  BY DEF IInv
<1>2. Tenants(resident, spare)' /\ SparesAreEmpty' /\ StagedOk' /\ Vouched' /\ OneReport'
  BY <1>1 DEF Tenants, SparesAreEmpty, StagedOk, Vouched, OneReport
<1>3. MapShowsWholeRegions' /\ Tallied' /\ ScatterShowsTheWorld'
  BY <1>1 DEF MapShowsWholeRegions, Tallied, ScatterShowsTheWorld, Looks
<1>4. PricesCover'
  BY <1>1 DEF PricesCover, CountReads
<1>5. DropIsReported => DropIsReported'
  BY DEF DropIsReported, Reported
<1>6. MissingIsKnown'
  <2> SUFFICES ASSUME NEW r \in Regions, resident'[r] # None, NEW k \in surf'[r]
               PROVE  \/ tab'[resident'[r]][k] = "fresh"
                      \/ <<r, k>> \in Range(pending')
                      \/ DropIsReported'
                      \/ r \in repair'
                      \/ \E e \in Range(staged') : e.region = r /\ Coming(e, tab', k)
    BY DEF MissingIsKnown
  <2>1. \/ <<r, k>> \in Range(pending')
        \/ tab[resident[r]][k] = "fresh"
        \/ DropIsReported
        \/ r \in repair
        \/ \E e \in Range(staged) : e.region = r /\ Coming(e, tab, k)
    BY <1>1 DEF MissingIsKnown
  <2> QED BY <1>5, <2>1
<1> QED BY <1>2, <1>3, <1>4, <1>6 DEF IInv

LEMMA EditKeeps ==
  ASSUME IInv, NEW r \in Regions, NEW k \in Bricks, Edit(r, k)
  PROVE  IInv'
<1>1. /\ surf' = [surf EXCEPT ![r] = @ \cup {k}] /\ pending' = Append(pending, <<r, k>>)
      /\ UNCHANGED <<cam, forced, resident, spare, staged, map, tab, tally, over, flying, landed, known,
                     repair, regen, scattered>>
  BY DEF Edit, tenancy, gpuVars, readVars, scatterVars
<1>2. StreamerType
  BY DEF IInv
<1>3. surf \in [Regions -> SUBSET Bricks] /\ pending \in Seq(Regions \X Bricks)
  BY <1>2 DEF StreamerType
<1>4. pending' \in Seq(Regions \X Bricks) /\ Range(pending') = Range(pending) \cup {<<r, k>>}
  <2>1. PICK x \in Regions \X Bricks : x = <<r, k>>
    OBVIOUS
  <2>2. pending' = Append(pending, x)
    BY <1>1, <2>1
  <2>3. Append(pending, x) \in Seq(Regions \X Bricks) /\ Range(Append(pending, x)) = Range(pending) \cup {x}
    BY <1>3, AppendFacts
  <2> QED BY <2>1, <2>2, <2>3
<1>5. surf' \in [Regions -> SUBSET Bricks]
  BY <1>1, <1>3
<1>6. StreamerType'
  BY <1>1, <1>2, <1>4, <1>5 DEF StreamerType
<1>7. \A q \in Regions : \A j \in surf'[q] : j \in surf[q] \/ <<q, j>> \in Range(pending')
  BY <1>1, <1>3, <1>4
<1> QED BY <1>1, <1>4, <1>6, <1>7, RestKeeps

LEMMA QueueKeeps ==
  ASSUME IInv, NEW r \in Regions, QueueRegeneration(r)
  PROVE  IInv'
<1>1. /\ forced' = forced \cup {r}
      /\ UNCHANGED <<cam, surf, pending, resident, spare, staged, map, tab, tally, over, flying, landed, known,
                     repair, regen, scattered>>
  BY DEF QueueRegeneration, tenancy, gpuVars, readVars, scatterVars
<1>2. StreamerType'
  BY <1>1 DEF IInv, StreamerType
<1> QED BY <1>1, <1>2, RestKeeps

LEMMA MoveKeeps ==
  ASSUME IInv, NEW c \in Cameras, Move(c)
  PROVE  IInv'
<1>1. /\ cam' = c
      /\ UNCHANGED <<surf, pending, forced, resident, spare, staged, map, tab, tally, over, flying, landed, known,
                     repair, regen, scattered>>
  BY DEF Move, tenancy, gpuVars, readVars, scatterVars
<1>2. cam' \in Int
  BY <1>1, StreamerAssumption
<1>3. StreamerType'
  BY <1>1, <1>2 DEF IInv, StreamerType
<1> QED BY <1>1, <1>3, RestKeeps

LEMMA StutterKeeps ==
  ASSUME IInv, UNCHANGED vars
  PROVE  IInv'
<1>1. UNCHANGED <<cam, surf, pending, forced, resident, spare, staged, map, tab, tally, over, flying, landed, known,
                  repair, regen, scattered>>
  BY DEF vars, tenancy, gpuVars, readVars, scatterVars
<1>2. StreamerType'
  BY <1>1 DEF IInv, StreamerType
<1> QED BY <1>1, <1>2, RestKeeps

-----------------------------------------------------------------------------
(* The theorems                                                            *)

LEMMA NextKeeps ==
  ASSUME IInv, [Next]_vars
  PROVE  IInv'
<1>1. CASE GoodFrame
  BY <1>1, FrameKeeps DEF GoodFrame
<1>2. CASE AbortedFrame
  BY <1>2, FrameKeeps DEF AbortedFrame
<1>3. CASE RefusedFrame
  BY <1>3, FrameKeeps DEF RefusedFrame
<1>4. ASSUME NEW r \in Regions, GatedFrame(r) PROVE IInv'
  BY <1>4, FrameKeeps DEF GatedFrame
<1>5. CASE Land
  BY <1>5, LandKeeps
<1>6. ASSUME NEW r \in Regions, NEW k \in Bricks, Edit(r, k) PROVE IInv'
  BY <1>6, EditKeeps
<1>7. ASSUME NEW r \in Regions, QueueRegeneration(r) PROVE IInv'
  BY <1>7, QueueKeeps
<1>8. ASSUME NEW c \in Cameras, Move(c) PROVE IInv'
  BY <1>8, MoveKeeps
<1>9. CASE UNCHANGED vars
  BY <1>9, StutterKeeps
<1> QED BY <1>1, <1>2, <1>3, <1>4, <1>5, <1>6, <1>7, <1>8, <1>9 DEF Next

(* The invariant holds in every reachable state.                           *)
THEOREM StreamerInvariant == Spec => []IInv
<1>1. Init => IInv
  BY InitKeeps
<1>2. IInv /\ [Next]_vars => IInv'
  BY NextKeeps
<1> QED BY <1>1, <1>2, PTL DEF Spec

(* Whatever loads, leaves and lands crosses whatever, the region map shows *)
(* each region exactly while it is resident and none of its slabs waits.   *)
THEOREM StreamerMap == Spec => []MapShowsWholeRegions
<1>1. IInv => MapShowsWholeRegions
  BY DEF IInv
<1> QED BY <1>1, StreamerInvariant, PTL

(* No brick the renderer looks up is without its bytes unless the streamer *)
(* knows of it: from an edit that waits, a report of a drop that is under  *)
(* way, or the sweep that marks again.                                     *)
THEOREM StreamerHoles == Spec => []HolesAreKnown
<1>1. IInv => HolesAreKnown
  <2> SUFFICES ASSUME IInv, NEW r \in Regions, NEW k \in Bricks, Hole(r, k)
               PROVE  <<r, k>> \in Range(pending) \/ DropIsReported \/ r \in repair
    BY DEF HolesAreKnown
  <2>1. MapShowsWholeRegions /\ MissingIsKnown
    BY DEF IInv
  <2>2. r \notin StagedRegions(staged) /\ map[r] = resident[r] /\ resident[r] # None
    BY <2>1 DEF Hole, MapShowsWholeRegions
  <2>3. \A e \in Range(staged) : e.region # r
    BY <2>2, StagedRegionsRange
  <2>4. k \in surf[r] /\ tab[resident[r]][k] # "fresh"
    BY <2>2 DEF Hole
  <2> QED BY <2>1, <2>2, <2>3, <2>4 DEF MissingIsKnown
<1> QED BY <1>1, StreamerInvariant, PTL

(* No read of the slab counts, used or under way, vouches for a region and *)
(* prices a slab that has bricks to allocate at nothing.                   *)
THEOREM StreamerPrices == Spec => []PricesCover
<1>1. IInv => PricesCover
  BY DEF IInv
<1> QED BY <1>1, StreamerInvariant, PTL

(* What is drawn again of the grass and the leaves stands on bricks that   *)
(* have their slots, and lacks nothing but bricks of regions that were     *)
(* marked again.                                                           *)
THEOREM StreamerScatter == Spec => []ScatterShowsTheWorld
<1>1. IInv => ScatterShowsTheWorld
  BY DEF IInv
<1> QED BY <1>1, StreamerInvariant, PTL
=============================================================================

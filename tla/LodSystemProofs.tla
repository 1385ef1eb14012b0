---------------------------- MODULE LodSystemProofs ----------------------------
(***************************************************************************)
(* Proofs about the level-of-detail system, for any octree, shell, views   *)
(* and sizes that satisfy the assumptions of LodSystem.                    *)
(*                                                                         *)
(* Pool. The free stack and the page lists share nothing and are all the   *)
(* pages there are (Sound).  Results and evictions are folds, so what one  *)
(* step of each does to a chunk is carried through the whole of them by    *)
(* induction (LandsStay, SetFoldStays).                                    *)
(*                                                                         *)
(* Edits. A node tells the truth, or a mark or the dirty flag says that it *)
(* does not (Honest); a chunk has one build out and no more (Lone), which  *)
(* is of the field as it is unless an edit came since (Fresh).  The shell  *)
(* has no building flag, and holds with the state in its place.            *)
(*                                                                         *)
(* Cut. Between the walk and the drawing a chunk that is ready stays so or *)
(* is found empty, an empty one stays empty, and one that the walk visited *)
(* is not evicted (Kept).  In both cuts, the deepest chunk over a piece of *)
(* ground whose ancestors are all open is drawn, out of sight or empty     *)
(* (Way, WayDown).                                                         *)
(***************************************************************************)
EXTENDS LodSystem, TLAPS, FiniteSetTheorems, SequenceTheorems, WellFoundedInduction

-----------------------------------------------------------------------------
(* Folds                                                                   *)

(* Some natural of a set is the least.                                     *)
LEMMA LeastNatural ==
  ASSUME NEW S \in SUBSET Nat, S # {}
  PROVE  \E n \in S : \A m \in S : n <= m
  <1>1. IsWellFoundedOn(OpToRel(<, Nat), Nat)
    BY NatLessThanWellFounded
  <1>2. PICK n \in S : \A m \in S : <<m, n>> \notin OpToRel(<, Nat)
    BY <1>1, WFMin
  <1>3. ASSUME NEW m \in S PROVE ~(m < n)
    BY <1>2 DEF OpToRel
  <1> QED BY <1>3

(* What holds of 0 and goes from n to n + 1 holds of every natural.        *)
LEMMA Stepwise ==
  ASSUME NEW T, 0 \in T, \A n \in Nat : n \in T => n + 1 \in T
  PROVE  Nat \subseteq T
  <1> SUFFICES ASSUME Nat \ T # {} PROVE FALSE
    OBVIOUS
  <1>1. PICK n \in Nat \ T : \A m \in Nat \ T : n <= m
    BY LeastNatural
  <1>2. n - 1 \in Nat /\ (n - 1) + 1 = n
    OBVIOUS
  <1>3. n - 1 \in T
    BY <1>1, <1>2
  <1> QED BY <1>2, <1>3

(* The fold of the steps F over the finite set S, from a, that takes       *)
(* end[s] last of the subset s.                                            *)
IsSetFold(g, S, end, F, a) ==
  g = [s \in SUBSET S |-> IF s = {} THEN a ELSE F[end[s]][g[s \ {end[s]}]]]

(* What holds of the empty set, and of a set if of that less one of its    *)
(* elements, holds of a finite set.                                        *)
LEMMA SubsetInduction ==
  ASSUME NEW S, IsFiniteSet(S), NEW T, {} \in T,
         NEW end, \A s \in SUBSET S : s # {} => end[s] \in s,
         \A s \in SUBSET S : s # {} /\ s \ {end[s]} \in T => s \in T
  PROVE  SUBSET S \subseteq T
  <1> DEFINE U == {n \in Nat : \A s \in SUBSET S : Cardinality(s) = n => s \in T}
  <1>0. \A s \in SUBSET S : IsFiniteSet(s) /\ Cardinality(s) \in Nat
    BY FS_Subset, FS_CardinalityType
  <1>1. 0 \in U
    BY <1>0, FS_EmptySet
  <1>2. ASSUME NEW n \in Nat, n \in U PROVE n + 1 \in U
    <2> SUFFICES ASSUME NEW s \in SUBSET S, Cardinality(s) = n + 1 PROVE s \in T
      OBVIOUS
    <2>1. s # {}
      BY FS_EmptySet
    <2>2. Cardinality(s \ {end[s]}) = n
      <3>1. end[s] \in s /\ IsFiniteSet(s)
        BY <1>0, <2>1
      <3>2. Cardinality(s \ {end[s]}) = Cardinality(s) - 1
        BY <3>1, FS_RemoveElement
      <3> QED BY <3>2
    <2>3. s \ {end[s]} \in T
      BY <1>2, <2>2
    <2> QED BY <2>1, <2>3
  <1>3. Nat \subseteq U
    <2> HIDE DEF U
    <2> QED BY <1>1, <1>2, Stepwise
  <1> QED BY <1>0, <1>3

LEMMA SetFoldExists ==
  ASSUME NEW S, IsFiniteSet(S), NEW end, \A s \in SUBSET S : s # {} => end[s] \in s,
         NEW F, NEW a
  PROVE  \E g : IsSetFold(g, S, end, F, a)
  <1> DEFINE P(n) == \E g : g = [s \in {x \in SUBSET S : Cardinality(x) <= n} |->
                                   IF s = {} THEN a ELSE F[end[s]][g[s \ {end[s]}]]]
             T == {n \in Nat : P(n)}
  <1>0. \A s \in SUBSET S : IsFiniteSet(s) /\ Cardinality(s) \in Nat
    BY FS_Subset, FS_CardinalityType
  <1>1. 0 \in T
    <2> DEFINE D == {x \in SUBSET S : Cardinality(x) <= 0}
               g == [s \in D |-> a]
    <2>1. \A s \in D : s = {}
      BY <1>0, FS_EmptySet
    <2>2. g = [s \in D |-> IF s = {} THEN a ELSE F[end[s]][g[s \ {end[s]}]]]
      BY <2>1
    <2> QED BY <2>2
  <1>2. ASSUME NEW n \in Nat, n \in T PROVE n + 1 \in T
    <2> DEFINE D(m) == {x \in SUBSET S : Cardinality(x) <= m}
    <2>1. PICK g : g = [s \in D(n) |-> IF s = {} THEN a ELSE F[end[s]][g[s \ {end[s]}]]]
      BY <1>2
    <2> DEFINE h == [s \in D(n + 1) |-> IF s \in D(n) THEN g[s] ELSE F[end[s]][g[s \ {end[s]}]]]
    <2>2. ASSUME NEW s \in D(n + 1), s # {}
          PROVE  /\ s \ {end[s]} \in D(n)
                 /\ h[s \ {end[s]}] = g[s \ {end[s]}]
      <3>1. Cardinality(s \ {end[s]}) = Cardinality(s) - 1
        BY <1>0, <2>2, FS_RemoveElement
      <3>2. Cardinality(s \ {end[s]}) <= n
        BY <1>0, <3>1
      <3>3. s \ {end[s]} \in D(n) /\ s \ {end[s]} \in D(n + 1)
        BY <1>0, <3>2
      <3> QED BY <3>3
    <2>3. \A s \in D(n) : g[s] = IF s = {} THEN a ELSE F[end[s]][g[s \ {end[s]}]]
      BY <2>1
    <2>4. {} \in D(n)
      BY FS_EmptySet
    <2>5. ASSUME NEW s \in D(n + 1)
          PROVE  h[s] = IF s = {} THEN a ELSE F[end[s]][h[s \ {end[s]}]]
      <3>1. CASE s = {}
        BY <3>1, <2>3, <2>4
      <3>2. CASE s # {} /\ s \in D(n)
        <4>1. h[s] = g[s] /\ g[s] = F[end[s]][g[s \ {end[s]}]]
          BY <3>2, <2>3
        <4> HIDE DEF h
        <4> QED BY <3>2, <4>1, <2>2
      <3>3. CASE s # {} /\ s \notin D(n)
        <4>1. h[s] = F[end[s]][g[s \ {end[s]}]]
          BY <3>3
        <4> HIDE DEF h, D
        <4> QED BY <3>3, <4>1, <2>2
      <3> QED BY <3>1, <3>2, <3>3
    <2>6. h = [s \in D(n + 1) |-> h[s]]
      OBVIOUS
    <2>7. h = [s \in D(n + 1) |-> IF s = {} THEN a ELSE F[end[s]][h[s \ {end[s]}]]]
      <3> HIDE DEF h, D
      <3> QED BY <2>5, <2>6
    <2>8. P(n + 1)
      <3> HIDE DEF h
      <3> QED BY <2>7
    <2> HIDE DEF P
    <2> QED BY <2>8
  <1>3. Nat \subseteq T
    <2> HIDE DEF T
    <2> QED BY <1>1, <1>2, Stepwise
  <1>4. Cardinality(S) \in T
    BY <1>0, <1>3
  <1>5. {x \in SUBSET S : Cardinality(x) <= Cardinality(S)} = SUBSET S
    BY FS_Subset, <1>0
  <1> QED BY <1>4, <1>5 DEF IsSetFold

(* A fold that begins in the first set of a family and whose steps lead    *)
(* from one to the next stays in the family.                               *)
LEMMA SetFoldStays ==
  ASSUME NEW S, IsFiniteSet(S), NEW end, \A s \in SUBSET S : s # {} => end[s] \in s,
         NEW W, NEW h, h[{}] \in W[{}],
         \A s \in SUBSET S : s # {} /\ h[s \ {end[s]}] \in W[s \ {end[s]}] => h[s] \in W[s]
  PROVE  \A s \in SUBSET S : h[s] \in W[s]
  <1> DEFINE T == {s \in SUBSET S : h[s] \in W[s]}
  <1>1. {} \in T
    OBVIOUS
  <1>2. ASSUME NEW s \in SUBSET S, s # {}, s \ {end[s]} \in T PROVE s \in T
    BY <1>2
  <1>3. SUBSET S \subseteq T
    <2> HIDE DEF T
    <2> QED BY <1>1, <1>2, SubsetInduction
  <1> QED BY <1>3

(* There is such a fold, in the family throughout.                         *)
LEMMA SetFoldMeets ==
  ASSUME NEW S, IsFiniteSet(S), NEW end, \A s \in SUBSET S : s # {} => end[s] \in s,
         NEW W, NEW F, NEW a, a \in W[{}],
         \A s \in SUBSET S : s # {} => \A w \in W[s \ {end[s]}] : F[end[s]][w] \in W[s]
  PROVE  \E g : IsSetFold(g, S, end, F, a) /\ \A s \in SUBSET S : g[s] \in W[s]
  <1>1. PICK g : IsSetFold(g, S, end, F, a)
    BY SetFoldExists
  <1>2. \A s \in SUBSET S : g[s] = IF s = {} THEN a ELSE F[end[s]][g[s \ {end[s]}]]
    BY <1>1 DEF IsSetFold
  <1>3. g[{}] \in W[{}]
    BY <1>2
  <1>4. ASSUME NEW s \in SUBSET S, s # {}, g[s \ {end[s]}] \in W[s \ {end[s]}] PROVE g[s] \in W[s]
    BY <1>2, <1>4
  <1>5. \A s \in SUBSET S : g[s] \in W[s]
    BY <1>3, <1>4, SetFoldStays
  <1> QED BY <1>1, <1>5

(* The places of a sequence, and the last of some of them.                 *)
LastPlace(n) == [s \in SUBSET (1..n) |-> Max(s)]

LEMMA LastPlaceIsOne ==
  ASSUME NEW n \in Nat
  PROVE  /\ IsFiniteSet(1..n)
         /\ \A s \in SUBSET (1..n) : s # {} => LastPlace(n)[s] = Max(s) /\ Max(s) \in s
  <1> SUFFICES ASSUME NEW s \in SUBSET (1..n), s # {} PROVE Max(s) \in s
    BY FS_Interval DEF LastPlace
  <1> DEFINE D == {n - i : i \in s}
  <1>1. D \in SUBSET Nat /\ D # {}
    OBVIOUS
  <1>2. PICK d \in D : \A e \in D : d <= e
    BY <1>1, LeastNatural
  <1>3. n - d \in s /\ \A i \in s : n - d >= i
    <2>1. PICK i \in s : d = n - i
      OBVIOUS
    <2>2. ASSUME NEW k \in s PROVE n - d >= k
      <3>1. d <= n - k
        BY <1>2
      <3> QED BY <3>1, <2>1
    <2> QED BY <2>1, <2>2
  <1>4. \E x \in s : \A y \in s : x >= y
    BY <1>3
  <1> QED BY <1>4 DEF Max

(* Some of the elements of a sequence, each where it was.                  *)
LEMMA OnlyKeeps ==
  ASSUME NEW T, NEW seq \in Seq(T), NEW S
  PROVE  /\ Only(seq, S) \in Seq(T)
         /\ Range(Only(seq, S)) = Range(seq) \cap S
         /\ IsInjective(seq) => IsInjective(Only(seq, S))
  <1> DEFINE n == Len(seq)
             end == LastPlace(n)
             Of(s) == {seq[i] : i \in s} \cap S
             Some(s) == {q \in Seq(T) : Range(q) = Of(s) /\ (IsInjective(seq) => IsInjective(q))}
             W == [s \in SUBSET (1..n) |-> Some(s)]
             step(i, q) == IF seq[i] \in S THEN Append(q, seq[i]) ELSE q
             F == [i \in 1..n |-> [q \in Seq(T) |-> step(i, q)]]
             IsIter(g) == g = [s \in SUBSET DOMAIN seq |->
                                 IF s = {} THEN <<>> ELSE step(Max(s), g[s \ {Max(s)}])]
             iter == CHOOSE g : IsIter(g)
  <1>0. n \in Nat /\ DOMAIN seq = 1..n /\ IsFiniteSet(1..n)
        /\ \A s \in SUBSET (1..n) : s # {} => end[s] = Max(s) /\ Max(s) \in s
    BY LastPlaceIsOne
  <1>1. <<>> \in W[{}]
    BY DEF Range, IsInjective
  <1>2. ASSUME NEW s \in SUBSET (1..n), s # {}, NEW q \in W[s \ {Max(s)}]
        PROVE  step(Max(s), q) \in W[s]
    <2> DEFINE i == Max(s)
               x == seq[i]
    <2>1. i \in s /\ i \in 1..n /\ x \in T
      BY <1>0, <1>2, ElementOfSeq
    <2>2. q \in Seq(T) /\ Range(q) = Of(s \ {i}) /\ (IsInjective(seq) => IsInjective(q))
      <3>1. s \ {i} \in SUBSET (1..n) /\ q \in W[s \ {i}]
        OBVIOUS
      <3>2. q \in Some(s \ {i})
        <4> HIDE DEF Some, n, i
        <4> QED BY <3>1
      <3> HIDE DEF Of, n, i, W
      <3> QED BY <3>2
    <2>3. Of(s) = IF x \in S THEN Of(s \ {i}) \cup {x} ELSE Of(s \ {i})
      BY <2>1
    <2>4. IsInjective(seq) => x \notin Of(s \ {i})
      BY <1>0, <2>1 DEF IsInjective
    <2>5. CASE x \in S
      <3>1. /\ Append(q, x) \in Seq(T)
            /\ DOMAIN Append(q, x) = 1..(Len(q) + 1) /\ DOMAIN q = 1..Len(q) /\ Len(q) \in Nat
            /\ \A k \in 1..Len(q) : Append(q, x)[k] = q[k]
            /\ Append(q, x)[Len(q) + 1] = x
        BY <2>1, <2>2, AppendProperties
      <3> HIDE DEF x
      <3>2. Range(Append(q, x)) = Range(q) \cup {x}
        BY <3>1 DEF Range
      <3>3. IsInjective(seq) => IsInjective(Append(q, x))
        <4> SUFFICES ASSUME IsInjective(seq),
                            NEW a \in 1..(Len(q) + 1), NEW b \in 1..(Len(q) + 1),
                            Append(q, x)[a] = Append(q, x)[b]
                     PROVE  a = b
          BY <3>1 DEF IsInjective
        <4>1. \A k \in 1..Len(q) : q[k] # x
          BY <2>2, <2>4, <3>1 DEF Range
        <4>2. \A k, l \in 1..Len(q) : q[k] = q[l] => k = l
          BY <2>2, <3>1 DEF IsInjective
        <4> QED BY <3>1, <4>1, <4>2
      <3>4. Range(Append(q, x)) = Of(s)
        BY <3>2, <2>2, <2>3, <2>5
      <3> HIDE DEF Of
      <3> QED BY <3>1, <3>3, <3>4, <2>5 DEF x
    <2>6. CASE x \notin S
      <3> HIDE DEF Of
      <3> QED BY <2>2, <2>3, <2>6
    <2> QED BY <2>5, <2>6
  <1>3. ASSUME NEW s \in SUBSET (1..n), s # {}, NEW q \in W[s \ {end[s]}]
        PROVE  end[s] \in s /\ F[end[s]][q] = step(end[s], q) /\ step(end[s], q) \in W[s]
    <2>1. end[s] = Max(s) /\ Max(s) \in 1..n /\ Max(s) \in s
      BY <1>0, <1>3
    <2>2. q \in Seq(T)
      BY <1>0
    <2> HIDE DEF W, end, step
    <2> QED BY <2>1, <2>2, <1>2, <1>3
  <1>4. PICK g : IsSetFold(g, 1..n, end, F, <<>>) /\ \A s \in SUBSET (1..n) : g[s] \in W[s]
    <2>1. \A s \in SUBSET (1..n) : s # {} => end[s] \in s
      BY <1>0
    <2>2. \A s \in SUBSET (1..n) : s # {} => \A q \in W[s \ {end[s]}] : F[end[s]][q] \in W[s]
      <3> HIDE DEF W, F, end, n, step
      <3> QED BY <1>3
    <2> HIDE DEF W, F, end, n
    <2> QED BY <1>0, <1>1, <2>1, <2>2, SetFoldMeets
  <1>5. IsIter(g)
    <2>1. ASSUME NEW s \in SUBSET (1..n)
          PROVE  (IF s = {} THEN <<>> ELSE F[end[s]][g[s \ {end[s]}]])
                   = IF s = {} THEN <<>> ELSE step(Max(s), g[s \ {Max(s)}])
      <3> HIDE DEF W, F, end, step
      <3> QED BY <1>0, <1>3, <1>4
    <2> HIDE DEF F, end, step
    <2> QED BY <1>0, <1>4, <2>1 DEF IsSetFold
  <1>6. IsIter(iter)
    <2> HIDE DEF IsIter
    <2> QED BY <1>5
  <1>7. \A s \in SUBSET (1..n) : iter[s] = IF s = {} THEN <<>> ELSE step(Max(s), iter[s \ {Max(s)}])
    <2> HIDE DEF iter, step
    <2> QED BY <1>0, <1>6
  <1>8. \A s \in SUBSET (1..n) : iter[s] \in W[s]
    <2>1. \A s \in SUBSET (1..n) : s # {} => end[s] \in s
      BY <1>0
    <2>2. iter[{}] \in W[{}]
      <3>1. iter[{}] = <<>>
        <4> HIDE DEF iter, step, n
        <4> QED BY <1>7
      <3> HIDE DEF iter, W
      <3> QED BY <1>1, <3>1
    <2>3. ASSUME NEW s \in SUBSET (1..n), s # {}, iter[s \ {end[s]}] \in W[s \ {end[s]}]
          PROVE  iter[s] \in W[s]
      <3>1. end[s] = Max(s) /\ iter[s] = step(Max(s), iter[s \ {Max(s)}])
        <4> HIDE DEF iter, step, n, end
        <4> QED BY <1>0, <1>7, <2>3
      <3> HIDE DEF iter, W, step, end, n
      <3> QED BY <1>2, <2>3, <3>1
    <2> HIDE DEF iter, W, end, n
    <2> QED BY <1>0, <2>1, <2>2, <2>3, SetFoldStays
  <1>9. Only(seq, S) = iter[1..n]
    BY <1>0 DEF Only, FoldLeft, MapThenFoldSet
  <1>10. Of(1..n) = Range(seq) \cap S
    BY <1>0 DEF Range
  <1>11. /\ iter[1..n] \in Seq(T) /\ Range(iter[1..n]) = Of(1..n)
         /\ IsInjective(seq) => IsInjective(iter[1..n])
    <2>1. iter[1..n] \in Some(1..n)
      <3> HIDE DEF iter, Some, n
      <3> QED BY <1>0, <1>8
    <2> HIDE DEF iter, Of, n
    <2> QED BY <2>1
  <1> HIDE DEF iter, Of, n
  <1> QED BY <1>9, <1>10, <1>11
-----------------------------------------------------------------------------
(* Sequences                                                               *)

(* A function on the first n places is a sequence.                         *)
LEMMA PlacesMakeASequence ==
  ASSUME NEW T, NEW n \in Nat, NEW f \in [1..n -> T]
  PROVE  f \in Seq(T) /\ Len(f) = n /\ DOMAIN f = 1..n
  <1>1. f \in Seq(T)
    BY SeqDef
  <1>2. Len(f) \in Nat /\ 1..n = 1..Len(f)
    BY <1>1, LenProperties
  <1>3. Len(f) = n
    <2>1. \A k \in Nat : Cardinality(1..k) = k
      BY FS_Interval
    <2>2. Cardinality(1..n) = n /\ Cardinality(1..Len(f)) = Len(f)
      BY <1>2, <2>1
    <2> QED BY <1>2, <2>2
  <1> QED BY <1>1, <1>3

(* A sequence behind another.                                              *)
LEMMA CatKeeps ==
  ASSUME NEW T, NEW s \in Seq(T), NEW t \in Seq(T)
  PROVE  /\ s \o t \in Seq(T)
         /\ Range(s \o t) = Range(s) \cup Range(t)
         /\ IsInjective(s) /\ IsInjective(t) /\ Range(s) \cap Range(t) = {} => IsInjective(s \o t)
  <1>1. s \o t \in Seq(T) /\ Range(s \o t) = Range(s) \cup Range(t)
    BY ConcatProperties, RangeConcatenation
  <1> SUFFICES ASSUME IsInjective(s), IsInjective(t), Range(s) \cap Range(t) = {},
                      NEW i \in DOMAIN (s \o t), NEW j \in DOMAIN (s \o t), (s \o t)[i] = (s \o t)[j]
               PROVE  i = j
    BY <1>1 DEF IsInjective
  <1>2. /\ Len(s) \in Nat /\ Len(t) \in Nat /\ DOMAIN s = 1..Len(s) /\ DOMAIN t = 1..Len(t)
        /\ DOMAIN (s \o t) = 1..(Len(s) + Len(t))
        /\ \A k \in 1..(Len(s) + Len(t)) : (s \o t)[k] = IF k <= Len(s) THEN s[k] ELSE t[k - Len(s)]
    BY <1>1, ConcatProperties, LenProperties
  <1>3. \A k \in 1..(Len(s) + Len(t)) : IF k <= Len(s) THEN k \in DOMAIN s ELSE k - Len(s) \in DOMAIN t
    BY <1>2
  <1>4. CASE i <= Len(s) /\ j <= Len(s)
    BY <1>2, <1>3, <1>4 DEF IsInjective
  <1>5. CASE i > Len(s) /\ j > Len(s)
    <2>1. i - Len(s) \in DOMAIN t /\ j - Len(s) \in DOMAIN t /\ t[i - Len(s)] = t[j - Len(s)]
      BY <1>2, <1>3, <1>5
    <2>2. i - Len(s) = j - Len(s)
      BY <2>1 DEF IsInjective
    <2> QED BY <1>2, <2>2
  <1>6. ASSUME NEW a \in DOMAIN s, NEW b \in DOMAIN t, s[a] = t[b] PROVE FALSE
    BY <1>6 DEF Range
  <1>7. CASE i <= Len(s) /\ j > Len(s)
    BY <1>2, <1>3, <1>6, <1>7
  <1>8. CASE i > Len(s) /\ j <= Len(s)
    BY <1>2, <1>3, <1>6, <1>8
  <1> QED BY <1>2, <1>4, <1>5, <1>7, <1>8

(* A stretch of a sequence.                                                *)
LEMMA StretchKeeps ==
  ASSUME NEW T, NEW s \in Seq(T), NEW a \in Nat \ {0}, NEW b \in Nat, b <= Len(s)
  PROVE  LET u == SubSeq(s, a, b)
         IN  /\ u \in Seq(T)
             /\ Len(u) = IF a <= b THEN b - a + 1 ELSE 0
             /\ Range(u) = {s[i] : i \in a..b}
             /\ Range(u) \subseteq Range(s)
             /\ IsInjective(s) => IsInjective(u)
  <1> DEFINE u == SubSeq(s, a, b)
             m == IF a <= b THEN b - a + 1 ELSE 0
  <1>1. Len(s) \in Nat /\ DOMAIN s = 1..Len(s) /\ \A i \in a..b : i \in 1..Len(s) /\ s[i] \in T
    BY LenProperties, ElementOfSeq
  <1>2. u \in Seq(T) /\ Len(u) = m /\ \A i \in 1..(b - a + 1) : u[i] = s[a + i - 1]
    BY <1>1, SubSeqProperties
  <1>3. m \in Nat /\ DOMAIN u = 1..m /\ \A i \in 1..m : u[i] = s[a + i - 1] /\ a + i - 1 \in a..b
    BY <1>2, LenProperties
  <1>4. \A i \in a..b : i - a + 1 \in 1..m /\ u[i - a + 1] = s[i]
    <2> SUFFICES ASSUME NEW i \in a..b PROVE i - a + 1 \in 1..m /\ u[i - a + 1] = s[i]
      OBVIOUS
    <2>1. i - a + 1 \in 1..m /\ a + (i - a + 1) - 1 = i
      OBVIOUS
    <2> HIDE DEF u, m
    <2> QED BY <1>3, <2>1
  <1> HIDE DEF u, m
  <1>5. Range(u) = {s[i] : i \in a..b}
    <2>1. ASSUME NEW y \in Range(u) PROVE y \in {s[i] : i \in a..b}
      <3>1. PICK k \in 1..m : y = u[k]
        BY <1>3 DEF Range
      <3>2. y = s[a + k - 1] /\ a + k - 1 \in a..b
        BY <1>3, <3>1
      <3> QED BY <3>2
    <2>2. ASSUME NEW i \in a..b PROVE s[i] \in Range(u)
      BY <1>3, <1>4 DEF Range
    <2> QED BY <2>1, <2>2
  <1>6. Range(u) \subseteq Range(s)
    BY <1>1, <1>5 DEF Range
  <1>7. IsInjective(s) => IsInjective(u)
    <2> SUFFICES ASSUME IsInjective(s), NEW i \in 1..m, NEW j \in 1..m, u[i] = u[j] PROVE i = j
      BY <1>3 DEF IsInjective
    <2>1. a + i - 1 \in 1..Len(s) /\ a + j - 1 \in 1..Len(s) /\ s[a + i - 1] = s[a + j - 1]
      BY <1>1, <1>3
    <2>2. a + i - 1 = a + j - 1
      BY <1>1, <2>1 DEF IsInjective
    <2> QED BY <1>3, <2>2
  <1> QED BY <1>2, <1>5, <1>6, <1>7 DEF u, m

(* A sequence read from its end.                                           *)
LEMMA ReverseKeeps ==
  ASSUME NEW T, NEW s \in Seq(T)
  PROVE  /\ Reverse(s) \in Seq(T)
         /\ Len(Reverse(s)) = Len(s)
         /\ Range(Reverse(s)) = Range(s)
         /\ IsInjective(s) => IsInjective(Reverse(s))
  <1> DEFINE n == Len(s)
             u == [i \in 1..n |-> s[(n - i) + 1]]
  <1>1. n \in Nat /\ DOMAIN s = 1..n /\ \A i \in 1..n : s[i] \in T
    BY LenProperties, ElementOfSeq
  <1>2. \A i \in 1..n : (n - i) + 1 \in 1..n /\ (n - ((n - i) + 1)) + 1 = i
    BY <1>1
  <1> HIDE DEF n
  <1>3. u \in [1..n -> T]
    BY <1>1, <1>2
  <1>4. u \in Seq(T) /\ Len(u) = n /\ DOMAIN u = 1..n
    BY <1>1, <1>3, PlacesMakeASequence
  <1>5. Range(u) = Range(s)
    BY <1>1, <1>2 DEF Range
  <1>6. IsInjective(s) => IsInjective(u)
    BY <1>1, <1>2 DEF IsInjective
  <1>7. Reverse(s) = u
    BY DEF Reverse, n
  <1> HIDE DEF u
  <1> QED BY <1>4, <1>5, <1>6, <1>7 DEF n

(* The first of a sequence is one of it, and the empty sequence has none.  *)
LEMMA HeadIsOne ==
  ASSUME NEW T, NEW s \in Seq(T)
  PROVE  /\ s # <<>> => Head(s) \in Range(s) /\ Head(s) = s[1]
         /\ s = <<>> <=> Range(s) = {}
         /\ Range(s) \subseteq T
  <1>1. Len(s) \in Nat /\ DOMAIN s = 1..Len(s) /\ (s # <<>> => Len(s) # 0)
    BY LenProperties, EmptySeq
  <1>2. s # <<>> => s[1] \in Range(s)
    BY <1>1 DEF Range
  <1>3. s # <<>> => Head(s) = s[1]
    OBVIOUS
  <1>4. s = <<>> => Range(s) = {}
    BY DEF Range
  <1> QED BY <1>2, <1>3, <1>4, RangeOfSeq

(* A sequence without repetition has as many elements as places.           *)
LEMMA PlacesCount ==
  ASSUME NEW T, NEW s \in Seq(T), IsInjective(s)
  PROVE  IsFiniteSet(Range(s)) /\ Cardinality(Range(s)) = Len(s) /\ Len(s) \in Nat
  <1>1. Len(s) \in Nat /\ DOMAIN s = 1..Len(s) /\ s \in [1..Len(s) -> T]
    BY LenProperties
  <1>2. s \in [1..Len(s) -> Range(s)] /\ \A y \in Range(s) : \E i \in 1..Len(s) : s[i] = y
    BY <1>1 DEF Range
  <1>3. s \in Bijection(1..Len(s), Range(s))
    BY <1>1, <1>2 DEF Bijection, Injection, Surjection, IsInjective
  <1>4. ExistsBijection(1..Len(s), Range(s))
    BY <1>3 DEF ExistsBijection
  <1>5. IsFiniteSet(1..Len(s)) /\ Cardinality(1..Len(s)) = Len(s)
    BY <1>1, FS_Interval
  <1> QED BY <1>1, <1>4, <1>5, FS_Bijection

(* The first n of a sequence, or all of them.                              *)
LEMMA FirstKeeps ==
  ASSUME NEW T, NEW s \in Seq(T), NEW n \in Nat
  PROVE  /\ FirstOf(n, s) \in Seq(T)
         /\ Len(FirstOf(n, s)) <= n
         /\ Range(FirstOf(n, s)) \subseteq Range(s)
         /\ IsInjective(s) => IsInjective(FirstOf(n, s))
  <1> DEFINE k == IF Len(s) < n THEN Len(s) ELSE n
  <1>1. Len(s) \in Nat /\ k \in Nat /\ k <= Len(s) /\ k <= n
    BY LenProperties
  <1>2. FirstOf(n, s) = SubSeq(s, 1, k)
    BY DEF FirstOf
  <1> HIDE DEF k
  <1>3. LET u == SubSeq(s, 1, k)
        IN  u \in Seq(T) /\ Len(u) = (IF 1 <= k THEN k - 1 + 1 ELSE 0)
            /\ Range(u) \subseteq Range(s) /\ (IsInjective(s) => IsInjective(u))
    BY <1>1, StretchKeeps
  <1> QED BY <1>1, <1>2, <1>3

(* A sequence cut in two.                                                  *)
LEMMA CutKeeps ==
  ASSUME NEW T, NEW s \in Seq(T), NEW k \in Nat, k <= Len(s), IsInjective(s)
  PROVE  LET front == SubSeq(s, 1, k)
             back  == SubSeq(s, k + 1, Len(s))
         IN  /\ front \in Seq(T) /\ back \in Seq(T) /\ Len(back) = Len(s) - k
             /\ IsInjective(front) /\ IsInjective(back)
             /\ Range(front) \cup Range(back) = Range(s)
             /\ Range(front) \cap Range(back) = {}
  <1> DEFINE front == SubSeq(s, 1, k)
             back  == SubSeq(s, k + 1, Len(s))
  <1>1. Len(s) \in Nat /\ DOMAIN s = 1..Len(s) /\ k + 1 \in Nat \ {0} /\ 1 \in Nat \ {0}
    BY LenProperties
  <1>2. front \in Seq(T) /\ IsInjective(front) /\ Range(front) = {s[i] : i \in 1..k}
    BY <1>1, StretchKeeps
  <1>3. /\ back \in Seq(T) /\ IsInjective(back) /\ Range(back) = {s[i] : i \in (k + 1)..Len(s)}
        /\ Len(back) = IF k + 1 <= Len(s) THEN Len(s) - (k + 1) + 1 ELSE 0
    BY <1>1, StretchKeeps
  <1> HIDE DEF front, back
  <1>4. Len(back) = Len(s) - k
    <2> DEFINE n == Len(s)
    <2>1. n \in Nat /\ k <= n /\ Len(back) = IF k + 1 <= n THEN n - (k + 1) + 1 ELSE 0
      BY <1>1, <1>3
    <2> HIDE DEF n
    <2>2. Len(back) = n - k
      BY <2>1
    <2> QED BY <2>2 DEF n
  <1>5. DOMAIN s = (1..k) \cup ((k + 1)..Len(s)) /\ (1..k) \cap ((k + 1)..Len(s)) = {}
    BY <1>1
  <1>6. Range(front) \cup Range(back) = Range(s)
    BY <1>2, <1>3, <1>5 DEF Range
  <1>7. ASSUME NEW i \in 1..k, NEW j \in (k + 1)..Len(s), s[i] = s[j] PROVE FALSE
    BY <1>5, <1>7 DEF IsInjective
  <1>8. Range(front) \cap Range(back) = {}
    BY <1>2, <1>3, <1>7
  <1> QED BY <1>2, <1>3, <1>4, <1>6, <1>8 DEF front, back

-----------------------------------------------------------------------------
(* Types                                                                   *)

StateNames == {"unknown", "building", "ready", "empty", "failed"}
Pieces == [edits : Nat, solid : BOOLEAN, clear : BOOLEAN]
Contents == UNION {[S -> Pieces] : S \in SUBSET Leaves}
NodeRecs == [state : StateNames, building : BOOLEAN, dirty : BOOLEAN, refused : BOOLEAN, age : 0..Old]
ShellRecs == [state : StateNames, dirty : BOOLEAN, built : BOOLEAN]

PageRecs == [of : Owners, content : Contents \cup {None}]
Pools == [up : BOOLEAN, free : Seq(1..Pages), owns : [Owners -> Seq(1..Pages)],
          shows : [1..Pages -> PageRecs \cup {None}]]

-----------------------------------------------------------------------------
(* The pool                                                                *)

(* Each page is free or has one owner, and what a chunk owns shows it.     *)
Sound(p) ==
  /\ IsInjective(p.free)
  /\ \A o \in Owners : IsInjective(p.owns[o]) /\ Range(p.free) \cap Range(p.owns[o]) = {}
  /\ \A o, q \in Owners : o # q => Range(p.owns[o]) \cap Range(p.owns[q]) = {}
  /\ p.up => 1..Pages = Range(p.free) \cup UNION {Range(p.owns[o]) : o \in Owners}
  /\ \A c \in TreeChunks \cup ShellChunks : \A x \in Range(p.owns[c]) : p.shows[x] \in PageRecs /\ p.shows[x].of = c

(* q is p but for what o owns.                                             *)
Keeps(p, q, o) ==
  /\ q.up = p.up
  /\ \A w \in Owners \ {o} : /\ q.owns[w] = p.owns[w]
                             /\ \A x \in Range(p.owns[w]) : q.shows[x] = p.shows[x]

LEMMA PoolFields ==
  ASSUME NEW p \in Pools
  PROVE  p = [up |-> p.up, free |-> p.free, owns |-> p.owns, shows |-> p.shows]
  BY DEF Pools

(* What an owner gives back is free, and nothing else changes.             *)
LEMMA ReleasedKeeps ==
  ASSUME NEW p \in Pools, Sound(p), NEW o \in Owners
  PROVE  LET q == Released(p, o)
         IN  /\ q \in Pools /\ Sound(q) /\ Keeps(p, q, o)
             /\ q.owns[o] = IF p.up THEN <<>> ELSE p.owns[o]
             /\ q.shows = p.shows
  <1> DEFINE q == Released(p, o)
             own == p.owns[o]
             back == Only(own, Range(own) \ Range(p.free))
  <1>1. CASE ~p.up
    <2>1. q = p
      BY <1>1 DEF Released
    <2> QED BY <1>1, <2>1 DEF Keeps
  <1>2. CASE p.up
    <2>1. p.free \in Seq(1..Pages) /\ own \in Seq(1..Pages) /\ IsInjective(p.free) /\ IsInjective(own)
          /\ Range(p.free) \cap Range(own) = {}
      BY DEF Pools, Sound
    <2>2. back \in Seq(1..Pages) /\ IsInjective(back) /\ Range(back) = Range(own)
      <3>1. Range(own) \cap (Range(own) \ Range(p.free)) = Range(own)
        BY <2>1
      <3> HIDE DEF own
      <3> QED BY <2>1, <3>1, OnlyKeeps
    <2>3. q = [p EXCEPT !.owns[o] = <<>>, !.free = @ \o back]
      BY <1>2 DEF Released
    <2> HIDE DEF back
    <2>4. /\ q.up /\ q.free = p.free \o back /\ q.shows = p.shows
          /\ q.owns = [p.owns EXCEPT ![o] = <<>>]
          /\ q = [up |-> q.up, free |-> q.free, owns |-> q.owns, shows |-> q.shows]
      BY <1>2, <2>3 DEF Pools
    <2>5. q.free \in Seq(1..Pages) /\ Range(q.free) = Range(p.free) \cup Range(own) /\ IsInjective(q.free)
      BY <2>1, <2>2, <2>4, CatKeeps
    <2>6. <<>> \in Seq(1..Pages) /\ Range(<<>>) = {} /\ IsInjective(<<>>)
      BY DEF Range, IsInjective
    <2>7. q.owns[o] = <<>> /\ \A w \in Owners \ {o} : q.owns[w] = p.owns[w]
      BY <2>4 DEF Pools
    <2> HIDE DEF q
    <2>8. q \in Pools
      <3>1. q.owns \in [Owners -> Seq(1..Pages)]
        BY <2>4, <2>6 DEF Pools
      <3> QED BY <2>4, <2>5, <3>1, <1>2 DEF Pools
    <2>9. Sound(q)
      <3>1. \A w \in Owners : IsInjective(q.owns[w]) /\ Range(q.free) \cap Range(q.owns[w]) = {}
        BY <2>1, <2>5, <2>6, <2>7 DEF Sound
      <3>2. \A v, w \in Owners : v # w => Range(q.owns[v]) \cap Range(q.owns[w]) = {}
        BY <2>6, <2>7 DEF Sound
      <3>3. 1..Pages = Range(q.free) \cup UNION {Range(q.owns[w]) : w \in Owners}
        <4>1. 1..Pages = Range(p.free) \cup UNION {Range(p.owns[w]) : w \in Owners}
          BY <1>2 DEF Sound
        <4>2. \A w \in Owners : Range(p.owns[w]) = IF w = o THEN Range(own) ELSE Range(q.owns[w])
          BY <2>7
        <4>3. \A w \in Owners : Range(q.owns[w]) = IF w = o THEN {} ELSE Range(p.owns[w])
          BY <2>6, <2>7
        <4> HIDE DEF own
        <4> QED BY <4>1, <4>2, <4>3, <2>5
      <3>4. \A c \in TreeChunks \cup ShellChunks : \A x \in Range(q.owns[c]) :
              q.shows[x] \in PageRecs /\ q.shows[x].of = c
        <4> SUFFICES ASSUME NEW c \in TreeChunks \cup ShellChunks, NEW x \in Range(q.owns[c])
                     PROVE  q.shows[x] \in PageRecs /\ q.shows[x].of = c
          OBVIOUS
        <4>1. c \in Owners /\ q.owns[c] = p.owns[c]
          BY <2>6, <2>7 DEF Owners
        <4> QED BY <2>4, <4>1 DEF Sound
      <3> QED BY <2>5, <3>1, <3>2, <3>3, <3>4 DEF Sound
    <2>10. Keeps(p, q, o)
      BY <2>4, <2>7, <1>2 DEF Keeps
    <2> QED BY <1>2, <2>4, <2>7, <2>8, <2>9, <2>10 DEF q
  <1> QED BY <1>1, <1>2

(* What an owner takes from the stack shows it, and what it had is free.   *)
LEMMA ReplacedKeeps ==
  ASSUME NEW p \in Pools, Sound(p), NEW o \in Owners, NEW n \in Nat, Funds(p, n),
         NEW content \in Contents \cup {None}
  PROVE  LET q == Replaced(p, o, n, content)
         IN  /\ q \in Pools /\ Sound(q) /\ Keeps(p, q, o)
             /\ n # 0 => q.owns[o] # <<>>
             /\ \A x \in Range(q.owns[o]) : q.shows[x] = [of |-> o, content |-> content]
  <1> DEFINE q == Replaced(p, o, n, content)
             own == p.owns[o]
             kept == Len(p.free) - n
             front == SubSeq(p.free, 1, kept)
             rest == SubSeq(p.free, kept + 1, Len(p.free))
             taken == Reverse(rest)
             rec == [of |-> o, content |-> content]
             shows == [x \in 1..Pages |-> IF x \in Range(taken) THEN rec ELSE p.shows[x]]
             back == Only(own, Range(own) \ Range(front))
  <1>0. /\ p.up /\ p.free \in Seq(1..Pages) /\ own \in Seq(1..Pages) /\ IsInjective(p.free) /\ IsInjective(own)
        /\ Range(p.free) \cap Range(own) = {} /\ p.shows \in [1..Pages -> PageRecs \cup {None}]
        /\ p.owns \in [Owners -> Seq(1..Pages)]
        /\ p = [up |-> p.up, free |-> p.free, owns |-> p.owns, shows |-> p.shows]
    BY DEF Pools, Sound, Funds
  <1>1. Len(p.free) \in Nat /\ kept \in Nat /\ kept <= Len(p.free) /\ Len(p.free) - kept = n
    BY <1>0, LenProperties DEF Funds
  <1>2. /\ front \in Seq(1..Pages) /\ rest \in Seq(1..Pages) /\ Len(rest) = n
        /\ IsInjective(front) /\ IsInjective(rest)
        /\ Range(front) \cup Range(rest) = Range(p.free) /\ Range(front) \cap Range(rest) = {}
    <2> HIDE DEF kept
    <2> QED BY <1>0, <1>1, CutKeeps
  <1>3. taken \in Seq(1..Pages) /\ Len(taken) = n /\ Range(taken) = Range(rest) /\ IsInjective(taken)
    BY <1>2, ReverseKeeps
  <1>4. back \in Seq(1..Pages) /\ IsInjective(back) /\ Range(back) = Range(own)
    <2>1. Range(own) \cap (Range(own) \ Range(front)) = Range(own)
      BY <1>0, <1>2
    <2> DEFINE S == Range(own) \ Range(front)
    <2>2. own \in Seq(1..Pages) /\ IsInjective(own)
      BY <1>0
    <2> HIDE DEF front, own, S, rest, taken, rec, shows, kept, q
    <2>3. /\ Only(own, S) \in Seq(1..Pages) /\ Range(Only(own, S)) = Range(own) \cap S
          /\ IsInjective(Only(own, S))
      BY <2>2, OnlyKeeps
    <2> QED BY <2>1, <2>3 DEF S
  <1>5. q = [up |-> TRUE, free |-> front \o back, owns |-> [p.owns EXCEPT ![o] = taken], shows |-> shows]
    <2> DEFINE new == [p EXCEPT !.free = SubSeq(@, 1, kept),
                                !.shows = [x \in DOMAIN @ |-> IF x \in Range(taken) THEN rec ELSE @[x]]]
    <2>1. new = [up |-> TRUE, free |-> front, owns |-> p.owns, shows |-> shows]
      <3>1. new = [p EXCEPT !.free = front, !.shows = shows]
        <4>1. DOMAIN p.shows = 1..Pages
          BY <1>0
        <4> HIDE DEF taken, kept, rec
        <4> QED BY <4>1
      <3> HIDE DEF new, front, shows
      <3> QED BY <1>0, <3>1
    <2>2. q = [Released(new, o) EXCEPT !.owns[o] = taken]
      BY DEF Replaced
    <2>3. Released(new, o) = [up |-> TRUE, free |-> front \o back, owns |-> [p.owns EXCEPT ![o] = <<>>],
                              shows |-> shows]
      <3> HIDE DEF shows, front, new
      <3> QED BY <2>1 DEF Released
    <2>4. [[p.owns EXCEPT ![o] = <<>>] EXCEPT ![o] = taken] = [p.owns EXCEPT ![o] = taken]
      <3> HIDE DEF taken
      <3> QED BY <1>0
    <2> DEFINE bare == [p.owns EXCEPT ![o] = <<>>]
    <2> DEFINE mid == [up |-> TRUE, free |-> front \o back, owns |-> bare, shows |-> shows]
    <2>5. mid \in Pools
      <3>1. bare \in [Owners -> Seq(1..Pages)]
        <4>1. <<>> \in Seq(1..Pages)
          OBVIOUS
        <4> QED BY <1>0, <4>1
      <3>2. shows \in [1..Pages -> PageRecs \cup {None}]
        <4>1. rec \in PageRecs
          BY DEF PageRecs
        <4> HIDE DEF rec
        <4> QED BY <1>0, <4>1
      <3>3. front \o back \in Seq(1..Pages)
        <4> HIDE DEF front, back
        <4> QED BY <1>2, <1>4, CatKeeps
      <3> HIDE DEF bare, shows, front, back
      <3> QED BY <3>1, <3>2, <3>3 DEF Pools
    <2>6. [mid EXCEPT !.owns[o] = taken]
            = [up |-> TRUE, free |-> front \o back, owns |-> [bare EXCEPT ![o] = taken], shows |-> shows]
      <3>1. mid.up = TRUE /\ mid.free = front \o back /\ mid.owns = bare /\ mid.shows = shows
        OBVIOUS
      <3> HIDE DEF mid, bare, shows, front, back, taken
      <3> DEFINE r == [mid EXCEPT !.owns[o] = taken]
      <3>2. /\ r \in Pools /\ r.up = mid.up /\ r.free = mid.free /\ r.shows = mid.shows
            /\ r.owns = [mid.owns EXCEPT ![o] = taken]
        BY <1>3, <2>5 DEF Pools
      <3> HIDE DEF r
      <3>3. r = [up |-> r.up, free |-> r.free, owns |-> r.owns, shows |-> r.shows]
        BY <3>2, PoolFields
      <3>4. r = [up |-> TRUE, free |-> front \o back, owns |-> [bare EXCEPT ![o] = taken], shows |-> shows]
        BY <3>1, <3>2, <3>3
      <3> QED BY <3>4 DEF r
    <2>7. Released(new, o) = mid /\ [bare EXCEPT ![o] = taken] = [p.owns EXCEPT ![o] = taken]
      BY <2>3, <2>4
    <2>8. q = [mid EXCEPT !.owns[o] = taken]
      <3> HIDE DEF mid, q, new, taken
      <3> QED BY <2>2, <2>7
    <2> HIDE DEF new, back, front, shows, taken, q, mid, bare
    <2> QED BY <2>6, <2>7, <2>8
  <1> HIDE DEF q, kept, front, rest, taken, back
  <1>6. q.up /\ q.free = front \o back /\ q.owns = [p.owns EXCEPT ![o] = taken] /\ q.shows = shows
    BY <1>5
  <1>7. /\ q.free \in Seq(1..Pages) /\ IsInjective(q.free)
        /\ Range(q.free) = Range(front) \cup Range(own)
    BY <1>0, <1>2, <1>4, <1>6, CatKeeps
  <1>8. q.owns[o] = taken /\ \A w \in Owners \ {o} : q.owns[w] = p.owns[w]
    BY <1>0, <1>6
  <1>9. rec \in PageRecs
    BY DEF PageRecs
  <1>10. /\ \A x \in Range(taken) : q.shows[x] = rec
         /\ \A x \in (1..Pages) \ Range(taken) : q.shows[x] = p.shows[x]
    <2>1. Range(taken) \subseteq 1..Pages
      BY <1>3, RangeOfSeq
    <2> HIDE DEF rec
    <2> QED BY <1>6, <2>1
  <1>11. q \in Pools
    <2>1. q.owns \in [Owners -> Seq(1..Pages)]
      BY <1>0, <1>3, <1>6
    <2>2. shows \in [1..Pages -> PageRecs \cup {None}]
      <3> HIDE DEF rec
      <3> QED BY <1>0, <1>9
    <2> QED BY <1>5, <1>6, <1>7, <2>1, <2>2 DEF Pools
  <1>12. \A w \in Owners : Range(p.owns[w]) \subseteq (1..Pages) \ Range(taken)
    <2> SUFFICES ASSUME NEW w \in Owners PROVE Range(p.owns[w]) \subseteq (1..Pages) \ Range(taken)
      OBVIOUS
    <2>1. Range(p.free) \cap Range(p.owns[w]) = {}
      BY DEF Sound
    <2>2. Range(p.owns[w]) \subseteq 1..Pages
      BY <1>0, RangeOfSeq
    <2> QED BY <1>2, <1>3, <2>1, <2>2
  <1>13. Keeps(p, q, o)
    BY <1>0, <1>6, <1>8, <1>10, <1>12 DEF Keeps
  <1>14. Sound(q)
    <2>1. \A w \in Owners \ {o} : Range(p.owns[w]) \cap Range(own) = {}
      BY DEF Sound
    <2>2. \A w \in Owners : IsInjective(q.owns[w]) /\ Range(q.free) \cap Range(q.owns[w]) = {}
      <3>1. \A w \in Owners : IsInjective(p.owns[w]) /\ Range(p.free) \cap Range(p.owns[w]) = {}
        BY DEF Sound
      <3>2. Range(q.free) \cap Range(taken) = {}
        BY <1>2, <1>3, <1>7, <1>12
      <3>3. \A w \in Owners \ {o} : Range(q.free) \cap Range(p.owns[w]) = {}
        BY <1>2, <1>7, <2>1, <3>1
      <3> QED BY <1>3, <1>8, <3>1, <3>2, <3>3
    <2>3. \A v, w \in Owners : v # w => Range(q.owns[v]) \cap Range(q.owns[w]) = {}
      <3>1. \A v, w \in Owners : v # w => Range(p.owns[v]) \cap Range(p.owns[w]) = {}
        BY DEF Sound
      <3>2. \A w \in Owners : Range(taken) \cap Range(p.owns[w]) = {}
        BY <1>12
      <3> QED BY <1>8, <3>1, <3>2
    <2>4. 1..Pages = Range(q.free) \cup UNION {Range(q.owns[w]) : w \in Owners}
      <3>1. 1..Pages = Range(p.free) \cup UNION {Range(p.owns[w]) : w \in Owners}
        BY <1>0 DEF Sound
      <3>2. \A w \in Owners : Range(q.owns[w]) = IF w = o THEN Range(taken) ELSE Range(p.owns[w])
        BY <1>8
      <3>3. Range(p.free) = Range(front) \cup Range(taken)
        BY <1>2, <1>3
      <3>4. \A w \in Owners : w = o => Range(p.owns[w]) = Range(own)
        OBVIOUS
      <3> HIDE DEF own
      <3> QED BY <1>7, <3>1, <3>2, <3>3, <3>4
    <2>5. ASSUME NEW c \in TreeChunks \cup ShellChunks, NEW x \in Range(q.owns[c])
          PROVE  q.shows[x] \in PageRecs /\ q.shows[x].of = c
      <3>1. CASE c = o
        BY <1>8, <1>9, <1>10, <2>5, <3>1
      <3>2. CASE c # o
        <4>1. c \in Owners \ {o}
          BY <3>2 DEF Owners
        <4>2. x \in Range(p.owns[c]) /\ q.shows[x] = p.shows[x]
          BY <1>8, <1>10, <1>12, <2>5, <4>1
        <4> QED BY <4>2 DEF Sound
      <3> QED BY <3>1, <3>2
    <2> QED BY <1>7, <2>2, <2>3, <2>4, <2>5 DEF Sound
  <1>15. n # 0 => taken # <<>>
    BY <1>3
  <1> QED BY <1>8, <1>10, <1>11, <1>13, <1>14, <1>15 DEF q

LEMMA SizesAdd ==
  ASSUME NEW S, NEW T, IsFiniteSet(S), IsFiniteSet(T), S \cap T = {}
  PROVE  IsFiniteSet(S \cup T) /\ Cardinality(S \cup T) = Cardinality(S) + Cardinality(T)
  <1>1. Cardinality(S) \in Nat /\ Cardinality(T) \in Nat
    BY FS_CardinalityType
  <1>2. IsFiniteSet(S \cup T) /\ Cardinality(S \cup T) = Cardinality(S) + Cardinality(T) - Cardinality({})
    BY FS_Union
  <1> QED BY <1>1, <1>2, FS_EmptySet

Sizes(f, set, S) == \A o \in S : IsFiniteSet(set[o]) /\ f[o] = Cardinality(set[o])
Apart(set, S) == \A o, q \in S : o # q => set[o] \cap set[q] = {}

(* Disjoint sets have as many elements as their sizes add up to.           *)
LEMMA TotalOfDisjoint ==
  ASSUME NEW S, IsFiniteSet(S), NEW f, DOMAIN f = S, NEW set,
         Sizes(f, set, S), Apart(set, S)
  PROVE  /\ Total(f) = Cardinality(UNION {set[o] : o \in S})
         /\ IsFiniteSet(UNION {set[o] : o \in S})
  <1> DEFINE Of(s) == UNION {set[o] : o \in s}
             end == [s \in SUBSET S |-> CHOOSE x \in s : TRUE]
             W == [s \in SUBSET S |-> {n \in {Cardinality(Of(s))} : IsFiniteSet(Of(s))}]
             F == [o \in S |-> [n \in Nat |-> f[o] + n]]
             IsIter(g) == g = [s \in SUBSET DOMAIN f |->
                                 IF s = {} THEN 0
                                 ELSE f[CHOOSE x \in s : TRUE] + g[s \ {CHOOSE x \in s : TRUE}]]
             iter == CHOOSE g : IsIter(g)
  <1>1. \A s \in SUBSET S : s # {} => end[s] \in s
    OBVIOUS
  <1>2. ASSUME NEW s \in SUBSET S, s # {}, NEW n \in W[s \ {end[s]}]
        PROVE  n \in Nat /\ F[end[s]][n] = f[end[s]] + n /\ f[end[s]] + n \in W[s]
    <2> DEFINE o == end[s]
    <2>1. o \in s /\ o \in S /\ s \ {o} \in SUBSET S
      BY <1>1, <1>2
    <2>2. n = Cardinality(Of(s \ {o})) /\ IsFiniteSet(Of(s \ {o}))
      <3> HIDE DEF Of, o
      <3> QED BY <1>2, <2>1 DEF o
    <2> HIDE DEF o
    <2>3. Of(s) = set[o] \cup Of(s \ {o}) /\ set[o] \cap Of(s \ {o}) = {}
      BY <2>1 DEF Apart
    <2>4. IsFiniteSet(set[o]) /\ f[o] = Cardinality(set[o])
      BY <2>1 DEF Sizes
    <2> HIDE DEF Of
    <2>5. f[o] \in Nat /\ n \in Nat
      BY <2>2, <2>4, FS_CardinalityType
    <2>6. IsFiniteSet(Of(s)) /\ Cardinality(Of(s)) = Cardinality(set[o]) + Cardinality(Of(s \ {o}))
      <3> DEFINE own == set[o]
                 rest == Of(s \ {o})
      <3>1. IsFiniteSet(own) /\ IsFiniteSet(rest) /\ own \cap rest = {}
        BY <2>2, <2>3, <2>4
      <3>2. IsFiniteSet(own \cup rest) /\ Cardinality(own \cup rest) = Cardinality(own) + Cardinality(rest)
        <4> HIDE DEF own, rest
        <4> QED BY <3>1, SizesAdd
      <3> QED BY <2>3, <3>2
    <2>7. Cardinality(Of(s)) = f[o] + n
      BY <2>2, <2>4, <2>6
    <2> QED BY <2>1, <2>5, <2>6, <2>7 DEF o
  <1>3. 0 \in W[{}]
    <2>1. Of({}) = {}
      OBVIOUS
    <2> HIDE DEF Of
    <2> QED BY <2>1, FS_EmptySet
  <1>4. PICK g : IsSetFold(g, S, end, F, 0) /\ \A s \in SUBSET S : g[s] \in W[s]
    <2>1. \A s \in SUBSET S : s # {} => \A n \in W[s \ {end[s]}] : F[end[s]][n] \in W[s]
      <3> HIDE DEF W, F, end
      <3> QED BY <1>2
    <2> HIDE DEF W, F, end
    <2> QED BY <1>1, <1>3, <2>1, SetFoldMeets
  <1>5. IsIter(g)
    <2>1. ASSUME NEW s \in SUBSET S, s # {}
          PROVE  F[end[s]][g[s \ {end[s]}]] = f[CHOOSE x \in s : TRUE] + g[s \ {CHOOSE x \in s : TRUE}]
      <3>1. end[s] = CHOOSE x \in s : TRUE
        OBVIOUS
      <3>2. F[end[s]][g[s \ {end[s]}]] = f[end[s]] + g[s \ {end[s]}]
        <4> HIDE DEF W, F, end
        <4> QED BY <1>1, <1>2, <1>4, <2>1
      <3> QED BY <3>1, <3>2
    <2>2. g = [s \in SUBSET S |-> IF s = {} THEN 0 ELSE F[end[s]][g[s \ {end[s]}]]]
      BY <1>4 DEF IsSetFold
    <2> HIDE DEF F, end
    <2> QED BY <2>1, <2>2
  <1>6. IsIter(iter)
    <2> HIDE DEF IsIter
    <2> QED BY <1>5
  <1>7. \A s \in SUBSET S : iter[s] = IF s = {} THEN 0 ELSE f[end[s]] + iter[s \ {end[s]}]
    <2> SUFFICES ASSUME NEW s \in SUBSET S
                 PROVE  iter[s] = IF s = {} THEN 0 ELSE f[end[s]] + iter[s \ {end[s]}]
      OBVIOUS
    <2>1. end[s] = CHOOSE x \in s : TRUE
      OBVIOUS
    <2> HIDE DEF iter, end
    <2> QED BY <1>6, <2>1
  <1>8. \A s \in SUBSET S : iter[s] \in W[s]
    <2>1. iter[{}] \in W[{}]
      <3>1. iter[{}] = 0
        <4> HIDE DEF iter
        <4> QED BY <1>7
      <3> HIDE DEF iter, W
      <3> QED BY <1>3, <3>1
    <2>2. ASSUME NEW s \in SUBSET S, s # {}, iter[s \ {end[s]}] \in W[s \ {end[s]}]
          PROVE  iter[s] \in W[s]
      <3> HIDE DEF iter, W, end
      <3> QED BY <1>2, <1>7, <2>2
    <2> HIDE DEF iter, W, end
    <2> QED BY <1>1, <2>1, <2>2, SetFoldStays
  <1>9. Total(f) = iter[S]
    BY DEF Total, MapThenFoldSet
  <1>10. iter[S] = Cardinality(Of(S)) /\ IsFiniteSet(Of(S))
    <2> HIDE DEF iter, Of
    <2> QED BY <1>8
  <1> QED BY <1>9, <1>10

LEMMA OwnersAreFinite == IsFiniteSet(Owners)
  <1>1. IsFiniteSet(TreeChunks) /\ IsFiniteSet(ShellChunks)
    BY OctreeAssumption, PlacesCount DEF TreeChunks, ShellChunks
  <1>2. IsFiniteSet({"island shell"} \cup {"island mesh"})
    BY FS_Singleton, FS_Union
  <1>3. Owners = (TreeChunks \cup ShellChunks) \cup ({"island shell"} \cup {"island mesh"})
    BY DEF Owners
  <1> QED BY <1>1, <1>2, <1>3, FS_Union

(* The pages of a sound pool, free and owned, are all of its pages.        *)
LEMMA SoundPoolsCount ==
  ASSUME NEW p \in Pools, Sound(p), p.up
  PROVE  Len(p.free) + Total([o \in Owners |-> Len(p.owns[o])]) = Pages
  <1> DEFINE f == [o \in Owners |-> Len(p.owns[o])]
             set == [o \in Owners |-> Range(p.owns[o])]
             owned == UNION {set[o] : o \in Owners}
  <1>1. p.free \in Seq(1..Pages) /\ IsInjective(p.free) /\ Pages \in Nat
    BY LodAssumption DEF Pools, Sound
  <1>2. IsFiniteSet(Range(p.free)) /\ Cardinality(Range(p.free)) = Len(p.free) /\ Len(p.free) \in Nat
    BY <1>1, PlacesCount
  <1>3. Sizes(f, set, Owners)
    <2> SUFFICES ASSUME NEW o \in Owners PROVE IsFiniteSet(set[o]) /\ f[o] = Cardinality(set[o])
      BY DEF Sizes
    <2>1. p.owns[o] \in Seq(1..Pages) /\ IsInjective(p.owns[o])
      BY DEF Pools, Sound
    <2> QED BY <2>1, PlacesCount
  <1>4. Apart(set, Owners)
    BY DEF Sound, Apart
  <1>5. Total(f) = Cardinality(owned) /\ IsFiniteSet(owned)
    <2>1. DOMAIN f = Owners
      OBVIOUS
    <2> HIDE DEF f, set
    <2> QED BY <1>3, <1>4, <2>1, OwnersAreFinite, TotalOfDisjoint
  <1>6. Range(p.free) \cap owned = {} /\ Range(p.free) \cup owned = 1..Pages
    BY DEF Sound
  <1>7. Cardinality(1..Pages) = Pages
    BY <1>1, FS_Interval
  <1> HIDE DEF owned, f
  <1>8. Cardinality(Range(p.free) \cup owned) = Cardinality(Range(p.free)) + Cardinality(owned)
    BY <1>2, <1>5, <1>6, SizesAdd
  <1> QED BY <1>2, <1>5, <1>6, <1>7, <1>8 DEF f

-----------------------------------------------------------------------------
(* The folds of the tick                                                   *)

(* Results that land one by one lead through a family of sets, one for     *)
(* each set of results that have landed, if each leads from one to the     *)
(* next.                                                                   *)
LEMMA LandsStay ==
  ASSUME NEW T, NEW q \in Seq(T), NEW W, NEW base \in W[{}],
         \A s \in SUBSET (1..Len(q)) : s # {} => \A w \in W[s \ {Max(s)}] : Land(w, q[Max(s)]) \in W[s]
  PROVE  FoldLeft(Land, base, q) \in W[1..Len(q)]
  <1> DEFINE n == Len(q)
             end == LastPlace(n)
             all == UNION {W[s] : s \in SUBSET (1..n)}
             F == [i \in 1..n |-> [w \in all |-> Land(w, q[i])]]
             IsIter(g) == g = [s \in SUBSET DOMAIN q |->
                                 IF s = {} THEN base ELSE Land(g[s \ {Max(s)}], q[Max(s)])]
             iter == CHOOSE g : IsIter(g)
  <1>0. n \in Nat /\ DOMAIN q = 1..n /\ IsFiniteSet(1..n)
        /\ \A s \in SUBSET (1..n) : s # {} => end[s] = Max(s) /\ Max(s) \in s
    BY LenProperties, LastPlaceIsOne
  <1>1. ASSUME NEW s \in SUBSET (1..n), s # {}, NEW w \in W[s \ {end[s]}]
        PROVE  end[s] \in s /\ F[end[s]][w] = Land(w, q[end[s]]) /\ Land(w, q[end[s]]) \in W[s]
    <2>1. end[s] = Max(s) /\ Max(s) \in 1..n /\ Max(s) \in s
      BY <1>0, <1>1
    <2>2. w \in all
      <3>1. s \ {end[s]} \in SUBSET (1..n)
        OBVIOUS
      <3> HIDE DEF n, end
      <3> QED BY <3>1
    <2>3. Land(w, q[Max(s)]) \in W[s]
      <3> HIDE DEF end
      <3> QED BY <1>1, <2>1
    <2> HIDE DEF end, all, n
    <2> QED BY <2>1, <2>2, <2>3
  <1>2. PICK g : IsSetFold(g, 1..n, end, F, base) /\ \A s \in SUBSET (1..n) : g[s] \in W[s]
    <2>1. \A s \in SUBSET (1..n) : s # {} => end[s] \in s
      BY <1>0
    <2>2. \A s \in SUBSET (1..n) : s # {} => \A w \in W[s \ {end[s]}] : F[end[s]][w] \in W[s]
      <3> HIDE DEF F, end, n
      <3> QED BY <1>1
    <2> HIDE DEF F, end, n
    <2> QED BY <1>0, <2>1, <2>2, SetFoldMeets
  <1>3. IsIter(g)
    <2>1. ASSUME NEW s \in SUBSET (1..n)
          PROVE  (IF s = {} THEN base ELSE F[end[s]][g[s \ {end[s]}]])
                   = IF s = {} THEN base ELSE Land(g[s \ {Max(s)}], q[Max(s)])
      <3>1. CASE s # {}
        <4>1. end[s] = Max(s) /\ g[s \ {end[s]}] \in W[s \ {end[s]}]
          <5>1. s \ {end[s]} \in SUBSET (1..n)
            OBVIOUS
          <5> HIDE DEF end, n
          <5> QED BY <1>0, <1>2, <3>1, <5>1
        <4> HIDE DEF F, end, n
        <4> QED BY <1>1, <3>1, <4>1
      <3> QED BY <3>1
    <2> HIDE DEF F, end
    <2> QED BY <1>0, <1>2, <2>1 DEF IsSetFold
  <1>4. IsIter(iter)
    <2> HIDE DEF IsIter
    <2> QED BY <1>3
  <1>5. \A s \in SUBSET (1..n) : iter[s] = IF s = {} THEN base ELSE Land(iter[s \ {Max(s)}], q[Max(s)])
    <2> HIDE DEF iter
    <2> QED BY <1>0, <1>4
  <1>6. \A s \in SUBSET (1..n) : iter[s] \in W[s]
    <2>1. \A s \in SUBSET (1..n) : s # {} => end[s] \in s
      BY <1>0
    <2>2. iter[{}] \in W[{}]
      <3>1. iter[{}] = base
        <4> HIDE DEF iter, n
        <4> QED BY <1>5
      <3> HIDE DEF iter
      <3> QED BY <3>1
    <2>3. ASSUME NEW s \in SUBSET (1..n), s # {}, iter[s \ {end[s]}] \in W[s \ {end[s]}]
          PROVE  iter[s] \in W[s]
      <3>1. end[s] = Max(s) /\ iter[s] = Land(iter[s \ {Max(s)}], q[Max(s)])
        <4> HIDE DEF iter, n, end
        <4> QED BY <1>0, <1>5, <2>3
      <3>2. Land(iter[s \ {end[s]}], q[end[s]]) \in W[s]
        <4> HIDE DEF iter, end, n, F
        <4> QED BY <1>1, <2>3
      <3> HIDE DEF iter, end, n
      <3> QED BY <3>1, <3>2
    <2> HIDE DEF iter, end, n
    <2> QED BY <1>0, <2>1, <2>2, <2>3, SetFoldStays
  <1>7. FoldLeft(Land, base, q) = iter[1..n]
    BY <1>0 DEF FoldLeft, MapThenFoldSet
  <1> HIDE DEF iter, n
  <1> QED BY <1>6, <1>7 DEF n

(* What a tick works on.                                                   *)
Grounds == [nodes : [TreeChunks -> NodeRecs \cup {None}], shell : [ShellChunks -> ShellRecs \cup {None}],
            pool : Pools, pressure : Nat]

(* Eviction takes chunks that are not being built and were not marked in   *)
(* this frame, with their pages, and nothing else.                         *)
Evicted(n) == n # None /\ ~n.building /\ n.age > 0
Spared(s, e) ==
  /\ e.shell = s.shell /\ e.pool.up /\ e.pool.shows = s.pool.shows
  /\ \A o \in Owners \ TreeChunks : e.pool.owns[o] = s.pool.owns[o]
  /\ \A c \in TreeChunks :
       \/ e.nodes[c] = s.nodes[c] /\ e.pool.owns[c] = s.pool.owns[c]
       \/ e.nodes[c] = None /\ e.pool.owns[c] = <<>> /\ Evicted(s.nodes[c])

LEMMA EvictKeeps ==
  ASSUME NEW s \in Grounds, Sound(s.pool), s.pool.up
  PROVE  LET e == Evict(s)
         IN  e \in Grounds /\ Sound(e.pool) /\ Spared(s, e)
  <1> DEFINE cands == {c \in TreeChunks :
                         /\ s.nodes[c] # None
                         /\ ~(c \in Lasting /\ c \in view.within)
                         /\ ~s.nodes[c].building}
             youngest(S) == CHOOSE c \in S : \A d \in S : s.nodes[c].age <= s.nodes[d].age
             after(c, acc) == [back |-> acc.back + Len(s.pool.owns[c]),
                               s    |-> [acc.s EXCEPT !.nodes[c] = None, !.pool = Released(@, c)]]
             step(c, acc) ==
               IF \/ s.nodes[c].age > EvictAge
                  \/ acc.back < s.pressure /\ s.nodes[c].age > 0
               THEN after(c, acc)
               ELSE acc
             base == [back |-> 0, s |-> s]
             end == [S \in SUBSET cands |-> youngest(S)]
             all == {a \in [back : Nat, s : Grounds] : Sound(a.s.pool) /\ Spared(s, a.s)}
             W == [S \in SUBSET cands |-> all]
             F == [c \in cands |-> [a \in all |-> step(c, a)]]
             IsIter(g) == g = [S \in SUBSET cands |->
                                 IF S = {} THEN base ELSE step(youngest(S), g[S \ {youngest(S)}])]
             iter == CHOOSE g : IsIter(g)
  <1>1. IsFiniteSet(cands)
    <2>1. IsFiniteSet(TreeChunks)
      BY OctreeAssumption, PlacesCount DEF TreeChunks
    <2> QED BY <2>1, FS_Subset
  <1>2. EvictAge \in Nat /\ Old \in Nat
    <2>1. EvictAge \in Nat
      BY LodAssumption
    <2> QED BY <2>1 DEF Old
  <1>3. \A c \in cands : s.nodes[c] \in NodeRecs /\ s.nodes[c].age \in Nat /\ c \in TreeChunks /\ c \in Owners
    <2> SUFFICES ASSUME NEW c \in cands
                 PROVE  s.nodes[c] \in NodeRecs /\ s.nodes[c].age \in Nat /\ c \in TreeChunks /\ c \in Owners
      OBVIOUS
    <2>1. c \in TreeChunks /\ c \in Owners /\ s.nodes[c] # None
      BY DEF Owners
    <2>2. s.nodes[c] \in NodeRecs
      BY <2>1 DEF Grounds
    <2>3. s.nodes[c].age \in 0..Old
      BY <2>2 DEF NodeRecs
    <2> QED BY <1>2, <2>1, <2>2, <2>3
  <1>4. ASSUME NEW S \in SUBSET cands, S # {} PROVE youngest(S) \in S /\ end[S] = youngest(S)
    <2> DEFINE ages == {s.nodes[c].age : c \in S}
    <2>1. ages \in SUBSET Nat /\ ages # {}
      <3> HIDE DEF cands
      <3> QED BY <1>3, <1>4
    <2>2. PICK a \in ages : \A b \in ages : a <= b
      <3> HIDE DEF ages
      <3> QED BY <2>1, LeastNatural
    <2>3. \E c \in S : \A d \in S : s.nodes[c].age <= s.nodes[d].age
      BY <2>2
    <2> HIDE DEF cands
    <2> QED BY <2>3
  <1>5. base \in all
    BY DEF Spared
  <1>6. ASSUME NEW c \in cands, NEW a \in all PROVE step(c, a) \in all
    <2> DEFINE t == a.s
               n == s.nodes[c]
               u == [t EXCEPT !.nodes[c] = None, !.pool = Released(@, c)]
               b == after(c, a)
               ripe == n.age > EvictAge \/ (a.back < s.pressure /\ n.age > 0)
    <2>0. step(c, a) = IF ripe THEN b ELSE a
      <3>0. a.back \in Nat /\ s.pressure \in Nat
        BY DEF Grounds
      <3>1. ripe => step(c, a) = b
        <4> HIDE DEF after, all, cands
        <4> QED OBVIOUS
      <3>2. ~ripe => step(c, a) = a
        <4> HIDE DEF after, all, cands
        <4> QED BY <3>0, <1>2, <1>3
      <3> HIDE DEF step, ripe, b, all
      <3> QED BY <3>1, <3>2
    <2>1. t \in Grounds /\ a.back \in Nat /\ Sound(t.pool) /\ Spared(s, t)
      OBVIOUS
    <2>2. t.pool \in Pools /\ c \in Owners /\ c \in TreeChunks /\ t.pool.up
      BY <1>3, <2>1 DEF Grounds, Spared
    <2> DEFINE q == Released(t.pool, c)
    <2>3. q \in Pools /\ Sound(q) /\ Keeps(t.pool, q, c) /\ q.owns[c] = <<>> /\ q.shows = t.pool.shows
      <3> HIDE DEF t
      <3> QED BY <2>1, <2>2, ReleasedKeeps
    <2> HIDE DEF q, t
    <2>4. /\ u.nodes = [t.nodes EXCEPT ![c] = None] /\ u.shell = t.shell /\ u.pool = q /\ u.pressure = t.pressure
          /\ u \in Grounds
      BY <2>1, <2>2, <2>3 DEF Grounds, q
    <2>5. Len(s.pool.owns[c]) \in Nat
      BY <2>2, LenProperties DEF Grounds, Pools
    <2>6. CASE n.age > EvictAge \/ (a.back < s.pressure /\ n.age > 0)
      <3>1. n.age > 0
        BY <1>2, <1>3, <2>6
      <3>2. Evicted(n)
        BY <3>1 DEF Evicted
      <3> HIDE DEF u
      <3>3. Spared(s, u)
        <4>1. u.shell = s.shell /\ u.pool.up /\ u.pool.shows = s.pool.shows
          BY <2>1, <2>3, <2>4, <2>2 DEF Spared, Keeps
        <4>2. ASSUME NEW o \in Owners \ TreeChunks PROVE u.pool.owns[o] = s.pool.owns[o]
          BY <2>1, <2>2, <2>3, <2>4 DEF Spared, Keeps
        <4>3. ASSUME NEW d \in TreeChunks
              PROVE  \/ u.nodes[d] = s.nodes[d] /\ u.pool.owns[d] = s.pool.owns[d]
                     \/ u.nodes[d] = None /\ u.pool.owns[d] = <<>> /\ Evicted(s.nodes[d])
          <5>1. CASE d = c
            <6>1. u.nodes[c] = None
              BY <2>1, <2>2, <2>4 DEF Grounds
            <6> QED BY <2>3, <2>4, <3>2, <5>1, <6>1
          <5>2. CASE d # c
            <6>1. u.nodes[d] = t.nodes[d]
              BY <2>1, <2>2, <2>4, <5>2 DEF Grounds
            <6>2. d \in Owners \ {c}
              BY <5>2 DEF Owners
            <6>3. u.pool.owns[d] = t.pool.owns[d]
              BY <2>3, <2>4, <6>2 DEF Keeps
            <6> QED BY <2>1, <6>1, <6>3 DEF Spared
          <5> QED BY <5>1, <5>2
        <4> QED BY <4>1, <4>2, <4>3 DEF Spared
      <3>4. b \in all
        <4>1. b.back \in Nat /\ b.s = u /\ b \in [back : Nat, s : Grounds]
          <5>2. b = [back |-> a.back + Len(s.pool.owns[c]), s |-> u]
            BY DEF u, t
          <5>1. a.back + Len(s.pool.owns[c]) \in Nat
            <6> DEFINE k == Len(s.pool.owns[c])
            <6> HIDE DEF k
            <6>1. k \in Nat
              BY <2>5 DEF k
            <6>2. a.back + k \in Nat
              BY <2>1, <6>1
            <6> QED BY <6>2 DEF k
          <5> HIDE DEF u, b
          <5> QED BY <2>4, <5>1, <5>2
        <4> HIDE DEF b
        <4> QED BY <4>1, <2>3, <2>4, <3>3
      <3>5. step(c, a) = b
        <4> HIDE DEF step, b
        <4> QED BY <2>0, <2>6
      <3> QED BY <3>4, <3>5
    <2>7. CASE ~(n.age > EvictAge \/ (a.back < s.pressure /\ n.age > 0))
      <3>1. step(c, a) = a
        <4> HIDE DEF step, b
        <4> QED BY <2>0, <2>7
      <3> QED BY <3>1
    <2> QED BY <2>6, <2>7
  <1>7. ASSUME NEW S \in SUBSET cands, S # {}, NEW a \in W[S \ {end[S]}]
        PROVE  end[S] \in S /\ F[end[S]][a] = step(youngest(S), a) /\ step(youngest(S), a) \in W[S]
    <2>1. end[S] = youngest(S) /\ youngest(S) \in S /\ youngest(S) \in cands
      <3> HIDE DEF cands, youngest, end
      <3> QED BY <1>4, <1>7
    <2>2. a \in all
      <3> HIDE DEF all, cands, end
      <3> QED OBVIOUS
    <2> HIDE DEF end, all, cands, step, youngest
    <2> QED BY <2>1, <2>2, <1>6
  <1>8. PICK g : IsSetFold(g, cands, end, F, base) /\ \A S \in SUBSET cands : g[S] \in W[S]
    <2>1. \A S \in SUBSET cands : S # {} => end[S] \in S
      <3> HIDE DEF cands, end, youngest
      <3> QED BY <1>4
    <2>2. \A S \in SUBSET cands : S # {} => \A w \in W[S \ {end[S]}] : F[end[S]][w] \in W[S]
      <3> HIDE DEF F, end, cands, step, youngest, W
      <3> QED BY <1>7
    <2>3. base \in W[{}]
      <3> HIDE DEF base, all, cands
      <3> QED BY <1>5
    <2> HIDE DEF F, end, W, base, cands
    <2> QED BY <1>1, <2>1, <2>2, <2>3, SetFoldMeets
  <1>9. IsIter(g)
    <2>1. ASSUME NEW S \in SUBSET cands
          PROVE  (IF S = {} THEN base ELSE F[end[S]][g[S \ {end[S]}]])
                   = IF S = {} THEN base ELSE step(youngest(S), g[S \ {youngest(S)}])
      <3>1. CASE S # {}
        <4>1. end[S] = youngest(S) /\ g[S \ {end[S]}] \in W[S \ {end[S]}]
          <5>1. S \ {end[S]} \in SUBSET cands
            OBVIOUS
          <5> HIDE DEF end, cands, youngest, W
          <5> QED BY <1>4, <1>8, <3>1, <5>1
        <4> HIDE DEF F, end, cands, youngest, W, step
        <4> QED BY <1>7, <3>1, <4>1
      <3> QED BY <3>1
    <2>2. g = [S \in SUBSET cands |-> IF S = {} THEN base ELSE F[end[S]][g[S \ {end[S]}]]]
      BY <1>8 DEF IsSetFold
    <2> HIDE DEF F, end, step, base, cands, youngest
    <2> QED BY <2>1, <2>2
  <1>10. IsIter(iter)
    <2> HIDE DEF IsIter
    <2> QED BY <1>9
  <1>11. \A S \in SUBSET cands : iter[S] = IF S = {} THEN base ELSE step(youngest(S), iter[S \ {youngest(S)}])
    <2> HIDE DEF iter, step, base, cands, youngest
    <2> QED BY <1>10
  <1>12. \A S \in SUBSET cands : iter[S] \in W[S]
    <2>1. \A S \in SUBSET cands : S # {} => end[S] \in S
      <3> HIDE DEF cands, end, youngest
      <3> QED BY <1>4
    <2>2. iter[{}] \in W[{}]
      <3>1. iter[{}] = base
        <4> HIDE DEF iter, cands, step, youngest, base
        <4> QED BY <1>11
      <3> HIDE DEF iter, all, cands, base
      <3> QED BY <1>5, <3>1
    <2>3. ASSUME NEW S \in SUBSET cands, S # {}, iter[S \ {end[S]}] \in W[S \ {end[S]}]
          PROVE  iter[S] \in W[S]
      <3>1. end[S] = youngest(S) /\ iter[S] = step(youngest(S), iter[S \ {youngest(S)}])
        <4> HIDE DEF iter, cands, step, youngest, base, end
        <4> QED BY <1>4, <1>11, <2>3
      <3>2. step(youngest(S), iter[S \ {end[S]}]) \in W[S]
        <4> HIDE DEF iter, cands, step, youngest, end, W, F
        <4> QED BY <1>7, <2>3
      <3> HIDE DEF iter, cands, step, youngest, end, W
      <3> QED BY <3>1, <3>2
    <2> HIDE DEF iter, end, W, cands
    <2> QED BY <1>1, <2>1, <2>2, <2>3, SetFoldStays
  <1>13. Evict(s) = [iter[cands].s EXCEPT !.pressure = 0]
    BY DEF Evict, MapThenFoldSet
  <1>14. iter[cands] \in all
    <2>1. iter[cands] \in W[cands]
      <3> HIDE DEF iter, W, cands
      <3> QED BY <1>12
    <2> HIDE DEF iter, all, cands
    <2> QED BY <2>1
  <1> DEFINE t == iter[cands].s
             e == Evict(s)
  <1>15. t \in Grounds /\ Sound(t.pool) /\ Spared(s, t)
    <2> HIDE DEF iter, cands
    <2> QED BY <1>14
  <1> HIDE DEF t
  <1>16. e = [t EXCEPT !.pressure = 0]
    BY <1>13 DEF t
  <1> HIDE DEF e
  <1>17. e \in Grounds /\ e.nodes = t.nodes /\ e.shell = t.shell /\ e.pool = t.pool
    BY <1>15, <1>16 DEF Grounds
  <1>18. Spared(s, e)
    BY <1>15, <1>17 DEF Spared
  <1> QED BY <1>15, <1>17, <1>18 DEF e

(* The shell's chunks that are no longer wanted give their pages back, and *)
(* nothing else changes.                                                   *)
Departs(c) == c \in ShellChunks /\ shell[c] # None /\ c \notin Candidates

LEMMA DroppedKeeps ==
  ASSUME NEW p \in Pools, Sound(p), p.up
  PROVE  LET q == Dropped(p)
         IN  /\ q \in Pools /\ Sound(q) /\ q.up /\ q.shows = p.shows
             /\ \A o \in Owners : ~Departs(o) => q.owns[o] = p.owns[o]
  <1> DEFINE n == Len(Shells)
             end == LastPlace(n)
             step(acc, c) == IF shell[c] # None /\ c \notin Candidates THEN Released(acc, c) ELSE acc
             all == {q \in Pools : /\ Sound(q) /\ q.up /\ q.shows = p.shows
                                   /\ \A o \in Owners : ~Departs(o) => q.owns[o] = p.owns[o]}
             W == [s \in SUBSET (1..n) |-> all]
             F == [i \in 1..n |-> [a \in all |-> step(a, Shells[i])]]
             IsIter(g) == g = [s \in SUBSET DOMAIN Shells |->
                                 IF s = {} THEN p ELSE step(g[s \ {Max(s)}], Shells[Max(s)])]
             iter == CHOOSE g : IsIter(g)
  <1>0. n \in Nat /\ DOMAIN Shells = 1..n /\ IsFiniteSet(1..n)
        /\ \A s \in SUBSET (1..n) : s # {} => end[s] = Max(s) /\ Max(s) \in s
    <2>1. Shells \in Seq(ShellChunks)
      BY OctreeAssumption
    <2> QED BY <2>1, LenProperties, LastPlaceIsOne
  <1>1. p \in all
    OBVIOUS
  <1>2. ASSUME NEW i \in 1..n, NEW a \in all PROVE step(a, Shells[i]) \in all
    <2> DEFINE c == Shells[i]
    <2>1. c \in ShellChunks /\ c \in Owners
      BY <1>0 DEF ShellChunks, Range, Owners
    <2> HIDE DEF c
    <2>2. CASE shell[c] # None /\ c \notin Candidates
      <3> DEFINE q == Released(a, c)
      <3>1. q \in Pools /\ Sound(q) /\ Keeps(a, q, c) /\ q.shows = a.shows
        BY <2>1, ReleasedKeeps
      <3>2. Departs(c)
        BY <2>1, <2>2 DEF Departs
      <3> HIDE DEF q
      <3>3. q \in all
        BY <3>1, <3>2 DEF Keeps
      <3> QED BY <2>2, <3>3 DEF q, c
    <2>3. CASE ~(shell[c] # None /\ c \notin Candidates)
      BY <2>3 DEF c
    <2> QED BY <2>2, <2>3
  <1>3. ASSUME NEW s \in SUBSET (1..n), s # {}, NEW a \in W[s \ {end[s]}]
        PROVE  end[s] \in s /\ F[end[s]][a] = step(a, Shells[end[s]]) /\ step(a, Shells[end[s]]) \in W[s]
    <2>1. end[s] \in s /\ end[s] \in 1..n
      BY <1>0, <1>3
    <2>2. a \in all
      <3> HIDE DEF all, end, n
      <3> QED OBVIOUS
    <2> HIDE DEF all, end, n, step
    <2> QED BY <1>2, <2>1, <2>2
  <1>4. PICK g : IsSetFold(g, 1..n, end, F, p) /\ \A s \in SUBSET (1..n) : g[s] \in W[s]
    <2>1. \A s \in SUBSET (1..n) : s # {} => end[s] \in s
      BY <1>0
    <2>2. \A s \in SUBSET (1..n) : s # {} => \A a \in W[s \ {end[s]}] : F[end[s]][a] \in W[s]
      <3> HIDE DEF W, F, end, n, step
      <3> QED BY <1>3
    <2>3. p \in W[{}]
      <3> HIDE DEF all, n
      <3> QED BY <1>1
    <2> HIDE DEF W, F, end, n
    <2> QED BY <1>0, <2>1, <2>2, <2>3, SetFoldMeets
  <1>5. IsIter(g)
    <2>1. ASSUME NEW s \in SUBSET (1..n)
          PROVE  (IF s = {} THEN p ELSE F[end[s]][g[s \ {end[s]}]])
                   = IF s = {} THEN p ELSE step(g[s \ {Max(s)}], Shells[Max(s)])
      <3>1. CASE s # {}
        <4>1. end[s] = Max(s) /\ g[s \ {end[s]}] \in W[s \ {end[s]}]
          <5>1. s \ {end[s]} \in SUBSET (1..n)
            OBVIOUS
          <5> HIDE DEF end, n, W
          <5> QED BY <1>0, <1>4, <3>1, <5>1
        <4> HIDE DEF F, end, n, W, step
        <4> QED BY <1>3, <3>1, <4>1
      <3> QED BY <3>1
    <2> HIDE DEF F, end, step
    <2> QED BY <1>0, <1>4, <2>1 DEF IsSetFold
  <1>6. IsIter(iter)
    <2> HIDE DEF IsIter
    <2> QED BY <1>5
  <1>7. \A s \in SUBSET (1..n) : iter[s] = IF s = {} THEN p ELSE step(iter[s \ {Max(s)}], Shells[Max(s)])
    <2> HIDE DEF iter, step
    <2> QED BY <1>0, <1>6
  <1>8. \A s \in SUBSET (1..n) : iter[s] \in W[s]
    <2>1. \A s \in SUBSET (1..n) : s # {} => end[s] \in s
      BY <1>0
    <2>2. iter[{}] \in W[{}]
      <3>1. iter[{}] = p
        <4> HIDE DEF iter, n, step
        <4> QED BY <1>7
      <3> HIDE DEF iter, all, n
      <3> QED BY <1>1, <3>1
    <2>3. ASSUME NEW s \in SUBSET (1..n), s # {}, iter[s \ {end[s]}] \in W[s \ {end[s]}]
          PROVE  iter[s] \in W[s]
      <3>1. end[s] = Max(s) /\ iter[s] = step(iter[s \ {Max(s)}], Shells[Max(s)])
        <4> HIDE DEF iter, n, end, step
        <4> QED BY <1>0, <1>7, <2>3
      <3>2. step(iter[s \ {end[s]}], Shells[end[s]]) \in W[s]
        <4> HIDE DEF iter, end, n, F, W, step
        <4> QED BY <1>3, <2>3
      <3> HIDE DEF iter, end, n, W, step
      <3> QED BY <3>1, <3>2
    <2> HIDE DEF iter, end, n, W
    <2> QED BY <1>0, <2>1, <2>2, <2>3, SetFoldStays
  <1>9. Dropped(p) = iter[1..n]
    BY <1>0 DEF Dropped, FoldLeft, MapThenFoldSet
  <1>10. iter[1..n] \in all
    <2>1. iter[1..n] \in W[1..n]
      <3> HIDE DEF iter, W, n
      <3> QED BY <1>8
    <2> HIDE DEF iter, all, n
    <2> QED BY <2>1
  <1> HIDE DEF iter, n
  <1> QED BY <1>9, <1>10

-----------------------------------------------------------------------------
(* What a result does                                                      *)

AnswerRecs == [chunk : TreeChunks \cup ShellChunks, shell : BOOLEAN, content : Contents, failed : BOOLEAN]

LEMMA ConstantFacts ==
  /\ EvictAge \in Nat /\ Old \in Nat /\ Old = EvictAge + 1 /\ PerTick \in Nat /\ Pages \in Nat /\ IslandNeed \in Nat
  /\ \A c \in TreeChunks \cup ShellChunks : Need[c] \in Nat /\ Need[c] # 0 /\ Covers[c] \subseteq Leaves
  /\ TreeChunks \cap ShellChunks = {}
  /\ None \notin TreeChunks /\ None \notin NodeRecs /\ None \notin ShellRecs
  /\ TreeChunks \subseteq Owners /\ ShellChunks \subseteq Owners
  /\ {"island shell", "island mesh"} \subseteq Owners
  /\ {"island shell", "island mesh"} \cap (TreeChunks \cup ShellChunks) = {}
  <1>1. /\ EvictAge \in Nat /\ PerTick \in Nat /\ Pages \in Nat /\ IslandNeed \in Nat
        /\ TreeChunks \cap ShellChunks = {}
        /\ {"island shell", "island mesh"} \cap (TreeChunks \cup ShellChunks) = {}
        /\ Need \in [TreeChunks \cup ShellChunks -> Nat \ {0}]
        /\ Covers \in [TreeChunks \cup ShellChunks -> SUBSET Leaves]
        /\ None \notin TreeChunks
    BY LodAssumption
  <1>2. None \notin NodeRecs
    BY LodAssumption DEF NodeRecs, StateNames, Old
  <1>3. None \notin ShellRecs
    BY LodAssumption DEF ShellRecs, StateNames
  <1>4. \A c \in TreeChunks \cup ShellChunks : Need[c] \in Nat /\ Need[c] # 0 /\ Covers[c] \subseteq Leaves
    BY <1>1
  <1>5. Old \in Nat /\ Old = EvictAge + 1
    <2>1. EvictAge \in Nat
      BY <1>1
    <2> QED BY <2>1 DEF Old
  <1> QED BY <1>1, <1>2, <1>3, <1>4, <1>5 DEF Owners

(* The notes on a node.                                                    *)
LEMMA NodeIsOne ==
  ASSUME NEW t \in [TreeChunks -> NodeRecs \cup {None}], NEW c \in TreeChunks
  PROVE  Node(t, c) \in NodeRecs /\ (t[c] # None => Node(t, c) = t[c]) /\ (t[c] = None => Node(t, c) = NewNode)
  <1>1. Old \in Nat
    BY ConstantFacts
  <1>2. NewNode \in NodeRecs
    BY <1>1 DEF NewNode, NodeRecs, StateNames
  <1> QED BY <1>2 DEF Node

LEMMA NotesAreNodes ==
  ASSUME NEW n \in NodeRecs
  PROVE  /\ NoteBuilding(n) \in NodeRecs /\ NoteReady(n) \in NodeRecs /\ NoteReadyDirty(n) \in NodeRecs
         /\ NoteEmpty(n) \in NodeRecs /\ NoteFailed(n) \in NodeRecs /\ MarkDirty(n) \in NodeRecs
         /\ \A has \in BOOLEAN : NoteRefused(n, has) \in NodeRecs
  <1>1. 0 \in 0..Old
    <2>1. Old \in Nat
      BY ConstantFacts
    <2> QED BY <2>1
  <1>2. NoteBuilding(n) \in NodeRecs
    BY DEF NodeRecs, StateNames, NoteBuilding
  <1>3. NoteReady(n) \in NodeRecs
    BY <1>1 DEF NodeRecs, StateNames, NoteReady
  <1>4. NoteReadyDirty(n) \in NodeRecs
    BY <1>1 DEF NodeRecs, StateNames, NoteReadyDirty
  <1>5. NoteEmpty(n) \in NodeRecs
    BY DEF NodeRecs, StateNames, NoteEmpty
  <1>6. NoteFailed(n) \in NodeRecs
    BY DEF NodeRecs, StateNames, NoteFailed
  <1>7. MarkDirty(n) \in NodeRecs
    BY DEF NodeRecs, StateNames, MarkDirty
  <1>8. \A has \in BOOLEAN : NoteRefused(n, has) \in NodeRecs
    BY DEF NodeRecs, StateNames, NoteRefused
  <1> QED BY <1>2, <1>3, <1>4, <1>5, <1>6, <1>7, <1>8

LEMMA ShellNotes ==
  ASSUME NEW n \in ShellRecs
  PROVE  /\ ShellFailed(n) \in ShellRecs /\ ShellReady(n) \in ShellRecs /\ ShellEmpty(n) \in ShellRecs
         /\ NewShell \in ShellRecs
  BY DEF ShellRecs, StateNames, ShellFailed, ShellReady, ShellEmpty, NewShell

(* The parts of what a tick works on, changed one at a time.               *)
SetNode(s, c, n) == [s EXCEPT !.nodes[c] = n]
SetShell(s, c, n) == [s EXCEPT !.shell[c] = n]
SetPool(s, p) == [s EXCEPT !.pool = p]

LEMMA PartsChange ==
  ASSUME NEW s \in Grounds
  PROVE  /\ \A c \in TreeChunks, n \in NodeRecs :
              LET t == SetNode(s, c, n)
              IN  /\ t \in Grounds /\ t.shell = s.shell /\ t.pool = s.pool /\ t.pressure = s.pressure
                  /\ t.nodes[c] = n /\ \A d \in TreeChunks \ {c} : t.nodes[d] = s.nodes[d]
         /\ \A c \in ShellChunks, n \in ShellRecs :
              LET t == SetShell(s, c, n)
              IN  /\ t \in Grounds /\ t.nodes = s.nodes /\ t.pool = s.pool /\ t.pressure = s.pressure
                  /\ t.shell[c] = n /\ \A d \in ShellChunks \ {c} : t.shell[d] = s.shell[d]
         /\ \A p \in Pools :
              LET t == SetPool(s, p)
              IN  t \in Grounds /\ t.nodes = s.nodes /\ t.shell = s.shell /\ t.pool = p /\ t.pressure = s.pressure
         /\ \A k \in Nat :
              LET t == [s EXCEPT !.pressure = @ + k]
              IN  t \in Grounds /\ t.nodes = s.nodes /\ t.shell = s.shell /\ t.pool = s.pool
  <1>1. ASSUME NEW c \in TreeChunks, NEW n \in NodeRecs
        PROVE  LET t == SetNode(s, c, n)
               IN  /\ t \in Grounds /\ t.shell = s.shell /\ t.pool = s.pool /\ t.pressure = s.pressure
                   /\ t.nodes[c] = n /\ \A d \in TreeChunks \ {c} : t.nodes[d] = s.nodes[d]
    BY DEF SetNode, Grounds
  <1>2. ASSUME NEW c \in ShellChunks, NEW n \in ShellRecs
        PROVE  LET t == SetShell(s, c, n)
               IN  /\ t \in Grounds /\ t.nodes = s.nodes /\ t.pool = s.pool /\ t.pressure = s.pressure
                   /\ t.shell[c] = n /\ \A d \in ShellChunks \ {c} : t.shell[d] = s.shell[d]
    BY DEF SetShell, Grounds
  <1>3. ASSUME NEW p \in Pools
        PROVE  LET t == SetPool(s, p)
               IN  t \in Grounds /\ t.nodes = s.nodes /\ t.shell = s.shell /\ t.pool = p /\ t.pressure = s.pressure
    BY DEF SetPool, Grounds
  <1>4. ASSUME NEW k \in Nat
        PROVE  LET t == [s EXCEPT !.pressure = @ + k]
               IN  t \in Grounds /\ t.nodes = s.nodes /\ t.shell = s.shell /\ t.pool = s.pool
    BY DEF Grounds
  <1> QED BY <1>1, <1>2, <1>3, <1>4

(* The four ways in which a result can leave its chunk of the tree.        *)
Shows(p, c, content) == p.owns[c] # <<>> /\ p.shows[Head(p.owns[c])].content = content
Landing(n, m, p, q, r) ==
  LET c == r.chunk
  IN  \/ m = NoteReadyDirty(n) /\ q.owns[c] # <<>> /\ (n.dirty \/ r.failed \/ ~Blank(c, r.content))
      \/ m = NoteFailed(n) /\ q = p /\ p.owns[c] = <<>> /\ (r.failed \/ ~Blank(c, r.content))
      \/ m = NoteEmpty(n) /\ ~r.failed /\ Blank(c, r.content) /\ q.owns[c] = <<>>
         /\ (n.dirty => p.owns[c] = <<>>)
      \/ m = NoteReady(n) /\ ~r.failed /\ ~Blank(c, r.content) /\ Shows(q, c, r.content)

LEMMA LandTreeKeeps ==
  ASSUME NEW s \in Grounds, Sound(s.pool), s.pool.up, NEW r \in AnswerRecs, r.chunk \in TreeChunks, ~r.shell
  PROVE  LET t == Land(s, r)
             c == r.chunk
         IN  /\ t \in Grounds /\ Sound(t.pool) /\ t.pool.up /\ t.shell = s.shell
             /\ \A d \in TreeChunks \ {c} : t.nodes[d] = s.nodes[d]
             /\ Keeps(s.pool, t.pool, c)
             /\ t.nodes[c] # None
             /\ Landing(Node(s.nodes, c), t.nodes[c], s.pool, t.pool, r)
  <1> DEFINE c == r.chunk
             n == Node(s.nodes, c)
             t == Land(s, r)
             p == s.pool
             Good(u) == /\ u \in Grounds /\ Sound(u.pool) /\ u.pool.up /\ u.shell = s.shell
                        /\ \A d \in TreeChunks \ {c} : u.nodes[d] = s.nodes[d]
                        /\ Keeps(p, u.pool, c)
                        /\ u.nodes[c] # None
  <1>1. /\ c \in TreeChunks /\ c \in Owners /\ c \notin ShellChunks /\ p \in Pools /\ n \in NodeRecs
        /\ r.content \in Contents \cup {None} /\ Need[c] \in Nat /\ Need[c] # 0 /\ None \notin NodeRecs
    BY ConstantFacts, NodeIsOne DEF Grounds, AnswerRecs
  <1>2. t = LandTree(s, r)
    BY <1>1 DEF Land
  <1>3. ASSUME NEW m \in NodeRecs PROVE Good(SetNode(s, c, m)) /\ SetNode(s, c, m).nodes[c] = m /\ SetNode(s, c, m).pool = p
    <2> DEFINE u == SetNode(s, c, m)
    <2>1. /\ u \in Grounds /\ u.shell = s.shell /\ u.pool = p
          /\ u.nodes[c] = m /\ \A d \in TreeChunks \ {c} : u.nodes[d] = s.nodes[d]
      BY <1>1, PartsChange
    <2> HIDE DEF u
    <2>2. Keeps(p, p, c)
      BY DEF Keeps
    <2> QED BY <1>1, <2>1, <2>2 DEF u
  <1>4. ASSUME NEW q \in Pools, Sound(q), Keeps(p, q, c), NEW m \in NodeRecs
        PROVE  LET u == SetNode(SetPool(s, q), c, m)
               IN  Good(u) /\ u.nodes[c] = m /\ u.pool = q
    <2> DEFINE v == SetPool(s, q)
               u == SetNode(v, c, m)
    <2>1. v \in Grounds /\ v.nodes = s.nodes /\ v.shell = s.shell /\ v.pool = q
      BY <1>4, PartsChange
    <2> HIDE DEF v
    <2>2. /\ u \in Grounds /\ u.shell = v.shell /\ u.pool = v.pool
          /\ u.nodes[c] = m /\ \A d \in TreeChunks \ {c} : u.nodes[d] = v.nodes[d]
      <3>1. v \in Grounds /\ c \in TreeChunks /\ m \in NodeRecs
        BY <1>1, <2>1
      <3> HIDE DEF c
      <3> QED BY <3>1, PartsChange
    <2> HIDE DEF u
    <2>3. q.up
      BY <1>4 DEF Keeps
    <2> QED BY <1>1, <1>4, <2>1, <2>2, <2>3 DEF u, v
  <1>5. LET u == KeepOrFail(s, c)
        IN  /\ Good(u)
            /\ \/ u.nodes[c] = NoteReadyDirty(n) /\ u.pool.owns[c] # <<>>
               \/ u.nodes[c] = NoteFailed(n) /\ u.pool = p /\ p.owns[c] = <<>>
    <2>1. CASE p.owns[c] # <<>>
      <3>1. KeepOrFail(s, c) = SetNode(s, c, NoteReadyDirty(n))
        BY <2>1 DEF KeepOrFail, OnNode, SetNode
      <3>2. NoteReadyDirty(n) \in NodeRecs
        BY <1>1, NotesAreNodes
      <3> HIDE DEF n, Good
      <3> QED BY <1>3, <2>1, <3>1, <3>2
    <2>2. CASE p.owns[c] = <<>>
      <3>1. KeepOrFail(s, c) = SetNode(s, c, NoteFailed(n))
        BY <2>2 DEF KeepOrFail, OnNode, SetNode
      <3>2. NoteFailed(n) \in NodeRecs
        BY <1>1, NotesAreNodes
      <3> HIDE DEF n, Good
      <3> QED BY <1>3, <2>2, <3>1, <3>2
    <2> QED BY <2>1, <2>2
  <1>6. CASE r.failed
    <2>1. t = KeepOrFail(s, c)
      BY <1>2, <1>6 DEF LandTree
    <2> HIDE DEF t, n
    <2> QED BY <1>5, <1>6, <2>1 DEF Landing, t, n
  <1>7. CASE ~r.failed /\ Blank(c, r.content)
    <2>1. CASE n.dirty /\ p.owns[c] # <<>>
      <3>1. t = SetNode(s, c, NoteReadyDirty(n))
        BY <1>2, <1>7, <2>1 DEF LandTree, OnNode, SetNode
      <3>2. NoteReadyDirty(n) \in NodeRecs
        BY <1>1, NotesAreNodes
      <3> HIDE DEF t, n, Good
      <3>3. Good(t) /\ t.nodes[c] = NoteReadyDirty(n) /\ t.pool = p
        BY <1>3, <3>1, <3>2
      <3> QED BY <2>1, <3>3 DEF Landing, t, n, Good
    <2>2. CASE n.dirty /\ p.owns[c] = <<>>
      <3>1. t = SetNode(SetPool(s, p), c, NoteEmpty(n))
        <4>1. t = OnNode([s EXCEPT !.pool = IF n.dirty THEN @ ELSE Released(@, c)], c, NoteEmpty)
          BY <1>2, <1>7, <2>2 DEF LandTree
        <4>2. [s EXCEPT !.pool = IF n.dirty THEN @ ELSE Released(@, c)] = SetPool(s, p)
          BY <2>2 DEF SetPool
        <4>3. SetPool(s, p).nodes = s.nodes
          BY <1>1, PartsChange
        <4> HIDE DEF t
        <4> QED BY <4>1, <4>2, <4>3 DEF OnNode, SetNode
      <3>2. NoteEmpty(n) \in NodeRecs /\ Keeps(p, p, c)
        BY <1>1, NotesAreNodes DEF Keeps
      <3> HIDE DEF t, n, Good
      <3>3. Good(t) /\ t.nodes[c] = NoteEmpty(n) /\ t.pool = p
        BY <1>1, <1>4, <3>1, <3>2
      <3> QED BY <1>7, <2>2, <3>3 DEF Landing, t, n, Good
    <2>3. CASE ~n.dirty
      <3> DEFINE q == Released(p, c)
      <3>1. t = SetNode(SetPool(s, q), c, NoteEmpty(n))
        <4>1. t = OnNode([s EXCEPT !.pool = IF n.dirty THEN @ ELSE Released(@, c)], c, NoteEmpty)
          BY <1>2, <1>7, <2>3 DEF LandTree
        <4>2. [s EXCEPT !.pool = IF n.dirty THEN @ ELSE Released(@, c)] = SetPool(s, q)
          BY <2>3 DEF SetPool
        <4>3. SetPool(s, q).nodes = s.nodes
          <5>1. q \in Pools
            BY <1>1, ReleasedKeeps
          <5> HIDE DEF q
          <5> QED BY <5>1, PartsChange
        <4> HIDE DEF t, q
        <4> QED BY <4>1, <4>2, <4>3 DEF OnNode, SetNode
      <3>2. NoteEmpty(n) \in NodeRecs
        BY <1>1, NotesAreNodes
      <3>3. q \in Pools /\ Sound(q) /\ Keeps(p, q, c) /\ q.owns[c] = <<>>
        BY <1>1, ReleasedKeeps
      <3> HIDE DEF t, n, Good, q
      <3>4. Good(t) /\ t.nodes[c] = NoteEmpty(n) /\ t.pool = q
        BY <1>4, <3>1, <3>2, <3>3
      <3> QED BY <1>7, <2>3, <3>3, <3>4 DEF Landing, t, n, Good
    <2> QED BY <2>1, <2>2, <2>3
  <1>8. CASE ~r.failed /\ ~Blank(c, r.content) /\ ~Funds(p, Need[c])
    <2> DEFINE u == KeepOrFail(s, c)
    <2>1. t = [u EXCEPT !.pressure = @ + Need[c]]
      BY <1>2, <1>8 DEF LandTree
    <2>2. u \in Grounds
      BY <1>5
    <2> HIDE DEF u
    <2>3. t \in Grounds /\ t.nodes = u.nodes /\ t.shell = u.shell /\ t.pool = u.pool
      BY <1>1, <2>1, <2>2, PartsChange
    <2> HIDE DEF t, n
    <2> QED BY <1>5, <1>8, <2>3 DEF Landing, t, n, u
  <1>9. CASE ~r.failed /\ ~Blank(c, r.content) /\ Funds(p, Need[c])
    <2> DEFINE q == Replaced(p, c, Need[c], r.content)
    <2>1. /\ q \in Pools /\ Sound(q) /\ Keeps(p, q, c) /\ q.owns[c] # <<>>
          /\ \A x \in Range(q.owns[c]) : q.shows[x] = [of |-> c, content |-> r.content]
      BY <1>1, <1>9, ReplacedKeeps
    <2>2. t = SetNode(SetPool(s, q), c, NoteReady(n))
      <3>1. t = OnNode([s EXCEPT !.pool = Replaced(@, c, Need[c], r.content)], c, NoteReady)
        BY <1>2, <1>9 DEF LandTree
      <3>2. [s EXCEPT !.pool = Replaced(@, c, Need[c], r.content)] = SetPool(s, q)
        BY DEF SetPool
      <3> HIDE DEF q
      <3>3. SetPool(s, q).nodes = s.nodes
        BY <2>1, PartsChange
      <3> HIDE DEF t
      <3> QED BY <3>1, <3>2, <3>3 DEF OnNode, SetNode, q
    <2>3. NoteReady(n) \in NodeRecs
      BY <1>1, NotesAreNodes
    <2>4. Shows(q, c, r.content)
      <3> HIDE DEF q
      <3>1. q.owns[c] \in Seq(1..Pages)
        BY <1>1, <2>1 DEF Pools
      <3>2. Head(q.owns[c]) \in Range(q.owns[c])
        BY <2>1, <3>1, HeadIsOne
      <3> QED BY <2>1, <3>2 DEF Shows
    <2> HIDE DEF t, n, Good, q
    <2>5. Good(t) /\ t.nodes[c] = NoteReady(n) /\ t.pool = q
      BY <1>4, <2>1, <2>2, <2>3
    <2> QED BY <1>9, <2>4, <2>5 DEF Landing, t, n, Good
  <1> QED BY <1>6, <1>7, <1>8, <1>9

(* The three ways in which it can leave its chunk of the shell.            *)
ShellLanding(n, m, q, r) ==
  LET c == r.chunk
  IN  IF n = None THEN m = None
      ELSE \/ m = ShellFailed(n)
           \/ m = ShellEmpty(n) /\ ~r.failed /\ Blank(c, r.content)
           \/ m = ShellReady(n) /\ ~r.failed /\ Shows(q, c, r.content)

LEMMA LandShellKeeps ==
  ASSUME NEW s \in Grounds, Sound(s.pool), s.pool.up, NEW r \in AnswerRecs, r.chunk \in ShellChunks, r.shell
  PROVE  LET t == Land(s, r)
             c == r.chunk
         IN  /\ t \in Grounds /\ Sound(t.pool) /\ t.pool.up /\ t.nodes = s.nodes
             /\ \A d \in ShellChunks \ {c} : t.shell[d] = s.shell[d]
             /\ Keeps(s.pool, t.pool, c)
             /\ ShellLanding(s.shell[c], t.shell[c], t.pool, r)
  <1> DEFINE c == r.chunk
             n == s.shell[c]
             t == Land(s, r)
             p == s.pool
             Good(u) == /\ u \in Grounds /\ Sound(u.pool) /\ u.pool.up /\ u.nodes = s.nodes
                        /\ \A d \in ShellChunks \ {c} : u.shell[d] = s.shell[d]
                        /\ Keeps(p, u.pool, c)
  <1>1. /\ c \in ShellChunks /\ c \in Owners /\ p \in Pools /\ (n # None => n \in ShellRecs)
        /\ r.content \in Contents \cup {None} /\ Need[c] \in Nat /\ Need[c] # 0 /\ None \notin ShellRecs
    BY ConstantFacts DEF Grounds, AnswerRecs
  <1>2. t = LandShell(s, r)
    BY <1>1 DEF Land
  <1>3. ASSUME NEW u \in Grounds, u.nodes = s.nodes, u.shell = s.shell, Sound(u.pool), Keeps(p, u.pool, c)
        PROVE  /\ Good(u)
               /\ n # None => \A m \in ShellRecs : LET v == SetShell(u, c, m)
                                                   IN  Good(v) /\ v.shell[c] = m /\ v.pool = u.pool
    <2>1. u.pool.up
      BY <1>3 DEF Keeps
    <2>2. Good(u)
      BY <1>3, <2>1
    <2>3. ASSUME NEW m \in ShellRecs
          PROVE  LET v == SetShell(u, c, m) IN Good(v) /\ v.shell[c] = m /\ v.pool = u.pool
      <3> DEFINE v == SetShell(u, c, m)
      <3>1. /\ v \in Grounds /\ v.nodes = u.nodes /\ v.pool = u.pool
            /\ v.shell[c] = m /\ \A d \in ShellChunks \ {c} : v.shell[d] = u.shell[d]
        <4>1. c \in ShellChunks
          BY <1>1
        <4> HIDE DEF c
        <4> QED BY <4>1, PartsChange
      <3> HIDE DEF v
      <3> QED BY <1>3, <2>1, <3>1 DEF v
    <2> HIDE DEF Good
    <2> QED BY <2>2, <2>3
  <1>4. n # None => ShellFailed(n) \in ShellRecs /\ ShellReady(n) \in ShellRecs /\ ShellEmpty(n) \in ShellRecs
    BY <1>1, ShellNotes
  <1>5. s \in Grounds /\ Sound(s.pool) /\ Keeps(p, p, c)
    BY DEF Keeps
  <1>6. CASE r.failed
    <2>1. t = IF n = None THEN s ELSE SetShell(s, c, ShellFailed(n))
      BY <1>2, <1>6 DEF LandShell, OnShell, SetShell
    <2> HIDE DEF t, n, Good, c, p
    <2>2. Good(t) /\ (n # None => t.shell[c] = ShellFailed(n)) /\ (n = None => t = s)
      BY <1>3, <1>4, <1>5, <2>1 DEF p
    <2> QED BY <2>2 DEF ShellLanding, t, n, Good, c, p
  <1>7. CASE ~r.failed /\ Blank(c, r.content)
    <2> DEFINE q == Released(p, c)
               u == SetPool(s, q)
    <2>1. q \in Pools /\ Sound(q) /\ Keeps(p, q, c)
      BY <1>1, ReleasedKeeps
    <2>2. u \in Grounds /\ u.nodes = s.nodes /\ u.shell = s.shell /\ u.pool = q
      <3> HIDE DEF q
      <3> QED BY <2>1, PartsChange
    <2>3. t = IF n = None THEN u ELSE SetShell(u, c, ShellEmpty(n))
      <3>1. t = OnShell([s EXCEPT !.pool = Released(@, c)], c, ShellEmpty)
        BY <1>2, <1>7 DEF LandShell
      <3>2. [s EXCEPT !.pool = Released(@, c)] = u
        BY DEF SetPool
      <3> HIDE DEF t, u
      <3> QED BY <2>2, <3>1, <3>2 DEF OnShell, SetShell
    <2> HIDE DEF t, n, Good, c, p, u, q
    <2>4. Good(t) /\ (n # None => t.shell[c] = ShellEmpty(n)) /\ (n = None => t = u)
      BY <1>3, <1>4, <2>1, <2>2, <2>3
    <2> QED BY <1>7, <2>2, <2>4 DEF ShellLanding, t, n, Good, c, p
  <1>8. CASE ~r.failed /\ ~Blank(c, r.content) /\ ~Funds(p, Need[c])
    <2> DEFINE u == [s EXCEPT !.pressure = @ + Need[c]]
    <2>1. t = IF n = None THEN u ELSE SetShell(u, c, ShellFailed(n))
      <3>1. t = OnShell(u, c, ShellFailed)
        BY <1>2, <1>8 DEF LandShell
      <3>2. u.shell = s.shell
        BY <1>1, PartsChange
      <3> HIDE DEF t, u
      <3> QED BY <3>1, <3>2 DEF OnShell, SetShell
    <2>2. u \in Grounds /\ u.nodes = s.nodes /\ u.shell = s.shell /\ u.pool = p
      BY <1>1, PartsChange
    <2> HIDE DEF t, n, Good, c, p, u
    <2>3. Good(t) /\ (n # None => t.shell[c] = ShellFailed(n)) /\ (n = None => t = u)
      BY <1>3, <1>4, <1>5, <2>1, <2>2 DEF p
    <2> QED BY <2>2, <2>3 DEF ShellLanding, t, n, Good, c, p
  <1>9. CASE ~r.failed /\ ~Blank(c, r.content) /\ Funds(p, Need[c])
    <2> DEFINE q == Replaced(p, c, Need[c], r.content)
               u == SetPool(s, q)
    <2>1. /\ q \in Pools /\ Sound(q) /\ Keeps(p, q, c) /\ q.owns[c] # <<>>
          /\ \A x \in Range(q.owns[c]) : q.shows[x] = [of |-> c, content |-> r.content]
      BY <1>1, <1>9, ReplacedKeeps
    <2>2. u \in Grounds /\ u.nodes = s.nodes /\ u.shell = s.shell /\ u.pool = q
      <3> HIDE DEF q
      <3> QED BY <2>1, PartsChange
    <2>3. t = IF n = None THEN u ELSE SetShell(u, c, ShellReady(n))
      <3>1. t = OnShell([s EXCEPT !.pool = Replaced(@, c, Need[c], r.content)], c, ShellReady)
        BY <1>2, <1>9 DEF LandShell
      <3>2. [s EXCEPT !.pool = Replaced(@, c, Need[c], r.content)] = u
        BY DEF SetPool
      <3> HIDE DEF t, u
      <3> QED BY <2>2, <3>1, <3>2 DEF OnShell, SetShell
    <2>4. Shows(q, c, r.content)
      <3> HIDE DEF q
      <3>1. q.owns[c] \in Seq(1..Pages)
        BY <1>1, <2>1 DEF Pools
      <3>2. Head(q.owns[c]) \in Range(q.owns[c])
        BY <2>1, <3>1, HeadIsOne
      <3> QED BY <2>1, <3>2 DEF Shows
    <2> HIDE DEF t, n, Good, c, p, u, q
    <2>5. Good(t) /\ (n # None => t.shell[c] = ShellReady(n) /\ t.pool = q) /\ (n = None => t = u)
      BY <1>3, <1>4, <2>1, <2>2, <2>3
    <2> QED BY <1>9, <2>2, <2>4, <2>5 DEF ShellLanding, t, n, Good, c, p
  <1> QED BY <1>6, <1>7, <1>8, <1>9

-----------------------------------------------------------------------------
(* Types of the state, and a sound pool                                    *)

JobRecs == {j \in [chunk : TreeChunks \cup ShellChunks, shell : BOOLEAN, content : Contents] :
              j.shell = (j.chunk \in ShellChunks)}

(* A failure does not know the shell's mark.                               *)
Answers == {r \in AnswerRecs : /\ r.shell => r.chunk \in ShellChunks
                               /\ ~r.failed => r.shell = (r.chunk \in ShellChunks)}

LodType ==
  /\ view \in Views
  /\ field \in [Leaves -> Pieces]
  /\ ops \in [Leaves -> Nat]
  /\ marks \in SUBSET Leaves
  /\ recount \in BOOLEAN
  /\ nodes \in [TreeChunks -> NodeRecs \cup {None}]
  /\ shell \in [ShellChunks -> ShellRecs \cup {None}]
  /\ last \in Views \cup {None}
  /\ pool \in Pools
  /\ pressure \in Nat
  /\ walk \in [draws : SUBSET TreeChunks, requests : Seq(TreeChunks)]
  /\ batch \in Seq(JobRecs)
  /\ lag \in Nat
  /\ results \in Seq(Answers)
  /\ phase \in {"walk", "submit"}
  /\ left \in Nat
  /\ host \in Hosts

(* A pool that is not up is bare, and then no chunk is known; islands have *)
(* pages where there are islands.                                          *)
PoolIsSound ==
  /\ Sound(pool)
  /\ ~pool.up => /\ pool = FreshPool(FALSE)
                 /\ phase = "walk"
                 /\ \A c \in TreeChunks : nodes[c] = None
                 /\ \A c \in ShellChunks : shell[c] = None
  /\ ~On("island") => pool.owns["island shell"] = <<>> /\ pool.owns["island mesh"] = <<>>

PoolInv == LodType /\ PoolIsSound

(* A reload forgets the pages of island meshes, which it should not: where *)
(* there are islands and reloads, two owners may hold one page.            *)
ReloadsAlone == \A h \in Hosts : "reload" \in h.may => "island" \notin h.may

LEMMA FreshPools ==
  /\ FreshPool(FALSE) \in Pools /\ Sound(FreshPool(FALSE)) /\ ~FreshPool(FALSE).up
  /\ FreshPool(TRUE) \in Pools /\ Sound(FreshPool(TRUE)) /\ FreshPool(TRUE).up
  /\ FreshPool(TRUE).owns = FreshPool(FALSE).owns
  /\ \A up \in BOOLEAN : \A o \in Owners : FreshPool(up).owns[o] = <<>>
  <1> DEFINE none == [o \in Owners |-> <<>>]
             dark == [p \in 1..Pages |-> None]
             stack == [i \in 1..Pages |-> Pages + 1 - i]
  <1>1. Pages \in Nat
    BY ConstantFacts
  <1>2. <<>> \in Seq(1..Pages) /\ Range(<<>>) = {} /\ IsInjective(<<>>)
    BY DEF Range, IsInjective
  <1>3. none \in [Owners -> Seq(1..Pages)] /\ dark \in [1..Pages -> PageRecs \cup {None}]
    BY <1>2
  <1>4. \A i \in 1..Pages : Pages + 1 - i \in 1..Pages /\ Pages + 1 - (Pages + 1 - i) = i
    BY <1>1
  <1>5. stack \in [1..Pages -> 1..Pages]
    BY <1>4
  <1>6. stack \in Seq(1..Pages) /\ DOMAIN stack = 1..Pages
    BY <1>1, <1>5, PlacesMakeASequence
  <1>7. IsInjective(stack)
    BY <1>1, <1>6 DEF IsInjective
  <1>8. Range(stack) = 1..Pages
    BY <1>4, <1>5, <1>6 DEF Range
  <1>11. \A o \in Owners : none[o] = <<>>
    OBVIOUS
  <1> HIDE DEF none, dark, stack
  <1> DEFINE p == [up |-> FALSE, free |-> <<>>, owns |-> none, shows |-> dark]
             q == [up |-> TRUE, free |-> stack, owns |-> none, shows |-> dark]
  <1>9. FreshPool(FALSE) = p
    BY DEF FreshPool, none, dark
  <1>10. FreshPool(TRUE) = q
    BY DEF FreshPool, none, dark, stack
  <1>9a. p = [up |-> p.up, free |-> p.free, owns |-> p.owns, shows |-> p.shows]
         /\ ~p.up /\ p.free = <<>> /\ p.owns = none /\ p.shows = dark
    OBVIOUS
  <1>10a. q = [up |-> q.up, free |-> q.free, owns |-> q.owns, shows |-> q.shows]
          /\ q.up = TRUE /\ q.free = stack /\ q.owns = none /\ q.shows = dark
    OBVIOUS
  <1>9b. p.up = FALSE
    OBVIOUS
  <1> HIDE DEF p, q
  <1>12. p \in Pools /\ ~p.up
    BY <1>2, <1>3, <1>9a, <1>9b DEF Pools
  <1>13. q \in Pools /\ q.up
    BY <1>3, <1>6, <1>10a DEF Pools
  <1>14. TreeChunks \cup ShellChunks \subseteq Owners
    BY DEF Owners
  <1>15. Sound(p)
    <2>1. \A o \in Owners : Range(p.owns[o]) = {} /\ IsInjective(p.owns[o])
      BY <1>2, <1>9a, <1>11
    <2>2. \A c \in TreeChunks \cup ShellChunks : Range(p.owns[c]) = {}
      BY <1>14, <2>1
    <2> QED BY <1>2, <1>9a, <2>1, <2>2 DEF Sound
  <1>16. Sound(q)
    <2>1. \A o \in Owners : Range(q.owns[o]) = {} /\ IsInjective(q.owns[o])
      BY <1>2, <1>10a, <1>11
    <2>2. \A c \in TreeChunks \cup ShellChunks : Range(q.owns[c]) = {}
      BY <1>14, <2>1
    <2>3. 1..Pages = Range(q.free) \cup UNION {Range(q.owns[o]) : o \in Owners}
      BY <1>8, <1>10a, <2>1
    <2> QED BY <1>7, <1>10a, <2>1, <2>2, <2>3 DEF Sound
  <1>17. \A up \in BOOLEAN : FreshPool(up).owns = none
    BY DEF FreshPool, none
  <1> QED BY <1>9, <1>9b, <1>9a, <1>10, <1>10a, <1>11, <1>12, <1>13, <1>15, <1>16, <1>17

-----------------------------------------------------------------------------
(* The walk                                                                *)

SameButAge(m, n) ==
  m \in NodeRecs /\ m.state = n.state /\ m.building = n.building /\ m.dirty = n.dirty /\ m.refused = n.refused

LEMMA MarkedKeeps ==
  ASSUME LodType
  PROVE  /\ Marked(nodes) \in [TreeChunks -> NodeRecs \cup {None}]
         /\ MarkedShell \in [ShellChunks -> ShellRecs \cup {None}]
         /\ \A c \in TreeChunks :
              /\ nodes[c] = None => Marked(nodes)[c] = None
              /\ nodes[c] # None =>
                   Marked(nodes)[c] = IF Covers[c] \cap marks # {} THEN MarkDirty(nodes[c]) ELSE nodes[c]
         /\ \A c \in ShellChunks :
              /\ shell[c] = None => MarkedShell[c] = None
              /\ shell[c] # None =>
                   MarkedShell[c] = IF Covers[c] \cap marks # {} THEN [shell[c] EXCEPT !.dirty = TRUE] ELSE shell[c]
  <1>1. \A c \in TreeChunks : nodes[c] # None => nodes[c] \in NodeRecs /\ MarkDirty(nodes[c]) \in NodeRecs
    BY NotesAreNodes DEF LodType
  <1>2. \A c \in ShellChunks : shell[c] # None => shell[c] \in ShellRecs /\ [shell[c] EXCEPT !.dirty = TRUE] \in ShellRecs
    BY DEF LodType, ShellRecs
  <1>3. Marked(nodes) \in [TreeChunks -> NodeRecs \cup {None}]
    BY <1>1 DEF Marked
  <1>4. MarkedShell \in [ShellChunks -> ShellRecs \cup {None}]
    BY <1>2 DEF MarkedShell
  <1> QED BY <1>3, <1>4 DEF Marked, MarkedShell

(* What the walk draws, asks for and leaves of the nodes t.                *)
LEMMA WalkKeeps ==
  ASSUME LodType, NEW t \in [TreeChunks -> NodeRecs \cup {None}]
  PROVE  LET w == Walk(t)
         IN  /\ w.nodes \in [TreeChunks -> NodeRecs \cup {None}]
             /\ w.draws = {c \in Visited(t) \cap view.inside : t[c] # None /\ t[c].state = "ready" /\ ~Opens(t, c)}
             /\ w.draws \subseteq TreeChunks
             /\ w.requests \in Seq(TreeChunks) /\ IsInjective(w.requests)
             /\ \A c \in Range(w.requests) : Wanted(t, c)
             /\ \A c \in TreeChunks :
                  /\ c \in Visited(t) => w.nodes[c] # None /\ w.nodes[c].age = 0
                  /\ t[c] # None => w.nodes[c] # None
                  /\ w.nodes[c] # None => SameButAge(w.nodes[c], Node(t, c))
  <1> DEFINE seen == Visited(t) \cap view.inside
             ready == {c \in seen : t[c] # None /\ t[c].state = "ready"}
             drawn == {c \in ready : ~Opens(t, c)}
             eager == {c \in (seen \ ready) \cup drawn : c \notin view.hidden}
             asked == {c \in eager : Wanted(t, c)}
                        \cup {k \in UNION {Kids(c) : c \in eager \cap drawn \cap view.finer} : Wanted(t, k)}
             swept == {c \in TreeChunks : t[c] # None /\ t[c].dirty /\ Wanted(t, c)} \ asked
             marked == Visited(t) \cup asked
             aged == [c \in TreeChunks |->
                        IF c \in marked THEN [Node(t, c) EXCEPT !.age = 0]
                        ELSE IF t[c] = None THEN None
                        ELSE [t[c] EXCEPT !.age = IF @ < Old THEN @ + 1 ELSE Old]]
  <1>1. Walk(t) = [draws |-> drawn, requests |-> InOrder(asked) \o InOrder(swept), nodes |-> aged]
    BY DEF Walk
  <1>2. Visited(t) \subseteq TreeChunks
    BY LodAssumption DEF LodType, Visited, Sees
  <1>3. drawn \subseteq TreeChunks
    BY <1>2
  <1>4. asked \cap swept = {} /\ \A c \in asked \cup swept : Wanted(t, c)
    OBVIOUS
  <1> HIDE DEF asked, swept
  <1>5. Chunks \in Seq(TreeChunks) /\ IsInjective(Chunks)
    BY OctreeAssumption
  <1>6. /\ InOrder(asked) \in Seq(TreeChunks) /\ IsInjective(InOrder(asked)) /\ Range(InOrder(asked)) \subseteq asked
        /\ InOrder(swept) \in Seq(TreeChunks) /\ IsInjective(InOrder(swept)) /\ Range(InOrder(swept)) \subseteq swept
    BY <1>5, OnlyKeeps DEF InOrder
  <1> DEFINE requests == InOrder(asked) \o InOrder(swept)
  <1>7. requests \in Seq(TreeChunks) /\ IsInjective(requests) /\ Range(requests) \subseteq asked \cup swept
    BY <1>4, <1>6, CatKeeps
  <1> HIDE DEF marked
  <1>8. ASSUME NEW c \in TreeChunks
        PROVE  /\ aged[c] \in NodeRecs \cup {None}
               /\ c \in marked => aged[c] # None /\ aged[c].age = 0
               /\ t[c] # None => aged[c] # None
               /\ aged[c] # None => SameButAge(aged[c], Node(t, c))
    <2>1. Node(t, c) \in NodeRecs /\ (t[c] # None => Node(t, c) = t[c])
      BY NodeIsOne
    <2>2. None \notin NodeRecs /\ Old \in Nat
      BY ConstantFacts
    <2>3. CASE c \in marked
      <3> DEFINE m == [Node(t, c) EXCEPT !.age = 0]
      <3>1. m \in NodeRecs /\ m.age = 0 /\ SameButAge(m, Node(t, c))
        BY <2>1, <2>2 DEF NodeRecs, SameButAge
      <3>2. aged[c] = m
        BY <2>3
      <3> HIDE DEF m, aged
      <3> QED BY <2>2, <3>1, <3>2
    <2>4. CASE c \notin marked /\ t[c] = None
      BY <2>4
    <2>5. CASE c \notin marked /\ t[c] # None
      <3> DEFINE m == [t[c] EXCEPT !.age = IF @ < Old THEN @ + 1 ELSE Old]
      <3>1. m \in NodeRecs /\ SameButAge(m, t[c])
        <4>1. t[c] \in NodeRecs /\ t[c].age \in 0..Old
          BY <2>1, <2>5 DEF NodeRecs
        <4>2. (IF t[c].age < Old THEN t[c].age + 1 ELSE Old) \in 0..Old
          BY <2>2, <4>1
        <4> QED BY <4>1, <4>2 DEF NodeRecs, SameButAge
      <3>2. aged[c] = m
        BY <2>5
      <3> HIDE DEF m, aged
      <3> QED BY <2>1, <2>2, <2>5, <3>1, <3>2
    <2> QED BY <2>3, <2>4, <2>5
  <1>9. aged \in [TreeChunks -> NodeRecs \cup {None}]
    <2>1. aged = [c \in TreeChunks |-> aged[c]]
      OBVIOUS
    <2> HIDE DEF aged
    <2> QED BY <1>8, <2>1
  <1>10. Visited(t) \subseteq marked
    BY DEF marked
  <1> HIDE DEF aged, requests
  <1>11. /\ Walk(t).nodes = aged /\ Walk(t).requests = requests
         /\ Walk(t).draws = {c \in Visited(t) \cap view.inside : t[c] # None /\ t[c].state = "ready" /\ ~Opens(t, c)}
    BY <1>1 DEF requests
  <1> QED BY <1>3, <1>4, <1>7, <1>8, <1>9, <1>10, <1>11

-----------------------------------------------------------------------------
(* The tick, step by step                                                  *)

(* What the results land on, what they make of it, and what eviction       *)
(* leaves.                                                                 *)
Base == [nodes |-> Walk(Marked(nodes)).nodes, shell |-> MarkedShell,
         pool |-> IF pool.up THEN pool ELSE [FreshPool(TRUE) EXCEPT !.owns = pool.owns],
         pressure |-> pressure]
Landed == FoldLeft(Land, Base, results)
After == Evict(Landed)

LEMMA TickWalkIs ==
  ASSUME TickWalk
  PROVE  /\ phase = "walk" /\ phase' = "submit" /\ lag' \in {0, lag + 1}
         /\ nodes' = After.nodes /\ shell' = After.shell /\ pool' = After.pool /\ pressure' = After.pressure
         /\ walk' = [draws |-> Walk(Marked(nodes)).draws, requests |-> Walk(Marked(nodes)).requests]
         /\ marks' = {} /\ results' = <<>>
         /\ UNCHANGED <<view, field, ops, recount, relisted, last, batch, left, host>>
  <1>1. PICK w \in {Walk(Marked(nodes))} :
        \E s \in {Evict(FoldLeft(Land, [nodes |-> w.nodes, shell |-> MarkedShell,
                                        pool |-> IF pool.up THEN pool
                                                 ELSE [FreshPool(TRUE) EXCEPT !.owns = pool.owns],
                                        pressure |-> pressure], results))} :
           /\ nodes' = s.nodes /\ shell' = s.shell /\ pool' = s.pool /\ pressure' = s.pressure
           /\ walk' = [draws |-> w.draws, requests |-> w.requests]
    BY DEF TickWalk
  <1>2. w = Walk(Marked(nodes))
    OBVIOUS
  <1>3. \E s \in {After} :
           /\ nodes' = s.nodes /\ shell' = s.shell /\ pool' = s.pool /\ pressure' = s.pressure
           /\ walk' = [draws |-> Walk(Marked(nodes)).draws, requests |-> Walk(Marked(nodes)).requests]
    BY <1>1, <1>2 DEF After, Landed, Base
  <1>4. /\ phase = "walk" /\ phase' = "submit" /\ lag' \in {0, lag + 1} /\ marks' = {} /\ results' = <<>>
        /\ UNCHANGED <<view, field, ops, recount, relisted, last, batch, left, host>>
    BY DEF TickWalk, world
  <1> QED BY <1>3, <1>4

(* Any answer leaves a sound pool, and the pages of the islands alone.     *)
IslandPagesStay(p, q) == \A o \in {"island shell", "island mesh"} : q.owns[o] = p.owns[o]

LEMMA LandKeeps ==
  ASSUME NEW s \in Grounds, Sound(s.pool), s.pool.up, NEW r \in Answers
  PROVE  LET t == Land(s, r)
         IN  t \in Grounds /\ Sound(t.pool) /\ t.pool.up /\ IslandPagesStay(s.pool, t.pool)
  <1>1. r \in AnswerRecs /\ (r.shell => r.chunk \in ShellChunks) /\ r.chunk \in TreeChunks \cup ShellChunks
        /\ r.shell \in BOOLEAN
    BY DEF Answers, AnswerRecs
  <1>2. \A c \in TreeChunks \cup ShellChunks : {"island shell", "island mesh"} \subseteq Owners \ {c}
    BY ConstantFacts
  <1>3. CASE r.shell
    <2> DEFINE t == Land(s, r)
    <2>1. t \in Grounds /\ Sound(t.pool) /\ t.pool.up /\ Keeps(s.pool, t.pool, r.chunk)
      BY <1>1, <1>3, LandShellKeeps
    <2> HIDE DEF t
    <2> QED BY <1>1, <1>2, <2>1 DEF Keeps, IslandPagesStay, t
  <1>4. CASE ~r.shell /\ r.chunk \in ShellChunks
    BY <1>4 DEF Land, IslandPagesStay
  <1>5. CASE ~r.shell /\ r.chunk \in TreeChunks
    <2> DEFINE t == Land(s, r)
    <2>1. t \in Grounds /\ Sound(t.pool) /\ t.pool.up /\ Keeps(s.pool, t.pool, r.chunk)
      BY <1>1, <1>5, LandTreeKeeps
    <2> HIDE DEF t
    <2> QED BY <1>1, <1>2, <2>1 DEF Keeps, IslandPagesStay, t
  <1> QED BY <1>1, <1>3, <1>4, <1>5

(* What the results land on is of the right kind.                          *)
LEMMA BaseIsGround ==
  ASSUME PoolInv
  PROVE  /\ Base \in Grounds /\ Sound(Base.pool) /\ Base.pool.up
         /\ Base.nodes = Walk(Marked(nodes)).nodes /\ Base.shell = MarkedShell
         /\ Base.pool.owns = pool.owns
         /\ pool.up => Base.pool = pool
  <1>1. LodType
    BY DEF PoolInv
  <1>2. Marked(nodes) \in [TreeChunks -> NodeRecs \cup {None}] /\ MarkedShell \in [ShellChunks -> ShellRecs \cup {None}]
    BY <1>1, MarkedKeeps
  <1>3. Walk(Marked(nodes)).nodes \in [TreeChunks -> NodeRecs \cup {None}]
    BY <1>1, <1>2, WalkKeeps
  <1> DEFINE p == IF pool.up THEN pool ELSE [FreshPool(TRUE) EXCEPT !.owns = pool.owns]
  <1>4. p \in Pools /\ Sound(p) /\ p.up /\ p.owns = pool.owns /\ (pool.up => p = pool)
    <2>1. CASE pool.up
      BY <2>1 DEF PoolInv, PoolIsSound, LodType
    <2>2. CASE ~pool.up
      <3>1. pool.owns = FreshPool(TRUE).owns
        BY <2>2, FreshPools DEF PoolInv, PoolIsSound
      <3>2. FreshPool(TRUE) \in Pools /\ Sound(FreshPool(TRUE)) /\ FreshPool(TRUE).up
        BY FreshPools
      <3>3. [FreshPool(TRUE) EXCEPT !.owns = FreshPool(TRUE).owns] = FreshPool(TRUE)
        <4> DEFINE q == FreshPool(TRUE)
        <4> SUFFICES [q EXCEPT !.owns = q.owns] = q
          OBVIOUS
        <4> HIDE DEF q
        <4>1. q \in Pools
          BY <3>2 DEF q
        <4> QED BY <4>1 DEF Pools
      <3>4. p = FreshPool(TRUE)
        BY <2>2, <3>1, <3>3
      <3> HIDE DEF p
      <3> QED BY <2>2, <3>1, <3>2, <3>4
    <2> QED BY <2>1, <2>2
  <1>5. pressure \in Nat
    BY <1>1 DEF LodType
  <1>6. Base = [nodes |-> Walk(Marked(nodes)).nodes, shell |-> MarkedShell, pool |-> p, pressure |-> pressure]
    BY DEF Base
  <1> HIDE DEF p
  <1> QED BY <1>2, <1>3, <1>4, <1>5, <1>6 DEF Grounds

(* The tick leaves a sound pool.                                           *)
LEMMA AfterIsGround ==
  ASSUME PoolInv
  PROVE  /\ Landed \in Grounds /\ Sound(Landed.pool) /\ Landed.pool.up
         /\ After \in Grounds /\ Sound(After.pool) /\ After.pool.up /\ Spared(Landed, After)
         /\ IslandPagesStay(pool, After.pool)
  <1> DEFINE good == {t \in Grounds : Sound(t.pool) /\ t.pool.up /\ IslandPagesStay(pool, t.pool)}
             n == Len(results)
             W == [s \in SUBSET (1..n) |-> good]
  <1>1. results \in Seq(Answers) /\ n \in Nat /\ DOMAIN results = 1..n
    <2>1. results \in Seq(Answers)
      BY DEF PoolInv, LodType
    <2> QED BY <2>1, LenProperties
  <1>2. Base \in good
    BY BaseIsGround DEF IslandPagesStay
  <1>3. ASSUME NEW w \in good, NEW i \in 1..n PROVE Land(w, results[i]) \in good
    <2>1. results[i] \in Answers
      BY <1>1
    <2> DEFINE t == Land(w, results[i])
    <2>2. w \in Grounds /\ Sound(w.pool) /\ w.pool.up /\ IslandPagesStay(pool, w.pool)
      BY <1>3
    <2>3. t \in Grounds /\ Sound(t.pool) /\ t.pool.up /\ IslandPagesStay(w.pool, t.pool)
      BY <2>1, <2>2, LandKeeps
    <2> HIDE DEF t
    <2>4. t \in good
      BY <2>2, <2>3 DEF IslandPagesStay
    <2> QED BY <2>4 DEF t
  <1>4. \A s \in SUBSET (1..n) : s # {} => Max(s) \in 1..n /\ s \ {Max(s)} \in SUBSET (1..n)
    BY <1>1, LastPlaceIsOne
  <1> HIDE DEF good, n
  <1>5. \A s \in SUBSET (1..n) : s # {} => \A w \in W[s \ {Max(s)}] : Land(w, results[Max(s)]) \in W[s]
    BY <1>3, <1>4
  <1>6. Base \in W[{}]
    BY <1>2
  <1>7. Landed \in W[1..n]
    <2> HIDE DEF W
    <2> QED BY <1>1, <1>5, <1>6, LandsStay DEF Landed, n
  <1>8. Landed \in good
    BY <1>7
  <1>9. Landed \in Grounds /\ Sound(Landed.pool) /\ Landed.pool.up /\ IslandPagesStay(pool, Landed.pool)
    BY <1>8 DEF good
  <1>10. After \in Grounds /\ Sound(After.pool) /\ Spared(Landed, After)
    BY <1>9, EvictKeeps DEF After
  <1>11. IslandPagesStay(pool, After.pool) /\ After.pool.up
    <2>1. {"island shell", "island mesh"} \subseteq Owners \ TreeChunks
      BY ConstantFacts
    <2> QED BY <1>9, <1>10, <2>1 DEF Spared, IslandPagesStay
  <1> QED BY <1>9, <1>10, <1>11

(* The islands' pages change and no others.                                *)
LEMMA ContouredKeeps ==
  ASSUME NEW p \in Pools, Sound(p), NEW o \in Owners
  PROVE  LET q == Contoured(p, o)
         IN  q \in Pools /\ Sound(q) /\ Keeps(p, q, o)
  <1>1. CASE Funds(p, IslandNeed)
    <2>1. IslandNeed \in Nat /\ None \in Contents \cup {None}
      BY ConstantFacts
    <2>2. LET q == Replaced(p, o, IslandNeed, None) IN q \in Pools /\ Sound(q) /\ Keeps(p, q, o)
      BY <1>1, <2>1, ReplacedKeeps
    <2> QED BY <1>1, <2>2 DEF Contoured
  <1>2. CASE ~Funds(p, IslandNeed)
    <2>1. Contoured(p, o) = p
      BY <1>2 DEF Contoured
    <2> QED BY <2>1 DEF Keeps
  <1> QED BY <1>1, <1>2

Far(o) == o \in Owners \ {"island shell", "island mesh"}
KeepsFar(p, q) ==
  /\ q.up = p.up
  /\ \A o \in Owners : Far(o) => q.owns[o] = p.owns[o] /\ \A x \in Range(p.owns[o]) : q.shows[x] = p.shows[x]

LEMMA IslandKeeps ==
  ASSUME NEW p \in Pools, Sound(p), p = pool, NEW live \in BOOLEAN, NEW anew \in BOOLEAN
  PROVE  LET q == IslandPages(live, anew)
         IN  q \in Pools /\ Sound(q) /\ KeepsFar(p, q)
  <1> DEFINE Good(q) == q \in Pools /\ Sound(q) /\ KeepsFar(p, q)
             p1 == Released(p, "island shell")
             p2 == Released(p1, "island mesh")
             p3 == Contoured(p2, "island shell")
             p4 == Contoured(p3, "island mesh")
  <1>1. "island shell" \in Owners /\ "island mesh" \in Owners
    BY ConstantFacts
  <1>2. Good(p)
    BY DEF KeepsFar
  <1>3. ASSUME NEW q, NEW r, NEW o \in {"island shell", "island mesh"},
               Good(q), r \in Pools, Sound(r), Keeps(q, r, o)
        PROVE  Good(r)
    <2>1. \A w \in Owners : Far(w) => w \in Owners \ {o}
      BY DEF Far
    <2>2. KeepsFar(p, q) /\ Keeps(q, r, o)
      BY <1>3
    <2>3. r.up = p.up
      BY <2>2 DEF Keeps, KeepsFar
    <2>4. ASSUME NEW w \in Owners, Far(w)
          PROVE  r.owns[w] = p.owns[w] /\ \A x \in Range(p.owns[w]) : r.shows[x] = p.shows[x]
      <3>1. w \in Owners \ {o} /\ q.owns[w] = p.owns[w] /\ \A x \in Range(p.owns[w]) : q.shows[x] = p.shows[x]
        BY <2>1, <2>2, <2>4 DEF KeepsFar
      <3>2. r.owns[w] = q.owns[w] /\ \A x \in Range(q.owns[w]) : r.shows[x] = q.shows[x]
        BY <2>2, <3>1 DEF Keeps
      <3> QED BY <3>1, <3>2
    <2>5. KeepsFar(p, r)
      BY <2>3, <2>4 DEF KeepsFar
    <2> QED BY <1>3, <2>5
  <1>4. Good(p1)
    <2>1. p1 \in Pools /\ Sound(p1) /\ Keeps(p, p1, "island shell")
      BY <1>1, ReleasedKeeps
    <2> HIDE DEF Good, p1
    <2> QED BY <1>2, <1>3, <2>1
  <1>5. Good(p2)
    <2>1. p2 \in Pools /\ Sound(p2) /\ Keeps(p1, p2, "island mesh")
      <3>1. p1 \in Pools /\ Sound(p1)
        BY <1>4
      <3> HIDE DEF p1
      <3> QED BY <1>1, <3>1, ReleasedKeeps
    <2> HIDE DEF Good, p1, p2
    <2> QED BY <1>4, <1>3, <2>1
  <1>6. Good(p3)
    <2>1. p3 \in Pools /\ Sound(p3) /\ Keeps(p2, p3, "island shell")
      <3>1. p2 \in Pools /\ Sound(p2)
        BY <1>5
      <3> HIDE DEF p2
      <3> QED BY <1>1, <3>1, ContouredKeeps
    <2> HIDE DEF Good, p2, p3
    <2> QED BY <1>5, <1>3, <2>1
  <1>7. Good(p4)
    <2>1. p4 \in Pools /\ Sound(p4) /\ Keeps(p3, p4, "island mesh")
      <3>1. p3 \in Pools /\ Sound(p3)
        BY <1>6
      <3> HIDE DEF p3
      <3> QED BY <1>1, <3>1, ContouredKeeps
    <2> HIDE DEF Good, p3, p4
    <2> QED BY <1>6, <1>3, <2>1
  <1>8. IslandPages(live, anew) \in {p, p2, p4}
    BY DEF IslandPages
  <1> HIDE DEF Good, p2, p4
  <1>9. Good(IslandPages(live, anew))
    BY <1>2, <1>5, <1>7, <1>8
  <1> QED BY <1>9 DEF Good

(* What is chosen to be built, once each, and only if nothing is.          *)
LEMMA ContentIsOne ==
  ASSUME LodType, NEW c \in TreeChunks \cup ShellChunks
  PROVE  Content(c) \in Contents
  <1>1. Covers[c] \in SUBSET Leaves
    BY ConstantFacts
  <1>2. Content(c) \in [Covers[c] -> Pieces]
    BY <1>1 DEF Content, LodType
  <1> QED BY <1>1, <1>2 DEF Contents

LEMMA ChosenFacts ==
  ASSUME LodType
  PROVE  /\ Chosen \in Seq(TreeChunks \cup ShellChunks)
         /\ batch # <<>> => Chosen = <<>>
         /\ \A c \in Range(Chosen) : IF c \in ShellChunks THEN ShellWants(c) ELSE c \in Range(walk.requests)
         /\ IsInjective(walk.requests) => IsInjective(Chosen)
  <1> DEFINE all == TreeChunks \cup ShellChunks
             wanting == {c \in ShellChunks : ShellWants(c)}
             shells == FirstOf(PerTick, Only(Shells, wanting))
             rest == FirstOf(PerTick - Len(shells), walk.requests)
  <1>1. Shells \in Seq(ShellChunks) /\ IsInjective(Shells) /\ PerTick \in Nat /\ TreeChunks \cap ShellChunks = {}
    BY OctreeAssumption, ConstantFacts
  <1>2. /\ Only(Shells, wanting) \in Seq(ShellChunks) /\ Range(Only(Shells, wanting)) \subseteq wanting
        /\ IsInjective(Only(Shells, wanting))
    BY <1>1, OnlyKeeps
  <1>3. /\ shells \in Seq(ShellChunks) /\ Len(shells) \in Nat /\ Len(shells) <= PerTick
        /\ Range(shells) \subseteq wanting /\ IsInjective(shells)
    <2> DEFINE some == Only(Shells, wanting)
    <2> HIDE DEF some, wanting
    <2>1. FirstOf(PerTick, some) \in Seq(ShellChunks) /\ Len(FirstOf(PerTick, some)) <= PerTick
          /\ Range(FirstOf(PerTick, some)) \subseteq wanting /\ IsInjective(FirstOf(PerTick, some))
      BY <1>1, <1>2, FirstKeeps DEF some
    <2> QED BY <2>1, LenProperties DEF some
  <1>4. PerTick - Len(shells) \in Nat
    <2> HIDE DEF shells
    <2> QED BY <1>1, <1>3
  <1>5. walk.requests \in Seq(TreeChunks)
    BY DEF LodType
  <1>6. /\ rest \in Seq(TreeChunks) /\ Range(rest) \subseteq Range(walk.requests)
        /\ IsInjective(walk.requests) => IsInjective(rest)
    <2> HIDE DEF shells
    <2> QED BY <1>4, <1>5, FirstKeeps
  <1> HIDE DEF shells, rest
  <1>7. Range(shells) \subseteq ShellChunks /\ Range(rest) \subseteq TreeChunks
    BY <1>3, <1>6, HeadIsOne
  <1>8. shells \in Seq(all) /\ rest \in Seq(all)
    BY <1>3, <1>6, SeqDef
  <1>9. /\ shells \o rest \in Seq(all) /\ Range(shells \o rest) = Range(shells) \cup Range(rest)
        /\ IsInjective(walk.requests) => IsInjective(shells \o rest)
    <2> HIDE DEF all
    <2> QED BY <1>1, <1>3, <1>6, <1>7, <1>8, CatKeeps
  <1>10. Chosen = IF batch # <<>> THEN <<>> ELSE shells \o rest
    BY DEF Chosen, shells, rest
  <1>11. CASE batch # <<>>
    BY <1>10, <1>11 DEF Range, IsInjective
  <1>12. CASE batch = <<>>
    <2>1. ASSUME NEW c \in Range(Chosen)
          PROVE  IF c \in ShellChunks THEN ShellWants(c) ELSE c \in Range(walk.requests)
      <3>1. c \in Range(shells) \/ c \in Range(rest)
        BY <1>9, <1>10, <1>12, <2>1
      <3> QED BY <1>1, <1>3, <1>6, <1>7, <3>1
    <2> QED BY <1>9, <1>10, <1>12, <2>1
  <1> QED BY <1>11, <1>12

(* What the worker is sent.                                                *)
Jobs == Only(Chosen, {c \in Range(Chosen) : ~OverCap(c)})
Sending == [i \in DOMAIN Jobs |-> Job(Jobs[i])]

LEMMA SendingFacts ==
  ASSUME LodType
  PROVE  /\ Jobs \in Seq(TreeChunks \cup ShellChunks) /\ Range(Jobs) = {c \in Range(Chosen) : ~OverCap(c)}
         /\ batch # <<>> => Jobs = <<>>
         /\ IsInjective(walk.requests) => IsInjective(Jobs)
         /\ Sending \in Seq(JobRecs) /\ DOMAIN Sending = DOMAIN Jobs
         /\ \A i \in DOMAIN Jobs : Sending[i] = Job(Jobs[i])
         /\ batch \o Sending = IF batch = <<>> THEN Sending ELSE batch
  <1> DEFINE all == TreeChunks \cup ShellChunks
             S == {c \in Range(Chosen) : ~OverCap(c)}
  <1>1. /\ Chosen \in Seq(all) /\ (batch # <<>> => Chosen = <<>>)
        /\ IsInjective(walk.requests) => IsInjective(Chosen)
    BY ChosenFacts
  <1>2. /\ Jobs \in Seq(all) /\ Range(Jobs) = S
        /\ IsInjective(walk.requests) => IsInjective(Jobs)
    <2>1. Range(Chosen) \cap S = S
      OBVIOUS
    <2> HIDE DEF all, S
    <2> QED BY <1>1, <2>1, OnlyKeeps DEF Jobs, S
  <1>3. batch # <<>> => Jobs = <<>>
    <2>1. Chosen = <<>> => Range(Chosen) = {}
      BY DEF Range
    <2>2. Jobs = <<>> <=> Range(Jobs) = {}
      BY <1>2, HeadIsOne
    <2> QED BY <1>1, <1>2, <2>1, <2>2
  <1>4. \A c \in all : Job(c) \in JobRecs
    BY ContentIsOne DEF Job, JobRecs
  <1>5. Len(Jobs) \in Nat /\ DOMAIN Jobs = 1..Len(Jobs) /\ \A i \in DOMAIN Jobs : Jobs[i] \in all
    BY <1>2, LenProperties
  <1>6. Sending \in [1..Len(Jobs) -> JobRecs]
    <2> HIDE DEF all
    <2> QED BY <1>4, <1>5 DEF Sending
  <1>7. Sending \in Seq(JobRecs) /\ DOMAIN Sending = DOMAIN Jobs
    BY <1>5, <1>6, PlacesMakeASequence
  <1>8. batch \in Seq(JobRecs)
    BY DEF LodType
  <1>9. batch # <<>> => Sending = <<>>
    <2> SUFFICES ASSUME batch # <<>> PROVE Sending = <<>>
      OBVIOUS
    <2>1. Jobs = <<>>
      BY <1>3
    <2>2. DOMAIN Sending = {}
      BY <1>7, <2>1
    <2>3. Range(Sending) = {}
      BY <2>2 DEF Range
    <2> QED BY <1>7, <2>3, HeadIsOne
  <1>10. batch \o Sending = IF batch = <<>> THEN Sending ELSE batch
    <2> HIDE DEF Sending
    <2>1. batch \o <<>> = batch /\ <<>> \o Sending = Sending
      BY <1>7, <1>8, ConcatEmptySeq
    <2> QED BY <1>9, <2>1
  <1> QED BY <1>2, <1>3, <1>7, <1>10 DEF Sending

(* The second half of the tick.                                            *)
LEMMA SubmitIs ==
  ASSUME LodType, NEW taken \in BOOLEAN, TickSubmit(taken)
  PROVE  /\ phase = "submit" /\ phase' = "walk" /\ (~taken => Jobs # <<>>)
         /\ batch' = IF taken /\ batch = <<>> THEN Sending ELSE batch
         /\ nodes' = [c \in TreeChunks |-> IF c \in Range(Chosen) THEN Sent(Node(nodes, c), c, taken) ELSE nodes[c]]
         /\ shell' = [c \in ShellChunks |-> IF c \in Range(Chosen) THEN ShellSent(Refreshed[c], c, taken)
                                            ELSE Refreshed[c]]
         /\ pool' = Dropped(pool) /\ last' = view /\ recount' = FALSE
         /\ UNCHANGED <<view, field, ops, marks, pressure, walk, lag, results, host>>
  <1>1. batch' = IF taken THEN batch \o Sending ELSE batch
    BY DEF TickSubmit, Jobs, Sending
  <1>2. batch' = IF taken /\ batch = <<>> THEN Sending ELSE batch
    BY <1>1, SendingFacts
  <1> QED BY <1>2 DEF TickSubmit, Jobs, world

LEMMA SentAreNodes ==
  ASSUME NEW c \in TreeChunks, NEW n \in NodeRecs, NEW taken \in BOOLEAN
  PROVE  Sent(n, c, taken) \in NodeRecs
  <1>1. NoteBuilding(n) \in NodeRecs
    BY NotesAreNodes
  <1> DEFINE m == NoteBuilding(n)
             has == pool.owns[c] # <<>>
  <1>2. /\ NoteRefused(m, has) \in NodeRecs /\ NoteReadyDirty(m) \in NodeRecs /\ NoteFailed(m) \in NodeRecs
    <2>1. has \in BOOLEAN
      OBVIOUS
    <2> HIDE DEF m, has
    <2> QED BY <1>1, <2>1, NotesAreNodes DEF m
  <1>3. Sent(n, c, taken) = IF OverCap(c) THEN NoteRefused(m, has)
                            ELSE IF taken THEN m ELSE IF has THEN NoteReadyDirty(m) ELSE NoteFailed(m)
    BY DEF Sent
  <1> HIDE DEF m, has
  <1> QED BY <1>1, <1>2, <1>3 DEF m

LEMMA RefreshedKeeps ==
  ASSUME LodType
  PROVE  /\ Refreshed \in [ShellChunks -> ShellRecs \cup {None}]
         /\ \A c \in ShellChunks : Refreshed[c] = IF c \notin Candidates THEN None
                                                  ELSE IF shell[c] = None THEN NewShell ELSE shell[c]
         /\ \A c \in ShellChunks : ShellWants(c) => Refreshed[c] \in ShellRecs
  <1>1. NewShell \in ShellRecs
    BY DEF NewShell, ShellRecs, StateNames
  <1>2. Refreshed \in [ShellChunks -> ShellRecs \cup {None}]
    BY <1>1 DEF Refreshed, LodType
  <1>3. \A c \in ShellChunks : ShellWants(c) => Refreshed[c] # None
    BY DEF ShellWants
  <1> QED BY <1>2, <1>3 DEF Refreshed

LEMMA ShellSentIs ==
  ASSUME NEW c \in ShellChunks, NEW n \in ShellRecs, NEW taken \in BOOLEAN
  PROVE  ShellSent(n, c, taken) \in ShellRecs
  BY DEF ShellSent, ShellRecs, StateNames

-----------------------------------------------------------------------------
(* Types and a sound pool are kept                                         *)

LEMMA HostFacts ==
  ASSUME NEW h \in Hosts
  PROVE  h.may \subseteq AllEvents /\ h.events \in Nat
  BY LodAssumption

LEMMA PoolInit ==
  ASSUME Init
  PROVE  PoolInv
  <1>1. pool = FreshPool(FALSE) /\ FreshPool(FALSE) \in Pools /\ Sound(FreshPool(FALSE))
        /\ \A o \in Owners : FreshPool(FALSE).owns[o] = <<>>
    BY FreshPools DEF Init
  <1>2. view \in Views /\ host \in Hosts /\ left \in Nat
    BY LodAssumption, HostFacts DEF Init
  <1>3. field \in [Leaves -> Pieces]
    BY LodAssumption DEF Init, Pieces
  <1>4. ops \in [Leaves -> Nat]
    BY DEF Init
  <1>5. walk \in [draws : SUBSET TreeChunks, requests : Seq(TreeChunks)]
    BY DEF Init, NoWalk
  <1>6. batch \in Seq(JobRecs) /\ results \in Seq(Answers)
    BY DEF Init
  <1>7. /\ nodes \in [TreeChunks -> NodeRecs \cup {None}] /\ shell \in [ShellChunks -> ShellRecs \cup {None}]
        /\ \A c \in TreeChunks : nodes[c] = None
        /\ \A c \in ShellChunks : shell[c] = None
    BY DEF Init
  <1>8. LodType
    <2>1. /\ marks \in SUBSET Leaves /\ recount \in BOOLEAN /\ last \in Views \cup {None}
          /\ pressure \in Nat /\ lag \in Nat /\ phase \in {"walk", "submit"} /\ phase = "walk"
      BY DEF Init
    <2> QED BY <1>1, <1>2, <1>3, <1>4, <1>5, <1>6, <1>7, <2>1 DEF LodType
  <1>9. phase = "walk"
    BY DEF Init
  <1>10. PoolIsSound
    BY <1>1, <1>7, <1>9, ConstantFacts DEF PoolIsSound
  <1> QED BY <1>8, <1>10 DEF PoolInv

(* The tick.                                                               *)
LEMMA PoolTickWalk ==
  ASSUME PoolInv, TickWalk
  PROVE  PoolInv'
  <1>1. LodType
    BY DEF PoolInv
  <1>2. /\ phase = "walk" /\ phase' = "submit" /\ lag' \in {0, lag + 1}
        /\ nodes' = After.nodes /\ shell' = After.shell /\ pool' = After.pool /\ pressure' = After.pressure
        /\ walk' = [draws |-> Walk(Marked(nodes)).draws, requests |-> Walk(Marked(nodes)).requests]
        /\ marks' = {} /\ results' = <<>>
        /\ UNCHANGED <<view, field, ops, recount, relisted, last, batch, left, host>>
    BY TickWalkIs
  <1>3. After \in Grounds /\ Sound(After.pool) /\ After.pool.up /\ IslandPagesStay(pool, After.pool)
    BY AfterIsGround
  <1>4. /\ After.nodes \in [TreeChunks -> NodeRecs \cup {None}]
        /\ After.shell \in [ShellChunks -> ShellRecs \cup {None}]
        /\ After.pool \in Pools /\ After.pressure \in Nat
    BY <1>3 DEF Grounds
  <1>5. Walk(Marked(nodes)).draws \subseteq TreeChunks /\ Walk(Marked(nodes)).requests \in Seq(TreeChunks)
    BY <1>1, MarkedKeeps, WalkKeeps
  <1>6. LodType'
    <2>1. walk' \in [draws : SUBSET TreeChunks, requests : Seq(TreeChunks)]
      BY <1>2, <1>5
    <2>2. lag' \in Nat /\ <<>> \in Seq(Answers) /\ {} \in SUBSET Leaves
      BY <1>1, <1>2 DEF LodType
    <2>3. view' = view /\ field' = field /\ ops' = ops /\ recount' = recount /\ last' = last
          /\ batch' = batch /\ left' = left /\ host' = host
      BY <1>2
    <2> QED BY <1>1, <1>2, <1>4, <2>1, <2>2, <2>3 DEF LodType, Contents, Pieces, NodeRecs, Pools, JobRecs, Answers
  <1>7. PoolIsSound'
    <2>1. Sound(pool)' /\ pool'.up
      BY <1>2, <1>3 DEF Sound
    <2>2. ~On("island") => pool'.owns["island shell"] = <<>> /\ pool'.owns["island mesh"] = <<>>
      BY <1>2, <1>3 DEF PoolInv, PoolIsSound, IslandPagesStay
    <2>3. On("island")' <=> On("island")
      BY <1>2 DEF On
    <2> QED BY <2>1, <2>2, <2>3 DEF PoolIsSound
  <1> QED BY <1>6, <1>7 DEF PoolInv

LEMMA PoolTickSubmit ==
  ASSUME PoolInv, NEW taken \in BOOLEAN, TickSubmit(taken), left' \in Nat
  PROVE  PoolInv'
  <1>1. LodType
    BY DEF PoolInv
  <1>2. /\ phase = "submit" /\ phase' = "walk"
        /\ batch' = IF taken /\ batch = <<>> THEN Sending ELSE batch
        /\ nodes' = [c \in TreeChunks |-> IF c \in Range(Chosen) THEN Sent(Node(nodes, c), c, taken) ELSE nodes[c]]
        /\ shell' = [c \in ShellChunks |-> IF c \in Range(Chosen) THEN ShellSent(Refreshed[c], c, taken)
                                           ELSE Refreshed[c]]
        /\ pool' = Dropped(pool) /\ last' = view /\ recount' = FALSE
        /\ UNCHANGED <<view, field, ops, marks, pressure, walk, lag, results, host>>
    BY <1>1, SubmitIs
  <1>3. pool \in Pools /\ Sound(pool) /\ pool.up
    BY <1>2 DEF PoolInv, PoolIsSound, LodType
  <1> DEFINE q == Dropped(pool)
  <1>4. q \in Pools /\ Sound(q) /\ q.up /\ \A o \in Owners : ~Departs(o) => q.owns[o] = pool.owns[o]
    BY <1>3, DroppedKeeps
  <1>5. batch' \in Seq(JobRecs)
    BY <1>1, <1>2, SendingFacts DEF LodType
  <1>6. nodes' \in [TreeChunks -> NodeRecs \cup {None}]
    <2>1. nodes \in [TreeChunks -> NodeRecs \cup {None}]
      BY <1>1 DEF LodType
    <2>2. \A c \in TreeChunks : Sent(Node(nodes, c), c, taken) \in NodeRecs
      BY <2>1, NodeIsOne, SentAreNodes
    <2> QED BY <1>2, <2>1, <2>2
  <1>7. shell' \in [ShellChunks -> ShellRecs \cup {None}]
    <2>1. Refreshed \in [ShellChunks -> ShellRecs \cup {None}]
      BY <1>1, RefreshedKeeps
    <2>2. \A c \in ShellChunks : c \in Range(Chosen) => ShellSent(Refreshed[c], c, taken) \in ShellRecs
      <3>1. \A c \in ShellChunks : c \in Range(Chosen) => Refreshed[c] \in ShellRecs
        BY <1>1, ChosenFacts, RefreshedKeeps
      <3> QED BY <3>1, ShellSentIs
    <2> QED BY <1>2, <2>1, <2>2
  <1>8. LodType'
    <2>1. view' = view /\ field' = field /\ ops' = ops /\ marks' = marks /\ pressure' = pressure /\ walk' = walk
          /\ lag' = lag /\ results' = results /\ host' = host /\ recount' \in BOOLEAN /\ last' = view /\ phase' = "walk"
          /\ pool' = q
      BY <1>2
    <2> HIDE DEF q
    <2> QED BY <1>1, <1>4, <1>5, <1>6, <1>7, <2>1 DEF LodType
  <1>9. PoolIsSound'
    <2> HIDE DEF q
    <2>0. pool' = q
      BY <1>2 DEF q
    <2>1. Sound(pool)' /\ pool'.up
      BY <2>0, <1>4 DEF Sound
    <2>2. ~On("island") => pool'.owns["island shell"] = <<>> /\ pool'.owns["island mesh"] = <<>>
      <3>1. ~Departs("island shell") /\ ~Departs("island mesh") /\ "island shell" \in Owners /\ "island mesh" \in Owners
        BY ConstantFacts DEF Departs
      <3> QED BY <2>0, <1>4, <3>1 DEF PoolInv, PoolIsSound
    <2>3. On("island")' <=> On("island")
      BY <1>2 DEF On
    <2> QED BY <2>1, <2>2, <2>3 DEF PoolIsSound
  <1> QED BY <1>8, <1>9 DEF PoolInv

(* What the worker answers.                                                *)
Success(j) == Answer(j, FALSE)
Answered == [i \in DOMAIN batch |-> Success(batch[i])]
Failed == [i \in DOMAIN batch |-> Failure(batch[i])]

Builds(r, j) == r.chunk = j.chunk /\ ~r.failed /\ r.content = j.content /\ r.shell = j.shell
Fails(r, j) == r.chunk = j.chunk /\ r.failed /\ ~r.shell

LEMMA AnsweredFacts ==
  ASSUME LodType
  PROVE  /\ Answered \in Seq(Answers) /\ Failed \in Seq(Answers)
         /\ batch \in Seq(JobRecs) /\ DOMAIN batch = 1..Len(batch) /\ Len(batch) \in Nat
         /\ DOMAIN Answered = DOMAIN batch /\ DOMAIN Failed = DOMAIN batch
         /\ Len(Answered) = Len(batch) /\ Len(Failed) = Len(batch)
         /\ \A i \in DOMAIN batch : batch[i] \in JobRecs /\ Builds(Answered[i], batch[i]) /\ Fails(Failed[i], batch[i])
  <1>1. batch \in Seq(JobRecs) /\ DOMAIN batch = 1..Len(batch) /\ Len(batch) \in Nat
        /\ \A i \in DOMAIN batch : batch[i] \in JobRecs
    <2>1. batch \in Seq(JobRecs)
      BY DEF LodType
    <2> QED BY <2>1, LenProperties
  <1>2. ASSUME NEW j \in JobRecs
        PROVE  Success(j) \in Answers /\ Failure(j) \in Answers /\ Builds(Success(j), j) /\ Fails(Failure(j), j)
    <2>1. /\ j.chunk \in TreeChunks \cup ShellChunks /\ j.shell \in BOOLEAN /\ j.content \in Contents
          /\ j.shell = (j.chunk \in ShellChunks)
      BY DEF JobRecs
    <2>2. Success(j) \in Answers
      BY <2>1 DEF Success, Answer, Answers, AnswerRecs
    <2>3. Answer(j, TRUE) \in AnswerRecs /\ Answer(j, TRUE).chunk = j.chunk /\ Answer(j, TRUE).failed
      BY <2>1 DEF Answer, AnswerRecs
    <2> DEFINE a == Answer(j, TRUE)
    <2> HIDE DEF a
    <2>4. Failure(j) = [a EXCEPT !.shell = FALSE]
      BY DEF Failure, a
    <2>5. a \in AnswerRecs /\ a.chunk = j.chunk /\ a.failed
      BY <2>3 DEF a
    <2>6. Failure(j) \in AnswerRecs /\ Failure(j).chunk = j.chunk /\ Failure(j).failed /\ ~Failure(j).shell
      BY <2>4, <2>5 DEF AnswerRecs
    <2>7. Failure(j) \in Answers
      BY <2>6 DEF Answers
    <2> QED BY <2>1, <2>2, <2>6, <2>7 DEF Success, Answer, Builds, Fails
  <1>3. Answered \in [1..Len(batch) -> Answers] /\ Failed \in [1..Len(batch) -> Answers]
    BY <1>1, <1>2 DEF Answered, Failed
  <1>4. Answered \in Seq(Answers) /\ Failed \in Seq(Answers) /\ Len(Answered) = Len(batch) /\ Len(Failed) = Len(batch)
    BY <1>1, <1>3, PlacesMakeASequence
  <1>5. DOMAIN Answered = DOMAIN batch /\ DOMAIN Failed = DOMAIN batch
    BY DEF Answered, Failed
  <1>6. \A i \in DOMAIN batch : Answered[i] = Success(batch[i]) /\ Failed[i] = Failure(batch[i])
    BY DEF Answered, Failed
  <1>7. ASSUME NEW i \in DOMAIN batch
        PROVE  batch[i] \in JobRecs /\ Builds(Answered[i], batch[i]) /\ Fails(Failed[i], batch[i])
    <2>1. batch[i] \in JobRecs /\ Answered[i] = Success(batch[i]) /\ Failed[i] = Failure(batch[i])
      BY <1>1, <1>6
    <2> QED BY <1>2, <2>1
  <1> QED BY <1>1, <1>4, <1>5, <1>7

(* Edits, and the worker, leave the pool and what is in it alone.          *)
LEMMA PoolStands ==
  ASSUME PoolIsSound, pool' = pool, nodes' = nodes, shell' = shell, phase' = phase, host' = host
  PROVE  PoolIsSound'
  <1>1. FreshPool(FALSE)' = FreshPool(FALSE)
    BY DEF FreshPool, Owners, TreeChunks, ShellChunks
  <1>2. On("island")' = On("island")
    BY DEF On
  <1>3. Sound(pool)'
    BY DEF PoolIsSound, Sound
  <1> QED BY <1>1, <1>2, <1>3 DEF PoolIsSound

LEMMA PoolEvents ==
  ASSUME PoolInv
  PROVE  /\ Build \/ BuildFails => PoolInv'
         /\ (\E l \in Leaves, solid \in BOOLEAN : Edit(l, solid)) => PoolInv'
         /\ (\E l \in Leaves : Paint(l) \/ Consolidate(l)) => PoolInv'
         /\ (\E v \in Views : Move(v)) => PoolInv'
  <1>1. LodType /\ PoolIsSound
    BY DEF PoolInv
  <1>2. ASSUME NEW n \in Nat, n > 0 PROVE n - 1 \in Nat
    BY <1>2
  <1>3. left \in Nat
    BY <1>1 DEF LodType
  <1>10. results \o Answered \in Seq(Answers) /\ results \o Failed \in Seq(Answers) /\ <<>> \in Seq(JobRecs)
    <2>1. results \in Seq(Answers) /\ Answered \in Seq(Answers) /\ Failed \in Seq(Answers)
      BY <1>1, AnsweredFacts DEF LodType
    <2> QED BY <2>1, CatKeeps
  <1>4. ASSUME Build PROVE PoolInv'
    <2>1. results' = results \o Answered /\ batch' = <<>>
          /\ UNCHANGED <<view, field, ops, marks, recount, nodes, shell, last, pool, pressure, walk, lag, phase, left, host>>
      BY <1>4 DEF Build, Answered, Success, world
    <2>2. results' \in Seq(Answers) /\ batch' \in Seq(JobRecs)
      BY <1>1, <1>10, <2>1
    <2>3. LodType'
      BY <1>1, <2>1, <2>2 DEF LodType
    <2>4. PoolIsSound'
      BY <1>1, <2>1, PoolStands
    <2> QED BY <2>3, <2>4 DEF PoolInv
  <1>5. ASSUME BuildFails PROVE PoolInv'
    <2>1. results' = results \o Failed /\ batch' = <<>> /\ left > 0 /\ left' = left - 1
          /\ UNCHANGED <<view, field, ops, marks, recount, nodes, shell, last, pool, pressure, walk, lag, phase, host>>
      BY <1>5 DEF BuildFails, Failed, world
    <2>2. results' \in Seq(Answers) /\ batch' \in Seq(JobRecs) /\ left' \in Nat
      BY <1>1, <1>2, <1>3, <1>10, <2>1
    <2>3. LodType'
      BY <1>1, <2>1, <2>2 DEF LodType
    <2>4. PoolIsSound'
      BY <1>1, <2>1, PoolStands
    <2> QED BY <2>3, <2>4 DEF PoolInv
  <1>6. ASSUME NEW l \in Leaves, NEW solid \in BOOLEAN, Edit(l, solid) PROVE PoolInv'
    <2>1. /\ left > 0 /\ left' = left - 1 /\ marks' = marks \cup {l} /\ recount' = TRUE
          /\ field' = [field EXCEPT ![l] = [edits |-> @.edits + 1, solid |-> solid, clear |-> @.clear]]
          /\ ops' = [ops EXCEPT ![l] = @ + 1]
          /\ UNCHANGED <<view, nodes, shell, last, pool, pressure, walk, batch, lag, results, phase, host>>
      BY <1>6 DEF Edit, Event, Record
    <2>2. field' \in [Leaves -> Pieces] /\ ops' \in [Leaves -> Nat]
      <3>1. field[l] \in Pieces /\ field \in [Leaves -> Pieces] /\ ops \in [Leaves -> Nat]
        BY <1>1 DEF LodType
      <3>2. [edits |-> field[l].edits + 1, solid |-> solid, clear |-> field[l].clear] \in Pieces
        BY <3>1 DEF Pieces
      <3> QED BY <2>1, <3>1, <3>2
    <2>3. LodType'
      BY <1>1, <1>2, <1>3, <2>1, <2>2 DEF LodType
    <2>4. PoolIsSound'
      BY <1>1, <2>1, PoolStands
    <2> QED BY <2>3, <2>4 DEF PoolInv
  <1>7. ASSUME NEW l \in Leaves, Paint(l) PROVE PoolInv'
    <2>1. /\ left > 0 /\ left' = left - 1 /\ marks' = marks \cup {l} /\ recount' = TRUE
          /\ field' = [field EXCEPT ![l] = [edits |-> @.edits + 1, solid |-> TRUE, clear |-> TRUE]]
          /\ ops' = [ops EXCEPT ![l] = @ + 1]
          /\ UNCHANGED <<view, nodes, shell, last, pool, pressure, walk, batch, lag, results, phase, host>>
      BY <1>7 DEF Paint, Event, Record
    <2>2. field' \in [Leaves -> Pieces] /\ ops' \in [Leaves -> Nat]
      <3>1. field[l] \in Pieces /\ field \in [Leaves -> Pieces] /\ ops \in [Leaves -> Nat]
        BY <1>1 DEF LodType
      <3>2. [edits |-> field[l].edits + 1, solid |-> TRUE, clear |-> TRUE] \in Pieces
        BY <3>1 DEF Pieces
      <3> QED BY <2>1, <3>1, <3>2
    <2>3. LodType'
      BY <1>1, <1>2, <1>3, <2>1, <2>2 DEF LodType
    <2>4. PoolIsSound'
      BY <1>1, <2>1, PoolStands
    <2> QED BY <2>3, <2>4 DEF PoolInv
  <1>8. ASSUME NEW l \in Leaves, Consolidate(l) PROVE PoolInv'
    <2>1. /\ left > 0 /\ left' = left - 1 /\ marks' = marks \cup {l} /\ recount' = TRUE
          /\ ops' = [ops EXCEPT ![l] = 0]
          /\ UNCHANGED <<view, field, nodes, shell, last, pool, pressure, walk, batch, lag, results, phase, host>>
      BY <1>8 DEF Consolidate, Event, Record
    <2>2. ops' \in [Leaves -> Nat]
      BY <1>1, <2>1 DEF LodType
    <2>3. LodType'
      BY <1>1, <1>2, <1>3, <2>1, <2>2 DEF LodType
    <2>4. PoolIsSound'
      BY <1>1, <2>1, PoolStands
    <2> QED BY <2>3, <2>4 DEF PoolInv
  <1>9. ASSUME NEW v \in Views, Move(v) PROVE PoolInv'
    <2>1. /\ left > 0 /\ left' = left - 1 /\ view' = v
          /\ UNCHANGED <<field, ops, marks, recount, nodes, shell, last, pool, pressure, walk, batch, lag, results, phase, host>>
      BY <1>9 DEF Move, Event
    <2>3. LodType'
      BY <1>1, <1>2, <1>3, <2>1 DEF LodType
    <2>4. PoolIsSound'
      BY <1>1, <2>1, PoolStands
    <2> QED BY <2>3, <2>4 DEF PoolInv
  <1> QED BY <1>4, <1>5, <1>6, <1>7, <1>8, <1>9

LEMMA PoolIslands ==
  ASSUME PoolInv, NEW live \in BOOLEAN, NEW anew \in BOOLEAN, ApplyIslandShells(live, anew)
  PROVE  PoolInv' /\ KeepsFar(pool, pool')
  <1>1. /\ On("island") /\ left > 0 /\ left' = left - 1 /\ pool.up /\ pool' = IslandPages(live, anew)
        /\ UNCHANGED <<view, field, ops, marks, recount, nodes, shell, last, pressure, walk, batch, lag, results, phase, host>>
    BY DEF ApplyIslandShells, Event, world
  <1>2. LodType /\ PoolIsSound /\ pool \in Pools /\ Sound(pool) /\ left \in Nat
    BY DEF PoolInv, LodType, PoolIsSound
  <1>3. pool' \in Pools /\ Sound(pool') /\ KeepsFar(pool, pool')
    BY <1>1, <1>2, IslandKeeps
  <1>4. left' \in Nat
    <2>1. left \in Nat /\ left > 0 /\ left' = left - 1
      BY <1>1, <1>2
    <2> QED BY <2>1
  <1>5. LodType'
    BY <1>1, <1>2, <1>3, <1>4 DEF LodType
  <1>6. pool'.up /\ On("island")'
    BY <1>1, <1>3 DEF KeepsFar, On
  <1>7. Sound(pool)'
    BY <1>3 DEF Sound
  <1>8. PoolIsSound'
    BY <1>6, <1>7 DEF PoolIsSound
  <1> QED BY <1>3, <1>5, <1>8 DEF PoolInv

LEMMA PoolReload ==
  ASSUME ReloadsAlone, PoolInv, ReleaseGpu
  PROVE  PoolInv' /\ pool' = FreshPool(FALSE)
  <1>1. /\ On("reload") /\ left > 0 /\ left' = left - 1 /\ phase = "walk" /\ marks' = {}
        /\ nodes' = [c \in TreeChunks |-> None] /\ shell' = [c \in ShellChunks |-> None] /\ last' = None
        /\ pool' = [FreshPool(FALSE) EXCEPT !.owns["island mesh"] = pool.owns["island mesh"]]
        /\ UNCHANGED <<view, field, ops, recount, pressure, walk, batch, lag, results, phase, host>>
    BY DEF ReleaseGpu, Event, world
  <1>2. LodType /\ PoolIsSound /\ left \in Nat /\ host \in Hosts
    BY DEF PoolInv, LodType
  <1>3. pool.owns["island mesh"] = <<>>
    BY <1>1, <1>2 DEF ReloadsAlone, On, PoolIsSound
  <1> DEFINE p == FreshPool(FALSE)
  <1>4. p \in Pools /\ Sound(p) /\ ~p.up /\ \A o \in Owners : p.owns[o] = <<>>
    BY FreshPools
  <1>5. pool' = p
    <2> HIDE DEF p
    <2>1. pool' = [p EXCEPT !.owns["island mesh"] = <<>>]
      BY <1>1, <1>3 DEF p
    <2>2. "island mesh" \in Owners
      BY ConstantFacts
    <2> DEFINE r == [p EXCEPT !.owns["island mesh"] = <<>>]
    <2>3. r = [up |-> p.up, free |-> p.free, owns |-> [p.owns EXCEPT !["island mesh"] = <<>>], shows |-> p.shows]
      BY <1>4 DEF Pools
    <2>4. [p.owns EXCEPT !["island mesh"] = <<>>] = p.owns
      BY <1>4, <2>2 DEF Pools
    <2>5. p = [up |-> p.up, free |-> p.free, owns |-> p.owns, shows |-> p.shows]
      BY <1>4, PoolFields
    <2> QED BY <2>1, <2>3, <2>4, <2>5
  <1>6. left' \in Nat
    <2>1. left \in Nat /\ left > 0 /\ left' = left - 1
      BY <1>1, <1>2
    <2> QED BY <2>1
  <1>7. LodType'
    <2> HIDE DEF p
    <2> QED BY <1>1, <1>2, <1>4, <1>5, <1>6 DEF LodType
  <1>8. Sound(pool)'
    <2> HIDE DEF p
    <2> QED BY <1>4, <1>5 DEF Sound
  <1>9. PoolIsSound'
    <2>1. FreshPool(FALSE)' = FreshPool(FALSE)
      BY DEF FreshPool, Owners, TreeChunks, ShellChunks
    <2>2. /\ \A c \in TreeChunks : nodes'[c] = None
          /\ \A c \in ShellChunks : shell'[c] = None
      BY <1>1
    <2>3. pool'.owns["island shell"] = <<>> /\ pool'.owns["island mesh"] = <<>>
      <3> HIDE DEF p
      <3> QED BY <1>4, <1>5, ConstantFacts
    <2> QED BY <1>1, <1>5, <1>8, <2>1, <2>2, <2>3 DEF PoolIsSound
  <1> QED BY <1>5, <1>7, <1>9 DEF PoolInv

LEMMA PoolNext ==
  ASSUME ReloadsAlone, PoolInv, [Next]_vars
  PROVE  PoolInv'
  <1>1. CASE Next
    <2>1. CASE TickWalk
      BY <2>1, PoolTickWalk
    <2>2. CASE Submit
      <3>1. TickSubmit(TRUE) /\ left' = left
        BY <2>2 DEF Submit
      <3>2. left' \in Nat
        BY <3>1 DEF PoolInv, LodType
      <3> QED BY <3>1, <3>2, PoolTickSubmit
    <2>3. CASE SubmitRefused
      <3>1. TickSubmit(FALSE) /\ left > 0 /\ left' = left - 1 /\ left \in Nat
        BY <2>3 DEF SubmitRefused, PoolInv, LodType
      <3>2. left' \in Nat
        <4>1. left \in Nat /\ left > 0 /\ left' = left - 1
          BY <3>1
        <4> QED BY <4>1
      <3> QED BY <3>1, <3>2, PoolTickSubmit
    <2>4. CASE Build \/ BuildFails
      BY <2>4, PoolEvents
    <2>5. CASE \/ \E l \in Leaves, solid \in BOOLEAN : Edit(l, solid)
               \/ \E l \in Leaves : Paint(l) \/ Consolidate(l)
               \/ \E v \in Views : Move(v)
      BY <2>5, PoolEvents
    <2>6. CASE \E live, anew \in BOOLEAN : ApplyIslandShells(live, anew)
      BY <2>6, PoolIslands
    <2>7. CASE ReleaseGpu
      BY <2>7, PoolReload
    <2> QED BY <1>1, <2>1, <2>2, <2>3, <2>4, <2>5, <2>6, <2>7 DEF Next
  <1>2. CASE UNCHANGED vars
    <2>1. /\ view' = view /\ field' = field /\ ops' = ops /\ marks' = marks /\ recount' = recount /\ nodes' = nodes
          /\ shell' = shell /\ last' = last /\ pool' = pool /\ pressure' = pressure /\ walk' = walk /\ batch' = batch
          /\ lag' = lag /\ results' = results /\ phase' = phase /\ left' = left /\ host' = host
      BY <1>2 DEF vars, world
    <2>2. LodType'
      BY <2>1 DEF PoolInv, LodType
    <2>3. PoolIsSound'
      BY <2>1, PoolStands DEF PoolInv
    <2> QED BY <2>2, <2>3 DEF PoolInv
  <1> QED BY <1>1, <1>2

(* The state has its type, and the pool is sound.                          *)
THEOREM LodPool ==
  ReloadsAlone => (Spec => []PoolInv)
  <1> SUFFICES ASSUME ReloadsAlone PROVE Spec => []PoolInv
    OBVIOUS
  <1>1. Init => PoolInv
    BY PoolInit
  <1>2. PoolInv /\ [Next]_vars => PoolInv'
    BY PoolNext
  <1> QED BY <1>1, <1>2, PTL DEF Spec

(* Where no reload meets an island, every page of the pool is free or has  *)
(* one owner, and shows it: whatever is evicted, refused, dropped or lands *)
(* on a node that has gone.                                                *)
THEOREM LodPages ==
  ReloadsAlone => (Spec => []PagesHaveOneOwner)
  <1> SUFFICES ASSUME ReloadsAlone PROVE Spec => []PagesHaveOneOwner
    OBVIOUS
  <1>1. ASSUME PoolInv PROVE PagesHaveOneOwner
    <2>1. pool \in Pools /\ Sound(pool)
      BY <1>1 DEF PoolInv, LodType, PoolIsSound
    <2>2. \A c \in TreeChunks \cup ShellChunks : \A p \in Range(pool.owns[c]) : pool.shows[p].of = c
      BY <2>1 DEF Sound
    <2>3. \A p \in Range(pool.free) : \A o \in Owners : p \notin Range(pool.owns[o])
      BY <2>1 DEF Sound
    <2>4. \A o, q \in Owners : o # q => Range(pool.owns[o]) \cap Range(pool.owns[q]) = {}
      BY <2>1 DEF Sound
    <2>5. pool.up => Len(pool.free) + Total([o \in Owners |-> Len(pool.owns[o])]) = Pages
      BY <2>1, SoundPoolsCount
    <2> QED BY <2>2, <2>3, <2>4, <2>5 DEF PagesHaveOneOwner
  <1>2. Spec => []PoolInv
    BY LodPool
  <1> QED BY <1>1, <1>2, PTL

-----------------------------------------------------------------------------
(* The tree knows of every edit                                            *)

(* A reload drops the marks and the nodes, but not the batch that the      *)
(* worker has: what an edit before it changed may land after it, on a node *)
(* that nobody marked.                                                     *)
ReloadsMeetNoEdit == \A h \in Hosts : "reload" \in h.may => h.may \cap {"edit", "paint"} = {}

Building(t, c) == t[c] # None /\ t[c].building

(* A node tells no lie but one that its flags, or a mark in M, admit.      *)
Honest(n, c, p, M) ==
  /\ n.state = "building" => n.building
  /\ n.state = "empty" => ~n.dirty /\ ~n.building
  /\ n.state = "ready" => p.owns[c] # <<>>
  /\ ~n.dirty /\ Covers[c] \cap M = {} =>
       /\ n.state = "empty" => Blank(c, Content(c))
       /\ n.state = "ready" /\ ~n.building => OverCap(c) \/ Shows(p, c, Content(c))

(* The jobs and results on their way, but for the results that have landed.*)
InBatch(c) == {i \in DOMAIN batch : batch[i].chunk = c}
InResults(c, landed) == {i \in DOMAIN results \ landed : results[i].chunk = c}
InFlight(c, landed) == InBatch(c) # {} \/ InResults(c, landed) # {}
Fresh(c, landed) ==
  /\ \A i \in InBatch(c) : batch[i].content = Content(c)
  /\ \A i \in InResults(c, landed) : results[i].failed \/ results[i].content = Content(c)
Lone(c, landed) ==
  /\ \A i, j \in InBatch(c) : i = j
  /\ \A i, j \in InResults(c, landed) : i = j
  /\ InBatch(c) = {} \/ InResults(c, landed) = {}

(* What holds of a chunk with the nodes t, the pool p and the marks M when *)
(* those results have landed.                                              *)
ChunkOK(c, t, p, M, landed) ==
  /\ t[c] # None => Honest(t[c], c, p, M)
  /\ Building(t, c) => InFlight(c, landed)
  /\ Building(t, c) /\ ~t[c].dirty /\ Covers[c] \cap M = {} => Fresh(c, landed)
  /\ ~On("reload") /\ InFlight(c, landed) => Building(t, c) /\ Lone(c, landed)
  /\ On("reload") => Fresh(c, landed)
TreeOK(t, p, M, landed) == \A c \in TreeChunks : ChunkOK(c, t, p, M, landed)

TreeInv ==
  /\ TreeOK(nodes, pool, marks, {})
  /\ phase = "submit" => IsInjective(walk.requests) /\ \A c \in Range(walk.requests) : ~Building(nodes, c)

(* What the pool has for a chunk.                                          *)
SameFor(c, p, q) == q.owns[c] = p.owns[c] /\ \A x \in Range(p.owns[c]) : q.shows[x] = p.shows[x]

LEMMA ShowsStays ==
  ASSUME NEW p \in Pools, NEW q \in Pools, NEW c \in TreeChunks \cup ShellChunks, SameFor(c, p, q),
         NEW content, Shows(p, c, content)
  PROVE  Shows(q, c, content)
  <1>1. p.owns[c] \in Seq(1..Pages)
    BY ConstantFacts DEF Pools
  <1>2. Head(p.owns[c]) \in Range(p.owns[c])
    BY <1>1, HeadIsOne DEF Shows
  <1> QED BY <1>2 DEF Shows, SameFor

LEMMA HonestStays ==
  ASSUME NEW p \in Pools, NEW q \in Pools, NEW c \in TreeChunks, SameFor(c, p, q), NEW M, NEW n, Honest(n, c, p, M)
  PROVE  Honest(n, c, q, M)
  <1>1. Shows(p, c, Content(c)) => Shows(q, c, Content(c))
    BY ShowsStays
  <1>2. q.owns[c] = p.owns[c]
    BY DEF SameFor
  <1> QED BY <1>1, <1>2 DEF Honest

(* A chunk that nothing touches.                                           *)
LEMMA ChunkStays ==
  ASSUME NEW p \in Pools, NEW q \in Pools, NEW c \in TreeChunks, NEW t, NEW u, NEW M, NEW landed,
         u[c] = t[c], SameFor(c, p, q), ChunkOK(c, t, p, M, landed)
  PROVE  ChunkOK(c, u, q, M, landed)
  <1>1. t[c] # None => Honest(t[c], c, q, M)
    BY HonestStays DEF ChunkOK
  <1>2. Building(t, c) <=> Building(u, c)
    BY DEF Building
  <1> QED BY <1>1, <1>2 DEF ChunkOK

(* A result that lands leaves an honest node.                              *)
LEMMA LandIsHonest ==
  ASSUME NEW n \in NodeRecs, NEW m \in NodeRecs, NEW p \in Pools, NEW q \in Pools, NEW r \in Answers,
         NEW c \in TreeChunks, c = r.chunk, Landing(n, m, p, q, r),
         ~r.failed => (n.building /\ n.dirty) \/ r.content = Content(c)
  PROVE  Honest(m, c, q, {}) /\ ~m.building
  <1>1. n.building \in BOOLEAN /\ n.dirty \in BOOLEAN
    BY DEF NodeRecs
  <1>2. CASE m = NoteReadyDirty(n) /\ q.owns[c] # <<>>
    <2>1. m.state = "ready" /\ m.dirty /\ ~m.building
      BY <1>2 DEF NoteReadyDirty, NodeRecs
    <2> QED BY <1>2, <2>1 DEF Honest
  <1>3. CASE m = NoteFailed(n)
    <2>1. m.state = "failed" /\ ~m.building
      BY <1>3 DEF NoteFailed, NodeRecs
    <2> QED BY <2>1 DEF Honest
  <1>4. CASE m = NoteEmpty(n) /\ ~r.failed /\ Blank(c, r.content)
    <2>1. CASE n.building /\ n.dirty
      <3>1. m.state = "unknown" /\ ~m.building
        BY <1>4, <2>1 DEF NoteEmpty, NodeRecs
      <3> QED BY <3>1 DEF Honest
    <2>2. CASE ~(n.building /\ n.dirty)
      <3>1. m.state = "empty" /\ ~m.building /\ ~m.dirty
        BY <1>4, <2>2 DEF NoteEmpty, NodeRecs
      <3> QED BY <1>4, <2>2, <3>1 DEF Honest
    <2> QED BY <2>1, <2>2
  <1>5. CASE m = NoteReady(n) /\ ~r.failed /\ Shows(q, c, r.content)
    <2>1. m.state = "ready" /\ ~m.building /\ (m.dirty <=> n.dirty /\ n.building)
      BY <1>5 DEF NoteReady, NodeRecs
    <2>2. q.owns[c] # <<>>
      BY <1>5 DEF Shows
    <2> QED BY <1>5, <2>1, <2>2 DEF Honest
  <1> QED BY <1>2, <1>3, <1>4, <1>5 DEF Landing

(* The results land one by one.                                            *)
LEMMA LandTreeOK ==
  ASSUME LodType, NEW s \in Grounds, Sound(s.pool), s.pool.up, NEW landed, NEW i \in DOMAIN results \ landed,
         TreeOK(s.nodes, s.pool, {}, landed)
  PROVE  LET t == Land(s, results[i])
         IN  /\ t \in Grounds /\ Sound(t.pool) /\ t.pool.up
             /\ TreeOK(t.nodes, t.pool, {}, landed \cup {i})
             /\ \A c \in TreeChunks : Building(t.nodes, c) => Building(s.nodes, c)
  <1> DEFINE r == results[i]
             t == Land(s, r)
             done == landed \cup {i}
  <1>1. r \in Answers /\ r \in AnswerRecs /\ r.chunk \in TreeChunks \cup ShellChunks /\ r.shell \in BOOLEAN
        /\ (r.shell => r.chunk \in ShellChunks) /\ TreeChunks \cap ShellChunks = {}
    <2>1. results \in Seq(Answers)
      BY DEF LodType
    <2>2. r \in Answers
      BY <2>1
    <2> HIDE DEF r
    <2> QED BY <2>2, ConstantFacts DEF Answers, AnswerRecs
  <1>2. s.pool \in Pools /\ s.nodes \in [TreeChunks -> NodeRecs \cup {None}]
    BY DEF Grounds
  <1>3. t \in Grounds /\ Sound(t.pool) /\ t.pool.up
    BY <1>1, LandKeeps
  <1>4. t.pool \in Pools /\ t.nodes \in [TreeChunks -> NodeRecs \cup {None}]
    BY <1>3 DEF Grounds
  <1> HIDE DEF t, r
  <1>5. ASSUME NEW c \in TreeChunks, c # r.chunk, t.nodes[c] = s.nodes[c], SameFor(c, s.pool, t.pool)
        PROVE  ChunkOK(c, t.nodes, t.pool, {}, done) /\ (Building(t.nodes, c) => Building(s.nodes, c))
    <2>1. InResults(c, done) = InResults(c, landed)
      BY <1>5 DEF InResults, r
    <2>2. ChunkOK(c, t.nodes, t.pool, {}, landed)
      BY <1>2, <1>4, <1>5, ChunkStays DEF TreeOK
    <2>3. ChunkOK(c, t.nodes, t.pool, {}, done)
      <3> HIDE DEF done
      <3> QED BY <2>1, <2>2 DEF ChunkOK, InFlight, Fresh, Lone
    <2> QED BY <1>5, <2>3 DEF Building
  <1>6. CASE r.chunk \in ShellChunks
    <2>1. \A c \in TreeChunks : t.nodes[c] = s.nodes[c] /\ SameFor(c, s.pool, t.pool)
      <3>1. CASE r.shell
        <4>1. t.nodes = s.nodes /\ Keeps(s.pool, t.pool, r.chunk)
          BY <1>1, <1>6, <3>1, LandShellKeeps DEF t
        <4>2. \A c \in TreeChunks : c \in Owners \ {r.chunk}
          BY <1>1, <1>6, ConstantFacts
        <4> QED BY <4>1, <4>2 DEF Keeps, SameFor
      <3>2. CASE ~r.shell
        <4>1. t = s
          BY <1>6, <3>2 DEF Land, t
        <4> QED BY <4>1 DEF SameFor
      <3> QED BY <1>1, <3>1, <3>2
    <2>2. \A c \in TreeChunks : c # r.chunk
      BY <1>1, <1>6
    <2>3. \A c \in TreeChunks : ChunkOK(c, t.nodes, t.pool, {}, done) /\ (Building(t.nodes, c) => Building(s.nodes, c))
      BY <1>5, <2>1, <2>2
    <2> QED BY <1>3, <2>3 DEF TreeOK, t, r
  <1>7. CASE r.chunk \in TreeChunks
    <2> DEFINE d == r.chunk
               n == Node(s.nodes, d)
               m == t.nodes[d]
    <2>1. /\ \A c \in TreeChunks \ {d} : t.nodes[c] = s.nodes[c]
          /\ Keeps(s.pool, t.pool, d) /\ m # None /\ Landing(n, m, s.pool, t.pool, r)
      BY <1>1, <1>7, LandTreeKeeps DEF t
    <2>2. ASSUME NEW c \in TreeChunks \ {d}
          PROVE  ChunkOK(c, t.nodes, t.pool, {}, done) /\ (Building(t.nodes, c) => Building(s.nodes, c))
      <3>1. c \in Owners \ {d}
        BY ConstantFacts
      <3>2. SameFor(c, s.pool, t.pool) /\ t.nodes[c] = s.nodes[c]
        BY <2>1, <3>1 DEF Keeps, SameFor
      <3> QED BY <1>5, <3>2
    <2>3. n \in NodeRecs /\ m \in NodeRecs
      BY <1>2, <1>4, <1>7, <2>1, NodeIsOne
    <2>4. ChunkOK(d, s.nodes, s.pool, {}, landed)
      BY <1>7 DEF TreeOK
    <2>5. i \in InResults(d, landed)
      BY DEF InResults, r
    <2>6. ~r.failed => (n.building /\ n.dirty) \/ r.content = Content(d)
      <3> SUFFICES ASSUME ~r.failed PROVE (n.building /\ n.dirty) \/ r.content = Content(d)
        OBVIOUS
      <3>1. CASE On("reload")
        <4>1. Fresh(d, landed)
          BY <2>4, <3>1 DEF ChunkOK
        <4> QED BY <2>5, <4>1 DEF Fresh, r
      <3>2. CASE ~On("reload")
        <4>1. Building(s.nodes, d)
          BY <2>4, <2>5, <3>2 DEF ChunkOK, InFlight
        <4>2. n = s.nodes[d] /\ n.building
          BY <4>1 DEF Building, Node
        <4>3. CASE n.dirty
          BY <4>2, <4>3
        <4>4. CASE ~n.dirty
          <5>1. Fresh(d, landed)
            BY <2>4, <4>1, <4>2, <4>4 DEF ChunkOK
          <5> QED BY <2>5, <5>1 DEF Fresh, r
        <4> QED BY <4>3, <4>4
      <3> QED BY <3>1, <3>2
    <2>7. Honest(m, d, t.pool, {}) /\ ~m.building
      <3> HIDE DEF n, m
      <3> QED BY <1>1, <1>2, <1>4, <1>7, <2>1, <2>3, <2>6, LandIsHonest
    <2>8. InResults(d, done) = InResults(d, landed) \ {i}
      BY DEF InResults
    <2>9. ChunkOK(d, t.nodes, t.pool, {}, done)
      <3>1. ~Building(t.nodes, d)
        BY <2>7 DEF Building
      <3>2. ~On("reload") => ~InFlight(d, done)
        <4> SUFFICES ASSUME ~On("reload") PROVE ~InFlight(d, done)
          OBVIOUS
        <4>1. Lone(d, landed)
          BY <2>4, <2>5 DEF ChunkOK, InFlight
        <4> HIDE DEF done
        <4> QED BY <2>5, <2>8, <4>1 DEF Lone, InFlight
      <3>3. On("reload") => Fresh(d, done)
        <4> HIDE DEF done
        <4> QED BY <2>4, <2>8 DEF ChunkOK, Fresh
      <3>4. Honest(t.nodes[d], d, t.pool, {})
        BY <2>7
      <3> HIDE DEF done, n, m, d
      <3> QED BY <3>1, <3>2, <3>3, <3>4 DEF ChunkOK
    <2>10. \A c \in TreeChunks : ChunkOK(c, t.nodes, t.pool, {}, done) /\ (Building(t.nodes, c) => Building(s.nodes, c))
      <3>1. ~Building(t.nodes, d)
        BY <2>7 DEF Building
      <3> HIDE DEF done
      <3> QED BY <2>2, <2>9, <3>1
    <2> QED BY <1>3, <2>10 DEF TreeOK, t, r
  <1> QED BY <1>1, <1>6, <1>7

(* The walk marks what waits to be marked, and lands nothing.              *)
LEMMA BaseTreeOK ==
  ASSUME PoolInv, TreeInv
  PROVE  /\ TreeOK(Base.nodes, Base.pool, {}, {})
         /\ \A c \in Range(Walk(Marked(nodes)).requests) : ~Building(Base.nodes, c)
         /\ IsInjective(Walk(Marked(nodes)).requests)
  <1> DEFINE t == Marked(nodes)
             w == Walk(t)
  <1>1. LodType /\ nodes \in [TreeChunks -> NodeRecs \cup {None}]
    BY DEF PoolInv, LodType
  <1>2. /\ t \in [TreeChunks -> NodeRecs \cup {None}]
        /\ \A c \in TreeChunks :
             /\ nodes[c] = None => t[c] = None
             /\ nodes[c] # None => t[c] = IF Covers[c] \cap marks # {} THEN MarkDirty(nodes[c]) ELSE nodes[c]
    BY <1>1, MarkedKeeps
  <1>3. Base \in Grounds /\ Base.nodes = w.nodes /\ Base.pool.owns = pool.owns /\ (pool.up => Base.pool = pool)
    BY BaseIsGround
  <1>4. /\ w.nodes \in [TreeChunks -> NodeRecs \cup {None}]
        /\ w.requests \in Seq(TreeChunks) /\ IsInjective(w.requests)
        /\ \A c \in Range(w.requests) : Wanted(t, c)
        /\ \A c \in TreeChunks : w.nodes[c] # None => SameButAge(w.nodes[c], Node(t, c))
        /\ \A c \in TreeChunks : t[c] # None => w.nodes[c] # None
    <2> HIDE DEF t
    <2> QED BY <1>1, <1>2, WalkKeeps
  <1> HIDE DEF w
  <1>5. ASSUME NEW c \in TreeChunks
        PROVE  ChunkOK(c, w.nodes, Base.pool, {}, {}) /\ (Building(w.nodes, c) <=> Building(nodes, c))
               /\ (Building(w.nodes, c) => Node(t, c).building)
    <2>1. ChunkOK(c, nodes, pool, marks, {})
      BY DEF TreeInv, TreeOK
    <2>2. CASE nodes[c] = None
      <3>1. t[c] = None /\ Node(t, c) = NewNode /\ ~Building(nodes, c)
        BY <1>2, <2>2 DEF Node, Building
      <3>2. w.nodes[c] # None => w.nodes[c].state = "unknown" /\ ~w.nodes[c].building
        BY <1>4, <3>1 DEF SameButAge, NewNode
      <3>3. ~Building(w.nodes, c) /\ (w.nodes[c] # None => Honest(w.nodes[c], c, Base.pool, {}))
        BY <3>2 DEF Building, Honest
      <3> HIDE DEF t
      <3> QED BY <2>1, <3>1, <3>3 DEF ChunkOK
    <2>3. CASE nodes[c] # None
      <3> DEFINE n == nodes[c]
                 m == w.nodes[c]
      <3>1. n \in NodeRecs /\ (Building(nodes, c) <=> n.building) /\ None \notin NodeRecs
        BY <1>1, <2>3, ConstantFacts DEF Building
      <3>2. t[c] = (IF Covers[c] \cap marks # {} THEN MarkDirty(n) ELSE n) /\ t[c] \in NodeRecs /\ Node(t, c) = t[c]
        <4>1. MarkDirty(n) \in NodeRecs
          <5> HIDE DEF n
          <5> QED BY <3>1, NotesAreNodes
        <4> QED BY <1>2, <2>3, <3>1, <4>1 DEF Node
      <3>3. m # None /\ SameButAge(m, t[c])
        BY <1>4, <3>1, <3>2
      <3>4. pool.up
        BY <2>3 DEF PoolInv, PoolIsSound
      <3>5. Base.pool = pool
        BY <1>3, <3>4
      <3>6. Honest(n, c, pool, marks)
        BY <2>1, <2>3 DEF ChunkOK
      <3>7. CASE Covers[c] \cap marks # {}
        <4>1. t[c] = MarkDirty(n)
          BY <3>2, <3>7
        <4>2. m.state = (IF n.state = "empty" THEN "unknown" ELSE n.state) /\ m.building = n.building /\ m.dirty
          <5> HIDE DEF n, m, t
          <5> QED BY <3>1, <3>3, <4>1 DEF SameButAge, MarkDirty, NodeRecs
        <4>3. Honest(m, c, pool, {})
          <5> HIDE DEF n, m, t
          <5> QED BY <3>6, <4>2 DEF Honest
        <4>4. (Building(w.nodes, c) <=> Building(nodes, c)) /\ (Building(w.nodes, c) => t[c].building)
          <5>1. Building(w.nodes, c) <=> m.building
            BY <3>3 DEF Building
          <5> HIDE DEF n, m, t
          <5> QED BY <3>1, <3>3, <4>2, <5>1 DEF SameButAge
        <4>5. ChunkOK(c, w.nodes, pool, {}, {})
          BY <2>1, <4>2, <4>3, <4>4 DEF ChunkOK
        <4> QED BY <3>2, <3>5, <4>4, <4>5
      <3>8. CASE Covers[c] \cap marks = {}
        <4>1. t[c] = n
          BY <3>2, <3>8
        <4>2. m.state = n.state /\ m.building = n.building /\ m.dirty = n.dirty
          <5> HIDE DEF n, m, t
          <5> QED BY <3>3, <4>1 DEF SameButAge
        <4>3. Honest(m, c, pool, {})
          <5> HIDE DEF n, m, t
          <5> QED BY <3>6, <3>8, <4>2 DEF Honest
        <4>4. (Building(w.nodes, c) <=> Building(nodes, c)) /\ (Building(w.nodes, c) => t[c].building)
          <5>1. Building(w.nodes, c) <=> m.building
            BY <3>3 DEF Building
          <5> HIDE DEF n, m, t
          <5> QED BY <3>1, <4>1, <4>2, <5>1
        <4>5. ChunkOK(c, w.nodes, pool, {}, {})
          BY <2>1, <3>8, <4>2, <4>3, <4>4 DEF ChunkOK
        <4> QED BY <3>2, <3>5, <4>4, <4>5
      <3> QED BY <3>7, <3>8
    <2> QED BY <2>2, <2>3
  <1>6. ASSUME NEW c \in Range(w.requests) PROVE ~Building(w.nodes, c)
    <2>1. c \in TreeChunks /\ ~Node(t, c).building
      <3>1. Range(w.requests) \subseteq TreeChunks
        BY <1>4, HeadIsOne
      <3> QED BY <1>4, <1>6, <3>1 DEF Wanted
    <2> QED BY <1>5, <2>1
  <1> QED BY <1>3, <1>4, <1>5, <1>6 DEF TreeOK, w

LEMMA TreeTickWalk ==
  ASSUME PoolInv, TreeInv, TickWalk
  PROVE  TreeInv'
  <1> DEFINE n == Len(results)
             Good(t, s) == /\ t \in Grounds /\ Sound(t.pool) /\ t.pool.up
                           /\ TreeOK(t.nodes, t.pool, {}, s)
                           /\ \A c \in TreeChunks : Building(t.nodes, c) => Building(Base.nodes, c)
             W == [s \in SUBSET (1..n) |-> {t \in Grounds : Good(t, s)}]
  <1>1. LodType /\ results \in Seq(Answers) /\ n \in Nat /\ DOMAIN results = 1..n
    <2>1. LodType /\ results \in Seq(Answers)
      BY DEF PoolInv, LodType
    <2> QED BY <2>1, LenProperties
  <1>2. Base \in Grounds /\ Good(Base, {})
    BY BaseIsGround, BaseTreeOK
  <1>3. ASSUME NEW s \in SUBSET (1..n), s # {}, NEW w \in W[s \ {Max(s)}]
        PROVE  Land(w, results[Max(s)]) \in W[s]
    <2> DEFINE i == Max(s)
               was == s \ {i}
               t == Land(w, results[i])
    <2>1. i \in s /\ i \in DOMAIN results \ was /\ was \in SUBSET (1..n) /\ was \cup {i} = s
      <3>1. Max(s) \in s
        BY <1>1, <1>3, LastPlaceIsOne
      <3> QED BY <1>1, <3>1
    <2> HIDE DEF i
    <2>2. w \in Grounds /\ Good(w, was)
      <3> HIDE DEF Good, was, n
      <3> QED BY <1>3, <2>1 DEF was, i
    <2> HIDE DEF was
    <2>3. /\ t \in Grounds /\ Sound(t.pool) /\ t.pool.up
          /\ TreeOK(t.nodes, t.pool, {}, was \cup {i})
          /\ \A c \in TreeChunks : Building(t.nodes, c) => Building(w.nodes, c)
      BY <1>1, <2>1, <2>2, LandTreeOK
    <2> HIDE DEF t
    <2>4. t \in Grounds /\ Good(t, s)
      <3>1. TreeOK(t.nodes, t.pool, {}, s)
        BY <2>1, <2>3
      <3>2. \A c \in TreeChunks : Building(t.nodes, c) => Building(Base.nodes, c)
        BY <2>2, <2>3
      <3> QED BY <2>3, <3>1, <3>2
    <2>5. t \in W[s]
      <3> HIDE DEF Good, n
      <3> QED BY <2>4
    <2> QED BY <2>5 DEF t, i
  <1>4. Landed \in Grounds /\ Good(Landed, 1..n)
    <2>1. Base \in W[{}]
      <3> HIDE DEF Good, n
      <3> QED BY <1>2
    <2>2. Landed \in W[1..n]
      <3> HIDE DEF W
      <3> QED BY <1>1, <1>3, <2>1, LandsStay DEF Landed
    <2> HIDE DEF Good, n
    <2> QED BY <2>2
  <1>5. /\ After \in Grounds /\ Spared(Landed, After) /\ Landed.pool \in Pools /\ After.pool \in Pools
    BY AfterIsGround DEF Grounds
  <1>6. /\ phase' = "submit" /\ nodes' = After.nodes /\ pool' = After.pool
        /\ walk' = [draws |-> Walk(Marked(nodes)).draws, requests |-> Walk(Marked(nodes)).requests]
        /\ marks' = {} /\ results' = <<>>
        /\ field' = field /\ ops' = ops /\ batch' = batch /\ host' = host
    BY TickWalkIs
  <1>7. ASSUME NEW c \in TreeChunks
        PROVE  ChunkOK(c, After.nodes, After.pool, {}, 1..n) /\ (Building(After.nodes, c) => Building(Base.nodes, c))
    <2>1. ChunkOK(c, Landed.nodes, Landed.pool, {}, 1..n) /\ (Building(Landed.nodes, c) => Building(Base.nodes, c))
      BY <1>4 DEF TreeOK
    <2>2. CASE After.nodes[c] = Landed.nodes[c] /\ After.pool.owns[c] = Landed.pool.owns[c]
      <3>1. SameFor(c, Landed.pool, After.pool)
        BY <1>5, <2>2 DEF Spared, SameFor
      <3>2. ChunkOK(c, After.nodes, After.pool, {}, 1..n)
        <4> HIDE DEF n
        <4> QED BY <1>5, <2>1, <2>2, <3>1, ChunkStays
      <3> QED BY <2>1, <2>2, <3>2 DEF Building
    <2>3. CASE After.nodes[c] = None /\ Evicted(Landed.nodes[c])
      <3>1. ~Building(After.nodes, c) /\ ~Building(Landed.nodes, c)
        BY <2>3 DEF Building, Evicted
      <3> HIDE DEF n
      <3> QED BY <2>1, <2>3, <3>1 DEF ChunkOK
    <2> QED BY <1>5, <2>2, <2>3 DEF Spared
  <1>8. ASSUME NEW c \in TreeChunks
        PROVE  ChunkOK(c, nodes, pool, marks, {})'
    <2>1. Content(c)' = Content(c) /\ OverCap(c)' = OverCap(c) /\ On("reload")' = On("reload")
      BY <1>6 DEF Content, OverCap, On
    <2>2. InBatch(c)' = InBatch(c) /\ InResults(c, 1..n) = {} /\ InResults(c, {})' = {}
      BY <1>1, <1>6 DEF InBatch, InResults
    <2>3. (Fresh(c, {})' <=> Fresh(c, 1..n)) /\ (Lone(c, {})' <=> Lone(c, 1..n)) /\ (InFlight(c, {})' <=> InFlight(c, 1..n))
      <3> HIDE DEF n
      <3> QED BY <1>6, <2>1, <2>2 DEF Fresh, Lone, InFlight
    <2>4. Honest(After.nodes[c], c, After.pool, {}) => Honest(nodes[c], c, pool, marks)'
      BY <1>6, <2>1 DEF Honest, Shows
    <2>5. Building(After.nodes, c) <=> Building(nodes, c)'
      BY <1>6 DEF Building
    <2> HIDE DEF n
    <2> QED BY <1>6, <1>7, <2>1, <2>3, <2>4, <2>5 DEF ChunkOK
  <1>9. TreeOK(nodes, pool, marks, {})'
    BY <1>8 DEF TreeOK
  <1>10. ASSUME NEW c \in Range(walk'.requests) PROVE ~Building(nodes, c)'
    <2>1. c \in Range(Walk(Marked(nodes)).requests) /\ c \in TreeChunks
      <3>1. Walk(Marked(nodes)).requests \in Seq(TreeChunks)
        BY <1>1, MarkedKeeps, WalkKeeps
      <3>2. Range(Walk(Marked(nodes)).requests) \subseteq TreeChunks
        BY <3>1, HeadIsOne
      <3> QED BY <1>6, <1>10, <3>2
    <2>2. ~Building(After.nodes, c)
      BY <1>7, <2>1, BaseTreeOK
    <2> QED BY <1>6, <2>2 DEF Building
  <1>11. IsInjective(walk'.requests)
    BY <1>6, BaseTreeOK
  <1> QED BY <1>9, <1>10, <1>11 DEF TreeInv

(* What changes a piece marks it.                                          *)
Told(c) ==
  \/ Covers[c] \cap marks' # {}
  \/ Covers[c] \cap marks = {} /\ Content(c)' = Content(c) /\ OverCap(c)' = OverCap(c)

LEMMA TreeStands ==
  ASSUME PoolInv, PoolInv', TreeInv, nodes' = nodes, batch' = batch, results' = results, host' = host,
         phase' = phase, walk' = walk,
         \A c \in TreeChunks : SameFor(c, pool, pool') /\ Told(c),
         On("reload") => \A c \in TreeChunks : Content(c)' = Content(c)
  PROVE  TreeInv'
  <1>1. pool \in Pools /\ pool' \in Pools
    BY DEF PoolInv, LodType, Pools, PageRecs, Contents, Pieces, Owners, TreeChunks, ShellChunks
  <1>2. ASSUME NEW c \in TreeChunks PROVE ChunkOK(c, nodes, pool, marks, {})'
    <2>1. ChunkOK(c, nodes, pool, marks, {})
      BY DEF TreeInv, TreeOK
    <2>2. ChunkOK(c, nodes, pool', marks, {})
      BY <1>1, <2>1, ChunkStays
    <2>3. On("reload")' = On("reload")
      BY DEF On
    <2>4. InBatch(c)' = InBatch(c) /\ InResults(c, {})' = InResults(c, {})
      BY DEF InBatch, InResults
    <2>5. (InFlight(c, {})' <=> InFlight(c, {})) /\ (Lone(c, {})' <=> Lone(c, {}))
      BY <2>4 DEF InFlight, Lone
    <2>6. Content(c)' = Content(c) => (Fresh(c, {})' <=> Fresh(c, {}))
      BY <2>4 DEF Fresh
    <2>7. Building(nodes, c)' <=> Building(nodes, c)
      BY DEF Building
    <2>8. CASE Covers[c] \cap marks' # {}
      <3>1. Honest(nodes[c], c, pool', marks) => Honest(nodes[c], c, pool, marks)'
        BY <2>8 DEF Honest
      <3> QED BY <2>2, <2>3, <2>5, <2>6, <2>7, <2>8, <3>1 DEF ChunkOK
    <2>9. CASE Covers[c] \cap marks' = {} /\ Covers[c] \cap marks = {} /\ Content(c)' = Content(c)
               /\ OverCap(c)' = OverCap(c)
      <3>1. Honest(nodes[c], c, pool', marks) => Honest(nodes[c], c, pool, marks)'
        BY <2>9 DEF Honest, Shows
      <3> QED BY <2>2, <2>3, <2>5, <2>6, <2>7, <2>9, <3>1 DEF ChunkOK
    <2> QED BY <2>8, <2>9 DEF Told
  <1>3. phase' = "submit" => IsInjective(walk'.requests) /\ \A c \in Range(walk'.requests) : ~Building(nodes, c)'
    BY DEF TreeInv, Building
  <1> QED BY <1>2, <1>3 DEF TreeInv, TreeOK

(* What changes one piece, and marks it.                                   *)
LEMMA TreeMarked ==
  ASSUME PoolInv, PoolInv', TreeInv, NEW l \in Leaves, marks' = marks \cup {l},
         \A x \in Leaves \ {l} : field'[x] = field[x] /\ ops'[x] = ops[x],
         field' = field \/ ~On("reload"),
         nodes' = nodes, batch' = batch, results' = results, host' = host, phase' = phase, walk' = walk, pool' = pool
  PROVE  TreeInv'
  <1>1. ASSUME NEW c \in TreeChunks PROVE SameFor(c, pool, pool') /\ Told(c)
    <2>1. CASE l \in Covers[c]
      BY <2>1 DEF SameFor, Told
    <2>2. CASE l \notin Covers[c]
      <3>0. \A x \in Covers[c] : x \in Leaves \ {l}
        BY <2>2, ConstantFacts
      <3>1. Content(c)' = Content(c)
        BY <3>0 DEF Content
      <3>2. [x \in Covers[c] |-> ops'[x]] = [x \in Covers[c] |-> ops[x]]
        BY <3>0
      <3>3. OverCap(c)' = OverCap(c)
        BY <3>2 DEF OverCap
      <3>4. Covers[c] \cap marks' = Covers[c] \cap marks
        BY <2>2
      <3> QED BY <3>1, <3>3, <3>4 DEF SameFor, Told
    <2> QED BY <2>1, <2>2
  <1>2. On("reload") => \A c \in TreeChunks : Content(c)' = Content(c)
    BY DEF Content
  <1> QED BY <1>1, <1>2, TreeStands

LEMMA TreeEvents ==
  ASSUME ReloadsMeetNoEdit, PoolInv, PoolInv', TreeInv
  PROVE  /\ (\E l \in Leaves, solid \in BOOLEAN : Edit(l, solid)) => TreeInv'
         /\ (\E l \in Leaves : Paint(l) \/ Consolidate(l)) => TreeInv'
         /\ (\E v \in Views : Move(v)) => TreeInv'
         /\ (\E live, anew \in BOOLEAN : ApplyIslandShells(live, anew)) => TreeInv'
         /\ ReleaseGpu => TreeInv'
  <1>0. host \in Hosts /\ field \in [Leaves -> Pieces] /\ ops \in [Leaves -> Nat]
    BY DEF PoolInv, LodType
  <1>1. ASSUME NEW l \in Leaves, NEW solid \in BOOLEAN, Edit(l, solid) PROVE TreeInv'
    <2>1. ~On("reload")
      BY <1>0, <1>1 DEF Edit, Event, On, ReloadsMeetNoEdit
    <2>2. \A x \in Leaves \ {l} : field'[x] = field[x] /\ ops'[x] = ops[x]
      BY <1>0, <1>1 DEF Edit
    <2> QED BY <1>1, <2>1, <2>2, TreeMarked DEF Edit, Record
  <1>2. ASSUME NEW l \in Leaves, Paint(l) PROVE TreeInv'
    <2>1. ~On("reload")
      BY <1>0, <1>2 DEF Paint, Event, On, ReloadsMeetNoEdit
    <2>2. \A x \in Leaves \ {l} : field'[x] = field[x] /\ ops'[x] = ops[x]
      BY <1>0, <1>2 DEF Paint
    <2> QED BY <1>2, <2>1, <2>2, TreeMarked DEF Paint, Record
  <1>3. ASSUME NEW l \in Leaves, Consolidate(l) PROVE TreeInv'
    <2>1. field' = field
      BY <1>3 DEF Consolidate
    <2>2. \A x \in Leaves \ {l} : field'[x] = field[x] /\ ops'[x] = ops[x]
      BY <1>0, <1>3 DEF Consolidate
    <2> QED BY <1>3, <2>1, <2>2, TreeMarked DEF Consolidate, Record
  <1>4. ASSUME marks' = marks, field' = field, ops' = ops PROVE \A c \in TreeChunks : Told(c)
    <2>1. \A c \in TreeChunks : Content(c)' = Content(c) /\ OverCap(c)' = OverCap(c)
      BY <1>4 DEF Content, OverCap
    <2> QED BY <1>4, <2>1 DEF Told
  <1>5. ASSUME NEW v \in Views, Move(v) PROVE TreeInv'
    <2>1. /\ marks' = marks /\ field' = field /\ ops' = ops
          /\ nodes' = nodes /\ batch' = batch /\ results' = results /\ host' = host /\ phase' = phase /\ walk' = walk
          /\ pool' = pool
      BY <1>5 DEF Move
    <2>2. \A c \in TreeChunks : SameFor(c, pool, pool') /\ Content(c)' = Content(c)
      BY <2>1 DEF SameFor, Content
    <2> QED BY <1>4, <2>1, <2>2, TreeStands
  <1>6. ASSUME NEW live \in BOOLEAN, NEW anew \in BOOLEAN, ApplyIslandShells(live, anew) PROVE TreeInv'
    <2>1. /\ marks' = marks /\ field' = field /\ ops' = ops
          /\ nodes' = nodes /\ batch' = batch /\ results' = results /\ host' = host /\ phase' = phase /\ walk' = walk
      BY <1>6 DEF ApplyIslandShells, world
    <2>2. KeepsFar(pool, pool')
      BY <1>6, PoolIslands
    <2>3. \A c \in TreeChunks : c \in Owners /\ Far(c)
      BY ConstantFacts DEF Far
    <2>4. \A c \in TreeChunks : SameFor(c, pool, pool') /\ Content(c)' = Content(c)
      <3>1. \A c \in TreeChunks : Content(c)' = Content(c)
        BY <2>1 DEF Content
      <3> QED BY <2>2, <2>3, <3>1 DEF KeepsFar, SameFor
    <2> QED BY <1>4, <2>1, <2>4, TreeStands
  <1>7. ASSUME ReleaseGpu PROVE TreeInv'
    <2>1. /\ \A c \in TreeChunks : nodes'[c] = None
          /\ On("reload") /\ phase' = "walk" /\ field' = field /\ batch' = batch /\ results' = results /\ host' = host
      BY <1>7 DEF ReleaseGpu, Event, world
    <2>2. ASSUME NEW c \in TreeChunks PROVE ChunkOK(c, nodes, pool, marks, {})'
      <3>1. Fresh(c, {})
        BY <2>1 DEF TreeInv, TreeOK, ChunkOK
      <3>2. Fresh(c, {})' <=> Fresh(c, {})
        BY <2>1 DEF Fresh, InBatch, InResults, Content
      <3>3. ~Building(nodes, c)'
        BY <2>1 DEF Building
      <3>4. On("reload")'
        BY <2>1 DEF On
      <3> QED BY <2>1, <3>1, <3>2, <3>3, <3>4 DEF ChunkOK
    <2> QED BY <2>1, <2>2 DEF TreeInv, TreeOK
  <1> QED BY <1>1, <1>2, <1>3, <1>5, <1>6, <1>7

(* The worker's answers take the place of its jobs.                        *)
LEMMA CatPlaces ==
  ASSUME NEW T, NEW s \in Seq(T), NEW t \in Seq(T)
  PROVE  LET n == Len(s)
             u == s \o t
         IN  /\ n \in Nat /\ DOMAIN s = 1..n
             /\ \A i \in DOMAIN s : i \in DOMAIN u /\ u[i] = s[i]
             /\ \A i \in DOMAIN t : n + i \in DOMAIN u /\ n + i \notin DOMAIN s /\ u[n + i] = t[i]
             /\ \A j \in DOMAIN u : j \in DOMAIN s \/ \E i \in DOMAIN t : j = n + i
  <1> DEFINE n == Len(s)
             m == Len(t)
             u == s \o t
  <1>1. n \in Nat /\ m \in Nat /\ DOMAIN s = 1..n /\ DOMAIN t = 1..m
    BY LenProperties
  <1>2. u \in Seq(T) /\ Len(u) = n + m
        /\ \A i \in 1..(n + m) : u[i] = IF i <= n THEN s[i] ELSE t[i - n]
    BY ConcatProperties
  <1>3. DOMAIN u = 1..(n + m)
    BY <1>2, LenProperties
  <1> HIDE DEF n, m, u
  <1>4. \A i \in 1..n : i \in 1..(n + m) /\ i <= n
    BY <1>1
  <1>5. \A i \in 1..m : n + i \in 1..(n + m) /\ ~(n + i <= n) /\ n + i - n = i /\ n + i \notin 1..n
    BY <1>1
  <1>6. \A j \in 1..(n + m) : j \in 1..n \/ (j - n \in 1..m /\ j = n + (j - n))
    BY <1>1
  <1>7. \A j \in DOMAIN u : j \in DOMAIN s \/ \E i \in DOMAIN t : j = n + i
    BY <1>1, <1>3, <1>6
  <1>8. \A i \in DOMAIN s : i \in DOMAIN u /\ u[i] = s[i]
    BY <1>1, <1>2, <1>3, <1>4
  <1>9. \A i \in DOMAIN t : n + i \in DOMAIN u /\ n + i \notin DOMAIN s /\ u[n + i] = t[i]
    BY <1>1, <1>2, <1>3, <1>5
  <1> QED BY <1>1, <1>7, <1>8, <1>9 DEF n, u

LEMMA AnswersCome ==
  ASSUME LodType, NEW A \in Seq(Answers), DOMAIN A = DOMAIN batch, results' = results \o A, batch' = <<>>,
         \A i \in DOMAIN batch : A[i].chunk = batch[i].chunk /\ (A[i].failed \/ A[i].content = batch[i].content),
         field' = field, NEW c \in TreeChunks \cup ShellChunks
  PROVE  /\ InFlight(c, {})' <=> InFlight(c, {})
         /\ Fresh(c, {}) => Fresh(c, {})'
         /\ Lone(c, {}) => Lone(c, {})'
  <1> DEFINE n == Len(results)
  <1>1. results \in Seq(Answers)
    BY DEF LodType
  <1>2. /\ n \in Nat /\ DOMAIN results = 1..n
        /\ \A i \in DOMAIN results : i \in DOMAIN results' /\ results'[i] = results[i]
        /\ \A i \in DOMAIN A : n + i \in DOMAIN results' /\ n + i \notin DOMAIN results /\ results'[n + i] = A[i]
        /\ \A j \in DOMAIN results' : j \in DOMAIN results \/ \E i \in DOMAIN A : j = n + i
    BY <1>1, CatPlaces
  <1> HIDE DEF n
  <1>3. InBatch(c)' = {}
    BY DEF InBatch
  <1>4. Content(c)' = Content(c)
    BY DEF Content
  <1>5. ASSUME NEW i \in InBatch(c)
        PROVE  n + i \in InResults(c, {})'
    BY <1>2, <1>5 DEF InBatch, InResults
  <1>6. ASSUME NEW i \in InResults(c, {})
        PROVE  i \in InResults(c, {})'
    BY <1>2, <1>6 DEF InResults
  <1>7. ASSUME NEW j \in InResults(c, {})'
        PROVE  \/ j \in InResults(c, {}) /\ results'[j] = results[j]
               \/ \E i \in InBatch(c) : j = n + i /\ results'[j] = A[i]
    <2>1. j \in DOMAIN results' /\ results'[j].chunk = c
      BY <1>7 DEF InResults
    <2>2. CASE j \in DOMAIN results
      BY <1>2, <2>1, <2>2 DEF InResults
    <2>3. CASE j \notin DOMAIN results
      BY <1>2, <2>1, <2>3 DEF InBatch
    <2> QED BY <2>2, <2>3
  <1>8. InFlight(c, {})' <=> InFlight(c, {})
    BY <1>3, <1>5, <1>6, <1>7 DEF InFlight
  <1>9. Fresh(c, {}) => Fresh(c, {})'
    <2> SUFFICES ASSUME Fresh(c, {}), NEW j \in InResults(c, {})'
                 PROVE  results'[j].failed \/ results'[j].content = Content(c)
      BY <1>3, <1>4 DEF Fresh
    <2>1. CASE j \in InResults(c, {}) /\ results'[j] = results[j]
      BY <2>1 DEF Fresh
    <2>2. ASSUME NEW i \in InBatch(c), j = n + i, results'[j] = A[i]
          PROVE  results'[j].failed \/ results'[j].content = Content(c)
      <3>1. batch[i].content = Content(c) /\ i \in DOMAIN batch
        BY DEF Fresh, InBatch
      <3> QED BY <2>2, <3>1
    <2> QED BY <1>7, <2>1, <2>2
  <1>10. Lone(c, {}) => Lone(c, {})'
    <2> SUFFICES ASSUME Lone(c, {}), NEW j \in InResults(c, {})', NEW k \in InResults(c, {})'
                 PROVE  j = k
      BY <1>3 DEF Lone
    <2> QED BY <1>7 DEF Lone
  <1> QED BY <1>8, <1>9, <1>10

LEMMA TreeBuild ==
  ASSUME PoolInv, TreeInv, Build \/ BuildFails
  PROVE  TreeInv'
  <1>1. /\ batch' = <<>> /\ nodes' = nodes /\ pool' = pool /\ marks' = marks /\ field' = field /\ ops' = ops
        /\ host' = host /\ phase' = phase /\ walk' = walk
    BY DEF Build, BuildFails, world
  <1>2. LodType
    BY DEF PoolInv
  <1>3. PICK A \in Seq(Answers) :
          /\ DOMAIN A = DOMAIN batch /\ results' = results \o A
          /\ \A i \in DOMAIN batch : A[i].chunk = batch[i].chunk /\ (A[i].failed \/ A[i].content = batch[i].content)
    <2>1. CASE Build
      <3>1. results' = results \o Answered
        BY <2>1 DEF Build, Answered, Success
      <3>2. \A i \in DOMAIN batch :
              Answered[i].chunk = batch[i].chunk /\ (Answered[i].failed \/ Answered[i].content = batch[i].content)
        BY <1>2, AnsweredFacts DEF Builds
      <3> QED BY <1>2, <3>1, <3>2, AnsweredFacts
    <2>2. CASE BuildFails
      <3>1. results' = results \o Failed
        BY <2>2 DEF BuildFails, Failed
      <3>2. \A i \in DOMAIN batch :
              Failed[i].chunk = batch[i].chunk /\ (Failed[i].failed \/ Failed[i].content = batch[i].content)
        BY <1>2, AnsweredFacts DEF Fails
      <3> QED BY <1>2, <3>1, <3>2, AnsweredFacts
    <2> QED BY <2>1, <2>2
  <1>4. ASSUME NEW c \in TreeChunks PROVE ChunkOK(c, nodes, pool, marks, {})'
    <2>1. ChunkOK(c, nodes, pool, marks, {})
      BY DEF TreeInv, TreeOK
    <2>2. /\ InFlight(c, {})' <=> InFlight(c, {})
          /\ Fresh(c, {}) => Fresh(c, {})'
          /\ Lone(c, {}) => Lone(c, {})'
      BY <1>1, <1>2, <1>3, AnswersCome
    <2>3. Content(c)' = Content(c) /\ OverCap(c)' = OverCap(c) /\ On("reload")' = On("reload")
      BY <1>1 DEF Content, OverCap, On
    <2>4. Honest(nodes[c], c, pool, marks) => Honest(nodes[c], c, pool, marks)'
      BY <1>1, <2>3 DEF Honest, Shows
    <2>5. Building(nodes, c)' <=> Building(nodes, c)
      BY <1>1 DEF Building
    <2> QED BY <1>1, <2>1, <2>2, <2>3, <2>4, <2>5 DEF ChunkOK
  <1>5. phase' = "submit" => IsInjective(walk'.requests) /\ \A c \in Range(walk'.requests) : ~Building(nodes, c)'
    BY <1>1 DEF TreeInv, Building
  <1> QED BY <1>4, <1>5 DEF TreeInv, TreeOK

(* The second half of the tick.                                            *)
LEMMA SentIsHonest ==
  ASSUME NEW c \in TreeChunks, NEW n \in NodeRecs, NEW taken \in BOOLEAN, ~n.building,
         n.state = "ready" => pool.owns[c] # <<>>, NEW M
  PROVE  LET m == Sent(n, c, taken)
         IN  /\ Honest(m, c, pool, M)
             /\ m.building <=> (~OverCap(c) /\ taken)
             /\ m.building => ~m.dirty
  <1> DEFINE m == Sent(n, c, taken)
             b == NoteBuilding(n)
             has == pool.owns[c] # <<>>
  <1>1. /\ b \in NodeRecs /\ b.building /\ ~b.dirty /\ b.state \in {"ready", "building"}
        /\ b.state = "ready" => has
    <2>1. b \in NodeRecs
      BY NotesAreNodes
    <2>2. b.building /\ ~b.dirty /\ b.state = IF n.state = "ready" THEN "ready" ELSE "building"
      BY DEF NoteBuilding, NodeRecs
    <2> QED BY <2>1, <2>2
  <1>2. has \in BOOLEAN
    OBVIOUS
  <1>3. m = IF OverCap(c) THEN NoteRefused(b, has)
            ELSE IF taken THEN b ELSE IF has THEN NoteReadyDirty(b) ELSE NoteFailed(b)
    BY DEF Sent
  <1> HIDE DEF m, b
  <1>4. CASE OverCap(c)
    <2>1. m = NoteRefused(b, has)
      BY <1>3, <1>4
    <2>2. ~m.building /\ ~m.dirty /\ m.state = IF has THEN "ready" ELSE "failed"
      <3> HIDE DEF has
      <3> QED BY <1>1, <2>1 DEF NoteRefused, NodeRecs
    <2> QED BY <1>4, <2>2 DEF Honest, m
  <1>5. CASE ~OverCap(c) /\ taken
    <2>1. m = b
      BY <1>3, <1>5
    <2> QED BY <1>1, <1>5, <2>1 DEF Honest, m
  <1>6. CASE ~OverCap(c) /\ ~taken /\ has
    <2>1. m = NoteReadyDirty(b)
      BY <1>3, <1>6
    <2>2. ~m.building /\ m.dirty /\ m.state = "ready"
      BY <1>1, <2>1 DEF NoteReadyDirty, NodeRecs
    <2> QED BY <1>6, <2>2 DEF Honest, m
  <1>7. CASE ~OverCap(c) /\ ~taken /\ ~has
    <2>1. m = NoteFailed(b)
      BY <1>3, <1>7
    <2>2. ~m.building /\ m.state = "failed"
      BY <1>1, <2>1 DEF NoteFailed, NodeRecs
    <2> QED BY <1>7, <2>2 DEF Honest, m
  <1> QED BY <1>4, <1>5, <1>6, <1>7

(* The batch that goes out.                                                *)
LEMMA BatchGoesOut ==
  ASSUME LodType, NEW taken \in BOOLEAN, batch' = IF taken /\ batch = <<>> THEN Sending ELSE batch,
         results' = results, field' = field, NEW c \in TreeChunks \cup ShellChunks
  PROVE  /\ batch # <<>> \/ ~taken \/ c \notin Range(Jobs) => InBatch(c)' = InBatch(c)
         /\ taken /\ c \in Range(Jobs) =>
              /\ batch = <<>> /\ InBatch(c) = {} /\ InBatch(c)' # {}
              /\ \A i \in InBatch(c)' : batch'[i].content = Content(c)'
              /\ IsInjective(Jobs) => \A i, j \in InBatch(c)' : i = j
         /\ InResults(c, {})' = InResults(c, {}) /\ Content(c)' = Content(c)
  <1>1. /\ Jobs \in Seq(TreeChunks \cup ShellChunks) /\ DOMAIN Sending = DOMAIN Jobs
        /\ \A i \in DOMAIN Jobs : Sending[i] = Job(Jobs[i])
        /\ batch # <<>> => Jobs = <<>>
    BY SendingFacts
  <1>2. InResults(c, {})' = InResults(c, {}) /\ Content(c)' = Content(c)
    BY DEF InResults, Content
  <1>3. CASE ~(taken /\ batch = <<>>)
    <2>1. batch' = batch /\ InBatch(c)' = InBatch(c)
      BY <1>3 DEF InBatch
    <2>2. batch # <<>> => Range(Jobs) = {}
      BY <1>1, HeadIsOne
    <2> QED BY <1>2, <1>3, <2>1, <2>2
  <1>4. CASE taken /\ batch = <<>>
    <2>1. batch' = Sending /\ InBatch(c) = {}
      BY <1>4 DEF InBatch
    <2>2. InBatch(c)' = {i \in DOMAIN Jobs : Jobs[i] = c}
      BY <1>1, <2>1 DEF InBatch, Job
    <2>3. \A i \in InBatch(c)' : batch'[i].content = Content(c)
      BY <1>1, <2>1, <2>2 DEF Job
    <2>4. c \in Range(Jobs) <=> InBatch(c)' # {}
      BY <2>2 DEF Range
    <2>5. IsInjective(Jobs) => \A i, j \in InBatch(c)' : i = j
      BY <2>2 DEF IsInjective
    <2> QED BY <1>2, <1>4, <2>1, <2>3, <2>4, <2>5
  <1> QED BY <1>3, <1>4

LEMMA TreeTickSubmit ==
  ASSUME PoolInv, TreeInv, NEW taken \in BOOLEAN, TickSubmit(taken)
  PROVE  TreeInv'
  <1>1. LodType /\ TreeChunks \cap ShellChunks = {} /\ nodes \in [TreeChunks -> NodeRecs \cup {None}]
    BY ConstantFacts DEF PoolInv, LodType
  <1>2. /\ phase = "submit" /\ phase' = "walk" /\ (~taken => Jobs # <<>>)
        /\ batch' = IF taken /\ batch = <<>> THEN Sending ELSE batch
        /\ nodes' = [c \in TreeChunks |-> IF c \in Range(Chosen) THEN Sent(Node(nodes, c), c, taken) ELSE nodes[c]]
        /\ pool' = Dropped(pool)
        /\ field' = field /\ ops' = ops /\ marks' = marks /\ results' = results /\ host' = host
    BY <1>1, SubmitIs
  <1>3. pool \in Pools /\ Sound(pool) /\ pool.up
    BY <1>2 DEF PoolInv, PoolIsSound, LodType
  <1>4. Dropped(pool) \in Pools /\ \A c \in TreeChunks : SameFor(c, pool, Dropped(pool))
    <2>1. /\ Dropped(pool) \in Pools /\ Dropped(pool).shows = pool.shows
          /\ \A o \in Owners : ~Departs(o) => Dropped(pool).owns[o] = pool.owns[o]
      BY <1>3, DroppedKeeps
    <2>2. \A c \in TreeChunks : c \in Owners /\ ~Departs(c)
      BY <1>1, ConstantFacts DEF Departs
    <2> QED BY <2>1, <2>2 DEF SameFor
  <1>5. /\ \A c \in Range(walk.requests) : ~Building(nodes, c)
        /\ IsInjective(Jobs)
        /\ Range(Jobs) = {c \in Range(Chosen) : ~OverCap(c)}
        /\ batch # <<>> => Jobs = <<>> /\ Chosen = <<>>
    BY <1>1, <1>2, SendingFacts, ChosenFacts DEF TreeInv
  <1>6. ASSUME NEW c \in TreeChunks PROVE ChunkOK(c, nodes, pool, marks, {})'
    <2>0. Content(c)' = Content(c) /\ OverCap(c)' = OverCap(c) /\ On("reload")' = On("reload")
      BY <1>2 DEF Content, OverCap, On
    <2>1. ChunkOK(c, nodes, pool, marks, {})
      BY DEF TreeInv, TreeOK
    <2>2. /\ batch # <<>> \/ ~taken \/ c \notin Range(Jobs) => InBatch(c)' = InBatch(c)
          /\ taken /\ c \in Range(Jobs) =>
               /\ batch = <<>> /\ InBatch(c) = {} /\ InBatch(c)' # {}
               /\ \A i \in InBatch(c)' : batch'[i].content = Content(c)'
               /\ \A i, j \in InBatch(c)' : i = j
          /\ InResults(c, {})' = InResults(c, {})
      BY <1>1, <1>2, <1>5, BatchGoesOut
    <2>3. ASSUME NEW n, Honest(n, c, pool, marks), nodes'[c] = n
          PROVE  Honest(nodes[c], c, pool, marks)'
      <3>1. Honest(n, c, Dropped(pool), marks)
        BY <1>3, <1>4, <2>3, HonestStays
      <3> QED BY <1>2, <2>0, <2>3, <3>1 DEF Honest, Shows
    <2>4. CASE c \notin Range(Chosen)
      <3>1. nodes'[c] = nodes[c] /\ c \notin Range(Jobs)
        BY <1>2, <1>5, <2>4
      <3>2. InBatch(c)' = InBatch(c) /\ InResults(c, {})' = InResults(c, {})
        BY <2>2, <3>1
      <3>3. /\ InFlight(c, {})' <=> InFlight(c, {})
            /\ Lone(c, {})' <=> Lone(c, {})
        BY <3>2 DEF InFlight, Lone
      <3>4. Fresh(c, {}) => Fresh(c, {})'
        <4>1. CASE InBatch(c) = {}
          BY <1>2, <2>0, <3>2, <4>1 DEF Fresh
        <4>2. CASE InBatch(c) # {}
          <5>1. batch # <<>> /\ batch' = batch
            BY <1>2, <4>2 DEF InBatch
          <5> QED BY <1>2, <2>0, <3>2, <5>1 DEF Fresh
        <4> QED BY <4>1, <4>2
      <3>5. nodes[c] # None => Honest(nodes[c], c, pool, marks)'
        BY <2>1, <2>3, <3>1 DEF ChunkOK
      <3>6. Building(nodes, c)' <=> Building(nodes, c)
        BY <3>1 DEF Building
      <3> QED BY <1>2, <2>0, <2>1, <3>1, <3>3, <3>4, <3>5, <3>6 DEF ChunkOK
    <2>5. CASE c \in Range(Chosen)
      <3> DEFINE n == Node(nodes, c)
                 m == Sent(n, c, taken)
      <3>1. nodes'[c] = m /\ batch = <<>> /\ ~Building(nodes, c)
        <4>1. Chosen = <<>> => Range(Chosen) = {}
          BY DEF Range
        <4> QED BY <1>1, <1>2, <1>5, <2>5, <4>1, ChosenFacts
      <3>2. n \in NodeRecs /\ ~n.building /\ (n.state = "ready" => pool.owns[c] # <<>>)
        <4>1. n \in NodeRecs /\ (nodes[c] # None => n = nodes[c]) /\ (nodes[c] = None => n = NewNode)
          BY <1>1, NodeIsOne
        <4>2. CASE nodes[c] = None
          <5>1. n = NewNode
            BY <4>1, <4>2
          <5> HIDE DEF n
          <5> QED BY <4>1, <5>1 DEF NewNode
        <4>3. CASE nodes[c] # None
          <5> HIDE DEF n
          <5> QED BY <2>1, <3>1, <4>1, <4>3 DEF ChunkOK, Building, Honest
        <4> QED BY <4>2, <4>3
      <3> HIDE DEF n
      <3>3. /\ Honest(m, c, pool, marks)
            /\ m.building <=> (~OverCap(c) /\ taken)
            /\ m.building => ~m.dirty
        BY <3>2, SentIsHonest
      <3>4. m # None
        <4>1. m \in NodeRecs
          BY <3>2, SentAreNodes
        <4> QED BY <4>1, ConstantFacts
      <3> HIDE DEF m
      <3>5. Honest(nodes[c], c, pool, marks)'
        BY <2>3, <3>1, <3>3
      <3>6. Building(nodes, c)' <=> (~OverCap(c) /\ taken)
        BY <3>1, <3>3, <3>4 DEF Building
      <3>7. InBatch(c) = {}
        BY <3>1 DEF InBatch
      <3>8. ~On("reload") => InResults(c, {}) = {}
        BY <2>1, <3>1 DEF ChunkOK, InFlight
      <3>9. On("reload") => \A i \in InResults(c, {})' : results'[i].failed \/ results'[i].content = Content(c)'
        BY <1>2, <2>0, <2>1, <2>2 DEF ChunkOK, Fresh
      <3>10. CASE ~OverCap(c) /\ taken
        <4>1. c \in Range(Jobs)
          BY <1>5, <2>5, <3>10
        <4>2. InFlight(c, {})' /\ (~On("reload") => Lone(c, {})')
          BY <2>2, <3>8, <3>10, <4>1 DEF InFlight, Lone
        <4>3. Fresh(c, {})'
          <5>1. \A i \in InResults(c, {})' : results'[i].failed \/ results'[i].content = Content(c)'
            BY <2>2, <3>8, <3>9
          <5> QED BY <2>2, <3>10, <4>1, <5>1 DEF Fresh
        <4> QED BY <2>0, <3>5, <3>6, <3>10, <4>2, <4>3 DEF ChunkOK
      <3>11. CASE ~(~OverCap(c) /\ taken)
        <4>1. InBatch(c)' = {}
          BY <1>5, <2>2, <3>7, <3>11
        <4>2. ~On("reload") => ~InFlight(c, {})'
          BY <2>2, <3>8, <4>1 DEF InFlight
        <4>3. On("reload") => Fresh(c, {})'
          BY <3>9, <4>1 DEF Fresh
        <4> QED BY <2>0, <3>5, <3>6, <3>11, <4>2, <4>3 DEF ChunkOK
      <3> QED BY <3>10, <3>11
    <2> QED BY <2>4, <2>5
  <1> QED BY <1>2, <1>6 DEF TreeInv, TreeOK

LEMMA TreeInit ==
  ASSUME Init
  PROVE  TreeInv
  <1>1. /\ \A c \in TreeChunks : nodes[c] = None
        /\ batch = <<>> /\ results = <<>> /\ phase = "walk"
    BY DEF Init
  <1>2. ASSUME NEW c \in TreeChunks PROVE ChunkOK(c, nodes, pool, marks, {})
    <2>1. InBatch(c) = {} /\ InResults(c, {}) = {}
      BY <1>1 DEF InBatch, InResults
    <2> QED BY <1>1, <2>1 DEF ChunkOK, Building, InFlight, Fresh
  <1> QED BY <1>1, <1>2 DEF TreeInv, TreeOK

LEMMA TreeNext ==
  ASSUME ReloadsMeetNoEdit, PoolInv, PoolInv', TreeInv, [Next]_vars
  PROVE  TreeInv'
  <1>1. CASE Next
    <2>1. CASE TickWalk
      BY <2>1, TreeTickWalk
    <2>2. CASE Submit \/ SubmitRefused
      <3>1. TickSubmit(TRUE) \/ TickSubmit(FALSE)
        BY <2>2 DEF Submit, SubmitRefused
      <3> QED BY <3>1, TreeTickSubmit
    <2>3. CASE Build \/ BuildFails
      BY <2>3, TreeBuild
    <2>4. CASE \/ \E l \in Leaves, solid \in BOOLEAN : Edit(l, solid)
               \/ \E l \in Leaves : Paint(l) \/ Consolidate(l)
               \/ \E v \in Views : Move(v)
               \/ \E live, anew \in BOOLEAN : ApplyIslandShells(live, anew)
               \/ ReleaseGpu
      BY <2>4, TreeEvents
    <2> QED BY <1>1, <2>1, <2>2, <2>3, <2>4 DEF Next
  <1>2. CASE UNCHANGED vars
    <2>1. /\ field' = field /\ ops' = ops /\ marks' = marks /\ nodes' = nodes /\ pool' = pool /\ walk' = walk
          /\ batch' = batch /\ results' = results /\ phase' = phase /\ host' = host
      BY <1>2 DEF vars, world
    <2>2. \A c \in TreeChunks : Content(c)' = Content(c) /\ OverCap(c)' = OverCap(c)
      BY <2>1 DEF Content, OverCap
    <2>3. \A c \in TreeChunks : SameFor(c, pool, pool') /\ Told(c)
      BY <2>1, <2>2 DEF SameFor, Told
    <2> QED BY <2>1, <2>2, <2>3, TreeStands
  <1> QED BY <1>1, <1>2

(* The invariant of the tree: a node that no mark, flag or build speaks    *)
(* for tells the truth, a chunk whose node says building has an answer     *)
(* under way, and unless it was marked since, that answer has seen the     *)
(* field as it is.                                                         *)
THEOREM LodTree ==
  ReloadsAlone /\ ReloadsMeetNoEdit => (Spec => []TreeInv)
  <1> SUFFICES ASSUME ReloadsAlone, ReloadsMeetNoEdit PROVE Spec => []TreeInv
    OBVIOUS
  <1>1. Init => TreeInv
    BY TreeInit
  <1>2. PoolInv /\ PoolInv' /\ TreeInv /\ [Next]_vars => TreeInv'
    BY TreeNext
  <1>3. Spec => []PoolInv
    BY LodPool
  <1> QED BY <1>1, <1>2, <1>3, PTL DEF Spec

(* No edit is lost to the tree, where no reload meets an edit or an        *)
(* island.                                                                 *)
THEOREM LodTreeEdits ==
  ReloadsAlone /\ ReloadsMeetNoEdit => (Spec => []TreeEditsAreKnown)
  <1> SUFFICES ASSUME ReloadsAlone, ReloadsMeetNoEdit PROVE Spec => []TreeEditsAreKnown
    OBVIOUS
  <1>1. ASSUME PoolInv, TreeInv PROVE TreeEditsAreKnown
    <2> SUFFICES ASSUME NEW c \in TreeChunks, nodes[c] # None, ~nodes[c].dirty, Covers[c] \cap marks = {}, ~OverCap(c),
                        nodes[c].state \notin {"unknown", "failed"},
                        ~(nodes[c].building /\ Answering(c))
                 PROVE  TellsTheTruth(c, nodes[c].state)
      BY DEF TreeEditsAreKnown
    <2>1. ChunkOK(c, nodes, pool, marks, {})
      BY <1>1 DEF TreeInv, TreeOK
    <2>2. nodes[c] \in NodeRecs
      BY <1>1 DEF PoolInv, LodType
    <2>3. nodes[c].state \in {"building", "ready", "empty"}
      BY <2>2 DEF NodeRecs, StateNames
    <2>4. ~nodes[c].building
      <3> SUFFICES ASSUME nodes[c].building PROVE Answering(c)
        OBVIOUS
      <3>1. InFlight(c, {}) /\ Fresh(c, {})
        BY <2>1 DEF ChunkOK, Building
      <3>2. ASSUME NEW i \in InBatch(c) PROVE Answering(c)
        <4>1. batch[i] \in Range(batch) /\ batch[i].chunk = c /\ batch[i].content = Content(c)
          BY <3>1, <3>2 DEF InBatch, Range, Fresh
        <4> QED BY <4>1 DEF Answering
      <3>3. ASSUME NEW i \in InResults(c, {}) PROVE Answering(c)
        <4>1. /\ results[i] \in Range(results) /\ results[i].chunk = c
              /\ results[i].failed \/ results[i].content = Content(c)
          BY <3>1, <3>3 DEF InResults, Range, Fresh
        <4> QED BY <4>1 DEF Answering
      <3> QED BY <3>1, <3>2, <3>3 DEF InFlight
    <2>5. Honest(nodes[c], c, pool, marks)
      BY <2>1 DEF ChunkOK
    <2> QED BY <2>3, <2>4, <2>5 DEF Honest, TellsTheTruth, Shows
  <1>2. Spec => []PoolInv /\ []TreeInv
    BY LodPool, LodTree
  <1> QED BY <1>1, <1>2, PTL

-----------------------------------------------------------------------------
(* So does the shell                                                       *)

(* A result for a chunk of the shell that has left the candidates, or been *)
(* dropped by a reload, may be taken for one that was asked for since: of  *)
(* the chunks that were listed again meanwhile nothing is known.  The      *)
(* others are honest, wait for the one answer under way, and unless they   *)
(* were marked since, that answer has seen the field as it is.  A failure  *)
(* does not find the shell.                                                *)
HonestShell(n, c, p, M) ==
  /\ n.state # "failed"
  /\ ~n.dirty /\ Covers[c] \cap M = {} =>
       /\ n.state = "empty" => OverCap(c) \/ Blank(c, Content(c))
       /\ n.state = "ready" => OverCap(c) \/ Shows(p, c, Content(c))

ShellBuilding(t, c) == t[c] # None /\ t[c].state = "building"

Reaches(i) ==
  \/ results[i].shell /\ ~results[i].failed
  \/ ~results[i].shell /\ results[i].failed /\ On("fail")

Place(c, t, p, M, landed) ==
  /\ t[c] # None => HonestShell(t[c], c, p, M)
  /\ t[c] # None /\ InFlight(c, landed) => ShellBuilding(t, c) /\ Lone(c, landed)
  /\ ShellBuilding(t, c) => InFlight(c, landed) \/ On("fail")
  /\ ShellBuilding(t, c) /\ ~t[c].dirty /\ Covers[c] \cap M = {} => Fresh(c, landed)

PlaceOK(c, t, p, M, landed) ==
  /\ c \notin relisted => Place(c, t, p, M, landed)
  /\ \A i \in InResults(c, landed) : Reaches(i)
ShellOK(t, p, M, landed) == \A c \in ShellChunks : PlaceOK(c, t, p, M, landed)

ShellInv ==
  /\ ShellOK(shell, pool, marks, {})
  /\ phase = "submit" => IsInjective(walk.requests)

LEMMA HonestShellStays ==
  ASSUME NEW p \in Pools, NEW q \in Pools, NEW c \in ShellChunks, SameFor(c, p, q), NEW M, NEW n, HonestShell(n, c, p, M)
  PROVE  HonestShell(n, c, q, M)
  <1>1. Shows(p, c, Content(c)) => Shows(q, c, Content(c))
    BY ShowsStays
  <1> QED BY <1>1 DEF HonestShell

LEMMA PlaceStays ==
  ASSUME NEW p \in Pools, NEW q \in Pools, NEW c \in ShellChunks, NEW t, NEW u, NEW M, NEW landed,
         u[c] = t[c], SameFor(c, p, q), Place(c, t, p, M, landed)
  PROVE  Place(c, u, q, M, landed)
  <1>1. t[c] # None => HonestShell(t[c], c, q, M)
    BY HonestShellStays DEF Place
  <1>2. ShellBuilding(t, c) <=> ShellBuilding(u, c)
    BY DEF ShellBuilding
  <1> QED BY <1>1, <1>2 DEF Place

(* A chunk that nobody is building and of which no answer is out.          *)
LEMMA PlaceAtRest ==
  ASSUME NEW c \in ShellChunks, NEW t, NEW p, NEW M, NEW landed,
         t[c] # None => HonestShell(t[c], c, p, M) /\ t[c].state # "building" /\ ~InFlight(c, landed)
  PROVE  Place(c, t, p, M, landed)
  BY DEF Place, ShellBuilding

LEMMA LandShellIsHonest ==
  ASSUME NEW n \in ShellRecs, NEW m \in ShellRecs, NEW q \in Pools, NEW r \in Answers,
         NEW c \in ShellChunks, c = r.chunk, n # None, ShellLanding(n, m, q, r),
         n.dirty \/ r.content = Content(c)
  PROVE  HonestShell(m, c, q, {}) /\ m.state # "building"
  <1>1. CASE m = ShellFailed(n)
    <2>1. m.state = "unknown"
      BY <1>1 DEF ShellFailed, ShellRecs
    <2> QED BY <2>1 DEF HonestShell
  <1>2. CASE m = ShellEmpty(n) /\ ~r.failed /\ Blank(c, r.content)
    <2>1. m.state = "empty" /\ m.dirty = n.dirty
      BY <1>2 DEF ShellEmpty, ShellRecs
    <2> QED BY <1>2, <2>1 DEF HonestShell
  <1>3. CASE m = ShellReady(n) /\ ~r.failed /\ Shows(q, c, r.content)
    <2>1. m.state = "ready" /\ m.dirty = n.dirty
      BY <1>3 DEF ShellReady, ShellRecs
    <2> QED BY <1>3, <2>1 DEF HonestShell
  <1> QED BY <1>1, <1>2, <1>3 DEF ShellLanding

LEMMA LandShellOK ==
  ASSUME LodType, NEW s \in Grounds, Sound(s.pool), s.pool.up, NEW landed, NEW i \in DOMAIN results \ landed,
         ShellOK(s.shell, s.pool, {}, landed)
  PROVE  LET t == Land(s, results[i])
         IN  /\ t \in Grounds /\ Sound(t.pool) /\ t.pool.up
             /\ ShellOK(t.shell, t.pool, {}, landed \cup {i})
  <1> DEFINE r == results[i]
             t == Land(s, r)
             done == landed \cup {i}
  <1>1. r \in Answers /\ r \in AnswerRecs /\ r.chunk \in TreeChunks \cup ShellChunks /\ r.shell \in BOOLEAN
        /\ (r.shell => r.chunk \in ShellChunks) /\ TreeChunks \cap ShellChunks = {}
    <2>1. results \in Seq(Answers)
      BY DEF LodType
    <2>2. r \in Answers
      BY <2>1
    <2> HIDE DEF r
    <2> QED BY <2>2, ConstantFacts DEF Answers, AnswerRecs
  <1>2. s.pool \in Pools /\ s.shell \in [ShellChunks -> ShellRecs \cup {None}]
    BY DEF Grounds
  <1>3. t \in Grounds /\ Sound(t.pool) /\ t.pool.up
    BY <1>1, LandKeeps
  <1>4. t.pool \in Pools /\ t.shell \in [ShellChunks -> ShellRecs \cup {None}]
    BY <1>3 DEF Grounds
  <1>0. \A c \in ShellChunks : InResults(c, done) = InResults(c, landed) \ {i}
    BY DEF InResults
  <1> HIDE DEF t, r, done
  <1>5. ASSUME NEW c \in ShellChunks, c # r.chunk, t.shell[c] = s.shell[c], SameFor(c, s.pool, t.pool)
        PROVE  PlaceOK(c, t.shell, t.pool, {}, done)
    <2>1. InResults(c, done) = InResults(c, landed)
      BY <1>5 DEF InResults, r, done
    <2>2. PlaceOK(c, s.shell, s.pool, {}, landed)
      BY DEF ShellOK
    <2>3. c \notin relisted => Place(c, t.shell, t.pool, {}, landed)
      BY <1>2, <1>4, <1>5, <2>2, PlaceStays DEF PlaceOK
    <2>4. Place(c, t.shell, t.pool, {}, landed) => Place(c, t.shell, t.pool, {}, done)
      BY <2>1 DEF Place, InFlight, Fresh, Lone
    <2> QED BY <2>1, <2>2, <2>3, <2>4 DEF PlaceOK
  <1>6. CASE r.chunk \in TreeChunks
    <2>1. ~r.shell
      BY <1>1, <1>6
    <2>2. t.shell = s.shell /\ Keeps(s.pool, t.pool, r.chunk)
      BY <1>1, <1>6, <2>1, LandTreeKeeps DEF t
    <2>3. \A c \in ShellChunks : c # r.chunk /\ c \in Owners \ {r.chunk}
      BY <1>1, <1>6, ConstantFacts
    <2>4. \A c \in ShellChunks : t.shell[c] = s.shell[c] /\ SameFor(c, s.pool, t.pool)
      BY <2>2, <2>3 DEF Keeps, SameFor
    <2>5. \A c \in ShellChunks : PlaceOK(c, t.shell, t.pool, {}, done)
      BY <1>5, <2>3, <2>4
    <2> QED BY <1>3, <2>5 DEF ShellOK, t, r, done
  <1>7. CASE r.chunk \in ShellChunks
    <2> DEFINE d == r.chunk
               n == s.shell[d]
               m == t.shell[d]
    <2>1. PlaceOK(d, s.shell, s.pool, {}, landed)
      BY <1>7 DEF ShellOK
    <2>2. i \in InResults(d, landed) /\ InFlight(d, landed)
      BY DEF InResults, InFlight, r
    <2>3. InResults(d, done) = InResults(d, landed) \ {i}
      BY <1>0, <1>7
    <2>4. (\A j \in InResults(d, done) : Reaches(j)) /\ Reaches(i)
      BY <2>1, <2>2, <2>3 DEF PlaceOK
    <2>5. ASSUME d \notin relisted, n # None
          PROVE  /\ ShellBuilding(s.shell, d) /\ ~InFlight(d, done) /\ Fresh(d, done)
                 /\ n.dirty \/ Fresh(d, landed)
      <3>1. ShellBuilding(s.shell, d) /\ Lone(d, landed) /\ (n.dirty \/ Fresh(d, landed))
        BY <2>1, <2>2, <2>5 DEF PlaceOK, Place
      <3>2. InBatch(d) = {} /\ InResults(d, done) = {}
        BY <2>2, <2>3, <3>1 DEF Lone
      <3> QED BY <3>1, <3>2 DEF InFlight, Fresh
    <2>6. ASSUME \A c \in ShellChunks \ {d} : t.shell[c] = s.shell[c] /\ SameFor(c, s.pool, t.pool),
                 d \notin relisted => Place(d, t.shell, t.pool, {}, done)
          PROVE  ShellOK(t.shell, t.pool, {}, done)
      <3>1. PlaceOK(d, t.shell, t.pool, {}, done)
        BY <2>4, <2>6 DEF PlaceOK
      <3> QED BY <1>5, <2>6, <3>1 DEF ShellOK
    <2>7. CASE ~r.shell
      <3>1. t = s
        BY <1>7, <2>7 DEF Land, t
      <3>2. On("fail")
        BY <2>4, <2>7 DEF Reaches, r
      <3>3. \A c \in ShellChunks \ {d} : t.shell[c] = s.shell[c] /\ SameFor(c, s.pool, t.pool)
        BY <3>1 DEF SameFor
      <3>4. ASSUME d \notin relisted PROVE Place(d, t.shell, t.pool, {}, done)
        <4>1. CASE n = None
          BY <3>1, <4>1 DEF Place, ShellBuilding
        <4>2. CASE n # None
          <5>1. HonestShell(n, d, s.pool, {})
            BY <2>1, <3>4, <4>2 DEF PlaceOK, Place
          <5>2. ~InFlight(d, done) /\ Fresh(d, done)
            BY <2>5, <3>4, <4>2
          <5> QED BY <3>1, <3>2, <5>1, <5>2 DEF Place
        <4> QED BY <4>1, <4>2
      <3> QED BY <1>3, <2>6, <3>3, <3>4 DEF t, r, done
    <2>8. CASE r.shell
      <3>1. /\ \A c \in ShellChunks \ {d} : t.shell[c] = s.shell[c]
            /\ Keeps(s.pool, t.pool, d) /\ ShellLanding(n, m, t.pool, r)
        BY <1>1, <1>7, <2>8, LandShellKeeps DEF t
      <3>2. \A c \in ShellChunks \ {d} : t.shell[c] = s.shell[c] /\ SameFor(c, s.pool, t.pool)
        <4>1. \A c \in ShellChunks \ {d} : c \in Owners \ {d}
          BY ConstantFacts
        <4> QED BY <3>1, <4>1 DEF Keeps, SameFor
      <3>3. ASSUME d \notin relisted PROVE Place(d, t.shell, t.pool, {}, done)
        <4>1. CASE n = None
          <5>1. m = None
            BY <3>1, <4>1 DEF ShellLanding
          <5> QED BY <1>7, <5>1, PlaceAtRest
        <4>2. CASE n # None
          <5>1. ~r.failed
            BY <2>4, <2>8 DEF Reaches, r
          <5>2. n.dirty \/ r.content = Content(d)
            BY <2>2, <2>5, <3>3, <4>2, <5>1 DEF Fresh, r
          <5>3. n \in ShellRecs
            BY <1>2, <1>7, <4>2
          <5>4. m \in ShellRecs
            <6> HIDE DEF n, m
            <6>1. m = ShellFailed(n) \/ m = ShellEmpty(n) \/ m = ShellReady(n)
              BY <3>1, <4>2 DEF ShellLanding
            <6> QED BY <5>3, <6>1, ShellNotes
          <5>5. HonestShell(m, d, t.pool, {}) /\ m.state # "building"
            <6> HIDE DEF n, m
            <6> QED BY <1>1, <1>4, <1>7, <3>1, <4>2, <5>2, <5>3, <5>4, LandShellIsHonest
          <5> QED BY <1>7, <2>5, <3>3, <4>2, <5>5, PlaceAtRest
        <4> QED BY <4>1, <4>2
      <3> QED BY <1>3, <2>6, <3>2, <3>3 DEF t, r, done
    <2> QED BY <1>1, <2>7, <2>8
  <1> QED BY <1>1, <1>6, <1>7

LEMMA BaseShellOK ==
  ASSUME PoolInv, ShellInv
  PROVE  ShellOK(Base.shell, Base.pool, {}, {})
  <1>1. LodType /\ shell \in [ShellChunks -> ShellRecs \cup {None}]
    BY DEF PoolInv, LodType
  <1>2. Base.shell = MarkedShell /\ (pool.up => Base.pool = pool)
    BY BaseIsGround
  <1>3. \A c \in ShellChunks :
          /\ shell[c] = None => MarkedShell[c] = None
          /\ shell[c] # None =>
               MarkedShell[c] = IF Covers[c] \cap marks # {} THEN [shell[c] EXCEPT !.dirty = TRUE] ELSE shell[c]
    BY <1>1, MarkedKeeps
  <1>4. ASSUME NEW c \in ShellChunks
        PROVE  PlaceOK(c, Base.shell, Base.pool, {}, {})
    <2> DEFINE n == shell[c]
               m == MarkedShell[c]
    <2>1. PlaceOK(c, shell, pool, marks, {})
      BY DEF ShellInv, ShellOK
    <2>2. CASE n = None
      <3>1. Base.shell[c] = None
        BY <1>2, <1>3, <2>2
      <3> QED BY <2>1, <3>1, PlaceAtRest DEF PlaceOK
    <2>3. CASE n # None
      <3>1. Base.pool = pool
        BY <1>2, <2>3 DEF PoolInv, PoolIsSound
      <3>2. n \in ShellRecs
        BY <1>1, <2>3
      <3>3. /\ m # None /\ m.state = n.state
            /\ m.dirty \/ Covers[c] \cap marks # {} <=> n.dirty \/ Covers[c] \cap marks # {}
            /\ Covers[c] \cap marks # {} => m.dirty
        <4>1. CASE Covers[c] \cap marks # {}
          <5>1. m = [n EXCEPT !.dirty = TRUE]
            BY <1>3, <2>3, <4>1
          <5> HIDE DEF n, m
          <5>2. m \in ShellRecs /\ m.state = n.state /\ m.dirty
            BY <3>2, <5>1 DEF ShellRecs
          <5> QED BY <4>1, <5>2, ConstantFacts
        <4>2. CASE Covers[c] \cap marks = {}
          <5>1. m = n
            BY <1>3, <2>3, <4>2
          <5> QED BY <2>3, <4>2, <5>1
        <4> QED BY <4>1, <4>2
      <3>4. Base.shell[c] = m
        BY <1>2
      <3>5. (ShellBuilding(Base.shell, c) <=> m.state = "building") /\ (ShellBuilding(shell, c) <=> n.state = "building")
        BY <2>3, <3>3, <3>4 DEF ShellBuilding
      <3>6. HonestShell(n, c, pool, marks) => HonestShell(m, c, pool, {})
        <4> HIDE DEF n, m
        <4> QED BY <3>3 DEF HonestShell
      <3>7. Place(c, shell, pool, marks, {}) => Place(c, Base.shell, Base.pool, {}, {})
        BY <2>3, <3>1, <3>3, <3>4, <3>5, <3>6 DEF Place
      <3> QED BY <2>1, <3>7 DEF PlaceOK
    <2> QED BY <2>2, <2>3
  <1> QED BY <1>4 DEF ShellOK

LEMMA ShellTickWalk ==
  ASSUME PoolInv, ShellInv, TickWalk
  PROVE  ShellInv'
  <1> DEFINE n == Len(results)
             Good(t, s) == /\ t \in Grounds /\ Sound(t.pool) /\ t.pool.up
                           /\ ShellOK(t.shell, t.pool, {}, s)
             W == [s \in SUBSET (1..n) |-> {t \in Grounds : Good(t, s)}]
  <1>1. LodType /\ results \in Seq(Answers) /\ n \in Nat /\ DOMAIN results = 1..n
    <2>1. LodType /\ results \in Seq(Answers)
      BY DEF PoolInv, LodType
    <2> QED BY <2>1, LenProperties
  <1>2. Base \in Grounds /\ Good(Base, {})
    BY BaseIsGround, BaseShellOK
  <1>3. ASSUME NEW s \in SUBSET (1..n), s # {}, NEW w \in W[s \ {Max(s)}]
        PROVE  Land(w, results[Max(s)]) \in W[s]
    <2> DEFINE i == Max(s)
               was == s \ {i}
               t == Land(w, results[i])
    <2>1. i \in s /\ i \in DOMAIN results \ was /\ was \in SUBSET (1..n) /\ was \cup {i} = s
      <3>1. Max(s) \in s
        BY <1>1, <1>3, LastPlaceIsOne
      <3> QED BY <1>1, <3>1
    <2> HIDE DEF i
    <2>2. w \in Grounds /\ Good(w, was)
      <3> HIDE DEF Good, was, n
      <3> QED BY <1>3, <2>1 DEF was, i
    <2> HIDE DEF was
    <2>3. /\ t \in Grounds /\ Sound(t.pool) /\ t.pool.up
          /\ ShellOK(t.shell, t.pool, {}, was \cup {i})
      BY <1>1, <2>1, <2>2, LandShellOK
    <2> HIDE DEF t
    <2>4. t \in Grounds /\ Good(t, s)
      BY <2>1, <2>3
    <2>5. t \in W[s]
      <3> HIDE DEF Good, n
      <3> QED BY <2>4
    <2> QED BY <2>5 DEF t, i
  <1>4. Landed \in Grounds /\ Good(Landed, 1..n)
    <2>1. Base \in W[{}]
      <3> HIDE DEF Good, n
      <3> QED BY <1>2
    <2>2. Landed \in W[1..n]
      <3> HIDE DEF W
      <3> QED BY <1>1, <1>3, <2>1, LandsStay DEF Landed
    <2> HIDE DEF Good, n
    <2> QED BY <2>2
  <1>5. /\ After \in Grounds /\ Spared(Landed, After) /\ Landed.pool \in Pools /\ After.pool \in Pools
    BY AfterIsGround DEF Grounds
  <1>6. /\ shell' = After.shell /\ pool' = After.pool /\ After.shell = Landed.shell
        /\ marks' = {} /\ results' = <<>> /\ relisted' = relisted
        /\ field' = field /\ ops' = ops /\ batch' = batch /\ host' = host
    BY <1>5, TickWalkIs DEF Spared
  <1>7. ASSUME NEW c \in ShellChunks, c \notin relisted
        PROVE  Place(c, After.shell, After.pool, {}, 1..n)
    <2>1. Place(c, Landed.shell, Landed.pool, {}, 1..n)
      BY <1>4, <1>7 DEF ShellOK, PlaceOK
    <2>2. c \in Owners \ TreeChunks
      BY ConstantFacts
    <2>3. SameFor(c, Landed.pool, After.pool)
      BY <1>5, <2>2 DEF Spared, SameFor
    <2> HIDE DEF n
    <2> QED BY <1>5, <1>6, <2>1, <2>3, PlaceStays
  <1>8. ASSUME NEW c \in ShellChunks
        PROVE  PlaceOK(c, shell, pool, marks, {})'
    <2>1. Content(c)' = Content(c) /\ OverCap(c)' = OverCap(c) /\ (On("fail")' <=> On("fail"))
      BY <1>6 DEF Content, OverCap, On
    <2>2. InBatch(c)' = InBatch(c) /\ InResults(c, 1..n) = {} /\ InResults(c, {})' = {}
      BY <1>1, <1>6 DEF InBatch, InResults
    <2>3. (Fresh(c, {})' <=> Fresh(c, 1..n)) /\ (Lone(c, {})' <=> Lone(c, 1..n)) /\ (InFlight(c, {})' <=> InFlight(c, 1..n))
      <3> HIDE DEF n
      <3> QED BY <1>6, <2>1, <2>2 DEF Fresh, Lone, InFlight
    <2>4. HonestShell(After.shell[c], c, After.pool, {}) => HonestShell(shell[c], c, pool, marks)'
      BY <1>6, <2>1 DEF HonestShell, Shows
    <2>5. ShellBuilding(After.shell, c) <=> ShellBuilding(shell, c)'
      BY <1>6 DEF ShellBuilding
    <2> HIDE DEF n
    <2>6. Place(c, After.shell, After.pool, {}, 1..n) => Place(c, shell, pool, marks, {})'
      BY <1>6, <2>1, <2>3, <2>4, <2>5 DEF Place
    <2> QED BY <1>6, <1>7, <2>2, <2>6 DEF PlaceOK
  <1>9. ShellOK(shell, pool, marks, {})'
    BY <1>8 DEF ShellOK
  <1>10. IsInjective(walk'.requests)
    BY <1>1, MarkedKeeps, WalkKeeps, TickWalkIs
  <1> QED BY <1>9, <1>10 DEF ShellInv

(* The second half of the tick.                                            *)
LEMMA ShellSentIsHonest ==
  ASSUME NEW c \in ShellChunks, NEW n \in ShellRecs, NEW taken \in BOOLEAN, NEW M
  PROVE  LET m == ShellSent(n, c, taken)
         IN  /\ m # None /\ HonestShell(m, c, pool, M)
             /\ m.state = "building" <=> (~OverCap(c) /\ taken)
             /\ ~m.dirty
  <1> DEFINE m == ShellSent(n, c, taken)
  <1>1. m \in ShellRecs /\ m # None
    BY ShellSentIs, ConstantFacts
  <1>2. ~m.dirty /\ m.state = IF OverCap(c) THEN "empty" ELSE IF taken THEN "building" ELSE "unknown"
    BY DEF ShellSent, ShellRecs
  <1> HIDE DEF m
  <1>3. m.state = "building" <=> (~OverCap(c) /\ taken)
    BY <1>2
  <1>4. HonestShell(m, c, pool, M)
    BY <1>2 DEF HonestShell
  <1> QED BY <1>1, <1>2, <1>3, <1>4 DEF m

(* An answer about it is out, or none is.                                  *)
LEMMA AnswersAreOut ==
  ASSUME NEW c \in ShellChunks
  PROVE  AnswerIsOut(c) <=> InFlight(c, {})
  <1>1. AnswerIsOut(c) <=> (\E a \in Range(batch) : a.chunk = c) \/ (\E a \in Range(results) : a.chunk = c)
    BY DEF AnswerIsOut
  <1>2. (\E a \in Range(batch) : a.chunk = c) <=> InBatch(c) # {}
    BY DEF Range, InBatch
  <1>3. (\E a \in Range(results) : a.chunk = c) <=> InResults(c, {}) # {}
    BY DEF Range, InResults
  <1> QED BY <1>1, <1>2, <1>3 DEF InFlight

LEMMA ShellTickSubmit ==
  ASSUME PoolInv, ShellInv, NEW taken \in BOOLEAN, TickSubmit(taken)
  PROVE  ShellInv'
  <1>1. LodType /\ TreeChunks \cap ShellChunks = {} /\ shell \in [ShellChunks -> ShellRecs \cup {None}]
    BY ConstantFacts DEF PoolInv, LodType
  <1>2. /\ phase = "submit" /\ phase' = "walk" /\ (~taken => Jobs # <<>>)
        /\ batch' = IF taken /\ batch = <<>> THEN Sending ELSE batch
        /\ shell' = [c \in ShellChunks |-> IF c \in Range(Chosen) THEN ShellSent(Refreshed[c], c, taken)
                                           ELSE Refreshed[c]]
        /\ pool' = Dropped(pool)
        /\ field' = field /\ ops' = ops /\ marks' = marks /\ results' = results /\ host' = host
    BY <1>1, SubmitIs
  <1>3. relisted' = {c \in Candidates : IF c \in relisted THEN c \in Range(Chosen) => AnswerIsOut(c)
                                        ELSE shell[c] = None /\ AnswerIsOut(c)}
    BY DEF TickSubmit
  <1>4. pool \in Pools /\ Sound(pool) /\ pool.up
    BY <1>2 DEF PoolInv, PoolIsSound, LodType
  <1>5. Dropped(pool) \in Pools /\ \A c \in ShellChunks : ~Departs(c) => SameFor(c, pool, Dropped(pool))
    <2>1. /\ Dropped(pool) \in Pools /\ Dropped(pool).shows = pool.shows
          /\ \A o \in Owners : ~Departs(o) => Dropped(pool).owns[o] = pool.owns[o]
      BY <1>4, DroppedKeeps
    <2>2. \A c \in ShellChunks : c \in Owners
      BY <1>1, ConstantFacts
    <2> QED BY <2>1, <2>2 DEF SameFor
  <1>6. /\ IsInjective(Jobs)
        /\ Range(Jobs) = {c \in Range(Chosen) : ~OverCap(c)}
        /\ batch # <<>> => Jobs = <<>> /\ Chosen = <<>>
    BY <1>1, <1>2, SendingFacts, ChosenFacts DEF ShellInv
  <1>7. /\ \A c \in ShellChunks : Refreshed[c] = IF c \notin Candidates THEN None
                                               ELSE IF shell[c] = None THEN NewShell ELSE shell[c]
        /\ \A c \in ShellChunks : ShellWants(c) => Refreshed[c] \in ShellRecs
    BY <1>1, RefreshedKeeps
  <1>8. ASSUME NEW c \in ShellChunks
        PROVE  PlaceOK(c, shell, pool, marks, {})'
    <2>0. Content(c)' = Content(c) /\ OverCap(c)' = OverCap(c) /\ (On("fail")' <=> On("fail"))
      BY <1>2 DEF Content, OverCap, On
    <2>1. PlaceOK(c, shell, pool, marks, {})
      BY DEF ShellInv, ShellOK
    <2>2. /\ batch # <<>> \/ ~taken \/ c \notin Range(Jobs) => InBatch(c)' = InBatch(c)
          /\ taken /\ c \in Range(Jobs) =>
               /\ batch = <<>> /\ InBatch(c) = {} /\ InBatch(c)' # {}
               /\ \A i \in InBatch(c)' : batch'[i].content = Content(c)'
               /\ \A i, j \in InBatch(c)' : i = j
          /\ InResults(c, {})' = InResults(c, {})
      BY <1>1, <1>2, <1>6, BatchGoesOut
    <2>3. \A i \in InResults(c, {})' : Reaches(i)'
      BY <1>2, <2>0, <2>1, <2>2 DEF PlaceOK, Reaches
    <2>4. SUFFICES ASSUME c \notin relisted' PROVE Place(c, shell, pool, marks, {})'
      BY <2>3 DEF PlaceOK
    <2>5. c \in Candidates /\ c \notin Range(Chosen) =>
             c \notin relisted /\ (shell[c] = None => ~InFlight(c, {}))
      BY <1>3, <2>4, AnswersAreOut
    <2>6. CASE c \notin Range(Chosen)
      <3>1. shell'[c] = Refreshed[c] /\ c \notin Range(Jobs)
        BY <1>2, <1>6, <2>6
      <3>2. InBatch(c)' = InBatch(c) /\ InResults(c, {})' = InResults(c, {})
        BY <2>2, <3>1
      <3>3. /\ InFlight(c, {})' <=> InFlight(c, {})
            /\ Lone(c, {})' <=> Lone(c, {})
        BY <3>2 DEF InFlight, Lone
      <3>4. Fresh(c, {}) => Fresh(c, {})'
        <4>1. CASE InBatch(c) = {}
          BY <1>2, <2>0, <3>2, <4>1 DEF Fresh
        <4>2. CASE InBatch(c) # {}
          <5>1. batch # <<>> /\ batch' = batch
            BY <1>2, <4>2 DEF InBatch
          <5> QED BY <1>2, <2>0, <3>2, <5>1 DEF Fresh
        <4> QED BY <4>1, <4>2
      <3>5. CASE c \notin Candidates
        <4>1. shell'[c] = None
          BY <1>7, <3>1, <3>5
        <4> QED BY <4>1 DEF Place, ShellBuilding
      <3>6. CASE c \in Candidates /\ shell[c] = None
        <4>1. shell'[c] = NewShell /\ ~InFlight(c, {})'
          BY <1>7, <2>5, <2>6, <3>1, <3>3, <3>6
        <4>2. NewShell.state = "unknown"
          BY DEF NewShell
        <4>3. HonestShell(shell[c], c, pool, marks)' /\ ~ShellBuilding(shell, c)'
          BY <4>1, <4>2 DEF HonestShell, ShellBuilding
        <4> QED BY <4>1, <4>3 DEF Place
      <3>7. CASE c \in Candidates /\ shell[c] # None
        <4>1. shell'[c] = shell[c] /\ ~Departs(c) /\ Place(c, shell, pool, marks, {})
          BY <1>7, <2>1, <2>5, <2>6, <3>1, <3>7 DEF Departs, PlaceOK
        <4>2. HonestShell(shell[c], c, Dropped(pool), marks)
          BY <1>4, <1>5, <3>7, <4>1, HonestShellStays DEF Place
        <4>3. HonestShell(shell[c], c, pool, marks)'
          BY <1>2, <2>0, <4>1, <4>2 DEF HonestShell, Shows
        <4>4. ShellBuilding(shell, c)' <=> ShellBuilding(shell, c)
          BY <4>1 DEF ShellBuilding
        <4> QED BY <1>2, <2>0, <3>3, <3>4, <4>1, <4>3, <4>4 DEF Place
      <3> QED BY <3>5, <3>6, <3>7
    <2>7. CASE c \in Range(Chosen)
      <3> DEFINE n == Refreshed[c]
                 m == ShellSent(n, c, taken)
      <3>1. shell'[c] = m /\ batch = <<>> /\ ShellWants(c)
        <4>1. Chosen = <<>> => Range(Chosen) = {}
          BY DEF Range
        <4> QED BY <1>1, <1>2, <1>6, <2>7, <4>1, ChosenFacts
      <3>2. n \in ShellRecs /\ n # None /\ n.state # "building"
        BY <1>7, <3>1 DEF ShellWants
      <3>3. c \in Candidates /\ n = IF shell[c] = None THEN NewShell ELSE shell[c]
        BY <1>7, <3>2
      <3>4. ~InFlight(c, {})
        <4>1. CASE c \in relisted \/ shell[c] = None
          BY <1>3, <2>4, <2>7, <3>3, <4>1, AnswersAreOut
        <4>2. CASE c \notin relisted /\ shell[c] # None
          <5>1. n = shell[c]
            BY <3>3, <4>2
          <5> HIDE DEF n
          <5> QED BY <2>1, <3>2, <4>2, <5>1 DEF PlaceOK, Place, ShellBuilding
        <4> QED BY <4>1, <4>2
      <3> HIDE DEF n
      <3>5. /\ m # None /\ HonestShell(m, c, Dropped(pool), marks)
            /\ m.state = "building" <=> (~OverCap(c) /\ taken)
        <4>1. m # None /\ (m.state = "building" <=> (~OverCap(c) /\ taken)) /\ HonestShell(m, c, pool, marks)
          BY <3>2, ShellSentIsHonest
        <4>2. SameFor(c, pool, Dropped(pool))
          BY <1>5, <3>3 DEF Departs
        <4> HIDE DEF m
        <4>3. HonestShell(m, c, Dropped(pool), marks)
          BY <1>4, <1>5, <4>1, <4>2, HonestShellStays
        <4> QED BY <4>1, <4>3
      <3> HIDE DEF m
      <3>6. HonestShell(shell[c], c, pool, marks)'
        BY <1>2, <2>0, <3>1, <3>5 DEF HonestShell, Shows
      <3>7. ShellBuilding(shell, c)' <=> (~OverCap(c) /\ taken)
        BY <3>1, <3>5 DEF ShellBuilding
      <3>8. InBatch(c) = {} /\ InResults(c, {})' = {}
        BY <2>2, <3>4 DEF InFlight
      <3>9. CASE ~OverCap(c) /\ taken
        <4>1. c \in Range(Jobs)
          BY <1>6, <2>7, <3>9
        <4>2. InFlight(c, {})' /\ Lone(c, {})' /\ Fresh(c, {})'
          BY <2>2, <3>8, <3>9, <4>1 DEF InFlight, Lone, Fresh
        <4> QED BY <3>6, <3>7, <3>9, <4>2 DEF Place
      <3>10. CASE ~(~OverCap(c) /\ taken)
        <4>1. InBatch(c)' = {}
          BY <1>6, <2>2, <3>8, <3>10
        <4>2. ~InFlight(c, {})'
          BY <3>8, <4>1 DEF InFlight
        <4> QED BY <3>6, <3>7, <3>10, <4>2 DEF Place
      <3> QED BY <3>9, <3>10
    <2> QED BY <2>6, <2>7
  <1>9. ShellOK(shell, pool, marks, {})'
    BY <1>8 DEF ShellOK
  <1> QED BY <1>2, <1>9 DEF ShellInv

LEMMA ShellStands ==
  ASSUME PoolInv, PoolInv', ShellInv, shell' = shell, batch' = batch, results' = results, host' = host,
         phase' = phase, walk' = walk, relisted' = relisted,
         \A c \in ShellChunks : SameFor(c, pool, pool') /\ Told(c)
  PROVE  ShellInv'
  <1>1. pool \in Pools /\ pool' \in Pools
    BY DEF PoolInv, LodType, Pools, PageRecs, Contents, Pieces, Owners, TreeChunks, ShellChunks
  <1>2. ASSUME NEW c \in ShellChunks PROVE PlaceOK(c, shell, pool, marks, {})'
    <2>0. On("fail")' <=> On("fail")
      BY DEF On
    <2>1. PlaceOK(c, shell, pool, marks, {})
      BY DEF ShellInv, ShellOK
    <2>4. InBatch(c)' = InBatch(c) /\ InResults(c, {})' = InResults(c, {})
      BY DEF InBatch, InResults
    <2>5. (InFlight(c, {})' <=> InFlight(c, {})) /\ (Lone(c, {})' <=> Lone(c, {}))
      BY <2>4 DEF InFlight, Lone
    <2>6. Content(c)' = Content(c) => (Fresh(c, {})' <=> Fresh(c, {}))
      BY <2>4 DEF Fresh
    <2>7. ShellBuilding(shell, c)' <=> ShellBuilding(shell, c)
      BY DEF ShellBuilding
    <2>11. \A i \in InResults(c, {})' : Reaches(i)'
      BY <2>0, <2>1, <2>4 DEF PlaceOK, Reaches
    <2>12. SUFFICES ASSUME c \notin relisted PROVE Place(c, shell, pool, marks, {})'
      BY <2>11 DEF PlaceOK
    <2>2. Place(c, shell, pool', marks, {})
      BY <1>1, <2>1, <2>12, PlaceStays DEF PlaceOK
    <2>8. CASE Covers[c] \cap marks' # {}
      <3>1. HonestShell(shell[c], c, pool', marks) => HonestShell(shell[c], c, pool, marks)'
        BY <2>8 DEF HonestShell
      <3> QED BY <2>0, <2>2, <2>5, <2>7, <2>8, <3>1 DEF Place
    <2>9. CASE Covers[c] \cap marks' = {} /\ Covers[c] \cap marks = {} /\ Content(c)' = Content(c)
               /\ OverCap(c)' = OverCap(c)
      <3>1. HonestShell(shell[c], c, pool', marks) => HonestShell(shell[c], c, pool, marks)'
        BY <2>9 DEF HonestShell, Shows
      <3> QED BY <2>0, <2>2, <2>5, <2>6, <2>7, <2>9, <3>1 DEF Place
    <2> QED BY <2>8, <2>9 DEF Told
  <1>3. phase' = "submit" => IsInjective(walk'.requests)
    BY DEF ShellInv
  <1> QED BY <1>2, <1>3 DEF ShellInv, ShellOK

(* What changes one piece, and marks it.                                   *)
LEMMA ShellMarked ==
  ASSUME PoolInv, PoolInv', ShellInv, NEW l \in Leaves, marks' = marks \cup {l},
         \A x \in Leaves \ {l} : field'[x] = field[x] /\ ops'[x] = ops[x], relisted' = relisted,
         shell' = shell, batch' = batch, results' = results, host' = host, phase' = phase, walk' = walk, pool' = pool
  PROVE  ShellInv'
  <1>1. ASSUME NEW c \in ShellChunks PROVE SameFor(c, pool, pool') /\ Told(c)
    <2>1. CASE l \in Covers[c]
      BY <2>1 DEF SameFor, Told
    <2>2. CASE l \notin Covers[c]
      <3>0. \A x \in Covers[c] : x \in Leaves \ {l}
        BY <2>2, ConstantFacts
      <3>1. Content(c)' = Content(c)
        BY <3>0 DEF Content
      <3>2. [x \in Covers[c] |-> ops'[x]] = [x \in Covers[c] |-> ops[x]]
        BY <3>0
      <3>3. OverCap(c)' = OverCap(c)
        BY <3>2 DEF OverCap
      <3>4. Covers[c] \cap marks' = Covers[c] \cap marks
        BY <2>2
      <3> QED BY <3>1, <3>3, <3>4 DEF SameFor, Told
    <2> QED BY <2>1, <2>2
  <1> QED BY <1>1, ShellStands

LEMMA ShellEvents ==
  ASSUME PoolInv, PoolInv', ShellInv
  PROVE  /\ (\E l \in Leaves, solid \in BOOLEAN : Edit(l, solid)) => ShellInv'
         /\ (\E l \in Leaves : Paint(l) \/ Consolidate(l)) => ShellInv'
         /\ (\E v \in Views : Move(v)) => ShellInv'
         /\ (\E live, anew \in BOOLEAN : ApplyIslandShells(live, anew)) => ShellInv'
         /\ ReleaseGpu => ShellInv'
  <1>0. field \in [Leaves -> Pieces] /\ ops \in [Leaves -> Nat]
    BY DEF PoolInv, LodType
  <1>1. ASSUME NEW l \in Leaves, NEW solid \in BOOLEAN, Edit(l, solid) PROVE ShellInv'
    <2>1. \A x \in Leaves \ {l} : field'[x] = field[x] /\ ops'[x] = ops[x]
      BY <1>0, <1>1 DEF Edit
    <2> QED BY <1>1, <2>1, ShellMarked DEF Edit, Record
  <1>2. ASSUME NEW l \in Leaves, Paint(l) PROVE ShellInv'
    <2>1. \A x \in Leaves \ {l} : field'[x] = field[x] /\ ops'[x] = ops[x]
      BY <1>0, <1>2 DEF Paint
    <2> QED BY <1>2, <2>1, ShellMarked DEF Paint, Record
  <1>3. ASSUME NEW l \in Leaves, Consolidate(l) PROVE ShellInv'
    <2>1. \A x \in Leaves \ {l} : field'[x] = field[x] /\ ops'[x] = ops[x]
      BY <1>0, <1>3 DEF Consolidate
    <2> QED BY <1>3, <2>1, ShellMarked DEF Consolidate, Record
  <1>4. ASSUME marks' = marks, field' = field, ops' = ops PROVE \A c \in ShellChunks : Told(c)
    <2>1. \A c \in ShellChunks : Content(c)' = Content(c) /\ OverCap(c)' = OverCap(c)
      BY <1>4 DEF Content, OverCap
    <2> QED BY <1>4, <2>1 DEF Told
  <1>5. ASSUME NEW v \in Views, Move(v) PROVE ShellInv'
    <2>1. /\ marks' = marks /\ field' = field /\ ops' = ops /\ relisted' = relisted
          /\ shell' = shell /\ batch' = batch /\ results' = results /\ host' = host /\ phase' = phase /\ walk' = walk
          /\ pool' = pool
      BY <1>5 DEF Move, Event
    <2>2. \A c \in ShellChunks : SameFor(c, pool, pool')
      BY <2>1 DEF SameFor
    <2> QED BY <1>4, <2>1, <2>2, ShellStands
  <1>6. ASSUME NEW live \in BOOLEAN, NEW anew \in BOOLEAN, ApplyIslandShells(live, anew) PROVE ShellInv'
    <2>1. /\ marks' = marks /\ field' = field /\ ops' = ops /\ relisted' = relisted
          /\ shell' = shell /\ batch' = batch /\ results' = results /\ host' = host /\ phase' = phase /\ walk' = walk
      BY <1>6 DEF ApplyIslandShells, world
    <2>2. KeepsFar(pool, pool')
      BY <1>6, PoolIslands
    <2>3. \A c \in ShellChunks : c \in Owners /\ Far(c)
      BY ConstantFacts DEF Far
    <2>4. \A c \in ShellChunks : SameFor(c, pool, pool')
      BY <2>2, <2>3 DEF KeepsFar, SameFor
    <2> QED BY <1>4, <2>1, <2>4, ShellStands
  <1>7. ASSUME ReleaseGpu PROVE ShellInv'
    <2>1. /\ \A c \in ShellChunks : shell'[c] = None
          /\ phase' = phase /\ phase = "walk" /\ batch' = batch /\ results' = results /\ host' = host
      BY <1>7 DEF ReleaseGpu, Event, world
    <2>2. ASSUME NEW c \in ShellChunks PROVE PlaceOK(c, shell, pool, marks, {})'
      <3>1. PlaceOK(c, shell, pool, marks, {})
        BY DEF ShellInv, ShellOK
      <3>2. InResults(c, {})' = InResults(c, {}) /\ \A i \in InResults(c, {}) : Reaches(i)'
        BY <2>1, <3>1 DEF InResults, PlaceOK, Reaches, On
      <3>3. Place(c, shell, pool, marks, {})'
        BY <2>1 DEF Place, ShellBuilding
      <3> QED BY <3>2, <3>3 DEF PlaceOK
    <2> QED BY <2>1, <2>2 DEF ShellInv, ShellOK
  <1> QED BY <1>1, <1>2, <1>3, <1>5, <1>6, <1>7

LEMMA ShellBuild ==
  ASSUME PoolInv, ShellInv, Build \/ BuildFails
  PROVE  ShellInv'
  <1>1. /\ batch' = <<>> /\ shell' = shell /\ pool' = pool /\ marks' = marks /\ field' = field /\ ops' = ops
        /\ host' = host /\ phase' = phase /\ walk' = walk /\ relisted' = relisted
    BY DEF Build, BuildFails, world
  <1>2. LodType
    BY DEF PoolInv
  <1>3. PICK A \in Seq(Answers) :
          /\ DOMAIN A = DOMAIN batch /\ results' = results \o A
          /\ \A i \in DOMAIN batch : A[i].chunk = batch[i].chunk /\ (A[i].failed \/ A[i].content = batch[i].content)
          /\ \A i \in DOMAIN batch : Builds(A[i], batch[i]) \/ (Fails(A[i], batch[i]) /\ On("fail"))
    <2>1. CASE Build
      <3>1. results' = results \o Answered
        BY <2>1 DEF Build, Answered, Success
      <3>2. \A i \in DOMAIN batch :
              /\ Answered[i].chunk = batch[i].chunk /\ (Answered[i].failed \/ Answered[i].content = batch[i].content)
              /\ Builds(Answered[i], batch[i])
        BY <1>2, AnsweredFacts DEF Builds
      <3> QED BY <1>2, <3>1, <3>2, AnsweredFacts
    <2>2. CASE BuildFails
      <3>1. results' = results \o Failed /\ On("fail")
        BY <2>2 DEF BuildFails, Failed
      <3>2. \A i \in DOMAIN batch :
              /\ Failed[i].chunk = batch[i].chunk /\ (Failed[i].failed \/ Failed[i].content = batch[i].content)
              /\ Fails(Failed[i], batch[i])
        BY <1>2, AnsweredFacts DEF Fails
      <3> QED BY <1>2, <3>1, <3>2, AnsweredFacts
    <2> QED BY <2>1, <2>2
  <1>4. On("fail")' <=> On("fail")
    BY <1>1 DEF On
  <1>5. ASSUME NEW c \in ShellChunks PROVE PlaceOK(c, shell, pool, marks, {})'
    <2>1. PlaceOK(c, shell, pool, marks, {})
      BY DEF ShellInv, ShellOK
    <2>2. /\ InFlight(c, {})' <=> InFlight(c, {})
          /\ Fresh(c, {}) => Fresh(c, {})'
          /\ Lone(c, {}) => Lone(c, {})'
      BY <1>1, <1>2, <1>3, AnswersCome
    <2>3. Content(c)' = Content(c) /\ OverCap(c)' = OverCap(c)
      BY <1>1 DEF Content, OverCap
    <2>4. HonestShell(shell[c], c, pool, marks) => HonestShell(shell[c], c, pool, marks)'
      BY <1>1, <2>3 DEF HonestShell, Shows
    <2>5. ShellBuilding(shell, c)' <=> ShellBuilding(shell, c)
      BY <1>1 DEF ShellBuilding
    <2>6. ASSUME NEW j \in InResults(c, {})' PROVE Reaches(j)'
      <3> DEFINE n == Len(results)
      <3>0. results \in Seq(Answers)
        BY <1>2 DEF LodType
      <3>1. /\ \A i \in DOMAIN results : results'[i] = results[i]
            /\ \A i \in DOMAIN A : results'[n + i] = A[i]
            /\ \A k \in DOMAIN results' : k \in DOMAIN results \/ \E i \in DOMAIN A : k = n + i
        BY <1>3, <3>0, CatPlaces
      <3>2. j \in DOMAIN results' /\ results'[j].chunk = c
        BY <2>6 DEF InResults
      <3> HIDE DEF n
      <3>3. CASE j \in DOMAIN results
        <4>1. results'[j] = results[j] /\ j \in InResults(c, {})
          BY <3>1, <3>2, <3>3 DEF InResults
        <4>2. Reaches(j)
          BY <2>1, <4>1 DEF PlaceOK
        <4> QED BY <1>4, <4>1, <4>2 DEF Reaches
      <3>4. ASSUME NEW i \in DOMAIN A, j = n + i PROVE Reaches(j)'
        <4>1. results'[j] = A[i] /\ i \in DOMAIN batch
          BY <1>3, <3>1, <3>4
        <4>2. batch[i] \in JobRecs /\ A[i].chunk = batch[i].chunk
          BY <1>2, <1>3, <4>1, AnsweredFacts
        <4>3. batch[i].shell
          BY <3>2, <4>1, <4>2 DEF JobRecs
        <4>4. \/ A[i].shell /\ ~A[i].failed
              \/ ~A[i].shell /\ A[i].failed /\ On("fail")
          BY <1>3, <4>1, <4>3 DEF Builds, Fails
        <4> QED BY <1>4, <4>1, <4>4 DEF Reaches
      <3> QED BY <3>1, <3>2, <3>3, <3>4
    <2>7. Place(c, shell, pool, marks, {}) => Place(c, shell, pool, marks, {})'
      BY <1>1, <1>4, <2>2, <2>4, <2>5 DEF Place
    <2> QED BY <1>1, <2>1, <2>6, <2>7 DEF PlaceOK
  <1>6. ShellOK(shell, pool, marks, {})'
    BY <1>5 DEF ShellOK
  <1> QED BY <1>1, <1>6 DEF ShellInv

LEMMA ShellInit ==
  ASSUME Init
  PROVE  ShellInv
  <1>1. /\ \A c \in ShellChunks : shell[c] = None
        /\ results = <<>> /\ phase = "walk"
    BY DEF Init
  <1>2. ASSUME NEW c \in ShellChunks PROVE PlaceOK(c, shell, pool, marks, {})
    <2>1. InResults(c, {}) = {}
      BY <1>1 DEF InResults
    <2> QED BY <1>1, <2>1, PlaceAtRest DEF PlaceOK
  <1> QED BY <1>1, <1>2 DEF ShellInv, ShellOK

LEMMA ShellNext ==
  ASSUME PoolInv, PoolInv', ShellInv, [Next]_vars
  PROVE  ShellInv'
  <1>1. CASE Next
    <2>1. CASE TickWalk
      BY <2>1, ShellTickWalk
    <2>2. CASE Submit \/ SubmitRefused
      <3>1. TickSubmit(TRUE) \/ TickSubmit(FALSE)
        BY <2>2 DEF Submit, SubmitRefused
      <3> QED BY <3>1, ShellTickSubmit
    <2>3. CASE Build \/ BuildFails
      BY <2>3, ShellBuild
    <2>4. CASE \/ \E l \in Leaves, solid \in BOOLEAN : Edit(l, solid)
               \/ \E l \in Leaves : Paint(l) \/ Consolidate(l)
               \/ \E v \in Views : Move(v)
               \/ \E live, anew \in BOOLEAN : ApplyIslandShells(live, anew)
               \/ ReleaseGpu
      BY <2>4, ShellEvents
    <2> QED BY <1>1, <2>1, <2>2, <2>3, <2>4 DEF Next
  <1>2. CASE UNCHANGED vars
    <2>1. /\ field' = field /\ ops' = ops /\ marks' = marks /\ shell' = shell /\ pool' = pool /\ walk' = walk
          /\ batch' = batch /\ results' = results /\ phase' = phase /\ host' = host /\ relisted' = relisted
      BY <1>2 DEF vars, world
    <2>2. \A c \in ShellChunks : Content(c)' = Content(c) /\ OverCap(c)' = OverCap(c)
      BY <2>1 DEF Content, OverCap
    <2>3. \A c \in ShellChunks : SameFor(c, pool, pool') /\ Told(c)
      BY <2>1, <2>2 DEF SameFor, Told
    <2> QED BY <2>1, <2>2, <2>3, ShellStands
  <1> QED BY <1>1, <1>2

(* The invariant of the near shell: but for the chunks that were listed    *)
(* again while an answer about them was out, a chunk that waits has the    *)
(* one answer under way or a host where builds fail, and unless it was     *)
(* marked since, that answer has seen the field as it is; one that does    *)
(* not wait, and that no mark or flag speaks for, tells the truth.         *)
THEOREM LodShell ==
  ReloadsAlone => (Spec => []ShellInv)
  <1> SUFFICES ASSUME ReloadsAlone PROVE Spec => []ShellInv
    OBVIOUS
  <1>1. Init => ShellInv
    BY ShellInit
  <1>2. PoolInv /\ PoolInv' /\ ShellInv /\ [Next]_vars => ShellInv'
    BY ShellNext
  <1>3. Spec => []PoolInv
    BY LodPool
  <1> QED BY <1>1, <1>2, <1>3, PTL DEF Spec

(* No edit is lost to the far field: what is drawn of a chunk that is      *)
(* there is the field as it is, or the system knows that it is not, or the *)
(* chunk is one of those that the code does lose.                          *)
THEOREM LodEdits ==
  ReloadsAlone /\ ReloadsMeetNoEdit => (Spec => []EditsAreKnown)
  <1> SUFFICES ASSUME ReloadsAlone, ReloadsMeetNoEdit PROVE Spec => []EditsAreKnown
    OBVIOUS
  <1>1. ASSUME PoolInv, ShellInv PROVE ShellEditsAreKnown
    <2> SUFFICES ASSUME NEW c \in ShellChunks, shell[c] # None, ~LostToShell(c),
                        ~shell[c].dirty, Covers[c] \cap marks = {}, ~OverCap(c),
                        shell[c].state # "unknown", ~(shell[c].state = "building" /\ Answering(c))
                 PROVE  TellsTheTruth(c, shell[c].state)
      BY DEF ShellEditsAreKnown
    <2>1. /\ c \notin relisted
          /\ On("fail") /\ shell[c].state = "building" => InFlight(c, {})
      BY AnswersAreOut DEF LostToShell
    <2>2. Place(c, shell, pool, marks, {})
      BY <1>1, <2>1 DEF ShellInv, ShellOK, PlaceOK
    <2>3. HonestShell(shell[c], c, pool, marks)
      BY <2>2 DEF Place
    <2>4. shell[c].state \in {"building", "ready", "empty"}
      <3> DEFINE n == shell[c]
      <3>1. n \in ShellRecs
        BY <1>1 DEF PoolInv, LodType
      <3>2. n.state \in StateNames
        BY <3>1 DEF ShellRecs
      <3> QED BY <2>3, <3>2 DEF StateNames, HonestShell
    <2>5. shell[c].state # "building"
      <3> SUFFICES ASSUME shell[c].state = "building" PROVE Answering(c)
        OBVIOUS
      <3>1. InFlight(c, {}) /\ Fresh(c, {})
        BY <2>1, <2>2 DEF Place, ShellBuilding
      <3>2. ASSUME NEW i \in InBatch(c) PROVE Answering(c)
        <4>1. batch[i] \in Range(batch) /\ batch[i].chunk = c /\ batch[i].content = Content(c)
          BY <3>1, <3>2 DEF InBatch, Range, Fresh
        <4> QED BY <4>1 DEF Answering
      <3>3. ASSUME NEW i \in InResults(c, {}) PROVE Answering(c)
        <4>1. /\ results[i] \in Range(results) /\ results[i].chunk = c
              /\ results[i].failed \/ results[i].content = Content(c)
          BY <3>1, <3>3 DEF InResults, Range, Fresh
        <4> QED BY <4>1 DEF Answering
      <3> QED BY <3>1, <3>2, <3>3 DEF InFlight
    <2> QED BY <2>3, <2>4, <2>5 DEF HonestShell, TellsTheTruth, Shows
  <1>2. Spec => []PoolInv /\ []ShellInv /\ []TreeEditsAreKnown
    BY LodPool, LodShell, LodTreeEdits
  <1>3. TreeEditsAreKnown /\ ShellEditsAreKnown => EditsAreKnown
    BY DEF EditsAreKnown
  <1> QED BY <1>1, <1>2, <1>3, PTL

-----------------------------------------------------------------------------
(* What a frame draws is whole                                             *)

(* After a reload the batch of before it may come back: if it failed, a    *)
(* chunk that was found empty since is there no more, and its place is a   *)
(* hole for a frame.                                                       *)
ReloadsMeetNoFailure == \A h \in Hosts : "reload" \in h.may => "fail" \notin h.may

NoneFailed == On("reload") => \A i \in DOMAIN results : ~results[i].failed

(* What was there when the walk came by stays there for the frame.         *)
Kept(n, m) ==
  n # None =>
    /\ m # None
    /\ n.age = 0 => m.age = 0
    /\ n.state = "ready" => m.state \in {"ready", "empty"}
    /\ n.state = "empty" => m.state = "empty"

LEMMA LandingKept ==
  ASSUME NEW n \in NodeRecs, NEW m \in NodeRecs, NEW p \in Pools, NEW q \in Pools, NEW r \in Answers,
         NEW c \in TreeChunks, c = r.chunk, Landing(n, m, p, q, r), Honest(n, c, p, {}),
         n.state = "empty" => ~r.failed /\ r.content = Content(c)
  PROVE  Kept(n, m)
  <1>1. n.building \in BOOLEAN /\ n.dirty \in BOOLEAN
    BY DEF NodeRecs
  <1>2. CASE n.state = "ready"
    <2>0. p.owns[c] # <<>>
      BY <1>2 DEF Honest
    <2>1. CASE m = NoteReadyDirty(n)
      <3>1. m.state = "ready" /\ m.age = 0
        BY <2>1 DEF NoteReadyDirty, NodeRecs
      <3> QED BY <1>2, <3>1, ConstantFacts DEF Kept
    <2>2. CASE m = NoteEmpty(n) /\ (n.dirty => p.owns[c] = <<>>)
      <3>1. m.state = "empty" /\ m.age = n.age
        BY <2>0, <2>2 DEF NoteEmpty, NodeRecs
      <3> QED BY <1>2, <3>1, ConstantFacts DEF Kept
    <2>3. CASE m = NoteReady(n)
      <3>1. m.state = "ready" /\ m.age = 0
        BY <2>3 DEF NoteReady, NodeRecs
      <3> QED BY <1>2, <3>1, ConstantFacts DEF Kept
    <2> QED BY <2>0, <2>1, <2>2, <2>3 DEF Landing
  <1>3. CASE n.state = "empty"
    <2>1. ~n.dirty /\ ~r.failed /\ Blank(c, r.content)
      BY <1>3 DEF Honest
    <2>2. m = NoteEmpty(n)
      BY <2>1 DEF Landing
    <2>3. m.state = "empty" /\ m.age = n.age
      BY <2>1, <2>2 DEF NoteEmpty, NodeRecs
    <2> QED BY <1>3, <2>3, ConstantFacts DEF Kept
  <1>4. CASE n.state \notin {"ready", "empty"}
    <2>1. n.age = 0 => m.age = 0
      <3>1. m = NoteReadyDirty(n) \/ m = NoteFailed(n) \/ m = NoteEmpty(n) \/ m = NoteReady(n)
        BY DEF Landing
      <3> QED BY <3>1 DEF NoteReadyDirty, NoteFailed, NoteEmpty, NoteReady, NodeRecs
    <2> QED BY <1>4, <2>1, ConstantFacts DEF Kept
  <1> QED BY <1>2, <1>3, <1>4

LEMMA LandKept ==
  ASSUME LodType, NoneFailed, NEW s \in Grounds, Sound(s.pool), s.pool.up, NEW landed, NEW i \in DOMAIN results \ landed,
         TreeOK(s.nodes, s.pool, {}, landed)
  PROVE  \A c \in TreeChunks : Kept(s.nodes[c], Land(s, results[i]).nodes[c])
  <1> DEFINE r == results[i]
             t == Land(s, r)
             d == r.chunk
  <1>1. r \in Answers /\ r \in AnswerRecs /\ r.chunk \in TreeChunks \cup ShellChunks /\ r.shell \in BOOLEAN
        /\ (r.shell => r.chunk \in ShellChunks) /\ TreeChunks \cap ShellChunks = {}
    <2>1. results \in Seq(Answers)
      BY DEF LodType
    <2>2. r \in Answers
      BY <2>1
    <2> HIDE DEF r
    <2> QED BY <2>2, ConstantFacts DEF Answers, AnswerRecs
  <1>2. s.pool \in Pools /\ s.nodes \in [TreeChunks -> NodeRecs \cup {None}]
    BY DEF Grounds
  <1>3. t \in Grounds
    BY <1>1, LandKeeps
  <1>4. t.pool \in Pools /\ t.nodes \in [TreeChunks -> NodeRecs \cup {None}]
    BY <1>3 DEF Grounds
  <1>5. \A n : Kept(n, n)
    BY DEF Kept
  <1> HIDE DEF t, r
  <1>6. CASE d \in ShellChunks
    <2>1. t.nodes = s.nodes
      <3>1. CASE r.shell
        BY <1>1, <1>6, <3>1, LandShellKeeps DEF t
      <3>2. CASE ~r.shell
        BY <1>6, <3>2 DEF Land, t
      <3> QED BY <1>1, <3>1, <3>2
    <2> QED BY <1>5, <2>1 DEF t, r
  <1>7. CASE d \in TreeChunks
    <2> DEFINE n == s.nodes[d]
               m == t.nodes[d]
    <2>1. /\ \A c \in TreeChunks \ {d} : t.nodes[c] = s.nodes[c]
          /\ m # None /\ Landing(Node(s.nodes, d), m, s.pool, t.pool, r)
      BY <1>1, <1>7, LandTreeKeeps DEF t
    <2>2. CASE n = None
      BY <1>5, <2>1, <2>2 DEF Kept, t, r
    <2>3. CASE n # None
      <3>1. n \in NodeRecs /\ m \in NodeRecs /\ Node(s.nodes, d) = n
        BY <1>2, <1>4, <1>7, <2>1, <2>3, NodeIsOne
      <3>2. ChunkOK(d, s.nodes, s.pool, {}, landed)
        BY <1>7 DEF TreeOK
      <3>3. i \in InResults(d, landed)
        BY DEF InResults, r
      <3>4. Honest(n, d, s.pool, {})
        BY <2>3, <3>2 DEF ChunkOK
      <3>5. ASSUME n.state = "empty" PROVE ~r.failed /\ r.content = Content(d)
        <4>1. On("reload")
          <5> SUFFICES ASSUME ~On("reload") PROVE FALSE
            OBVIOUS
          <5>1. n.building
            BY <3>2, <3>3 DEF ChunkOK, InFlight, Building
          <5> QED BY <3>4, <3>5, <5>1 DEF Honest
        <4>2. ~r.failed
          BY <4>1 DEF NoneFailed, r
        <4>3. Fresh(d, landed)
          BY <3>2, <4>1 DEF ChunkOK
        <4> QED BY <3>3, <4>2, <4>3 DEF Fresh, r
      <3>6. Landing(n, m, s.pool, t.pool, r)
        BY <2>1, <3>1
      <3>7. Kept(n, m)
        <4> HIDE DEF n, m, d
        <4>1. d \in TreeChunks /\ d = r.chunk
          BY <1>7 DEF d
        <4> QED BY <1>1, <1>2, <1>4, <3>1, <3>4, <3>5, <3>6, <4>1, LandingKept
      <3> QED BY <1>5, <2>1, <3>7 DEF t, r
    <2> QED BY <2>2, <2>3
  <1> QED BY <1>1, <1>6, <1>7

LEMMA VisitedKept ==
  ASSUME PoolInv, TreeInv, NoneFailed, TickWalk, NEW c \in Visited(Marked(nodes)), Marked(nodes)[c] # None
  PROVE  /\ c \in TreeChunks /\ nodes'[c] # None
         /\ Marked(nodes)[c].state = "ready" => nodes'[c].state \in {"ready", "empty"}
         /\ Marked(nodes)[c].state = "empty" => nodes'[c].state = "empty"
  <1> DEFINE n == Len(results)
             Good(t, s) == /\ t \in Grounds /\ Sound(t.pool) /\ t.pool.up
                           /\ TreeOK(t.nodes, t.pool, {}, s)
                           /\ \A d \in TreeChunks : Kept(Base.nodes[d], t.nodes[d])
             W == [s \in SUBSET (1..n) |-> {t \in Grounds : Good(t, s)}]
  <1>1. LodType /\ results \in Seq(Answers) /\ n \in Nat /\ DOMAIN results = 1..n
    <2>1. LodType /\ results \in Seq(Answers)
      BY DEF PoolInv, LodType
    <2> QED BY <2>1, LenProperties
  <1>2. Base \in Grounds /\ Good(Base, {})
    BY BaseIsGround, BaseTreeOK DEF Kept
  <1>3. ASSUME NEW s \in SUBSET (1..n), s # {}, NEW w \in W[s \ {Max(s)}]
        PROVE  Land(w, results[Max(s)]) \in W[s]
    <2> DEFINE i == Max(s)
               was == s \ {i}
               t == Land(w, results[i])
    <2>1. i \in s /\ i \in DOMAIN results \ was /\ was \in SUBSET (1..n) /\ was \cup {i} = s
      <3>1. Max(s) \in s
        BY <1>1, <1>3, LastPlaceIsOne
      <3> QED BY <1>1, <3>1
    <2> HIDE DEF i
    <2>2. w \in Grounds /\ Good(w, was)
      <3> HIDE DEF Good, was, n
      <3> QED BY <1>3, <2>1 DEF was, i
    <2> HIDE DEF was
    <2>3. /\ t \in Grounds /\ Sound(t.pool) /\ t.pool.up
          /\ TreeOK(t.nodes, t.pool, {}, was \cup {i})
      BY <1>1, <2>1, <2>2, LandTreeOK
    <2>6. \A d \in TreeChunks : Kept(w.nodes[d], t.nodes[d])
      BY <1>1, <2>1, <2>2, LandKept
    <2> HIDE DEF t
    <2>4. t \in Grounds /\ Good(t, s)
      <3>1. TreeOK(t.nodes, t.pool, {}, s)
        BY <2>1, <2>3
      <3>2. ASSUME NEW d \in TreeChunks PROVE Kept(Base.nodes[d], t.nodes[d])
        <4>1. Kept(Base.nodes[d], w.nodes[d]) /\ Kept(w.nodes[d], t.nodes[d])
          BY <2>2, <2>6
        <4> QED BY <4>1 DEF Kept
      <3> QED BY <2>3, <3>1, <3>2
    <2>5. t \in W[s]
      <3> HIDE DEF Good, n
      <3> QED BY <2>4
    <2> QED BY <2>5 DEF t, i
  <1>4. Landed \in Grounds /\ Good(Landed, 1..n)
    <2>1. Base \in W[{}]
      <3> HIDE DEF Good, n
      <3> QED BY <1>2
    <2>2. Landed \in W[1..n]
      <3> HIDE DEF W
      <3> QED BY <1>1, <1>3, <2>1, LandsStay DEF Landed
    <2> HIDE DEF Good, n
    <2> QED BY <2>2
  <1>5. Spared(Landed, After) /\ nodes' = After.nodes
    BY AfterIsGround, TickWalkIs
  <1>6. c \in TreeChunks
    BY LodAssumption DEF Visited, LodType, PoolInv, Sees
  <1>7. /\ Marked(nodes) \in [TreeChunks -> NodeRecs \cup {None}]
        /\ Base.nodes = Walk(Marked(nodes)).nodes
    BY <1>1, MarkedKeeps, BaseIsGround
  <1>8. Base.nodes[c] # None /\ Base.nodes[c].age = 0 /\ SameButAge(Base.nodes[c], Marked(nodes)[c])
    <2>1. Node(Marked(nodes), c) = Marked(nodes)[c]
      BY DEF Node
    <2> QED BY <1>1, <1>6, <1>7, <2>1, WalkKeeps
  <1>9. /\ Landed.nodes[c] # None /\ Landed.nodes[c].age = 0
        /\ Base.nodes[c].state = "ready" => Landed.nodes[c].state \in {"ready", "empty"}
        /\ Base.nodes[c].state = "empty" => Landed.nodes[c].state = "empty"
    BY <1>4, <1>6, <1>8 DEF Kept
  <1>10. nodes'[c] = Landed.nodes[c]
    BY <1>5, <1>6, <1>9 DEF Spared, Evicted
  <1> QED BY <1>6, <1>8, <1>9, <1>10 DEF SameButAge

(* The octree: chunks nest, the top of one is a root, and one that is at   *)
(* the bottom of a set has no child in it.                                 *)
LEMMA NestFacts ==
  ASSUME NEW c \in TreeChunks
  PROVE  /\ Ancestors(c) \subseteq TreeChunks \ {c}
         /\ \A k \in Kids(c) : k \in TreeChunks /\ Parent[k] = c /\ Ancestors(k) = {c} \cup Ancestors(c) /\ k # c
                               /\ Covers[k] \subseteq Covers[c]
         /\ Parent[c] # None => Parent[c] \in Ancestors(c) /\ c \in Kids(Parent[c])
         /\ Parent[c] = None => Ancestors(c) = {}
         /\ IsFiniteSet(Ancestors(c)) /\ IsFiniteSet(Below(c))
  <1>1. c # None /\ IsFiniteSet(TreeChunks)
    BY ConstantFacts, OctreeAssumption, PlacesCount DEF TreeChunks
  <1>2. Ancestors(c) \subseteq TreeChunks \ {c} /\ Below(c) \subseteq TreeChunks
    BY DEF Ancestors, Below
  <1>3. ASSUME NEW k \in Kids(c)
        PROVE  k \in TreeChunks /\ Parent[k] = c /\ Ancestors(k) = {c} \cup Ancestors(c) /\ k # c
               /\ Covers[k] \subseteq Covers[c]
    <2>1. k \in TreeChunks /\ Parent[k] = c
      BY <1>3 DEF Kids
    <2>2. Ancestors(k) = {c} \cup Ancestors(c)
      BY <1>1, <2>1, OctreeAssumption
    <2>3. c \in Ancestors(k)
      BY <2>2
    <2> QED BY <2>1, <2>2, <2>3 DEF Ancestors
  <1>4. ASSUME Parent[c] # None PROVE Parent[c] \in Ancestors(c) /\ c \in Kids(Parent[c])
    BY <1>4, OctreeAssumption DEF Kids
  <1>5. Parent[c] = None => Ancestors(c) = {}
    BY OctreeAssumption
  <1>6. IsFiniteSet(Ancestors(c)) /\ IsFiniteSet(Below(c))
    BY <1>1, <1>2, FS_Subset
  <1> QED BY <1>2, <1>3, <1>4, <1>5, <1>6

LEMMA Deepest ==
  ASSUME NEW A \in SUBSET TreeChunks, A # {}
  PROVE  \E c \in A : Kids(c) \cap A = {}
  <1> DEFINE Size(c) == Cardinality(Below(c))
             S == {Size(c) : c \in A}
  <1>1. \A c \in TreeChunks : IsFiniteSet(Below(c)) /\ Size(c) \in Nat
    BY NestFacts, FS_CardinalityType
  <1>2. PICK n \in S : \A m \in S : n <= m
    <2>1. S \in SUBSET Nat /\ S # {}
      BY <1>1
    <2> HIDE DEF S
    <2> QED BY <2>1, LeastNatural
  <1>3. PICK c \in A : n = Size(c)
    BY <1>2
  <1>4. \A d \in A : Size(c) <= Size(d)
    BY <1>2, <1>3
  <1>5. ASSUME NEW k \in Kids(c) \cap A PROVE FALSE
    <2>1. k \in TreeChunks /\ Covers[k] \subseteq Covers[c] /\ c # k /\ c \in Ancestors(k)
      BY NestFacts
    <2>2. Below(k) \subseteq Below(c) \ {c}
      <3>1. ~(Covers[c] \subseteq Covers[k])
        <4>1. Covers[k] # {}
          BY <2>1, OctreeAssumption
        <4>2. \/ Covers[c] \cap Covers[k] = {}
              \/ Covers[c] \subseteq Covers[k] /\ Covers[c] # Covers[k]
              \/ Covers[k] \subseteq Covers[c] /\ Covers[k] # Covers[c]
          BY <2>1, OctreeAssumption
        <4> QED BY <2>1, <4>1, <4>2
      <3> QED BY <2>1, <3>1 DEF Below
    <2>3. c \in Below(c)
      BY DEF Below
    <2>4. Size(c) \in Nat /\ Size(k) \in Nat /\ IsFiniteSet(Below(c))
      BY <1>1, <2>1
    <2>5. Cardinality(Below(c) \ {c}) = Size(c) - 1 /\ IsFiniteSet(Below(c) \ {c})
      BY <2>3, <2>4, FS_RemoveElement
    <2>6. Size(k) <= Cardinality(Below(c) \ {c})
      BY <2>2, <2>5, FS_Subset
    <2>7. Size(c) <= Size(k)
      BY <1>4
    <2> HIDE DEF Size
    <2> QED BY <2>4, <2>5, <2>6, <2>7
  <1> QED BY <1>3, <1>5

LEMMA TopIsRoot ==
  ASSUME NEW c \in TreeChunks
  PROVE  \E r \in {c} \cup Ancestors(c) : Parent[r] = None /\ Ancestors(r) = {} /\ Covers[c] \subseteq Covers[r]
  <1> DEFINE up == {c} \cup Ancestors(c)
             Size(a) == Cardinality(Ancestors(a))
             S == {Size(a) : a \in up}
  <1>0. up \subseteq TreeChunks /\ \A a \in up : Covers[c] \subseteq Covers[a]
    BY DEF Ancestors
  <1>1. \A a \in TreeChunks : IsFiniteSet(Ancestors(a)) /\ Size(a) \in Nat
    BY NestFacts, FS_CardinalityType
  <1>2. PICK n \in S : \A m \in S : n <= m
    <2>1. S \in SUBSET Nat /\ S # {}
      BY <1>0, <1>1
    <2> HIDE DEF S
    <2> QED BY <2>1, LeastNatural
  <1>3. PICK r \in up : n = Size(r)
    BY <1>2
  <1>4. \A a \in up : Size(r) <= Size(a)
    BY <1>2, <1>3
  <1>5. Parent[r] = None
    <2> SUFFICES ASSUME Parent[r] # None PROVE FALSE
      OBVIOUS
    <2> DEFINE p == Parent[r]
    <2>1. p \in Ancestors(r) /\ r \in Kids(p) /\ p \in TreeChunks
      BY <1>0, NestFacts
    <2>2. Ancestors(r) = {p} \cup Ancestors(p) /\ p \notin Ancestors(p)
      BY <2>1, NestFacts
    <2>3. p \in up
      <3>1. Covers[c] \subseteq Covers[p]
        BY <1>0, <2>1 DEF Ancestors
      <3>2. CASE p = c
        BY <3>2
      <3>3. CASE p # c
        BY <2>1, <3>1, <3>3 DEF Ancestors
      <3> QED BY <3>2, <3>3
    <2>4. Ancestors(r) \ {p} = Ancestors(p)
      BY <2>2
    <2> HIDE DEF p, up
    <2>5. Size(p) = Size(r) - 1
      <3>1. r \in TreeChunks
        BY <1>0
      <3> QED BY <1>1, <2>1, <2>4, <3>1, FS_RemoveElement
    <2>6. Size(r) <= Size(p) /\ Size(p) \in Nat /\ Size(r) \in Nat
      BY <1>0, <1>1, <1>4, <2>1, <2>3
    <2> HIDE DEF Size
    <2> QED BY <2>5, <2>6
  <1> QED BY <1>0, <1>3, <1>5, NestFacts

(* Below a root within the chunks V, whose chunks in S are open, each      *)
(* piece of ground is at the end of a way of open chunks.                  *)
Way(d, r, l, V, S) ==
  /\ l \in Covers[d] /\ d \notin V \cap S
  /\ \A a \in Ancestors(d) : a \in V \cap S
  /\ d # r => Parent[d] \in Ancestors(d) /\ d \in Kids(Parent[d])

LEMMA WayDown ==
  ASSUME NEW V, NEW S, \A c \in TreeChunks : c \in S => Kids(c) # {},
         NEW r \in TreeChunks, r \in V, Ancestors(r) = {}, NEW l \in Covers[r]
  PROVE  \E d \in Below(r) : Way(d, r, l, V, S)
  <1> DEFINE A == {d \in Below(r) : /\ l \in Covers[d] /\ d \in V
                                    /\ \A a \in Ancestors(d) : a \in V \cap S}
  <1>0. Below(r) \subseteq TreeChunks /\ r \in Below(r)
    BY DEF Below
  <1>1. PICK d \in A : Kids(d) \cap A = {}
    <2>1. r \in A
      BY <1>0
    <2>2. A \in SUBSET TreeChunks
      BY <1>0
    <2> HIDE DEF A
    <2> QED BY <2>1, <2>2, Deepest
  <1>2. ASSUME NEW e \in Below(r), e # r PROVE Parent[e] \in Ancestors(e) /\ e \in Kids(Parent[e])
    <2>1. e \in TreeChunks /\ r \in Ancestors(e)
      BY <1>2 DEF Below, Ancestors
    <2> QED BY <2>1, NestFacts
  <1>3. CASE d \notin S
    BY <1>2, <1>3 DEF Way
  <1>4. CASE d \in S
    <2>1. d \in TreeChunks /\ l \in Covers[d] /\ d \in V
      BY <1>0
    <2>2. PICK k \in Kids(d) : l \in Covers[k]
      BY <1>4, <2>1, OctreeAssumption
    <2>3. k \in TreeChunks /\ Ancestors(k) = {d} \cup Ancestors(d) /\ Covers[k] \subseteq Covers[d]
      BY <2>1, NestFacts
    <2>4. k \in Below(r)
      BY <2>3 DEF Below
    <2>5. \A a \in Ancestors(k) : a \in V \cap S
      BY <1>4, <2>3
    <2>6. k \notin V
      BY <1>1, <2>2, <2>4, <2>5
    <2> QED BY <1>2, <2>2, <2>4, <2>5, <2>6 DEF Way
  <1> QED BY <1>3, <1>4

LEMMA CutTickWalk ==
  ASSUME PoolInv, PoolInv', TreeInv, TreeInv', NoneFailed, TickWalk
  PROVE  CutIsWhole'
  <1> DEFINE t == Marked(nodes)
             D == walk'.draws
  <1>1. /\ view' = view /\ view \in Views /\ t \in [TreeChunks -> NodeRecs \cup {None}]
        /\ D = {c \in Visited(t) \cap view.inside : t[c] # None /\ t[c].state = "ready" /\ ~Opens(t, c)}
        /\ LodType
    <2>1. LodType
      BY DEF PoolInv
    <2>2. view' = view /\ D = Walk(t).draws /\ view \in Views
      BY <2>1, TickWalkIs DEF LodType
    <2>3. t \in [TreeChunks -> NodeRecs \cup {None}]
      BY <2>1, MarkedKeeps
    <2> HIDE DEF t, D
    <2> QED BY <2>1, <2>2, <2>3, WalkKeeps
  <1>2. view.within \subseteq TreeChunks
    BY <1>1, LodAssumption DEF Sees
  <1>3. ASSUME NEW c \in Visited(t), t[c] # None
        PROVE  /\ nodes'[c] # None
               /\ t[c].state = "ready" => nodes'[c].state \in {"ready", "empty"}
               /\ t[c].state = "empty" => nodes'[c].state = "empty"
    BY <1>3, VisitedKept
  <1> HIDE DEF t, D
  <1>4. ASSUME NEW c \in Visited(t)
        PROVE  c \in TreeChunks /\ c \in view.within /\ \A a \in Ancestors(c) : a \in view.within \cap view.inside /\ Opens(t, a)
    BY <1>2 DEF Visited
  <1>5. ASSUME NEW c \in D
        PROVE  /\ c \in Visited(t) /\ c \in TreeChunks /\ c \in view.inside /\ ~Opens(t, c)
               /\ t[c] # None /\ t[c].state = "ready"
    BY <1>1, <1>4
  <1>6. ASSUME NEW c \in D, NEW r \in {c} \cup Ancestors(c), Ancestors(r) = {}
        PROVE  r \in Visited(t) /\ t[r] # None /\ t[r].state = "ready"
    <2>1. CASE r = c
      BY <1>5, <2>1
    <2>2. CASE r \in Ancestors(c)
      <3>1. r \in view.within /\ Opens(t, r)
        BY <1>4, <1>5, <2>2
      <3> QED BY <1>6, <3>1 DEF Visited, Opens
    <2> QED BY <2>1, <2>2
  <1>7. \A c, d \in D : c # d => Covers[c] \cap Covers[d] = {}
    <2> SUFFICES ASSUME NEW c \in D, NEW d \in D, c # d PROVE Covers[c] \cap Covers[d] = {}
      OBVIOUS
    <2>1. c \notin Ancestors(d) /\ d \notin Ancestors(c)
      BY <1>4, <1>5
    <2>2. ~(Covers[d] \subseteq Covers[c]) /\ ~(Covers[c] \subseteq Covers[d])
      BY <1>5, <2>1 DEF Ancestors
    <2>3. c \in TreeChunks /\ d \in TreeChunks
      BY <1>5
    <2> QED BY <2>2, <2>3, OctreeAssumption
  <1>8. \A c \in D : pool'.owns[c] # <<>> \/ Empty(c)'
    <2> SUFFICES ASSUME NEW c \in D PROVE pool'.owns[c] # <<>> \/ Empty(c)'
      OBVIOUS
    <2>1. nodes'[c] # None /\ nodes'[c].state \in {"ready", "empty"} /\ c \in TreeChunks
      BY <1>3, <1>5
    <2>2. ChunkOK(c, nodes, pool, marks, {})'
      BY <2>1 DEF TreeInv, TreeOK
    <2>3. Honest(nodes[c], c, pool, marks)'
      BY <2>1, <2>2 DEF ChunkOK
    <2> QED BY <2>1, <2>3 DEF Honest, Empty
  <1>9. ASSUME NEW r \in TreeChunks, Parent[r] = None, D \cap Below(r) # {}, NEW l \in Covers[r]
        PROVE  \E c \in Below(r) : l \in Covers[c] /\ (c \in D \/ c \notin view'.within \cap view'.inside \/ Empty(c)')
    <2> DEFINE S == {c \in view.inside : Opens(t, c)}
    <2>1. Ancestors(r) = {}
      BY <1>9, NestFacts
    <2>2. PICK e \in D : e \in Below(r)
      BY <1>9
    <2>3. r \in {e} \cup Ancestors(e)
      BY <2>2 DEF Below, Ancestors
    <2>4. r \in Visited(t) /\ t[r] # None /\ t[r].state = "ready" /\ r \in view.within
      BY <1>4, <1>6, <2>1, <2>3
    <2>5. \A c \in TreeChunks : c \in S => Kids(c) # {}
      BY DEF Opens, ChildrenReady
    <2>6. PICK d \in Below(r) : /\ l \in Covers[d] /\ d \notin view.within \cap S
                                /\ \A a \in Ancestors(d) : a \in view.within \cap S
                                /\ d # r => Parent[d] \in Ancestors(d) /\ d \in Kids(Parent[d])
      <3> HIDE DEF S
      <3>1. \E d \in Below(r) : Way(d, r, l, view.within, S)
        BY <2>1, <2>4, <2>5, WayDown
      <3> QED BY <3>1 DEF Way
    <2>7. CASE d \notin view.within \cap view.inside
      BY <1>1, <2>6, <2>7
    <2>8. CASE d \in view.within \cap view.inside
      <3>1. d \in Visited(t) /\ ~Opens(t, d)
        BY <2>6, <2>8 DEF Visited
      <3>2. t[d] # None /\ t[d].state \in {"ready", "empty"}
        <4>1. CASE d = r
          BY <2>4, <4>1
        <4>2. CASE d # r
          <5>1. Opens(t, Parent[d]) /\ d \in Kids(Parent[d]) \cap view.within
            BY <2>6, <2>8, <4>2
          <5> QED BY <5>1 DEF Opens, ChildrenReady
        <4> QED BY <4>1, <4>2
      <3>3. CASE t[d].state = "ready"
        <4>1. d \in D
          BY <1>1, <2>8, <3>1, <3>2, <3>3
        <4> QED BY <2>6, <4>1
      <3>4. CASE t[d].state = "empty"
        <4>1. Empty(d)'
          BY <1>3, <3>1, <3>2, <3>4 DEF Empty
        <4> QED BY <2>6, <4>1
      <3> QED BY <3>2, <3>3, <3>4
    <2> QED BY <2>7, <2>8
  <1>10. ASSUME NEW c \in D, NEW l \in Covers[c]
         PROVE  \E d \in TreeChunks :
                  l \in Covers[d] /\ (d \in ShadowCut(nodes)' \/ d \notin view'.within \/ Empty(d)')
    <2> DEFINE S == {d \in TreeChunks : Opens(nodes, d)'}
    <2>1. PICK r \in {c} \cup Ancestors(c) : Ancestors(r) = {} /\ Covers[c] \subseteq Covers[r]
      BY <1>5, TopIsRoot
    <2>2. r \in Visited(t) /\ t[r] # None /\ t[r].state = "ready"
      BY <1>6, <2>1
    <2>3. r \in TreeChunks /\ r \in view.within /\ l \in Covers[r]
      BY <1>4, <2>1, <2>2
    <2>4. nodes'[r] # None /\ nodes'[r].state \in {"ready", "empty"}
      BY <1>3, <2>2
    <2>5. \A d \in TreeChunks : d \in S => Kids(d) # {}
      BY DEF Opens, ChildrenReady
    <2>6. PICK d \in Below(r) : /\ l \in Covers[d] /\ d \notin view.within \cap S
                                /\ \A a \in Ancestors(d) : a \in view.within \cap S
                                /\ d # r => Parent[d] \in Ancestors(d) /\ d \in Kids(Parent[d])
      <3> HIDE DEF S
      <3>1. \E d \in Below(r) : Way(d, r, l, view.within, S)
        BY <2>1, <2>3, <2>5, WayDown
      <3> QED BY <3>1 DEF Way
    <2>7. d \in TreeChunks
      BY DEF Below
    <2>8. CASE d \notin view.within
      BY <1>1, <2>6, <2>7, <2>8
    <2>9. CASE d \in view.within
      <3>1. /\ ~Opens(nodes, d)'
            /\ \A a \in Ancestors(d) : a \in view'.within /\ Opens(nodes, a)'
        BY <1>1, <2>6, <2>7, <2>9
      <3>2. nodes'[d] # None /\ nodes'[d].state \in {"ready", "empty"}
        <4>1. CASE d = r
          BY <2>4, <4>1
        <4>2. CASE d # r
          <5>1. Opens(nodes, Parent[d])' /\ d \in Kids(Parent[d]) \cap view'.within
            BY <1>1, <2>6, <2>9, <4>2
          <5> QED BY <5>1 DEF Opens, ChildrenReady
        <4> QED BY <4>1, <4>2
      <3>3. CASE nodes'[d].state = "ready"
        <4>1. d \in ShadowCut(nodes)'
          BY <1>1, <2>9, <3>1, <3>2, <3>3 DEF ShadowCut
        <4> QED BY <2>6, <2>7, <4>1
      <3>4. CASE nodes'[d].state = "empty"
        <4>1. Empty(d)'
          BY <3>2, <3>4 DEF Empty
        <4> QED BY <2>6, <2>7, <4>1
      <3> QED BY <3>2, <3>3, <3>4
    <2> QED BY <2>8, <2>9
  <1> QED BY <1>7, <1>8, <1>9, <1>10 DEF CutIsWhole, D

CutInv ==
  /\ ~On("fail") => \A i \in DOMAIN results : ~results[i].failed
  /\ CutIsWhole

LEMMA CutNext ==
  ASSUME ReloadsMeetNoFailure, PoolInv, PoolInv', TreeInv, TreeInv', CutInv, [Next]_vars
  PROVE  CutInv'
  <1>0. LodType /\ host \in Hosts
    BY DEF PoolInv, LodType
  <1>1. NoneFailed
    BY <1>0 DEF CutInv, NoneFailed, ReloadsMeetNoFailure, On
  <1>2. ASSUME phase' = "walk" \/ (nodes' = nodes /\ pool' = pool /\ walk' = walk /\ view' = view /\ phase' = phase)
        PROVE  CutIsWhole'
    <2>1. CASE phase' = "walk"
      BY <2>1 DEF CutIsWhole
    <2>2. CASE nodes' = nodes /\ pool' = pool /\ walk' = walk /\ view' = view /\ phase' = phase
      <3>1. \A c \in TreeChunks : (Empty(c)' <=> Empty(c))
        BY <2>2 DEF Empty
      <3>2. ShadowCut(nodes)' = ShadowCut(nodes)
        BY <2>2 DEF ShadowCut, Opens, ChildrenReady
      <3>3. \A r \in TreeChunks : Below(r) \subseteq TreeChunks
        BY DEF Below
      <3>4. walk.draws \subseteq TreeChunks
        BY <1>0 DEF LodType
      <3> QED BY <2>2, <3>1, <3>2, <3>3, <3>4 DEF CutInv, CutIsWhole
    <2> QED BY <1>2, <2>1, <2>2
  <1>3. ASSUME results' = results, host' = host
        PROVE  ~On("fail")' => \A i \in DOMAIN results' : ~results'[i].failed
    BY <1>3 DEF CutInv, On
  <1>4. CASE TickWalk
    <2>1. results' = <<>>
      BY <1>4, TickWalkIs
    <2> QED BY <1>1, <1>4, <2>1, CutTickWalk DEF CutInv
  <1>5. CASE Submit \/ SubmitRefused
    <2>1. phase' = "walk" /\ results' = results /\ host' = host
      BY <1>5 DEF Submit, SubmitRefused, TickSubmit
    <2> QED BY <1>2, <1>3, <2>1 DEF CutInv
  <1>6. CASE Build
    <2>1. /\ nodes' = nodes /\ pool' = pool /\ walk' = walk /\ view' = view /\ phase' = phase
          /\ host' = host /\ results' = results \o Answered
      BY <1>6 DEF Build, Answered, Success, world
    <2>2. CutIsWhole'
      BY <1>2, <2>1
    <2>3. ASSUME ~On("fail"), NEW j \in DOMAIN results' PROVE ~results'[j].failed
      <3> DEFINE n == Len(results)
      <3>0. results \in Seq(Answers) /\ Answered \in Seq(Answers)
        BY <1>0, AnsweredFacts DEF LodType
      <3>1. /\ \A i \in DOMAIN results : results'[i] = results[i]
            /\ \A i \in DOMAIN Answered : results'[n + i] = Answered[i]
            /\ \A k \in DOMAIN results' : k \in DOMAIN results \/ \E i \in DOMAIN Answered : k = n + i
        BY <2>1, <3>0, CatPlaces
      <3>2. \A i \in DOMAIN Answered : ~Answered[i].failed
        BY <1>0, AnsweredFacts DEF Builds
      <3> HIDE DEF n
      <3> QED BY <2>3, <3>1, <3>2 DEF CutInv
    <2>4. On("fail")' <=> On("fail")
      BY <2>1 DEF On
    <2> QED BY <2>2, <2>3, <2>4 DEF CutInv
  <1>7. CASE BuildFails
    <2>1. /\ nodes' = nodes /\ pool' = pool /\ walk' = walk /\ view' = view /\ phase' = phase
          /\ host' = host /\ On("fail")
      BY <1>7 DEF BuildFails, world
    <2>2. On("fail")'
      BY <2>1 DEF On
    <2> QED BY <1>2, <2>1, <2>2 DEF CutInv
  <1>8. CASE \/ \E l \in Leaves, solid \in BOOLEAN : Edit(l, solid)
             \/ \E l \in Leaves : Paint(l) \/ Consolidate(l)
    <2>1. /\ nodes' = nodes /\ pool' = pool /\ walk' = walk /\ view' = view /\ phase' = phase
          /\ host' = host /\ results' = results
      BY <1>8 DEF Edit, Paint, Consolidate
    <2> QED BY <1>2, <1>3, <2>1 DEF CutInv
  <1>9. CASE \/ \E v \in Views : Move(v)
             \/ \E live, anew \in BOOLEAN : ApplyIslandShells(live, anew)
             \/ ReleaseGpu
    <2>1. phase' = "walk" /\ host' = host /\ results' = results
      BY <1>9 DEF Move, ApplyIslandShells, ReleaseGpu
    <2> QED BY <1>2, <1>3, <2>1 DEF CutInv
  <1>10. CASE UNCHANGED vars
    <2>1. /\ nodes' = nodes /\ pool' = pool /\ walk' = walk /\ view' = view /\ phase' = phase
          /\ host' = host /\ results' = results
      BY <1>10 DEF vars, world
    <2> QED BY <1>2, <1>3, <2>1 DEF CutInv
  <1> QED BY <1>4, <1>5, <1>6, <1>7, <1>8, <1>9, <1>10 DEF Next

(* What a frame draws is one picture of the ground, for any octree, views, *)
(* sizes of the pool and of the batch, and any time that the worker takes. *)
THEOREM LodCut ==
  ReloadsAlone /\ ReloadsMeetNoEdit /\ ReloadsMeetNoFailure => (Spec => []CutIsWhole)
  <1> SUFFICES ASSUME ReloadsAlone, ReloadsMeetNoEdit, ReloadsMeetNoFailure PROVE Spec => []CutIsWhole
    OBVIOUS
  <1>1. Init => CutInv
    BY DEF Init, CutInv, CutIsWhole
  <1>2. PoolInv /\ PoolInv' /\ TreeInv /\ TreeInv' /\ CutInv /\ [Next]_vars => CutInv'
    BY CutNext
  <1>3. Spec => []PoolInv /\ []TreeInv
    BY LodPool, LodTree
  <1>4. CutInv => CutIsWhole
    BY DEF CutInv
  <1> QED BY <1>1, <1>2, <1>3, <1>4, PTL DEF Spec
=============================================================================

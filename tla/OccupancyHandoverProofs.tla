------------------------ MODULE OccupancyHandoverProofs ------------------------
(***************************************************************************)
(* Every stamp is true and the grid never goes back, for any regions,      *)
(* slabs, reads and hosts.                                                 *)
(*                                                                         *)
(* The argument goes by what the occupancy on the GPU hides.  Between two  *)
(* frames that is an edit the streamer still has queued, or one whose      *)
(* brick was refused; no stamp on its way is as new as a queued edit, and  *)
(* of a refused one there is word, or its region waits for repair.  A      *)
(* frame takes the queue, and has a job for each edit of a region that     *)
(* stays and for each region it repairs; when the jobs have run, the GPU   *)
(* hides what was refused and no more, so the stamps given out by them are *)
(* true.  A job that marks again has all operations though it uploads      *)
(* none, as the pool is behind by what is queued and no more.              *)
(*                                                                         *)
(* Reads, marks, jobs and blocks are folded over in the order they have;   *)
(* the first section is induction over the naturals, by the least element  *)
(* that fails.                                                             *)
(***************************************************************************)
EXTENDS OccupancyHandover, TLAPS, FiniteSetTheorems, SequenceTheorems, WellFoundedInduction

-----------------------------------------------------------------------------
(* Induction                                                               *)

(* A set of naturals that is not empty has a least element.                *)
LEMMA LeastNatural ==
  ASSUME NEW S \in SUBSET Nat, S # {}
  PROVE  \E n \in S : \A m \in S : n <= m
<1> DEFINE R == {p \in Nat \X Nat : p[1] < p[2]}
<1>1. IsWellFoundedOn(R, Nat)
  <2>1. R = OpToRel(<, Nat)
    BY DEF OpToRel
  <2> QED BY <2>1, NatLessThanWellFounded
<1>2. PICK n \in S : \A m \in S : <<m, n>> \notin R
  <2> HIDE DEF R
  <2> QED BY <1>1, WFMin
<1>3. ASSUME NEW m \in S PROVE n <= m
  <2>1. ~(m < n)
    BY <1>2
  <2> QED BY <2>1
<1> QED BY <1>3

(* A set with 0 and the successors of its naturals has all naturals.       *)
LEMMA SetInduction ==
  ASSUME NEW S, 0 \in S, \A n \in Nat : n \in S => n + 1 \in S
  PROVE  Nat \subseteq S
<1> SUFFICES ASSUME Nat \ S # {} PROVE FALSE
  OBVIOUS
<1>1. PICK n \in Nat \ S : \A m \in Nat \ S : n <= m
  BY LeastNatural
<1>2. n # 0 /\ n - 1 \in Nat /\ (n - 1) + 1 = n
  OBVIOUS
<1>3. n - 1 \in S
  BY <1>1, <1>2
<1> QED BY <1>2, <1>3

(* A finite set of naturals can be put in ascending order.                 *)
LEMMA AscendingExists ==
  ASSUME NEW S \in SUBSET Nat, IsFiniteSet(S)
  PROVE  \E q \in [1..Cardinality(S) -> S] :
           \A i, j \in 1..Cardinality(S) : i < j => q[i] < q[j]
<1> DEFINE Sorted(q, n) == \A i, j \in 1..n : i < j => q[i] < q[j]
           Sortable(n) == \A X \in SUBSET Nat : IsFiniteSet(X) /\ Cardinality(X) = n
                            => \E q \in [1..n -> X] : Sorted(q, n)
           T == {n \in Nat : Sortable(n)}
<1>1. 0 \in T
  <2> SUFFICES ASSUME NEW X \in SUBSET Nat PROVE \E q \in [1..0 -> X] : Sorted(q, 0)
    OBVIOUS
  <2>1. [i \in 1..0 |-> i] \in [1..0 -> X]
    OBVIOUS
  <2> QED BY <2>1
<1>2. ASSUME NEW n \in Nat, n \in T PROVE n + 1 \in T
  <2> SUFFICES ASSUME NEW X \in SUBSET Nat, IsFiniteSet(X), Cardinality(X) = n + 1
               PROVE  \E q \in [1..(n + 1) -> X] : Sorted(q, n + 1)
    OBVIOUS
  <2>1. X # {}
    BY FS_EmptySet
  <2>2. PICK x \in X : \A y \in X : x <= y
    BY <2>1, LeastNatural
  <2>3. IsFiniteSet(X \ {x}) /\ Cardinality(X \ {x}) = n
    <3>1. IsFiniteSet(X \ {x}) /\ Cardinality(X \ {x}) = Cardinality(X) - 1
      BY FS_RemoveElement
    <3> QED BY <3>1
  <2>4. PICK q \in [1..n -> X \ {x}] : Sorted(q, n)
    BY <1>2, <2>3
  <2> DEFINE p == [i \in 1..(n + 1) |-> IF i = 1 THEN x ELSE q[i - 1]]
  <2>5. p \in [1..(n + 1) -> X]
    OBVIOUS
  <2>6. Sorted(p, n + 1)
    <3> SUFFICES ASSUME NEW i \in 1..(n + 1), NEW j \in 1..(n + 1), i < j PROVE p[i] < p[j]
      OBVIOUS
    <3>1. j - 1 \in 1..n /\ p[j] = q[j - 1]
      OBVIOUS
    <3>2. CASE i = 1
      <4>1. q[j - 1] \in X /\ q[j - 1] # x /\ p[i] = x
        BY <3>1, <3>2
      <4>2. x \in Nat /\ q[j - 1] \in Nat /\ x <= q[j - 1]
        BY <4>1, <2>2
      <4>3. x < q[j - 1]
        BY <4>1, <4>2
      <4> HIDE DEF p
      <4> QED BY <4>1, <4>3, <3>1
    <3>3. CASE i # 1
      <4>1. i - 1 \in 1..n /\ p[i] = q[i - 1] /\ i - 1 < j - 1
        BY <3>3
      <4> QED BY <4>1, <3>1, <2>4
    <3> QED BY <3>2, <3>3
  <2> HIDE DEF p
  <2> QED BY <2>5, <2>6
<1>3. Nat \subseteq T
  <2> HIDE DEF T
  <2> QED BY <1>1, <1>2, SetInduction
<1>4. Cardinality(S) \in Nat
  BY FS_CardinalityType
<1>5. Sortable(Cardinality(S))
  BY <1>3, <1>4
<1> QED BY <1>5

(* The enumeration of a set of naturals has each of them.                  *)
LEMMA AscendingHasAll ==
  ASSUME NEW S \in SUBSET Nat, IsFiniteSet(S)
  PROVE  /\ Cardinality(S) \in Nat
         /\ Ascending(S) \in [1..Cardinality(S) -> S]
         /\ \A s \in S : \E i \in 1..Cardinality(S) : Ascending(S)[i] = s
<1> DEFINE n == Cardinality(S)
           q == Ascending(S)
<1>1. n \in Nat
  BY FS_CardinalityType
<1>2. q \in [1..n -> S] /\ \A i, j \in 1..n : i < j => q[i] < q[j]
  BY AscendingExists DEF Ascending
<1> HIDE DEF q
<1>3. q \in Injection(1..n, S)
  <2>1. ASSUME NEW i \in 1..n, NEW j \in 1..n, i # j PROVE q[i] # q[j]
    <3>1. q[i] \in Nat /\ q[j] \in Nat
      BY <1>2
    <3>2. q[i] < q[j] \/ q[j] < q[i]
      BY <1>1, <1>2, <2>1
    <3> QED BY <3>1, <3>2
  <2> QED BY <2>1, <1>2 DEF Injection, IsInjective
<1>4. IsFiniteSet(1..n) /\ Cardinality(1..n) = n
  BY <1>1, FS_Interval
<1>5. q \in Surjection(1..n, S)
  BY <1>3, <1>4, FS_Injection
<1> QED BY <1>1, <1>2, <1>5 DEF Surjection, q

(* The enumeration of a finite set is a sequence of its elements.          *)
LEMMA SetToSeqIsSeq ==
  ASSUME NEW S, IsFiniteSet(S)
  PROVE  SetToSeq(S) \in Seq(S)
<1>1. Cardinality(S) \in Nat /\ ExistsBijection(1..Cardinality(S), S)
  BY FS_CardinalityType
<1>2. \E f \in [1..Cardinality(S) -> S] : IsInjective(f)
  BY <1>1 DEF ExistsBijection, Bijection, Injection
<1>3. SetToSeq(S) \in [1..Cardinality(S) -> S]
  BY <1>2 DEF SetToSeq
<1> QED BY <1>1, <1>3, IsASeq

(* The fold of steps F from a, and where its values are.                   *)
IsFold(g, n, F, a) == g = [i \in 0..n |-> IF i = 0 THEN a ELSE F[i][g[i - 1]]]
Within(g, n, W) == \A i \in 0..n : g[i] \in W[i]

(* A fold whose steps lead from one set of a family to the next exists.    *)
LEMMA FoldExists ==
  ASSUME NEW n \in Nat, NEW W, NEW F, NEW a, a \in W[0],
         \A i \in 1..n : \A x \in W[i - 1] : F[i][x] \in W[i]
  PROVE  \E g : IsFold(g, n, F, a) /\ Within(g, n, W)
<1> USE DEF IsFold, Within
<1> DEFINE Folds(g, m) == IsFold(g, m, F, a) /\ Within(g, m, W)
           T == {m \in Nat : m <= n => \E g : Folds(g, m)}
<1>1. 0 \in T
  <2>1. Folds([i \in 0..0 |-> a], 0)
    OBVIOUS
  <2> QED BY <2>1
<1>2. ASSUME NEW m \in Nat, m \in T PROVE m + 1 \in T
  <2> SUFFICES ASSUME m + 1 <= n PROVE \E g : Folds(g, m + 1)
    OBVIOUS
  <2>1. PICK g : Folds(g, m)
    BY <1>2
  <2> DEFINE h == [i \in 0..(m + 1) |-> IF i = m + 1 THEN F[m + 1][g[m]] ELSE g[i]]
  <2>2. g[m] \in W[m] /\ m + 1 \in 1..n /\ (m + 1) - 1 = m
    BY <2>1
  <2>3. F[m + 1][g[m]] \in W[m + 1]
    BY <2>2
  <2>4. ASSUME NEW i \in 0..(m + 1)
        PROVE  /\ h[i] = IF i = 0 THEN a ELSE F[i][h[i - 1]]
               /\ h[i] \in W[i]
    <3>1. CASE i = m + 1
      BY <3>1, <2>3
    <3>2. CASE i # m + 1
      <4>1. i \in 0..m /\ h[i] = g[i] /\ (i # 0 => h[i - 1] = g[i - 1])
        BY <3>2
      <4>2. g[i] = IF i = 0 THEN a ELSE F[i][g[i - 1]]
        BY <4>1, <2>1
      <4> HIDE DEF h
      <4> QED BY <4>1, <4>2, <2>1
    <3> QED BY <3>1, <3>2
  <2>5. h = [i \in 0..(m + 1) |-> h[i]]
    OBVIOUS
  <2>6. h = [i \in 0..(m + 1) |-> IF i = 0 THEN a ELSE F[i][h[i - 1]]]
    <3> HIDE DEF h
    <3> QED BY <2>4, <2>5
  <2>7. Folds(h, m + 1)
    <3> HIDE DEF h
    <3> QED BY <2>4, <2>6
  <2> HIDE DEF h, Folds
  <2> QED BY <2>7
<1>3. Nat \subseteq T
  <2> HIDE DEF T
  <2> QED BY <1>1, <1>2, SetInduction
<1>4. PICK g : Folds(g, n)
  BY <1>3
<1> QED BY <1>4

(* What follows the family step by step is in it throughout.               *)
LEMMA FoldStays ==
  ASSUME NEW n \in Nat, NEW W, NEW h, h[0] \in W[0],
         \A i \in 1..n : h[i - 1] \in W[i - 1] => h[i] \in W[i]
  PROVE  h[n] \in W[n]
<1> DEFINE T == {i \in Nat : i <= n => h[i] \in W[i]}
<1>1. 0 \in T
  OBVIOUS
<1>2. ASSUME NEW i \in Nat, i \in T PROVE i + 1 \in T
  <2> SUFFICES ASSUME i + 1 <= n PROVE h[i + 1] \in W[i + 1]
    OBVIOUS
  <2>1. h[i] \in W[i] /\ i + 1 \in 1..n /\ (i + 1) - 1 = i
    BY <1>2
  <2> QED BY <2>1
<1>3. Nat \subseteq T
  <2> HIDE DEF T
  <2> QED BY <1>1, <1>2, SetInduction
<1> QED BY <1>3

-----------------------------------------------------------------------------
(* Types                                                                   *)

Cells == [Bricks -> (SUBSET Nat) \cup {Unknown}]
BlockRecs == [region : Regions, seq : Nat, cells : Cells]
MarkRecs == [region : Regions, seq : Nat]
ReadRecs == [block : BlockRecs, landed : BOOLEAN, short : BOOLEAN]
ReadArrays == [1..Readers -> ReadRecs \cup {None}]
GridRecs == [seq : Nat, cells : Cells]
WindowRecs == [region : Regions, brick : Bricks, seq : Nat]
Extractions == [window : WindowRecs, seq : Nat]
Kinds == {"probe", "plain", "slab", "force", "edit", "remark"}
RequestRecs == [kind : Kinds, region : Regions, bricks : SUBSET Nat]
JobRecs == [req : RequestRecs, ops : SUBSET Nat, seq : Nat]
Frames == [evicts : SUBSET Regions, todo : Seq(RequestRecs), remarks : SUBSET Regions,
           jobs : Seq(JobRecs)]
Bits == {"slot", "job"}
AtlasRecs == [gpu : [Regions -> Cells], slots : [Regions -> SUBSET Nat], word : SUBSET Bits,
              missed : SUBSET Nat]

HandoverType ==
  /\ edits \in Seq([region : Regions, brick : Bricks])
  /\ pending \subseteq 1..EditSeq
  /\ forced \subseteq Regions
  /\ resident \subseteq Regions
  /\ slab \in [Regions -> Nat]
  /\ force \in [Regions -> BOOLEAN]
  /\ gpu \in [Regions -> Cells]
  /\ slots \in [Regions -> SUBSET Nat]
  /\ uploaded \in [Regions -> SUBSET Nat]
  /\ word \subseteq Bits
  /\ missed \subseteq Nat
  /\ frame \in Frames \cup {None}
  /\ marked \in Seq(MarkRecs)
  /\ reads \in ReadArrays
  /\ inbox \in Seq(BlockRecs)
  /\ grid \in [Regions -> GridRecs \cup {None}]
  /\ windows \in Seq(WindowRecs)
  /\ extraction \in Extractions \cup {None}
  /\ host \in Hosts

-----------------------------------------------------------------------------
(* What is known of a stamp                                                *)

(* A stamp was read once, and is older than each edit still queued.        *)
StampOk(n) == n <= EditSeq /\ \A s \in pending : n < s

MarksOk(m) == \A i \in DOMAIN m : StampOk(m[i].seq)
ReadsOk(rs) == \A i \in 1..Readers : rs[i] # None => StampOk(rs[i].block.seq) /\ Truthful(rs[i].block)
BlocksOk(ib) == \A i \in DOMAIN ib : ib[i].seq <= EditSeq /\ Truthful(ib[i])

(* The reads, the inbox and the marks as harvesting and asking pass them   *)
(* on.                                                                     *)
Ios == {io \in [reads : ReadArrays, inbox : Seq(BlockRecs), marked : Seq(MarkRecs),
                stop : BOOLEAN] :
          ~host.tools => MarksOk(io.marked) /\ ReadsOk(io.reads) /\ BlocksOk(io.inbox)}

(* The GPU hides no edit but those the streamer has queued and those whose *)
(* brick was refused.                                                      *)
HidesFewOnly ==
  \A r \in Regions : \A s \in EditsOf(r) : Hides(gpu[r], s) => s \in pending \cup missed

(* A note keeps the other stamps and brings its own.                       *)
LEMMA NoteMarkedType ==
  ASSUME NEW m \in Seq(MarkRecs), NEW r \in Regions, NEW s \in Nat
  PROVE  /\ NoteMarked(m, r, s) \in Seq(MarkRecs)
         /\ \A i \in DOMAIN NoteMarked(m, r, s) :
              \/ NoteMarked(m, r, s)[i].seq = s
              \/ i \in DOMAIN m /\ NoteMarked(m, r, s)[i].seq = m[i].seq
<1>1. CASE \E i \in DOMAIN m : m[i].region = r
  <2> DEFINE n == [i \in DOMAIN m |->
                     IF m[i].region = r /\ s > m[i].seq THEN [m[i] EXCEPT !.seq = s] ELSE m[i]]
  <2>1. NoteMarked(m, r, s) = n
    BY <1>1 DEF NoteMarked
  <2>2. ASSUME NEW i \in DOMAIN m
        PROVE  n[i] \in MarkRecs /\ (n[i].seq = s \/ n[i].seq = m[i].seq)
    <3>1. m[i] \in MarkRecs
      OBVIOUS
    <3> QED BY <3>1 DEF MarkRecs
  <2>3. /\ DOMAIN m = 1..Len(m) /\ Len(m) \in Nat
        /\ n = [i \in DOMAIN m |-> n[i]]
    OBVIOUS
  <2> HIDE DEF n
  <2>4. n \in [1..Len(m) -> MarkRecs]
    BY <2>2, <2>3
  <2> QED BY <2>1, <2>2, <2>3, <2>4, IsASeq
<1>2. CASE ~\E i \in DOMAIN m : m[i].region = r
  <2> DEFINE e == [region |-> r, seq |-> s]
  <2>1. NoteMarked(m, r, s) = Append(m, e) /\ e \in MarkRecs
    BY <1>2 DEF NoteMarked, MarkRecs
  <2>2. /\ Append(m, e) \in Seq(MarkRecs)
        /\ DOMAIN Append(m, e) = 1..(Len(m) + 1)
        /\ \A i \in 1..Len(m) : Append(m, e)[i] = m[i]
        /\ Append(m, e)[Len(m) + 1] = e
    BY <2>1, AppendProperties
  <2> HIDE DEF e
  <2>3. e.seq = s
    BY DEF e
  <2> QED BY <2>1, <2>2, <2>3
<1> QED BY <1>1, <1>2

-----------------------------------------------------------------------------
(* Harvesting and asking                                                   *)

(* A read that is taken in hands on a true block, or its stamp.            *)
LEMMA TakeFreshStays ==
  ASSUME NEW io \in Ios, NEW i \in 1..Readers
  PROVE  TakeFresh(io, i) \in Ios
<1> DEFINE rd == io.reads[i]
<1>1. CASE rd = None \/ ~rd.landed
  BY <1>1 DEF TakeFresh
<1>2. CASE ~(rd = None \/ ~rd.landed)
  <2>1. rd \in ReadRecs /\ io.inbox \in Seq(BlockRecs) /\ io.marked \in Seq(MarkRecs)
        /\ io.reads \in ReadArrays /\ io.stop \in BOOLEAN
    BY <1>2 DEF Ios, ReadArrays
  <2>2. rd.block \in BlockRecs /\ rd.block.region \in Regions /\ rd.block.seq \in Nat
    BY <2>1 DEF ReadRecs, BlockRecs
  <2> DEFINE rs == [io.reads EXCEPT ![i] = None]
             ib == IF rd.short THEN io.inbox ELSE Append(io.inbox, rd.block)
             m  == IF rd.short THEN NoteMarked(io.marked, rd.block.region, rd.block.seq)
                   ELSE io.marked
             io2 == [reads |-> rs, inbox |-> ib, marked |-> m, stop |-> io.stop]
  <2>3. TakeFresh(io, i) = io2
    BY <1>2 DEF TakeFresh, Ios
  <2>4. rs \in ReadArrays /\ ib \in Seq(BlockRecs) /\ m \in Seq(MarkRecs)
    BY <2>1, <2>2, NoteMarkedType, AppendProperties DEF ReadArrays
  <2>5. ASSUME ~host.tools PROVE MarksOk(m) /\ ReadsOk(rs) /\ BlocksOk(ib)
    <3>1. MarksOk(io.marked) /\ ReadsOk(io.reads) /\ BlocksOk(io.inbox)
      BY <2>5 DEF Ios
    <3>2. StampOk(rd.block.seq) /\ Truthful(rd.block)
      BY <1>2, <3>1 DEF ReadsOk
    <3>3. MarksOk(m)
      <4>1. CASE rd.short
        <5>1. m = NoteMarked(io.marked, rd.block.region, rd.block.seq)
          BY <4>1
        <5> HIDE DEF m
        <5> QED BY <5>1, <2>1, <2>2, <3>1, <3>2, NoteMarkedType DEF MarksOk
      <4>2. CASE ~rd.short
        BY <4>2, <3>1
      <4> QED BY <4>1, <4>2
    <3>4. ReadsOk(rs)
      BY <3>1, <2>1 DEF ReadsOk, ReadArrays
    <3>5. BlocksOk(ib)
      <4>1. CASE rd.short
        BY <4>1, <3>1
      <4>2. CASE ~rd.short
        <5>1. /\ DOMAIN Append(io.inbox, rd.block) = 1..(Len(io.inbox) + 1)
              /\ \A j \in 1..Len(io.inbox) : Append(io.inbox, rd.block)[j] = io.inbox[j]
              /\ Append(io.inbox, rd.block)[Len(io.inbox) + 1] = rd.block
              /\ DOMAIN io.inbox = 1..Len(io.inbox) /\ Len(io.inbox) \in Nat
          BY <2>1, <2>2, AppendProperties
        <5>2. ib = Append(io.inbox, rd.block)
          BY <4>2
        <5> HIDE DEF ib, rd
        <5> QED BY <5>1, <5>2, <3>1, <3>2 DEF BlocksOk, StampOk
      <4> QED BY <4>1, <4>2
    <3> QED BY <3>3, <3>4, <3>5
  <2> HIDE DEF rs, ib, m
  <2>6. io2 \in Ios
    BY <2>1, <2>4, <2>5 DEF Ios
  <2> QED BY <2>3, <2>6
<1> QED BY <1>1, <1>2

(* Harvesting hands on true blocks only, and stamps that are true still.   *)
LEMMA HarvestStays ==
  ASSUME NEW io \in Ios PROVE Harvest(io) \in Ios
<1> DEFINE W == [i \in 0..Readers |-> Ios]
           F == [i \in 1..Readers |-> [x \in Ios |-> TakeFresh(x, i)]]
           Folds(g) == g = [i \in 0..Readers |-> IF i = 0 THEN io ELSE TakeFresh(g[i - 1], i)]
           take == CHOOSE g : Folds(g)
<1>0. Readers \in Nat /\ io \in W[0]
  <2>1. Readers \in Nat \ {0}
    BY OccupancyAssumption, Zenon
  <2> QED BY <2>1
<1>1. \A i \in 1..Readers : \A x \in W[i - 1] : F[i][x] \in W[i]
  BY <1>0, TakeFreshStays
<1>2. PICK g : IsFold(g, Readers, F, io) /\ Within(g, Readers, W)
  <2> HIDE DEF W, F
  <2> QED BY <1>0, <1>1, FoldExists
<1>3. Folds(g)
  <2>1. \A i \in 1..Readers : i - 1 \in 0..Readers /\ g[i - 1] \in Ios
    BY <1>0, <1>2 DEF Within
  <2>2. \A i \in 1..Readers : F[i][g[i - 1]] = TakeFresh(g[i - 1], i)
    BY <2>1
  <2> HIDE DEF F
  <2>3. g = [i \in 0..Readers |-> g[i]]
    BY <1>2 DEF IsFold
  <2>4. \A i \in 0..Readers : g[i] = IF i = 0 THEN io ELSE F[i][g[i - 1]]
    BY <1>2 DEF IsFold
  <2>5. \A i \in 0..Readers : g[i] = IF i = 0 THEN io ELSE TakeFresh(g[i - 1], i)
    BY <1>0, <2>2, <2>4
  <2> QED BY <2>3, <2>5
<1>4. Folds(take)
  BY <1>3
<1>5. take[0] \in W[0] /\ \A i \in 1..Readers : take[i - 1] \in W[i - 1] => take[i] \in W[i]
  <2> HIDE DEF take
  <2> QED BY <1>0, <1>4, TakeFreshStays
<1>6. take[Readers] \in W[Readers]
  <2> HIDE DEF take, W
  <2> QED BY <1>0, <1>5, FoldStays
<1>7. Harvest(io) = take[Readers]
  BY DEF Harvest
<1> HIDE DEF take
<1> QED BY <1>0, <1>6, <1>7

(* A request copies what the GPU shows of a resident region; that hides    *)
(* queued edits at most, and the stamp is older than those.                *)
LEMMA RequestReadStays ==
  ASSUME HandoverType, ~host.tools => HidesFewOnly,
         NEW io \in Ios, NEW i \in 1..Readers, NEW refused
  PROVE  RequestRead(io, i, refused) \in Ios
<1> DEFINE want == Head(io.marked)
           rest == [reads |-> io.reads, inbox |-> io.inbox, marked |-> Tail(io.marked),
                    stop |-> io.stop]
           blk == [region |-> want.region, seq |-> want.seq, cells |-> gpu[want.region]]
           read == [block |-> blk, landed |-> FALSE, short |-> FALSE]
<1>1. CASE io.stop \/ io.reads[i] # None \/ io.marked = <<>>
  BY <1>1 DEF RequestRead
<1>2. CASE ~(io.stop \/ io.reads[i] # None \/ io.marked = <<>>)
  <2>1. io.inbox \in Seq(BlockRecs) /\ io.marked \in Seq(MarkRecs)
        /\ io.reads \in ReadArrays /\ io.stop \in BOOLEAN
    BY DEF Ios
  <2>2. /\ want \in MarkRecs /\ Tail(io.marked) \in Seq(MarkRecs)
        /\ want = io.marked[1] /\ 1 \in DOMAIN io.marked
        /\ DOMAIN Tail(io.marked) = 1..(Len(io.marked) - 1) /\ Len(io.marked) \in Nat
        /\ \A j \in 1..(Len(io.marked) - 1) : Tail(io.marked)[j] = io.marked[j + 1]
    BY <1>2, <2>1
  <2>3. want.region \in Regions /\ want.seq \in Nat
    BY <2>2 DEF MarkRecs
  <2>4. ~host.tools => MarksOk(io.marked) /\ ReadsOk(io.reads) /\ BlocksOk(io.inbox)
    BY DEF Ios
  <2>5. ~host.tools => StampOk(want.seq) /\ MarksOk(Tail(io.marked))
    <3> SUFFICES ASSUME ~host.tools PROVE StampOk(want.seq) /\ MarksOk(Tail(io.marked))
      OBVIOUS
    <3>1. \A j \in DOMAIN Tail(io.marked) : j + 1 \in DOMAIN io.marked
      BY <2>1, <2>2
    <3> HIDE DEF want
    <3> QED BY <2>2, <2>4, <3>1 DEF MarksOk
  <2> HIDE DEF want
  <2>6. rest \in Ios
    <3> DEFINE m == Tail(io.marked)
    <3>1. rest = [reads |-> io.reads, inbox |-> io.inbox, marked |-> m, stop |-> io.stop]
      OBVIOUS
    <3> HIDE DEF rest, m
    <3>2. m \in Seq(MarkRecs) /\ (~host.tools => MarksOk(m))
      BY <2>2, <2>5 DEF m
    <3> QED BY <3>1, <3>2, <2>1, <2>4 DEF Ios
  <2>7. CASE want.region \notin resident
    BY <1>2, <2>6, <2>7 DEF RequestRead, want, Ios
  <2>8. CASE want.region \in resident /\ refused
    <3> DEFINE m == NoteMarked(Tail(io.marked), want.region, want.seq)
               io2 == [reads |-> io.reads, inbox |-> io.inbox, marked |-> m, stop |-> TRUE]
    <3>1. RequestRead(io, i, refused) = io2
      BY <1>2, <2>8 DEF RequestRead, want, Ios
    <3>2. m \in Seq(MarkRecs) /\ (~host.tools => MarksOk(m))
      BY <2>2, <2>3, <2>5, NoteMarkedType DEF MarksOk
    <3> HIDE DEF m
    <3>3. io2 \in Ios
      BY <3>2, <2>1, <2>4 DEF Ios
    <3> QED BY <3>1, <3>3
  <2>9. CASE want.region \in resident /\ ~refused
    <3> DEFINE rs == [io.reads EXCEPT ![i] = read]
               m == Tail(io.marked)
               io2 == [reads |-> rs, inbox |-> io.inbox, marked |-> m, stop |-> io.stop]
    <3>1. RequestRead(io, i, refused) = io2
      BY <1>2, <2>9 DEF RequestRead, want, Ios
    <3>2. blk \in BlockRecs /\ read \in ReadRecs
      BY <2>3 DEF HandoverType, BlockRecs, ReadRecs
    <3>3. ASSUME ~host.tools PROVE Truthful(blk)
      <4> SUFFICES ASSUME NEW s \in EditsOf(want.region), s <= want.seq,
                          Hides(gpu[want.region], s), s \notin missed
                   PROVE FALSE
        BY DEF Truthful
      <4>1. s \in pending
        BY <3>3, <2>3 DEF HidesFewOnly
      <4>2. want.seq < s /\ s \in Nat
        BY <4>1, <3>3, <2>5 DEF StampOk, HandoverType
      <4> QED BY <4>2, <2>3
    <3>4. rs \in ReadArrays
      BY <3>2, <2>1 DEF ReadArrays
    <3>5. ~host.tools => ReadsOk(rs)
      <4> HIDE DEF blk
      <4>1. blk.seq = want.seq /\ read.block = blk
        BY DEF blk
      <4> HIDE DEF read
      <4> QED BY <4>1, <3>3, <2>4, <2>5, <2>1 DEF ReadsOk, ReadArrays
    <3>6. m \in Seq(MarkRecs) /\ (~host.tools => MarksOk(m))
      BY <2>2, <2>5
    <3> HIDE DEF rs, m
    <3>7. io2 \in Ios
      BY <3>4, <3>5, <3>6, <2>1, <2>4 DEF Ios
    <3> QED BY <3>1, <3>7
  <2> QED BY <2>7, <2>8, <2>9
<1> QED BY <1>1, <1>2

(* So does asking, read by read.                                           *)
LEMMA AskStays ==
  ASSUME HandoverType, ~host.tools => HidesFewOnly,
         NEW io \in Ios, NEW refused
  PROVE  Ask(io, refused) \in Ios
<1> DEFINE W == [i \in 0..Readers |-> Ios]
           F == [i \in 1..Readers |-> [x \in Ios |-> RequestRead(x, i, refused)]]
           Folds(g) == g = [i \in 0..Readers |->
                              IF i = 0 THEN io ELSE RequestRead(g[i - 1], i, refused)]
           ask == CHOOSE g : Folds(g)
<1>0. Readers \in Nat /\ io \in W[0]
  <2>1. Readers \in Nat \ {0}
    BY OccupancyAssumption, Zenon
  <2> QED BY <2>1
<1>1. \A i \in 1..Readers : \A x \in W[i - 1] : F[i][x] \in W[i]
  BY <1>0, RequestReadStays
<1>2. PICK g : IsFold(g, Readers, F, io) /\ Within(g, Readers, W)
  <2> HIDE DEF W, F
  <2> QED BY <1>0, <1>1, FoldExists
<1>3. Folds(g)
  <2>1. \A i \in 1..Readers : i - 1 \in 0..Readers /\ g[i - 1] \in Ios
    BY <1>0, <1>2 DEF Within
  <2>2. \A i \in 1..Readers : F[i][g[i - 1]] = RequestRead(g[i - 1], i, refused)
    BY <2>1
  <2> HIDE DEF F
  <2>3. g = [i \in 0..Readers |-> g[i]]
    BY <1>2 DEF IsFold
  <2>4. \A i \in 0..Readers : g[i] = IF i = 0 THEN io ELSE F[i][g[i - 1]]
    BY <1>2 DEF IsFold
  <2>5. \A i \in 0..Readers : g[i] = IF i = 0 THEN io ELSE RequestRead(g[i - 1], i, refused)
    BY <1>0, <2>2, <2>4
  <2> QED BY <2>3, <2>5
<1>4. Folds(ask)
  BY <1>3
<1>5. ask[0] \in W[0] /\ \A i \in 1..Readers : ask[i - 1] \in W[i - 1] => ask[i] \in W[i]
  <2> HIDE DEF ask
  <2> QED BY <1>0, <1>4, RequestReadStays
<1>6. ask[Readers] \in W[Readers]
  <2> HIDE DEF ask, W
  <2> QED BY <1>0, <1>5, FoldStays
<1>7. Ask(io, refused) = ask[Readers]
  BY DEF Ask
<1> HIDE DEF ask
<1> QED BY <1>0, <1>6, <1>7

-----------------------------------------------------------------------------
(* The jobs of a frame                                                     *)

(* The request that an edit makes of the frame that finds it queued.       *)
EditRequest(s) == [kind |-> "edit", region |-> edits[s].region, bricks |-> {edits[s].brick}]

(* The request that a staged region makes whose slabs are forced.          *)
ForceRequest(r, upto) == [kind |-> "force", region |-> r, bricks |-> FirstSlab(r)..upto[r]]

(* The enumeration of a finite set has each element.                       *)
LEMMA SetToSeqHasAll ==
  ASSUME NEW S, IsFiniteSet(S), NEW x \in S
  PROVE  \E i \in 1..Len(SetToSeq(S)) : SetToSeq(S)[i] = x
<1> DEFINE n == Cardinality(S)
           f == SetToSeq(S)
<1>1. n \in Nat /\ ExistsBijection(1..n, S)
  BY FS_CardinalityType
<1>2. \E g \in [1..n -> S] : IsInjective(g)
  BY <1>1 DEF ExistsBijection, Bijection, Injection
<1>3. f \in [1..n -> S] /\ IsInjective(f)
  BY <1>2 DEF SetToSeq
<1> HIDE DEF f
<1>4. IsFiniteSet(1..n) /\ Cardinality(1..n) = n
  BY <1>1, FS_Interval
<1>5. f \in Injection(1..n, S)
  BY <1>3 DEF Injection
<1>6. f \in Surjection(1..n, S)
  BY <1>4, <1>5, FS_Injection
<1>7. \E i \in 1..n : f[i] = x
  BY <1>6 DEF Surjection
<1>8. Len(f) = n
  BY <1>1, <1>3
<1> QED BY <1>7, <1>8 DEF f

(* The elements of two sequences, in the one that joins them.              *)
Has(z, p) == \A i \in 1..Len(p) : \E j \in 1..Len(z) : z[j] = p[i]

LEMMA JoinHasBoth ==
  ASSUME NEW X, NEW p \in Seq(X), NEW q \in Seq(X), NEW z, z = p \o q
  PROVE  z \in Seq(X) /\ Has(z, p) /\ Has(z, q)
<1>1. /\ z \in Seq(X) /\ Len(z) = Len(p) + Len(q)
      /\ \A i \in 1..Len(p) + Len(q) : z[i] = IF i <= Len(p) THEN p[i] ELSE q[i - Len(p)]
  BY ConcatProperties
<1>2. Len(p) \in Nat /\ Len(q) \in Nat
  BY LenProperties
<1>3. ASSUME NEW i \in 1..Len(p) PROVE \E j \in 1..Len(z) : z[j] = p[i]
  <2>1. i \in 1..Len(z) /\ z[i] = p[i]
    BY <1>1, <1>2
  <2> QED BY <2>1
<1>4. ASSUME NEW i \in 1..Len(q) PROVE \E j \in 1..Len(z) : z[j] = q[i]
  <2>1. Len(p) + i \in 1..Len(z) /\ ~(Len(p) + i <= Len(p)) /\ (Len(p) + i) - Len(p) = i
    BY <1>1, <1>2
  <2>2. z[Len(p) + i] = q[i]
    BY <1>1, <2>1
  <2> QED BY <2>1, <2>2
<1> QED BY <1>1, <1>3, <1>4 DEF Has

(* The requests are of regions that stay or come; each edit of those has   *)
(* its own, and so has each region that comes, and each whose slabs are    *)
(* forced.                                                                 *)
RequestsAreOk(q, kept, ld, staged, upto, es) ==
  /\ q \in Seq(RequestRecs)
  /\ \A i \in DOMAIN q : q[i].region \in kept \cup ld
  /\ \A s \in es : \E i \in DOMAIN q : q[i] = EditRequest(s)
  /\ \A r \in ld : \E i \in DOMAIN q : q[i].region = r
  /\ \A r \in staged : force[r] => \E i \in DOMAIN q : q[i] = ForceRequest(r, upto)

LEMMA RequestsOk ==
  ASSUME HandoverType,
         NEW kept \in SUBSET Regions, NEW ld \in SUBSET Regions, NEW staged \in SUBSET kept,
         NEW upto \in [Regions -> Nat], NEW es \in SUBSET (1..EditSeq),
         \A s \in es : edits[s].region \in kept \cup ld
  PROVE  RequestsAreOk(Requests(kept, ld, staged, upto, es), kept, ld, staged, upto, es)
<1> DEFINE X == {x \in RequestRecs : x.region \in kept \cup ld}
           probe(r) == [kind |-> "probe", region |-> r, bricks |-> Bricks]
           again(r) == [kind |-> "plain", region |-> r, bricks |-> Bricks]
           slabs(r) == [kind |-> IF force[r] \/ r \in forced THEN "force" ELSE "slab",
                        region |-> r, bricks |-> FirstSlab(r)..upto[r]]
           A == {probe(r) : r \in ld}
           B == {again(r) : r \in {q \in forced \cap kept : ~Staged(q)}}
           C == {slabs(r) : r \in staged}
           E == [i \in 1..Cardinality(es) |-> EditRequest(Ascending(es)[i])]
           q == SetToSeq(A) \o SetToSeq(B) \o SetToSeq(C) \o E
<1>1. Requests(kept, ld, staged, upto, es) = q
  BY DEF Requests, EditRequest
<1>2. IsFiniteSet(Regions)
  BY OccupancyAssumption, Zenon
<1>3. Slabs \in Nat
  <2>1. Slabs \in Nat \ {0}
    BY OccupancyAssumption, Zenon
  <2> QED BY <2>1
<1>4. \A r \in kept \cup ld : probe(r) \in X /\ again(r) \in X
  <2>1. Bricks \in SUBSET Nat
    BY <1>3 DEF Bricks
  <2> SUFFICES ASSUME NEW r \in kept \cup ld PROVE probe(r) \in X /\ again(r) \in X
    OBVIOUS
  <2>2. r \in Regions
    OBVIOUS
  <2> QED BY <2>1, <2>2 DEF RequestRecs, Kinds
<1>5. \A r \in staged : slabs(r) \in X
  <2> SUFFICES ASSUME NEW r \in staged PROVE slabs(r) \in X
    OBVIOUS
  <2>1. upto[r] \in Nat /\ FirstSlab(r) \in Nat
    BY DEF FirstSlab, HandoverType
  <2>2. FirstSlab(r)..upto[r] \in SUBSET Nat
    BY <2>1
  <2> QED BY <2>2 DEF RequestRecs, Kinds
<1>6. \A s \in es : EditRequest(s) \in X
  <2> SUFFICES ASSUME NEW s \in es PROVE EditRequest(s) \in X
    OBVIOUS
  <2>1. edits \in Seq([region : Regions, brick : Bricks]) /\ s \in 1..Len(edits)
    BY DEF HandoverType, EditSeq
  <2>2. edits[s] \in [region : Regions, brick : Bricks]
    BY <2>1, ElementOfSeq
  <2>3. edits[s].region \in Regions /\ edits[s].brick \in Nat
    BY <2>2, <1>3 DEF Bricks
  <2> QED BY <2>3 DEF EditRequest, RequestRecs, Kinds
<1>7. IsFiniteSet(A) /\ IsFiniteSet(B) /\ IsFiniteSet(C)
  <2>1. ASSUME NEW S \in SUBSET Regions PROVE IsFiniteSet(S)
    BY <1>2, FS_Subset
  <2>2. A \in SUBSET {probe(r) : r \in Regions}
    OBVIOUS
  <2>3. B \in SUBSET {again(r) : r \in Regions}
    OBVIOUS
  <2>4. C \in SUBSET {slabs(r) : r \in Regions}
    OBVIOUS
  <2>5. ASSUME NEW f, NEW S, f \in Surjection(Regions, S) PROVE IsFiniteSet(S)
    BY <1>2, <2>5, FS_Surjection
  <2>6. IsFiniteSet({probe(r) : r \in Regions})
    <3>1. [r \in Regions |-> probe(r)] \in Surjection(Regions, {probe(r) : r \in Regions})
      BY DEF Surjection
    <3> QED BY <3>1, <2>5
  <2>7. IsFiniteSet({again(r) : r \in Regions})
    <3>1. [r \in Regions |-> again(r)] \in Surjection(Regions, {again(r) : r \in Regions})
      BY DEF Surjection
    <3> QED BY <3>1, <2>5
  <2>8. IsFiniteSet({slabs(r) : r \in Regions})
    <3>1. [r \in Regions |-> slabs(r)] \in Surjection(Regions, {slabs(r) : r \in Regions})
      BY DEF Surjection
    <3> QED BY <3>1, <2>5
  <2> HIDE DEF A, B, C
  <2> QED BY <2>2, <2>3, <2>4, <2>6, <2>7, <2>8, FS_Subset
<1>8. A \subseteq X /\ B \subseteq X /\ C \subseteq X
  <2>1. A \subseteq X
    BY <1>4
  <2>2. B \subseteq X
    BY <1>4
  <2>3. C \subseteq X
    BY <1>5
  <2> QED BY <2>1, <2>2, <2>3
<1>9. /\ \A r \in ld : probe(r) \in A /\ probe(r).region = r
      /\ \A r \in staged : force[r] => ForceRequest(r, upto) \in C
  BY DEF ForceRequest
<1> HIDE DEF A, B, C
<1> DEFINE a == SetToSeq(A)
           b == SetToSeq(B)
           c == SetToSeq(C)
<1>20. a \in Seq(X) /\ b \in Seq(X) /\ c \in Seq(X)
  BY <1>7, <1>8, SetToSeqIsSeq, SeqMonotonic
<1>21. /\ \A x \in A : \E i \in 1..Len(a) : a[i] = x
       /\ \A x \in C : \E i \in 1..Len(c) : c[i] = x
  BY <1>7, SetToSeqHasAll
<1>10. /\ Cardinality(es) \in Nat
       /\ Ascending(es) \in [1..Cardinality(es) -> es]
       /\ \A s \in es : \E i \in 1..Cardinality(es) : Ascending(es)[i] = s
  <2>1. EditSeq \in Nat
    BY DEF HandoverType, EditSeq
  <2>2. IsFiniteSet(1..EditSeq)
    BY <2>1, FS_Interval
  <2>3. es \in SUBSET Nat /\ IsFiniteSet(es)
    <3>1. es \in SUBSET Nat
      BY <2>1
    <3> QED BY <3>1, <2>2, FS_Subset
  <2> QED BY <2>3, AscendingHasAll
<1>11. E \in [1..Cardinality(es) -> X]
  BY <1>6, <1>10
<1>12. E \in Seq(X) /\ Len(E) = Cardinality(es)
  BY <1>10, <1>11, IsASeq
<1>13. \A s \in es : \E i \in 1..Len(E) : E[i] = EditRequest(s)
  <2> SUFFICES ASSUME NEW s \in es PROVE \E i \in 1..Len(E) : E[i] = EditRequest(s)
    OBVIOUS
  <2>1. PICK i \in 1..Cardinality(es) : Ascending(es)[i] = s
    BY <1>10
  <2> QED BY <2>1, <1>12
<1> HIDE DEF E, X, a, b, c
<1> DEFINE ab == a \o b
           P == ab \o c
<1>22. ab \in Seq(X) /\ Has(ab, a)
  <2> HIDE DEF ab
  <2>1. ab = a \o b
    BY DEF ab
  <2> QED BY <1>20, <2>1, JoinHasBoth
<1> HIDE DEF ab
<1>23. P \in Seq(X) /\ Has(P, ab) /\ Has(P, c)
  <2> HIDE DEF P
  <2>1. P = ab \o c
    BY DEF P
  <2> QED BY <1>20, <1>22, <2>1, JoinHasBoth
<1> HIDE DEF P
<1>24. q \in Seq(X) /\ Has(q, P) /\ Has(q, E)
  <2> HIDE DEF q
  <2>1. q = P \o E
    BY DEF q, P, ab, a, b, c
  <2> QED BY <1>12, <1>23, <2>1, JoinHasBoth
<1> HIDE DEF q
<1>26. q \in Seq(X) /\ DOMAIN q = 1..Len(q)
  BY <1>24
<1>27. \A s \in es : \E i \in DOMAIN q : q[i] = EditRequest(s)
  BY <1>13, <1>24, <1>26 DEF Has
<1>28. /\ \A x \in A : \E i \in DOMAIN q : q[i] = x
       /\ \A x \in C : \E i \in DOMAIN q : q[i] = x
  <2>1. \A i \in 1..Len(P) : \E j \in DOMAIN q : q[j] = P[i]
    BY <1>24, <1>26 DEF Has
  <2>2. \A x \in C : \E i \in 1..Len(P) : P[i] = x
    BY <1>21, <1>23 DEF Has
  <2>3. \A x \in A : \E i \in 1..Len(ab) : ab[i] = x
    BY <1>21, <1>22 DEF Has
  <2>4. \A x \in A : \E i \in 1..Len(P) : P[i] = x
    BY <1>23, <2>3 DEF Has
  <2> QED BY <2>1, <2>2, <2>4
<1>29. \A r \in ld : \E i \in DOMAIN q : q[i].region = r
  <2> HIDE DEF probe
  <2> QED BY <1>9, <1>28
<1>30. \A r \in staged : force[r] => \E i \in DOMAIN q : q[i] = ForceRequest(r, upto)
  BY <1>9, <1>28
<1>31. q \in Seq(RequestRecs) /\ \A i \in DOMAIN q : q[i].region \in kept \cup ld
  BY <1>26 DEF X
<1> QED BY <1>1, <1>27, <1>29, <1>30, <1>31 DEF RequestsAreOk

(* What a job leaves a cell at, once all edits of its region are in it.    *)
Full(r, k) == Shown(EditsOf(r), k)

(* A request that has a brick written whatever is there.                   *)
Rewrites(q, r, k) == q.kind \in {"edit", "force", "remark"} /\ q.region = r /\ k \in q.bricks

(* The jobs have every edit there is.                                      *)
AllKnow(jobs) == \A i \in DOMAIN jobs : jobs[i].ops = EditsOf(jobs[i].req.region)

(* What a refused brick hides is among the missed.                         *)
Accounted(c, r, k, m) == c = Unknown \/ \A s \in Full(r, k) : s \in c \/ s \in m

(* What i jobs have made of the atlas.                                     *)
MarkedBy(a, jobs, i) ==
  {b \in AtlasRecs :
     /\ a.missed \subseteq b.missed /\ a.word \subseteq b.word
     /\ AllKnow(jobs) => \A r \in Regions :
          /\ \A k \in Bricks :
               /\ b.gpu[r][k] = a.gpu[r][k] \/ b.gpu[r][k] = Full(r, k)
               /\ \A j \in 1..i : Rewrites(jobs[j].req, r, k) =>
                    \/ b.gpu[r][k] = Full(r, k)
                    \/ b.word # {} /\ Accounted(b.gpu[r][k], r, k, b.missed)
          /\ (\A j \in 1..i : jobs[j].req.region # r) => b.gpu[r] = a.gpu[r]}

(* One job.                                                                *)
LEMMA MarkStays ==
  ASSUME HandoverType, NEW a \in AtlasRecs, NEW jobs \in Seq(JobRecs), NEW i \in 1..Len(jobs),
         NEW b \in MarkedBy(a, jobs, i - 1), NEW denied \in SUBSET Nat, NEW short \in Bits
  PROVE  Mark(b, jobs[i], denied, short) \in MarkedBy(a, jobs, i)
<1> DEFINE j == jobs[i]
           q == j.req.region
           want == Wants(j, b.slots[q])
           lost == want \cap (IF short = "slot" THEN denied \ b.slots[q] ELSE denied)
           cells == [k \in Bricks |-> IF k \in want \ lost THEN Shown(j.ops, k) ELSE b.gpu[q][k]]
           g == [b.gpu EXCEPT ![q] = cells]
           sl == [b.slots EXCEPT ![q] = @ \cup (IF short = "slot" THEN want \ lost ELSE want)]
           w == IF lost = {} THEN b.word ELSE b.word \cup {short}
           new == {s \in j.ops : edits[s].brick \in lost /\ b.gpu[q][edits[s].brick] # Unknown
                                   /\ s \notin b.gpu[q][edits[s].brick]}
           m == b.missed \cup new
           d == [gpu |-> g, slots |-> sl, word |-> w, missed |-> m]
<1>1. /\ j \in JobRecs /\ j.req \in RequestRecs /\ q \in Regions /\ j.ops \in SUBSET Nat
      /\ j.req.bricks \in SUBSET Nat
  <2>1. j \in JobRecs
    BY ElementOfSeq
  <2> QED BY <2>1 DEF JobRecs, RequestRecs
<1>2. /\ b \in AtlasRecs /\ b.gpu \in [Regions -> Cells] /\ b.slots \in [Regions -> SUBSET Nat]
      /\ b.word \in SUBSET Bits /\ b.missed \in SUBSET Nat
      /\ a.missed \subseteq b.missed /\ a.word \subseteq b.word
  BY DEF MarkedBy, AtlasRecs
<1>3. Mark(b, jobs[i], denied, short) = d
  BY DEF Mark
<1> HIDE DEF j, q
<1>4. want \in SUBSET Nat
  BY <1>1 DEF Wants
<1>5. /\ j.req.kind \in {"edit", "force", "remark"} =>
           \A k \in Bricks : k \in j.req.bricks => k \in want
  BY DEF Wants
<1> HIDE DEF want
<1>6. lost \in SUBSET Nat
  BY <1>4
<1>7. cells \in Cells
  <2>1. \A k \in Bricks : Shown(j.ops, k) \in SUBSET Nat /\ b.gpu[q][k] \in (SUBSET Nat) \cup {Unknown}
    BY <1>1, <1>2 DEF Shown, Cells
  <2> HIDE DEF lost
  <2> QED BY <2>1 DEF Cells
<1>8. \A k \in Bricks : cells[k] = IF k \in want \ lost THEN Shown(j.ops, k) ELSE b.gpu[q][k]
  OBVIOUS
<1> HIDE DEF cells
<1>9. g \in [Regions -> Cells] /\ g[q] = cells /\ \A r \in Regions : r # q => g[r] = b.gpu[r]
  BY <1>1, <1>2, <1>7
<1>10. sl \in [Regions -> SUBSET Nat]
  <2> HIDE DEF lost
  <2> QED BY <1>1, <1>2, <1>4
<1>11. w \in SUBSET Bits /\ b.word \subseteq w /\ (lost # {} => w # {})
  <2> HIDE DEF lost
  <2> QED BY <1>2
<1>12. m \in SUBSET Nat /\ b.missed \subseteq m /\ new \subseteq m
  BY <1>1, <1>2
<1> HIDE DEF g, sl, w, m
<1>13. d \in AtlasRecs /\ d.gpu = g /\ d.word = w /\ d.missed = m
  BY <1>9, <1>10, <1>11, <1>12 DEF AtlasRecs
<1> HIDE DEF d
<1>14. a.missed \subseteq d.missed /\ a.word \subseteq d.word
  BY <1>2, <1>11, <1>12, <1>13
<1>15. ASSUME AllKnow(jobs), NEW r \in Regions
       PROVE  /\ \A k \in Bricks :
                   /\ g[r][k] = a.gpu[r][k] \/ g[r][k] = Full(r, k)
                   /\ \A n \in 1..i : Rewrites(jobs[n].req, r, k) =>
                        \/ g[r][k] = Full(r, k)
                        \/ w # {} /\ Accounted(g[r][k], r, k, m)
              /\ (\A n \in 1..i : jobs[n].req.region # r) => g[r] = a.gpu[r]
  <2>1. /\ \A k \in Bricks :
             /\ b.gpu[r][k] = a.gpu[r][k] \/ b.gpu[r][k] = Full(r, k)
             /\ \A n \in 1..(i - 1) : Rewrites(jobs[n].req, r, k) =>
                  \/ b.gpu[r][k] = Full(r, k)
                  \/ b.word # {} /\ Accounted(b.gpu[r][k], r, k, b.missed)
        /\ (\A n \in 1..(i - 1) : jobs[n].req.region # r) => b.gpu[r] = a.gpu[r]
    BY <1>15 DEF MarkedBy
  <2>2. j.ops = EditsOf(q) /\ i \in Nat /\ \A n \in 1..i : n \in 1..(i - 1) \/ n = i
    BY <1>15 DEF AllKnow, j, q
  <2>3. ASSUME NEW k \in Bricks, b.word # {} /\ Accounted(b.gpu[r][k], r, k, b.missed)
        PROVE  w # {} /\ Accounted(b.gpu[r][k], r, k, m)
    BY <2>3, <1>11, <1>12 DEF Accounted
  <2>4. ASSUME r = q, NEW k \in Bricks
        PROVE  /\ g[r][k] = b.gpu[r][k] \/ g[r][k] = Full(r, k)
               /\ Rewrites(j.req, r, k) =>
                    \/ g[r][k] = Full(r, k)
                    \/ w # {} /\ Accounted(g[r][k], r, k, m)
    <3>1. g[r][k] = IF k \in want \ lost THEN Full(r, k) ELSE b.gpu[r][k]
      BY <1>8, <1>9, <2>2, <2>4 DEF Full
    <3>2. ASSUME Rewrites(j.req, r, k), g[r][k] # Full(r, k)
          PROVE  w # {} /\ Accounted(g[r][k], r, k, m)
      <4>1. k \in want
        BY <1>5, <3>2 DEF Rewrites
      <4>2. k \in lost /\ g[r][k] = b.gpu[r][k]
        BY <3>1, <3>2, <4>1
      <4> HIDE DEF lost
      <4>3. w # {}
        BY <1>11, <4>2
      <4>4. ASSUME b.gpu[r][k] # Unknown, NEW s \in Full(r, k), s \notin b.gpu[r][k]
            PROVE  s \in m
        <5>1. s \in EditsOf(q) /\ edits[s].brick = k
          BY <2>4 DEF Full, Shown
        <5>2. s \in new
          BY <2>2, <2>4, <4>2, <4>4, <5>1
        <5> HIDE DEF new
        <5> QED BY <1>12, <5>2
      <4> QED BY <4>2, <4>3, <4>4 DEF Accounted
    <3> QED BY <3>1, <3>2
  <2>5. ASSUME r # q
        PROVE  g[r] = b.gpu[r] /\ \A k : ~Rewrites(j.req, r, k)
    BY <1>9, <2>5 DEF Rewrites, q
  <2>6. ASSUME NEW k \in Bricks
        PROVE  g[r][k] = a.gpu[r][k] \/ g[r][k] = Full(r, k)
    BY <2>1, <2>4, <2>5
  <2>7. ASSUME NEW k \in Bricks, NEW n \in 1..i, Rewrites(jobs[n].req, r, k)
        PROVE  g[r][k] = Full(r, k) \/ (w # {} /\ Accounted(g[r][k], r, k, m))
    <3>1. CASE n = i
      BY <2>4, <2>5, <2>7, <3>1 DEF j
    <3>2. CASE n \in 1..(i - 1)
      <4>1. \/ b.gpu[r][k] = Full(r, k)
            \/ w # {} /\ Accounted(b.gpu[r][k], r, k, m)
        BY <2>1, <2>3, <2>7, <3>2
      <4>2. g[r][k] = b.gpu[r][k] \/ g[r][k] = Full(r, k)
        BY <2>4, <2>5
      <4> QED BY <4>1, <4>2
    <3> QED BY <2>2, <3>1, <3>2
  <2>8. (\A n \in 1..i : jobs[n].req.region # r) => g[r] = a.gpu[r]
    <3> SUFFICES ASSUME \A n \in 1..i : jobs[n].req.region # r PROVE g[r] = a.gpu[r]
      OBVIOUS
    <3>1. r # q /\ \A n \in 1..(i - 1) : jobs[n].req.region # r
      BY <2>2 DEF q, j
    <3> QED BY <3>1, <2>1, <2>5
  <2> QED BY <2>6, <2>7, <2>8
<1>16. d \in MarkedBy(a, jobs, i)
  BY <1>13, <1>14, <1>15 DEF MarkedBy
<1> QED BY <1>3, <1>16 DEF d, j, q

(* All jobs in their order.                                                *)
LEMMA MarksStay ==
  ASSUME HandoverType, NEW a \in AtlasRecs, NEW jobs \in Seq(JobRecs), NEW denied,
         NEW short \in Bits
  PROVE  Marks(a, jobs, denied, short) \in MarkedBy(a, jobs, Len(jobs))
<1> DEFINE n == Len(jobs)
           Of(i) == {k \in Bricks : <<i, k>> \in denied}
           W == [i \in 0..n |-> MarkedBy(a, jobs, i)]
           Step(x, i) == Mark(x, jobs[i], Of(i), short)
           F == [i \in 1..n |-> [x \in MarkedBy(a, jobs, i - 1) |-> Step(x, i)]]
           Folds(g) == g = [i \in 0..n |->
                              IF i = 0 THEN a
                              ELSE Mark(g[i - 1], jobs[i], {k \in Bricks : <<i, k>> \in denied},
                                        short)]
           run == CHOOSE g : Folds(g)
<1>0. n \in Nat /\ a \in W[0]
  <2>1. n \in Nat
    BY LenProperties
  <2>2. a \in MarkedBy(a, jobs, 0)
    BY DEF MarkedBy
  <2> QED BY <2>1, <2>2
<1>1. \A i \in 1..n : \A x \in W[i - 1] : Step(x, i) \in W[i] /\ F[i][x] = Step(x, i)
  <2> SUFFICES ASSUME NEW i \in 1..n, NEW x \in W[i - 1]
               PROVE  Step(x, i) \in W[i] /\ F[i][x] = Step(x, i)
    OBVIOUS
  <2>1. i - 1 \in 0..n /\ i \in 0..n
    BY <1>0
  <2>2. x \in MarkedBy(a, jobs, i - 1)
    BY <2>1
  <2>3. Of(i) \in SUBSET Nat
    <3>1. Slabs \in Nat \ {0}
      BY OccupancyAssumption, Zenon
    <3> QED BY <3>1 DEF Bricks
  <2> HIDE DEF Of
  <2>4. Step(x, i) \in MarkedBy(a, jobs, i)
    BY <2>2, <2>3, MarkStays
  <2> HIDE DEF Step
  <2> QED BY <2>1, <2>2, <2>4
<1> HIDE DEF Step, W, F
<1>2. PICK g : IsFold(g, n, F, a) /\ Within(g, n, W)
  BY <1>0, <1>1, FoldExists
<1>3. Folds(g)
  <2>1. \A i \in 1..n : i - 1 \in 0..n /\ g[i - 1] \in W[i - 1]
    BY <1>0, <1>2 DEF Within
  <2>2. \A i \in 1..n : F[i][g[i - 1]] = Step(g[i - 1], i)
    BY <1>1, <2>1
  <2>3. g = [i \in 0..n |-> g[i]]
    BY <1>2 DEF IsFold
  <2>4. \A i \in 0..n : g[i] = IF i = 0 THEN a ELSE F[i][g[i - 1]]
    BY <1>2 DEF IsFold
  <2>5. \A i \in 0..n : g[i] = IF i = 0 THEN a ELSE Step(g[i - 1], i)
    BY <1>0, <2>2, <2>4
  <2> QED BY <2>3, <2>5 DEF Step
<1>4. Folds(run)
  BY <1>3
<1> HIDE DEF run
<1>5. run[0] \in W[0] /\ \A i \in 1..n : run[i - 1] \in W[i - 1] => run[i] \in W[i]
  <2>1. run[0] = a /\ \A i \in 1..n : run[i] = Step(run[i - 1], i)
    <3>1. \A i \in 0..n : run[i] = IF i = 0 THEN a
                                   ELSE Mark(run[i - 1], jobs[i],
                                             {k \in Bricks : <<i, k>> \in denied}, short)
      BY <1>4, Zenon
    <3>2. \A i \in 0..n : run[i] = IF i = 0 THEN a ELSE Step(run[i - 1], i)
      BY <3>1, Zenon DEF Step
    <3> QED BY <1>0, <3>2
  <2> QED BY <1>0, <1>1, <2>1
<1>6. run[n] \in W[n]
  BY <1>0, <1>5, FoldStays
<1>7. Marks(a, jobs, denied, short) = run[n]
  BY DEF Marks, run
<1> QED BY <1>0, <1>6, <1>7 DEF W

(* The notes of a frame bring the stamps of its jobs.                      *)
LEMMA NotesOk ==
  ASSUME HandoverType, NEW m \in Seq(MarkRecs), NEW jobs \in Seq(JobRecs)
  PROVE  /\ Notes(m, jobs) \in Seq(MarkRecs)
         /\ MarksOk(m) /\ (\A i \in DOMAIN jobs : StampOk(jobs[i].seq)) => MarksOk(Notes(m, jobs))
<1> DEFINE n == Len(jobs)
           Ok == MarksOk(m) /\ \A i \in DOMAIN jobs : StampOk(jobs[i].seq)
           Ms == {x \in Seq(MarkRecs) : Ok => MarksOk(x)}
           W == [i \in 0..n |-> Ms]
           Step(x, i) == IF Noted(jobs[i]) THEN NoteMarked(x, jobs[i].req.region, jobs[i].seq)
                         ELSE x
           F == [i \in 1..n |-> [x \in Ms |-> Step(x, i)]]
           Folds(g) == g = [i \in 0..n |->
                              IF i = 0 THEN m
                              ELSE IF Noted(jobs[i])
                                   THEN NoteMarked(g[i - 1], jobs[i].req.region, jobs[i].seq)
                                   ELSE g[i - 1]]
           note == CHOOSE g : Folds(g)
<1>0. n \in Nat /\ m \in W[0]
  <2>1. n \in Nat
    BY LenProperties
  <2> QED BY <2>1
<1>1. \A i \in 1..n : \A x \in Ms : Step(x, i) \in Ms
  <2> SUFFICES ASSUME NEW i \in 1..n, NEW x \in Ms, Noted(jobs[i])
               PROVE  NoteMarked(x, jobs[i].req.region, jobs[i].seq) \in Ms
    OBVIOUS
  <2>1. jobs[i] \in JobRecs /\ i \in DOMAIN jobs
    BY ElementOfSeq
  <2>2. jobs[i].req.region \in Regions /\ jobs[i].seq \in Nat
    BY <2>1 DEF JobRecs, RequestRecs
  <2> DEFINE y == NoteMarked(x, jobs[i].req.region, jobs[i].seq)
  <2>3. /\ y \in Seq(MarkRecs)
        /\ \A k \in DOMAIN y :
             \/ y[k].seq = jobs[i].seq
             \/ k \in DOMAIN x /\ y[k].seq = x[k].seq
    <3>1. x \in Seq(MarkRecs)
      OBVIOUS
    <3> HIDE DEF Ms
    <3>2. \A a \in Seq(MarkRecs), r \in Regions, s \in Nat :
            /\ NoteMarked(a, r, s) \in Seq(MarkRecs)
            /\ \A k \in DOMAIN NoteMarked(a, r, s) :
                 \/ NoteMarked(a, r, s)[k].seq = s
                 \/ k \in DOMAIN a /\ NoteMarked(a, r, s)[k].seq = a[k].seq
      BY NoteMarkedType, Zenon
    <3> QED BY <2>2, <3>1, <3>2, Zenon
  <2> HIDE DEF y
  <2>4. Ok => MarksOk(y)
    BY <2>1, <2>3 DEF MarksOk
  <2> QED BY <2>3, <2>4 DEF y
<1>2. \A i \in 1..n : \A x \in W[i - 1] : Step(x, i) \in W[i] /\ F[i][x] = Step(x, i)
  <2> HIDE DEF Ms, Step
  <2> QED BY <1>0, <1>1
<1> HIDE DEF Step, W, F
<1>3. PICK g : IsFold(g, n, F, m) /\ Within(g, n, W)
  BY <1>0, <1>2, FoldExists
<1>4. Folds(g)
  <2>1. \A i \in 1..n : i - 1 \in 0..n /\ g[i - 1] \in W[i - 1]
    BY <1>0, <1>3 DEF Within
  <2>2. \A i \in 1..n : F[i][g[i - 1]] = Step(g[i - 1], i)
    BY <1>2, <2>1
  <2>3. g = [i \in 0..n |-> g[i]]
    BY <1>3 DEF IsFold
  <2>4. \A i \in 0..n : g[i] = IF i = 0 THEN m ELSE F[i][g[i - 1]]
    BY <1>3 DEF IsFold
  <2>5. \A i \in 0..n : g[i] = IF i = 0 THEN m ELSE Step(g[i - 1], i)
    BY <1>0, <2>2, <2>4
  <2> QED BY <2>3, <2>5 DEF Step
<1>5. Folds(note)
  BY <1>4
<1> HIDE DEF note
<1>6. note[0] \in W[0] /\ \A i \in 1..n : note[i - 1] \in W[i - 1] => note[i] \in W[i]
  <2>1. note[0] = m /\ \A i \in 1..n : note[i] = Step(note[i - 1], i)
    <3>1. \A i \in 0..n : note[i] = IF i = 0 THEN m ELSE Step(note[i - 1], i)
      BY <1>5, Zenon DEF Step
    <3> QED BY <1>0, <3>1
  <2> QED BY <1>0, <1>2, <2>1
<1>7. note[n] \in W[n]
  BY <1>0, <1>6, FoldStays
<1>8. Notes(m, jobs) = note[n]
  BY DEF Notes, note
<1> QED BY <1>0, <1>7, <1>8 DEF W

-----------------------------------------------------------------------------
(* The grid                                                                *)

Grids == [Regions -> GridRecs \cup {None}]

(* A block of the grid that gives way to h hides nothing it vouched for,   *)
(* refused bricks aside.                                                   *)
KeepsSight(h) ==
  \A r \in Regions : grid[r] # None =>
    /\ h[r] # None /\ h[r].seq >= grid[r].seq
    /\ \A s \in EditsOf(r) \ missed :
         s <= grid[r].seq /\ Shows(grid[r].cells, s) => ~Hides(h[r].cells, s)

(* A block taken in is as new as the one it replaces and shows what its    *)
(* stamp says.                                                             *)
LEMMA SetBlockKeepsSight ==
  ASSUME HandoverType, NEW g \in Grids, NEW b \in BlockRecs
  PROVE  /\ SetBlock(g, b) \in Grids
         /\ Truthful(b) /\ KeepsSight(g) => KeepsSight(SetBlock(g, b))
<1> DEFINE e == [seq |-> b.seq, cells |-> b.cells]
           h == [g EXCEPT ![b.region] = e]
<1>1. CASE g[b.region] # None /\ b.seq < g[b.region].seq
  BY <1>1 DEF SetBlock
<1>2. CASE ~(g[b.region] # None /\ b.seq < g[b.region].seq)
  <2>1. SetBlock(g, b) = h
    BY <1>2 DEF SetBlock
  <2>2. b.region \in Regions /\ b.seq \in Nat /\ b.cells \in Cells
    BY DEF BlockRecs
  <2>3. e \in GridRecs /\ e.seq = b.seq /\ e.cells = b.cells
    BY <2>2 DEF GridRecs
  <2>4. e # None
    BY <2>3, NoneAssumption DEF GridRecs, Cells, Bricks
  <2> HIDE DEF e
  <2>5. h \in Grids /\ h[b.region] = e /\ \A r \in Regions : r # b.region => h[r] = g[r]
    BY <2>2, <2>3 DEF Grids
  <2> HIDE DEF h
  <2>6. ASSUME Truthful(b), KeepsSight(g), NEW r \in Regions, grid[r] # None
        PROVE  /\ h[r] # None /\ h[r].seq >= grid[r].seq
               /\ \A s \in EditsOf(r) \ missed :
                    s <= grid[r].seq /\ Shows(grid[r].cells, s) => ~Hides(h[r].cells, s)
    <3>1. CASE r # b.region
      BY <2>5, <2>6, <3>1 DEF KeepsSight
    <3>2. CASE r = b.region
      <4>1. g[r] # None /\ g[r].seq >= grid[r].seq
        BY <2>6 DEF KeepsSight
      <4>2. g[r] \in GridRecs /\ grid[r] \in GridRecs
        BY <4>1, <2>6 DEF Grids, HandoverType
      <4>3. g[r].seq \in Nat /\ grid[r].seq \in Nat
        BY <4>2 DEF GridRecs
      <4>4. b.seq >= grid[r].seq
        BY <1>2, <3>2, <4>1, <4>3, <2>2
      <4>5. ASSUME NEW s \in EditsOf(r) \ missed, s <= grid[r].seq PROVE ~Hides(b.cells, s)
        <5>1. s \in Nat
          BY DEF EditsOf
        <5>2. s <= b.seq
          BY <4>3, <4>4, <4>5, <5>1, <2>2
        <5> QED BY <5>2, <2>6, <3>2 DEF Truthful
      <4> QED BY <2>3, <2>4, <2>5, <3>2, <4>4, <4>5
    <3> QED BY <3>1, <3>2
  <2> QED BY <2>1, <2>5, <2>6 DEF KeepsSight
<1> QED BY <1>1, <1>2

(* So do all blocks of the inbox, in the order they came.                  *)
LEMMA SetBlocksKeepSight ==
  ASSUME HandoverType, NEW bl \in Seq(BlockRecs)
  PROVE  /\ SetBlocks(grid, bl) \in Grids
         /\ BlocksOk(bl) => KeepsSight(SetBlocks(grid, bl))
<1> DEFINE n == Len(bl)
           Gs == {x \in Grids : BlocksOk(bl) => KeepsSight(x)}
           W == [i \in 0..n |-> Gs]
           Step(x, i) == SetBlock(x, bl[i])
           F == [i \in 1..n |-> [x \in Gs |-> Step(x, i)]]
           Folds(g) == g = [i \in 0..n |-> IF i = 0 THEN grid ELSE SetBlock(g[i - 1], bl[i])]
           fold == CHOOSE g : Folds(g)
<1>0. n \in Nat /\ grid \in Gs
  <2>1. n \in Nat
    BY LenProperties
  <2>2. grid \in Grids
    BY DEF HandoverType, Grids
  <2>3. KeepsSight(grid)
    <3> SUFFICES ASSUME NEW r \in Regions, grid[r] # None PROVE grid[r].seq >= grid[r].seq
      BY DEF KeepsSight, Shows, Hides
    <3>1. grid[r] \in GridRecs
      BY DEF HandoverType
    <3>2. grid[r].seq \in Nat
      BY <3>1 DEF GridRecs
    <3> QED BY <3>2
  <2> QED BY <2>1, <2>2, <2>3
<1>1. \A i \in 1..n : \A x \in Gs : Step(x, i) \in Gs
  <2> SUFFICES ASSUME NEW i \in 1..n, NEW x \in Gs PROVE Step(x, i) \in Gs
    OBVIOUS
  <2>1. bl[i] \in BlockRecs /\ i \in DOMAIN bl
    BY ElementOfSeq
  <2>2. BlocksOk(bl) => Truthful(bl[i])
    BY <2>1 DEF BlocksOk
  <2> QED BY <2>1, <2>2, SetBlockKeepsSight
<1>2. W[0] = Gs /\ \A i \in 1..n : \A x \in W[i - 1] : Step(x, i) \in W[i] /\ F[i][x] = Step(x, i)
  <2> HIDE DEF Gs, Step
  <2> QED BY <1>0, <1>1
<1>3. grid \in W[0]
  BY <1>0, <1>2
<1> HIDE DEF Step, W, F
<1>4. PICK g : IsFold(g, n, F, grid) /\ Within(g, n, W)
  BY <1>0, <1>2, <1>3, FoldExists
<1>5. Folds(g)
  <2>1. \A i \in 1..n : i - 1 \in 0..n /\ g[i - 1] \in W[i - 1]
    BY <1>0, <1>4 DEF Within
  <2>2. \A i \in 1..n : F[i][g[i - 1]] = Step(g[i - 1], i)
    BY <1>2, <2>1
  <2>3. g = [i \in 0..n |-> g[i]]
    BY <1>4 DEF IsFold
  <2>4. \A i \in 0..n : g[i] = IF i = 0 THEN grid ELSE F[i][g[i - 1]]
    BY <1>4 DEF IsFold
  <2>5. \A i \in 0..n : g[i] = IF i = 0 THEN grid ELSE Step(g[i - 1], i)
    BY <1>0, <2>2, <2>4
  <2> QED BY <2>3, <2>5 DEF Step
<1>6. Folds(fold)
  BY <1>5
<1> HIDE DEF fold
<1>7. fold[0] \in W[0] /\ \A i \in 1..n : fold[i - 1] \in W[i - 1] => fold[i] \in W[i]
  <2>1. fold[0] = grid /\ \A i \in 1..n : fold[i] = Step(fold[i - 1], i)
    <3>1. \A i \in 0..n : fold[i] = IF i = 0 THEN grid ELSE Step(fold[i - 1], i)
      BY <1>6, Zenon DEF Step
    <3> QED BY <1>0, <3>1
  <2> QED BY <1>2, <1>3, <2>1
<1>8. fold[n] \in W[n]
  BY <1>0, <1>7, FoldStays
<1>9. SetBlocks(grid, bl) = fold[n]
  BY DEF SetBlocks, fold
<1> QED BY <1>0, <1>8, <1>9 DEF W

-----------------------------------------------------------------------------
(* The invariant                                                           *)

(* A job has no operation but those of its region up to its stamp, and all *)
(* of those, or it marks again and the rest is queued.                     *)
JobsAreWhole ==
  frame # None => \A i \in DOMAIN frame.jobs :
    LET j == frame.jobs[i]
    IN  /\ j.seq <= EditSeq
        /\ \A s \in j.ops : s \in 1..j.seq /\ edits[s].region = j.req.region
        /\ \A s \in 1..j.seq : edits[s].region = j.req.region =>
             s \in j.ops \/ (j.req.kind = "remark" /\ s \in pending)

(* The pool has what is not queued for the streamer, or the frame has a    *)
(* request still that uploads the list; and a frame repairs regions that   *)
(* stay.                                                                   *)
Uploads(r) == frame # None /\ \E i \in DOMAIN frame.todo : frame.todo[i].region = r
PoolIsWhole ==
  /\ \A r \in Regions : uploaded[r] \subseteq EditsOf(r)
  /\ \A r \in resident : Uploads(r) \/ \A s \in EditsOf(r) : s \in uploaded[r] \/ s \in pending
  /\ frame # None => frame.remarks \subseteq resident

(* Of a brick that hides an edit there is word, its region waits for       *)
(* repair, or it is of a slab that comes by force.                         *)
Heard(r, k) ==
  \/ word # {}
  \/ telling # {}
  \/ r \in repair
  \/ Staged(r) /\ force[r] /\ k > slab[r]

(* Between two frames.                                                     *)
Between ==
  /\ HidesFewOnly
  /\ \A r \in resident : \A s \in EditsOf(r) :
       Hides(gpu[r], s) => s \in pending \/ Heard(r, edits[s].brick)
  /\ \A r \in Regions \ resident : gpu[r] = Blank

(* The frame has the brick written, whatever is there.                     *)
ToCome(r, k) ==
  \/ \E i \in DOMAIN frame.todo : Rewrites(frame.todo[i], r, k)
  \/ r \in frame.remarks
  \/ \E i \in DOMAIN frame.jobs : Rewrites(frame.jobs[i].req, r, k)

(* Inside a frame: the queue is taken, no edit comes, and what the GPU     *)
(* still hides has its job, but for refused bricks; and those have a job   *)
(* or are known of.                                                        *)
Inside ==
  /\ pending = {}
  /\ \A i \in DOMAIN frame.todo : frame.todo[i].region \in resident
  /\ \A i \in DOMAIN frame.jobs :
       frame.jobs[i].req.region \in resident /\ frame.jobs[i].seq = EditSeq
  /\ \A r \in Regions \ resident : r \in frame.evicts \/ gpu[r] = Blank
  /\ \A r \in Regions \ frame.evicts : \A s \in EditsOf(r) : Hides(gpu[r], s) =>
       /\ s \in missed \/ ToCome(r, edits[s].brick)
       /\ Heard(r, edits[s].brick) \/ ToCome(r, edits[s].brick)

StampsOk == MarksOk(marked) /\ ReadsOk(reads) /\ BlocksOk(inbox)

HandoverInv ==
  /\ HandoverType
  /\ JobsAreWhole
  /\ PoolIsWhole
  /\ ~host.tools => /\ StampsOk
                    /\ frame = None => Between
                    /\ frame # None => Inside

(* Nothing is hidden where no edit was made.                               *)
LEMMA HandoverInvInit == Init => HandoverInv
<1> SUFFICES ASSUME Init PROVE HandoverInv
  OBVIOUS
<1>1. Slabs \in Nat /\ Readers \in Nat
  <2>1. Slabs \in Nat \ {0} /\ Readers \in Nat \ {0}
    BY OccupancyAssumption, Zenon
  <2> QED BY <2>1
<1>2. edits = <<>> /\ EditSeq = 0 /\ EditSeq \in Nat
  BY DEF Init, EditSeq
<1>3. [k \in Bricks |-> {}] \in Cells
  BY DEF Cells
<1>4. HandoverType
  <2>1. gpu \in [Regions -> Cells] /\ slab \in [Regions -> Nat] /\ force \in [Regions -> BOOLEAN]
        /\ slots \in [Regions -> SUBSET Nat] /\ uploaded \in [Regions -> SUBSET Nat]
        /\ word \subseteq Bits /\ missed \subseteq Nat
    BY <1>1, <1>3 DEF Init, Bricks
  <2>2. grid \in [Regions -> GridRecs \cup {None}]
    BY <1>3 DEF Init, GridRecs
  <2>3. reads \in ReadArrays /\ marked \in Seq(MarkRecs) /\ inbox \in Seq(BlockRecs)
        /\ windows \in Seq(WindowRecs) /\ edits \in Seq([region : Regions, brick : Bricks])
    BY DEF Init, ReadArrays
  <2>4. pending \subseteq 1..EditSeq /\ forced \subseteq Regions /\ resident \subseteq Regions
        /\ frame \in Frames \cup {None} /\ extraction \in Extractions \cup {None} /\ host \in Hosts
    BY DEF Init
  <2> QED BY <2>1, <2>2, <2>3, <2>4 DEF HandoverType
<1>5. \A r \in Regions : EditsOf(r) = {}
  BY <1>2 DEF EditsOf
<1>6. Between
  BY <1>5 DEF Init, Between, HidesFewOnly
<1>8. PoolIsWhole
  BY <1>5 DEF Init, PoolIsWhole
<1>7. StampsOk
  BY DEF Init, StampsOk, MarksOk, ReadsOk, BlocksOk
<1> QED BY <1>4, <1>6, <1>7, <1>8 DEF HandoverInv, JobsAreWhole, Init

(* What happens beside edits, frames and reads leaves it alone.            *)
LEMMA AsideKeepsInv ==
  ASSUME HandoverInv, HandoverType',
         UNCHANGED <<edits, pending, resident, slab, force, gpu, recoveryVars, frame, marked,
                     reads, host>>,
         inbox' = inbox \/ inbox' = <<>>
  PROVE  HandoverInv'
<1> USE DEF EditSeq, EditsOf, recoveryVars
<1>1. JobsAreWhole' /\ PoolIsWhole'
  <2>1. JobsAreWhole'
    BY DEF HandoverInv, JobsAreWhole
  <2>2. PoolIsWhole'
    BY DEF HandoverInv, PoolIsWhole, Uploads
  <2> QED BY <2>1, <2>2
<1>2. ~host.tools => StampsOk'
  <2>1. ~host.tools => MarksOk(marked)'
    BY DEF HandoverInv, StampsOk, MarksOk, StampOk
  <2>2. ~host.tools => ReadsOk(reads)'
    BY DEF HandoverInv, StampsOk, ReadsOk, StampOk, Truthful, Hides
  <2>3. ~host.tools => BlocksOk(inbox)'
    BY DEF HandoverInv, StampsOk, BlocksOk, StampOk, Truthful, Hides
  <2> QED BY <2>1, <2>2, <2>3 DEF StampsOk
<1>5. /\ \A q, s : Hides(gpu[q], s)' <=> Hides(gpu[q], s)
      /\ \A q, k : Heard(q, k)' <=> Heard(q, k)
      /\ \A q, k : ToCome(q, k)' <=> ToCome(q, k)
      /\ Blank' = Blank
  BY DEF Hides, Heard, Staged, ToCome, Rewrites, Blank, Bricks
<1>3. ~host.tools /\ frame = None => Between'
  BY <1>5 DEF HandoverInv, Between, HidesFewOnly
<1>4. ~host.tools /\ frame # None => Inside'
  <2> SUFFICES ASSUME ~host.tools, frame # None PROVE Inside'
    OBVIOUS
  <2>1. Inside
    BY DEF HandoverInv
  <2> QED BY <1>5, <2>1 DEF Inside
<1> QED BY <1>1, <1>2, <1>3, <1>4 DEF HandoverInv

(* What an accepted edit changes.                                          *)
LEMMA AcceptFacts ==
  ASSUME HandoverType, NEW r \in Regions, NEW k \in Bricks, Accept(r, k)
  PROVE  /\ EditSeq \in Nat /\ EditSeq' = EditSeq + 1
         /\ edits' \in Seq([region : Regions, brick : Bricks])
         /\ \A s \in 1..EditSeq : edits'[s] = edits[s]
         /\ pending' = pending \cup {EditSeq + 1}
         /\ pending' \subseteq 1..EditSeq'
<1> DEFINE e == [region |-> r, brick |-> k]
<1>1. edits \in Seq([region : Regions, brick : Bricks]) /\ pending \subseteq 1..EditSeq
  BY DEF HandoverType
<1>2. edits' = Append(edits, e) /\ pending' = pending \cup {EditSeq + 1}
  BY DEF Accept
<1>3. EditSeq \in Nat
  BY <1>1 DEF EditSeq
<1>4. /\ edits' \in Seq([region : Regions, brick : Bricks])
      /\ Len(edits') = Len(edits) + 1
      /\ \A s \in 1..Len(edits) : edits'[s] = edits[s]
  <2>1. e \in [region : Regions, brick : Bricks]
    OBVIOUS
  <2> HIDE DEF e
  <2> QED BY <1>1, <1>2, <2>1, AppendProperties
<1>5. EditSeq' = EditSeq + 1
  BY <1>4 DEF EditSeq
<1>6. pending' \subseteq 1..EditSeq'
  BY <1>1, <1>2, <1>3, <1>5
<1> QED BY <1>2, <1>3, <1>4, <1>5, <1>6 DEF EditSeq

(* An edit is queued with a number that no stamp has reached.              *)
LEMMA AcceptKeepsInv ==
  ASSUME HandoverInv, LockFree, NEW r \in Regions, NEW k \in Bricks, Accept(r, k),
         HandoverType',
         UNCHANGED <<resident, slab, force, gpu, recoveryVars, frame, marked, reads, inbox,
                     host>>
  PROVE  HandoverInv'
<1>1. /\ EditSeq \in Nat /\ EditSeq' = EditSeq + 1
      /\ \A s \in 1..EditSeq : edits'[s] = edits[s]
      /\ pending' = pending \cup {EditSeq + 1}
      /\ pending \subseteq 1..EditSeq
  BY AcceptFacts DEF HandoverInv, HandoverType
<1>2. JobsAreWhole'
  <2> SUFFICES ASSUME frame # None, NEW i \in DOMAIN frame.jobs
               PROVE  LET j == frame.jobs[i]
                      IN  /\ j.seq <= EditSeq'
                          /\ \A s \in j.ops : s \in 1..j.seq /\ edits'[s].region = j.req.region
                          /\ \A s \in 1..j.seq : edits'[s].region = j.req.region =>
                               s \in j.ops \/ (j.req.kind = "remark" /\ s \in pending')
    BY DEF JobsAreWhole
  <2>1. frame.jobs \in Seq(JobRecs)
    BY DEF HandoverInv, HandoverType, Frames
  <2>2. frame.jobs[i] \in JobRecs
    BY <2>1
  <2> DEFINE j == frame.jobs[i]
  <2>3. j.seq \in Nat
    BY <2>2 DEF JobRecs
  <2>4. /\ j.seq <= EditSeq
        /\ \A s \in j.ops : s \in 1..j.seq /\ edits[s].region = j.req.region
        /\ \A s \in 1..j.seq : edits[s].region = j.req.region =>
             s \in j.ops \/ (j.req.kind = "remark" /\ s \in pending)
    BY DEF HandoverInv, JobsAreWhole
  <2> HIDE DEF j
  <2>5. \A s \in 1..j.seq : edits'[s] = edits[s]
    BY <1>1, <2>3, <2>4
  <2>6. /\ j.seq <= EditSeq'
        /\ \A s \in j.ops : s \in 1..j.seq /\ edits'[s].region = j.req.region
        /\ \A s \in 1..j.seq : edits'[s].region = j.req.region =>
             s \in j.ops \/ (j.req.kind = "remark" /\ s \in pending')
    <3>1. j.seq <= EditSeq'
      BY <1>1, <2>3, <2>4
    <3> QED BY <1>1, <2>4, <2>5, <3>1
  <2> QED BY <2>6 DEF j
<1>7. PoolIsWhole'
  <2>1. PoolIsWhole
    BY DEF HandoverInv
  <2>2. ASSUME NEW q, NEW s \in EditsOf(q)' PROVE s = EditSeq + 1 \/ s \in EditsOf(q)
    <3>1. s \in 1..EditSeq' /\ edits'[s].region = q
      BY DEF EditsOf
    <3>2. s = EditSeq + 1 \/ s \in 1..EditSeq
      BY <1>1, <3>1
    <3> QED BY <1>1, <3>1, <3>2 DEF EditsOf
  <2>3. ASSUME NEW q PROVE EditsOf(q) \subseteq EditsOf(q)'
    BY <1>1 DEF EditsOf
  <2>4. ASSUME NEW q PROVE Uploads(q)' <=> Uploads(q)
    BY DEF Uploads
  <2> QED BY <1>1, <2>1, <2>2, <2>3, <2>4 DEF PoolIsWhole, recoveryVars
<1>3. ASSUME NEW n \in Nat, StampOk(n) PROVE StampOk(n)'
  BY <1>1, <1>3 DEF StampOk
<1>4. ASSUME NEW b \in BlockRecs, b.seq <= EditSeq, Truthful(b)
      PROVE  b.seq <= EditSeq' /\ Truthful(b)'
  <2>1. b.seq \in Nat
    BY DEF BlockRecs
  <2>2. b.seq <= EditSeq'
    BY <1>1, <1>4, <2>1
  <2>3. ASSUME NEW s \in 1..EditSeq', edits'[s].region = b.region, s <= b.seq
        PROVE  ~Hides(b.cells, s)' \/ s \in missed
    <3>1. s \in 1..EditSeq /\ edits'[s] = edits[s]
      BY <1>1, <1>4, <2>1, <2>3
    <3>2. s \in EditsOf(b.region)
      BY <2>3, <3>1 DEF EditsOf
    <3>3. ~Hides(b.cells, s) \/ s \in missed
      BY <1>4, <2>3, <3>2 DEF Truthful
    <3> QED BY <3>1, <3>3 DEF Hides
  <2>4. Truthful(b)'
    BY <2>3 DEF Truthful, EditsOf, recoveryVars
  <2> QED BY <2>2, <2>4
<1>5. ASSUME ~host.tools PROVE StampsOk'
  <2>1. StampsOk /\ marked \in Seq(MarkRecs) /\ reads \in ReadArrays /\ inbox \in Seq(BlockRecs)
    BY <1>5 DEF HandoverInv, HandoverType
  <2>2. MarksOk(marked)'
    <3> SUFFICES ASSUME NEW i \in DOMAIN marked PROVE StampOk(marked[i].seq)'
      BY DEF MarksOk
    <3>1. PICK n \in Nat : n = marked[i].seq
      <4>1. marked[i] \in MarkRecs
        BY <2>1
      <4> QED BY <4>1 DEF MarkRecs
    <3>2. StampOk(n)
      BY <2>1, <3>1 DEF StampsOk, MarksOk
    <3>3. StampOk(n)'
      BY <1>3, <3>2
    <3> QED BY <3>1, <3>3 DEF StampOk
  <2>3. ReadsOk(reads)'
    <3> SUFFICES ASSUME NEW i \in 1..Readers, reads[i] # None
                 PROVE  StampOk(reads[i].block.seq)' /\ Truthful(reads[i].block)'
      BY DEF ReadsOk
    <3>1. PICK b \in BlockRecs : b = reads[i].block
      BY <2>1 DEF ReadArrays, ReadRecs
    <3>2. StampOk(b.seq) /\ Truthful(b) /\ b.seq \in Nat
      BY <2>1, <3>1 DEF StampsOk, ReadsOk, BlockRecs
    <3>3. StampOk(b.seq)' /\ Truthful(b)'
      BY <1>3, <1>4, <3>2 DEF StampOk
    <3> QED BY <3>1, <3>3 DEF StampOk, Truthful, Hides, recoveryVars
  <2>4. BlocksOk(inbox)'
    <3> SUFFICES ASSUME NEW i \in DOMAIN inbox
                 PROVE  inbox[i].seq <= EditSeq' /\ Truthful(inbox[i])'
      BY DEF BlocksOk
    <3>1. PICK b \in BlockRecs : b = inbox[i]
      BY <2>1
    <3>2. b.seq <= EditSeq /\ Truthful(b)
      BY <2>1, <3>1 DEF StampsOk, BlocksOk
    <3>3. b.seq <= EditSeq' /\ Truthful(b)'
      BY <1>4, <3>2
    <3> QED BY <3>1, <3>3 DEF Truthful, Hides, recoveryVars
  <2> QED BY <2>2, <2>3, <2>4 DEF StampsOk
<1>6. ASSUME ~host.tools PROVE frame = None /\ Between'
  <2>1. frame = None /\ Between
    BY <1>6 DEF HandoverInv, LockFree
  <2>5. \A q, b : Heard(q, b)' <=> Heard(q, b)
    BY DEF Heard, Staged, recoveryVars
  <2>2. ASSUME NEW q \in Regions, NEW s \in 1..EditSeq', edits'[s].region = q, Hides(gpu[q], s)',
               NEW b, edits'[s].brick = b
        PROVE  /\ s \in pending' \/ s \in missed
               /\ q \in resident => s \in pending' \/ Heard(q, b)'
    <3>1. CASE s = EditSeq + 1
      BY <1>1, <3>1
    <3>2. CASE s # EditSeq + 1
      <4>1. s \in 1..EditSeq /\ edits'[s] = edits[s]
        BY <1>1, <3>2
      <4>2. s \in EditsOf(q) /\ Hides(gpu[q], s)
        BY <2>2, <4>1 DEF EditsOf, Hides
      <4>3. s \in pending \/ s \in missed
        BY <2>1, <4>2 DEF Between, HidesFewOnly
      <4>5. edits[s].brick = b /\ (s \in pending => s \in pending')
        BY <2>2, <4>1, <1>1
      <4>4. q \in resident => s \in pending \/ Heard(q, b)
        BY <2>1, <4>2, <4>5 DEF Between
      <4> QED BY <2>5, <4>3, <4>4, <4>5
    <3> QED BY <3>1, <3>2
  <2>3. HidesFewOnly'
    BY <2>2 DEF HidesFewOnly, EditsOf, recoveryVars
  <2>4. (\A q \in resident : \A s \in EditsOf(q) :
           Hides(gpu[q], s) => s \in pending \/ Heard(q, edits[s].brick))'
    <3> SUFFICES ASSUME NEW q \in resident', NEW s \in EditsOf(q)', Hides(gpu[q], s)'
                 PROVE  (s \in pending \/ Heard(q, edits[s].brick))'
      OBVIOUS
    <3>1. q \in Regions /\ q \in resident
      BY DEF HandoverInv, HandoverType
    <3>2. s \in 1..EditSeq' /\ edits'[s].region = q
      BY DEF EditsOf
    <3>3. PICK b : edits'[s].brick = b
      OBVIOUS
    <3>4. s \in pending' \/ Heard(q, b)'
      BY <2>2, <3>1, <3>2, <3>3
    <3> QED BY <3>3, <3>4 DEF Heard, Staged
  <2> QED BY <2>1, <2>3, <2>4 DEF Between, Blank, Bricks
<1> QED BY <1>2, <1>5, <1>6, <1>7 DEF HandoverInv

-----------------------------------------------------------------------------
(* The steps                                                               *)

(* A window that joins another or comes last.                              *)
LEMMA NoteEditType ==
  ASSUME NEW ws \in Seq(WindowRecs), NEW w \in WindowRecs
  PROVE  NoteEdit(ws, w) \in Seq(WindowRecs)
<1>1. CASE \E i \in DOMAIN ws : ws[i].region = w.region /\ ws[i].brick = w.brick
  <2> DEFINE n == [i \in DOMAIN ws |->
                     IF ws[i].region = w.region /\ ws[i].brick = w.brick
                     THEN [ws[i] EXCEPT !.seq = w.seq] ELSE ws[i]]
  <2>1. NoteEdit(ws, w) = n
    BY <1>1 DEF NoteEdit
  <2>2. ASSUME NEW i \in DOMAIN ws PROVE n[i] \in WindowRecs
    <3>1. ws[i] \in WindowRecs
      OBVIOUS
    <3> QED BY <3>1 DEF WindowRecs
  <2>3. DOMAIN ws = 1..Len(ws) /\ Len(ws) \in Nat /\ n = [i \in DOMAIN ws |-> n[i]]
    OBVIOUS
  <2> HIDE DEF n
  <2>4. n \in [1..Len(ws) -> WindowRecs]
    BY <2>2, <2>3
  <2> QED BY <2>1, <2>3, <2>4, IsASeq
<1>2. CASE ~\E i \in DOMAIN ws : ws[i].region = w.region /\ ws[i].brick = w.brick
  BY <1>2, AppendProperties DEF NoteEdit
<1> QED BY <1>1, <1>2

(* A new edit is newer than every stamp, and queued.                       *)
LEMMA EditKeepsInv ==
  ASSUME HandoverInv, NEW r \in Regions, NEW k \in Bricks, Edit(r, k)
  PROVE  HandoverInv'
<1>1. LockFree /\ Accept(r, k) /\ UNCHANGED <<forced, grid, extraction>>
      /\ UNCHANGED <<resident, slab, force, gpu, recoveryVars, frame, marked, reads, inbox, host>>
  BY DEF Edit
<1>2. HandoverType
  BY DEF HandoverInv
<1>3. EditSeq \in Nat /\ edits' \in Seq([region : Regions, brick : Bricks])
      /\ pending' \subseteq 1..EditSeq'
  BY <1>1, <1>2, AcceptFacts
<1>4. windows' \in Seq(WindowRecs)
  <2>1. [region |-> r, brick |-> k, seq |-> EditSeq + 1] \in WindowRecs
    BY <1>3 DEF WindowRecs
  <2> QED BY <2>1, <1>2, NoteEditType DEF Edit, HandoverType
<1>5. HandoverType'
  BY <1>1, <1>2, <1>3, <1>4 DEF HandoverType, recoveryVars
<1> QED BY <1>1, <1>5, AcceptKeepsInv

(* A bake that is published queues its region and hides nothing.           *)
LEMMA RegenKeepsInv ==
  ASSUME HandoverInv, NEW r \in Regions, QueueRegeneration(r)
  PROVE  HandoverInv'
<1>1. UNCHANGED <<edits, pending, resident, slab, force, gpu, recoveryVars, frame, marked, reads,
                  host, inbox, grid, windows, extraction>> /\ forced' = forced \cup {r}
  BY DEF QueueRegeneration, mainVars
<1>2. HandoverType'
  BY <1>1 DEF HandoverInv, HandoverType, EditSeq, recoveryVars
<1> QED BY <1>1, <1>2, AsideKeepsInv

(* A read that lands changes neither its bytes nor its stamp.              *)
LEMMA LandKeepsInv ==
  ASSUME HandoverInv, NEW i \in 1..Readers, NEW short \in BOOLEAN, Land(i, short)
  PROVE  HandoverInv'
<1>1. /\ reads[i] # None
      /\ reads' = [reads EXCEPT ![i].landed = TRUE, ![i].short = short]
      /\ UNCHANGED <<edits, pending, forced, resident, slab, force, gpu, frame, marked, host,
                     inbox, grid, windows, extraction>>
      /\ UNCHANGED <<slots, uploaded, word, telling, repair, regen, missed>>
  BY DEF Land, mainVars, recoveryVars
<1>2. reads[i] \in ReadRecs /\ reads \in ReadArrays
  BY <1>1 DEF HandoverInv, HandoverType, ReadArrays
<1> DEFINE rd == [reads[i] EXCEPT !.landed = TRUE, !.short = short]
<1>3. rd \in ReadRecs /\ rd.block = reads[i].block
  BY <1>2 DEF ReadRecs
<1>4. reads' = [reads EXCEPT ![i] = rd]
  BY <1>1, <1>2 DEF ReadRecs, ReadArrays
<1> HIDE DEF rd
<1>5. reads' \in ReadArrays /\ \A j \in 1..Readers : reads'[j] = IF j = i THEN rd ELSE reads[j]
  BY <1>2, <1>3, <1>4 DEF ReadArrays
<1>6. HandoverType'
  BY <1>1, <1>5 DEF HandoverInv, HandoverType, EditSeq
<1>7. JobsAreWhole' /\ PoolIsWhole'
  <2>1. JobsAreWhole'
    BY <1>1 DEF HandoverInv, JobsAreWhole, EditSeq
  <2>2. PoolIsWhole'
    BY <1>1 DEF HandoverInv, PoolIsWhole, Uploads, EditsOf, EditSeq
  <2> QED BY <2>1, <2>2
<1>8. ASSUME ~host.tools PROVE StampsOk'
  <2>1. MarksOk(marked)'
    BY <1>1, <1>8 DEF HandoverInv, StampsOk, MarksOk, StampOk, EditSeq
  <2>2. BlocksOk(inbox)'
    BY <1>1, <1>8 DEF HandoverInv, StampsOk, BlocksOk, Truthful, Hides, EditsOf, EditSeq
  <2>3. \A j \in 1..Readers : reads'[j] # None =>
          reads[j] # None /\ reads'[j].block = reads[j].block
    BY <1>1, <1>3, <1>5
  <2>4. ReadsOk(reads)
    BY <1>8 DEF HandoverInv, StampsOk
  <2>5. ASSUME NEW j \in 1..Readers, reads'[j] # None
        PROVE  StampOk(reads[j].block.seq)' /\ Truthful(reads[j].block)'
    <3>1. StampOk(reads[j].block.seq) /\ Truthful(reads[j].block)
      BY <2>3, <2>4, <2>5 DEF ReadsOk
    <3>2. reads'[j].block = reads[j].block
      BY <2>3, <2>5
    <3> QED BY <1>1, <3>1, <3>2 DEF StampOk, Truthful, Hides, EditsOf, EditSeq
  <2>6. ReadsOk(reads)'
    BY <2>5 DEF ReadsOk
  <2> QED BY <2>1, <2>2, <2>6 DEF StampsOk
<1>9. frame = None
  BY DEF Land
<1>10. ~host.tools => Between'
  <2>1. /\ \A q, s : Hides(gpu[q], s)' <=> Hides(gpu[q], s)
        /\ \A q, k : Heard(q, k)' <=> Heard(q, k)
        /\ \A q : EditsOf(q)' = EditsOf(q)
        /\ Blank' = Blank
    BY <1>1 DEF Hides, Heard, Staged, Blank, Bricks, EditsOf, EditSeq
  <2> QED BY <1>1, <1>9, <2>1 DEF HandoverInv, Between, HidesFewOnly
<1> QED BY <1>1, <1>6, <1>7, <1>8, <1>9, <1>10 DEF HandoverInv

(* What the grid takes from the inbox was truthful there.                  *)
LEMMA DrainKeepsInv ==
  ASSUME HandoverInv, NEW dropped \in SUBSET Regions, DrainOccupancy(dropped)
  PROVE  HandoverInv'
<1>1. UNCHANGED <<edits, pending, forced, resident, slab, force, gpu, recoveryVars, frame, marked,
                  reads, host, windows, extraction>> /\ inbox' = <<>>
      /\ grid' = [r \in Regions |-> IF r \in dropped THEN None ELSE SetBlocks(grid, inbox)[r]]
  BY DEF DrainOccupancy, streamVars
<1>2. SetBlocks(grid, inbox) \in Grids
  BY SetBlocksKeepSight DEF HandoverInv, HandoverType
<1>3. grid' \in [Regions -> GridRecs \cup {None}]
  BY <1>1, <1>2 DEF Grids
<1>4. HandoverType'
  BY <1>1, <1>3 DEF HandoverInv, HandoverType, EditSeq, recoveryVars
<1> QED BY <1>1, <1>4, AsideKeepsInv

(* A search takes a window away and no more.                               *)
LEMMA SearchKeepsInv ==
  ASSUME HandoverInv, NEW found \in BOOLEAN, Search(found)
  PROVE  HandoverInv'
<1>1. UNCHANGED <<edits, pending, forced, resident, slab, force, gpu, recoveryVars, frame, marked,
                  reads, host, inbox, grid>> /\ windows # <<>> /\ windows' = Tail(windows)
      /\ extraction' = IF found THEN [window |-> Head(windows), seq |-> EditSeq] ELSE None
  BY DEF Search, streamVars
<1>2. HandoverType
  BY DEF HandoverInv
<1>3. Head(windows) \in WindowRecs /\ Tail(windows) \in Seq(WindowRecs) /\ EditSeq \in Nat
  BY <1>1, <1>2 DEF HandoverType, EditSeq
<1>4. windows' \in Seq(WindowRecs) /\ extraction' \in Extractions \cup {None}
  BY <1>1, <1>3 DEF Extractions
<1>5. HandoverType'
  BY <1>1, <1>2, <1>4 DEF HandoverType, EditSeq, recoveryVars
<1> QED BY <1>1, <1>5, AsideKeepsInv

(* A carve writes what all edits of its brick make of it.                  *)
LEMMA SetCellKeepsSight ==
  ASSUME HandoverType, NEW r \in Regions, NEW k \in Bricks
  PROVE  LET h == SetCell(grid, r, k, Shown(EditsOf(r), k) \cup {EditSeq + 1}, EditSeq + 1)
         IN  h \in Grids /\ KeepsSight(h)
<1> DEFINE old == IF grid[r] = None THEN [seq |-> 0, cells |-> Blank] ELSE grid[r]
           c == Shown(EditsOf(r), k) \cup {EditSeq + 1}
           e == [seq   |-> IF EditSeq + 1 > old.seq THEN EditSeq + 1 ELSE old.seq,
                 cells |-> [old.cells EXCEPT ![k] = c]]
           h == [grid EXCEPT ![r] = e]
<1>1. SetCell(grid, r, k, c, EditSeq + 1) = h
  BY DEF SetCell
<1>2. EditSeq \in Nat
  BY DEF HandoverType, EditSeq
<1>3. old \in GridRecs /\ (grid[r] # None => old = grid[r])
  <2>1. Blank \in Cells
    BY DEF Blank, Cells
  <2> QED BY <2>1 DEF HandoverType, GridRecs
<1>4. c \in SUBSET Nat
  BY <1>2 DEF Shown, EditsOf
<1> HIDE DEF old, c
<1>5. old.seq \in Nat /\ old.cells \in Cells
  BY <1>3 DEF GridRecs
<1>6. [old.cells EXCEPT ![k] = c] \in Cells
  BY <1>4, <1>5 DEF Cells
<1>7. e \in GridRecs /\ e.seq >= old.seq /\ e.cells = [old.cells EXCEPT ![k] = c]
  BY <1>2, <1>5, <1>6 DEF GridRecs
<1>8. e # None
  BY <1>7, NoneAssumption DEF GridRecs, Cells, Bricks
<1> HIDE DEF e
<1>9. h \in Grids /\ h[r] = e /\ \A q \in Regions : q # r => h[q] = grid[q]
  BY <1>7 DEF Grids, HandoverType
<1> HIDE DEF h
<1>10. ASSUME NEW q \in Regions, grid[q] # None
       PROVE  /\ h[q] # None /\ h[q].seq >= grid[q].seq
              /\ \A s \in EditsOf(q) \ missed :
                   s <= grid[q].seq /\ Shows(grid[q].cells, s) => ~Hides(h[q].cells, s)
  <2>1. CASE q # r
    <3>1. grid[q].seq \in Nat
      BY <1>10 DEF HandoverType, GridRecs
    <3> QED BY <1>9, <1>10, <2>1, <3>1 DEF Shows, Hides
  <2>2. CASE q = r
    <3>1. ASSUME NEW s \in EditsOf(q), Shows(grid[q].cells, s) PROVE ~Hides(e.cells, s)
      <4>1. CASE edits[s].brick = k
        <5>1. s \in c
          BY <2>2, <4>1 DEF c, Shown
        <5>2. k \in DOMAIN old.cells
          BY <1>5 DEF Cells
        <5> QED BY <1>7, <4>1, <5>1, <5>2 DEF Hides
      <4>2. CASE edits[s].brick # k
        BY <1>3, <1>7, <1>10, <2>2, <3>1, <4>2 DEF Hides, Shows
      <4> QED BY <4>1, <4>2
    <3> QED BY <1>3, <1>7, <1>8, <1>9, <1>10, <2>2, <3>1
  <2> QED BY <2>1, <2>2
<1>11. KeepsSight(h)
  BY <1>10 DEF KeepsSight
<1> QED BY <1>1, <1>9, <1>11 DEF c

(* A carve is an edit like another, and the grid shows it at once.         *)
LEMMA LandExtractionKeepsInv ==
  ASSUME HandoverInv, LandExtraction
  PROVE  HandoverInv'
<1>1. HandoverType /\ extraction # None /\ LockFree
  BY DEF HandoverInv, LandExtraction
<1> DEFINE w == extraction.window
<1>2. w \in WindowRecs
  BY <1>1 DEF HandoverType, Extractions
<1>3. w.region \in Regions /\ w.brick \in Bricks
  BY <1>2 DEF WindowRecs
<1>4. UNCHANGED <<forced, resident, slab, force, gpu, recoveryVars, frame, marked, reads, inbox,
                  host>> /\ extraction' = None
  BY DEF LandExtraction
<1>5. CASE EditSeq > extraction.seq
  <2>1. windows' = NoteEdit(windows, w) /\ UNCHANGED <<edits, pending, grid>>
    BY <1>5 DEF LandExtraction
  <2>2. windows' \in Seq(WindowRecs)
    BY <1>1, <1>2, <2>1, NoteEditType DEF HandoverType
  <2>3. HandoverType'
    BY <1>1, <1>4, <2>1, <2>2 DEF HandoverType, EditSeq, recoveryVars
  <2> QED BY <1>4, <2>1, <2>3, AsideKeepsInv
<1>6. CASE ~(EditSeq > extraction.seq)
  <2>1. /\ Accept(w.region, w.brick)
        /\ grid' = SetCell(grid, w.region, w.brick,
                           Shown(EditsOf(w.region), w.brick) \cup {EditSeq + 1}, EditSeq + 1)
        /\ windows' = NoteEdit(windows, [w EXCEPT !.seq = EditSeq + 1])
    BY <1>6 DEF LandExtraction
  <2>2. EditSeq \in Nat /\ edits' \in Seq([region : Regions, brick : Bricks])
        /\ pending' \subseteq 1..EditSeq'
    BY <1>1, <1>3, <2>1, AcceptFacts
  <2>3. windows' \in Seq(WindowRecs)
    <3>1. [w EXCEPT !.seq = EditSeq + 1] \in WindowRecs
      BY <1>2, <2>2 DEF WindowRecs
    <3> QED BY <1>1, <2>1, <3>1, NoteEditType DEF HandoverType
  <2>4. grid' \in Grids
    BY <1>1, <1>3, <2>1, SetCellKeepsSight
  <2>5. HandoverType'
    BY <1>1, <1>4, <2>2, <2>3, <2>4 DEF HandoverType, Grids, recoveryVars
  <2> QED BY <1>1, <1>3, <1>4, <2>1, <2>5, AcceptKeepsInv
<1> QED BY <1>5, <1>6

(* A frame harvests and asks, takes the queue, and plans a job for each    *)
(* edit of a region that stays or comes, and for each region it repairs.   *)
LEMMA FrameBeginKeepsInv ==
  ASSUME HandoverInv,
         NEW ev \in SUBSET Regions, NEW ld \in SUBSET Regions, NEW counted \in SUBSET Regions,
         NEW upto \in [Regions -> Bricks], NEW refused \in BOOLEAN, NEW hear \in BOOLEAN,
         NEW mend \in SUBSET Regions,
         FrameBegin(ev, ld, counted, upto, refused, hear, mend)
  PROVE  HandoverInv'
<1> DEFINE io0 == [reads |-> reads, inbox |-> inbox, marked |-> marked, stop |-> FALSE]
           io == Ask(Harvest(io0), refused)
           kept == resident \ ev
           stays == kept \cup ld
           heard == IF hear THEN telling ELSE {}
           due == DueAgain(heard, mend) \cap stays
           after == [r \in Regions |-> SlabAfter(r, ld, counted, upto)]
           again == {r \in due : after[r] < Slabs}
           es == {s \in pending : edits[s].region \in stays}
           todo == Requests(kept, ld, counted, upto, es)
           plan == [evicts |-> ev, todo |-> todo, remarks |-> due \ again, jobs |-> <<>>]
<1>1. HandoverType
  BY DEF HandoverInv
<1>2. /\ frame = None /\ ev \subseteq resident
      /\ ld \cap resident = {}
      /\ counted \subseteq kept
      /\ \A r \in counted : Staged(r)
      /\ mend \subseteq RepairQueue(heard)
      /\ reads' = io.reads /\ inbox' = io.inbox /\ marked' = io.marked
      /\ telling' = IF hear THEN (IF refused THEN {} ELSE word) ELSE telling
      /\ word' = IF hear /\ ~refused THEN {} ELSE word
      /\ repair' = RepairQueue(heard) \ mend
      /\ resident' = stays
      /\ slab' = [r \in Regions |-> IF r \in again THEN 0 ELSE after[r]]
      /\ force' = [r \in Regions |->
                     \/ r \in again
                     \/ IF r \in ld THEN r \in forced ELSE force[r] \/ (Staged(r) /\ r \in forced)]
      /\ frame' = plan
      /\ pending' = {} /\ forced' = {}
      /\ UNCHANGED <<edits, gpu, slots, uploaded, regen, missed, grid, windows, extraction, host>>
  BY DEF FrameBegin
<1>3. /\ Slabs \in Nat
      /\ \A r \in Regions : upto[r] \in Nat /\ slab[r] \in Nat /\ FirstSlab(r) \in Nat
                            /\ FirstSlab(r) - 1 \in Nat /\ FirstSlab(r) - 1 <= slab[r]
  <2>1. Slabs \in Nat
    <3>1. Slabs \in Nat \ {0}
      BY OccupancyAssumption, Zenon
    <3> QED BY <3>1
  <2>2. \A r \in Regions : upto[r] \in Nat /\ slab[r] \in Nat
    BY <1>1, <2>1 DEF HandoverType, Bricks
  <2> QED BY <2>1, <2>2 DEF FirstSlab
<1>16. \A r \in Regions :
         /\ after[r] \in Nat
         /\ after[r] = IF r \in ld THEN 0
                       ELSE IF r \in counted THEN upto[r]
                       ELSE IF Staged(r) THEN FirstSlab(r) - 1 ELSE slab[r]
  BY <1>3 DEF SlabAfter
<1> HIDE DEF after
<1>17. /\ \A r \in Regions : slab'[r] = IF r \in again THEN 0 ELSE after[r]
       /\ \A r \in again : r \in due /\ after[r] < Slabs
       /\ \A r \in due \ again : ~(after[r] < Slabs)
       /\ due \subseteq stays
  BY <1>2
<1>18. slab' \in [Regions -> Nat] /\ force' \in [Regions -> BOOLEAN]
  <2>1. slab' \in [Regions -> Nat]
    <3> HIDE DEF again
    <3> QED BY <1>2, <1>16
  <2>2. force' \in [Regions -> BOOLEAN]
    <3> HIDE DEF again
    <3> QED BY <1>1, <1>2, Zenon DEF HandoverType
  <2> QED BY <2>1, <2>2
<1>19. \A r \in Regions : r \in again \/ (r \notin ld /\ force[r]) => force'[r]
  <2> HIDE DEF again
  <2> QED BY <1>2, Zenon
<1> HIDE DEF due, again
<1>4. ~host.tools => StampsOk /\ Between
  BY <1>2 DEF HandoverInv
<1>5. io0 \in Ios
  BY <1>1, <1>4 DEF Ios, StampsOk, HandoverType
<1>6. io \in Ios
  BY <1>1, <1>4, <1>5, HarvestStays, AskStays DEF Between
<1> HIDE DEF io
<1>7. reads' \in ReadArrays /\ inbox' \in Seq(BlockRecs) /\ marked' \in Seq(MarkRecs)
      /\ (~host.tools => MarksOk(marked') /\ ReadsOk(reads') /\ BlocksOk(inbox'))
  BY <1>2, <1>6 DEF Ios
<1>20. kept \in SUBSET Regions /\ stays \in SUBSET Regions
  BY <1>1 DEF HandoverType
<1>8. /\ todo \in Seq(RequestRecs)
      /\ \A i \in DOMAIN todo : todo[i].region \in stays
      /\ \A s \in es : \E i \in DOMAIN todo : todo[i] = EditRequest(s)
      /\ \A r \in ld : \E i \in DOMAIN todo : todo[i].region = r
      /\ \A r \in counted : force[r] => \E i \in DOMAIN todo : todo[i] = ForceRequest(r, upto)
  <2>1. upto \in [Regions -> Nat]
    BY <1>3 DEF Bricks
  <2>2. kept \in SUBSET Regions /\ es \in SUBSET (1..EditSeq)
    BY <1>1, <1>20 DEF HandoverType
  <2>3. \A s \in es : edits[s].region \in kept \cup ld
    OBVIOUS
  <2>4. counted \in SUBSET kept /\ ld \in SUBSET Regions
    BY <1>2
  <2> HIDE DEF kept, es
  <2>5. RequestsAreOk(Requests(kept, ld, counted, upto, es), kept, ld, counted, upto, es)
    BY <1>1, <2>1, <2>2, <2>3, <2>4, RequestsOk, Zenon
  <2> QED BY <2>5, Zenon DEF RequestsAreOk
<1> HIDE DEF todo
<1>9. plan \in Frames /\ plan # None
  <2>1. plan \in Frames
    BY <1>8, <1>17, <1>20 DEF Frames
  <2>2. None \notin Frames
    BY NoneAssumption DEF Frames, RequestRecs, JobRecs, Kinds
  <2> QED BY <2>1, <2>2
<1>10. HandoverType'
  <2>1. word' \subseteq Bits
    BY <1>1, <1>2 DEF HandoverType
  <2> QED BY <1>1, <1>2, <1>18, <1>20, <1>7, <1>9, <2>1 DEF HandoverType, EditSeq
<1>11. /\ frame'.evicts = ev /\ frame'.todo = todo /\ frame'.jobs = <<>> /\ frame' # None
       /\ frame'.remarks = due \ again
  BY <1>2, <1>9
<1>12. JobsAreWhole'
  BY <1>11 DEF JobsAreWhole
<1>21. PoolIsWhole'
  <2>1. PoolIsWhole
    BY DEF HandoverInv
  <2>2. \A q : EditsOf(q)' = EditsOf(q)
    BY <1>2 DEF EditsOf, EditSeq
  <2>3. ASSUME NEW r \in stays, NEW s \in EditsOf(r), s \notin uploaded[r]
        PROVE  \E i \in DOMAIN todo : todo[i].region = r
    <3>1. CASE r \in ld
      BY <1>8, <3>1
    <3>2. CASE r \in kept
      <4>1. s \in pending
        BY <1>2, <2>1, <2>3, <3>2 DEF PoolIsWhole, Uploads
      <4>2. edits[s].region = r
        BY <2>3 DEF EditsOf
      <4>3. PICK i \in DOMAIN todo : todo[i] = EditRequest(s)
        BY <1>8, <2>3, <4>1, <4>2
      <4>4. todo[i].region = r
        BY <4>2, <4>3 DEF EditRequest
      <4> QED BY <4>4
    <3> QED BY <3>1, <3>2
  <2>4. \A r \in Regions : uploaded'[r] \subseteq EditsOf(r)'
    BY <1>2, <2>1, <2>2 DEF PoolIsWhole
  <2>5. \A r \in stays : Uploads(r)' \/ \A s \in EditsOf(r)' : s \in uploaded'[r] \/ s \in pending'
    BY <1>2, <1>11, <2>2, <2>3 DEF Uploads
  <2>6. frame'.remarks \subseteq resident'
    BY <1>2, <1>11, <1>17
  <2> QED BY <1>2, <2>4, <2>5, <2>6 DEF PoolIsWhole
<1>13. ASSUME ~host.tools PROVE StampsOk'
  <2>1. MarksOk(marked)'
    BY <1>2, <1>7, <1>13 DEF MarksOk, StampOk, EditSeq
  <2>2. ReadsOk(reads)'
    BY <1>2, <1>7, <1>13 DEF ReadsOk, StampOk, Truthful, Hides, EditsOf, EditSeq
  <2>3. BlocksOk(inbox)'
    BY <1>2, <1>7, <1>13 DEF BlocksOk, Truthful, Hides, EditsOf, EditSeq
  <2> QED BY <2>1, <2>2, <2>3 DEF StampsOk
<1>14. ASSUME ~host.tools PROVE Inside'
  <2> DEFINE Coming(r, k) == \/ \E i \in DOMAIN todo : Rewrites(todo[i], r, k)
                             \/ r \in due \ again
  <2>8. ASSUME NEW r, NEW k, Coming(r, k) PROVE ToCome(r, k)'
    BY <1>11, <2>8 DEF ToCome, Rewrites
  <2>9. ASSUME NEW r \in kept, NEW k \in Bricks, r \in due
        PROVE  Coming(r, k) \/ Heard(r, k)'
    <3> SUFFICES ASSUME r \in again PROVE Heard(r, k)'
      BY <2>9
    <3>1. r \in Regions /\ r \in resident'
      BY <1>2, <1>20
    <3>2. slab'[r] = 0 /\ force'[r]
      BY <1>17, <1>19, <3>1
    <3>3. 0 < Slabs /\ 0 < k
      <4>1. Slabs \in Nat \ {0}
        BY OccupancyAssumption, Zenon
      <4> QED BY <4>1 DEF Bricks
    <3> QED BY <3>1, <3>2, <3>3 DEF Heard, Staged
  <2>10. ASSUME NEW r \in kept, NEW k \in Bricks, r \in RepairQueue(heard)
         PROVE  Coming(r, k) \/ Heard(r, k)'
    <3>1. CASE r \in mend
      BY <2>9, <3>1 DEF due, DueAgain
    <3>2. CASE r \notin mend
      BY <1>2, <2>10, <3>2 DEF Heard
    <3> QED BY <3>1, <3>2
  <2>11. ASSUME NEW r \in kept, NEW k \in Bricks, Staged(r), force[r], k > slab[r]
         PROVE  Coming(r, k) \/ Heard(r, k)'
    <3>1. /\ r \in Regions /\ r \in resident' /\ r \notin ld /\ force'[r]
          /\ k \in Nat /\ k <= Slabs /\ slab[r] < Slabs
      BY <1>2, <1>3, <1>19, <1>20, <2>11 DEF Bricks, Staged
    <3>2. CASE r \in again
      BY <1>17, <2>9, <3>2
    <3>3. CASE r \notin again /\ r \notin counted
      <4>1. slab'[r] = FirstSlab(r) - 1
        BY <1>16, <1>17, <2>11, <3>1, <3>3
      <4>2. slab'[r] < Slabs /\ k > slab'[r]
        BY <1>3, <2>11, <3>1, <4>1
      <4> QED BY <3>1, <4>2 DEF Heard, Staged
    <3>4. CASE r \notin again /\ r \in counted
      <4>1. slab'[r] = upto[r] /\ upto[r] \in Nat
        BY <1>3, <1>16, <1>17, <3>1, <3>4
      <4>2. CASE k > upto[r]
        <5>1. slab'[r] < Slabs /\ k > slab'[r]
          BY <1>3, <3>1, <4>1, <4>2
        <5> QED BY <3>1, <5>1 DEF Heard, Staged
      <4>3. CASE ~(k > upto[r])
        <5>1. k \in FirstSlab(r)..upto[r]
          BY <1>3, <2>11, <3>1, <4>1, <4>3
        <5>2. PICK i \in DOMAIN todo : todo[i] = ForceRequest(r, upto)
          BY <1>8, <2>11, <3>4
        <5>3. Rewrites(todo[i], r, k)
          BY <5>1, <5>2 DEF Rewrites, ForceRequest
        <5> QED BY <5>3
      <4> QED BY <4>2, <4>3
    <3> QED BY <3>2, <3>3, <3>4
  <2>12. ASSUME NEW r \in kept, NEW k \in Bricks, Heard(r, k)
         PROVE  Coming(r, k) \/ Heard(r, k)'
    <3>1. CASE word # {}
      <4>1. word' # {} \/ telling' # {}
        BY <1>2, <3>1
      <4> QED BY <4>1 DEF Heard
    <3>2. CASE telling # {}
      <4>1. CASE hear
        <5>1. RepairQueue(heard) = resident
          BY <3>2, <4>1 DEF RepairQueue
        <5> QED BY <2>10, <5>1
      <4>2. CASE ~hear
        BY <1>2, <3>2, <4>2 DEF Heard
      <4> QED BY <4>1, <4>2
    <3>3. CASE r \in repair
      <4>1. r \in RepairQueue(heard)
        BY <3>3 DEF RepairQueue
      <4> QED BY <2>10, <4>1
    <3>4. CASE Staged(r) /\ force[r] /\ k > slab[r]
      BY <2>11, <3>4
    <3> HIDE DEF Coming
    <3> QED BY <2>12, <3>1, <3>2, <3>3, <3>4 DEF Heard
  <2>1. ASSUME NEW r \in Regions \ ev, NEW s \in EditsOf(r), Hides(gpu[r], s)
        PROVE  /\ s \in missed \/ Coming(r, edits[s].brick)
               /\ Heard(r, edits[s].brick)' \/ Coming(r, edits[s].brick)
    <3>1. edits[s].region = r /\ edits[s].brick \in Bricks
      <4>1. edits[s] \in [region : Regions, brick : Bricks]
        <5>1. s \in 1..Len(edits) /\ edits \in Seq([region : Regions, brick : Bricks])
          BY <1>1, <2>1 DEF EditsOf, EditSeq, HandoverType
        <5> QED BY <5>1, ElementOfSeq
      <4>2. edits[s].brick \in Bricks
        BY <4>1
      <4> QED BY <2>1, <4>2 DEF EditsOf
    <3>2. r \in resident
      <4>1. gpu[r] # Blank
        BY <2>1, <3>1 DEF Hides, Blank
      <4> QED BY <1>4, <1>14, <2>1, <4>1 DEF Between
    <3>3. CASE s \in pending
      <4>1. PICK i \in DOMAIN todo : todo[i] = EditRequest(s)
        BY <1>8, <2>1, <3>1, <3>2, <3>3
      <4>2. Rewrites(todo[i], r, edits[s].brick)
        BY <3>1, <4>1 DEF Rewrites, EditRequest
      <4> QED BY <4>2
    <3>4. CASE s \notin pending
      <4>1. s \in missed
        BY <1>4, <1>14, <2>1, <3>4 DEF Between, HidesFewOnly
      <4>2. Heard(r, edits[s].brick)
        BY <1>4, <1>14, <2>1, <3>2, <3>4 DEF Between
      <4> HIDE DEF Coming
      <4>3. PICK b \in Bricks : edits[s].brick = b
        BY <3>1
      <4>4. r \in kept
        BY <2>1, <3>2
      <4> HIDE DEF kept
      <4>5. Coming(r, b) \/ Heard(r, b)'
        BY <2>12, <4>2, <4>3, <4>4
      <4>6. edits' = edits
        BY <1>2
      <4> QED BY <4>1, <4>3, <4>5, <4>6 DEF Heard, Staged
    <3> QED BY <3>3, <3>4
  <2>3. \A q, s : Hides(gpu[q], s)' <=> Hides(gpu[q], s)
    BY <1>2 DEF Hides
  <2>4. \A q : EditsOf(q)' = EditsOf(q)
    BY <1>2 DEF EditsOf, EditSeq
  <2>5. (\A r \in Regions \ frame.evicts : \A s \in EditsOf(r) : Hides(gpu[r], s) =>
           /\ s \in missed \/ ToCome(r, edits[s].brick)
           /\ Heard(r, edits[s].brick) \/ ToCome(r, edits[s].brick))'
    <3> HIDE DEF Coming
    <3> QED BY <1>2, <1>11, <2>1, <2>3, <2>4, <2>8
  <2>6. \A r \in Regions \ resident' : r \in ev \/ gpu'[r] = Blank'
    BY <1>2, <1>4, <1>14 DEF Between, Blank, Bricks
  <2>7. \A i \in DOMAIN todo : todo[i].region \in resident'
    BY <1>2, <1>8
  <2> QED BY <1>2, <1>11, <2>5, <2>6, <2>7 DEF Inside
<1> QED BY <1>2, <1>10, <1>11, <1>12, <1>13, <1>14, <1>21 DEF HandoverInv

(* A frame that has one job more.                                          *)
LEMMA JobKeepsInv ==
  ASSUME HandoverInv, frame # None,
         NEW job \in JobRecs, NEW todo \in Seq(RequestRecs), NEW remarks \in SUBSET frame.remarks,
         frame' = [evicts |-> frame.evicts, todo |-> todo, remarks |-> remarks,
                   jobs |-> Append(frame.jobs, job)],
         uploaded' \in [Regions -> SUBSET Nat],
         UNCHANGED <<edits, pending, forced, resident, slab, force, gpu, slots, word, telling,
                     repair, regen, missed, marked, reads, host, inbox, grid, windows, extraction>>,
         job.seq = EditSeq,
         \A s \in job.ops : s \in EditsOf(job.req.region),
         \A s \in EditsOf(job.req.region) :
           s \in job.ops \/ (job.req.kind = "remark" /\ s \in pending),
         PoolIsWhole',
         \A i \in DOMAIN todo : \E n \in DOMAIN frame.todo : frame.todo[n] = todo[i],
         \A n \in DOMAIN frame.todo :
           frame.todo[n] = job.req \/ \E i \in DOMAIN todo : todo[i] = frame.todo[n],
         \A r \in frame.remarks :
           r \in remarks \/ \A k \in Bricks : Rewrites(job.req, r, k),
         ~host.tools => job.req.region \in resident
  PROVE  HandoverInv'
<1> DEFINE jobs == Append(frame.jobs, job)
<1>1. HandoverType
  BY DEF HandoverInv
<1>2. frame \in Frames /\ EditSeq \in Nat /\ frame.jobs \in Seq(JobRecs)
  BY <1>1 DEF HandoverType, EditSeq, Frames
<1>7. /\ jobs \in Seq(JobRecs) /\ Len(frame.jobs) \in Nat
      /\ DOMAIN frame.jobs = 1..Len(frame.jobs)
      /\ DOMAIN jobs = 1..(Len(frame.jobs) + 1)
      /\ \A i \in 1..Len(frame.jobs) : jobs[i] = frame.jobs[i]
      /\ jobs[Len(frame.jobs) + 1] = job
  BY <1>2, AppendProperties
<1> HIDE DEF jobs
<1>8. /\ frame'.evicts = frame.evicts /\ frame'.todo = todo /\ frame'.remarks = remarks
      /\ frame'.jobs = jobs
  BY DEF jobs
<1>9. frame' \in Frames
  BY <1>2, <1>7 DEF Frames, jobs
<1>10. frame' # None
  <2>1. None \notin Frames
    BY NoneAssumption DEF Frames, RequestRecs, JobRecs, Kinds
  <2> QED BY <1>9, <2>1
<1>11. HandoverType'
  BY <1>1, <1>9 DEF HandoverType, EditSeq
<1>12. JobsAreWhole'
  <2> SUFFICES ASSUME NEW i \in DOMAIN jobs
               PROVE  LET j == jobs[i]
                      IN  /\ j.seq <= EditSeq
                          /\ \A s \in j.ops : s \in 1..j.seq /\ edits[s].region = j.req.region
                          /\ \A s \in 1..j.seq : edits[s].region = j.req.region =>
                               s \in j.ops \/ (j.req.kind = "remark" /\ s \in pending)
    BY <1>8 DEF JobsAreWhole, EditSeq
  <2>1. CASE i = Len(frame.jobs) + 1
    BY <1>2, <1>7, <2>1 DEF EditsOf
  <2>2. CASE i # Len(frame.jobs) + 1
    <3>1. i \in DOMAIN frame.jobs /\ jobs[i] = frame.jobs[i]
      BY <1>7, <2>2
    <3> QED BY <3>1 DEF HandoverInv, JobsAreWhole
  <2> QED BY <2>1, <2>2
<1>13. ASSUME ~host.tools PROVE StampsOk'
  <2>1. StampsOk
    BY <1>13 DEF HandoverInv
  <2> QED BY <2>1 DEF StampsOk, MarksOk, ReadsOk, BlocksOk, StampOk, Truthful, Hides,
                      EditsOf, EditSeq
<1>14. ASSUME ~host.tools PROVE Inside'
  <2>1. Inside
    BY <1>14 DEF HandoverInv
  <2>3. /\ \A p, s : Hides(gpu[p], s)' <=> Hides(gpu[p], s)
        /\ \A p, k : Heard(p, k)' <=> Heard(p, k)
    BY DEF Hides, Heard, Staged
  <2>4. \A p : EditsOf(p)' = EditsOf(p)
    BY DEF EditsOf, EditSeq
  <2>5. ASSUME NEW r, NEW k \in Bricks, ToCome(r, k) PROVE ToCome(r, k)'
    <3>1. CASE \E i \in DOMAIN frame.jobs : Rewrites(frame.jobs[i].req, r, k)
      <4>1. \E i \in DOMAIN jobs : Rewrites(jobs[i].req, r, k)
        BY <1>7, <3>1
      <4> QED BY <1>8, <4>1 DEF ToCome, Rewrites
    <3>4. CASE Rewrites(job.req, r, k)
      <4>2. Len(frame.jobs) + 1 \in DOMAIN jobs /\ jobs[Len(frame.jobs) + 1] = job
        BY <1>7
      <4>1. \E i \in DOMAIN jobs : Rewrites(jobs[i].req, r, k)
        BY <3>4, <4>2
      <4> QED BY <1>8, <4>1 DEF ToCome, Rewrites
    <3>2. CASE r \in frame.remarks
      <4>1. r \in remarks \/ Rewrites(job.req, r, k)
        BY <3>2
      <4> QED BY <1>8, <3>4, <4>1 DEF ToCome
    <3>3. ASSUME NEW n \in DOMAIN frame.todo, Rewrites(frame.todo[n], r, k)
          PROVE  ToCome(r, k)'
      <4>1. Rewrites(job.req, r, k) \/ \E i \in DOMAIN todo : Rewrites(todo[i], r, k)
        BY <3>3
      <4> QED BY <1>8, <3>4, <4>1 DEF ToCome, Rewrites
    <3> QED BY <2>5, <3>1, <3>2, <3>3 DEF ToCome
  <2>11. ASSUME NEW r \in Regions, NEW s \in EditsOf(r) PROVE edits[s].brick \in Bricks
    <3>1. s \in 1..Len(edits) /\ edits \in Seq([region : Regions, brick : Bricks])
      BY <1>1, <2>11 DEF EditsOf, EditSeq, HandoverType
    <3>2. edits[s] \in [region : Regions, brick : Bricks]
      BY <3>1, ElementOfSeq
    <3> QED BY <3>2
  <2>6. (\A r \in Regions \ frame.evicts : \A s \in EditsOf(r) : Hides(gpu[r], s) =>
           /\ s \in missed \/ ToCome(r, edits[s].brick)
           /\ Heard(r, edits[s].brick) \/ ToCome(r, edits[s].brick))'
    BY <1>8, <2>1, <2>3, <2>4, <2>5, <2>11 DEF Inside
  <2>7. \A i \in DOMAIN todo : todo[i].region \in resident
    BY <2>1 DEF Inside
  <2>8. \A i \in DOMAIN jobs : jobs[i].req.region \in resident /\ jobs[i].seq = EditSeq
    BY <1>7, <1>14, <2>1 DEF Inside
  <2>9. \A r \in Regions \ resident : r \in frame.evicts \/ gpu[r] = Blank
    BY <2>1 DEF Inside
  <2>10. pending = {}
    BY <2>1 DEF Inside
  <2> QED BY <1>8, <2>6, <2>7, <2>8, <2>9, <2>10 DEF Inside, EditSeq, Blank, Bricks
<1> QED BY <1>10, <1>11, <1>12, <1>13, <1>14 DEF HandoverInv

(* A capture takes the list and the stamp under one hold of the lock.      *)
LEMMA CaptureKeepsInv ==
  ASSUME HandoverInv, Capture
  PROVE  HandoverInv'
<1> DEFINE q == Head(frame.todo)
           job == [req |-> q, ops |-> EditsOf(q.region), seq |-> EditSeq]
           rest == Tail(frame.todo)
<1>1. /\ HandoverType /\ frame # None /\ frame.todo # <<>>
      /\ UNCHANGED <<edits, pending, forced, resident, slab, force, gpu, slots, word, telling,
                     repair, regen, missed, marked, reads, host, inbox, grid, windows, extraction>>
      /\ uploaded' = [uploaded EXCEPT ![q.region] = EditsOf(q.region)]
  BY DEF HandoverInv, Capture, mainVars
<1>2. frame \in Frames /\ EditSeq \in Nat
  BY <1>1 DEF HandoverType, EditSeq
<1>3. frame.todo \in Seq(RequestRecs) /\ frame.jobs \in Seq(JobRecs)
  BY <1>2 DEF Frames
<1>4. /\ q \in RequestRecs /\ q = frame.todo[1] /\ 1 \in DOMAIN frame.todo
      /\ rest \in Seq(RequestRecs) /\ Len(frame.todo) \in Nat
      /\ DOMAIN frame.todo = 1..Len(frame.todo)
      /\ DOMAIN rest = 1..(Len(frame.todo) - 1)
      /\ \A i \in 1..(Len(frame.todo) - 1) : rest[i] = frame.todo[i + 1]
  BY <1>1, <1>3
<1>5. frame' = [evicts |-> frame.evicts, todo |-> rest, remarks |-> frame.remarks,
                jobs |-> Append(frame.jobs, job)]
  BY <1>2 DEF Capture, Frames
<1> HIDE DEF q, rest
<1>6. /\ q.region \in Regions /\ EditsOf(q.region) \in SUBSET Nat
      /\ uploaded' \in [Regions -> SUBSET Nat]
      /\ \A r \in Regions : uploaded'[r] = IF r = q.region THEN EditsOf(r) ELSE uploaded[r]
  <2>1. q.region \in Regions /\ EditsOf(q.region) \in SUBSET Nat
    BY <1>2, <1>4 DEF EditsOf, RequestRecs
  <2>2. uploaded \in [Regions -> SUBSET Nat]
    BY <1>1 DEF HandoverType
  <2> QED BY <1>1, <2>1, <2>2
<1>7. job \in JobRecs
  BY <1>2, <1>4, <1>6 DEF JobRecs
<1>8. /\ job.req = q /\ job.seq = EditSeq /\ job.ops = EditsOf(job.req.region)
  OBVIOUS
<1> HIDE DEF job
<1>9. \A n \in DOMAIN frame.todo :
        frame.todo[n] = q \/ \E i \in DOMAIN rest : rest[i] = frame.todo[n]
  <2> SUFFICES ASSUME NEW n \in DOMAIN frame.todo, n # 1
               PROVE  \E i \in DOMAIN rest : rest[i] = frame.todo[n]
    BY <1>4
  <2>1. n - 1 \in DOMAIN rest /\ (n - 1) + 1 = n
    BY <1>4
  <2>2. rest[n - 1] = frame.todo[n]
    BY <1>4, <2>1
  <2> QED BY <2>1, <2>2
<1>10. \A i \in DOMAIN rest : \E n \in DOMAIN frame.todo : frame.todo[n] = rest[i]
  <2> SUFFICES ASSUME NEW i \in DOMAIN rest PROVE \E n \in DOMAIN frame.todo : frame.todo[n] = rest[i]
    OBVIOUS
  <2>1. i + 1 \in DOMAIN frame.todo /\ frame.todo[i + 1] = rest[i]
    BY <1>4
  <2> QED BY <2>1
<1>11. PoolIsWhole'
  <2>1. PoolIsWhole
    BY DEF HandoverInv
  <2>2. \A p : EditsOf(p)' = EditsOf(p)
    BY <1>1 DEF EditsOf, EditSeq
  <2>3. frame'.todo = rest /\ frame'.remarks = frame.remarks /\ frame' # None
    <3>1. frame' \in Frames
      <4>1. Append(frame.jobs, job) \in Seq(JobRecs)
        BY <1>3, <1>7
      <4> QED BY <1>2, <1>4, <1>5, <4>1 DEF Frames
    <3>2. None \notin Frames
      BY NoneAssumption DEF Frames, RequestRecs, JobRecs, Kinds
    <3> QED BY <1>5, <3>1, <3>2
  <2>4. \A r \in Regions : uploaded'[r] \subseteq EditsOf(r)'
    BY <1>6, <2>1, <2>2 DEF PoolIsWhole
  <2>5. ASSUME NEW r \in resident
        PROVE  Uploads(r)' \/ \A s \in EditsOf(r)' : s \in uploaded'[r] \/ s \in pending'
    <3>1. r \in Regions
      BY <1>1 DEF HandoverType
    <3>2. CASE r = q.region
      BY <1>6, <2>2, <3>1, <3>2
    <3>3. CASE r # q.region
      <4>1. uploaded'[r] = uploaded[r]
        BY <1>6, <3>1, <3>3
      <4>2. CASE Uploads(r)
        <5>1. PICK n \in DOMAIN frame.todo : frame.todo[n].region = r
          BY <4>2 DEF Uploads
        <5>2. \E i \in DOMAIN rest : rest[i].region = r
          BY <1>9, <3>3, <5>1
        <5> QED BY <2>3, <5>2 DEF Uploads
      <4>3. CASE \A s \in EditsOf(r) : s \in uploaded[r] \/ s \in pending
        BY <1>1, <2>2, <4>1, <4>3
      <4> QED BY <2>1, <4>2, <4>3 DEF PoolIsWhole
    <3> QED BY <3>2, <3>3
  <2>6. frame'.remarks \subseteq resident'
    BY <1>1, <2>1, <2>3 DEF PoolIsWhole
  <2> QED BY <1>1, <2>4, <2>5, <2>6 DEF PoolIsWhole
<1>12. ~host.tools => job.req.region \in resident
  BY <1>1, <1>4, <1>8 DEF HandoverInv, Inside
<1>13. /\ \A n \in DOMAIN frame.todo :
            frame.todo[n] = job.req \/ \E i \in DOMAIN rest : rest[i] = frame.todo[n]
       /\ \A s \in job.ops : s \in EditsOf(job.req.region)
       /\ \A s \in EditsOf(job.req.region) :
            s \in job.ops \/ (job.req.kind = "remark" /\ s \in pending)
       /\ frame.remarks \in SUBSET frame.remarks
       /\ \A r \in frame.remarks :
            r \in frame.remarks \/ \A k \in Bricks : Rewrites(job.req, r, k)
  BY <1>8, <1>9
<1>14. rest \in Seq(RequestRecs)
  BY <1>4
<1> QED BY <1>1, <1>5, <1>6, <1>7, <1>8, <1>10, <1>11, <1>12, <1>13, <1>14, JobKeepsInv

(* A job that marks again has what the pool has: all that is not queued.   *)
LEMMA RecaptureKeepsInv ==
  ASSUME HandoverInv, NEW r \in Regions, Recapture(r)
  PROVE  HandoverInv'
<1> DEFINE q == [kind |-> "remark", region |-> r, bricks |-> Bricks]
           job == [req |-> q, ops |-> uploaded[r], seq |-> EditSeq]
           left == frame.remarks \ {r}
<1>1. /\ HandoverType /\ frame # None /\ frame.todo = <<>> /\ r \in frame.remarks
      /\ UNCHANGED <<edits, pending, forced, resident, slab, force, gpu, slots, uploaded, word,
                     telling, repair, regen, missed, marked, reads, host, inbox, grid, windows,
                     extraction>>
  BY DEF HandoverInv, Recapture, mainVars, recoveryVars
<1>2. frame \in Frames /\ EditSeq \in Nat /\ uploaded \in [Regions -> SUBSET Nat]
  BY <1>1 DEF HandoverType, EditSeq
<1>3. frame.todo \in Seq(RequestRecs) /\ frame.jobs \in Seq(JobRecs)
  BY <1>2 DEF Frames
<1>4. frame' = [evicts |-> frame.evicts, todo |-> frame.todo, remarks |-> left,
                jobs |-> Append(frame.jobs, job)]
  BY <1>2 DEF Recapture, Frames
<1>5. q \in RequestRecs /\ q.region = r /\ q.kind = "remark" /\ q.bricks = Bricks
  <2>1. Slabs \in Nat \ {0}
    BY OccupancyAssumption, Zenon
  <2>2. Bricks \in SUBSET Nat
    BY <2>1 DEF Bricks
  <2> QED BY <2>2 DEF RequestRecs, Kinds
<1> HIDE DEF q
<1>6. job \in JobRecs /\ job.req = q /\ job.seq = EditSeq /\ job.ops = uploaded[r]
  BY <1>2, <1>5 DEF JobRecs
<1> HIDE DEF job, left
<1>7. PoolIsWhole /\ r \in resident
  BY <1>1 DEF HandoverInv, PoolIsWhole
<1>8. /\ \A s \in job.ops : s \in EditsOf(job.req.region)
      /\ \A s \in EditsOf(job.req.region) :
           s \in job.ops \/ (job.req.kind = "remark" /\ s \in pending)
  <2>1. ~Uploads(r)
    BY <1>1 DEF Uploads
  <2> QED BY <1>5, <1>6, <1>7, <2>1 DEF PoolIsWhole
<1>9. left \subseteq frame.remarks
      /\ \A p \in frame.remarks : p \in left \/ \A k \in Bricks : Rewrites(job.req, p, k)
  BY <1>5, <1>6 DEF left, Rewrites
<1>10. PoolIsWhole'
  <2>1. \A p : EditsOf(p)' = EditsOf(p)
    BY <1>1 DEF EditsOf, EditSeq
  <2>2. frame'.todo = frame.todo /\ frame'.remarks = left
    BY <1>4
  <2>3. \A p : ~Uploads(p)
    BY <1>1 DEF Uploads
  <2> QED BY <1>1, <1>7, <1>9, <2>1, <2>2, <2>3 DEF PoolIsWhole
<1>11. /\ \A i \in DOMAIN frame.todo : \E n \in DOMAIN frame.todo : frame.todo[n] = frame.todo[i]
       /\ \A n \in DOMAIN frame.todo : \E i \in DOMAIN frame.todo : frame.todo[i] = frame.todo[n]
  OBVIOUS
<1>12. uploaded' \in [Regions -> SUBSET Nat] /\ job.req.region \in resident
  BY <1>1, <1>2, <1>5, <1>6, <1>7
<1> QED BY <1>1, <1>3, <1>4, <1>6, <1>8, <1>9, <1>10, <1>11, <1>12, JobKeepsInv

(* When the jobs have run, the GPU hides what was refused and no more, and *)
(* of that there is word.                                                  *)
LEMMA FrameEndKeepsInv ==
  ASSUME HandoverInv, NEW denied, NEW short \in Bits, FrameEnd(denied, short)
  PROVE  HandoverInv'
<1> DEFINE gone == [r \in Regions |-> IF r \in frame.evicts THEN Blank ELSE gpu[r]]
           held == [r \in Regions |-> IF r \in frame.evicts THEN {} ELSE slots[r]]
           a == [gpu |-> gone, slots |-> held, word |-> word, missed |-> missed]
           jobs == frame.jobs
           b == Marks(a, jobs, denied, short)
<1>1. /\ HandoverType /\ frame # None /\ frame.todo = <<>> /\ frame.remarks = {} /\ frame' = None
      /\ gpu' = b.gpu /\ slots' = b.slots /\ word' = b.word /\ missed' = b.missed
      /\ marked' = Notes(marked, jobs)
      /\ UNCHANGED <<edits, pending, forced, resident, slab, force, uploaded, telling, repair,
                     reads, host, inbox, grid, windows, extraction>>
  BY Zenon DEF HandoverInv, FrameEnd, mainVars
<1>2. frame \in Frames /\ EditSeq \in Nat
  BY <1>1 DEF HandoverType, EditSeq
<1>3. jobs \in Seq(JobRecs)
  BY <1>2 DEF Frames
<1>4. gone \in [Regions -> Cells] /\ held \in [Regions -> SUBSET Nat]
  <2>1. Blank \in Cells
    BY DEF Blank, Cells
  <2> QED BY <1>1, <2>1 DEF HandoverType
<1>5. \A r \in Regions : gone[r] = IF r \in frame.evicts THEN Blank ELSE gpu[r]
  OBVIOUS
<1> HIDE DEF gone, held
<1>6. a \in AtlasRecs /\ a.gpu = gone /\ a.word = word /\ a.missed = missed
  BY <1>1, <1>4 DEF AtlasRecs, HandoverType
<1> HIDE DEF a
<1>7. b \in MarkedBy(a, jobs, Len(jobs))
  BY <1>1, <1>3, <1>6, MarksStay
<1> HIDE DEF b
<1>8. /\ b \in AtlasRecs /\ missed \subseteq missed' /\ word \subseteq word'
  BY <1>1, <1>6, <1>7 DEF MarkedBy
<1>9. marked' \in Seq(MarkRecs)
      /\ (MarksOk(marked) /\ (\A i \in DOMAIN jobs : StampOk(jobs[i].seq)) => MarksOk(marked'))
  BY <1>1, <1>3, NotesOk DEF HandoverType
<1>10. HandoverType'
  <2>1. /\ gpu' \in [Regions -> Cells] /\ slots' \in [Regions -> SUBSET Nat]
        /\ word' \in SUBSET Bits /\ missed' \in SUBSET Nat
    BY <1>1, <1>8 DEF AtlasRecs
  <2> QED BY <1>1, <1>9, <2>1 DEF HandoverType, EditSeq
<1>11. JobsAreWhole' /\ PoolIsWhole'
  <2>1. JobsAreWhole'
    BY <1>1 DEF JobsAreWhole
  <2>2. \A p : EditsOf(p)' = EditsOf(p)
    BY <1>1 DEF EditsOf, EditSeq
  <2>3. \A p : ~Uploads(p)
    BY <1>1 DEF Uploads
  <2>4. PoolIsWhole
    BY DEF HandoverInv
  <2>5. PoolIsWhole'
    BY <1>1, <2>2, <2>3, <2>4 DEF PoolIsWhole
  <2> QED BY <2>1, <2>5
<1>12. ASSUME ~host.tools
       PROVE  /\ StampsOk /\ Inside
              /\ AllKnow(jobs)
              /\ \A i \in DOMAIN jobs : StampOk(jobs[i].seq)
  <2>1. StampsOk /\ Inside
    BY <1>1, <1>12 DEF HandoverInv
  <2>2. ASSUME NEW i \in DOMAIN jobs
        PROVE  jobs[i].ops = EditsOf(jobs[i].req.region) /\ StampOk(jobs[i].seq)
    <3>1. jobs[i].seq = EditSeq /\ pending = {}
      BY <2>1 DEF Inside
    <3>2. /\ \A s \in jobs[i].ops : s \in 1..jobs[i].seq /\ edits[s].region = jobs[i].req.region
          /\ \A s \in 1..jobs[i].seq : edits[s].region = jobs[i].req.region =>
               s \in jobs[i].ops \/ (jobs[i].req.kind = "remark" /\ s \in pending)
      BY <1>1 DEF HandoverInv, JobsAreWhole
    <3>3. \A s : s \in jobs[i].ops <=> s \in EditsOf(jobs[i].req.region)
      BY <3>1, <3>2 DEF EditsOf
    <3>4. jobs[i].ops = EditsOf(jobs[i].req.region)
      BY <3>3
    <3> QED BY <1>2, <3>1, <3>4 DEF StampOk
  <2> QED BY <2>1, <2>2 DEF AllKnow
<1>13. ASSUME ~host.tools PROVE StampsOk'
  <2>1. StampsOk /\ MarksOk(marked')
    BY <1>9, <1>12, <1>13 DEF StampsOk
  <2>2. MarksOk(marked)'
    BY <1>1, <2>1 DEF MarksOk, StampOk, EditSeq
  <2>3. ASSUME NEW c, Truthful(c) PROVE Truthful(c)'
    BY <1>1, <1>8, <2>3 DEF Truthful, Hides, EditsOf, EditSeq
  <2>4. ReadsOk(reads)' /\ BlocksOk(inbox)'
    <3>1. \A n : StampOk(n)' <=> StampOk(n)
      BY <1>1 DEF StampOk, EditSeq
    <3>2. ReadsOk(reads)'
      <4> SUFFICES ASSUME NEW i \in 1..Readers, reads[i] # None
                   PROVE  StampOk(reads[i].block.seq)' /\ Truthful(reads[i].block)'
        BY <1>1 DEF ReadsOk, StampOk, Truthful, Hides
      <4>1. PICK c : c = reads[i].block
        OBVIOUS
      <4>2. StampOk(c.seq) /\ Truthful(c)
        BY <2>1, <4>1 DEF StampsOk, ReadsOk
      <4>3. StampOk(c.seq)' /\ Truthful(c)'
        BY <2>3, <3>1, <4>2
      <4> QED BY <1>1, <4>1, <4>3 DEF StampOk, Truthful, Hides
    <3>3. BlocksOk(inbox)'
      <4> SUFFICES ASSUME NEW i \in DOMAIN inbox
                   PROVE  inbox[i].seq <= EditSeq' /\ Truthful(inbox[i])'
        BY <1>1 DEF BlocksOk, Truthful, Hides
      <4>1. PICK c : c = inbox[i]
        OBVIOUS
      <4>2. c.seq <= EditSeq /\ Truthful(c)
        BY <2>1, <4>1 DEF StampsOk, BlocksOk
      <4>3. c.seq <= EditSeq' /\ Truthful(c)'
        BY <1>1, <2>3, <4>2 DEF EditSeq
      <4> QED BY <1>1, <4>1, <4>3 DEF Truthful, Hides
    <3> QED BY <3>2, <3>3
  <2> QED BY <2>2, <2>4 DEF StampsOk
<1>14. ASSUME ~host.tools PROVE Between'
  <2>1. ASSUME NEW r \in Regions
        PROVE  /\ \A k \in Bricks :
                    /\ gpu'[r][k] = gone[r][k] \/ gpu'[r][k] = Full(r, k)
                    /\ \A j \in 1..Len(jobs) : Rewrites(jobs[j].req, r, k) =>
                         \/ gpu'[r][k] = Full(r, k)
                         \/ word' # {} /\ Accounted(gpu'[r][k], r, k, missed')
               /\ (\A j \in 1..Len(jobs) : jobs[j].req.region # r) => gpu'[r] = gone[r]
    BY <1>1, <1>6, <1>7, <1>12, <1>14 DEF MarkedBy
  <2>2. Len(jobs) \in Nat /\ DOMAIN jobs = 1..Len(jobs)
    BY <1>3
  <2>3. ASSUME NEW r \in Regions, NEW s \in EditsOf(r), Hides(gpu'[r], s),
               NEW k, edits[s].brick = k
        PROVE  s \in missed' /\ Heard(r, k)'
    <3>1. k \in Bricks
      <4>1. s \in 1..Len(edits) /\ edits \in Seq([region : Regions, brick : Bricks])
        BY <1>1, <2>3 DEF EditsOf, EditSeq, HandoverType
      <4>2. edits[s] \in [region : Regions, brick : Bricks]
        BY <4>1, ElementOfSeq
      <4> QED BY <2>3, <4>2
    <3>2. s \in Full(r, k)
      BY <2>3 DEF Full, Shown
    <3>3. gpu'[r][k] # Unknown /\ s \notin gpu'[r][k]
      BY <2>3 DEF Hides
    <3>9. Heard(r, k) => Heard(r, k)'
      BY <1>1, <1>8 DEF Heard, Staged
    <3>4. gpu'[r][k] = gone[r][k]
      BY <2>1, <3>1, <3>2, <3>3
    <3>5. r \notin frame.evicts
      BY <1>5, <3>1, <3>3, <3>4 DEF Blank
    <3>6. Hides(gpu[r], s)
      BY <1>5, <2>3, <3>3, <3>4, <3>5 DEF Hides
    <3>7. CASE ToCome(r, k)
      <4>1. PICK j \in DOMAIN jobs : Rewrites(jobs[j].req, r, k)
        BY <1>1, <3>7 DEF ToCome
      <4>2. word' # {} /\ Accounted(gpu'[r][k], r, k, missed')
        BY <2>1, <2>2, <3>1, <3>2, <3>3, <4>1
      <4>3. s \in missed'
        BY <3>2, <3>3, <4>2 DEF Accounted
      <4>4. Heard(r, k)'
        BY <4>2 DEF Heard
      <4> QED BY <4>3, <4>4
    <3>8. CASE ~ToCome(r, k)
      <4>1. s \in missed /\ Heard(r, k)
        BY <1>12, <1>14, <2>3, <3>5, <3>6, <3>8 DEF Inside
      <4> QED BY <1>1, <1>8, <3>9, <4>1
    <3> QED BY <3>7, <3>8
  <2>4. /\ \A p : EditsOf(p)' = EditsOf(p)
        /\ \A p, s : Hides(gpu[p], s)' <=> Hides(gpu'[p], s)
    BY <1>1 DEF Hides, EditsOf, EditSeq
  <2>6. HidesFewOnly'
    BY <2>3, <2>4 DEF HidesFewOnly
  <2>7. (\A r \in resident : \A s \in EditsOf(r) :
           Hides(gpu[r], s) => s \in pending \/ Heard(r, edits[s].brick))'
    <3> SUFFICES ASSUME NEW r \in resident', NEW s \in EditsOf(r)', Hides(gpu[r], s)'
                 PROVE  (s \in pending \/ Heard(r, edits[s].brick))'
      OBVIOUS
    <3>1. r \in Regions /\ s \in EditsOf(r) /\ Hides(gpu'[r], s) /\ edits' = edits
      BY <1>1, <2>4 DEF HandoverType
    <3>2. PICK k : edits[s].brick = k
      OBVIOUS
    <3>3. Heard(r, k)'
      BY <2>3, <3>1, <3>2
    <3> QED BY <3>1, <3>2, <3>3 DEF Heard, Staged
  <2>5. ASSUME NEW r \in Regions \ resident PROVE gpu'[r] = Blank
    <3>1. gpu'[r] = gone[r]
      BY <1>12, <1>14, <2>1, <2>2, <2>5 DEF Inside
    <3>2. gone[r] = Blank
      BY <1>5, <1>12, <1>14, <2>5 DEF Inside
    <3> QED BY <3>1, <3>2
  <2> QED BY <1>1, <2>5, <2>6, <2>7 DEF Between, Blank, Bricks
<1> QED BY <1>1, <1>10, <1>11, <1>13, <1>14 DEF HandoverInv

(* A frame begins with some choice of what happens ahead of its jobs.      *)
Begun(refused) ==
  \E ev, ld \in Streams, upto \in [Regions -> Bricks], hear \in BOOLEAN, mend \in SUBSET Regions :
     \E counted \in {{}, {r \in resident \ ev : Staged(r)}} :
        FrameBegin(ev, ld, counted, upto, refused, hear, mend)

LEMMA FrameIsBegun ==
  ASSUME NEW ready, NEW refused, Frame(ready, refused)
  PROVE  Begun(refused)
<1>1. PICK ev \in Streams, ld \in Streams, upto \in [Regions -> Bricks], hear \in BOOLEAN,
           mend \in SUBSET Regions :
        \E counted \in {{}, {r \in resident \ ev : Staged(r)}} :
           /\ ready => /\ counted = {r \in resident \ ev : Staged(r)}
                       /\ hear
                       /\ RepairQueue(telling) # {} => mend # {}
           /\ \A r \in Regions : upto[r] = Slabs \/ (r \in counted /\ upto[r] >= FirstSlab(r))
           /\ FrameBegin(ev, ld, counted, upto, refused, hear, mend)
  BY Zenon DEF Frame
<1>2. PICK counted \in {{}, {r \in resident \ ev : Staged(r)}} :
        FrameBegin(ev, ld, counted, upto, refused, hear, mend)
  BY <1>1, Zenon
<1> QED BY <1>2, Zenon DEF Begun

(* Every step keeps the invariant of the hand-over.                        *)
LEMMA NextKeepsInv == HandoverInv /\ [Next]_vars => HandoverInv'
<1> SUFFICES ASSUME HandoverInv, [Next]_vars PROVE HandoverInv'
  OBVIOUS
<1>1. CASE UNCHANGED vars
  <2>1. UNCHANGED <<edits, pending, forced, resident, slab, force, gpu, recoveryVars, frame,
                    marked, reads, host, inbox, grid, windows, extraction>>
    BY <1>1 DEF vars, streamVars, mainVars
  <2>2. HandoverType'
    BY <2>1 DEF HandoverInv, HandoverType, EditSeq, recoveryVars
  <2> QED BY <2>1, <2>2, AsideKeepsInv
<1>2. ASSUME NEW ready, NEW refused \in BOOLEAN, Frame(ready, refused) PROVE HandoverInv'
  <2>1. PICK ev \in Streams, ld \in Streams, upto \in [Regions -> Bricks], hear \in BOOLEAN,
             mend \in SUBSET Regions :
          \E counted \in {{}, {r \in resident \ ev : Staged(r)}} :
             FrameBegin(ev, ld, counted, upto, refused, hear, mend)
    <3>1. Begun(refused)
      BY <1>2, FrameIsBegun
    <3> QED BY <3>1, Zenon DEF Begun
  <2>2. PICK counted \in {{}, {r \in resident \ ev : Staged(r)}} :
          FrameBegin(ev, ld, counted, upto, refused, hear, mend)
    BY <2>1
  <2>3. ev \in SUBSET Regions /\ ld \in SUBSET Regions
    BY DEF Streams
  <2>4. counted \in SUBSET Regions
    BY DEF HandoverInv, HandoverType
  <2> QED BY <2>2, <2>3, <2>4, FrameBeginKeepsInv
<1>4. CASE Marking
  <2>1. {"slot", "job"} = Bits
    BY DEF Bits
  <2> QED BY <1>4, <2>1, CaptureKeepsInv, RecaptureKeepsInv, FrameEndKeepsInv, Zenon DEF Marking
<1>3. CASE Next
  BY <1>2, <1>3, <1>4, EditKeepsInv, RegenKeepsInv, LandKeepsInv, DrainKeepsInv, SearchKeepsInv,
     LandExtractionKeepsInv, Zenon DEF Next
<1> QED BY <1>1, <1>3

(* For any regions, slabs, reads and hosts: no stamp claims an edit that   *)
(* was not seen, from the job that uploads a region's operations with a    *)
(* stamp, or marks again with those in the pool (world_streamer.cpp), to   *)
(* the block that waits in the inbox (world_store.cpp), unless its brick   *)
(* was refused; and of no refused brick is the news lost.                  *)
THEOREM NoStampClaimsTooMuch == Spec => []StampsAreTruthful
<1>1. HandoverInv => StampsAreTruthful
  <2> SUFFICES ASSUME HandoverInv PROVE StampsAreTruthful
    OBVIOUS
  <2>1. ASSUME frame # None, NEW i \in DOMAIN frame.jobs,
               NEW s \in EditsOf(frame.jobs[i].req.region), s <= frame.jobs[i].seq
        PROVE  s \in frame.jobs[i].ops \/ (frame.jobs[i].req.kind = "remark" /\ s \in pending)
    <3>1. \A x \in 1..frame.jobs[i].seq : edits[x].region = frame.jobs[i].req.region =>
            x \in frame.jobs[i].ops \/ (frame.jobs[i].req.kind = "remark" /\ x \in pending)
      BY <2>1 DEF HandoverInv, JobsAreWhole
    <3>2. frame.jobs \in Seq(JobRecs)
      BY <2>1 DEF HandoverInv, HandoverType, Frames
    <3>3. frame.jobs[i] \in JobRecs
      BY <3>2
    <3>4. frame.jobs[i].seq \in Nat
      BY <3>3 DEF JobRecs
    <3> QED BY <2>1, <3>1, <3>4 DEF EditsOf
  <2>2. JobsAreTruthful
    BY <2>1 DEF JobsAreTruthful
  <2>3. ~host.tools => ReadsOk(reads) /\ BlocksOk(inbox)
    BY DEF HandoverInv, StampsOk
  <2>4. ASSUME ~host.tools PROVE HolesAreKnown
    <3> SUFFICES ASSUME frame = None, NEW r \in resident, NEW s \in EditsOf(r), Hides(gpu[r], s)
                 PROVE  \/ s \in pending
                        \/ word \cup telling # {}
                        \/ r \in repair
                        \/ Staged(r) /\ force[r] /\ edits[s].brick > slab[r]
      BY DEF HolesAreKnown
    <3>1. s \in pending \/ Heard(r, edits[s].brick)
      BY <2>4 DEF HandoverInv, Between
    <3> QED BY <3>1 DEF Heard
  <2> QED BY <2>2, <2>3, <2>4 DEF StampsAreTruthful, ReadsOk, BlocksOk
<1> QED BY <1>1, HandoverInvInit, NextKeepsInv, PTL DEF Spec

(* And an edit that the grid shows and vouches for is not hidden again     *)
(* while the block is kept, whatever order blocks of a region land in and  *)
(* whatever is carved between (occupancy.cpp, set_block and set_cell),     *)
(* unless its brick was refused.                                           *)
THEOREM SightIsKept == Spec => GridNeverRegresses
<1> DEFINE Sight == ~host.tools =>
       \A r \in Regions : grid[r] # None /\ grid'[r] # None =>
          \A s \in EditsOf(r) \ missed :
            s <= grid[r].seq /\ Shows(grid[r].cells, s) => ~Hides(grid'[r].cells, s)
<1>1. HandoverInv /\ [Next]_vars => [Sight]_vars
  <2> SUFFICES ASSUME HandoverInv, Next, ~host.tools,
                      NEW r \in Regions, grid[r] # None, grid'[r] # None,
                      NEW s \in EditsOf(r) \ missed, s <= grid[r].seq, Shows(grid[r].cells, s)
               PROVE  ~Hides(grid'[r].cells, s)
    BY DEF vars
  <2>1. CASE grid' = grid
    BY <2>1 DEF Shows, Hides
  <2>2. ASSUME NEW dropped \in SUBSET Regions, DrainOccupancy(dropped)
        PROVE  ~Hides(grid'[r].cells, s)
    <3>1. KeepsSight(SetBlocks(grid, inbox))
      BY SetBlocksKeepSight DEF HandoverInv, HandoverType, StampsOk
    <3>2. grid'[r] = SetBlocks(grid, inbox)[r]
      BY <2>2 DEF DrainOccupancy
    <3> QED BY <3>1, <3>2 DEF KeepsSight
  <2>3. CASE LandExtraction
    <3>1. CASE EditSeq > extraction.seq
      BY <2>1, <2>3, <3>1 DEF LandExtraction
    <3>2. CASE ~(EditSeq > extraction.seq)
      <4> DEFINE w == extraction.window
      <4>1. w.region \in Regions /\ w.brick \in Bricks
        BY <2>3 DEF LandExtraction, HandoverInv, HandoverType, Extractions, WindowRecs
      <4>2. grid' = SetCell(grid, w.region, w.brick,
                            Shown(EditsOf(w.region), w.brick) \cup {EditSeq + 1}, EditSeq + 1)
        BY <2>3, <3>2 DEF LandExtraction
      <4>3. KeepsSight(grid')
        BY <4>1, <4>2, SetCellKeepsSight DEF HandoverInv
      <4> QED BY <4>3 DEF KeepsSight
    <3> QED BY <3>1, <3>2
  <2>4. ASSUME NEW ready \in BOOLEAN, NEW refused \in BOOLEAN, Frame(ready, refused)
        PROVE  grid' = grid
    <3>1. PICK ev, ld \in Streams, upto \in [Regions -> Bricks], hear \in BOOLEAN,
               mend \in SUBSET Regions :
            \E counted \in {{}, {q \in resident \ ev : Staged(q)}} :
               FrameBegin(ev, ld, counted, upto, refused, hear, mend)
      <4>1. Begun(refused)
        BY <2>4, FrameIsBegun
      <4> QED BY <4>1, Zenon DEF Begun
    <3>2. PICK counted : FrameBegin(ev, ld, counted, upto, refused, hear, mend)
      BY <3>1, Zenon
    <3> QED BY <3>2 DEF FrameBegin
  <2>5. ASSUME NEW q \in Regions, NEW k \in Bricks, Edit(q, k) PROVE grid' = grid
    BY <2>5, Zenon DEF Edit
  <2>6. ASSUME NEW q \in Regions, QueueRegeneration(q) PROVE grid' = grid
    BY <2>6, Zenon DEF QueueRegeneration, mainVars
  <2>7. ASSUME NEW i \in 1..Readers, NEW short \in BOOLEAN, Land(i, short) PROVE grid' = grid
    BY <2>7, Zenon DEF Land, mainVars
  <2>8. ASSUME NEW found \in BOOLEAN, Search(found) PROVE grid' = grid
    BY <2>8, Zenon DEF Search
  <2>9. ASSUME Marking PROVE grid' = grid
    BY <2>9, Zenon DEF Marking, Capture, Recapture, FrameEnd, mainVars
  <2> QED
    BY <2>1, <2>2, <2>3, <2>4, <2>5, <2>6, <2>7, <2>8, <2>9, Zenon DEF Next
<1> QED BY <1>1, HandoverInvInit, NextKeepsInv, PTL DEF Spec, GridNeverRegresses
=============================================================================

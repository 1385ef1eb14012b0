------------------------- MODULE ConsolidationProofs -------------------------
(***************************************************************************)
(* What the transactions of Consolidation leave of the things they share:  *)
(* the lists of edits, the slots and tables of the two fixed pools, the    *)
(* queue.                                                                  *)
(*                                                                         *)
(* Lists. What holds of EditPipeline comes first. That an atomic batch     *)
(* lands whole rests on what its preflight established still being true of *)
(* the operations left to append (RestFits), and the order of baked and    *)
(* logged edits on a list holding nothing but edits it took. Whatever the  *)
(* pump, the worker and the world do, the lists change by the steps of     *)
(* EditPipeline only, so this holds with consolidation at work on them.    *)
(* The step in question is the commit, which cuts a list at the            *)
(* through_seq of a snapshot taken long before: that it is a number handed *)
(* out already rests on the transaction still holding the list it took and *)
(* on that list having had a last edit (TxSound, ListsEnd).                *)
(*                                                                         *)
(* Pools. A transaction knows from its snapshot on what its region owns    *)
(* and what it took itself (TxOwns), so each of the eight ways to give it  *)
(* up puts back the same row.                                              *)
(*                                                                         *)
(* Queue. A region waits with a list as long as the threshold, which       *)
(* nothing shortens while it waits (QueueInv).                             *)
(*                                                                         *)
(* Stored normals. The last part is about the allocator of their ranges,   *)
(* NormalRangeAllocator, whose specification is Spec here.                 *)
(***************************************************************************)
EXTENDS Consolidation, NormalRangeAllocator, TLAPS, FiniteSetTheorems, SequenceTheorems,
        WellFoundedInduction

-----------------------------------------------------------------------------
(* The edit log and its batches                                            *)

(* A list holds no edit it never took.                                     *)
LoggedWasAccepted == \A r \in Regions : log[r] \subseteq accepted[r]

(* While an atomic batch is being appended, the rest of it still passes    *)
(* the preflight.                                                          *)
RestFits == atomic => Preflight(batch)

EditInv == /\ EditTypeOK
           /\ LoggedWasAccepted
           /\ RestFits
           /\ AtomicWhole
           /\ CapHolds
           /\ BakedBeforeLogged

-----------------------------------------------------------------------------

(* The sequence numbers of a list are finitely many.                       *)
LEMMA LogFinite ==
  ASSUME EditTypeOK, NEW r \in Regions
  PROVE  /\ log[r] \in SUBSET (1..LastSeq)
         /\ IsFiniteSet(log[r])
         /\ OpCount(r) \in Nat
<1>1. /\ log[r] \in SUBSET (1..LastSeq)
      /\ LastSeq \in Nat
  BY DEF EditTypeOK, LastSeq
<1>2. IsFiniteSet(1..LastSeq)
  BY <1>1, FS_Interval
<1> QED
  BY <1>1, <1>2, FS_Subset, FS_CardinalityType DEF OpCount

(* An operation reaches nothing outside the regions.                       *)
LEMMA OpFootprint ==
  ASSUME EditAssumption, NEW op \in Ops
  PROVE  DOMAIN op \subseteq Regions
BY DEF EditAssumption

(* Taking the first operation off a batch takes it off the footprint       *)
(* counts of the regions it reaches, and off no other.                     *)
LEMMA AddsOfTail ==
  ASSUME EditAssumption, NEW ops \in Seq(Ops \cup {Junk}), ops # <<>>, NEW r
  PROVE  /\ IsFiniteSet(Adds(ops, r))
         /\ Cardinality(Adds(ops, r)) \in Nat
         /\ Cardinality(Adds(Tail(ops), r)) \in Nat
         /\ Cardinality(Adds(Tail(ops), r)) =
              IF 1 \in Adds(ops, r) THEN Cardinality(Adds(ops, r)) - 1
                                    ELSE Cardinality(Adds(ops, r))
         /\ 1 \in Adds(ops, r) <=> (Head(ops) # Junk /\ r \in DOMAIN Head(ops))
<1> DEFINE A == Adds(ops, r)
           B == Adds(Tail(ops), r)
           shift == [i \in B |-> i + 1]
<1>1. /\ Len(ops) \in Nat \ {0}
      /\ DOMAIN ops = 1..Len(ops)
      /\ Tail(ops) \in Seq(Ops \cup {Junk})
      /\ DOMAIN Tail(ops) = 1..(Len(ops) - 1)
      /\ \A i \in 1..(Len(ops) - 1) : Tail(ops)[i] = ops[i + 1]
      /\ Head(ops) = ops[1]
  BY EmptySeq, LenProperties, HeadTailProperties
<1>2. IsFiniteSet(A)
  <2>1. A \in SUBSET (1..Len(ops))
    BY <1>1 DEF Adds
  <2>2. 1 \in Int /\ Len(ops) \in Int
    BY <1>1
  <2>3. IsFiniteSet(1..Len(ops))
    BY <2>2, FS_Interval
  <2> HIDE DEF A
  <2> QED
    BY <2>1, <2>3, FS_Subset
<1>3. IsFiniteSet(B)
  <2>1. B \in SUBSET (1..(Len(ops) - 1))
    BY <1>1 DEF Adds
  <2>2. 1 \in Int /\ Len(ops) - 1 \in Int
    BY <1>1
  <2>3. IsFiniteSet(1..(Len(ops) - 1))
    BY <2>2, FS_Interval
  <2> HIDE DEF B
  <2> QED
    BY <2>1, <2>3, FS_Subset
<1>4. shift \in Bijection(B, A \ {1})
  <2>1. \A i \in B : i + 1 \in A \ {1}
    BY <1>1 DEF Adds
  <2>2. \A a, b \in B : shift[a] = shift[b] => a = b
    BY <1>1 DEF Adds
  <2>3. \A a \in A \ {1} : \E i \in B : shift[i] = a
    <3> SUFFICES ASSUME NEW a \in A \ {1}
                 PROVE  a - 1 \in B /\ shift[a - 1] = a
      OBVIOUS
    <3> QED
      BY <1>1 DEF Adds
  <2> QED
    BY <2>1, <2>2, <2>3 DEF Bijection, Injection, Surjection, IsInjective
<1>5. Cardinality(B) = Cardinality(A \ {1})
  BY <1>3, <1>4, FS_Bijection DEF ExistsBijection
<1>6. 1 \in A <=> (Head(ops) # Junk /\ r \in DOMAIN Head(ops))
  BY <1>1 DEF Adds
<1> HIDE DEF A, B, shift
<1>7. /\ Cardinality(A) \in Nat
      /\ Cardinality(B) \in Nat
      /\ Cardinality(A \ {1}) = IF 1 \in A THEN Cardinality(A) - 1 ELSE Cardinality(A)
  BY <1>2, <1>3, FS_CardinalityType, FS_RemoveElement
<1> QED
  BY <1>2, <1>5, <1>6, <1>7 DEF A, B

(* An atomic batch that fits, and is not empty, starts with an operation   *)
(* for which every region it reaches has room.                             *)
LEMMA HeadTouchesAll ==
  ASSUME EditAssumption, EditTypeOK, ~LockFree, Preflight(batch)
  PROVE  /\ Head(batch) \in Ops
         /\ Touched(Head(batch)) = DOMAIN Head(batch)
<1>1. batch \in Seq(Ops \cup {Junk}) /\ batch # <<>>
  BY DEF EditTypeOK, LockFree
<1>2. Head(batch) = batch[1] /\ 1 \in DOMAIN batch /\ Head(batch) \in Ops \cup {Junk}
  BY <1>1, EmptySeq, LenProperties, HeadTailProperties
<1>3. Head(batch) \in Ops
  BY <1>2 DEF Preflight
<1>4. DOMAIN Head(batch) \subseteq Regions
  BY <1>3, OpFootprint
<1>5. ASSUME NEW r \in DOMAIN Head(batch)
      PROVE  OpCount(r) < MaxRegionOps
  <2>1. r \in Regions /\ 1 \in Adds(batch, r)
    BY <1>2, <1>3, <1>4, <1>5 DEF Adds, EditAssumption
  <2>2. OpCount(r) + Cardinality(Adds(batch, r)) <= MaxRegionOps
    BY <2>1 DEF Preflight
  <2>3. Cardinality(Adds(batch, r)) \in Nat /\ Cardinality(Adds(batch, r)) # 0
    BY <1>1, <2>1, AddsOfTail, FS_EmptySet
  <2>4. OpCount(r) \in Nat /\ MaxRegionOps \in Nat
    BY <2>1, LogFinite DEF EditAssumption
  <2> QED
    BY <2>2, <2>3, <2>4
<1> QED
  BY <1>3, <1>5 DEF Touched

-----------------------------------------------------------------------------

(* In the first state every list is empty and no batch is open.            *)
LEMMA EditInitInv == EditAssumption /\ EditInit => EditInv
<1> SUFFICES ASSUME EditAssumption, EditInit
             PROVE  EditInv
  OBVIOUS
<1>1. LastSeq = 0 /\ 1..LastSeq = {}
  BY DEF EditInit, LastSeq
<1>2. \A r \in Regions : OpCount(r) = 0
  BY FS_EmptySet DEF EditInit, OpCount
<1>3. EditTypeOK
  <2>1. \A r \in Regions : {} \in SUBSET (1..LastSeq)
    OBVIOUS
  <2>2. 0 \in 0..LastSeq
    BY <1>1
  <2> QED
    BY <2>1, <2>2, EmptySeq DEF EditInit, EditTypeOK
<1> QED
  BY <1>1, <1>2, <1>3
  DEF EditInv, EditInit, LoggedWasAccepted, RestFits, AtomicWhole, CapHolds,
      BakedBeforeLogged, EditAssumption

(* Appending the head of the batch keeps the invariant: this is the step   *)
(* that grows lists.                                                       *)
LEMMA AppendHeadInv ==
  ASSUME EditAssumption, EditInv, AppendHead
  PROVE  EditInv'
<1> DEFINE op == Head(batch)
           T  == Touched(op)
<1>1. /\ batch \in Seq(Ops \cup {Junk}) /\ batch # <<>>
      /\ op \in Ops
      /\ Tail(batch) \in Seq(Ops \cup {Junk})
  BY HeadTailProperties DEF EditInv, EditTypeOK, AppendHead, LockFree
<1>2. T \subseteq Regions
  BY <1>1 DEF Touched, EditAssumption
<1>3. /\ LastSeq \in Nat
      /\ LastSeq' = LastSeq + 1
      /\ NextSeq = LastSeq + 1
      /\ history' = Append(history, [op |-> op, atomic |-> atomic])
      /\ history' \in Seq(HistoryEntry)
      /\ \A s \in 1..LastSeq : history'[s] = history[s]
      /\ history'[LastSeq + 1] = [op |-> op, atomic |-> atomic]
  BY <1>1 DEF EditInv, EditTypeOK, AppendHead, LastSeq, NextSeq, HistoryEntry
<1>4. /\ \A r \in Regions : log'[r] = IF r \in T THEN log[r] \cup {LastSeq + 1} ELSE log[r]
      /\ \A r \in Regions :
            accepted'[r] = IF r \in T THEN accepted[r] \cup {LastSeq + 1} ELSE accepted[r]
      /\ DOMAIN log' = Regions /\ DOMAIN accepted' = Regions
      /\ log' = [r \in Regions |-> log'[r]]
      /\ accepted' = [r \in Regions |-> accepted'[r]]
  BY <1>3 DEF AppendHead, Take
<1> HIDE DEF op, T
<1>5. /\ \A r \in Regions : log[r] \in SUBSET (1..LastSeq)
      /\ \A r \in Regions : accepted[r] \in SUBSET (1..LastSeq)
  BY DEF EditInv, EditTypeOK
<1>6. EditTypeOK'
  <2>1. \A r \in Regions : /\ log'[r] \in SUBSET (1..(LastSeq + 1))
                           /\ accepted'[r] \in SUBSET (1..(LastSeq + 1))
    <3>1. 1..LastSeq \subseteq 1..(LastSeq + 1) /\ LastSeq + 1 \in 1..(LastSeq + 1)
      BY <1>3
    <3> QED
      BY <1>4, <1>5, <3>1
  <2>2. /\ log' \in [Regions -> SUBSET (1..LastSeq')]
        /\ accepted' \in [Regions -> SUBSET (1..LastSeq')]
    BY <1>3, <1>4, <2>1
  <2>3. editSeq' \in 0..LastSeq'
    BY <1>3 DEF EditInv, EditTypeOK, AppendHead
  <2> QED
    BY <1>1, <1>3, <2>2, <2>3 DEF EditInv, EditTypeOK, AppendHead
<1>7. LoggedWasAccepted'
  BY <1>4 DEF EditInv, LoggedWasAccepted
<1>8. \A r \in Regions : OpCount(r) \in Nat /\ OpCount(r)' =
                            IF r \in T THEN OpCount(r) + 1 ELSE OpCount(r)
  <2> SUFFICES ASSUME NEW r \in Regions
               PROVE  OpCount(r) \in Nat /\ OpCount(r)' =
                        IF r \in T THEN OpCount(r) + 1 ELSE OpCount(r)
    OBVIOUS
  <2>1. IsFiniteSet(log[r]) /\ OpCount(r) \in Nat
    BY LogFinite DEF EditInv
  <2>2. LastSeq + 1 \notin log[r]
    <3>1. LastSeq + 1 \notin 1..LastSeq
      BY <1>3
    <3> QED
      BY <1>5, <3>1
  <2>3. Cardinality(log[r] \cup {LastSeq + 1}) = Cardinality(log[r]) + 1
    BY <2>1, <2>2, FS_AddElement
  <2> QED
    BY <1>4, <2>1, <2>3 DEF OpCount
<1>9. CapHolds'
  BY <1>2, <1>8 DEF EditInv, CapHolds, Touched, EditAssumption, T
<1>10. BakedBeforeLogged'
  <2> SUFFICES ASSUME NEW r \in Regions, NEW s \in accepted'[r] \ log'[r],
                      NEW t \in log'[r]
               PROVE  s < t
    BY DEF BakedBeforeLogged
  <2>1. s \in accepted[r] \ log[r] /\ s \in 1..LastSeq
    BY <1>4, <1>5
  <2>2. CASE t \in log[r]
    BY <2>1, <2>2 DEF EditInv, BakedBeforeLogged
  <2>3. CASE t = LastSeq + 1
    BY <1>3, <2>1, <2>3
  <2> QED
    BY <1>4, <2>2, <2>3
<1>11. RestFits'
  <2> SUFFICES ASSUME atomic
               PROVE  Preflight(batch)'
    BY DEF RestFits, AppendHead
  <2>1. Preflight(batch) /\ T = DOMAIN op
    BY HeadTouchesAll DEF EditInv, RestFits, AppendHead, op, T
  <2>2. \A i \in DOMAIN Tail(batch) : Tail(batch)[i] # Junk
    <3> SUFFICES ASSUME NEW i \in DOMAIN Tail(batch)
                 PROVE  i + 1 \in DOMAIN batch /\ Tail(batch)[i] = batch[i + 1]
      BY <2>1 DEF Preflight
    <3> QED
      BY <1>1, HeadTailProperties, LenProperties
  <2>3. ASSUME NEW r \in Regions, Adds(Tail(batch), r) # {}
        PROVE  OpCount(r)' + Cardinality(Adds(Tail(batch), r)) <= MaxRegionOps
    <3>1. /\ IsFiniteSet(Adds(batch, r))
          /\ Cardinality(Adds(batch, r)) \in Nat
          /\ Cardinality(Adds(Tail(batch), r)) =
               IF r \in T THEN Cardinality(Adds(batch, r)) - 1
                          ELSE Cardinality(Adds(batch, r))
      BY <1>1, <2>1, AddsOfTail DEF AppendHead, op
    <3>2. Adds(batch, r) # {}
      <4>1. PICK i \in DOMAIN Tail(batch) : Tail(batch)[i] # Junk /\ r \in DOMAIN Tail(batch)[i]
        BY <2>3 DEF Adds
      <4>2. i + 1 \in DOMAIN batch /\ batch[i + 1] = Tail(batch)[i]
        BY <1>1, HeadTailProperties, LenProperties
      <4> QED
        BY <4>1, <4>2 DEF Adds
    <3>3. OpCount(r) + Cardinality(Adds(batch, r)) <= MaxRegionOps
      BY <2>1, <3>2 DEF Preflight
    <3> QED
      <4>1. OpCount(r) \in Nat /\ MaxRegionOps \in Nat
        BY <1>8 DEF EditAssumption
      <4>2. OpCount(r)' = IF r \in T THEN OpCount(r) + 1 ELSE OpCount(r)
        BY <1>8
      <4> QED
        BY <3>1, <3>3, <4>1, <4>2
  <2> QED
    BY <2>2, <2>3 DEF Preflight, AppendHead, Adds
<1>12. AtomicWhole'
  <2> SUFFICES ASSUME NEW s \in 1..LastSeq', history'[s].atomic,
                      NEW r \in DOMAIN history'[s].op
               PROVE  s \in accepted'[r]
    BY DEF AtomicWhole
  <2>1. CASE s \in 1..LastSeq
    <3>1. r \in Regions
      <4>1. history[s] \in HistoryEntry /\ history'[s] = history[s]
        BY <1>3, <2>1, ElementOfSeq DEF EditInv, EditTypeOK, LastSeq
      <4> QED
        BY <4>1, OpFootprint DEF HistoryEntry
    <3>2. s \in accepted[r]
      BY <1>3, <2>1 DEF EditInv, AtomicWhole
    <3> QED
      BY <1>4, <3>1, <3>2
  <2>2. CASE s = LastSeq + 1
    <3>1. atomic /\ r \in DOMAIN op
      <4>1. history'[s].atomic = atomic /\ history'[s].op = op
        <5>1. history'[s] = [op |-> op, atomic |-> atomic]
          BY <1>3, <2>2
        <5> QED
          BY <5>1
      <4> QED
        BY <4>1
    <3>2. r \in T
      BY <3>1, HeadTouchesAll DEF EditInv, RestFits, AppendHead, op, T
    <3> QED
      BY <1>2, <1>4, <2>2, <3>2
  <2> QED
    BY <1>3, <2>1, <2>2
<1> QED
  BY <1>6, <1>7, <1>9, <1>10, <1>11, <1>12 DEF EditInv

(* Dropping the baked prefix of a list keeps the invariant: this is the    *)
(* step that shrinks lists.                                                *)
LEMMA ClearThroughInv ==
  ASSUME EditAssumption, EditInv, NEW q \in Regions, NEW z \in 0..LastSeq,
         ClearThrough(q, z)
  PROVE  EditInv'
<1>1. /\ LastSeq' = LastSeq
      /\ DOMAIN log' = Regions
      /\ \A r \in Regions : log'[r] = IF r = q THEN {t \in log[r] : t > z} ELSE log[r]
      /\ accepted' = accepted /\ history' = history
  BY DEF ClearThrough, LastSeq, EditInv, EditTypeOK
<1>2. EditTypeOK'
  BY <1>1 DEF EditInv, EditTypeOK, ClearThrough
<1>3. LoggedWasAccepted'
  BY <1>1 DEF EditInv, LoggedWasAccepted
<1>4. \A r \in Regions : OpCount(r)' \in Nat /\ OpCount(r) \in Nat /\ OpCount(r)' <= OpCount(r)
  <2> SUFFICES ASSUME NEW r \in Regions
               PROVE  OpCount(r)' \in Nat /\ OpCount(r) \in Nat /\ OpCount(r)' <= OpCount(r)
    OBVIOUS
  <2>1. IsFiniteSet(log[r]) /\ log'[r] \in SUBSET log[r]
    BY <1>1, LogFinite DEF EditInv
  <2> QED
    BY <2>1, FS_Subset, FS_CardinalityType DEF OpCount
<1>5. CapHolds'
  BY <1>4 DEF EditInv, CapHolds, EditAssumption
<1>6. BakedBeforeLogged'
  <2> SUFFICES ASSUME NEW r \in Regions, NEW s \in accepted[r] \ log'[r],
                      NEW t \in log'[r]
               PROVE  s < t
    BY <1>1 DEF BakedBeforeLogged
  <2>1. s \in Nat /\ t \in Nat /\ z \in Nat /\ t \in log[r]
    BY <1>1 DEF EditInv, EditTypeOK, LastSeq
  <2>2. CASE s \notin log[r]
    BY <2>1, <2>2 DEF EditInv, BakedBeforeLogged
  <2>3. CASE s \in log[r]
    BY <1>1, <2>1, <2>3
  <2> QED
    BY <2>2, <2>3
<1>7. RestFits'
  <2>1. batch = <<>> /\ batch' = <<>>
    BY DEF ClearThrough, LockFree
  <2>2. Adds(<<>>, 1)' = {} /\ \A r \in Regions : Adds(batch', r) = {}
    BY <2>1 DEF Adds
  <2> QED
    BY <2>1, <2>2 DEF RestFits, Preflight, Adds
<1>8. AtomicWhole'
  BY <1>1 DEF EditInv, AtomicWhole
<1> QED
  BY <1>2, <1>3, <1>5, <1>6, <1>7, <1>8 DEF EditInv

(* Every step keeps the invariant.                                         *)
LEMMA EditStepInv == EditAssumption /\ EditInv /\ [EditNext]_editVars => EditInv'
<1> SUFFICES ASSUME EditAssumption, EditInv, [EditNext]_editVars
             PROVE  EditInv'
  OBVIOUS
<1>1. ASSUME NEW ops \in Batches, NEW pol \in Policies, BeginBatch(ops, pol)
      PROVE  EditInv'
  <2>1. batch' \in Seq(Ops \cup {Junk})
    BY <1>1 DEF BeginBatch, Batches
  <2>2. EditTypeOK'
    BY <1>1, <2>1 DEF EditInv, EditTypeOK, BeginBatch, LastSeq, EditAssumption
  <2>3. RestFits'
    BY <1>1 DEF RestFits, BeginBatch, Preflight, Adds, OpCount
  <2> QED
    BY <1>1, <2>2, <2>3
    DEF EditInv, LoggedWasAccepted, AtomicWhole, CapHolds, BakedBeforeLogged, BeginBatch,
        OpCount, LastSeq
<1>2. CASE SkipJunk
  <2>1. batch \in Seq(Ops \cup {Junk}) /\ batch # <<>>
    BY <1>2 DEF EditInv, EditTypeOK, SkipJunk, LockFree
  <2>2. EditTypeOK'
    BY <1>2, <2>1, HeadTailProperties DEF EditInv, EditTypeOK, SkipJunk, LastSeq
  <2>3. ~atomic
    BY <1>2, HeadTouchesAll DEF EditInv, RestFits, SkipJunk, EditAssumption
  <2> QED
    BY <1>2, <2>2, <2>3
    DEF EditInv, LoggedWasAccepted, RestFits, AtomicWhole, CapHolds, BakedBeforeLogged,
        SkipJunk, OpCount, LastSeq
<1>3. CASE AppendHead
  BY <1>3, AppendHeadInv
<1>4. ASSUME NEW r \in Regions, NEW s \in 0..LastSeq, ClearThrough(r, s)
      PROVE  EditInv'
  BY <1>4, ClearThroughInv
<1>5. CASE UNCHANGED editVars
  BY <1>5 DEF EditInv, EditTypeOK, LoggedWasAccepted, RestFits, AtomicWhole, CapHolds,
              BakedBeforeLogged, Preflight, Adds, OpCount, LastSeq, editVars
<1> QED
  BY <1>1, <1>2, <1>3, <1>4, <1>5 DEF EditNext

(* The log's invariants hold in every state of every run: lists, history   *)
(* and counters have their types; no list passes kMaxRegionOps; an atomic  *)
(* batch is in every list it reaches; baked edits precede logged ones.     *)
THEOREM EditSafety ==
  ASSUME EditAssumption
  PROVE  EditSpec => [](EditTypeOK /\ AtomicWhole /\ CapHolds /\ BakedBeforeLogged)
<1>1. EditInit => EditInv
  BY EditInitInv
<1>2. EditInv /\ [EditNext]_editVars => EditInv'
  BY EditStepInv
<1>3. EditInv => EditTypeOK /\ AtomicWhole /\ CapHolds /\ BakedBeforeLogged
  BY DEF EditInv
<1> QED
  BY <1>1, <1>2, <1>3, PTL DEF EditSpec

-----------------------------------------------------------------------------
(* The lists under consolidation                                           *)

(* A set of sequence numbers has a newest.                                 *)
HasLast(S) == \E m \in S : \A t \in S : t <= m

(* Every list with an edit in it has a newest one.                         *)
ListsEnd == \A r \in Regions : log[r] # {} => HasLast(log[r])

(* The bound on sequence numbers covers the batch in progress.             *)
SeqBound == LastSeq + Len(batch) <= MaxSeq

(* A transaction in flight names a region and a table and holds a list it  *)
(* once saw; a result that came back has bytes for each of its bricks.     *)
TxSound ==
  ~Idle =>
    /\ tx.region \in Regions
    /\ tx.table \in Tables
    /\ tx.ops \subseteq 1..LastSeq
    /\ HasLast(tx.ops)
    /\ tx.phase = "baking" => tx.ok = FALSE
    /\ tx.phase \in {"publishing", "published"} \/ (tx.phase = "baked" /\ tx.ok)
         => DOMAIN tx.baked = tx.bricks

(* The types and the facts about lists and transactions they rest on.      *)
ConsInv == /\ EditInv
           /\ ConsTypeOK
           /\ ListsEnd
           /\ SeqBound
           /\ TxSound

-----------------------------------------------------------------------------
(* The edit side of a step                                                 *)

(* Edit steps keep a newest edit in every list and never take back a       *)
(* sequence number.                                                        *)
LEMMA EditStepExtras ==
  ASSUME EditAssumption, EditInv, ListsEnd, SeqBound, [EditNext]_editVars
  PROVE  ListsEnd' /\ SeqBound' /\ LastSeq \in Nat /\ LastSeq' \in Nat /\ LastSeq <= LastSeq'
<1>0. /\ history \in Seq(HistoryEntry) /\ batch \in Seq(Ops \cup {Junk})
      /\ LastSeq \in Nat /\ Len(batch) \in Nat
      /\ log \in [Regions -> SUBSET (1..LastSeq)]
      /\ MaxSeq \in Nat
  BY LenProperties DEF EditInv, EditTypeOK, LastSeq, EditAssumption
<1>1. ASSUME NEW ops \in Batches, NEW pol \in Policies, BeginBatch(ops, pol)
      PROVE  ListsEnd' /\ SeqBound' /\ LastSeq' = LastSeq
  BY <1>0, <1>1 DEF BeginBatch, ListsEnd, HasLast, SeqBound, LastSeq
<1>2. CASE SkipJunk
  <2>1. Len(Tail(batch)) = Len(batch) - 1
    BY <1>0, <1>2, HeadTailProperties DEF SkipJunk, LockFree
  <2>2. LastSeq' = LastSeq /\ log' = log /\ Len(batch') = Len(batch) - 1
    BY <1>2, <2>1 DEF SkipJunk, LastSeq
  <2>3. SeqBound'
    BY <1>0, <2>2 DEF SeqBound
  <2>4. ListsEnd'
    BY <2>2, Zenon DEF ListsEnd
  <2> QED
    BY <1>0, <2>2, <2>3, <2>4
<1>3. CASE AppendHead
  <2>1. /\ Len(batch') = Len(batch) - 1
        /\ LastSeq' = LastSeq + 1
    BY <1>0, <1>3, HeadTailProperties, AppendProperties DEF AppendHead, LockFree, LastSeq
  <2>2. ASSUME NEW r \in Regions, log'[r] # {} PROVE HasLast(log'[r])
    <3>1. log'[r] = log[r] \/ log'[r] = log[r] \cup {LastSeq + 1}
      BY <1>3 DEF AppendHead, Take, NextSeq, LastSeq
    <3>2. CASE log'[r] = log[r]
      BY <2>2, <3>2 DEF ListsEnd
    <3>3. CASE log'[r] = log[r] \cup {LastSeq + 1}
      <4>1. \A t \in log'[r] : t <= LastSeq + 1
        BY <1>0, <3>3
      <4> QED
        BY <3>3, <4>1 DEF HasLast
    <3> QED
      BY <3>1, <3>2, <3>3
  <2> QED
    BY <1>0, <2>1, <2>2 DEF ListsEnd, SeqBound
<1>4. ASSUME NEW q \in Regions, NEW s \in 0..LastSeq, ClearThrough(q, s)
      PROVE  ListsEnd' /\ SeqBound' /\ LastSeq' = LastSeq
  <2>1. /\ batch' = batch /\ LastSeq' = LastSeq
        /\ \A r \in Regions : log'[r] = IF r = q THEN {t \in log[r] : t > s} ELSE log[r]
    BY <1>0, <1>4 DEF ClearThrough, LastSeq
  <2>2. ASSUME NEW r \in Regions, log'[r] # {} PROVE HasLast(log'[r])
    <3>1. PICK x \in log'[r] : TRUE
      BY <2>2
    <3>2. log'[r] \subseteq log[r]
      BY <2>1
    <3>3. PICK m \in log[r] : \A t \in log[r] : t <= m
      BY <3>1, <3>2 DEF ListsEnd, HasLast
    <3>4. x \in Nat /\ m \in Nat /\ s \in Nat /\ x <= m
      BY <1>0, <3>1, <3>2, <3>3
    <3>5. r = q => m > s
      <4>1. r = q => x > s
        BY <2>1, <3>1
      <4> QED
        BY <3>4, <4>1
    <3>6. m \in log'[r]
      BY <2>1, <3>3, <3>5
    <3> QED
      BY <3>2, <3>3, <3>6 DEF HasLast
  <2> QED
    BY <2>1, <2>2 DEF ListsEnd, SeqBound
<1>5. CASE UNCHANGED editVars
  BY <1>0, <1>5 DEF editVars, ListsEnd, HasLast, SeqBound, LastSeq
<1> QED
  BY <1>0, <1>1, <1>2, <1>3, <1>4, <1>5 DEF EditNext

(* The commit cuts the list at a sequence number that was handed out.      *)
LEMMA ThroughSeqInRange ==
  ASSUME ConsInv, ~Idle
  PROVE  tx.region \in Regions /\ ThroughSeq \in 0..LastSeq
<1>1. ThroughSeq \in tx.ops
  BY DEF ConsInv, TxSound, HasLast, ThroughSeq
<1> QED
  BY <1>1 DEF ConsInv, TxSound

(* Every step is an edit step or leaves the edit side alone.               *)
LEMMA StepIsEditStep == ConsInv /\ [ConsNext]_vars => [EditNext]_editVars
<1> SUFFICES ASSUME ConsInv, [ConsNext]_vars PROVE [EditNext]_editVars
  OBVIOUS
<1>1. CASE EditStep
  BY <1>1 DEF EditStep, StartBatch, SkipEdit, TakeEdit, EditNext
<1>2. CASE PumpCommit
  BY <1>2, ThroughSeqInRange DEF PumpCommit, Idle, EditNext
<1>3. CASE PumpStep /\ ~PumpCommit
  BY <1>3 DEF PumpStep, StartBake, PumpBakeFailed, PumpBakeMoved, PumpBakeResult,
    PumpUploadFailed, PumpPublishFailed, PumpRebuild, PumpRebuildFailed, PumpPublishMoved
<1>4. CASE WorkerStep
  BY <1>4 DEF WorkerStep, WorkerUpdate, WorkerBake, WorkerBakeFails, WorkerPublish,
    WorkerPublishFails, WorkerRestoreFails
<1>5. CASE WorldStep
  BY <1>5 DEF WorldStep, Evict, Load, ReloadRender, TeardownWorker, StartWorker
<1>6. CASE UNCHANGED vars
  BY <1>6 DEF vars
<1> QED
  BY <1>1, <1>2, <1>3, <1>4, <1>5, <1>6 DEF ConsNext, PumpStep

-----------------------------------------------------------------------------
(* Types of the operations on a pool                                       *)

(* The pools of bytes and rows, and what is uploaded to one.               *)
Mirrors == Mirror \cup WorkerMirror
SomeBytes == UNION {[D -> Content] : D \in SUBSET Bricks}

(* Uploading, setting and clearing rows leaves a pool a pool, and the      *)
(* worker's tables alone.                                                  *)
LEMMA PoolTypes ==
  ASSUME NEW m \in Mirrors, NEW row \in Row, NEW data \in SomeBytes,
         NEW t \in Tables \cup {None}
  PROVE  /\ m \in Mirror => Upload(m, row, data) \in Mirror
         /\ m \in Mirror => SetRow(m, t, row) \in Mirror
         /\ m \in Mirror => ClearRow(m, t) \in Mirror
         /\ m \in WorkerMirror => Upload(m, row, data) \in WorkerMirror
         /\ m \in WorkerMirror => SetRow(m, t, row) \in WorkerMirror
         /\ m \in WorkerMirror => ClearRow(m, t) \in WorkerMirror
<1> DEFINE byte(s) == IF \E k \in DOMAIN data : row[k] = s
                      THEN data[CHOOSE k \in DOMAIN data : row[k] = s] ELSE m.bytes[s]
           rowOf == [k \in Bricks |-> IF row[k] # None THEN row[k] ELSE m.rows[t][k]]
<1>1. m.bytes \in [Slots -> Content] /\ m.rows \in [Tables -> Row]
  BY DEF Mirrors, Mirror, WorkerMirror
<1>2. ASSUME NEW s \in Slots PROVE byte(s) \in Content
  <2>1. CASE \E k \in DOMAIN data : row[k] = s
    BY <2>1 DEF SomeBytes
  <2>2. CASE ~\E k \in DOMAIN data : row[k] = s
    BY <1>1, <2>2
  <2> QED
    BY <2>1, <2>2
<1>3. NoRow \in Row
  BY DEF NoRow, Row
<1>4. t \in Tables => rowOf \in Row
  BY <1>1 DEF Row
<1>5. Upload(m, row, data) = [m EXCEPT !.bytes = [s \in Slots |-> byte(s)]]
  BY <1>1 DEF Upload, Mirrors, Mirror, WorkerMirror
<1>6. t # None => SetRow(m, t, row) = [m EXCEPT !.rows = [@ EXCEPT ![t] = rowOf]]
  BY <1>1 DEF SetRow, Mirrors, Mirror, WorkerMirror
<1>7. ClearRow(m, t) = [m EXCEPT !.rows = [@ EXCEPT ![t] = NoRow]]
  BY <1>1 DEF ClearRow, Mirrors, Mirror, WorkerMirror
<1> HIDE DEF byte, rowOf
<1>8. [s \in Slots |-> byte(s)] \in [Slots -> Content]
  BY <1>2
<1>9. [m.rows EXCEPT ![t] = NoRow] \in [Tables -> Row]
  BY <1>1, <1>3
<1>10. t # None => [m.rows EXCEPT ![t] = rowOf] \in [Tables -> Row]
  BY <1>1, <1>4
<1>11. t = None => SetRow(m, t, row) = m
  BY DEF SetRow
<1> QED
  BY <1>5, <1>6, <1>7, <1>8, <1>9, <1>10, <1>11 DEF Mirror, WorkerMirror

(* A replay from a well-typed store gives a pool.                          *)
LEMMA ReplayType ==
  ASSUME NEW m \in Mirrors, NEW so \in [Regions -> Row], cpu \in [Slots -> Content]
  PROVE  /\ m \in Mirror => Replay(m, so) \in Mirror
         /\ m \in WorkerMirror => Replay(m, so) \in WorkerMirror
<1> DEFINE named(s) == \E b \in {b \in Regions \X Bricks : tableOf[b[1]] # None} :
                          so[b[1]][b[2]] = s
           byte(s) == IF named(s) THEN cpu[s] ELSE m.bytes[s]
           rowOf(t) == IF \E r \in Regions : tableOf[r] = t
                       THEN so[CHOOSE r \in Regions : tableOf[r] = t] ELSE NoRow
<1>1. m.bytes \in [Slots -> Content]
  BY DEF Mirrors, Mirror, WorkerMirror
<1>2. Replay(m, so) = [m EXCEPT !.bytes = [s \in Slots |-> byte(s)],
                                !.rows = [t \in Tables |-> rowOf(t)]]
  BY <1>1 DEF Replay, Mirrors, Mirror, WorkerMirror
<1>3. NoRow \in Row
  BY DEF NoRow, Row
<1>4. ASSUME NEW t PROVE rowOf(t) \in Row
  BY <1>3
<1> HIDE DEF named, rowOf
<1>5. [s \in Slots |-> byte(s)] \in [Slots -> Content]
  BY <1>1
<1> HIDE DEF byte
<1>6. [t \in Tables |-> rowOf(t)] \in [Tables -> Row]
  BY <1>4
<1> QED
  BY <1>2, <1>5, <1>6 DEF Mirror, WorkerMirror

-----------------------------------------------------------------------------
(* The transaction's own data                                              *)

(* The state besides the edit side has its types.                          *)
PartsOK == /\ slotOf \in [Regions -> Row]
           /\ cpu \in [Slots -> Content]
           /\ tableOf \in [Regions -> Tables \cup {None}]
           /\ render \in Mirror
           /\ worker \in WorkerMirror
           /\ workerState \in {"ok", "invalid", "down"}
           /\ updates \in Seq([region : Regions, table : Tables, row : Row])
           /\ residency \in [Regions -> RSlots \cup {None}]
           /\ queue \in Seq(Regions)
           /\ tx \in TxType

(* The type invariant is that of the edit log and that of the rest.        *)
LEMMA TypeParts == ConsTypeOK <=> EditTypeOK /\ PartsOK
BY DEF ConsTypeOK, PartsOK

(* A transaction in flight holds bytes by brick, and the rows it sets or   *)
(* puts back are rows.                                                     *)
LEMMA TxParts ==
  ASSUME PartsOK, TxSound, ~Idle
  PROVE  /\ tx.old \in SomeBytes /\ tx.baked \in SomeBytes
         /\ tx.table \in Tables /\ tx.oldTable \in Tables \cup {None}
         /\ tx.region \in Regions
         /\ slotOf[tx.region] \in Row /\ OldRow \in Row
         /\ [slotOf EXCEPT ![tx.region] = OldRow] \in [Regions -> Row]
<1>1. /\ tx.old \in SomeBytes /\ tx.baked \in SomeBytes
      /\ tx.oldTable \in Tables \cup {None}
      /\ tx.table \in Tables /\ tx.region \in Regions
  BY DEF PartsOK, TxType, SomeBytes, TxSound
<1>2. slotOf[tx.region] \in Row
  BY <1>1 DEF PartsOK
<1>3. OldRow \in Row
  BY <1>2 DEF OldRow, Row
<1> QED
  BY <1>1, <1>2, <1>3 DEF PartsOK

(* What a rollback leaves in a pool is a pool.                             *)
LEMMA RollbackType ==
  ASSUME PartsOK, TxSound, ~Idle
  PROVE  /\ \A m \in Mirror : RollbackRender(m) \in Mirror
         /\ \A m \in WorkerMirror : Restored(m) \in WorkerMirror
<1>1. ASSUME NEW m \in Mirror PROVE RollbackRender(m) \in Mirror
  <2>1. Upload(m, OldRow, tx.old) \in Mirror
    BY TxParts, PoolTypes DEF Mirrors
  <2>2. ClearRow(Upload(m, OldRow, tx.old), tx.table) \in Mirror
    BY <2>1, TxParts, PoolTypes DEF Mirrors
  <2> QED
    BY <2>2, TxParts, PoolTypes DEF RollbackRender, Mirrors
<1>2. ASSUME NEW m \in WorkerMirror PROVE Restored(m) \in WorkerMirror
  <2>1. Upload(m, OldRow, tx.old) \in WorkerMirror
    BY TxParts, PoolTypes DEF Mirrors
  <2>2. ClearRow(Upload(m, OldRow, tx.old), tx.table) \in WorkerMirror
    BY <2>1, TxParts, PoolTypes DEF Mirrors
  <2>3. SetRow(ClearRow(Upload(m, OldRow, tx.old), tx.table), tx.oldTable, OldRow)
          \in WorkerMirror
    BY <2>2, TxParts, PoolTypes DEF Mirrors
  <2> QED
    BY <2>3, TxParts DEF Restored, WorkerMirror
<1> QED
  BY <1>1, <1>2

(* An idle transaction has its type and nothing to be sound about.         *)
LEMMA NoTxOK == NoTx \in TxType /\ (tx' = NoTx => TxSound')
<1>1. <<>> \in [{} -> Content]
  OBVIOUS
<1>2. <<>> \in UNION {[D -> Content] : D \in SUBSET Bricks}
  BY <1>1
<1>3. NoTx \in TxType
  BY <1>2 DEF NoTx, TxType
<1> QED
  BY <1>3 DEF NoTx, TxSound, Idle

(* A queue with the region in flight at its front is a queue.              *)
LEMMA RequeueType ==
  ASSUME PartsOK, TxSound, ~Idle
  PROVE  Requeue \in Seq(Regions)
<1>1. <<tx.region>> \in Seq(Regions)
  BY TxParts
<1> QED
  BY <1>1, ConcatProperties DEF Requeue, PartsOK

(* A refusal keeps the types of what it puts back.                         *)
LEMMA RefuseParts ==
  ASSUME PartsOK, TxSound, ~Idle, Refuse
  PROVE  /\ slotOf' \in [Regions -> Row]
         /\ cpu' = cpu /\ tableOf' = tableOf
         /\ render' \in Mirror
         /\ queue' \in Seq(Regions)
         /\ tx' \in TxType /\ TxSound'
BY TxParts, RollbackType, RequeueType, NoTxOK DEF Refuse, PartsOK

-----------------------------------------------------------------------------
(* The steps keep the types and the transaction sound                      *)

(* Slots picked for the bricks of a result give rows.                      *)
LEMMA AcquireType ==
  ASSUME PartsOK, TxSound, ~Idle, NEW pick \in Injection(ToAcquire, FreeSlots)
  PROVE  /\ Acquire(pick) \in [Regions -> Row]
         /\ Acquire(pick)[tx.region] \in Row
<1>1. pick \in [ToAcquire -> Slots]
  BY DEF Injection, FreeSlots
<1>2. /\ tx.region \in Regions /\ slotOf[tx.region] \in Row
      /\ ToAcquire \subseteq Bricks
  BY TxParts DEF PartsOK, TxType, ToAcquire
<1> DEFINE row == [k \in Bricks |-> IF k \in DOMAIN pick THEN pick[k] ELSE slotOf[tx.region][k]]
<1>3. row \in Row
  BY <1>1, <1>2 DEF Row
<1>4. Acquire(pick) = [slotOf EXCEPT ![tx.region] = row]
  BY <1>2 DEF Acquire, PartsOK
<1> HIDE DEF row
<1> QED
  BY <1>2, <1>3, <1>4 DEF PartsOK

(* The pump keeps the types, action by action.                             *)
LEMMA PumpParts ==
  ASSUME EditAssumption, ConsolidationAssumption, ConsInv, PumpStep
  PROVE  PartsOK' /\ TxSound'
<1>0. /\ PartsOK /\ TxSound /\ EditTypeOK
      /\ history \in Seq(HistoryEntry) /\ LastSeq \in Nat /\ LastSeq <= MaxSeq
  <2>1. /\ history \in Seq(HistoryEntry) /\ batch \in Seq(Ops \cup {Junk})
        /\ LastSeq \in Nat /\ Len(batch) \in Nat
    BY LenProperties DEF ConsInv, EditInv, EditTypeOK, LastSeq
  <2> QED
    BY <2>1, TypeParts DEF ConsInv, SeqBound, EditAssumption
<1>1. CASE StartBake
  <2> DEFINE r == Head(queue)
  <2>1. /\ r \in Regions
        /\ queue' \in Seq(Regions)
    BY <1>0, <1>1, HeadTailProperties DEF StartBake, PartsOK
  <2>2. /\ log[r] \subseteq 1..LastSeq
        /\ log[r] # {}
        /\ HasLast(log[r])
    BY <1>1, <2>1 DEF StartBake, BricksToBake, ConsInv, EditInv, EditTypeOK, ListsEnd
  <2>3. TableFor(r) \in Tables
    <3>1. CASE tableOf[r] # None
      BY <1>0, <2>1, <3>1 DEF TableFor, PartsOK
    <3>2. CASE tableOf[r] = None
      <4>1. FreeTables \in SUBSET Tables /\ FreeTables # {}
        BY <1>1, <3>2 DEF StartBake, FreeTables
      <4>2. \E t \in FreeTables : \A u \in FreeTables : t <= u
        BY <4>1 DEF ConsolidationAssumption
      <4> QED
        BY <3>2, <4>1, <4>2 DEF TableFor
    <3> QED
      BY <3>1, <3>2
  <2>4. [k \in Baked(r) |-> cpu[slotOf[r][k]]] \in SomeBytes
    <3>1. Baked(r) \in SUBSET Bricks
      BY DEF Baked
    <3>2. ASSUME NEW k \in Baked(r) PROVE cpu[slotOf[r][k]] \in Content
      <4>1. slotOf[r] \in Row
        BY <1>0, <2>1 DEF PartsOK
      <4>2. slotOf[r][k] \in Slots
        BY <4>1 DEF Baked, Row
      <4> QED
        BY <1>0, <4>2 DEF PartsOK
    <3>3. [k \in Baked(r) |-> cpu[slotOf[r][k]]] \in [Baked(r) -> Content]
      BY <3>2
    <3> QED
      BY <3>1, <3>3 DEF SomeBytes
  <2>5. <<>> \in SomeBytes
    BY NoTxOK DEF NoTx, TxType, SomeBytes
  <2>6. /\ tx'.phase = "baking" /\ tx'.region = r /\ tx'.table = TableFor(r)
        /\ tx'.ok = FALSE
        /\ tx'.ops = log[r] /\ tx' \in TxType
    <3>1. log[r] \subseteq 1..MaxSeq
      BY <1>0, <2>2 DEF EditAssumption
    <3>2. residency[r] \in RSlots \cup {None} /\ tableOf[r] \in Tables \cup {None}
      BY <1>0, <2>1 DEF PartsOK
    <3>3. BricksToBake(r) \in SUBSET Bricks
      BY DEF BricksToBake
    <3> QED
      BY <1>1, <2>1, <2>3, <2>4, <2>5, <3>1, <3>2, <3>3
      DEF StartBake, TxType, SomeBytes
  <2> HIDE DEF r
  <2>7. LastSeq' = LastSeq
    BY <1>1 DEF StartBake, editVars, LastSeq
  <2>8. TxSound'
    BY <2>1, <2>2, <2>3, <2>6, <2>7 DEF TxSound
  <2> QED
    BY <1>0, <1>1, <2>1, <2>6, <2>8 DEF StartBake, PartsOK, store, mesh
<1>2. CASE PumpBakeFailed
  BY <1>0, <1>2, RequeueType, NoTxOK DEF PumpBakeFailed, PartsOK, Idle, store, mesh
<1>3. CASE PumpBakeMoved
  BY <1>0, <1>3, RefuseParts DEF PumpBakeMoved, PartsOK, Idle, mesh
<1>4. ASSUME NEW pick \in Injection(ToAcquire, FreeSlots), PumpBakeResult(pick)
      PROVE  PartsOK' /\ TxSound'
  <2>1. ~Idle /\ tx \in TxType
    BY <1>0, <1>4 DEF PumpBakeResult, Idle, PartsOK
  <2>2. render' \in Mirror
    BY <1>0, <1>4, <2>1, TxParts, AcquireType, PoolTypes
    DEF PumpBakeResult, PartsOK, Mirrors
  <2>3. /\ tx' \in TxType /\ tx'.phase = "publishing" /\ tx'.region = tx.region
        /\ tx'.table = tx.table /\ tx'.ops = tx.ops /\ tx'.baked = tx.baked
        /\ tx'.bricks = tx.bricks
    BY <1>4, <2>1 DEF PumpBakeResult, TxType
  <2>4. LastSeq' = LastSeq
    BY <1>4 DEF PumpBakeResult, editVars, LastSeq
  <2>5. TxSound'
    BY <1>0, <1>4, <2>1, <2>3, <2>4 DEF TxSound, PumpBakeResult
  <2> QED
    BY <1>0, <1>4, <2>1, <2>2, <2>3, <2>5, AcquireType DEF PumpBakeResult, PartsOK, mesh
<1>5. ASSUME NEW pick \in Injection(ToAcquire, FreeSlots), NEW done \in SUBSET tx.bricks,
             PumpUploadFailed(pick, done)
      PROVE  PartsOK' /\ TxSound'
  <2>1. ~Idle
    BY <1>5 DEF PumpUploadFailed, Idle
  <2> DEFINE data == [k \in done |-> tx.baked[k]]
  <2>2. data \in SomeBytes
    <3>1. DOMAIN tx.baked = tx.bricks /\ tx.bricks \subseteq Bricks
      BY <1>0, <1>5, <2>1 DEF TxSound, PumpUploadFailed, PartsOK, TxType
    <3>2. data \in [done -> Content]
      BY <1>0, <2>1, <3>1, TxParts DEF SomeBytes
    <3> QED
      BY <3>1, <3>2 DEF SomeBytes
  <2> HIDE DEF data
  <2>3. Upload(render, Acquire(pick)[tx.region], data) \in Mirror
    BY <1>0, <2>1, <2>2, AcquireType, PoolTypes DEF PartsOK, Mirrors
  <2>4. render' \in Mirror
    BY <1>0, <1>5, <2>1, <2>3, RollbackType DEF PumpUploadFailed, data
  <2> QED
    BY <1>0, <1>5, <2>1, <2>4, RequeueType, NoTxOK DEF PumpUploadFailed, PartsOK, store, mesh
<1>6. CASE PumpPublishFailed
  BY <1>0, <1>6, RefuseParts DEF PumpPublishFailed, PartsOK, Idle, mesh
<1>7. CASE PumpRebuild
  <2>1. ~Idle /\ Refuse
    BY <1>7 DEF PumpRebuild, Idle
  <2>2. slotOf' \in [Regions -> Row]
    BY <1>0, <2>1, RefuseParts
  <2>3. Replay(worker, slotOf') \in WorkerMirror
    BY <1>0, <2>2, ReplayType DEF PartsOK, Mirrors
  <2>4. worker' \in WorkerMirror
    BY <1>0, <1>7, <2>3 DEF PumpRebuild, PartsOK, WorkerMirror
  <2>5. updates' \in Seq([region : Regions, table : Tables, row : Row])
    BY <1>7, EmptySeq DEF PumpRebuild
  <2> QED
    BY <1>0, <1>7, <2>1, <2>4, <2>5, RefuseParts DEF PumpRebuild, PartsOK
<1>8. CASE PumpRebuildFailed
  <2>1. updates' \in Seq([region : Regions, table : Tables, row : Row])
    BY <1>8, EmptySeq DEF PumpRebuildFailed
  <2> QED
    BY <1>0, <1>8, <2>1, TxParts, RollbackType, NoTxOK DEF PumpRebuildFailed, PartsOK, Idle
<1>9. CASE PumpPublishMoved
  BY <1>0, <1>9, RefuseParts DEF PumpPublishMoved, PartsOK, Idle, mesh
<1>10. CASE PumpCommit
  <2>1. ~Idle
    BY <1>10 DEF PumpCommit, Idle
  <2>2. render' \in Mirror
    <3>1. SetRow(render, tx.table, slotOf[tx.region]) \in Mirror
      <4>1. /\ render \in Mirrors /\ render \in Mirror /\ tx.baked \in SomeBytes
            /\ slotOf[tx.region] \in Row /\ tx.table \in Tables \cup {None}
        BY <1>0, <2>1, TxParts DEF PartsOK, Mirrors
      <4> QED
        BY <4>1, PoolTypes
    <3> QED
      BY <1>10, <3>1 DEF PumpCommit, PublishRender
  <2>3. cpu' \in [Slots -> Content]
    <3>1. DOMAIN tx.baked = tx.bricks /\ tx.baked \in SomeBytes
      BY <1>0, <1>10, <2>1, TxParts DEF PumpCommit, TxSound
    <3>2. \A k \in tx.bricks : tx.baked[k] \in Content
      BY <3>1 DEF SomeBytes
    <3>3. CommittedBytes \in [Slots -> Content]
      BY <1>0, <3>2 DEF CommittedBytes, PartsOK
    <3> QED
      BY <1>10, <3>3 DEF PumpCommit
  <2>4. tableOf' \in [Regions -> Tables \cup {None}]
    BY <1>0, <1>10, <2>1, TxParts DEF PumpCommit, PartsOK
  <2> QED
    BY <1>0, <1>10, <2>2, <2>3, <2>4, NoTxOK DEF PumpCommit, PartsOK, mesh
<1> QED
  BY <1>1, <1>2, <1>3, <1>4, <1>5, <1>6, <1>7, <1>8, <1>9, <1>10 DEF PumpStep

(* The base a worker finds under a brick is bytes.                         *)
LEMMA BaseType ==
  ASSUME NEW m \in Mirrors, NEW t \in Tables \cup {None},
         NEW r \in Regions, NEW k \in Bricks
  PROVE  Base(m, t, r, k) \in Content
<1>1. Terrain(r, k) \in Content
  BY DEF Terrain, Brick, Content
<1>2. CASE t = None \/ m.rows[t][k] = None
  BY <1>1, <1>2 DEF Base
<1>3. CASE t # None /\ m.rows[t][k] # None
  <2>1. m.rows[t] \in Row
    BY <1>3 DEF Mirrors, Mirror, WorkerMirror
  <2>2. m.rows[t][k] \in Slots
    BY <1>3, <2>1 DEF Row
  <2>3. m.bytes[m.rows[t][k]] \in Content
    BY <2>2 DEF Mirrors, Mirror, WorkerMirror
  <2> QED
    BY <1>3, <2>3 DEF Base
<1> QED
  BY <1>2, <1>3

(* The worker moves only its own pool and the result of its job.           *)
LEMMA WorkerParts ==
  ASSUME EditAssumption, ConsInv, WorkerStep
  PROVE  PartsOK' /\ TxSound'
<1>0. /\ PartsOK /\ TxSound /\ worker \in Mirrors /\ worker \in WorkerMirror
      /\ LastSeq' = LastSeq /\ LastSeq \in Nat /\ LastSeq <= MaxSeq
  <2>1. /\ history \in Seq(HistoryEntry) /\ batch \in Seq(Ops \cup {Junk})
        /\ LastSeq \in Nat /\ Len(batch) \in Nat
    BY LenProperties DEF ConsInv, EditInv, EditTypeOK, LastSeq
  <2>2. LastSeq' = LastSeq
    BY DEF WorkerStep, WorkerUpdate, WorkerBake, WorkerBakeFails, WorkerPublish,
      WorkerPublishFails, WorkerRestoreFails, editVars, LastSeq
  <2> QED
    BY <2>1, <2>2, TypeParts DEF ConsInv, SeqBound, EditAssumption, PartsOK, Mirrors
<1>1. CASE WorkerUpdate
  <2> DEFINE u == Head(updates)
  <2>1. /\ u \in [region : Regions, table : Tables, row : Row]
        /\ updates' \in Seq([region : Regions, table : Tables, row : Row])
    BY <1>0, <1>1, HeadTailProperties DEF WorkerUpdate, PartsOK
  <2>2. SetRow(worker, u.table, u.row) \in WorkerMirror
    <3>1. u.table \in Tables \cup {None} /\ u.row \in Row
      BY <2>1
    <3>2. <<>> \in SomeBytes
      BY NoTxOK DEF NoTx, TxType, SomeBytes
    <3> QED
      BY <1>0, <3>1, <3>2, PoolTypes
  <2>3. worker' = [SetRow(worker, u.table, u.row) EXCEPT !.tableOf[u.region] = u.table]
    BY <1>1 DEF WorkerUpdate
  <2>4. u.region \in Regions /\ u.table \in Tables
    BY <2>1
  <2> HIDE DEF u
  <2>5. worker' \in WorkerMirror
    BY <2>2, <2>3, <2>4 DEF WorkerMirror
  <2>6. UNCHANGED <<slotOf, cpu, tableOf, render, workerState, residency, queue, tx>>
    BY <1>1 DEF WorkerUpdate, store
  <2> QED
    BY <1>0, <2>1, <2>5, <2>6 DEF PartsOK, TxSound, Idle
<1>2. CASE WorkerBake
  <2>1. ~Idle /\ tx \in TxType /\ tx.region \in Regions
    BY <1>0, <1>2 DEF WorkerBake, Idle, PartsOK, TxSound
  <2> DEFINE bytes(k) == [of |-> Base(worker, worker.tableOf[tx.region], tx.region, k).of,
                          ops |-> Base(worker, worker.tableOf[tx.region], tx.region, k).ops
                                    \cup {s \in tx.ops : Reaches(s, tx.region, k)}]
             data == [k \in tx.bricks |-> bytes(k)]
  <2>2. ASSUME NEW k \in tx.bricks PROVE bytes(k) \in Content
    <3>1. worker.tableOf[tx.region] \in Tables \cup {None} /\ k \in Bricks
      BY <1>0, <2>1 DEF WorkerMirror, TxType
    <3>2. Base(worker, worker.tableOf[tx.region], tx.region, k) \in Content
      BY <1>0, <2>1, <3>1, BaseType
    <3>3. tx.ops \subseteq 1..MaxSeq
      BY <2>1 DEF TxType
    <3> QED
      BY <3>2, <3>3 DEF Content
  <2>3. tx' = [tx EXCEPT !.phase = "baked", !.ok = TRUE, !.baked = data]
    BY <1>2 DEF WorkerBake
  <2> HIDE DEF bytes
  <2>4. data \in SomeBytes /\ DOMAIN data = tx.bricks
    <3>1. data \in [tx.bricks -> Content]
      BY <2>2
    <3>2. tx.bricks \in SUBSET Bricks
      BY <2>1 DEF TxType
    <3> QED
      BY <3>1, <3>2 DEF SomeBytes
  <2> HIDE DEF data
  <2>5. /\ tx' \in TxType /\ tx'.baked = data /\ tx'.bricks = tx.bricks
        /\ tx'.phase = "baked" /\ tx'.ok = TRUE
        /\ tx'.region = tx.region /\ tx'.table = tx.table /\ tx'.ops = tx.ops
    BY <2>1, <2>3, <2>4 DEF TxType, SomeBytes
  <2>6. TxSound'
    BY <1>0, <2>1, <2>4, <2>5 DEF TxSound
  <2>7. UNCHANGED <<slotOf, cpu, tableOf, render, worker, workerState, updates, residency, queue>>
    BY <1>2 DEF WorkerBake, store, mesh
  <2> QED
    BY <1>0, <2>5, <2>6, <2>7 DEF PartsOK
<1>3. CASE WorkerBakeFails
  <2>1. ~Idle /\ tx \in TxType /\ tx' = [tx EXCEPT !.phase = "baked"]
        /\ tx.phase = "baking"
    BY <1>0, <1>3 DEF WorkerBakeFails, Idle, PartsOK
  <2>2. /\ tx' \in TxType /\ tx'.region = tx.region /\ tx'.table = tx.table
        /\ tx'.ops = tx.ops /\ tx'.phase = "baked" /\ tx'.ok = tx.ok
        /\ tx'.baked = tx.baked /\ tx'.bricks = tx.bricks
    BY <2>1 DEF TxType
  <2>3. UNCHANGED <<slotOf, cpu, tableOf, render, worker, workerState, updates, residency, queue>>
    BY <1>3 DEF WorkerBakeFails, store, mesh
  <2>4. tx.ok = FALSE
    BY <1>0, <2>1, <1>3 DEF TxSound
  <2> QED
    BY <1>0, <2>1, <2>2, <2>3, <2>4 DEF PartsOK, TxSound
<1>4. ASSUME ~Idle, tx.phase = "publishing", worker' \in WorkerMirror,
             NEW ok \in BOOLEAN, tx' = [tx EXCEPT !.phase = "published", !.ok = ok],
             workerState' \in {"ok", "invalid"},
             UNCHANGED <<slotOf, cpu, tableOf, render, updates, residency, queue>>
      PROVE  PartsOK' /\ TxSound'
  <2>1. tx \in TxType
    BY <1>0 DEF PartsOK
  <2>2. /\ tx' \in TxType /\ tx'.region = tx.region /\ tx'.table = tx.table
        /\ tx'.ops = tx.ops /\ tx'.phase = "published"
        /\ tx'.baked = tx.baked /\ tx'.bricks = tx.bricks
    BY <1>4, <2>1 DEF TxType
  <2>3. TxSound'
    BY <1>0, <1>4, <2>2 DEF TxSound
  <2> QED
    BY <1>0, <1>4, <2>2, <2>3 DEF PartsOK
<1>5. CASE WorkerPublish
  <2>1. ~Idle /\ tx.phase = "publishing"
    BY <1>5 DEF WorkerPublish, Idle
  <2>2. Upload(worker, slotOf[tx.region], tx.baked) \in WorkerMirror
    BY <1>0, <2>1, TxParts, PoolTypes
  <2>3. ClearRow(Upload(worker, slotOf[tx.region], tx.baked), tx.table) \in WorkerMirror
    BY <1>0, <2>1, <2>2, TxParts, PoolTypes DEF Mirrors
  <2>4. SetRow(ClearRow(Upload(worker, slotOf[tx.region], tx.baked), tx.table),
               tx.table, slotOf[tx.region]) \in WorkerMirror
    BY <1>0, <2>1, <2>3, TxParts, PoolTypes DEF Mirrors
  <2>5. Published \in WorkerMirror
    BY <1>0, <2>1, <2>4, TxParts DEF Published, WorkerMirror
  <2>6. /\ worker' = Published /\ tx' = [tx EXCEPT !.phase = "published", !.ok = TRUE]
        /\ UNCHANGED <<slotOf, cpu, tableOf, render, updates, residency, queue>>
        /\ workerState' = "ok"
    BY <1>5 DEF WorkerPublish, store, Free
  <2> QED
    BY <1>4, <2>1, <2>5, <2>6
<1>6. ASSUME NEW done \in SUBSET tx.bricks, tx.phase = "publishing"
      PROVE  Upload(worker, slotOf[tx.region], [k \in done |-> tx.baked[k]]) \in WorkerMirror
  <2>1. ~Idle
    BY <1>6 DEF Idle
  <2>2. DOMAIN tx.baked = tx.bricks /\ tx.bricks \subseteq Bricks
    BY <1>0, <1>6, <2>1 DEF TxSound, PartsOK, TxType
  <2> DEFINE data == [k \in done |-> tx.baked[k]]
  <2>3. data \in [done -> Content]
    BY <1>0, <2>1, <2>2, TxParts DEF SomeBytes
  <2>4. data \in SomeBytes
    BY <2>2, <2>3 DEF SomeBytes
  <2> HIDE DEF data
  <2>5. Upload(worker, slotOf[tx.region], data) \in WorkerMirror
    BY <1>0, <2>1, <2>4, TxParts, PoolTypes
  <2> QED
    BY <2>5 DEF data
<1>7. ASSUME NEW done \in SUBSET tx.bricks, WorkerPublishFails(done)
      PROVE  PartsOK' /\ TxSound'
  <2>1. ~Idle /\ tx.phase = "publishing"
    BY <1>7 DEF WorkerPublishFails, Idle
  <2>2. worker' \in WorkerMirror
    BY <1>0, <1>6, <1>7, <2>1, RollbackType DEF WorkerPublishFails
  <2>3. /\ tx' = [tx EXCEPT !.phase = "published", !.ok = FALSE]
        /\ UNCHANGED <<slotOf, cpu, tableOf, render, updates, residency, queue>>
        /\ workerState' = "ok"
    BY <1>7 DEF WorkerPublishFails, store, Free
  <2> QED
    BY <1>4, <2>1, <2>2, <2>3
<1>8. ASSUME NEW done \in SUBSET tx.bricks, WorkerRestoreFails(done)
      PROVE  PartsOK' /\ TxSound'
  <2>1. ~Idle /\ tx.phase = "publishing"
    BY <1>8 DEF WorkerRestoreFails, Idle
  <2>2. worker' \in WorkerMirror
    BY <1>6, <1>8, <2>1 DEF WorkerRestoreFails
  <2>3. /\ tx' = [tx EXCEPT !.phase = "published", !.ok = FALSE]
        /\ UNCHANGED <<slotOf, cpu, tableOf, render, updates, residency, queue>>
        /\ workerState' = "invalid"
    BY <1>8 DEF WorkerRestoreFails, store
  <2> QED
    BY <1>4, <2>1, <2>2, <2>3
<1> QED
  BY <1>1, <1>2, <1>3, <1>5, <1>7, <1>8 DEF WorkerStep

(* Streaming, shader reload and teardown.                                  *)
LEMMA WorldParts ==
  ASSUME EditAssumption, ConsInv, WorldStep
  PROVE  PartsOK' /\ TxSound'
<1>0. /\ PartsOK /\ TxSound /\ LastSeq' = LastSeq
      /\ worker \in WorkerMirror /\ render \in Mirror
  <2>1. LastSeq' = LastSeq
    BY DEF WorldStep, Evict, Load, ReloadRender, TeardownWorker, StartWorker, editVars, LastSeq
  <2>2. Blank \in Content
    BY DEF Blank, Content
  <2> QED
    BY <2>1, <2>2, TypeParts DEF ConsInv, PartsOK
<1>1. ASSUME UNCHANGED tx PROVE TxSound'
  BY <1>0, <1>1 DEF TxSound, Idle
<1>2. Blank \in Content
  BY DEF Blank, Content
<1>3. ASSUME NEW r \in Regions, Evict(r) PROVE PartsOK' /\ TxSound'
  BY <1>0, <1>1, <1>3 DEF Evict, PartsOK, store, mesh
<1>4. ASSUME NEW r \in Regions, NEW rs \in RSlots, Load(r, rs) PROVE PartsOK' /\ TxSound'
  <2>1. slotOf[r] \in Row /\ tableOf[r] \in Tables \cup {None}
    BY <1>0 DEF PartsOK
  <2>2. SetRow(render, tableOf[r], slotOf[r]) \in Mirror
    <3>1. <<>> \in SomeBytes
      BY NoTxOK DEF NoTx, TxType, SomeBytes
    <3> QED
      BY <1>0, <2>1, <3>1, PoolTypes DEF Mirrors
  <2>3. updates' \in Seq([region : Regions, table : Tables, row : Row])
    <3>1. CASE tableOf[r] # None /\ workerState = "ok"
      <4>1. [region |-> r, table |-> tableOf[r], row |-> slotOf[r]]
              \in [region : Regions, table : Tables, row : Row]
        BY <2>1, <3>1
      <4> QED
        BY <1>0, <1>4, <3>1, <4>1, AppendProperties DEF Load, PartsOK
    <3>2. CASE ~(tableOf[r] # None /\ workerState = "ok")
      BY <1>0, <1>4, <3>2 DEF Load, PartsOK
    <3> QED
      BY <3>1, <3>2
  <2>4. residency' \in [Regions -> RSlots \cup {None}]
    BY <1>0, <1>4 DEF Load, PartsOK
  <2>5. /\ render' = SetRow(render, tableOf[r], slotOf[r])
        /\ UNCHANGED <<slotOf, cpu, tableOf, worker, workerState, queue, tx>>
    BY <1>4 DEF Load, store
  <2> QED
    BY <1>0, <1>1, <2>2, <2>3, <2>4, <2>5 DEF PartsOK
<1>5. CASE ReloadRender
  <2>1. [render EXCEPT !.bytes = [s \in Slots |-> Blank]] \in Mirror
    BY <1>0, <1>2 DEF Mirror
  <2>2. render' \in Mirror
    BY <1>0, <1>5, <2>1, ReplayType DEF ReloadRender, Mirrors, PartsOK
  <2> QED
    BY <1>0, <1>1, <1>5, <2>2 DEF ReloadRender, PartsOK, store, mesh
<1>6. CASE TeardownWorker
  <2>1. render' \in Mirror /\ slotOf' \in [Regions -> Row] /\ queue' \in Seq(Regions)
    <3>1. CASE Idle
      BY <1>0, <1>6, <3>1 DEF TeardownWorker, TeardownQueue, PartsOK
    <3>2. CASE ~Idle
      BY <1>0, <1>6, <3>2, TxParts, RollbackType, RequeueType
      DEF TeardownWorker, TeardownQueue, PartsOK
    <3> QED
      BY <3>1, <3>2
  <2>2. updates' \in Seq([region : Regions, table : Tables, row : Row])
    BY <1>6, EmptySeq DEF TeardownWorker
  <2> QED
    BY <1>0, <1>6, <2>1, <2>2, NoTxOK DEF TeardownWorker, PartsOK
<1>7. CASE StartWorker
  <2>1. [worker EXCEPT !.bytes = [s \in Slots |-> Blank]] \in WorkerMirror
    BY <1>0, <1>2 DEF WorkerMirror
  <2>2. Replay([worker EXCEPT !.bytes = [s \in Slots |-> Blank]], slotOf) \in WorkerMirror
    BY <1>0, <2>1, ReplayType DEF Mirrors, PartsOK
  <2>3. worker' \in WorkerMirror
    BY <1>0, <1>7, <2>2 DEF StartWorker, PartsOK, WorkerMirror
  <2> QED
    BY <1>0, <1>1, <1>7, <2>3 DEF StartWorker, PartsOK, store
<1> QED
  BY <1>3, <1>4, <1>5, <1>6, <1>7 DEF WorldStep

(* Edits and batches.                                                      *)
LEMMA EditParts ==
  ASSUME EditAssumption, ConsInv, EditStep
  PROVE  PartsOK' /\ TxSound'
<1>0. PartsOK /\ TxSound /\ LastSeq \in Nat /\ LastSeq' \in Nat /\ LastSeq <= LastSeq'
  <2>1. [EditNext]_editVars
    BY DEF EditStep, StartBatch, SkipEdit, TakeEdit, EditNext
  <2> QED
    BY <2>1, EditStepExtras, TypeParts DEF ConsInv
<1>1. UNCHANGED <<slotOf, cpu, tableOf, render, worker, workerState, updates, residency, tx>>
  BY DEF EditStep, StartBatch, SkipEdit, TakeEdit, consVars, store, mesh
<1>2. TxSound'
  BY <1>0, <1>1 DEF TxSound, Idle
<1>3. queue' \in Seq(Regions)
  <2>1. CASE UNCHANGED queue
    BY <1>0, <2>1 DEF PartsOK
  <2>2. CASE TakeEdit
    <3>1. PICK new \in Orders : queue' = queue \o new
      BY <2>2 DEF TakeEdit, Enqueue
    <3>2. new \in Seq(Regions)
      BY DEF Orders
    <3> QED
      BY <1>0, <3>1, <3>2, ConcatProperties DEF PartsOK
  <2> QED
    BY <2>1, <2>2 DEF EditStep, StartBatch, SkipEdit, consVars
<1> QED
  BY <1>0, <1>1, <1>2, <1>3 DEF PartsOK

-----------------------------------------------------------------------------
(* The theorems                                                            *)

(* The types hold at the start.                                            *)
LEMMA ConsInitInv ==
  ASSUME EditAssumption, ConsolidationAssumption, ConsInit
  PROVE  ConsInv
<1>1. EditInv
  BY EditInitInv DEF ConsInit
<1>2. Blank \in Content /\ NoRow \in Row /\ NoTx \in TxType
  BY NoTxOK DEF Blank, Content, NoRow, Row
<1>3. render \in Mirror /\ worker \in WorkerMirror
  BY <1>2 DEF ConsInit, Mirror, WorkerMirror
<1>4. updates \in Seq([region : Regions, table : Tables, row : Row]) /\ queue \in Seq(Regions)
  BY EmptySeq DEF ConsInit
<1>5. PartsOK
  BY <1>2, <1>3, <1>4 DEF ConsInit, PartsOK, ConsolidationAssumption
<1>6. ListsEnd
  BY DEF ConsInit, EditInit, ListsEnd
<1>7. SeqBound
  BY LenProperties, EmptySeq DEF ConsInit, EditInit, SeqBound, LastSeq, EditAssumption
<1>8. TxSound
  BY DEF ConsInit, NoTx, Idle, TxSound
<1> QED
  BY <1>1, <1>5, <1>6, <1>7, <1>8, TypeParts DEF ConsInv, EditInv

(* Every step keeps the types, the log's with them.                        *)
LEMMA ConsStepInv ==
  EditAssumption /\ ConsolidationAssumption /\ ConsInv /\ [ConsNext]_vars => ConsInv'
<1> SUFFICES ASSUME EditAssumption, ConsolidationAssumption, ConsInv, [ConsNext]_vars
             PROVE  ConsInv'
  OBVIOUS
<1>1. [EditNext]_editVars
  BY StepIsEditStep
<1>2. EditInv'
  BY <1>1, EditStepInv DEF ConsInv
<1>3. ListsEnd' /\ SeqBound'
  BY <1>1, EditStepExtras DEF ConsInv
<1>4. PartsOK' /\ TxSound'
  <2>1. CASE UNCHANGED vars
    BY <2>1, TypeParts DEF ConsInv, PartsOK, TxSound, Idle, vars, editVars, consVars, LastSeq
  <2> QED
    BY <2>1, EditParts, PumpParts, WorkerParts, WorldParts DEF ConsNext
<1>5. EditTypeOK'
  BY <1>2 DEF EditInv
<1>6. ConsTypeOK'
  BY <1>4, <1>5 DEF ConsTypeOK, PartsOK
<1> QED
  BY <1>2, <1>3, <1>4, <1>6 DEF ConsInv

(* Types: every variable of the store, the two pools, the worker's queue   *)
(* of updates, the coordinator's queue and the transaction keeps its type, *)
(* for any set of regions, bricks, slots and tables and any mix of         *)
(* failures.                                                               *)
THEOREM ConsTypeSafety == ConsSpec => []ConsTypeOK
<1>1. ConsInit => ConsInv
  BY ConsInitInv, EditAssumption, ConsolidationAssumption
<1>2. ConsInv /\ [ConsNext]_vars => ConsInv'
  BY ConsStepInv, EditAssumption, ConsolidationAssumption
<1>3. ConsInv => ConsTypeOK
  BY DEF ConsInv
<1> QED
  BY <1>1, <1>2, <1>3, PTL DEF ConsSpec

(* Refinement: with consolidation at work the edit log still behaves as    *)
(* EditPipeline says.  In particular a commit cuts a list at a sequence    *)
(* number handed out before, whatever came between the snapshot and it.    *)
THEOREM ConsImplementsEditPipeline == ConsSpec => EditSpec
<1>1. ConsInit => ConsInv /\ EditInit
  BY ConsInitInv, EditAssumption, ConsolidationAssumption DEF ConsInit
<1>2. ConsInv /\ [ConsNext]_vars => ConsInv'
  BY ConsStepInv, EditAssumption, ConsolidationAssumption
<1>3. ConsInv /\ [ConsNext]_vars => [EditNext]_editVars
  BY StepIsEditStep
<1> QED
  BY <1>1, <1>2, <1>3, PTL DEF ConsSpec, EditSpec

-----------------------------------------------------------------------------
(* The transaction owns what it took                                       *)

(* The store has handed out the slots of the transaction.                  *)
Using == tx.phase \in {"publishing", "published"}

(* A transaction that ended leaves nothing behind.                         *)
NoneInFlight == Idle => tx = NoTx

(* A slot the region keeps if the transaction is given up.                 *)
Owned(r, k) == slotOf[r][k] # None /\ ~Speculative(r, k)

(* From its snapshot to its end a transaction names the table of its       *)
(* region or one nobody has, knows which slots were the region's and what  *)
(* they hold, and its snapshot stays the older part of the list.           *)
TxOwns ==
  ~Idle =>
    /\ tx.oldTable = tableOf[tx.region]
    /\ tx.oldTable # None => tx.table = tx.oldTable
    /\ \A r \in Regions : tableOf[r] = tx.table => r = tx.region
    /\ tx.bricks = {k \in Bricks : \E s \in tx.ops : Reaches(s, tx.region, k)}
    /\ \A k \in Bricks : slotOf[tx.region][k] # None <=>
                           k \in DOMAIN tx.old \/ (Using /\ k \in tx.bricks)
    /\ \A k \in DOMAIN tx.old : tx.old[k] = cpu[slotOf[tx.region][k]]
    /\ tx.ops \subseteq log[tx.region]
    /\ \A s \in tx.ops, t \in log[tx.region] \ tx.ops : s < t

-----------------------------------------------------------------------------
(* The kinds of steps                                                      *)

(* The lists are left alone.                                               *)
LogKept == UNCHANGED <<log, history, accepted>>

(* Edits, updates of the worker and the world around.                      *)
Stays == /\ UNCHANGED <<slotOf, cpu, tableOf, tx>>
         /\ LogKept \/ AppendHead

(* The worker is done with a bake or with a publication.                   *)
Works ==
  /\ ~Idle /\ LogKept
  /\ UNCHANGED <<slotOf, cpu, tableOf>>
  /\ \/ tx.phase = "baking" /\ tx'.phase = "baked" /\ (WorkerBake \/ WorkerBakeFails)
     \/ tx.phase = "publishing" /\ tx'.phase = "published" /\ tx'.baked = tx.baked
  /\ tx'.region = tx.region /\ tx'.rslot = tx.rslot
  /\ tx'.ops = tx.ops /\ tx'.bricks = tx.bricks /\ tx'.old = tx.old
  /\ tx'.table = tx.table /\ tx'.oldTable = tx.oldTable

(* The transaction is given up.                                            *)
Released ==
  /\ ~Idle /\ LogKept
  /\ UNCHANGED <<cpu, tableOf>>
  /\ slotOf' = [slotOf EXCEPT ![tx.region] = OldRow]
  /\ tx' = NoTx

(* The invariant of the two pools of slots and tables.                     *)
SlotInv == ConsInv /\ OwnedSlots /\ NoneInFlight /\ TxOwns

(* The transaction in flight has its types.                                *)
LEMMA TxFacts ==
  ASSUME ConsInv
  PROVE  /\ PartsOK /\ TxSound /\ tx \in TxType
         /\ slotOf \in [Regions -> Row] /\ cpu \in [Slots -> Content]
         /\ tableOf \in [Regions -> Tables \cup {None}]
         /\ ~Idle => tx.region \in Regions /\ tx.table \in Tables
         /\ tx.bricks \subseteq Bricks /\ DOMAIN tx.old \subseteq Bricks
<1>1. PartsOK /\ TxSound
  BY TypeParts DEF ConsInv
<1>2. tx \in TxType
  BY <1>1 DEF PartsOK
<1>3. tx.bricks \subseteq Bricks /\ DOMAIN tx.old \subseteq Bricks
  BY <1>2 DEF TxType
<1> QED
  BY <1>1, <1>2, <1>3 DEF PartsOK, TxSound

(* Before it acquires slots, a transaction's old row is its region's row.  *)
LEMMA NothingAcquired ==
  ASSUME SlotInv, ~Idle, ~Using
  PROVE  [slotOf EXCEPT ![tx.region] = OldRow] = slotOf
<1>1. /\ slotOf \in [Regions -> Row] /\ tx.region \in Regions
  BY TxFacts DEF SlotInv
<1>2. \A k \in Bricks : slotOf[tx.region][k] # None <=> k \in DOMAIN tx.old
  BY DEF SlotInv, TxOwns
<1>3. OldRow = [k \in Bricks |-> slotOf[tx.region][k]]
  BY <1>2 DEF OldRow
<1>4. slotOf[tx.region] = [k \in Bricks |-> slotOf[tx.region][k]]
  BY <1>1 DEF Row
<1> QED
  BY <1>1, <1>3, <1>4

(* For the store a step is one of six kinds; the many ways to refuse a     *)
(* transaction are one of them.                                            *)
LEMMA StepKinds ==
  ASSUME SlotInv, [ConsNext]_vars
  PROVE  \/ Stays \/ StartBake \/ Works \/ Released \/ PumpCommit
         \/ \E pick \in Injection(ToAcquire, FreeSlots) : PumpBakeResult(pick)
<1>0. tx \in TxType
  BY TxFacts DEF SlotInv
<1>1. CASE UNCHANGED vars
  BY <1>1 DEF vars, editVars, consVars, Stays, LogKept
<1>2. CASE EditStep
  BY <1>2 DEF EditStep, StartBatch, SkipEdit, TakeEdit, BeginBatch, SkipJunk, consVars, store,
    Stays, LogKept
<1>3. CASE WorldStep /\ ~TeardownWorker
  BY <1>3 DEF WorldStep, Evict, Load, ReloadRender, StartWorker, editVars, store, Stays, LogKept
<1>4. CASE TeardownWorker
  <2>1. CASE Idle
    BY <1>4, <2>1 DEF TeardownWorker, SlotInv, NoneInFlight, editVars, Stays, LogKept
  <2>2. CASE ~Idle
    BY <1>4, <2>2 DEF TeardownWorker, editVars, Released, LogKept
  <2> QED
    BY <2>1, <2>2
<1>5. CASE WorkerUpdate
  BY <1>5 DEF WorkerUpdate, editVars, store, Stays, LogKept
<1>6. CASE WorkerStep /\ ~WorkerUpdate
  BY <1>0, <1>6 DEF WorkerStep, WorkerBake, WorkerBakeFails, WorkerPublish, WorkerPublishFails,
    WorkerRestoreFails, editVars, store, Works, LogKept, Idle, TxType
<1>7. CASE PumpBakeMoved \/ PumpPublishFailed \/ PumpRebuild \/ PumpRebuildFailed \/ PumpPublishMoved
  BY <1>7 DEF PumpBakeMoved, PumpPublishFailed, PumpRebuild, PumpRebuildFailed, PumpPublishMoved,
    Refuse, editVars, Released, LogKept, Idle
<1>8. CASE PumpBakeFailed
  BY <1>8, NothingAcquired DEF PumpBakeFailed, editVars, store, Released, LogKept, Idle, Using
<1>9. ASSUME NEW pick, NEW done, PumpUploadFailed(pick, done) PROVE Released
  BY <1>9, NothingAcquired DEF PumpUploadFailed, editVars, store, Released, LogKept, Idle, Using
<1> QED
  BY <1>1, <1>2, <1>3, <1>4, <1>5, <1>6, <1>7, <1>8, <1>9
  DEF ConsNext, PumpStep

-----------------------------------------------------------------------------
(* Slots and tables                                                        *)

(* The list grows at its end.                                              *)
LEMMA AppendFacts ==
  ASSUME EditAssumption, ConsInv, AppendHead
  PROVE  /\ LastSeq \in Nat
         /\ \A r \in Regions :
              \/ log'[r] = log[r] /\ accepted'[r] = accepted[r]
              \/ /\ log'[r] = log[r] \cup {LastSeq + 1}
                 /\ accepted'[r] = accepted[r] \cup {LastSeq + 1}
         /\ \A s \in 1..LastSeq : history'[s] = history[s]
<1>1. /\ history \in Seq(HistoryEntry)
      /\ LastSeq \in Nat
  BY LenProperties DEF ConsInv, EditInv, EditTypeOK, LastSeq
<1>2. ASSUME NEW r \in Regions
      PROVE  \/ log'[r] = log[r] /\ accepted'[r] = accepted[r]
             \/ /\ log'[r] = log[r] \cup {LastSeq + 1}
                /\ accepted'[r] = accepted[r] \cup {LastSeq + 1}
  BY DEF AppendHead, Take, NextSeq, LastSeq
<1>3. \A s \in 1..LastSeq : history'[s] = history[s]
  <2>1. [op |-> Head(batch), atomic |-> atomic] \in HistoryEntry
    <3>1. batch \in Seq(Ops \cup {Junk}) /\ batch # <<>> /\ Head(batch) # Junk /\ atomic \in BOOLEAN
      BY DEF ConsInv, EditInv, EditTypeOK, AppendHead, LockFree
    <3>2. Head(batch) \in Ops
      BY <3>1, HeadTailProperties
    <3> QED
      BY <3>1, <3>2 DEF HistoryEntry
  <2> QED
    BY <1>1, <2>1, AppendProperties DEF AppendHead, LastSeq
<1> QED
  BY <1>1, <1>2, <1>3

(* A slot that is used is not free, and the rows name slots.               *)
LEMMA SlotFacts ==
  ASSUME SlotInv
  PROVE  /\ None \notin Slots /\ None \notin Tables
         /\ \A r \in Regions, k \in Bricks : slotOf[r][k] \in Slots \cup {None}
         /\ \A r \in Regions, k \in Bricks : slotOf[r][k] \notin FreeSlots
         /\ \A r \in Regions : slotOf[r] = [k \in Bricks |-> slotOf[r][k]]
         /\ \A r \in Regions : tableOf[r] \notin FreeTables
         /\ FreeSlots \subseteq Slots /\ FreeTables \subseteq Tables
<1>1. slotOf \in [Regions -> Row]
  BY TxFacts DEF SlotInv
<1>2. None \notin Slots /\ None \notin Tables
  BY ConsolidationAssumption
<1>3. \A r \in Regions : slotOf[r] = [k \in Bricks |-> slotOf[r][k]]
  BY <1>1 DEF Row
<1>4. \A r \in Regions, k \in Bricks : slotOf[r][k] \in Slots \cup {None}
  BY <1>1 DEF Row
<1>5. \A r \in Regions, k \in Bricks : slotOf[r][k] \notin FreeSlots
  BY <1>2 DEF FreeSlots, Used
<1>6. \A r \in Regions : tableOf[r] \notin FreeTables
  BY DEF FreeTables
<1> QED
  BY <1>2, <1>3, <1>4, <1>5, <1>6 DEF FreeSlots, FreeTables

(* Two bricks never share a slot.                                          *)
LEMMA OneBrickPerSlot ==
  ASSUME SlotInv, NEW r \in Regions, NEW q \in Regions, NEW k \in Bricks, NEW j \in Bricks,
         slotOf[r][k] # None, slotOf[r][k] = slotOf[q][j]
  PROVE  r = q /\ k = j
BY DEF SlotInv, OwnedSlots

(* Edits, the worker's updates and streaming leave the slots to their      *)
(* owners; an edit only adds what is newer than the snapshot.              *)
LEMMA SlotsStay ==
  ASSUME SlotInv, Stays
  PROVE  OwnedSlots' /\ NoneInFlight' /\ TxOwns'
<1>1. OwnedSlots' /\ NoneInFlight'
  BY DEF SlotInv, Stays, OwnedSlots, NoneInFlight, Idle, Speculative, Fresh
<1>2. CASE LogKept /\ UNCHANGED history
  BY <1>1, <1>2 DEF SlotInv, Stays, LogKept, TxOwns, Idle, Using, Reaches
<1>3. CASE AppendHead /\ ~Idle
  <2>1. /\ tx.region \in Regions /\ tx.ops \subseteq 1..LastSeq
        /\ LastSeq \in Nat
    BY <1>3, TxFacts, AppendFacts, EditAssumption DEF SlotInv, TxSound
  <2>2. \A s \in tx.ops : history'[s] = history[s]
    BY <1>3, <2>1, AppendFacts, EditAssumption DEF SlotInv
  <2>3. log'[tx.region] = log[tx.region] \/ log'[tx.region] = log[tx.region] \cup {LastSeq + 1}
    BY <1>3, <2>1, AppendFacts, EditAssumption DEF SlotInv
  <2>4. \A s \in tx.ops : s < LastSeq + 1
    BY <2>1
  <2>5. /\ tx.ops \subseteq log'[tx.region]
        /\ \A s \in tx.ops, t \in log'[tx.region] \ tx.ops : s < t
    BY <1>3, <2>3, <2>4 DEF SlotInv, TxOwns
  <2>6. TxOwns'
    BY <1>3, <2>2, <2>5 DEF SlotInv, Stays, TxOwns, Idle, Using, Reaches
  <2> QED
    BY <1>1, <2>6
<1>4. CASE Idle
  BY <1>1, <1>4 DEF Stays, Idle, TxOwns
<1> QED
  BY <1>1, <1>2, <1>3, <1>4 DEF Stays, LogKept

(* A snapshot is the whole list, and its table the region's or free.       *)
LEMMA SlotsAtStart ==
  ASSUME SlotInv, StartBake
  PROVE  OwnedSlots' /\ NoneInFlight' /\ TxOwns'
<1> DEFINE r == Head(queue)
<1>0. /\ r \in Regions
      /\ slotOf \in [Regions -> Row] /\ tableOf \in [Regions -> Tables \cup {None}]
  BY TxFacts, HeadTailProperties DEF SlotInv, StartBake, PartsOK
<1>1. /\ tx'.phase = "baking" /\ tx'.region = r /\ tx'.ops = log[r]
      /\ tx'.bricks = BricksToBake(r)
      /\ tx'.table = TableFor(r) /\ tx'.oldTable = tableOf[r]
      /\ tx'.old = [k \in Baked(r) |-> cpu[slotOf[r][k]]]
  BY DEF StartBake
<1>2. UNCHANGED <<slotOf, cpu, tableOf, log, history>> /\ Idle
  BY DEF StartBake, store, editVars
<1> HIDE DEF r
<1>3. OwnedSlots'
  BY <1>1, <1>2 DEF SlotInv, OwnedSlots, Idle, Speculative, Fresh
<1>4. NoneInFlight'
  BY <1>1 DEF NoneInFlight, Idle
<1>5. \A q \in Regions : tableOf[q] = TableFor(r) => q = r
  <2>1. CASE tableOf[r] # None
    BY <1>0, <2>1 DEF TableFor, SlotInv, OwnedSlots
  <2>2. CASE tableOf[r] = None
    <3>1. FreeTables # {} /\ FreeTables \in SUBSET Tables
      BY <2>2 DEF StartBake, r, FreeTables
    <3>2. TableFor(r) \in FreeTables
      BY <2>2, <3>1, ConsolidationAssumption DEF TableFor
    <3> QED
      BY <3>2 DEF FreeTables
  <2> QED
    BY <2>1, <2>2
<1>6. /\ \A k \in Bricks : slotOf[r][k] # None <=> k \in DOMAIN tx'.old
      /\ \A k \in DOMAIN tx'.old : tx'.old[k] = cpu[slotOf[r][k]]
  BY <1>1 DEF Baked
<1>7. /\ tx'.oldTable # None => tx'.table = tx'.oldTable
      /\ tx'.bricks = {k \in Bricks : \E s \in tx'.ops : Reaches(s, r, k)}
  BY <1>1 DEF TableFor, BricksToBake
<1>8. ~Using'
  BY <1>1 DEF Using
<1>9. tx'.ops \subseteq log'[r] /\ \A s \in tx'.ops, t \in log'[r] \ tx'.ops : s < t
  BY <1>1, <1>2
<1> QED
  BY <1>1, <1>2, <1>3, <1>4, <1>5, <1>6, <1>7, <1>8, <1>9 DEF TxOwns, Reaches

(* The worker touches no slot of the store.                                *)
LEMMA SlotsAtWork ==
  ASSUME SlotInv, Works
  PROVE  OwnedSlots' /\ NoneInFlight' /\ TxOwns'
<1>1. Using' <=> Using
  BY DEF Works, Using
<1>2. /\ ~Idle' /\ \A r, k : Speculative(r, k)' <=> Speculative(r, k)
      /\ UNCHANGED <<slotOf, cpu, tableOf, log, history>>
  BY DEF Works, LogKept, Idle, Speculative, Fresh
<1>3. OwnedSlots' /\ NoneInFlight'
  BY <1>2 DEF SlotInv, OwnedSlots, NoneInFlight
<1>4. TxOwns'
  BY <1>1, <1>2 DEF SlotInv, TxOwns, Works, Reaches
<1> QED
  BY <1>3, <1>4

(* The row a transaction leaves when it is given up: what its region had.  *)
LEMMA ReleasedRow ==
  ASSUME SlotInv, Released
  PROVE  /\ Idle' /\ tx.region \in Regions
         /\ \A r \in Regions : r # tx.region => slotOf'[r] = slotOf[r]
         /\ \A k \in Bricks : slotOf'[tx.region][k] =
              IF k \in DOMAIN tx.old THEN slotOf[tx.region][k] ELSE None
         /\ \A r \in Regions, k \in Bricks : Owned(r, k)' <=> Owned(r, k)
         /\ \A r \in Regions, k \in Bricks : Owned(r, k) => slotOf'[r][k] = slotOf[r][k]
         /\ \A r \in Regions, k \in Bricks : slotOf'[r][k] # None => Owned(r, k)
<1>1. tx.region \in Regions /\ slotOf \in [Regions -> Row] /\ Idle'
  BY TxFacts DEF SlotInv, Released, Idle, NoTx
<1>2. /\ \A r \in Regions : r # tx.region => slotOf'[r] = slotOf[r]
      /\ \A k \in Bricks : slotOf'[tx.region][k] =
           IF k \in DOMAIN tx.old THEN slotOf[tx.region][k] ELSE None
  BY <1>1 DEF Released, OldRow
<1>3. \A r \in Regions, k \in Bricks : ~Speculative(r, k)'
  BY <1>1 DEF Speculative, Fresh, Idle
<1>4. \A k \in Bricks : slotOf[tx.region][k] # None => k \in DOMAIN tx.old \/ Speculative(tx.region, k)
  BY DEF SlotInv, TxOwns, Released, Speculative, Fresh, Using
<1>5. \A k \in DOMAIN tx.old \cap Bricks : slotOf[tx.region][k] # None /\ ~Speculative(tx.region, k)
  BY DEF SlotInv, TxOwns, Released, Speculative, Fresh
<1>6. \A r, k : r # tx.region => ~Speculative(r, k)
  BY DEF Speculative
<1> QED
  BY <1>1, <1>2, <1>3, <1>4, <1>5, <1>6 DEF Owned

(* Giving the transaction up leaves each region what it had.               *)
LEMMA SlotsReleased ==
  ASSUME SlotInv, Released
  PROVE  OwnedSlots' /\ NoneInFlight' /\ TxOwns'
<1>1. NoneInFlight' /\ TxOwns'
  BY ReleasedRow DEF NoneInFlight, TxOwns, Released
<1>2. tableOf' = tableOf
  BY DEF Released
<1>3. \A r \in Regions, k \in Bricks :
        slotOf'[r][k] # None => slotOf'[r][k] = slotOf[r][k] /\ ~Speculative(r, k)
  BY ReleasedRow DEF Owned
<1> QED
  BY <1>1, <1>2, <1>3 DEF SlotInv, OwnedSlots

(* The rows after the slots of a result are taken.                         *)
LEMMA AcquiredRow ==
  ASSUME SlotInv, NEW pick \in Injection(ToAcquire, FreeSlots), ~Idle, ~Using
  PROVE  /\ \A r \in Regions : r # tx.region => Acquire(pick)[r] = slotOf[r]
         /\ \A k \in Bricks : Acquire(pick)[tx.region][k] =
              IF k \in ToAcquire THEN pick[k] ELSE slotOf[tx.region][k]
         /\ \A k \in ToAcquire : /\ pick[k] \in FreeSlots /\ pick[k] # None
                                 /\ slotOf[tx.region][k] = None
                                 /\ \A j \in ToAcquire : pick[j] = pick[k] => j = k
         /\ ToAcquire \subseteq Bricks
<1>1. /\ tx.region \in Regions /\ slotOf \in [Regions -> Row]
      /\ tx.bricks \subseteq Bricks
  BY TxFacts DEF SlotInv
<1>2. pick \in [ToAcquire -> FreeSlots] /\ DOMAIN pick = ToAcquire
  BY DEF Injection
<1>3. \A a, b \in ToAcquire : pick[a] = pick[b] => a = b
  BY <1>2 DEF Injection, IsInjective
<1>4. \A k \in ToAcquire : slotOf[tx.region][k] = None
  BY <1>1 DEF SlotInv, TxOwns, ToAcquire
<1>5. \A k \in ToAcquire : pick[k] \in FreeSlots /\ pick[k] # None
  BY <1>2, SlotFacts
<1>6. /\ \A r \in Regions : r # tx.region => Acquire(pick)[r] = slotOf[r]
      /\ \A k \in Bricks : Acquire(pick)[tx.region][k] =
           IF k \in ToAcquire THEN pick[k] ELSE slotOf[tx.region][k]
  BY <1>1, <1>2 DEF Acquire
<1> QED
  BY <1>1, <1>3, <1>4, <1>5, <1>6 DEF ToAcquire

(* The slots taken were free, and are the transaction's for now.           *)
LEMMA SlotsAcquired ==
  ASSUME SlotInv, NEW pick \in Injection(ToAcquire, FreeSlots), PumpBakeResult(pick)
  PROVE  OwnedSlots' /\ NoneInFlight' /\ TxOwns'
<1>0. /\ ~Idle /\ ~Using /\ ~Idle' /\ Using' /\ tx.region \in Regions
      /\ tx \in TxType
  BY TxFacts DEF PumpBakeResult, Idle, Using, SlotInv, TxType
<1>1. /\ slotOf' = Acquire(pick)
      /\ tx'.region = tx.region /\ tx'.bricks = tx.bricks /\ tx'.old = tx.old
      /\ tx'.ops = tx.ops /\ tx'.table = tx.table /\ tx'.oldTable = tx.oldTable
      /\ UNCHANGED <<cpu, tableOf, log, history>>
  BY <1>0 DEF PumpBakeResult, editVars, TxType
<1>2. Fresh' = ToAcquire
  BY <1>0, <1>1 DEF Fresh, Using, ToAcquire
<1>3. \A r \in Regions, k \in Bricks : ~Speculative(r, k)
  BY <1>0 DEF Speculative, Fresh, Using
<1>4. ASSUME NEW r \in Regions, NEW q \in Regions, NEW k \in Bricks, NEW j \in Bricks,
             slotOf'[r][k] # None, slotOf'[r][k] = slotOf'[q][j]
      PROVE  r = q /\ k = j
  <2>1. CASE r = tx.region /\ k \in ToAcquire
    BY <1>0, <1>1, <1>4, <2>1, AcquiredRow, SlotFacts
  <2>2. CASE q = tx.region /\ j \in ToAcquire
    BY <1>0, <1>1, <1>4, <2>2, AcquiredRow, SlotFacts
  <2>3. CASE ~(r = tx.region /\ k \in ToAcquire) /\ ~(q = tx.region /\ j \in ToAcquire)
    <3>1. slotOf'[r][k] = slotOf[r][k] /\ slotOf'[q][j] = slotOf[q][j]
      BY <1>0, <1>1, <2>3, AcquiredRow
    <3>2. slotOf[r][k] # None /\ slotOf[r][k] = slotOf[q][j]
      BY <1>4, <3>1
    <3> QED
      BY <3>2, OneBrickPerSlot
  <2> QED
    BY <2>1, <2>2, <2>3
<1>5. ASSUME NEW r \in Regions, NEW k \in Bricks, slotOf'[r][k] # None
      PROVE  tableOf'[r] # None \/ Speculative(r, k)'
  <2>1. CASE r = tx.region /\ k \in ToAcquire
    BY <1>1, <1>2, <2>1 DEF Speculative, Fresh
  <2>2. CASE ~(r = tx.region /\ k \in ToAcquire)
    <3>1. slotOf'[r][k] = slotOf[r][k]
      BY <1>0, <1>1, <2>2, AcquiredRow
    <3> QED
      BY <1>1, <1>3, <1>5, <3>1 DEF SlotInv, OwnedSlots
  <2> QED
    BY <2>1, <2>2
<1>6. OwnedSlots'
  BY <1>1, <1>4, <1>5 DEF SlotInv, OwnedSlots
<1>7. NoneInFlight'
  BY <1>0 DEF NoneInFlight
<1>8. /\ \A k \in Bricks : slotOf'[tx.region][k] # None <=>
             k \in DOMAIN tx.old \/ k \in tx.bricks
      /\ \A k \in DOMAIN tx.old : tx.old[k] = cpu[slotOf'[tx.region][k]]
  <2>1. \A k \in Bricks : slotOf[tx.region][k] # None <=> k \in DOMAIN tx.old
    BY <1>0 DEF SlotInv, TxOwns
  <2>2. \A k \in DOMAIN tx.old : tx.old[k] = cpu[slotOf[tx.region][k]] /\ k \in Bricks
    BY <1>0, TxFacts DEF SlotInv, TxOwns
  <2>3. \A k \in Bricks : slotOf'[tx.region][k] =
           IF k \in ToAcquire THEN pick[k] ELSE slotOf[tx.region][k]
    BY <1>0, <1>1, AcquiredRow
  <2>4. \A k \in ToAcquire : pick[k] # None
    BY <1>0, AcquiredRow
  <2>5. ASSUME NEW k \in Bricks
        PROVE  slotOf'[tx.region][k] # None <=> k \in DOMAIN tx.old \/ k \in tx.bricks
    BY <2>1, <2>3, <2>4 DEF ToAcquire
  <2>6. ASSUME NEW k \in DOMAIN tx.old PROVE tx.old[k] = cpu[slotOf'[tx.region][k]]
    BY <2>2, <2>3 DEF ToAcquire
  <2> QED
    BY <2>5, <2>6
<1>9. TxOwns'
  BY <1>0, <1>1, <1>8 DEF SlotInv, TxOwns, Reaches
<1> QED
  BY <1>6, <1>7, <1>9

(* With its table the region owns what was the transaction's.              *)
LEMMA SlotsCommitted ==
  ASSUME SlotInv, PumpCommit
  PROVE  OwnedSlots' /\ NoneInFlight' /\ TxOwns'
<1>0. ~Idle /\ tx.region \in Regions /\ tableOf \in [Regions -> Tables \cup {None}]
  BY TxFacts DEF PumpCommit, Idle, SlotInv
<1>1. /\ tx' = NoTx /\ slotOf' = slotOf /\ Idle'
      /\ \A r \in Regions : tableOf'[r] = IF r = tx.region THEN tx.table ELSE tableOf[r]
      /\ tx.table \in Tables /\ tx.table # None
  BY <1>0, TxFacts, SlotFacts DEF PumpCommit, NoTx, Idle, SlotInv
<1>2. NoneInFlight' /\ TxOwns'
  BY <1>1 DEF NoneInFlight, TxOwns
<1>3. \A r, q \in Regions : tableOf'[r] # None /\ tableOf'[r] = tableOf'[q] => r = q
  BY <1>0, <1>1 DEF SlotInv, OwnedSlots, TxOwns
<1>4. \A r \in Regions, k \in Bricks : slotOf'[r][k] # None => tableOf'[r] # None
  BY <1>1 DEF SlotInv, OwnedSlots, Speculative
<1> QED
  BY <1>1, <1>2, <1>3, <1>4 DEF SlotInv, OwnedSlots

(* At the start no slot and no table is taken.                             *)
LEMMA SlotInit == ConsInit => SlotInv
<1> SUFFICES ASSUME ConsInit PROVE SlotInv
  OBVIOUS
<1>1. ConsInv
  BY ConsInitInv, EditAssumption, ConsolidationAssumption
<1>2. Idle
  BY DEF ConsInit, NoTx, Idle
<1>3. OwnedSlots
  BY DEF ConsInit, OwnedSlots, NoRow
<1> QED
  BY <1>1, <1>2, <1>3 DEF ConsInit, SlotInv, NoneInFlight, TxOwns

(* Every step keeps owners apart.                                          *)
LEMMA SlotStep == SlotInv /\ [ConsNext]_vars => SlotInv'
<1> SUFFICES ASSUME SlotInv, [ConsNext]_vars PROVE SlotInv'
  OBVIOUS
<1>1. ConsInv'
  BY ConsStepInv, EditAssumption, ConsolidationAssumption DEF SlotInv
<1>2. OwnedSlots' /\ NoneInFlight' /\ TxOwns'
  BY StepKinds, SlotsStay, SlotsAtStart, SlotsAtWork, SlotsReleased, SlotsAcquired, SlotsCommitted
<1> QED
  BY <1>1, <1>2 DEF SlotInv

(* A slot has one brick, a table one region, and nothing is held but by a  *)
(* region with a table or by the transaction in flight, for any number of  *)
(* regions, slots and tables and whatever fails: a refusal gives back what *)
(* was acquired and keeps what the region had.                             *)
THEOREM PoolsLeakNothing == ConsSpec => []OwnedSlots
<1>1. SlotInv => OwnedSlots
  BY DEF SlotInv
<1> QED
  BY <1>1, SlotInit, SlotStep, PTL DEF ConsSpec

(* A commit takes the snapshot off the list, and no more.                  *)
LEMMA CommitCutsTheSnapshot ==
  ASSUME SlotInv, PumpCommit
  PROVE  /\ log'[tx.region] = log[tx.region] \ tx.ops
         /\ \A r \in Regions : r # tx.region => log'[r] = log[r]
         /\ UNCHANGED <<accepted, history>>
<1>1. /\ ~Idle /\ tx.region \in Regions
      /\ log \in [Regions -> SUBSET (1..LastSeq)] /\ LastSeq \in Nat
  BY TxFacts, LenProperties
  DEF PumpCommit, Idle, SlotInv, ConsInv, EditInv, EditTypeOK, LastSeq
<1>2. ThroughSeq \in tx.ops /\ \A t \in tx.ops : t <= ThroughSeq
  BY <1>1, TxFacts DEF SlotInv, TxSound, HasLast, ThroughSeq
<1>3. /\ tx.ops \subseteq log[tx.region]
      /\ \A t \in log[tx.region] \ tx.ops : ThroughSeq < t
  BY <1>1, <1>2 DEF SlotInv, TxOwns
<1>4. \A t \in log[tx.region] : t \in Nat
  BY <1>1
<1>5. {t \in log[tx.region] : t > ThroughSeq} = log[tx.region] \ tx.ops
  BY <1>2, <1>3, <1>4
<1> QED
  BY <1>1, <1>5 DEF PumpCommit, ClearThrough

-----------------------------------------------------------------------------
(* The queue                                                               *)

(* A region waits once, not while it is in flight, and for a list as long  *)
(* as the threshold: edits lengthen a list, and a commit cuts that of the  *)
(* region in flight only.  A snapshot is as long, so what a commit leaves  *)
(* of a full list is short.                                                *)
QueueInv ==
  /\ \A i, j \in DOMAIN queue : queue[i] = queue[j] => i = j
  /\ tx.region \notin Queued
  /\ \A r \in Queued : OpCount(r) >= ConsolidateAtOps
  /\ ~Idle => Cardinality(tx.ops) >= ConsolidateAtOps
  /\ Waiting <= QueueCap

(* The types the queue's lemmas rest on.                                   *)
LEMMA QueueFacts ==
  ASSUME SlotInv
  PROVE  /\ queue \in Seq(Regions) /\ Len(queue) \in Nat /\ DOMAIN queue = 1..Len(queue)
         /\ Queued \subseteq Regions
         /\ QueueCap \in Nat /\ ConsolidateAtOps \in Nat /\ MaxRegionOps \in Nat
         /\ ConsolidateAtOps > 0 /\ MaxRegionOps < 2 * ConsolidateAtOps
         /\ Idle => tx.region = None
         /\ None \notin Regions
         /\ \A r \in Regions : IsFiniteSet(log[r]) /\ OpCount(r) \in Nat
<1>1. queue \in Seq(Regions) /\ EditTypeOK
  BY TxFacts DEF SlotInv, PartsOK, ConsInv, EditInv
<1>2. Len(queue) \in Nat /\ DOMAIN queue = 1..Len(queue) /\ queue \in [1..Len(queue) -> Regions]
  BY <1>1, LenProperties
<1>3. Queued \subseteq Regions
  BY <1>2 DEF Queued
<1>4. Idle => tx.region = None
  BY DEF SlotInv, NoneInFlight, NoTx
<1>5. /\ QueueCap \in Nat /\ ConsolidateAtOps \in Nat /\ MaxRegionOps \in Nat
      /\ ConsolidateAtOps > 0 /\ MaxRegionOps < 2 * ConsolidateAtOps /\ None \notin Regions
  <2>1. QueueCap \in Nat \ {0} /\ ConsolidateAtOps \in Nat \ {0}
        /\ MaxRegionOps < 2 * ConsolidateAtOps /\ None \notin Regions
    BY ConsolidationAssumption
  <2>2. MaxRegionOps \in Nat
    BY EditAssumption
  <2> QED
    BY <2>1, <2>2
<1>6. \A r \in Regions : IsFiniteSet(log[r]) /\ OpCount(r) \in Nat
  BY <1>1, LogFinite
<1> QED
  BY <1>1, <1>2, <1>3, <1>4, <1>5, <1>6

(* The transaction in flight holds edits of its region's list.             *)
LEMMA SnapshotFacts ==
  ASSUME SlotInv, ~Idle
  PROVE  /\ tx.region \in Regions /\ tx.ops \subseteq log[tx.region] /\ tx.ops # {}
         /\ IsFiniteSet(tx.ops) /\ Cardinality(tx.ops) \in Nat
         /\ Cardinality(tx.ops) <= OpCount(tx.region)
<1>1. tx.region \in Regions /\ tx.ops \subseteq log[tx.region] /\ tx.ops # {}
  BY TxFacts DEF SlotInv, TxOwns, TxSound, HasLast
<1>2. IsFiniteSet(log[tx.region])
  BY <1>1, QueueFacts
<1>3. IsFiniteSet(tx.ops) /\ Cardinality(tx.ops) <= Cardinality(log[tx.region])
  BY <1>1, <1>2, FS_Subset
<1> QED
  BY <1>1, <1>3, FS_CardinalityType DEF OpCount

(* What a step does to the queue, the lists and the transaction's region.  *)
LEMMA QueueKinds ==
  ASSUME SlotInv, [ConsNext]_vars
  PROVE  \/ TakeEdit \/ StartBake \/ PumpCommit
         \/ Released /\ queue' = Requeue
         \/ Released /\ queue' = queue /\ PumpRebuildFailed
         \/ /\ UNCHANGED <<queue, log>> /\ (Idle' <=> Idle)
            /\ tx'.region = tx.region /\ tx'.ops = tx.ops
<1> DEFINE quiet == /\ UNCHANGED <<queue, log>> /\ (Idle' <=> Idle)
                    /\ tx'.region = tx.region /\ tx'.ops = tx.ops
<1>0. tx \in TxType
  BY TxFacts DEF SlotInv
<1>1. CASE UNCHANGED vars
  BY <1>1 DEF vars, editVars, consVars, Idle
<1>2. CASE EditStep /\ ~TakeEdit
  BY <1>2 DEF EditStep, StartBatch, SkipEdit, BeginBatch, SkipJunk, consVars, Idle
<1>3. CASE WorldStep /\ ~TeardownWorker
  BY <1>3 DEF WorldStep, Evict, Load, ReloadRender, StartWorker, editVars, Idle
<1>4. CASE TeardownWorker
  <2>1. CASE Idle
    <3>1. tx' = tx /\ queue' = queue /\ log' = log
      BY <1>4, <2>1 DEF TeardownWorker, TeardownQueue, SlotInv, NoneInFlight, editVars
    <3> QED
      BY <3>1 DEF Idle
  <2>2. CASE ~Idle
    <3>1. log[tx.region] # {}
      BY <2>2, SnapshotFacts
    <3> QED
      BY <1>4, <2>2, <3>1 DEF TeardownWorker, TeardownQueue, editVars, Released, LogKept
  <2> QED
    BY <2>1, <2>2
<1>5. CASE WorkerStep
  BY <1>0, <1>5 DEF WorkerStep, WorkerUpdate, WorkerBake, WorkerBakeFails, WorkerPublish,
    WorkerPublishFails, WorkerRestoreFails, editVars, Idle, TxType
<1>6. CASE PumpBakeMoved \/ PumpPublishFailed \/ PumpRebuild \/ PumpPublishMoved
  BY <1>6 DEF PumpBakeMoved, PumpPublishFailed, PumpRebuild, PumpPublishMoved,
    Refuse, editVars, Released, LogKept, Idle
<1>7. CASE PumpRebuildFailed
  BY <1>7 DEF PumpRebuildFailed, editVars, Released, LogKept, Idle
<1>8. CASE PumpBakeFailed
  BY <1>8, NothingAcquired DEF PumpBakeFailed, editVars, store, Released, LogKept, Idle, Using
<1>9. ASSUME NEW pick, NEW done, PumpUploadFailed(pick, done)
      PROVE  Released /\ queue' = Requeue
  BY <1>9, NothingAcquired DEF PumpUploadFailed, editVars, store, Released, LogKept, Idle, Using
<1>10. ASSUME NEW pick, PumpBakeResult(pick) PROVE quiet
  BY <1>0, <1>10 DEF PumpBakeResult, editVars, Idle, TxType
<1> QED
  BY <1>1, <1>2, <1>3, <1>4, <1>5, <1>6, <1>7, <1>8, <1>9, <1>10 DEF ConsNext, PumpStep, EditStep

(* The region in flight goes back to the front.                            *)
LEMMA QueueAfterRefusal ==
  ASSUME SlotInv, QueueInv, Released, queue' = Requeue
  PROVE  QueueInv' /\ CareIsLostKnowingly
<1>0. /\ ~Idle /\ Idle' /\ log' = log /\ tx'.region = None /\ tx.region \in Regions
      /\ tx.region # None
  BY QueueFacts, SnapshotFacts DEF Released, LogKept, Idle, NoTx
<1>1. <<tx.region>> \in Seq(Regions) /\ Len(<<tx.region>>) = 1 /\ <<tx.region>>[1] = tx.region
  BY <1>0
<1>2. /\ Len(queue') = Len(queue) + 1 /\ queue' \in Seq(Regions)
      /\ \A i \in 1..(1 + Len(queue)) : queue'[i] = IF i <= 1 THEN tx.region ELSE queue[i - 1]
  BY <1>1, ConcatProperties, QueueFacts DEF Requeue
<1>3. DOMAIN queue' = 1..(1 + Len(queue)) /\ Len(queue) \in Nat /\ DOMAIN queue = 1..Len(queue)
  BY <1>2, QueueFacts, LenProperties
<1>4. ASSUME NEW i \in DOMAIN queue', NEW j \in DOMAIN queue', queue'[i] = queue'[j]
      PROVE  i = j
  <2>1. i > 1 => i - 1 \in DOMAIN queue /\ queue[i - 1] # tx.region /\ queue'[i] = queue[i - 1]
    BY <1>2, <1>3 DEF QueueInv, Queued
  <2>2. j > 1 => j - 1 \in DOMAIN queue /\ queue[j - 1] # tx.region /\ queue'[j] = queue[j - 1]
    BY <1>2, <1>3 DEF QueueInv, Queued
  <2>3. i \in Nat /\ j \in Nat /\ i >= 1 /\ j >= 1
    BY <1>3
  <2>4. (i = 1 => queue'[i] = tx.region) /\ (j = 1 => queue'[j] = tx.region)
    BY <1>2, <1>3
  <2>5. CASE i > 1 /\ j > 1
    BY <1>4, <2>1, <2>2, <2>3, <2>5 DEF QueueInv
  <2> QED
    BY <1>4, <2>1, <2>2, <2>3, <2>4, <2>5
<1>5. Queued' = Queued \cup {tx.region}
  <2>1. Queued' \subseteq Queued \cup {tx.region}
    <3>1. ASSUME NEW i \in DOMAIN queue' PROVE queue'[i] \in Queued \cup {tx.region}
      BY <1>2, <1>3 DEF Queued
    <3> QED
      BY <3>1 DEF Queued
  <2>2. tx.region \in Queued'
    <3>1. 1 \in DOMAIN queue' /\ queue'[1] = tx.region
      BY <1>2, <1>3
    <3> QED
      BY <3>1 DEF Queued
  <2>3. Queued \subseteq Queued'
    <3>1. ASSUME NEW i \in DOMAIN queue PROVE queue[i] \in Queued'
      <4>1. i + 1 \in DOMAIN queue' /\ queue'[i + 1] = queue[i]
        BY <1>2, <1>3
      <4> QED
        BY <4>1 DEF Queued
    <3> QED
      BY <3>1 DEF Queued
  <2> QED
    BY <2>1, <2>2, <2>3
<1>6. \A r \in Queued' : OpCount(r)' >= ConsolidateAtOps
  <2>1. OpCount(tx.region) >= ConsolidateAtOps
    BY <1>0, SnapshotFacts, QueueFacts DEF QueueInv
  <2> QED
    BY <1>0, <1>5, <2>1 DEF QueueInv, OpCount
<1>7. Waiting' = Waiting
  BY <1>0, <1>2, QueueFacts DEF Waiting
<1>8. tx'.region \notin Queued'
  BY <1>0, <1>5, QueueFacts
<1>9. CareIsLostKnowingly
  BY <1>0, <1>5 DEF CareIsLostKnowingly, InCare
<1> QED
  BY <1>0, <1>4, <1>6, <1>7, <1>8, <1>9 DEF QueueInv

(* The head of the queue is in flight.                                     *)
LEMMA QueueAfterStart ==
  ASSUME SlotInv, QueueInv, StartBake
  PROVE  QueueInv' /\ CareIsLostKnowingly
<1>0. /\ Idle /\ ~Idle' /\ log' = log /\ queue # <<>> /\ queue' = Tail(queue)
      /\ tx'.region = Head(queue) /\ tx'.ops = log[Head(queue)]
  BY DEF StartBake, editVars, Idle
<1>1. /\ queue \in Seq(Regions) /\ Len(queue) \in Nat /\ DOMAIN queue = 1..Len(queue)
      /\ Len(queue) > 0
  BY <1>0, QueueFacts, EmptySeq
<1>2. /\ queue' \in Seq(Regions) /\ Len(queue') = Len(queue) - 1
      /\ \A i \in 1..Len(queue') : queue'[i] = queue[i + 1]
      /\ Head(queue) = queue[1]
  BY <1>0, <1>1, HeadTailProperties
<1>3. DOMAIN queue' = 1..(Len(queue) - 1)
  BY <1>2, LenProperties
<1>4. ASSUME NEW i \in DOMAIN queue', NEW j \in DOMAIN queue', queue'[i] = queue'[j]
      PROVE  i = j
  <2>1. /\ i + 1 \in DOMAIN queue /\ j + 1 \in DOMAIN queue
        /\ queue[i + 1] = queue[j + 1]
    BY <1>1, <1>2, <1>3, <1>4
  <2> QED
    BY <1>3, <2>1 DEF QueueInv
<1>5. /\ \A i \in DOMAIN queue' : i + 1 \in DOMAIN queue /\ i + 1 # 1 /\ queue'[i] = queue[i + 1]
      /\ 1 \in DOMAIN queue
  BY <1>1, <1>2, <1>3
<1>6. Queued' \subseteq Queued /\ Head(queue) \notin Queued' /\ Head(queue) \in Queued
  <2>1. Queued' \subseteq Queued
    BY <1>5 DEF Queued
  <2>2. Head(queue) \notin Queued'
    BY <1>2, <1>5 DEF Queued, QueueInv
  <2> QED
    BY <1>2, <1>5, <2>1, <2>2 DEF Queued
<1>7. Queued \subseteq Queued' \cup {Head(queue)}
  <2>1. ASSUME NEW i \in DOMAIN queue PROVE queue[i] \in Queued' \cup {Head(queue)}
    <3>1. CASE i = 1
      BY <1>2, <3>1
    <3>2. CASE i # 1
      <4>1. i - 1 \in DOMAIN queue' /\ (i - 1) + 1 = i
        BY <1>1, <1>3, <3>2
      <4>2. queue'[i - 1] = queue[i]
        BY <1>5, <4>1
      <4> QED
        BY <4>1, <4>2 DEF Queued
    <3> QED
      BY <3>1, <3>2
  <2> QED
    BY <2>1 DEF Queued
<1>8. \A r \in Queued' : OpCount(r)' >= ConsolidateAtOps
  BY <1>0, <1>6 DEF QueueInv, OpCount
<1>9. Cardinality(tx'.ops) >= ConsolidateAtOps
  BY <1>0, <1>6 DEF QueueInv, OpCount
<1>10. Waiting' = Waiting
  BY <1>0, <1>1, <1>2 DEF Waiting
<1>11. CareIsLostKnowingly
  BY <1>0, <1>7, QueueFacts DEF CareIsLostKnowingly, InCare
<1> QED
  BY <1>0, <1>4, <1>6, <1>8, <1>9, <1>10, <1>11 DEF QueueInv

(* What a commit leaves of a list is short: a list is at most MaxRegionOps *)
(* long and the snapshot at least ConsolidateAtOps, more than half of it.  *)
LEMMA QueueAfterCommit ==
  ASSUME SlotInv, QueueInv, PumpCommit
  PROVE  QueueInv' /\ CareIsLostKnowingly
<1>0. /\ ~Idle /\ Idle' /\ tx'.region = None /\ queue' = queue /\ tx.region \in Regions
      /\ log'[tx.region] = log[tx.region] \ tx.ops
      /\ \A r \in Regions : r # tx.region => log'[r] = log[r]
  BY CommitCutsTheSnapshot, SnapshotFacts DEF PumpCommit, Idle, NoTx
<1>1. Cardinality(log'[tx.region]) \in Nat /\ Cardinality(log'[tx.region]) < ConsolidateAtOps
  <2> DEFINE L == log[tx.region]
  <2>1. /\ IsFiniteSet(L) /\ Cardinality(L) \in Nat /\ Cardinality(L) <= MaxRegionOps
        /\ tx.ops \subseteq L /\ IsFiniteSet(tx.ops) /\ Cardinality(tx.ops) \in Nat
        /\ Cardinality(tx.ops) >= ConsolidateAtOps
    BY <1>0, SnapshotFacts, QueueFacts
    DEF OpCount, SlotInv, ConsInv, EditInv, CapHolds, QueueInv
  <2>2. IsFiniteSet(L \ tx.ops) /\ Cardinality(L \ tx.ops) \in Nat
    BY <2>1, FS_Subset, FS_CardinalityType
  <2>3. (L \ tx.ops) \cup tx.ops = L /\ (L \ tx.ops) \cap tx.ops = {}
    BY <2>1
  <2>4. Cardinality(L) = Cardinality(L \ tx.ops) + Cardinality(tx.ops) - Cardinality({})
    BY <2>1, <2>2, <2>3, FS_Union
  <2>5. Cardinality({}) = 0
    BY FS_EmptySet
  <2> HIDE DEF L
  <2>6. Cardinality(L \ tx.ops) < ConsolidateAtOps
    BY <2>1, <2>2, <2>4, <2>5, QueueFacts
  <2> QED
    BY <1>0, <2>2, <2>6 DEF L
<1>2. Queued' = Queued /\ Queued \subseteq Regions /\ tx.region \notin Queued
  BY <1>0, QueueFacts DEF Queued, QueueInv
<1>3. \A r \in Regions : r # tx.region => OpCount(r)' = OpCount(r)
  BY <1>0 DEF OpCount
<1>4. Waiting' <= QueueCap
  BY <1>0, QueueFacts DEF Waiting, QueueInv
<1>5. CareIsLostKnowingly
  <2> SUFFICES ASSUME NEW r \in Regions, Long(r)', ~InCare(r)'
               PROVE  ~InCare(r) /\ log'[r] = log[r]
    BY DEF CareIsLostKnowingly
  <2>1. r # tx.region
    BY <1>1, QueueFacts DEF Long, OpCount
  <2> QED
    BY <1>0, <1>2, <2>1 DEF InCare
<1>6. \A r \in Queued' : OpCount(r)' >= ConsolidateAtOps
  BY <1>2, <1>3 DEF QueueInv
<1>7. tx'.region \notin Queued'
  BY <1>0, <1>2, QueueFacts
<1>8. \A i, j \in DOMAIN queue' : queue'[i] = queue'[j] => i = j
  BY <1>0 DEF QueueInv
<1> QED
  BY <1>0, <1>4, <1>5, <1>6, <1>7, <1>8 DEF QueueInv

(* A set of numbers has a least.                                           *)
LEMMA LeastNat ==
  ASSUME NEW N \in SUBSET Nat, N # {}
  PROVE  \E m \in N : \A x \in N : ~(x < m)
<1>1. IsWellFoundedOn(OpToRel(<, Nat), Nat)
  BY NatLessThanWellFounded
<1>2. \E m \in N : \A x \in N : ~(<<x, m>> \in OpToRel(<, Nat))
  BY <1>1, WFMin
<1> QED
  BY <1>2 DEF OpToRel

(* An edit queues the regions that became ready, while there is room: the  *)
(* first of them, so that a region left out leaves the queue full.         *)
LEMMA QueueAfterEdit ==
  ASSUME EditAssumption, SlotInv, QueueInv, TakeEdit
  PROVE  QueueInv' /\ CareIsLostKnowingly
<1> DEFINE T == Touched(Head(batch))
           ready == Ready(log', T)
           before(r) == {x \in ready : x < r}
<1>0. PICK new \in Orders : Enqueue(new, log', T)
  BY DEF TakeEdit
<1>1. /\ tx' = tx /\ (Idle' <=> Idle) /\ AppendHead
      /\ IsFiniteSet(Regions) /\ Regions \subseteq Nat
  BY DEF TakeEdit, Idle, EditAssumption
<1>2. /\ queue \in Seq(Regions) /\ Len(queue) \in Nat /\ DOMAIN queue = 1..Len(queue)
      /\ Queued \subseteq Regions /\ QueueCap \in Nat
  BY QueueFacts
<1>3. PICK n \in Nat : new \in [1..n -> Regions]
  <2>1. Cardinality(Regions) \in Nat
    BY <1>1, FS_CardinalityType
  <2> QED
    BY <2>1 DEF Orders
<1>4. new \in Seq(Regions) /\ Len(new) = n /\ DOMAIN new = 1..n
  BY <1>3
<1>5. T \subseteq Regions
  <2>1. Head(batch) \in Ops
    <3>1. batch \in Seq(Ops \cup {Junk}) /\ batch # <<>> /\ Head(batch) # Junk
      BY <1>1 DEF SlotInv, ConsInv, EditInv, EditTypeOK, AppendHead, LockFree
    <3> QED
      BY <3>1, HeadTailProperties
  <2> QED
    BY <2>1, OpFootprint DEF Touched
<1>6. /\ ready \subseteq Regions /\ ready \cap Queued = {} /\ tx.region \notin ready
      /\ \A r \in ready : r \in T /\ Cardinality(log'[r]) >= ConsolidateAtOps
  BY <1>5 DEF Ready
<1>7. /\ \A i, j \in 1..n : i < j => new[i] < new[j]
      /\ {new[i] : i \in 1..n} = {r \in ready : Waiting + Cardinality(before(r)) < QueueCap}
      /\ queue' = queue \o new
  BY <1>0, <1>4 DEF Enqueue, Ascending
<1> HIDE DEF ready, T
<1>8. /\ \A i \in 1..n : new[i] \in ready /\ Waiting + Cardinality(before(new[i])) < QueueCap
      /\ \A r \in ready : Waiting + Cardinality(before(r)) < QueueCap =>
            \E i \in 1..n : new[i] = r
  <2> HIDE DEF before
  <2>1. \A i \in 1..n : new[i] \in {r \in ready : Waiting + Cardinality(before(r)) < QueueCap}
    BY <1>7
  <2>2. \A r \in {x \in ready : Waiting + Cardinality(before(x)) < QueueCap} :
           r \in {new[i] : i \in 1..n}
    BY <1>7
  <2> QED
    BY <2>1, <2>2
<1>9. /\ queue' \in Seq(Regions) /\ Len(queue') = Len(queue) + n
      /\ \A i \in 1..(Len(queue) + n) : queue'[i] =
            IF i <= Len(queue) THEN queue[i] ELSE new[i - Len(queue)]
      /\ DOMAIN queue' = 1..(Len(queue) + n)
  <2>1. /\ queue' \in Seq(Regions) /\ Len(queue') = Len(queue) + n
        /\ \A i \in 1..(Len(queue) + n) : queue'[i] =
              IF i <= Len(queue) THEN queue[i] ELSE new[i - Len(queue)]
    BY <1>2, <1>4, <1>7, ConcatProperties
  <2> QED
    BY <2>1, LenProperties
<1>10. \A i, j \in 1..n : new[i] = new[j] => i = j
  <2>1. \A i \in 1..n : new[i] \in Nat
    BY <1>1, <1>3
  <2> QED
    BY <1>3, <1>7, <2>1
<1>11. ASSUME NEW i \in DOMAIN queue', NEW j \in DOMAIN queue', queue'[i] = queue'[j]
       PROVE  i = j
  <2>1. /\ i <= Len(queue) => i \in DOMAIN queue /\ queue'[i] = queue[i] /\ queue'[i] \in Queued
        /\ i > Len(queue) => /\ i - Len(queue) \in 1..n /\ queue'[i] = new[i - Len(queue)]
                             /\ queue'[i] \notin Queued
    <3>1. i \in Nat /\ i >= 1 /\ i <= Len(queue) + n
      BY <1>2, <1>3, <1>9
    <3>2. CASE i <= Len(queue)
      BY <1>2, <1>9, <3>1, <3>2 DEF Queued
    <3>3. CASE i > Len(queue)
      <4>1. i - Len(queue) \in 1..n
        BY <1>2, <1>3, <3>1, <3>3
      <4>2. queue'[i] = new[i - Len(queue)]
        BY <1>2, <1>9, <3>1, <3>3
      <4>3. queue'[i] \in ready
        BY <1>8, <4>1, <4>2
      <4>4. queue'[i] \notin Queued
        BY <1>6, <4>3
      <4>5. ~(i <= Len(queue))
        BY <1>2, <3>1, <3>3
      <4> QED
        BY <4>1, <4>2, <4>4, <4>5
    <3> QED
      BY <1>2, <3>1, <3>2, <3>3
  <2>2. /\ j <= Len(queue) => j \in DOMAIN queue /\ queue'[j] = queue[j] /\ queue'[j] \in Queued
        /\ j > Len(queue) => /\ j - Len(queue) \in 1..n /\ queue'[j] = new[j - Len(queue)]
                             /\ queue'[j] \notin Queued
    <3>1. j \in Nat /\ j >= 1 /\ j <= Len(queue) + n
      BY <1>2, <1>3, <1>9
    <3>2. CASE j <= Len(queue)
      BY <1>2, <1>9, <3>1, <3>2 DEF Queued
    <3>3. CASE j > Len(queue)
      <4>1. j - Len(queue) \in 1..n
        BY <1>2, <1>3, <3>1, <3>3
      <4>2. queue'[j] = new[j - Len(queue)]
        BY <1>2, <1>9, <3>1, <3>3
      <4>3. queue'[j] \in ready
        BY <1>8, <4>1, <4>2
      <4>4. queue'[j] \notin Queued
        BY <1>6, <4>3
      <4>5. ~(j <= Len(queue))
        BY <1>2, <3>1, <3>3
      <4> QED
        BY <4>1, <4>2, <4>4, <4>5
    <3> QED
      BY <1>2, <3>1, <3>2, <3>3
  <2>3. i \in Nat /\ j \in Nat
    BY <1>2, <1>3, <1>9
  <2>4. CASE i <= Len(queue) /\ j <= Len(queue)
    BY <1>11, <2>1, <2>2, <2>4 DEF QueueInv
  <2>5. CASE i > Len(queue) /\ j > Len(queue)
    <3>1. i - Len(queue) = j - Len(queue)
      BY <1>10, <1>11, <2>1, <2>2, <2>5
    <3> QED
      BY <1>2, <2>3, <3>1
  <2> QED
    BY <1>2, <1>11, <2>1, <2>2, <2>3, <2>4, <2>5
<1>12. /\ Queued' \subseteq Queued \cup ready
       /\ Queued \subseteq Queued'
       /\ \A i \in 1..n : new[i] \in Queued'
  <2>1. ASSUME NEW i \in DOMAIN queue' PROVE queue'[i] \in Queued \cup ready
    <3>1. CASE i <= Len(queue)
      BY <1>2, <1>9, <3>1 DEF Queued
    <3>2. CASE i > Len(queue)
      <4>1. i - Len(queue) \in 1..n /\ queue'[i] = new[i - Len(queue)]
        BY <1>2, <1>3, <1>9, <3>2
      <4> QED
        BY <1>8, <4>1
    <3> QED
      BY <1>2, <1>9, <3>1, <3>2
  <2>2. ASSUME NEW i \in DOMAIN queue PROVE queue[i] \in Queued'
    <3>1. i \in DOMAIN queue' /\ queue'[i] = queue[i]
      BY <1>2, <1>3, <1>9
    <3> QED
      BY <3>1 DEF Queued
  <2>3. ASSUME NEW i \in 1..n PROVE new[i] \in Queued'
    <3>1. i + Len(queue) \in DOMAIN queue' /\ (i + Len(queue)) - Len(queue) = i
          /\ ~(i + Len(queue) <= Len(queue))
      BY <1>2, <1>3, <1>9
    <3>2. queue'[i + Len(queue)] = new[i]
      BY <1>9, <3>1
    <3> QED
      BY <3>1, <3>2 DEF Queued
  <2> QED
    BY <2>1, <2>2, <2>3 DEF Queued
<1>13. ASSUME NEW r \in Regions
       PROVE  /\ OpCount(r) >= ConsolidateAtOps => OpCount(r)' >= ConsolidateAtOps
              /\ r \notin T => OpCount(r)' = OpCount(r)
  <2>1. log'[r] = log[r] \/ log'[r] = log[r] \cup {NextSeq}
    BY <1>1 DEF AppendHead, Take
  <2>2. r \notin T => log'[r] = log[r]
    BY <1>1 DEF AppendHead, Take, T
  <2>3. IsFiniteSet(log[r]) /\ Cardinality(log[r]) \in Nat /\ ConsolidateAtOps \in Nat
    BY QueueFacts DEF OpCount
  <2>4. ASSUME NEW L, NEW x, IsFiniteSet(L), Cardinality(L) \in Nat
        PROVE  Cardinality(L \cup {x}) \in Nat /\ Cardinality(L \cup {x}) >= Cardinality(L)
    <3>1. Cardinality(L \cup {x}) = IF x \in L THEN Cardinality(L) ELSE Cardinality(L) + 1
      BY <2>4, FS_AddElement
    <3> QED
      BY <2>4, <3>1
  <2>5. Cardinality(log'[r]) \in Nat /\ Cardinality(log'[r]) >= Cardinality(log[r])
    <3>1. CASE log'[r] = log[r]
      BY <2>3, <3>1
    <3>2. CASE log'[r] = log[r] \cup {NextSeq}
      <4>1. /\ Cardinality(log[r] \cup {NextSeq}) \in Nat
            /\ Cardinality(log[r] \cup {NextSeq}) >= Cardinality(log[r])
        BY <2>3, <2>4
      <4> QED
        BY <3>2, <4>1
    <3> QED
      BY <2>1, <3>1, <3>2
  <2> QED
    BY <2>2, <2>3, <2>5 DEF OpCount
<1>14. \A r \in ready : IsFiniteSet(before(r)) /\ Cardinality(before(r)) \in Nat
  BY <1>1, <1>6, FS_Subset, FS_CardinalityType
<1>15. Waiting \in Nat /\ Waiting <= QueueCap
  BY <1>2 DEF QueueInv, Waiting
<1>16. Waiting' = Waiting + n /\ Waiting' <= QueueCap
  <2>1. Waiting' = Waiting + n
    <3>1. Len(queue') = Len(queue) + n /\ (Idle' <=> Idle)
      BY <1>1, <1>9
    <3>2. CASE Idle
      BY <1>2, <1>3, <3>1, <3>2 DEF Waiting
    <3>3. CASE ~Idle
      BY <1>2, <1>3, <3>1, <3>3 DEF Waiting
    <3> QED
      BY <3>2, <3>3
  <2>2. CASE n = 0
    BY <1>15, <2>1, <2>2
  <2>3. CASE n > 0
    <3> DEFINE last == new[n]
               f == [i \in 1..(n - 1) |-> new[i]]
    <3>1. n \in 1..n /\ last \in ready /\ Waiting + Cardinality(before(last)) < QueueCap
      BY <1>3, <1>8, <2>3
    <3>2. f \in Injection(1..(n - 1), before(last))
      <4>1. \A i \in 1..(n - 1) : i \in 1..n /\ i < n
        BY <1>3, <2>3
      <4>2. \A i \in 1..(n - 1) : new[i] \in before(last)
        BY <1>7, <1>8, <3>1, <4>1
      <4>3. f \in [1..(n - 1) -> before(last)]
        <5> HIDE DEF before, last
        <5> QED
          BY <4>2
      <4>4. \A i, j \in 1..(n - 1) : f[i] = f[j] => i = j
        BY <1>10, <4>1
      <4> HIDE DEF before, f
      <4> QED
        BY <4>3, <4>4 DEF Injection, IsInjective
    <3>3. Cardinality(1..(n - 1)) <= Cardinality(before(last))
      <4> HIDE DEF f, last, before
      <4> QED
        BY <1>14, <3>1, <3>2, FS_Injection
    <3>4. n - 1 \in Nat /\ Cardinality(1..(n - 1)) = n - 1
      <4>1. n - 1 \in Nat
        BY <1>3, <2>3
      <4> QED
        BY <4>1, FS_Interval
    <3>5. Cardinality(before(last)) \in Nat
      BY <1>14, <3>1
    <3> HIDE DEF last, before
    <3> QED
      BY <1>2, <1>3, <1>15, <2>1, <3>1, <3>3, <3>4, <3>5
  <2> QED
    BY <1>3, <2>2, <2>3
<1>17. ASSUME NEW r \in ready, r \notin Queued' PROVE Waiting' = QueueCap
  <2> SUFFICES ASSUME Waiting + n < QueueCap PROVE FALSE
    BY <1>2, <1>3, <1>15, <1>16
  <2> DEFINE E == {new[i] : i \in 1..n}
  <2>1. IsFiniteSet(E) /\ Cardinality(E) \in Nat /\ Cardinality(E) <= n
    <3> DEFINE f == [i \in 1..n |-> new[i]]
    <3>1. IsFiniteSet(1..n) /\ Cardinality(1..n) = n
      BY <1>3, FS_Interval
    <3>2. f \in Surjection(1..n, E)
      BY DEF Surjection
    <3>3. IsFiniteSet(E) /\ Cardinality(E) <= Cardinality(1..n)
      BY <3>1, <3>2, FS_Surjection
    <3> QED
      BY <3>1, <3>3, FS_CardinalityType
  <2>2. r \in ready \ E /\ ready \ E \subseteq Nat
    <3>1. r \notin E
      BY <1>12, <1>17
    <3> QED
      BY <1>1, <1>6, <1>17, <3>1
  <2>3. PICK m \in ready \ E : \A x \in ready \ E : ~(x < m)
    <3> HIDE DEF E
    <3> QED
      BY <2>2, LeastNat
  <2>4. before(m) \subseteq E
    BY <2>3
  <2>5. Cardinality(before(m)) \in Nat /\ Cardinality(before(m)) <= Cardinality(E)
    <3> HIDE DEF E, before
    <3> QED
      BY <1>14, <2>1, <2>3, <2>4, FS_Subset
  <2>6. Waiting + Cardinality(before(m)) < QueueCap
    <3> HIDE DEF E, before
    <3> QED
      BY <1>2, <1>3, <1>15, <2>1, <2>5
  <2>7. \E i \in 1..n : new[i] = m
    <3> HIDE DEF before
    <3> QED
      BY <1>8, <2>3, <2>6
  <2> QED
    BY <2>3, <2>7
<1>18. CareIsLostKnowingly
  <2> SUFFICES ASSUME NEW r \in Regions, Long(r)', ~InCare(r)', log'[r] # log[r]
               PROVE  ~InCare(r) /\ QueueIsFull'
    BY <1>1, <1>12 DEF CareIsLostKnowingly, InCare
  <2>1. ~InCare(r)
    BY <1>1, <1>12 DEF InCare
  <2>2. r \in T
    BY <1>1 DEF AppendHead, Take, T
  <2>3. r \in ready
    BY <2>1, <2>2 DEF ready, Ready, Long, InCare, OpCount
  <2> QED
    BY <1>17, <2>1, <2>3 DEF InCare, QueueIsFull
<1>19. tx'.region \notin Queued' /\ \A r \in Queued' : OpCount(r)' >= ConsolidateAtOps
  <2>1. \A r \in ready : OpCount(r)' >= ConsolidateAtOps
    BY <1>6 DEF OpCount
  <2>2. \A r \in Queued : OpCount(r)' >= ConsolidateAtOps
    BY <1>2, <1>13 DEF QueueInv
  <2> QED
    BY <1>1, <1>6, <1>12, <2>1, <2>2 DEF QueueInv
<1> QED
  BY <1>1, <1>11, <1>16, <1>18, <1>19 DEF QueueInv

(* Every step keeps the queue sound, and drops no region with a long list  *)
(* but the one of a transaction given up with the worker.                  *)
LEMMA QueueStep ==
  ASSUME SlotInv, QueueInv, [ConsNext]_vars
  PROVE  QueueInv' /\ CareIsLostKnowingly
<1>1. CASE TakeEdit
  BY <1>1, QueueAfterEdit, EditAssumption
<1>2. CASE StartBake
  BY <1>2, QueueAfterStart
<1>3. CASE PumpCommit
  BY <1>3, QueueAfterCommit
<1>4. CASE Released /\ queue' = Requeue
  BY <1>4, QueueAfterRefusal
<1>5. CASE Released /\ queue' = queue /\ PumpRebuildFailed
  <2>1. workerState = "invalid" /\ workerState' = "invalid"
    BY <1>5 DEF PumpRebuildFailed
  <2>2. /\ ~Idle /\ Idle' /\ log' = log /\ tx'.region = None
    BY <1>5 DEF Released, LogKept, Idle, NoTx
  <2>3. QueueInv'
    BY <1>5, <2>2, QueueFacts DEF QueueInv, Queued, OpCount, Waiting
  <2>4. Queued' = Queued
    BY <1>5 DEF Queued
  <2>5. CareIsLostKnowingly
    BY <2>1, <2>2, <2>4 DEF CareIsLostKnowingly, InCare
  <2> QED
    BY <2>3, <2>5
<1>6. CASE /\ UNCHANGED <<queue, log>> /\ (Idle' <=> Idle)
           /\ tx'.region = tx.region /\ tx'.ops = tx.ops
  <2>1. Queued' = Queued /\ Waiting' = Waiting
    BY <1>6 DEF Queued, Waiting
  <2>2. CareIsLostKnowingly
    BY <1>6, <2>1 DEF CareIsLostKnowingly, InCare
  <2> QED
    BY <1>6, <2>1, <2>2 DEF QueueInv, OpCount
<1> QED
  BY <1>1, <1>2, <1>3, <1>4, <1>5, <1>6, QueueKinds

(* At the start nothing waits.                                             *)
LEMMA QueueStart == ConsInit => QueueInv
<1> SUFFICES ASSUME ConsInit PROVE QueueInv
  OBVIOUS
<1>1. SlotInv /\ Idle /\ queue = <<>> /\ Queued = {} /\ DOMAIN queue = {}
  BY SlotInit DEF ConsInit, Idle, NoTx, Queued
<1>2. \A r \in Regions : OpCount(r) = 0
  BY FS_EmptySet DEF ConsInit, EditInit, OpCount
<1>3. Waiting <= QueueCap
  BY <1>1, QueueFacts DEF Waiting
<1> QED
  BY <1>1, <1>3, QueueFacts DEF QueueInv

(* Whatever is refused, rolled back or torn down: a region waits once at   *)
(* most, not while it is in flight, and with a list as long as the         *)
(* threshold, so the pump never takes an empty snapshot; the queue keeps   *)
(* its bound with a transaction's region coming back to it.                *)
THEOREM QueueIsSound == ConsSpec => []QueueInv
<1>1. SlotInv /\ QueueInv /\ [ConsNext]_vars => SlotInv' /\ QueueInv'
  BY SlotStep, QueueStep
<1> QED
  BY <1>1, SlotInit, QueueStart, PTL DEF ConsSpec

(* No list at the threshold is forgotten: a region with one is queued or   *)
(* in flight, but for an edit that found the queue full and for a          *)
(* transaction given up together with the worker (queue_consolidation,     *)
(* requeue_consolidation_locked, refuse_transaction).                      *)
THEOREM NoLongListForgotten == ConsSpec => NothingForgotten
<1>1. SlotInv /\ QueueInv /\ [ConsNext]_vars => SlotInv' /\ QueueInv' /\ CareIsLostKnowingly
  BY SlotStep, QueueStep
<1>2. SlotInv /\ QueueInv =>
        /\ \A i, j \in DOMAIN queue : queue[i] = queue[j] => i = j
        /\ tx.region \notin Queued
        /\ \A r \in Queued : log[r] # {}
        /\ Waiting <= QueueCap
  <2> SUFFICES ASSUME SlotInv, QueueInv PROVE \A r \in Queued : log[r] # {}
    BY DEF QueueInv
  <2>1. ASSUME NEW r \in Queued PROVE log[r] # {}
    <3>1. OpCount(r) >= ConsolidateAtOps /\ r \in Regions
      BY QueueFacts DEF QueueInv
    <3>2. Cardinality({}) = 0
      BY FS_EmptySet
    <3>3. log[r] = {} => OpCount(r) = 0
      BY <3>2 DEF OpCount
    <3>4. ConsolidateAtOps \in Nat /\ ConsolidateAtOps > 0
      BY QueueFacts
    <3> QED
      BY <3>1, <3>3, <3>4
  <2> QED
    BY <2>1
<1> QED
  BY <1>1, <1>2, SlotInit, QueueStart, PTL DEF ConsSpec, NothingForgotten

-----------------------------------------------------------------------------
(***************************************************************************)
(* Whoever reads the world while it is consolidated sees every edit: the   *)
(* CPU store, the atlas and the pool of the worker.                        *)
(*                                                                         *)
(* The store and the atlas follow the transaction step by step.  The       *)
(* worker may be ahead of them: a publication that went through is refused *)
(* if its region moved meanwhile, and nobody takes it back from the        *)
(* worker.  What makes that harmless is the queue: the region goes back to *)
(* its front, so the next transaction is of the same region, and until it  *)
(* commits no other takes the slots the worker still reads.                *)
(***************************************************************************)

(* A load hands the rows of its region to the worker, those of an          *)
(* unfinished transaction with them.  The publication fills their slots,   *)
(* or, if it fails, takes the rows back: but not from a load that comes    *)
(* after it failed and before the pump hears of it.  A reload under the    *)
(* publication has the bytes uploaded before it lost.                      *)
NoLoadBehindFailure == "load behind failure" \notin Events
NoReloadUnderPublication == "reload under publication" \notin Events

-----------------------------------------------------------------------------
(* The bytes                                                               *)

(* The bytes of the bake are back.                                         *)
HasBytes == Using \/ (tx.phase = "baked" /\ tx.ok)

(* What a bake gave shows the world, with the edits it was given baked in. *)
BakedShows ==
  HasBytes => \A k \in tx.bricks :
    /\ Shows(tx.baked[k], tx.region, k)
    /\ \A s \in tx.ops : Reaches(s, tx.region, k) => s \in tx.baked[k].ops

(* What the store is committed to shows the world.                         *)
CommittedShows == \A r \in Regions, k \in Bricks : Shows(CommittedBase(r, k), r, k)

-----------------------------------------------------------------------------
(* The worker                                                              *)

(* The region the worker may be ahead of: in flight, or next to be.        *)
Ahead(r) == IF Idle THEN queue # <<>> /\ r = Head(queue) ELSE r = tx.region

(* The worker has the store's table of a region, or is ahead with a table  *)
(* nobody else has.                                                        *)
WorkerTables ==
  \A r \in Regions :
    IF tableOf[r] # None THEN worker.tableOf[r] = tableOf[r]
    ELSE worker.tableOf[r] # None => Ahead(r) /\ worker.tableOf[r] \in FreeTables

(* A row of the worker names the slots its region owns, and no other but   *)
(* for the region it is ahead of; every slot it names shows the world,     *)
(* unless the publication is yet to fill it.                               *)
WorkerRows ==
  \A r \in Regions, k \in Bricks : worker.tableOf[r] # None =>
    LET s == worker.rows[worker.tableOf[r]][k]
    IN  /\ Owned(r, k) => s = slotOf[r][k]
        /\ ~Owned(r, k) => s = None \/ Ahead(r)
        /\ s # None => \/ tx.phase = "publishing" /\ Speculative(r, k) /\ s = slotOf[r][k]
                       \/ Shows(worker.bytes[s], r, k)

(* After a publication the worker holds what the commit will make true.    *)
WorkerPublished ==
  tx.phase = "published" /\ tx.ok =>
    /\ worker.tableOf[tx.region] = tx.table
    /\ worker.rows[tx.table] = slotOf[tx.region]
    /\ \A k \in tx.bricks : worker.bytes[slotOf[tx.region][k]] = tx.baked[k]

(* An update that waits tells the worker nothing but what the store holds, *)
(* or what the worker was left ahead with; the next bake waits for it.     *)
WorkerUpdates ==
  \A i \in DOMAIN updates :
    LET u == updates[i]
    IN  /\ tableOf[u.region] = u.table
        /\ \A k \in Bricks : u.row[k] # None =>
             \/ u.row[k] = slotOf[u.region][k]
             \/ /\ tx.phase \in {"idle", "baking"}
                /\ Ahead(u.region) /\ worker.rows[u.table][k] = u.row[k]

(* A worker that is neither spoiled nor down.                              *)
WorkerInv ==
  workerState = "ok" => WorkerTables /\ WorkerRows /\ WorkerPublished /\ WorkerUpdates

(* A worker that is down has no transaction, one that is not up no update. *)
WorkerIsUp ==
  /\ workerState = "down" => Idle
  /\ workerState # "ok" => updates = <<>>
  /\ tx.phase = "published" /\ tx.ok => workerState = "ok"

(* Behind a failed publication the pump has not heard of, no update of its *)
(* region waits.                                                           *)
NothingBehindFailure ==
  workerState = "ok" /\ tx.phase = "published" /\ ~tx.ok =>
    \A i \in DOMAIN updates : updates[i].region # tx.region

-----------------------------------------------------------------------------
(* The atlas                                                               *)

(* The bytes a slot of the atlas has: those of the transaction from the    *)
(* upload on.                                                              *)
Current(r, k) ==
  IF Using /\ r = tx.region /\ k \in tx.bricks THEN tx.baked[k] ELSE cpu[slotOf[r][k]]

(* A row of the atlas names the store's slots or nothing, all of them if   *)
(* the region is resident; tables nobody has are empty.                    *)
RenderRows ==
  /\ \A t \in FreeTables : render.rows[t] = NoRow
  /\ \A r \in Regions, k \in Bricks : tableOf[r] # None =>
       /\ render.rows[tableOf[r]][k] \in {None, slotOf[r][k]}
       /\ residency[r] # None /\ Owned(r, k) => render.rows[tableOf[r]][k] = slotOf[r][k]

(* Every slot in use has its bytes.                                        *)
RenderBytes ==
  \A r \in Regions, k \in Bricks :
    slotOf[r][k] # None => render.bytes[slotOf[r][k]] = Current(r, k)

-----------------------------------------------------------------------------
(* What a base shows                                                       *)

(* A base that gives the edits gives them with a newer one in the list.    *)
LEMMA GivesNewer ==
  ASSUME NEW b, NEW brick, NEW list, NEW wanted, NEW n,
         Gives(b, brick, list, wanted), \A s \in wanted : s < n
  PROVE  Gives(b, brick, list \cup {n}, wanted \cup {n})
<1>1. b.ops \subseteq wanted
  BY DEF Gives
<1> QED
  BY <1>1 DEF Gives

(* Whatever showed the world goes on to show it.                           *)
LEMMA ShowsStays ==
  ASSUME SlotInv, LogKept \/ AppendHead, NEW r \in Regions, NEW k \in Bricks, NEW b,
         Shows(b, r, k)
  PROVE  Gives(b, Brick(r, k), Logged(r, k)', Field(r, k)')
<1>1. CASE LogKept
  BY <1>1 DEF LogKept, Logged, Field, Reaches, Shows
<1>2. CASE AppendHead
  <2>0. PICK n : n = LastSeq + 1
    OBVIOUS
  <2>1. /\ LastSeq \in Nat
        /\ log[r] \subseteq 1..LastSeq /\ accepted[r] \subseteq 1..LastSeq
        /\ \A s \in 1..LastSeq : history'[s] = history[s]
        /\ \/ log'[r] = log[r] /\ accepted'[r] = accepted[r]
           \/ log'[r] = log[r] \cup {n} /\ accepted'[r] = accepted[r] \cup {n}
    BY <1>2, <2>0, AppendFacts, EditAssumption DEF SlotInv, ConsInv, EditInv, EditTypeOK
  <2>2. \A s \in 1..LastSeq : Reaches(s, r, k)' <=> Reaches(s, r, k)
    BY <2>1 DEF Reaches
  <2>3. \A s \in Field(r, k) : s < n
    BY <2>0, <2>1 DEF Field
  <2>4. CASE n \in log'[r] /\ Reaches(n, r, k)'
    <3>1. log'[r] = log[r] \cup {n} /\ accepted'[r] = accepted[r] \cup {n}
      BY <2>0, <2>1, <2>4
    <3>2. Logged(r, k)' = Logged(r, k) \cup {n} /\ Field(r, k)' = Field(r, k) \cup {n}
      BY <2>1, <2>2, <2>4, <3>1 DEF Logged, Field
    <3> QED
      BY <2>3, <3>2, GivesNewer DEF Shows
  <2>5. CASE ~(n \in log'[r] /\ Reaches(n, r, k)')
    <3>1. Logged(r, k)' = Logged(r, k) /\ Field(r, k)' = Field(r, k)
      BY <2>1, <2>2, <2>5 DEF Logged, Field
    <3> QED
      BY <3>1 DEF Shows
  <2> QED
    BY <2>4, <2>5
<1> QED
  BY <1>1, <1>2

(* Bytes that show the world, and that have the edits of the snapshot if   *)
(* they are of the region in flight, go on to show it when the snapshot    *)
(* leaves the list.                                                        *)
LEMMA ShowsCommitted ==
  ASSUME SlotInv, PumpCommit, NEW r \in Regions, NEW k \in Bricks, NEW b,
         Shows(b, r, k),
         r = tx.region => \A s \in tx.ops : Reaches(s, r, k) => s \in b.ops
  PROVE  Gives(b, Brick(r, k), Logged(r, k)', Field(r, k)')
<1>1. Field(r, k)' = Field(r, k)
  BY CommitCutsTheSnapshot DEF Field, Reaches
<1>2. CASE r # tx.region
  BY <1>1, <1>2, CommitCutsTheSnapshot DEF Shows, Logged, Reaches
<1>3. CASE r = tx.region
  <2>1. Logged(r, k)' = {s \in Logged(r, k) : s \notin tx.ops}
    BY <1>3, CommitCutsTheSnapshot DEF Logged, Reaches
  <2>2. \A s \in Logged(r, k) : s \in tx.ops => s \in b.ops
    BY <1>3 DEF Logged
  <2>3. b.ops \cup Logged(r, k)' = b.ops \cup Logged(r, k)
    BY <2>1, <2>2
  <2> QED
    BY <1>1, <2>3 DEF Shows, Gives
<1> QED
  BY <1>2, <1>3

-----------------------------------------------------------------------------
(* The store                                                               *)

(* Nothing but a commit changes what the store is committed to, and a      *)
(* commit only the bricks of its transaction.                              *)
LEMMA BaseStands ==
  ASSUME SlotInv, [ConsNext]_vars, NEW r \in Regions, NEW k \in Bricks
  PROVE  CommittedBase(r, k)' =
           IF PumpCommit /\ r = tx.region /\ k \in tx.bricks THEN tx.baked[k]
           ELSE CommittedBase(r, k)
<1>1. CASE Stays /\ ~PumpCommit
  BY <1>1 DEF Stays, CommittedBase, CpuBase, Speculative, Fresh
<1>2. CASE StartBake /\ ~PumpCommit
  <2>1. ~Speculative(r, k) /\ ~Speculative(r, k)' /\ UNCHANGED <<slotOf, cpu>>
    BY <1>2 DEF StartBake, store, Speculative, Fresh, Idle
  <2> QED
    BY <1>2, <2>1 DEF CommittedBase, CpuBase
<1>3. CASE Works /\ ~PumpCommit
  <2>1. Speculative(r, k)' <=> Speculative(r, k)
    BY <1>3 DEF Works, Speculative, Fresh
  <2> QED
    BY <1>3, <2>1 DEF Works, CommittedBase, CpuBase
<1>4. CASE Released /\ ~PumpCommit
  <2>1. ~Speculative(r, k)'
    BY <1>4, ReleasedRow DEF Speculative, Fresh, Idle
  <2>2. Owned(r, k)' <=> Owned(r, k)
    BY <1>4, ReleasedRow
  <2>3. cpu' = cpu
    BY <1>4 DEF Released
  <2>4. CASE Owned(r, k)
    BY <1>4, <2>1, <2>3, <2>4, ReleasedRow DEF Owned, CommittedBase, CpuBase
  <2>5. CASE ~Owned(r, k)
    BY <1>4, <2>1, <2>2, <2>5 DEF Owned, CommittedBase, CpuBase
  <2> QED
    BY <2>4, <2>5
<1>5. ASSUME NEW pick \in Injection(ToAcquire, FreeSlots), PumpBakeResult(pick)
      PROVE  CommittedBase(r, k)' = CommittedBase(r, k)
  <2>1. /\ ~Idle /\ ~Using /\ tx.region \in Regions
        /\ tx'.phase = "publishing" /\ tx'.region = tx.region /\ tx'.bricks = tx.bricks
        /\ tx'.old = tx.old /\ slotOf' = Acquire(pick) /\ cpu' = cpu
    BY <1>5, TxFacts DEF PumpBakeResult, Idle, Using, SlotInv, TxType
  <2>2. ~Speculative(r, k) /\ (Speculative(r, k)' <=> r = tx.region /\ k \in ToAcquire)
    BY <2>1 DEF Speculative, Fresh, ToAcquire, Using
  <2>3. CASE r = tx.region /\ k \in ToAcquire
    BY <2>1, <2>2, <2>3, AcquiredRow DEF CommittedBase, CpuBase
  <2>4. CASE ~(r = tx.region /\ k \in ToAcquire)
    <3>1. slotOf'[r][k] = slotOf[r][k]
      BY <2>1, <2>4, AcquiredRow
    <3> QED
      BY <2>1, <2>2, <2>4, <3>1 DEF CommittedBase, CpuBase
  <2> QED
    BY <2>3, <2>4
<1>6. CASE PumpCommit
  <2>1. /\ ~Idle /\ Using /\ tx.region \in Regions
        /\ slotOf' = slotOf /\ cpu' = CommittedBytes /\ ~Speculative(r, k)'
        /\ tx.bricks \subseteq Bricks /\ slotOf[r][k] \in Slots \cup {None}
    BY <1>6, TxFacts, SlotFacts
    DEF PumpCommit, Idle, Using, SlotInv, NoTx, Speculative, Fresh
  <2>2. \A j \in tx.bricks : slotOf[tx.region][j] # None
    BY <2>1 DEF SlotInv, TxOwns
  <2>3. CASE r = tx.region /\ k \in tx.bricks
    <3>1. \A j \in tx.bricks : slotOf[tx.region][j] = slotOf[r][k] => j = k
      BY <2>1, <2>2, <2>3, OneBrickPerSlot
    <3>2. slotOf[r][k] \in Slots /\ slotOf[r][k] # None
      BY <2>1, <2>2, <2>3, SlotFacts
    <3>3. cpu'[slotOf[r][k]] = tx.baked[k]
      BY <2>1, <2>3, <3>1, <3>2 DEF CommittedBytes
    <3> QED
      BY <1>6, <2>1, <2>3, <3>2, <3>3 DEF CommittedBase, CpuBase
  <2>4. CASE ~(r = tx.region /\ k \in tx.bricks)
    <3>1. ~Speculative(r, k)
      BY <2>4 DEF Speculative, Fresh
    <3>2. CASE slotOf[r][k] = None
      BY <2>1, <2>4, <3>1, <3>2 DEF CommittedBase, CpuBase
    <3>3. CASE slotOf[r][k] # None
      <4>1. \A j \in tx.bricks : slotOf[tx.region][j] # slotOf[r][k]
        BY <2>1, <2>2, <2>4, <3>3, OneBrickPerSlot
      <4>2. cpu'[slotOf[r][k]] = cpu[slotOf[r][k]]
        BY <2>1, <3>3, <4>1 DEF CommittedBytes
      <4> QED
        BY <2>1, <2>4, <3>1, <3>3, <4>2 DEF CommittedBase, CpuBase
    <3> QED
      BY <3>2, <3>3
  <2> QED
    BY <2>3, <2>4
<1>7. ASSUME NEW pick, PumpBakeResult(pick) PROVE ~PumpCommit
  BY <1>7 DEF PumpBakeResult, PumpCommit
<1> QED
  BY <1>1, <1>2, <1>3, <1>4, <1>5, <1>6, <1>7, StepKinds

(* Every step keeps what the store is committed to true: only the commit   *)
(* changes it, to what the bake gave.                                      *)
LEMMA CommittedStep ==
  ASSUME SlotInv, BakedShows, CommittedShows, [ConsNext]_vars
  PROVE  CommittedShows'
<1> SUFFICES ASSUME NEW r \in Regions, NEW k \in Bricks
             PROVE  Gives(CommittedBase(r, k)', Brick(r, k), Logged(r, k)', Field(r, k)')
  BY DEF CommittedShows, Shows
<1>1. Shows(CommittedBase(r, k), r, k)
  BY DEF CommittedShows
<1>2. CASE PumpCommit
  <2>1. CASE r = tx.region /\ k \in tx.bricks
    <3>1. Shows(tx.baked[k], r, k) /\ \A s \in tx.ops : Reaches(s, r, k) => s \in tx.baked[k].ops
      BY <1>2, <2>1 DEF BakedShows, HasBytes, Using, PumpCommit
    <3>2. CommittedBase(r, k)' = tx.baked[k]
      BY <1>2, <2>1, BaseStands
    <3> QED
      BY <1>2, <3>1, <3>2, ShowsCommitted
  <2>2. CASE ~(r = tx.region /\ k \in tx.bricks)
    <3>1. r = tx.region => \A s \in tx.ops : ~Reaches(s, r, k)
      BY <1>2, <2>2 DEF SlotInv, TxOwns, PumpCommit, Idle
    <3>2. CommittedBase(r, k)' = CommittedBase(r, k)
      BY <2>2, BaseStands
    <3> QED
      BY <1>1, <1>2, <3>1, <3>2, ShowsCommitted
  <2> QED
    BY <2>1, <2>2
<1>3. CASE ~PumpCommit
  <2>1. CommittedBase(r, k)' = CommittedBase(r, k)
    BY <1>3, BaseStands
  <2>2. LogKept \/ AppendHead
    BY <1>3, StepKinds DEF Stays, StartBake, Works, Released, PumpBakeResult, editVars, LogKept
  <2> QED
    BY <1>1, <2>1, <2>2, ShowsStays
<1> QED
  BY <1>2, <1>3

-----------------------------------------------------------------------------
(* What a bake gives                                                       *)

(* What the worker reads when it is free shows the world.                  *)
LEMMA WorkerShows ==
  ASSUME SlotInv, CommittedShows, WorkerInv
  PROVE  WorkerShowsTheWorld
<1> SUFFICES ASSUME Free, NEW r \in Regions, NEW k \in Bricks, ~Unfilled(r, k)
             PROVE  Shows(Base(worker, worker.tableOf[r], r, k), r, k)
  BY DEF WorkerShowsTheWorld
<1>1. WorkerTables /\ WorkerRows
  BY DEF WorkerInv, Free
<1>2. ~Owned(r, k) => Shows(Terrain(r, k), r, k)
  BY DEF CommittedShows, CommittedBase, CpuBase, Owned
<1>3. Owned(r, k) => slotOf[r][k] # None /\ tableOf[r] # None
  BY DEF SlotInv, OwnedSlots, Owned
<1>4. CASE worker.tableOf[r] = None
  BY <1>1, <1>2, <1>3, <1>4 DEF WorkerTables, Base
<1>5. CASE worker.tableOf[r] # None
  <2> DEFINE s == worker.rows[worker.tableOf[r]][k]
  <2>1. /\ Owned(r, k) => s = slotOf[r][k]
        /\ s # None => Shows(worker.bytes[s], r, k)
    BY <1>1, <1>5 DEF WorkerRows, Unfilled
  <2>2. CASE s = None
    BY <1>2, <1>3, <1>5, <2>1, <2>2 DEF Base
  <2>3. CASE s # None
    BY <1>5, <2>1, <2>3 DEF Base
  <2> QED
    BY <2>2, <2>3
<1> QED
  BY <1>4, <1>5

(* A bake over a base that shows the world shows it too.                   *)
LEMMA BakeShows ==
  ASSUME SlotInv, CommittedShows, WorkerInv, WorkerBake, NEW k \in tx.bricks
  PROVE  /\ Shows(tx'.baked[k], tx.region, k)
         /\ \A s \in tx.ops : Reaches(s, tx.region, k) => s \in tx'.baked[k].ops
<1> DEFINE r == tx.region
           base == Base(worker, worker.tableOf[r], r, k)
           added == {s \in tx.ops : Reaches(s, r, k)}
<1>0. r \in Regions /\ k \in Bricks /\ tx \in TxType /\ ~Idle
  BY TxFacts DEF SlotInv, WorkerBake, Idle
<1>1. tx'.baked[k] = [of |-> base.of, ops |-> base.ops \cup added]
  BY <1>0 DEF WorkerBake, TxType
<1>2. Shows(base, r, k)
  <2>1. ~Unfilled(r, k) /\ Free
    BY DEF WorkerBake, Unfilled
  <2> HIDE DEF r
  <2> QED
    BY <1>0, <2>1, WorkerShows DEF WorkerShowsTheWorld
<1>3. /\ added \subseteq Logged(r, k)
      /\ \A s \in added, t \in Logged(r, k) \ added : s < t
  BY <1>0 DEF SlotInv, TxOwns, Logged
<1> HIDE DEF base, added, r
<1>4. Gives(tx'.baked[k], Brick(r, k), Logged(r, k), Field(r, k))
  BY <1>1, <1>2, <1>3 DEF Shows, Gives
<1>5. \A s \in tx.ops : Reaches(s, r, k) => s \in tx'.baked[k].ops
  BY <1>1 DEF added
<1> QED
  BY <1>4, <1>5 DEF Shows, r

(* What a bake gave stays true until it is committed: edits add to the     *)
(* list, and no commit comes between.                                      *)
LEMMA BakedStep ==
  ASSUME SlotInv, BakedShows, CommittedShows, WorkerInv, [ConsNext]_vars
  PROVE  BakedShows'
<1> SUFFICES ASSUME HasBytes', NEW k \in tx'.bricks
             PROVE  /\ Gives(tx'.baked[k], Brick(tx'.region, k),
                             Logged(tx.region, k)', Field(tx.region, k)')
                    /\ \A s \in tx'.ops : Reaches(s, tx.region, k)' => s \in tx'.baked[k].ops
  BY DEF BakedShows, Shows
<1>0. tx \in TxType /\ TxSound
  BY TxFacts DEF SlotInv
<1>1. CASE HasBytes /\ tx'.region = tx.region /\ tx'.bricks = tx.bricks /\ tx'.baked = tx.baked
             /\ tx'.ops = tx.ops /\ (LogKept \/ AppendHead)
  <2>1. /\ tx.region \in Regions /\ k \in Bricks /\ tx.ops \subseteq 1..LastSeq
    BY <1>0, <1>1, TxFacts DEF HasBytes, Using, Idle, SlotInv, TxSound
  <2>2. /\ Shows(tx.baked[k], tx.region, k)
        /\ \A s \in tx.ops : Reaches(s, tx.region, k) => s \in tx.baked[k].ops
    BY <1>1 DEF BakedShows
  <2>3. \A s \in tx.ops : history'[s] = history[s]
    BY <1>1, <2>1, AppendFacts, EditAssumption DEF SlotInv, LogKept
  <2>4. Gives(tx.baked[k], Brick(tx.region, k), Logged(tx.region, k)', Field(tx.region, k)')
    <3>1. PICK r \in Regions : r = tx.region
      BY <2>1
    <3>2. Gives(tx.baked[k], Brick(r, k), Logged(r, k)', Field(r, k)')
      BY <1>1, <2>1, <2>2, <3>1, ShowsStays
    <3> QED
      BY <1>1, <3>1, <3>2 DEF Logged, Field
  <2> QED
    BY <1>1, <2>2, <2>3, <2>4 DEF Reaches
<1>2. CASE WorkerBake
  <2>1. /\ tx'.region = tx.region /\ tx'.bricks = tx.bricks /\ tx'.ops = tx.ops
        /\ UNCHANGED <<log, history, accepted>>
    BY <1>0, <1>2 DEF WorkerBake, editVars, TxType
  <2> QED
    BY <1>2, <2>1, BakeShows DEF Shows, Logged, Field, Reaches
<1>3. CASE WorkerBakeFails
  BY <1>0, <1>3 DEF WorkerBakeFails, TxType, TxSound, HasBytes, Using, Idle
<1>4. CASE ~WorkerBake /\ ~WorkerBakeFails
  <2>1. Stays => HasBytes
    BY DEF Stays, HasBytes, Using
  <2>2. ~StartBake /\ ~Released /\ ~PumpCommit
    BY DEF StartBake, Released, PumpCommit, NoTx, HasBytes, Using
  <2>3. CASE Stays
    BY <1>1, <2>1, <2>3 DEF Stays
  <2>4. CASE Works
    BY <1>1, <1>4, <2>4 DEF Works, HasBytes, Using
  <2>5. ASSUME NEW pick, PumpBakeResult(pick)
        PROVE  /\ HasBytes /\ tx'.region = tx.region /\ tx'.bricks = tx.bricks
               /\ tx'.baked = tx.baked /\ tx'.ops = tx.ops /\ LogKept
    BY <1>0, <2>5 DEF PumpBakeResult, HasBytes, editVars, LogKept, TxType
  <2> QED
    BY <1>1, <2>2, <2>3, <2>4, <2>5, StepKinds
<1> QED
  BY <1>2, <1>3, <1>4

-----------------------------------------------------------------------------
(* The worker's state                                                      *)

(* A teardown ends the transaction; a spoiled worker has no update.        *)
LEMMA UpStep ==
  ASSUME SlotInv, WorkerIsUp, [ConsNext]_vars
  PROVE  WorkerIsUp'
<1>0. tx \in TxType /\ updates \in Seq([region : Regions, table : Tables, row : Row])
  BY TxFacts DEF SlotInv, PartsOK
<1>1. CASE EditStep \/ UNCHANGED vars
  BY <1>1 DEF EditStep, StartBatch, SkipEdit, TakeEdit, vars, consVars, mesh, WorkerIsUp, Idle
<1>2. CASE PumpStep
  <2>1. ASSUME NEW pick, PumpBakeResult(pick) PROVE WorkerIsUp'
    BY <1>0, <2>1 DEF PumpBakeResult, mesh, WorkerIsUp, Idle, TxType
  <2>2. ASSUME NEW pick, NEW done, PumpUploadFailed(pick, done) PROVE WorkerIsUp'
    BY <2>2 DEF PumpUploadFailed, mesh, WorkerIsUp, Idle, NoTx
  <2>3. CASE StartBake
    BY <2>3 DEF StartBake, mesh, WorkerIsUp, Idle
  <2>4. CASE PumpRebuild
    BY <2>4 DEF PumpRebuild, Refuse, WorkerIsUp, Idle, NoTx
  <2>5. CASE PumpRebuildFailed
    BY <2>5 DEF PumpRebuildFailed, WorkerIsUp, Idle, NoTx
  <2>6. CASE PumpBakeFailed \/ PumpBakeMoved \/ PumpPublishFailed \/ PumpPublishMoved \/ PumpCommit
    BY <2>6 DEF PumpBakeFailed, PumpBakeMoved, PumpPublishFailed, PumpPublishMoved, PumpCommit,
      Refuse, mesh, WorkerIsUp, Idle, NoTx
  <2> QED
    BY <1>2, <2>1, <2>2, <2>3, <2>4, <2>5, <2>6 DEF PumpStep
<1>3. CASE WorkerStep
  BY <1>0, <1>3 DEF WorkerStep, WorkerUpdate, WorkerBake, WorkerBakeFails, WorkerPublish,
    WorkerPublishFails, WorkerRestoreFails, Free, mesh, WorkerIsUp, Idle, TxType
<1>4. CASE WorldStep
  <2>1. CASE TeardownWorker
    BY <2>1 DEF TeardownWorker, WorkerIsUp, Idle, NoTx
  <2>2. CASE StartWorker
    BY <2>2 DEF StartWorker, WorkerIsUp
  <2>3. ASSUME NEW r, NEW rs, Load(r, rs) PROVE WorkerIsUp'
    <3>1. /\ tx' = tx /\ workerState' = workerState
          /\ workerState # "ok" => updates' = updates
      BY <2>3 DEF Load
    <3> QED
      BY <3>1 DEF WorkerIsUp, Idle
  <2>4. CASE ReloadRender \/ \E r \in Regions : Evict(r)
    BY <2>4 DEF Evict, ReloadRender, mesh, WorkerIsUp, Idle
  <2> QED
    BY <1>4, <2>1, <2>2, <2>3, <2>4 DEF WorldStep
<1> QED
  BY <1>1, <1>2, <1>3, <1>4 DEF ConsNext

(* The updates that wait after a step waited before, or come from a load.  *)
LEMMA UpdatesAfter ==
  ASSUME SlotInv, [ConsNext]_vars, NEW i \in DOMAIN updates'
  PROVE  \/ \E j \in DOMAIN updates : updates'[i] = updates[j]
         \/ \E r \in Regions, rs \in RSlots : /\ Load(r, rs) /\ updates'[i].region = r
                                              /\ tableOf[r] # None /\ updates'[i].table = tableOf[r]
                                              /\ updates'[i].row = slotOf[r]
<1> DEFINE U == [region : Regions, table : Tables, row : Row]
<1>0. updates \in Seq(U)
  BY TxFacts DEF SlotInv, PartsOK
<1>1. CASE updates' = updates
  BY <1>1
<1>2. CASE updates' = <<>>
  BY <1>2
<1>3. CASE updates # <<>> /\ updates' = Tail(updates)
  <2>1. /\ Len(Tail(updates)) = Len(updates) - 1 /\ Len(updates) \in Nat
        /\ DOMAIN updates = 1..Len(updates)
        /\ DOMAIN Tail(updates) = 1..(Len(updates) - 1)
        /\ \A j \in 1..(Len(updates) - 1) : Tail(updates)[j] = updates[j + 1]
    <3> HIDE DEF U
    <3> QED
      BY <1>0, <1>3, HeadTailProperties, LenProperties, EmptySeq
  <2>2. i \in 1..(Len(updates) - 1)
    BY <1>3, <2>1
  <2>3. i + 1 \in DOMAIN updates /\ updates'[i] = updates[i + 1]
    BY <1>3, <2>1, <2>2
  <2> QED
    BY <2>3
<1>4. ASSUME NEW r \in Regions, NEW rs \in RSlots, Load(r, rs), updates' # updates
      PROVE  \/ \E j \in DOMAIN updates : updates'[i] = updates[j]
             \/ /\ updates'[i].region = r
                /\ tableOf[r] # None /\ updates'[i].table = tableOf[r] /\ updates'[i].row = slotOf[r]
  <2> DEFINE u == [region |-> r, table |-> tableOf[r], row |-> slotOf[r]]
  <2>1. tableOf[r] # None /\ updates' = Append(updates, u)
    BY <1>4 DEF Load
  <2>2. u \in U
    BY <2>1, TxFacts DEF SlotInv
  <2>3. u.region = r /\ u.table = tableOf[r] /\ u.row = slotOf[r]
    OBVIOUS
  <2> HIDE DEF U, u
  <2>4. /\ Len(updates') = Len(updates) + 1 /\ Len(updates) \in Nat
        /\ DOMAIN updates = 1..Len(updates) /\ DOMAIN updates' = 1..Len(updates')
        /\ \A j \in 1..Len(updates) : updates'[j] = updates[j]
        /\ updates'[Len(updates) + 1] = u
    BY <1>0, <2>1, <2>2, AppendProperties, LenProperties
  <2> QED
    BY <2>1, <2>3, <2>4
<1>5. \/ updates' = updates \/ updates' = <<>>
      \/ updates # <<>> /\ updates' = Tail(updates)
      \/ \E r \in Regions, rs \in RSlots : Load(r, rs)
  BY DEF ConsNext, EditStep, StartBatch, SkipEdit, TakeEdit, vars, consVars, mesh,
    PumpStep, StartBake, PumpBakeFailed, PumpBakeMoved, PumpBakeResult, PumpUploadFailed,
    PumpPublishFailed, PumpRebuild, PumpRebuildFailed, PumpPublishMoved, PumpCommit, Refuse,
    WorkerStep, WorkerUpdate, WorkerBake, WorkerBakeFails, WorkerPublish, WorkerPublishFails,
    WorkerRestoreFails, WorldStep, Evict, ReloadRender, TeardownWorker, StartWorker
<1> QED
  BY <1>1, <1>2, <1>3, <1>4, <1>5

(* A publication that fails finds no update waiting, and what is loaded    *)
(* before the pump hears of it is another region.                          *)
LEMMA BehindStep ==
  ASSUME NoLoadBehindFailure, SlotInv, WorkerIsUp, NothingBehindFailure, [ConsNext]_vars
  PROVE  NothingBehindFailure'
<1> SUFFICES ASSUME workerState' = "ok", tx'.phase = "published", ~tx'.ok,
                    NEW i \in DOMAIN updates'
             PROVE  updates'[i].region # tx'.region
  BY DEF NothingBehindFailure
<1>0. tx \in TxType
  BY TxFacts DEF SlotInv
<1>1. CASE tx' = tx /\ workerState' = workerState
  <2>1. \A j \in DOMAIN updates : updates[j].region # tx.region
    BY <1>1 DEF NothingBehindFailure
  <2>2. \A r, rs : Load(r, rs) => r # tx.region
    BY <1>1 DEF Load, FailedUnheard, NoLoadBehindFailure
  <2> QED
    BY <1>1, <2>1, <2>2, UpdatesAfter
<1>2. CASE EditStep \/ UNCHANGED vars
  BY <1>1, <1>2 DEF EditStep, StartBatch, SkipEdit, TakeEdit, vars, consVars, mesh
<1>3. CASE WorkerStep
  <2>1. ASSUME NEW done, WorkerPublishFails(done) PROVE FALSE
    <3>1. updates' = <<>>
      BY <2>1 DEF WorkerPublishFails, Free
    <3>2. DOMAIN updates' = {}
      BY <3>1
    <3> QED
      BY <3>2
  <2>2. ~WorkerPublish /\ ~WorkerBake /\ ~WorkerBakeFails
    BY <1>0 DEF WorkerPublish, WorkerBake, WorkerBakeFails, TxType
  <2>3. \A done : ~WorkerRestoreFails(done)
    BY DEF WorkerRestoreFails
  <2> QED
    BY <1>1, <1>3, <2>1, <2>2, <2>3 DEF WorkerStep, WorkerUpdate
<1>4. CASE WorldStep
  BY <1>1, <1>4 DEF WorldStep, Evict, Load, ReloadRender, TeardownWorker, StartWorker, mesh,
    WorkerIsUp, Idle, NoTx
<1>5. ~PumpStep
  <2>1. ~StartBake
    BY DEF StartBake
  <2>2. \A pick : ~PumpBakeResult(pick)
    BY <1>0 DEF PumpBakeResult, TxType
  <2>3. tx' # NoTx
    BY DEF NoTx
  <2> QED
    BY <2>1, <2>2, <2>3 DEF PumpStep, PumpBakeFailed, PumpBakeMoved, PumpUploadFailed,
      PumpPublishFailed, PumpRebuild, PumpRebuildFailed, PumpPublishMoved, PumpCommit, Refuse
<1> QED
  BY <1>2, <1>3, <1>4, <1>5 DEF ConsNext

-----------------------------------------------------------------------------
(* What the operations on a pool leave in it                               *)

(* An upload writes the slots of its data and no other.                    *)
LEMMA UploadFacts ==
  ASSUME NEW m \in Mirrors, NEW row, NEW data
  PROVE  /\ Upload(m, row, data).rows = m.rows
         /\ m \in WorkerMirror => Upload(m, row, data).tableOf = m.tableOf
         /\ \A s \in Slots : (\A k \in DOMAIN data : row[k] # s) =>
              Upload(m, row, data).bytes[s] = m.bytes[s]
         /\ \A k \in DOMAIN data :
              row[k] \in Slots /\ (\A j \in DOMAIN data : row[j] = row[k] => j = k) =>
                Upload(m, row, data).bytes[row[k]] = data[k]
<1> DEFINE byte(s) == IF \E k \in DOMAIN data : row[k] = s
                      THEN data[CHOOSE k \in DOMAIN data : row[k] = s] ELSE m.bytes[s]
           all == [s \in Slots |-> byte(s)]
<1>1. m \in Mirror \/ m \in WorkerMirror
  BY DEF Mirrors
<1>2. Upload(m, row, data) = [m EXCEPT !.bytes = all]
  BY <1>1 DEF Upload, Mirror, WorkerMirror
<1>3. \A s \in Slots : (\A k \in DOMAIN data : row[k] # s) => byte(s) = m.bytes[s]
  OBVIOUS
<1>4. ASSUME NEW k \in DOMAIN data, \A j \in DOMAIN data : row[j] = row[k] => j = k
      PROVE  byte(row[k]) = data[k]
  BY <1>4
<1>5. \A s \in Slots : all[s] = byte(s)
  OBVIOUS
<1> HIDE DEF byte, all
<1>6. /\ Upload(m, row, data).rows = m.rows /\ Upload(m, row, data).bytes = all
      /\ m \in WorkerMirror => Upload(m, row, data).tableOf = m.tableOf
  BY <1>1, <1>2 DEF Mirror, WorkerMirror
<1> QED
  BY <1>3, <1>4, <1>5, <1>6

(* Setting and clearing a row touches that row only.                       *)
LEMMA RowFacts ==
  ASSUME NEW m \in Mirrors, NEW t \in Tables, NEW row \in Row
  PROVE  /\ SetRow(m, t, row).bytes = m.bytes /\ ClearRow(m, t).bytes = m.bytes
         /\ m \in WorkerMirror => /\ SetRow(m, t, row).tableOf = m.tableOf
                                  /\ ClearRow(m, t).tableOf = m.tableOf
         /\ \A u \in Tables : u # t => /\ SetRow(m, t, row).rows[u] = m.rows[u]
                                       /\ ClearRow(m, t).rows[u] = m.rows[u]
         /\ \A k \in Bricks : SetRow(m, t, row).rows[t][k] =
                                IF row[k] # None THEN row[k] ELSE m.rows[t][k]
         /\ ClearRow(m, t).rows[t] = NoRow
<1> DEFINE new == [k \in Bricks |-> IF row[k] # None THEN row[k] ELSE m.rows[t][k]]
<1>1. (m \in Mirror \/ m \in WorkerMirror) /\ t # None
  BY ConsolidationAssumption DEF Mirrors
<1>2. SetRow(m, t, row) = [m EXCEPT !.rows = [m.rows EXCEPT ![t] = new]]
  BY <1>1 DEF SetRow, Mirror, WorkerMirror
<1>3. ClearRow(m, t) = [m EXCEPT !.rows = [m.rows EXCEPT ![t] = NoRow]]
  BY <1>1 DEF ClearRow, Mirror, WorkerMirror
<1>4. \A k \in Bricks : new[k] = IF row[k] # None THEN row[k] ELSE m.rows[t][k]
  OBVIOUS
<1> HIDE DEF new
<1>5. m.rows \in [Tables -> Row]
  BY <1>1 DEF Mirror, WorkerMirror
<1>6. /\ SetRow(m, t, row).bytes = m.bytes
      /\ SetRow(m, t, row).rows = [m.rows EXCEPT ![t] = new]
      /\ m \in WorkerMirror => SetRow(m, t, row).tableOf = m.tableOf
  BY <1>1, <1>2 DEF Mirror, WorkerMirror
<1>7. /\ ClearRow(m, t).bytes = m.bytes
      /\ ClearRow(m, t).rows = [m.rows EXCEPT ![t] = NoRow]
      /\ m \in WorkerMirror => ClearRow(m, t).tableOf = m.tableOf
  BY <1>1, <1>3 DEF Mirror, WorkerMirror
<1>8. \A u \in Tables : u # t => /\ SetRow(m, t, row).rows[u] = m.rows[u]
                                 /\ ClearRow(m, t).rows[u] = m.rows[u]
  BY <1>5, <1>6, <1>7
<1>9. SetRow(m, t, row).rows[t] = new /\ ClearRow(m, t).rows[t] = NoRow
  BY <1>5, <1>6, <1>7
<1> QED
  BY <1>4, <1>6, <1>7, <1>8, <1>9

(* A row that is cleared and set again is the row it is set to.            *)
LEMMA ResetRow ==
  ASSUME NEW m \in Mirrors, NEW t \in Tables, NEW row \in Row
  PROVE  LET R == SetRow(ClearRow(m, t), t, row)
         IN  /\ R.bytes = m.bytes /\ R.rows[t] = row
             /\ m \in WorkerMirror => R.tableOf = m.tableOf
             /\ \A u \in Tables : u # t => R.rows[u] = m.rows[u]
<1> DEFINE C == ClearRow(m, t)
           R == SetRow(C, t, row)
<1>1. <<>> \in SomeBytes
  BY NoTxOK DEF NoTx, TxType, SomeBytes
<1>2. C \in Mirrors /\ (m \in WorkerMirror => C \in WorkerMirror)
  BY <1>1, PoolTypes DEF Mirrors
<1>3. R \in Mirrors
  <2> HIDE DEF C
  <2> QED
    BY <1>1, <1>2, PoolTypes DEF Mirrors
<1>4. /\ C.bytes = m.bytes /\ C.rows[t] = NoRow
      /\ m \in WorkerMirror => C.tableOf = m.tableOf
      /\ \A u \in Tables : u # t => C.rows[u] = m.rows[u]
  BY RowFacts
<1> HIDE DEF C
<1>5. /\ R.bytes = C.bytes
      /\ C \in WorkerMirror => R.tableOf = C.tableOf
      /\ \A u \in Tables : u # t => R.rows[u] = C.rows[u]
      /\ \A k \in Bricks : R.rows[t][k] = IF row[k] # None THEN row[k] ELSE C.rows[t][k]
  BY <1>2, RowFacts
<1>6. R.rows[t] \in Row
  BY <1>3 DEF Mirrors, Mirror, WorkerMirror
<1> HIDE DEF R
<1>7. \A k \in Bricks : R.rows[t][k] = row[k]
  BY <1>4, <1>5 DEF NoRow
<1>8. R.rows[t] = row
  BY <1>6, <1>7 DEF Row
<1> QED
  BY <1>2, <1>4, <1>5, <1>8 DEF R, C

(* A rollback puts the old bytes and the old row back and touches nothing  *)
(* else.                                                                   *)
LEMMA RollbackFacts ==
  ASSUME SlotInv, ~Idle, NEW m \in Mirrors
  PROVE  LET R == RollbackRender(m)
         IN  /\ \A k \in DOMAIN tx.old :
                   R.bytes[slotOf[tx.region][k]] = cpu[slotOf[tx.region][k]]
             /\ \A s \in Slots : (\A k \in DOMAIN tx.old : slotOf[tx.region][k] # s) =>
                   R.bytes[s] = m.bytes[s]
             /\ \A t \in Tables : t # tx.table => R.rows[t] = m.rows[t]
             /\ R.rows[tx.table] = IF tx.oldTable = None THEN NoRow ELSE OldRow
             /\ m \in WorkerMirror => R.tableOf = m.tableOf
<1> DEFINE U == Upload(m, OldRow, tx.old)
           C == ClearRow(U, tx.table)
           R == SetRow(C, tx.oldTable, OldRow)
<1>0. /\ PartsOK /\ TxSound /\ tx.region \in Regions /\ tx.table \in Tables
      /\ tx.old \in SomeBytes /\ OldRow \in Row /\ tx.oldTable \in Tables \cup {None}
      /\ DOMAIN tx.old \subseteq Bricks
  BY TxFacts, TxParts DEF SlotInv
<1>1. /\ \A k \in DOMAIN tx.old : /\ OldRow[k] = slotOf[tx.region][k]
                                  /\ OldRow[k] \in Slots /\ OldRow[k] # None
                                  /\ tx.old[k] = cpu[slotOf[tx.region][k]]
      /\ tx.oldTable # None => tx.table = tx.oldTable
  <2>1. \A k \in DOMAIN tx.old : slotOf[tx.region][k] # None /\ tx.old[k] = cpu[slotOf[tx.region][k]]
    BY <1>0 DEF SlotInv, TxOwns
  <2>2. \A k \in DOMAIN tx.old : slotOf[tx.region][k] \in Slots
    BY <1>0, <2>1, SlotFacts
  <2> QED
    BY <1>0, <2>1, <2>2 DEF OldRow, SlotInv, TxOwns
<1>2. U \in Mirrors /\ (m \in WorkerMirror => U \in WorkerMirror)
  BY <1>0, PoolTypes DEF Mirrors
<1>3. \A k, j \in DOMAIN tx.old : OldRow[k] = OldRow[j] => j = k
  BY <1>0, <1>1, OneBrickPerSlot
<1>4. \A k \in DOMAIN tx.old : U.bytes[OldRow[k]] = tx.old[k]
  BY <1>1, <1>3, UploadFacts
<1>5. /\ U.rows = m.rows
      /\ m \in WorkerMirror => U.tableOf = m.tableOf
      /\ \A s \in Slots : (\A k \in DOMAIN tx.old : OldRow[k] # s) => U.bytes[s] = m.bytes[s]
  BY UploadFacts
<1> HIDE DEF U
<1>6. /\ R.bytes = U.bytes
      /\ m \in WorkerMirror => R.tableOf = U.tableOf
      /\ \A t \in Tables : t # tx.table => R.rows[t] = U.rows[t]
      /\ R.rows[tx.table] = IF tx.oldTable = None THEN NoRow ELSE OldRow
  <2>1. CASE tx.oldTable = None
    <3>1. R = C
      BY <2>1 DEF SetRow
    <3> QED
      BY <1>0, <1>2, <2>1, <3>1, RowFacts
  <2>2. CASE tx.oldTable # None
    <3>1. R = SetRow(ClearRow(U, tx.table), tx.table, OldRow)
      BY <1>1, <2>2
    <3> HIDE DEF R, C
    <3> QED
      BY <1>0, <1>2, <2>2, <3>1, ResetRow
  <2> QED
    BY <2>1, <2>2
<1>7. RollbackRender(m) = R
  BY DEF RollbackRender, U
<1> HIDE DEF R, C
<1> QED
  BY <1>1, <1>4, <1>5, <1>6, <1>7

(* A publication writes the bytes and the row of the transaction, and      *)
(* nothing else.                                                           *)
LEMMA PublishedFacts ==
  ASSUME SlotInv, tx.phase = "publishing"
  PROVE  /\ \A k \in tx.bricks : Published.bytes[slotOf[tx.region][k]] = tx.baked[k]
         /\ \A s \in Slots : (\A k \in tx.bricks : slotOf[tx.region][k] # s) =>
                Published.bytes[s] = worker.bytes[s]
         /\ \A t \in Tables : t # tx.table => Published.rows[t] = worker.rows[t]
         /\ Published.rows[tx.table] = slotOf[tx.region]
         /\ \A r \in Regions : Published.tableOf[r] =
                IF r = tx.region THEN tx.table ELSE worker.tableOf[r]
<1> DEFINE U == Upload(worker, slotOf[tx.region], tx.baked)
           R == SetRow(ClearRow(U, tx.table), tx.table, slotOf[tx.region])
<1>0. /\ PartsOK /\ TxSound /\ tx.region \in Regions /\ tx.table \in Tables /\ ~Idle
      /\ tx.baked \in SomeBytes /\ slotOf[tx.region] \in Row /\ DOMAIN tx.baked = tx.bricks
      /\ tx.bricks \subseteq Bricks /\ worker \in WorkerMirror /\ worker \in Mirrors
  BY TxFacts, TxParts DEF SlotInv, Idle, TxSound, PartsOK, Mirrors
<1>1. \A k \in tx.bricks : slotOf[tx.region][k] \in Slots /\ slotOf[tx.region][k] # None
  <2>1. \A k \in tx.bricks : slotOf[tx.region][k] # None
    BY <1>0 DEF SlotInv, TxOwns, Using
  <2> QED
    BY <1>0, <2>1, SlotFacts
<1>2. U \in Mirrors /\ U \in WorkerMirror
  BY <1>0, PoolTypes DEF Mirrors
<1>3. \A k, j \in tx.bricks : slotOf[tx.region][j] = slotOf[tx.region][k] => j = k
  BY <1>0, <1>1, OneBrickPerSlot
<1>4. /\ \A k \in tx.bricks : U.bytes[slotOf[tx.region][k]] = tx.baked[k]
      /\ \A s \in Slots : (\A k \in tx.bricks : slotOf[tx.region][k] # s) =>
            U.bytes[s] = worker.bytes[s]
      /\ U.rows = worker.rows /\ U.tableOf = worker.tableOf
  BY <1>0, <1>1, <1>3, UploadFacts
<1> HIDE DEF U
<1>5. /\ R.bytes = U.bytes /\ R.tableOf = U.tableOf /\ R.rows[tx.table] = slotOf[tx.region]
      /\ \A t \in Tables : t # tx.table => R.rows[t] = U.rows[t]
  BY <1>0, <1>2, ResetRow
<1>6. R \in WorkerMirror
  <2>1. ClearRow(U, tx.table) \in WorkerMirror
    BY <1>0, <1>2, PoolTypes
  <2> QED
    BY <1>0, <2>1, PoolTypes DEF Mirrors
<1>7. Published = [R EXCEPT !.tableOf = [R.tableOf EXCEPT ![tx.region] = tx.table]]
  BY <1>6 DEF Published, U, WorkerMirror
<1> HIDE DEF R
<1>8. /\ Published.bytes = R.bytes /\ Published.rows = R.rows
      /\ \A r \in Regions : Published.tableOf[r] = IF r = tx.region THEN tx.table ELSE R.tableOf[r]
  BY <1>6, <1>7 DEF WorkerMirror
<1> QED
  BY <1>4, <1>5, <1>8

(* A replay gives each region with a table the row and the bytes of the    *)
(* store.                                                                  *)
LEMMA ReplayFacts ==
  ASSUME SlotInv, NEW m \in Mirrors, NEW so \in [Regions -> Row]
  PROVE  LET R == Replay(m, so)
         IN  /\ \A r \in Regions, k \in Bricks : tableOf[r] # None /\ so[r][k] # None =>
                   R.bytes[so[r][k]] = cpu[so[r][k]]
             /\ \A r \in Regions : tableOf[r] # None => R.rows[tableOf[r]] = so[r]
             /\ \A t \in FreeTables : R.rows[t] = NoRow
             /\ m \in WorkerMirror => R.tableOf = m.tableOf
<1> DEFINE tabled == {b \in Regions \X Bricks : tableOf[b[1]] # None}
           byte(s) == IF \E b \in tabled : so[b[1]][b[2]] = s THEN cpu[s] ELSE m.bytes[s]
           rowOf(t) == IF \E r \in Regions : tableOf[r] = t
                       THEN so[CHOOSE r \in Regions : tableOf[r] = t] ELSE NoRow
           allBytes == [s \in Slots |-> byte(s)]
           allRows == [t \in Tables |-> rowOf(t)]
           R == Replay(m, so)
<1>0. tableOf \in [Regions -> Tables \cup {None}]
  BY TxFacts DEF SlotInv
<1>1. R = [m EXCEPT !.bytes = allBytes, !.rows = allRows]
  BY DEF Replay, Mirrors, Mirror, WorkerMirror
<1>2. ASSUME NEW r \in Regions, NEW k \in Bricks, tableOf[r] # None, so[r][k] # None
      PROVE  allBytes[so[r][k]] = cpu[so[r][k]]
  <2>1. <<r, k>> \in tabled /\ so[<<r, k>>[1]][<<r, k>>[2]] = so[r][k]
    BY <1>2
  <2>2. so[r][k] \in Slots
    BY <1>2 DEF Row
  <2> HIDE DEF tabled
  <2>3. byte(so[r][k]) = cpu[so[r][k]]
    BY <2>1
  <2> QED
    BY <2>2, <2>3
<1>3. ASSUME NEW r \in Regions, tableOf[r] # None
      PROVE  allRows[tableOf[r]] = so[r]
  <2>1. \A q \in Regions : tableOf[q] = tableOf[r] => q = r
    BY <1>3 DEF SlotInv, OwnedSlots
  <2>2. rowOf(tableOf[r]) = so[r]
    BY <2>1
  <2> QED
    BY <1>0, <1>3, <2>2
<1>4. ASSUME NEW t \in FreeTables PROVE allRows[t] = NoRow
  BY <1>4 DEF FreeTables
<1> HIDE DEF allBytes, allRows, byte, rowOf, tabled
<1>5. R.bytes = allBytes /\ R.rows = allRows /\ (m \in WorkerMirror => R.tableOf = m.tableOf)
  <2> HIDE DEF R
  <2> QED
    BY <1>1 DEF Mirrors, Mirror, WorkerMirror
<1> QED
  BY <1>2, <1>3, <1>4, <1>5

-----------------------------------------------------------------------------
(* Steps that leave the worker's pool alone                                *)

(* The invariant the three readers share.                                  *)
ReaderInv == /\ SlotInv
             /\ CommittedShows
             /\ BakedShows
             /\ WorkerIsUp
             /\ NothingBehindFailure
             /\ WorkerInv

(* What a region owns it keeps until the commit.                           *)
LEMMA OwnedKept ==
  ASSUME SlotInv, [ConsNext]_vars, ~PumpCommit, NEW r \in Regions, NEW k \in Bricks
  PROVE  /\ Owned(r, k)' <=> Owned(r, k)
         /\ slotOf[r][k] # None /\ slotOf'[r][k] # slotOf[r][k] => Speculative(r, k) /\ Released
<1>1. CASE Stays
  BY <1>1 DEF Stays, Owned, Speculative, Fresh
<1>2. CASE StartBake
  BY <1>2 DEF StartBake, store, Owned, Speculative, Fresh, Idle
<1>3. CASE Works
  BY <1>3 DEF Works, Owned, Speculative, Fresh
<1>4. CASE Released
  BY <1>4, ReleasedRow DEF Owned
<1>5. ASSUME NEW pick \in Injection(ToAcquire, FreeSlots), PumpBakeResult(pick)
      PROVE  /\ Owned(r, k)' <=> Owned(r, k)
             /\ slotOf[r][k] # None => slotOf'[r][k] = slotOf[r][k]
  <2>1. /\ ~Idle /\ ~Using /\ tx.region \in Regions
        /\ tx'.phase = "publishing" /\ tx'.region = tx.region /\ tx'.bricks = tx.bricks
        /\ tx'.old = tx.old /\ slotOf' = Acquire(pick)
    BY <1>5, TxFacts DEF PumpBakeResult, Idle, Using, SlotInv, TxType
  <2>2. ~Speculative(r, k) /\ (Speculative(r, k)' <=> r = tx.region /\ k \in ToAcquire)
    BY <2>1 DEF Speculative, Fresh, ToAcquire, Using
  <2>3. CASE r = tx.region /\ k \in ToAcquire
    BY <2>1, <2>2, <2>3, AcquiredRow DEF Owned
  <2>4. CASE ~(r = tx.region /\ k \in ToAcquire)
    <3>1. slotOf'[r][k] = slotOf[r][k]
      BY <2>1, <2>4, AcquiredRow
    <3> QED
      BY <2>2, <2>4, <3>1 DEF Owned
  <2> QED
    BY <2>3, <2>4
<1> QED
  BY <1>1, <1>2, <1>3, <1>4, <1>5, StepKinds

(* The region the worker may be ahead of stays next in line until a commit *)
(* or until the worker is spoiled.                                         *)
LEMMA AheadKept ==
  ASSUME SlotInv, [ConsNext]_vars, ~PumpCommit, workerState = "ok", workerState' = "ok",
         NEW r \in Regions, Ahead(r)
  PROVE  Ahead(r)'
<1>0. tx \in TxType /\ queue \in Seq(Regions) /\ (~Idle => tx.region \in Regions)
  BY TxFacts DEF SlotInv, PartsOK
<1>1. CASE UNCHANGED <<queue, tx>>
  BY <1>1 DEF Ahead, Idle
<1>2. CASE TakeEdit
  <2>1. PICK new \in Orders : queue' = queue \o new /\ tx' = tx
    BY <1>2 DEF TakeEdit, Enqueue
  <2>2. new \in Seq(Regions)
    BY DEF Orders
  <2>3. queue # <<>> => Head(queue \o new) = Head(queue) /\ queue \o new # <<>>
    BY <1>0, <2>2, ConcatProperties, HeadTailProperties, LenProperties, EmptySeq
  <2> QED
    BY <2>1, <2>3 DEF Ahead, Idle
<1>3. CASE StartBake
  BY <1>3 DEF StartBake, Ahead, Idle
<1>4. CASE UNCHANGED queue /\ ~Idle /\ ~Idle' /\ tx'.region = tx.region
  BY <1>4 DEF Ahead
<1>5. CASE ~Idle /\ queue' = Requeue /\ tx' = NoTx
  <2>1. Head(<<tx.region>> \o queue) = tx.region /\ <<tx.region>> \o queue # <<>>
    <3>1. <<tx.region>> \in Seq(Regions) /\ Len(<<tx.region>>) = 1 /\ <<tx.region>>[1] = tx.region
      BY <1>0, <1>5
    <3> QED
      BY <1>0, <3>1, ConcatProperties, HeadTailProperties, LenProperties, EmptySeq
  <2> QED
    BY <1>5, <2>1 DEF Ahead, Idle, Requeue, NoTx
<1>6. CASE EditStep \/ UNCHANGED vars
  BY <1>1, <1>2, <1>6 DEF EditStep, StartBatch, SkipEdit, vars, consVars
<1>7. CASE PumpStep
  <2>1. ASSUME NEW pick, PumpBakeResult(pick) PROVE Ahead(r)'
    BY <1>0, <1>4, <2>1 DEF PumpBakeResult, Idle, TxType
  <2>2. ASSUME NEW pick, NEW done, PumpUploadFailed(pick, done) PROVE Ahead(r)'
    BY <1>5, <2>2 DEF PumpUploadFailed, Idle
  <2>3. ~PumpRebuild /\ ~PumpRebuildFailed
    BY DEF PumpRebuild, PumpRebuildFailed
  <2>4. CASE PumpBakeFailed \/ PumpBakeMoved \/ PumpPublishFailed \/ PumpPublishMoved
    BY <1>5, <2>4 DEF PumpBakeFailed, PumpBakeMoved, PumpPublishFailed, PumpPublishMoved, Refuse,
      Idle
  <2> QED
    BY <1>3, <1>7, <2>1, <2>2, <2>3, <2>4 DEF PumpStep
<1>8. CASE WorkerStep
  BY <1>0, <1>1, <1>4, <1>8 DEF WorkerStep, WorkerUpdate, WorkerBake, WorkerBakeFails,
    WorkerPublish, WorkerPublishFails, WorkerRestoreFails, Idle, TxType
<1>9. CASE WorldStep
  BY <1>1, <1>9 DEF WorldStep, Evict, Load, ReloadRender, TeardownWorker, StartWorker
<1> QED
  BY <1>6, <1>7, <1>8, <1>9 DEF ConsNext

(* A publication the worker was handed is there until the worker answers.  *)
LEMMA PublishingStays ==
  ASSUME SlotInv, [ConsNext]_vars, tx.phase = "publishing", workerState' = "ok"
  PROVE  tx' = tx \/ WorkerPublish \/ \E done \in SUBSET tx.bricks : WorkerPublishFails(done)
<1>1. ~PumpStep
  BY DEF PumpStep, StartBake, PumpBakeFailed, PumpBakeMoved, PumpBakeResult, PumpUploadFailed,
    PumpPublishFailed, PumpRebuild, PumpRebuildFailed, PumpPublishMoved, PumpCommit, Idle
<1>2. CASE EditStep \/ UNCHANGED vars
  BY <1>2 DEF EditStep, StartBatch, SkipEdit, TakeEdit, vars, consVars
<1>3. CASE WorkerStep
  BY <1>3 DEF WorkerStep, WorkerUpdate, WorkerBake, WorkerBakeFails, WorkerRestoreFails
<1>4. CASE WorldStep
  BY <1>4 DEF WorldStep, Evict, Load, ReloadRender, TeardownWorker, StartWorker
<1> QED
  BY <1>1, <1>2, <1>3, <1>4 DEF ConsNext

(* Steps that leave the worker's pool alone leave it right: the store      *)
(* changes under it only for the region it may be ahead of.                *)
LEMMA QuietRows ==
  ASSUME ReaderInv, [ConsNext]_vars, ~PumpCommit, workerState = "ok", workerState' = "ok",
         worker' = worker, tx.phase = "publishing" => tx' = tx
  PROVE  WorkerTables' /\ WorkerRows'
<1>0. SlotInv /\ WorkerTables /\ WorkerRows
  BY DEF ReaderInv, WorkerInv
<1>1. tableOf' = tableOf /\ FreeTables' = FreeTables /\ (LogKept \/ AppendHead)
  <2>1. tableOf' = tableOf /\ (LogKept \/ AppendHead)
    BY <1>0, StepKinds DEF Stays, StartBake, Works, Released, PumpBakeResult, editVars, store, LogKept
  <2> QED
    BY <2>1 DEF FreeTables
<1>2. WorkerTables'
  BY <1>0, <1>1, AheadKept DEF WorkerTables
<1>3. ASSUME NEW r \in Regions, NEW k \in Bricks, worker.tableOf[r] # None, NEW s,
             s = worker.rows[worker.tableOf[r]][k]
      PROVE  /\ Owned(r, k)' => s = slotOf'[r][k]
             /\ ~Owned(r, k)' => s = None \/ Ahead(r)'
             /\ s # None => \/ tx'.phase = "publishing" /\ Speculative(r, k)' /\ s = slotOf'[r][k]
                            \/ Gives(worker.bytes[s], Brick(r, k), Logged(r, k)', Field(r, k)')
  <2>1. /\ Owned(r, k) => s = slotOf[r][k]
        /\ ~Owned(r, k) => s = None \/ Ahead(r)
        /\ s # None => \/ tx.phase = "publishing" /\ Speculative(r, k) /\ s = slotOf[r][k]
                       \/ Shows(worker.bytes[s], r, k)
    BY <1>0, <1>3 DEF WorkerRows
  <2>2. Owned(r, k)' => s = slotOf'[r][k]
    BY <1>0, <2>1, OwnedKept DEF Owned
  <2>3. ~Owned(r, k)' => s = None \/ Ahead(r)'
    BY <1>0, <2>1, OwnedKept, AheadKept
  <2>4. tx.phase = "publishing" /\ Speculative(r, k) =>
          tx'.phase = "publishing" /\ Speculative(r, k)' /\ slotOf'[r][k] = slotOf[r][k]
    <3>1. SUFFICES ASSUME tx.phase = "publishing", Speculative(r, k)
                   PROVE  tx'.phase = "publishing" /\ Speculative(r, k)' /\ slotOf' = slotOf
      OBVIOUS
    <3>2. tx' = tx
      BY <3>1
    <3>3. slotOf' = slotOf
      BY <1>0, <3>1, <3>2, StepKinds DEF Stays, Works, Released, StartBake, PumpBakeResult, Idle, NoTx
    <3> QED
      BY <3>1, <3>2, <3>3 DEF Speculative, Fresh
  <2>5. Shows(worker.bytes[s], r, k) =>
          Gives(worker.bytes[s], Brick(r, k), Logged(r, k)', Field(r, k)')
    BY <1>0, <1>1, ShowsStays
  <2> QED
    BY <2>1, <2>2, <2>3, <2>4, <2>5
<1>4. WorkerRows'
  BY <1>3 DEF WorkerRows, Shows
<1> QED
  BY <1>2, <1>4

-----------------------------------------------------------------------------
(* The updates that wait                                                   *)

(* An update that waits is of a region with a table.                       *)
LEMMA UpdateFacts ==
  ASSUME ReaderInv, workerState = "ok", NEW j \in DOMAIN updates
  PROVE  /\ updates[j].region \in Regions /\ updates[j].table \in Tables /\ updates[j].row \in Row
         /\ tableOf[updates[j].region] = updates[j].table
         /\ worker.tableOf[updates[j].region] = updates[j].table
         /\ \A k \in Bricks : updates[j].row[k] # None =>
              \/ updates[j].row[k] = slotOf[updates[j].region][k]
              \/ /\ tx.phase \in {"idle", "baking"}
                 /\ Ahead(updates[j].region)
                 /\ worker.rows[updates[j].table][k] = updates[j].row[k]
<1> DEFINE U == [region : Regions, table : Tables, row : Row]
<1>1. updates \in Seq(U)
  BY TxFacts DEF ReaderInv, SlotInv, PartsOK
<1>2. updates[j] \in U
  <2> HIDE DEF U
  <2> QED
    BY <1>1, LenProperties
<1>3. updates[j].region \in Regions /\ updates[j].table \in Tables /\ updates[j].row \in Row
  BY <1>2
<1>4. WorkerTables /\ WorkerUpdates
  BY DEF ReaderInv, WorkerInv
<1>5. tableOf[updates[j].region] = updates[j].table
  BY <1>4 DEF WorkerUpdates
<1>6. worker.tableOf[updates[j].region] = updates[j].table
  BY <1>3, <1>4, <1>5, ConsolidationAssumption DEF WorkerTables
<1> QED
  BY <1>3, <1>4, <1>5, <1>6 DEF WorkerUpdates

(* An update tells the worker of the slots of a publication it is about to *)
(* be handed, and nothing else it does not know.                           *)
LEMMA UpdateTells ==
  ASSUME ReaderInv, WorkerUpdate
  PROVE  /\ worker'.bytes = worker.bytes
         /\ \A r \in Regions : worker'.tableOf[r] = worker.tableOf[r]
         /\ \A t \in Tables, k \in Bricks :
              \/ worker'.rows[t][k] = worker.rows[t][k]
              \/ /\ tx.phase = "publishing" /\ Speculative(tx.region, k)
                 /\ t = tableOf[tx.region] /\ worker'.rows[t][k] = slotOf[tx.region][k]
<1> DEFINE u == updates[1]
           R == SetRow(worker, u.table, u.row)
<1>0. /\ SlotInv /\ workerState = "ok" /\ worker \in WorkerMirror /\ worker \in Mirrors
      /\ updates # <<>> /\ updates \in Seq([region : Regions, table : Tables, row : Row])
  BY TxFacts DEF ReaderInv, WorkerUpdate, SlotInv, PartsOK, Mirrors
<1>1. 1 \in DOMAIN updates /\ Head(updates) = u
  BY <1>0, EmptySeq, LenProperties, HeadTailProperties
<1>2. /\ u.region \in Regions /\ u.table \in Tables /\ u.row \in Row
      /\ tableOf[u.region] = u.table /\ worker.tableOf[u.region] = u.table
      /\ \A k \in Bricks : u.row[k] # None =>
           u.row[k] = slotOf[u.region][k] \/ worker.rows[u.table][k] = u.row[k]
  BY <1>0, <1>1, UpdateFacts
<1>3. worker' = [R EXCEPT !.tableOf[u.region] = u.table]
  BY <1>1 DEF WorkerUpdate
<1>4. tx.phase = "published" /\ ~tx.ok => u.region # tx.region
  BY <1>0, <1>1 DEF ReaderInv, NothingBehindFailure
<1> HIDE DEF u
<1>5. R \in WorkerMirror
  <2>1. <<>> \in SomeBytes
    BY NoTxOK DEF NoTx, TxType, SomeBytes
  <2> QED
    BY <1>0, <1>2, <2>1, PoolTypes
<1>6. /\ R.bytes = worker.bytes /\ R.tableOf = worker.tableOf
      /\ \A t \in Tables : t # u.table => R.rows[t] = worker.rows[t]
      /\ \A k \in Bricks : R.rows[u.table][k] =
                             IF u.row[k] # None THEN u.row[k] ELSE worker.rows[u.table][k]
  BY <1>0, <1>2, RowFacts
<1> HIDE DEF R
<1>7. /\ worker'.bytes = R.bytes /\ worker'.rows = R.rows
      /\ \A r \in Regions : worker'.tableOf[r] = IF r = u.region THEN u.table ELSE R.tableOf[r]
  BY <1>2, <1>3, <1>5 DEF WorkerMirror
<1>8. ASSUME NEW k \in Bricks, R.rows[u.table][k] # worker.rows[u.table][k]
      PROVE  /\ tx.phase = "publishing" /\ Speculative(tx.region, k)
             /\ u.region = tx.region /\ R.rows[u.table][k] = slotOf[tx.region][k]
  <2>1. /\ u.row[k] # None /\ u.row[k] = slotOf[u.region][k]
        /\ R.rows[u.table][k] = slotOf[u.region][k]
    BY <1>2, <1>6, <1>8
  <2>2. ~Owned(u.region, k)
    <3>1. worker.tableOf[u.region] # None
      BY <1>2, ConsolidationAssumption
    <3>2. Owned(u.region, k) => worker.rows[worker.tableOf[u.region]][k] = slotOf[u.region][k]
      BY <1>0, <1>2, <3>1 DEF ReaderInv, WorkerInv, WorkerRows
    <3> QED
      BY <1>2, <1>8, <2>1, <3>2
  <2>3. Speculative(u.region, k)
    BY <2>1, <2>2 DEF Owned
  <2>4. u.region = tx.region /\ Using /\ ~Idle
    BY <2>3 DEF Speculative, Fresh, Using, Idle
  <2>5. tx.phase # "published"
    <3>1. SUFFICES ASSUME tx.phase = "published" PROVE FALSE
      OBVIOUS
    <3>2. tx.ok
      BY <1>4, <2>4, <3>1
    <3>3. worker.rows[tx.table] = slotOf[tx.region]
      BY <1>0, <3>1, <3>2 DEF ReaderInv, WorkerInv, WorkerPublished
    <3>4. tx.table = u.table
      BY <1>0, <1>2, <2>4, ConsolidationAssumption DEF SlotInv, TxOwns
    <3> QED
      BY <1>8, <2>1, <2>4, <3>3, <3>4
  <2> QED
    BY <2>1, <2>3, <2>4, <2>5 DEF Using
<1> QED
  BY <1>2, <1>6, <1>7, <1>8

(* Where both the worker's state before and after are fine, a transaction  *)
(* that is given up has come back from the worker.                         *)
LEMMA ReleasedQuietly ==
  ASSUME SlotInv, [ConsNext]_vars, Released, workerState = "ok", workerState' = "ok"
  PROVE  worker' = worker /\ tx.phase \in {"baked", "published"}
<1>1. ~Idle /\ Idle' /\ tx' = NoTx /\ tx \in TxType
  BY TxFacts DEF SlotInv, Released, Idle, NoTx
<1>2. ~EditStep /\ ~UNCHANGED vars
  BY <1>1 DEF EditStep, StartBatch, SkipEdit, TakeEdit, vars, consVars, Idle
<1>3. ~WorkerStep
  BY <1>1 DEF WorkerStep, WorkerUpdate, WorkerBake, WorkerBakeFails, WorkerPublish,
    WorkerPublishFails, WorkerRestoreFails, Idle, TxType
<1>4. ~WorldStep
  BY <1>1 DEF WorldStep, Evict, Load, ReloadRender, TeardownWorker, StartWorker, Idle
<1>5. CASE PumpStep
  BY <1>1, <1>5 DEF PumpStep, StartBake, PumpBakeFailed, PumpBakeMoved, PumpBakeResult,
    PumpUploadFailed, PumpPublishFailed, PumpRebuild, PumpRebuildFailed, PumpPublishMoved,
    PumpCommit, mesh, Idle
<1> QED
  BY <1>2, <1>3, <1>4, <1>5 DEF ConsNext

(* An update tells the worker what the store holds until it is taken, or   *)
(* what it was left ahead with.                                            *)
LEMMA UpdatesKept ==
  ASSUME ReaderInv, [ConsNext]_vars, workerState = "ok", workerState' = "ok"
  PROVE  WorkerUpdates'
<1>0. SlotInv
  BY DEF ReaderInv
<1> SUFFICES ASSUME NEW i \in DOMAIN updates', NEW u, u = updates'[i]
             PROVE  /\ tableOf'[u.region] = u.table
                    /\ \A k \in Bricks : u.row[k] # None =>
                         \/ u.row[k] = slotOf'[u.region][k]
                         \/ /\ tx'.phase \in {"idle", "baking"}
                            /\ Ahead(u.region)'
                            /\ worker'.rows[u.table][k] = u.row[k]
  BY DEF WorkerUpdates
<1>1. ASSUME NEW r \in Regions, NEW rs \in RSlots, Load(r, rs), u.region = r,
             u.table = tableOf[r], u.row = slotOf[r]
      PROVE  tableOf'[u.region] = u.table /\ \A k \in Bricks : u.row[k] = slotOf'[u.region][k]
  BY <1>1 DEF Load, store
<1>2. ASSUME NEW j \in DOMAIN updates, u = updates[j]
      PROVE  /\ tableOf'[u.region] = u.table
             /\ \A k \in Bricks : u.row[k] # None =>
                  \/ u.row[k] = slotOf'[u.region][k]
                  \/ /\ tx'.phase \in {"idle", "baking"}
                     /\ Ahead(u.region)'
                     /\ worker'.rows[u.table][k] = u.row[k]
  <2>1. /\ u.region \in Regions /\ u.table \in Tables /\ tableOf[u.region] = u.table
        /\ \A k \in Bricks : u.row[k] # None =>
             \/ u.row[k] = slotOf[u.region][k]
             \/ /\ tx.phase \in {"idle", "baking"}
                /\ Ahead(u.region)
                /\ worker.rows[u.table][k] = u.row[k]
    BY <1>2, UpdateFacts
  <2>2. tableOf'[u.region] = u.table
    <3>1. CASE PumpCommit
      <4>1. tableOf' = [tableOf EXCEPT ![tx.region] = tx.table] /\ ~Idle
        BY <3>1 DEF PumpCommit, Idle
      <4>2. u.region = tx.region => tx.table = u.table
        BY <1>0, <2>1, <4>1, ConsolidationAssumption DEF SlotInv, TxOwns
      <4> QED
        BY <1>0, <2>1, <4>1, <4>2, TxFacts
    <3>2. CASE ~PumpCommit
      BY <1>0, <2>1, <3>2, StepKinds DEF Stays, StartBake, Works, Released, PumpBakeResult, store
    <3> QED
      BY <3>1, <3>2
  <2>3. ASSUME NEW k \in Bricks, u.row[k] # None, u.row[k] = slotOf[u.region][k],
               slotOf'[u.region][k] # slotOf[u.region][k]
        PROVE  /\ tx'.phase \in {"idle", "baking"}
               /\ Ahead(u.region)'
               /\ worker'.rows[u.table][k] = u.row[k]
    <3>1. ~PumpCommit
      BY <2>3 DEF PumpCommit
    <3>2. Speculative(u.region, k) /\ Released
      BY <1>0, <2>1, <2>3, <3>1, OwnedKept
    <3>3. /\ u.region = tx.region /\ ~Idle /\ tx'.phase = "idle"
          /\ tx.phase \in {"publishing", "published"}
      BY <3>2 DEF Speculative, Fresh, Released, NoTx
    <3>4. worker' = worker /\ tx.phase = "published"
      BY <1>0, <3>2, <3>3, ReleasedQuietly
    <3>5. tx.ok
      BY <1>2, <3>3, <3>4 DEF ReaderInv, NothingBehindFailure
    <3>6. worker.rows[tx.table] = slotOf[tx.region]
      BY <3>4, <3>5 DEF ReaderInv, WorkerInv, WorkerPublished
    <3>7. tx.table = u.table
      BY <1>0, <2>1, <3>3, ConsolidationAssumption DEF SlotInv, TxOwns
    <3>8. Ahead(u.region)
      BY <3>3 DEF Ahead
    <3>9. Ahead(u.region)'
      BY <1>0, <2>1, <3>1, <3>8, AheadKept
    <3> QED
      BY <2>3, <3>3, <3>4, <3>6, <3>7, <3>9
  <2>4. ASSUME NEW k \in Bricks, tx.phase \in {"idle", "baking"}, Ahead(u.region),
               worker.rows[u.table][k] = u.row[k]
        PROVE  /\ tx'.phase \in {"idle", "baking"}
               /\ Ahead(u.region)'
               /\ worker'.rows[u.table][k] = u.row[k]
    <3>1. ~PumpCommit
      BY <2>4 DEF PumpCommit
    <3>2. Ahead(u.region)'
      BY <1>0, <2>1, <2>4, <3>1, AheadKept
    <3>3. ~Free
      <4>1. updates # <<>>
        BY <1>2
      <4> QED
        BY <4>1 DEF Free
    <3>4. ~Works /\ \A pick : ~PumpBakeResult(pick)
      BY <2>4, <3>3 DEF Works, WorkerBake, WorkerBakeFails, PumpBakeResult
    <3>5. ~Released
      BY <1>0, <2>4, ReleasedQuietly
    <3>6. tx'.phase \in {"idle", "baking"}
      BY <1>0, <2>4, <3>1, <3>4, <3>5, StepKinds DEF Stays, StartBake
    <3>7. CASE WorkerUpdate
      <4>1. worker'.rows[u.table][k] = worker.rows[u.table][k]
        BY <2>1, <2>4, <3>7, UpdateTells
      <4> QED
        BY <2>4, <3>2, <3>6, <4>1
    <3>8. CASE ~WorkerUpdate
      <4>1. worker' = worker
        BY <3>3, <3>8 DEF ConsNext, EditStep, StartBatch, SkipEdit, TakeEdit, vars, consVars, mesh,
          PumpStep, StartBake, PumpBakeFailed, PumpBakeMoved, PumpBakeResult, PumpUploadFailed,
          PumpPublishFailed, PumpRebuild, PumpRebuildFailed, PumpPublishMoved, PumpCommit,
          WorkerStep, WorkerBake, WorkerBakeFails, WorkerPublish, WorkerPublishFails,
          WorkerRestoreFails, WorldStep, Evict, Load, ReloadRender, TeardownWorker, StartWorker
      <4> QED
        BY <2>4, <3>2, <3>6, <4>1
    <3> QED
      BY <3>7, <3>8
  <2> QED
    BY <2>1, <2>2, <2>3, <2>4
<1> QED
  BY <1>0, <1>1, <1>2, UpdatesAfter

-----------------------------------------------------------------------------
(* Steps that change the worker's pool                                     *)

(* What a region owns in the store shows the world.                        *)
LEMMA StoredShows ==
  ASSUME SlotInv, CommittedShows, NEW r \in Regions, NEW k \in Bricks, Owned(r, k)
  PROVE  Shows(cpu[slotOf[r][k]], r, k)
BY DEF CommittedShows, CommittedBase, CpuBase, Owned

(* A pool rebuilt from the store is what the worker has to hold.           *)
LEMMA WorkerRebuilt ==
  ASSUME ReaderInv, PumpRebuild \/ StartWorker, SlotInv'
  PROVE  WorkerTables' /\ WorkerRows' /\ WorkerPublished' /\ WorkerUpdates'
<1>0. SlotInv /\ worker \in WorkerMirror /\ slotOf' \in [Regions -> Row]
  <2>1. SlotInv /\ slotOf' \in [Regions -> Row] /\ PartsOK
    BY TxFacts DEF ReaderInv, SlotInv, ConsInv, ConsTypeOK
  <2> QED
    BY <2>1 DEF PartsOK
<1> DEFINE base == IF PumpRebuild THEN worker ELSE [worker EXCEPT !.bytes = [s \in Slots |-> Blank]]
<1>1. base \in WorkerMirror /\ base \in Mirrors
  <2>1. Blank \in Content
    BY DEF Blank, Content
  <2> QED
    BY <1>0, <2>1 DEF WorkerMirror, Mirrors
<1>2. /\ Idle' /\ updates' = <<>> /\ LogKept
      /\ UNCHANGED <<cpu, tableOf>>
      /\ slotOf' = slotOf \/ Released
      /\ worker' = [Replay(base, slotOf') EXCEPT !.tableOf = tableOf]
  <2>1. CASE PumpRebuild
    BY <2>1 DEF PumpRebuild, Refuse, Released, Idle, NoTx, editVars, LogKept
  <2>2. CASE StartWorker
    <3>1. ~PumpRebuild /\ Idle
      BY <2>2 DEF StartWorker, PumpRebuild, ReaderInv, WorkerIsUp
    <3> QED
      BY <2>2, <3>1 DEF StartWorker, ReaderInv, WorkerIsUp, store, editVars, LogKept, Idle
  <2> QED
    BY <2>1, <2>2
<1> HIDE DEF base
<1> DEFINE R == Replay(base, slotOf')
<1>3. /\ \A r \in Regions, k \in Bricks : tableOf[r] # None /\ slotOf'[r][k] # None =>
            R.bytes[slotOf'[r][k]] = cpu[slotOf'[r][k]]
      /\ \A r \in Regions : tableOf[r] # None => R.rows[tableOf[r]] = slotOf'[r]
      /\ R \in WorkerMirror
  <2>1. cpu \in [Slots -> Content]
    BY <1>0, TxFacts DEF SlotInv
  <2> QED
    BY <1>0, <1>1, <2>1, ReplayFacts, ReplayType
<1> HIDE DEF R
<1>4. /\ worker'.tableOf = tableOf
      /\ worker'.bytes = R.bytes /\ worker'.rows = R.rows
  BY <1>2, <1>3 DEF R, WorkerMirror
<1>5. WorkerTables' /\ WorkerPublished' /\ WorkerUpdates'
  BY <1>2, <1>4 DEF WorkerTables, WorkerPublished, WorkerUpdates, Idle
<1>6. ASSUME NEW r \in Regions, NEW k \in Bricks, tableOf[r] # None, slotOf'[r][k] # None
      PROVE  Gives(cpu[slotOf'[r][k]], Brick(r, k), Logged(r, k)', Field(r, k)')
  <2>1. Owned(r, k) /\ slotOf'[r][k] = slotOf[r][k]
    <3>1. CASE Released
      BY <1>0, <1>6, <3>1, ReleasedRow
    <3>2. CASE StartWorker /\ slotOf' = slotOf
      BY <1>6, <3>2 DEF StartWorker, ReaderInv, WorkerIsUp, Owned, Speculative, Fresh, Idle
    <3>3. PumpRebuild => Released
      BY DEF PumpRebuild, Refuse, Released, Idle, editVars, LogKept
    <3> QED
      BY <1>2, <3>1, <3>2, <3>3
  <2>2. Shows(cpu[slotOf[r][k]], r, k)
    BY <1>0, <2>1, StoredShows DEF ReaderInv
  <2> QED
    BY <1>0, <1>2, <2>1, <2>2, ShowsStays
<1>7. ASSUME NEW r \in Regions, NEW k \in Bricks, tableOf[r] # None, NEW s,
             s = worker'.rows[tableOf[r]][k]
      PROVE  /\ Owned(r, k)' => s = slotOf'[r][k]
             /\ ~Owned(r, k)' => s = None
             /\ s # None => Gives(worker'.bytes[s], Brick(r, k), Logged(r, k)', Field(r, k)')
  <2>1. s = slotOf'[r][k]
    BY <1>3, <1>4, <1>7
  <2>2. ~Owned(r, k)' => slotOf'[r][k] = None
    BY <1>2 DEF Owned, Speculative, Fresh, Idle
  <2>3. s # None => worker'.bytes[s] = cpu[s]
    BY <1>3, <1>4, <1>7, <2>1
  <2> QED
    BY <1>6, <1>7, <2>1, <2>2, <2>3
<1>8. WorkerRows'
  BY <1>2, <1>4, <1>7 DEF WorkerRows, Shows
<1> QED
  BY <1>5, <1>8

(* What another region reads in the worker is not the transaction's.       *)
LEMMA OthersRead ==
  ASSUME ReaderInv, workerState = "ok", ~Idle, NEW r \in Regions, r # tx.region,
         worker.tableOf[r] # None
  PROVE  /\ tableOf[r] = worker.tableOf[r] /\ worker.tableOf[r] # tx.table
         /\ worker.tableOf[r] \in Tables
         /\ \A k \in Bricks :
              /\ worker.rows[worker.tableOf[r]][k] = slotOf[r][k]
              /\ slotOf[r][k] # None => /\ Owned(r, k)
                                        /\ Shows(worker.bytes[slotOf[r][k]], r, k)
                                        /\ \A j \in Bricks : slotOf[tx.region][j] # slotOf[r][k]
<1>1. SlotInv /\ WorkerTables /\ WorkerRows /\ tx.region \in Regions
      /\ tableOf \in [Regions -> Tables \cup {None}]
  BY TxFacts DEF ReaderInv, WorkerInv, SlotInv
<1>2. ~Ahead(r)
  BY DEF Ahead
<1>3. tableOf[r] = worker.tableOf[r] /\ worker.tableOf[r] # tx.table /\ worker.tableOf[r] \in Tables
  BY <1>1, <1>2 DEF WorkerTables, SlotInv, TxOwns
<1>4. ASSUME NEW k \in Bricks
      PROVE  /\ worker.rows[worker.tableOf[r]][k] = slotOf[r][k]
             /\ slotOf[r][k] # None => Owned(r, k) /\ Shows(worker.bytes[slotOf[r][k]], r, k)
  <2>1. ~Speculative(r, k)
    BY DEF Speculative
  <2>2. Owned(r, k) <=> slotOf[r][k] # None
    BY <2>1 DEF Owned
  <2> QED
    BY <1>1, <1>2, <2>1, <2>2 DEF WorkerRows
<1>5. \A k, j \in Bricks : slotOf[r][k] # None => slotOf[tx.region][j] # slotOf[r][k]
  BY <1>1, OneBrickPerSlot
<1> QED
  BY <1>3, <1>4, <1>5

(* A publication that went through.                                        *)
LEMMA WorkerAfterPublish ==
  ASSUME ReaderInv, WorkerPublish
  PROVE  WorkerTables' /\ WorkerRows' /\ WorkerPublished'
<1>0. /\ SlotInv /\ tx \in TxType /\ tx.region \in Regions /\ tx.table \in Tables /\ ~Idle /\ Using
      /\ tx.bricks \subseteq Bricks /\ workerState = "ok" /\ tx.phase = "publishing"
      /\ tableOf \in [Regions -> Tables \cup {None}]
  BY TxFacts DEF ReaderInv, SlotInv, WorkerPublish, Idle, Using, Free
<1>1. /\ worker' = Published
      /\ tx'.phase = "published" /\ tx'.region = tx.region /\ tx'.bricks = tx.bricks
      /\ tx'.table = tx.table /\ tx'.baked = tx.baked /\ tx'.old = tx.old
      /\ UNCHANGED <<slotOf, cpu, tableOf, queue, log, history, accepted>>
  BY <1>0 DEF WorkerPublish, store, editVars, TxType
<1>2. /\ \A k \in tx.bricks : worker'.bytes[slotOf[tx.region][k]] = tx.baked[k]
      /\ \A s \in Slots : (\A k \in tx.bricks : slotOf[tx.region][k] # s) =>
             worker'.bytes[s] = worker.bytes[s]
      /\ \A t \in Tables : t # tx.table => worker'.rows[t] = worker.rows[t]
      /\ worker'.rows[tx.table] = slotOf[tx.region]
      /\ \A r \in Regions : worker'.tableOf[r] =
             IF r = tx.region THEN tx.table ELSE worker.tableOf[r]
  BY <1>0, <1>1, PublishedFacts
<1>3. WorkerPublished'
  BY <1>0, <1>1, <1>2 DEF WorkerPublished
<1>4. /\ \A r \in Regions : Ahead(r)' <=> r = tx.region
      /\ \A r \in Regions, k \in Bricks : Owned(r, k)' <=> Owned(r, k)
      /\ FreeTables' = FreeTables
  BY <1>0, <1>1 DEF Ahead, Idle, Owned, Speculative, Fresh, FreeTables
<1>5. WorkerTables'
  <2>1. ASSUME NEW r \in Regions, r # tx.region
        PROVE  IF tableOf[r] # None THEN worker'.tableOf[r] = tableOf[r]
               ELSE worker'.tableOf[r] = None
    BY <1>0, <1>2, <2>1 DEF ReaderInv, WorkerInv, WorkerTables, Ahead
  <2>2. IF tableOf[tx.region] # None THEN worker'.tableOf[tx.region] = tableOf[tx.region]
        ELSE worker'.tableOf[tx.region] \in FreeTables
    <3>1. worker'.tableOf[tx.region] = tx.table
      BY <1>0, <1>2
    <3>2. tableOf[tx.region] # None => tx.table = tableOf[tx.region]
      BY <1>0 DEF SlotInv, TxOwns
    <3>3. tableOf[tx.region] = None => tx.table \in FreeTables
      BY <1>0, ConsolidationAssumption DEF SlotInv, TxOwns, FreeTables
    <3> QED
      BY <3>1, <3>2, <3>3
  <2> QED
    BY <1>0, <1>1, <1>4, <2>1, <2>2 DEF WorkerTables
<1>6. ASSUME NEW r \in Regions, NEW k \in Bricks, worker'.tableOf[r] # None, NEW s,
             s = worker'.rows[worker'.tableOf[r]][k]
      PROVE  /\ Owned(r, k) => s = slotOf[r][k]
             /\ ~Owned(r, k) => s = None \/ r = tx.region
             /\ s # None => Shows(worker'.bytes[s], r, k)
  <2>1. CASE r # tx.region
    <3>1. worker'.tableOf[r] = worker.tableOf[r]
      BY <1>2, <2>1
    <3>2. /\ worker.tableOf[r] # tx.table /\ worker.tableOf[r] \in Tables
          /\ worker.rows[worker.tableOf[r]][k] = slotOf[r][k]
          /\ slotOf[r][k] # None => /\ Owned(r, k)
                                    /\ Shows(worker.bytes[slotOf[r][k]], r, k)
                                    /\ \A j \in Bricks : slotOf[tx.region][j] # slotOf[r][k]
      BY <1>0, <1>6, <2>1, <3>1, OthersRead
    <3>3. s = slotOf[r][k]
      BY <1>2, <1>6, <3>1, <3>2
    <3>4. s # None => worker'.bytes[s] = worker.bytes[s]
      BY <1>0, <1>2, <3>2, <3>3, SlotFacts
    <3> QED
      BY <3>2, <3>3, <3>4
  <2>2. CASE r = tx.region
    <3>1. s = slotOf[r][k]
      BY <1>0, <1>2, <1>6, <2>2
    <3>2. CASE k \in tx.bricks
      BY <1>0, <1>2, <2>2, <3>1, <3>2 DEF ReaderInv, BakedShows, HasBytes
    <3>3. CASE k \notin tx.bricks /\ s # None
      <4>1. \A j \in tx.bricks : slotOf[tx.region][j] # s
        BY <1>0, <2>2, <3>1, <3>3, OneBrickPerSlot
      <4>2. worker'.bytes[s] = worker.bytes[s]
        BY <1>0, <1>2, <3>1, <3>3, <4>1, SlotFacts
      <4>3. Owned(r, k) /\ ~Speculative(r, k)
        BY <3>1, <3>3 DEF Owned, Speculative, Fresh
      <4>4. worker.tableOf[r] # None
        BY <1>0, <4>3 DEF ReaderInv, WorkerInv, WorkerTables, SlotInv, OwnedSlots, Owned
      <4>5. Shows(worker.bytes[s], r, k)
        BY <1>0, <3>1, <3>3, <4>3, <4>4 DEF ReaderInv, WorkerInv, WorkerRows
      <4> QED
        BY <2>2, <3>1, <4>2, <4>5
    <3> QED
      BY <2>2, <3>1, <3>2, <3>3
  <2> QED
    BY <2>1, <2>2
<1>7. WorkerRows'
  BY <1>1, <1>4, <1>6 DEF WorkerRows, Shows, Logged, Field, Reaches
<1> QED
  BY <1>3, <1>5, <1>7

(* A publication that failed and was taken back.                           *)
LEMMA WorkerAfterRestore ==
  ASSUME ReaderInv, NEW done \in SUBSET tx.bricks, WorkerPublishFails(done)
  PROVE  WorkerTables' /\ WorkerRows' /\ WorkerPublished'
<1> DEFINE W == Upload(worker, slotOf[tx.region], [k \in done |-> tx.baked[k]])
           R == RollbackRender(W)
<1>0. /\ SlotInv /\ PartsOK /\ TxSound /\ tx \in TxType
      /\ tx.region \in Regions /\ tx.table \in Tables /\ ~Idle /\ Using
      /\ tx.bricks \subseteq Bricks /\ DOMAIN tx.old \subseteq Bricks
      /\ workerState = "ok" /\ tx.phase = "publishing"
      /\ tableOf \in [Regions -> Tables \cup {None}] /\ worker \in WorkerMirror /\ worker \in Mirrors
      /\ tx.baked \in SomeBytes /\ slotOf[tx.region] \in Row /\ DOMAIN tx.baked = tx.bricks
  BY TxFacts, TxParts DEF ReaderInv, SlotInv, WorkerPublishFails, Idle, Using, Free, TxSound,
    PartsOK, Mirrors
<1>1. /\ worker' = [R EXCEPT !.tableOf[tx.region] = tx.oldTable]
      /\ tx'.phase = "published" /\ tx'.region = tx.region /\ tx'.bricks = tx.bricks /\ ~tx'.ok
      /\ tx'.old = tx.old
      /\ UNCHANGED <<slotOf, cpu, tableOf, queue, log, history, accepted>>
  BY <1>0 DEF WorkerPublishFails, Restored, RollbackRender, store, editVars, TxType
<1>2. W \in WorkerMirror /\ W \in Mirrors
  <2> DEFINE data == [k \in done |-> tx.baked[k]]
  <2>1. data \in [done -> Content] /\ done \in SUBSET Bricks
    BY <1>0 DEF SomeBytes
  <2>2. data \in SomeBytes
    BY <2>1 DEF SomeBytes
  <2> HIDE DEF data
  <2>3. Upload(worker, slotOf[tx.region], data) \in WorkerMirror
    BY <1>0, <2>2, PoolTypes, ConsolidationAssumption
  <2> QED
    BY <2>3 DEF data, Mirrors
<1>3. /\ W.rows = worker.rows /\ W.tableOf = worker.tableOf
      /\ \A s \in Slots : (\A k \in Bricks : slotOf[tx.region][k] # s) => W.bytes[s] = worker.bytes[s]
  <2>1. DOMAIN [k \in done |-> tx.baked[k]] \subseteq Bricks
    BY <1>0
  <2> QED
    BY <1>0, <2>1, UploadFacts
<1> HIDE DEF W
<1>4. R \in WorkerMirror
  <2>1. Restored(W) \in WorkerMirror
    BY <1>0, <1>2, RollbackType
  <2> DEFINE U == SetRow(ClearRow(Upload(W, OldRow, tx.old), tx.table), tx.oldTable, OldRow)
  <2>2. /\ tx.old \in SomeBytes /\ OldRow \in Row /\ tx.oldTable \in Tables \cup {None}
    BY <1>0, TxParts
  <2>3. Upload(W, OldRow, tx.old) \in WorkerMirror
    BY <1>0, <1>2, <2>2, PoolTypes
  <2>4. ClearRow(Upload(W, OldRow, tx.old), tx.table) \in WorkerMirror
    BY <1>0, <2>2, <2>3, PoolTypes DEF Mirrors
  <2>5. U \in WorkerMirror
    BY <2>2, <2>4, PoolTypes DEF Mirrors
  <2> QED
    BY <2>5 DEF RollbackRender
<1>5. /\ \A k \in DOMAIN tx.old : R.bytes[slotOf[tx.region][k]] = cpu[slotOf[tx.region][k]]
      /\ \A s \in Slots : (\A k \in DOMAIN tx.old : slotOf[tx.region][k] # s) =>
            R.bytes[s] = W.bytes[s]
      /\ \A t \in Tables : t # tx.table => R.rows[t] = W.rows[t]
      /\ R.rows[tx.table] = IF tx.oldTable = None THEN NoRow ELSE OldRow
      /\ R.tableOf = W.tableOf
  BY <1>0, <1>2, RollbackFacts
<1> HIDE DEF R
<1>6. /\ worker'.bytes = R.bytes /\ worker'.rows = R.rows
      /\ \A r \in Regions : worker'.tableOf[r] =
             IF r = tx.region THEN tx.oldTable ELSE worker.tableOf[r]
  BY <1>0, <1>1, <1>3, <1>4, <1>5 DEF WorkerMirror
<1>7. WorkerPublished'
  BY <1>1 DEF WorkerPublished
<1>8. /\ \A r \in Regions : Ahead(r)' <=> r = tx.region
      /\ \A r \in Regions, k \in Bricks : Owned(r, k)' <=> Owned(r, k)
  BY <1>0, <1>1 DEF Ahead, Idle, Owned, Speculative, Fresh
<1>9. tx.oldTable = tableOf[tx.region] /\ (tx.oldTable # None => tx.table = tx.oldTable)
  BY <1>0 DEF SlotInv, TxOwns
<1>10. WorkerTables'
  <2>1. ASSUME NEW r \in Regions, r # tx.region
        PROVE  IF tableOf[r] # None THEN worker'.tableOf[r] = tableOf[r]
               ELSE worker'.tableOf[r] = None
    BY <1>0, <1>6, <2>1 DEF ReaderInv, WorkerInv, WorkerTables, Ahead
  <2> QED
    BY <1>0, <1>1, <1>6, <1>9, <2>1 DEF WorkerTables
<1>11. ASSUME NEW r \in Regions, NEW k \in Bricks, worker'.tableOf[r] # None, NEW s,
              s = worker'.rows[worker'.tableOf[r]][k]
       PROVE  /\ Owned(r, k) => s = slotOf[r][k]
              /\ ~Owned(r, k) => s = None
              /\ s # None => Shows(worker'.bytes[s], r, k)
  <2>1. CASE r # tx.region
    <3>1. worker'.tableOf[r] = worker.tableOf[r]
      BY <1>6, <2>1
    <3>2. /\ worker.tableOf[r] # tx.table /\ worker.tableOf[r] \in Tables
          /\ worker.rows[worker.tableOf[r]][k] = slotOf[r][k]
          /\ slotOf[r][k] # None => /\ Owned(r, k)
                                    /\ Shows(worker.bytes[slotOf[r][k]], r, k)
                                    /\ \A j \in Bricks : slotOf[tx.region][j] # slotOf[r][k]
      BY <1>0, <1>11, <2>1, <3>1, OthersRead
    <3>3. s = slotOf[r][k]
      BY <1>3, <1>5, <1>6, <1>11, <3>1, <3>2
    <3>4. s # None => worker'.bytes[s] = worker.bytes[s]
      BY <1>0, <1>3, <1>5, <1>6, <3>2, <3>3, SlotFacts
    <3> QED
      BY <3>2, <3>3, <3>4 DEF Owned
  <2>2. CASE r = tx.region
    <3>1. s = OldRow[k]
      BY <1>5, <1>6, <1>9, <1>11, <2>2
    <3>2. k \in DOMAIN tx.old <=> Owned(r, k)
      BY <1>0, <2>2 DEF SlotInv, TxOwns, Owned, Speculative, Fresh, Using
    <3>3. k \in DOMAIN tx.old => s = slotOf[r][k] /\ worker'.bytes[s] = cpu[s]
      BY <1>5, <1>6, <2>2, <3>1 DEF OldRow
    <3>4. k \notin DOMAIN tx.old => s = None
      BY <3>1 DEF OldRow
    <3>5. k \in DOMAIN tx.old => Shows(cpu[slotOf[r][k]], r, k)
      BY <1>0, <3>2, StoredShows DEF ReaderInv
    <3> QED
      BY <3>2, <3>3, <3>4, <3>5
  <2> QED
    BY <2>1, <2>2
<1>12. WorkerRows'
  BY <1>1, <1>8, <1>11 DEF WorkerRows, Shows, Logged, Field, Reaches
<1> QED
  BY <1>7, <1>10, <1>12

(* An update that is taken.                                                *)
LEMMA WorkerAfterUpdate ==
  ASSUME ReaderInv, WorkerUpdate
  PROVE  WorkerTables' /\ WorkerRows' /\ WorkerPublished'
<1>0. /\ SlotInv /\ workerState = "ok" /\ WorkerTables /\ WorkerRows /\ WorkerPublished
      /\ tableOf \in [Regions -> Tables \cup {None}]
      /\ worker \in WorkerMirror
      /\ ~Idle => tx.region \in Regions /\ tx.table \in Tables
  BY TxFacts DEF ReaderInv, WorkerInv, WorkerUpdate, SlotInv, PartsOK
<1>1. UNCHANGED <<slotOf, cpu, tableOf, queue, tx, log, history, accepted>>
  BY DEF WorkerUpdate, store, editVars
<1>2. /\ worker'.bytes = worker.bytes
      /\ \A r \in Regions : worker'.tableOf[r] = worker.tableOf[r]
      /\ \A t \in Tables, k \in Bricks :
           \/ worker'.rows[t][k] = worker.rows[t][k]
           \/ /\ tx.phase = "publishing" /\ Speculative(tx.region, k)
              /\ t = tableOf[tx.region] /\ worker'.rows[t][k] = slotOf[tx.region][k]
  BY UpdateTells
<1>3. WorkerTables'
  BY <1>0, <1>1, <1>2 DEF WorkerTables, Ahead, Idle, FreeTables
<1>4. WorkerPublished'
  <2> SUFFICES ASSUME tx.phase = "published", tx.ok
               PROVE  /\ worker'.tableOf[tx.region] = tx.table
                      /\ worker'.rows[tx.table] = slotOf[tx.region]
                      /\ \A k \in tx.bricks : worker'.bytes[slotOf[tx.region][k]] = tx.baked[k]
    BY <1>1 DEF WorkerPublished
  <2>1. /\ worker.tableOf[tx.region] = tx.table
        /\ worker.rows[tx.table] = slotOf[tx.region]
        /\ \A k \in tx.bricks : worker.bytes[slotOf[tx.region][k]] = tx.baked[k]
        /\ tx.region \in Regions /\ tx.table \in Tables
    BY <1>0 DEF WorkerPublished, Idle
  <2>2. worker'.rows[tx.table] \in Row /\ worker.rows[tx.table] \in Row
    <3>1. ConsInv'
      <4>1. ConsNext
        BY DEF ConsNext, WorkerStep
      <4> QED
        BY <1>0, <4>1, ConsStepInv, EditAssumption, ConsolidationAssumption DEF SlotInv
    <3> QED
      BY <1>0, <2>1, <3>1 DEF ConsInv, ConsTypeOK, WorkerMirror
  <2>3. \A k \in Bricks : worker'.rows[tx.table][k] = worker.rows[tx.table][k]
    BY <1>2, <2>1
  <2>4. worker'.rows[tx.table] = worker.rows[tx.table]
    BY <2>2, <2>3 DEF Row
  <2> QED
    BY <1>2, <2>1, <2>4
<1>5. ASSUME NEW r \in Regions, NEW k \in Bricks, worker.tableOf[r] # None, NEW s,
             s = worker'.rows[worker.tableOf[r]][k]
      PROVE  /\ Owned(r, k) => s = slotOf[r][k]
             /\ ~Owned(r, k) => s = None \/ Ahead(r)
             /\ s # None => \/ tx.phase = "publishing" /\ Speculative(r, k) /\ s = slotOf[r][k]
                            \/ Shows(worker.bytes[s], r, k)
  <2>1. worker.tableOf[r] \in Tables
    BY <1>0, <1>5 DEF WorkerMirror
  <2>2. CASE s = worker.rows[worker.tableOf[r]][k]
    BY <1>0, <1>5, <2>2 DEF WorkerRows
  <2>3. CASE s # worker.rows[worker.tableOf[r]][k]
    <3>1. /\ tx.phase = "publishing" /\ Speculative(tx.region, k)
          /\ worker.tableOf[r] = tableOf[tx.region] /\ ~Idle /\ s = slotOf[tx.region][k]
      BY <1>2, <1>5, <2>1, <2>3 DEF Idle
    <3>2. r = tx.region
      <4>1. CASE tableOf[r] # None
        BY <1>0, <3>1, <4>1 DEF WorkerTables, SlotInv, OwnedSlots
      <4>2. CASE tableOf[r] = None
        BY <1>0, <1>5, <3>1, <4>2 DEF WorkerTables, FreeTables
      <4> QED
        BY <4>1, <4>2
    <3> QED
      BY <3>1, <3>2 DEF Owned, Ahead
  <2> QED
    BY <2>2, <2>3
<1>6. WorkerRows'
  <2>1. ASSUME NEW r \in Regions, NEW k \in Bricks
        PROVE  /\ Owned(r, k)' <=> Owned(r, k)
               /\ Ahead(r)' <=> Ahead(r)
               /\ Speculative(r, k)' <=> Speculative(r, k)
    BY <1>1 DEF Owned, Ahead, Idle, Speculative, Fresh
  <2>2. ASSUME NEW r \in Regions, NEW k \in Bricks, worker'.tableOf[r] # None, NEW s,
               s = worker'.rows[worker'.tableOf[r]][k]
        PROVE  /\ Owned(r, k) => s = slotOf[r][k]
               /\ ~Owned(r, k) => s = None \/ Ahead(r)
               /\ s # None => \/ tx.phase = "publishing" /\ Speculative(r, k) /\ s = slotOf[r][k]
                              \/ Gives(worker'.bytes[s], Brick(r, k), Logged(r, k)', Field(r, k)')
    <3>1. worker.tableOf[r] # None /\ s = worker'.rows[worker.tableOf[r]][k]
      BY <1>2, <2>2
    <3>2. Logged(r, k)' = Logged(r, k) /\ Field(r, k)' = Field(r, k)
      BY <1>1 DEF Logged, Field, Reaches
    <3> QED
      BY <1>2, <1>5, <3>1, <3>2 DEF Shows
  <2> QED
    BY <1>1, <2>1, <2>2 DEF WorkerRows, Shows
<1> QED
  BY <1>3, <1>4, <1>6

(* The commit: the store takes over what the worker holds already.         *)
LEMMA WorkerAfterCommit ==
  ASSUME ReaderInv, PumpCommit
  PROVE  workerState = "ok" => WorkerTables' /\ WorkerRows' /\ WorkerPublished'
<1> SUFFICES ASSUME workerState = "ok"
             PROVE  WorkerTables' /\ WorkerRows' /\ WorkerPublished'
  OBVIOUS
<1>0. /\ SlotInv /\ WorkerTables /\ WorkerRows /\ WorkerPublished
      /\ tableOf \in [Regions -> Tables \cup {None}]
      /\ tx.region \in Regions /\ tx.table \in Tables /\ ~Idle /\ Using
      /\ tx.bricks \subseteq Bricks
      /\ tx.phase = "published" /\ tx.ok
  BY TxFacts DEF ReaderInv, WorkerInv, PumpCommit, SlotInv, Idle, Using
<1>1. /\ UNCHANGED <<slotOf, worker>> /\ tx' = NoTx
      /\ \A r \in Regions : tableOf'[r] = IF r = tx.region THEN tx.table ELSE tableOf[r]
  BY <1>0 DEF PumpCommit, mesh
<1>2. WorkerPublished'
  BY <1>1 DEF WorkerPublished, NoTx
<1>3. /\ worker.tableOf[tx.region] = tx.table /\ worker.rows[tx.table] = slotOf[tx.region]
      /\ \A k \in tx.bricks : worker.bytes[slotOf[tx.region][k]] = tx.baked[k]
  BY <1>0 DEF WorkerPublished
<1>4. \A r \in Regions : r # tx.region => worker.tableOf[r] = tableOf[r]
  BY <1>0 DEF WorkerTables, Ahead
<1>5. WorkerTables'
  BY <1>0, <1>1, <1>3, <1>4, ConsolidationAssumption DEF WorkerTables
<1>6. \A r \in Regions, k \in Bricks : Owned(r, k)' <=> slotOf[r][k] # None
  BY <1>1 DEF Owned, Speculative, Fresh, NoTx
<1>7. ASSUME NEW r \in Regions, NEW k \in Bricks, worker.tableOf[r] # None, NEW s,
             s = worker.rows[worker.tableOf[r]][k]
      PROVE  /\ s = slotOf[r][k]
             /\ s # None => Gives(worker.bytes[s], Brick(r, k), Logged(r, k)', Field(r, k)')
  <2>1. CASE r # tx.region
    <3>1. s = slotOf[r][k] /\ (s # None => Shows(worker.bytes[s], r, k))
      BY <1>0, <1>7, <2>1, OthersRead
    <3> QED
      BY <1>0, <2>1, <3>1, ShowsCommitted
  <2>2. CASE r = tx.region /\ k \in tx.bricks
    <3>1. s = slotOf[r][k] /\ worker.bytes[s] = tx.baked[k]
      BY <1>3, <1>7, <2>2
    <3>2. /\ Shows(tx.baked[k], r, k)
          /\ \A i \in tx.ops : Reaches(i, r, k) => i \in tx.baked[k].ops
      BY <1>0, <2>2 DEF ReaderInv, BakedShows, HasBytes
    <3> QED
      BY <1>0, <3>1, <3>2, ShowsCommitted
  <2>3. CASE r = tx.region /\ k \notin tx.bricks
    <3>1. s = slotOf[r][k]
      BY <1>3, <1>7, <2>3
    <3>2. ~Speculative(r, k)
      BY <2>3 DEF Speculative, Fresh
    <3>3. s # None => Shows(worker.bytes[s], r, k)
      BY <1>0, <1>7, <3>2 DEF WorkerRows
    <3>4. \A i \in tx.ops : ~Reaches(i, r, k)
      BY <1>0, <2>3 DEF SlotInv, TxOwns
    <3> QED
      BY <1>0, <3>1, <3>3, <3>4, ShowsCommitted
  <2> QED
    BY <2>1, <2>2, <2>3
<1>8. WorkerRows'
  BY <1>1, <1>6, <1>7 DEF WorkerRows, Shows
<1> QED
  BY <1>2, <1>5, <1>8

(* Every step keeps the worker's part of the invariant.                    *)
LEMMA WorkerStepInv ==
  ASSUME ReaderInv, [ConsNext]_vars
  PROVE  WorkerInv'
<1> SUFFICES ASSUME workerState' = "ok"
             PROVE  WorkerTables' /\ WorkerRows' /\ WorkerPublished' /\ WorkerUpdates'
  BY DEF WorkerInv
<1>0. SlotInv /\ SlotInv'
  BY SlotStep DEF ReaderInv
<1>1. CASE workerState # "ok"
  <2>1. PumpRebuild \/ StartWorker
    BY <1>1 DEF ConsNext, EditStep, StartBatch, SkipEdit, TakeEdit, vars, consVars, mesh,
      PumpStep, StartBake, PumpBakeFailed, PumpBakeMoved, PumpBakeResult, PumpUploadFailed,
      PumpPublishFailed, PumpRebuildFailed, PumpPublishMoved, PumpCommit,
      WorkerStep, WorkerUpdate, WorkerBake, WorkerBakeFails, WorkerPublish, WorkerPublishFails,
      WorkerRestoreFails, WorldStep, Evict, Load, ReloadRender, TeardownWorker, Free
  <2> QED
    BY <1>0, <2>1, WorkerRebuilt
<1>2. CASE workerState = "ok"
  <2>1. WorkerUpdates'
    BY <1>2, UpdatesKept
  <2>2. CASE WorkerPublish
    BY <2>1, <2>2, WorkerAfterPublish
  <2>3. ASSUME NEW done \in SUBSET tx.bricks, WorkerPublishFails(done)
        PROVE  WorkerTables' /\ WorkerRows' /\ WorkerPublished'
    BY <2>3, WorkerAfterRestore
  <2>4. CASE WorkerUpdate
    BY <2>1, <2>4, WorkerAfterUpdate
  <2>5. CASE PumpCommit
    BY <1>2, <2>1, <2>5, WorkerAfterCommit
  <2>6. CASE /\ ~WorkerPublish /\ ~WorkerUpdate /\ ~PumpCommit
             /\ \A done \in SUBSET tx.bricks : ~WorkerPublishFails(done)
    <3>1. worker' = worker
      BY <1>2, <2>6 DEF ConsNext, EditStep, StartBatch, SkipEdit, TakeEdit, vars, consVars, mesh,
        PumpStep, StartBake, PumpBakeFailed, PumpBakeMoved, PumpBakeResult, PumpUploadFailed,
        PumpPublishFailed, PumpRebuild, PumpRebuildFailed, PumpPublishMoved,
        WorkerStep, WorkerBake, WorkerBakeFails, WorkerRestoreFails,
        WorldStep, Evict, Load, ReloadRender, TeardownWorker, StartWorker
    <3>2. tx.phase = "publishing" => tx' = tx
      BY <1>0, <2>6, PublishingStays
    <3>3. WorkerTables' /\ WorkerRows'
      BY <1>2, <2>6, <3>1, <3>2, QuietRows
    <3>4. WorkerPublished'
      <4>1. CASE UNCHANGED <<slotOf, tx>>
        BY <1>2, <3>1, <4>1 DEF ReaderInv, WorkerInv, WorkerPublished
      <4>2. CASE tx'.phase # "published"
        BY <4>2 DEF WorkerPublished
      <4>3. CASE Works
        BY <3>2, <4>2, <4>3 DEF Works
      <4>4. \A pick : PumpBakeResult(pick) => tx'.phase # "published"
        BY <1>0, TxFacts DEF PumpBakeResult, SlotInv, TxType
      <4>5. StartBake \/ Released => tx'.phase # "published"
        BY DEF StartBake, Released, NoTx
      <4> QED
        BY <1>0, <2>6, <4>1, <4>2, <4>3, <4>4, <4>5, StepKinds DEF Stays
    <3> QED
      BY <2>1, <3>3, <3>4
  <2> QED
    BY <2>1, <2>2, <2>3, <2>4, <2>5, <2>6
<1> QED
  BY <1>1, <1>2

(* At the start nothing is baked, in flight or waiting.                    *)
LEMMA ReaderInit == ConsInit => ReaderInv
<1> SUFFICES ASSUME ConsInit PROVE ReaderInv
  OBVIOUS
<1>0. SlotInv
  BY SlotInit
<1>1. /\ Idle /\ queue = <<>> /\ updates = <<>> /\ workerState = "ok"
      /\ slotOf = [r \in Regions |-> NoRow] /\ tableOf = [r \in Regions |-> None]
      /\ worker.tableOf = [r \in Regions |-> None]
      /\ log = [r \in Regions |-> {}] /\ accepted = [r \in Regions |-> {}]
  BY DEF ConsInit, EditInit, NoTx, Idle
<1>2. ~HasBytes /\ ~Using
  BY <1>1 DEF Idle, HasBytes, Using
<1>3. CommittedShows
  BY <1>1 DEF CommittedShows, CommittedBase, CpuBase, NoRow, Shows, Gives, Terrain, Logged, Field
<1>4. BakedShows /\ WorkerIsUp /\ NothingBehindFailure
  BY <1>1, <1>2 DEF BakedShows, WorkerIsUp, NothingBehindFailure, Idle, NoTx
<1>5. WorkerInv
  BY <1>1 DEF WorkerInv, WorkerTables, WorkerRows, WorkerPublished, WorkerUpdates, Idle
<1> QED
  BY <1>0, <1>3, <1>4, <1>5 DEF ReaderInv

(* Every step keeps the readers' invariant.                                *)
LEMMA ReaderStep ==
  ASSUME NoLoadBehindFailure, ReaderInv, [ConsNext]_vars
  PROVE  ReaderInv'
<1>0. SlotInv /\ SlotInv'
  BY SlotStep DEF ReaderInv
<1>1. CommittedShows' /\ BakedShows' /\ WorkerIsUp' /\ NothingBehindFailure'
  BY <1>0, CommittedStep, BakedStep, UpStep, BehindStep DEF ReaderInv
<1>2. WorkerInv'
  BY WorkerStepInv
<1> QED
  BY <1>0, <1>1, <1>2 DEF ReaderInv

(* A mesh made now from the worker's pool shows every accepted edit,       *)
(* whatever bakes, publications, refusals and rebuilds left in it: every   *)
(* row is the store's, or belongs to the region whose turn it is and holds *)
(* bytes as good as the store's.                                           *)
THEOREM MeshesShowEveryEdit ==
  ASSUME NoLoadBehindFailure
  PROVE  ConsSpec => []WorkerShowsTheWorld
<1>1. ReaderInv => WorkerShowsTheWorld
  BY WorkerShows DEF ReaderInv
<1>2. ReaderInv /\ [ConsNext]_vars => ReaderInv'
  BY ReaderStep
<1> QED
  BY <1>1, <1>2, ReaderInit, PTL DEF ConsSpec

-----------------------------------------------------------------------------
(* Baking is invisible                                                     *)

(* The fields of all bricks.                                               *)
Fields == [r \in Regions |-> [k \in Bricks |-> Field(r, k)]]

(* What the store is committed to, with the lists over it, is every edit   *)
(* ever taken.                                                             *)
LEMMA CommittedIsField == CommittedShows => CommittedField = Fields
BY DEF CommittedShows, Shows, Gives, CommittedField, Fields

(* The fields change by an append only, and then by the edit appended.     *)
LEMMA FieldsGrow ==
  ASSUME EditAssumption, SlotInv, [ConsNext]_vars
  PROVE  \/ Fields' = Fields
         \/ /\ AppendHead
            /\ Head(batch) \in Ops /\ LastSeq + 1 \in 1..MaxSeq
            /\ \A r \in Regions, k \in Bricks : \A t \in Fields[r][k] : t < LastSeq + 1
            /\ Fields' = [r \in Regions |-> [k \in Bricks |->
                 IF r \in Touched(Head(batch)) /\ k \in Head(batch)[r]
                 THEN Fields[r][k] \cup {LastSeq + 1} ELSE Fields[r][k]]]
<1>0. ConsInv
  BY DEF SlotInv
<1>1. CASE LogKept
  BY <1>1 DEF LogKept, Fields, Field, Reaches
<1>2. CASE PumpCommit
  <2>1. accepted' = accepted /\ history' = history
    BY <1>2 DEF PumpCommit, ClearThrough
  <2> QED
    BY <2>1 DEF Fields, Field, Reaches
<1>3. CASE AppendHead
  <2> DEFINE op == Head(batch)
             n == LastSeq + 1
  <2>1. /\ history \in Seq(HistoryEntry) /\ batch \in Seq(Ops \cup {Junk})
        /\ LastSeq \in Nat /\ Len(batch) \in Nat /\ LastSeq + Len(batch) <= MaxSeq
        /\ accepted \in [Regions -> SUBSET (1..LastSeq)] /\ MaxSeq \in Nat
        /\ atomic \in BOOLEAN
    BY <1>0, LenProperties, EditAssumption
    DEF ConsInv, EditInv, EditTypeOK, SeqBound, LastSeq
  <2>2. op \in Ops /\ Len(batch) > 0
    BY <1>3, <2>1, HeadTailProperties, EmptySeq, LenProperties DEF AppendHead, LockFree
  <2>3. n \in 1..MaxSeq
    BY <2>1, <2>2
  <2>4. /\ history'[n].op = op
        /\ \A s \in 1..LastSeq : history'[s] = history[s]
    <3>1. [op |-> op, atomic |-> atomic] \in HistoryEntry
      BY <2>1, <2>2 DEF HistoryEntry
    <3> QED
      BY <1>3, <2>1, <3>1, AppendProperties DEF AppendHead, LastSeq
  <2>5. \A r \in Regions : accepted'[r] = IF r \in Touched(op) THEN accepted[r] \cup {n}
                                           ELSE accepted[r]
    BY <1>3 DEF AppendHead, Take, NextSeq, LastSeq
  <2>6. \A r \in Regions : accepted[r] \subseteq 1..LastSeq
    BY <2>1
  <2>7. ASSUME NEW r \in Regions, NEW k \in Bricks
        PROVE  Field(r, k)' = IF r \in Touched(op) /\ k \in op[r] THEN Field(r, k) \cup {n}
                              ELSE Field(r, k)
    <3>1. \A s \in accepted[r] : Reaches(s, r, k)' <=> Reaches(s, r, k)
      BY <2>4, <2>6 DEF Reaches
    <3>2. PICK s \in 1..MaxSeq : s = n
      BY <2>3
    <3>3. Reaches(s, r, k)' <=> r \in DOMAIN op /\ k \in op[r]
      BY <2>4, <3>2 DEF Reaches
    <3>4. r \in Touched(op) => r \in DOMAIN op
      BY DEF Touched
    <3>5. accepted'[r] = IF r \in Touched(op) THEN accepted[r] \cup {s} ELSE accepted[r]
      BY <2>5, <3>2
    <3>6. Field(r, k)' = IF r \in Touched(op) /\ k \in op[r] THEN Field(r, k) \cup {s}
                         ELSE Field(r, k)
      <4> HIDE DEF op, n
      <4> QED
        BY <3>1, <3>3, <3>4, <3>5 DEF Field
    <3> QED
      BY <3>2, <3>6
  <2>8. \A r \in Regions, k \in Bricks : \A t \in Fields[r][k] : t < n
    <3>1. \A r \in Regions, k \in Bricks : Fields[r][k] = Field(r, k)
      BY DEF Fields
    <3>2. \A r \in Regions, k \in Bricks : Field(r, k) \subseteq accepted[r]
      BY DEF Field
    <3>3. \A t \in 1..LastSeq : t < n
      BY <2>1
    <3> HIDE DEF op, n
    <3> QED
      BY <2>6, <3>1, <3>2, <3>3
  <2>9. Fields' = [r \in Regions |-> [k \in Bricks |->
                     IF r \in Touched(op) /\ k \in op[r] THEN Fields[r][k] \cup {n} ELSE Fields[r][k]]]
    <3> HIDE DEF op, n
    <3>1. \A r \in Regions, k \in Bricks : Fields[r][k] = Field(r, k)
      BY DEF Fields
    <3>2. Fields' = [r \in Regions |-> [k \in Bricks |-> Field(r, k)']]
      BY DEF Fields
    <3>3. ASSUME NEW r \in Regions
          PROVE  [k \in Bricks |-> Field(r, k)'] =
                 [k \in Bricks |-> IF r \in Touched(op) /\ k \in op[r] THEN Fields[r][k] \cup {n} ELSE Fields[r][k]]
      BY <2>7, <3>1
    <3> QED
      BY <3>2, <3>3
  <2> QED
    BY <1>3, <2>2, <2>3, <2>8, <2>9
<1> QED
  BY <1>1, <1>2, <1>3, StepKinds
  DEF Stays, StartBake, Works, Released, PumpBakeResult, editVars, LogKept

(* The refinement: with the store, the list and the transaction as they    *)
(* are in memory, the world's fields change as WorldEdits says they do.    *)
THEOREM BakingIsInvisible ==
  ASSUME NoLoadBehindFailure
  PROVE  ConsSpec => ImplementsWorldEdits
<1>1. ConsInit => World!AbstractInit
  <2> SUFFICES ASSUME ConsInit PROVE World!AbstractInit
    OBVIOUS
  <2>1. CommittedField = Fields
    BY ReaderInit, CommittedIsField DEF ReaderInv
  <2> QED
    BY <2>1 DEF World!AbstractInit, Fields, Field, ConsInit, EditInit
<1>2. ReaderInv /\ [ConsNext]_vars => ReaderInv'
  BY ReaderStep
<1>3. ReaderInv /\ ReaderInv' /\ [ConsNext]_vars => [World!AbstractNext]_CommittedField
  <2> SUFFICES ASSUME ReaderInv, ReaderInv', [ConsNext]_vars, CommittedField' # CommittedField
               PROVE  World!AbstractNext
    OBVIOUS
  <2>1. CommittedField = Fields
    BY CommittedIsField DEF ReaderInv
  <2>2. CommittedField' = Fields'
    BY DEF ReaderInv, CommittedShows, Shows, Gives, CommittedField, Fields
  <2>3. Touched(Head(batch)) \in SUBSET DOMAIN Head(batch)
    BY DEF Touched
  <2>4. /\ Head(batch) \in Ops /\ LastSeq + 1 \in 1..MaxSeq
        /\ World!Apply(Head(batch), Touched(Head(batch)), LastSeq + 1)
    BY <2>1, <2>2, FieldsGrow, EditAssumption DEF ReaderInv, World!Apply
  <2> QED
    BY <2>3, <2>4 DEF World!AbstractNext
<1> QED
  BY <1>1, <1>2, <1>3, ReaderInit, PTL DEF ConsSpec, ImplementsWorldEdits, World!AbstractSpec

-----------------------------------------------------------------------------
(* The atlas                                                               *)

(* What the atlas holds.                                                   *)
RenderInv == RenderRows /\ RenderBytes

(* A rollback over an atlas that only differs in slots nobody else uses    *)
(* puts the atlas back to what the store holds.                            *)
LEMMA RenderRolledBack ==
  ASSUME SlotInv, RenderInv, Released, NEW m \in Mirror,
         m.rows = render.rows, render' = RollbackRender(m), residency' = residency,
         \A r \in Regions, k \in Bricks : r # tx.region /\ slotOf[r][k] # None =>
            m.bytes[slotOf[r][k]] = render.bytes[slotOf[r][k]]
  PROVE  RenderInv'
<1>0. /\ ~Idle /\ tx.region \in Regions /\ tx.table \in Tables /\ DOMAIN tx.old \subseteq Bricks
      /\ tableOf \in [Regions -> Tables \cup {None}] /\ m \in Mirrors
      /\ UNCHANGED <<cpu, tableOf>>
  BY TxFacts DEF SlotInv, Released, Mirrors
<1>1. /\ Idle' /\ ~Using'
      /\ \A r \in Regions : r # tx.region => slotOf'[r] = slotOf[r]
      /\ \A k \in Bricks : slotOf'[tx.region][k] =
            IF k \in DOMAIN tx.old THEN slotOf[tx.region][k] ELSE None
      /\ \A r \in Regions, k \in Bricks : Owned(r, k)' <=> Owned(r, k)
      /\ \A r \in Regions, k \in Bricks : Owned(r, k) => slotOf'[r][k] = slotOf[r][k]
  BY ReleasedRow DEF Idle, Using
<1>2. /\ \A k \in DOMAIN tx.old : render'.bytes[slotOf[tx.region][k]] = cpu[slotOf[tx.region][k]]
      /\ \A s \in Slots : (\A k \in DOMAIN tx.old : slotOf[tx.region][k] # s) =>
            render'.bytes[s] = m.bytes[s]
      /\ \A t \in Tables : t # tx.table => render'.rows[t] = render.rows[t]
      /\ render'.rows[tx.table] = IF tx.oldTable = None THEN NoRow ELSE OldRow
  BY <1>0, RollbackFacts
<1>3. /\ tx.oldTable = tableOf[tx.region]
      /\ tx.oldTable # None => tx.table = tx.oldTable
      /\ \A r \in Regions : tableOf[r] = tx.table => r = tx.region
  BY <1>0 DEF SlotInv, TxOwns
<1>4. \A k \in Bricks : OldRow[k] = slotOf'[tx.region][k]
  BY <1>1 DEF OldRow
<1>5. \A t \in FreeTables' : render'.rows[t] = NoRow
  <2>1. FreeTables' = FreeTables /\ FreeTables \subseteq Tables
    BY <1>0 DEF FreeTables
  <2>2. tx.table \in FreeTables => tx.oldTable = None
    BY <1>0, <1>3 DEF FreeTables
  <2> QED
    BY <1>2, <2>1, <2>2 DEF RenderInv, RenderRows
<1>6. ASSUME NEW r \in Regions, NEW k \in Bricks, tableOf[r] # None
      PROVE  /\ render'.rows[tableOf[r]][k] \in {None, slotOf'[r][k]}
             /\ residency[r] # None /\ Owned(r, k) => render'.rows[tableOf[r]][k] = slotOf'[r][k]
  <2>1. tableOf[r] \in Tables
    BY <1>0, <1>6
  <2>2. CASE r = tx.region
    <3>1. render'.rows[tableOf[r]] = OldRow
      BY <1>2, <1>3, <1>6, <2>2
    <3> QED
      BY <1>4, <2>2, <3>1
  <2>3. CASE r # tx.region
    <3>1. tableOf[r] # tx.table
      BY <1>3, <2>3
    <3>2. render'.rows[tableOf[r]] = render.rows[tableOf[r]] /\ slotOf'[r] = slotOf[r]
      BY <1>1, <1>2, <2>1, <2>3, <3>1
    <3> QED
      BY <1>6, <3>2 DEF RenderInv, RenderRows
  <2> QED
    BY <2>2, <2>3
<1>7. ASSUME NEW r \in Regions, NEW k \in Bricks, slotOf'[r][k] # None
      PROVE  render'.bytes[slotOf'[r][k]] = cpu[slotOf'[r][k]]
  <2>1. CASE r = tx.region
    BY <1>1, <1>2, <1>7, <2>1
  <2>2. CASE r # tx.region
    <3>1. slotOf'[r][k] = slotOf[r][k] /\ slotOf[r][k] # None /\ slotOf[r][k] \in Slots
      BY <1>1, <1>7, <2>2, SlotFacts
    <3>2. \A j \in DOMAIN tx.old : slotOf[tx.region][j] # slotOf[r][k]
      BY <1>0, <2>2, <3>1, OneBrickPerSlot
    <3>3. render'.bytes[slotOf[r][k]] = render.bytes[slotOf[r][k]]
      BY <1>2, <2>2, <3>1, <3>2
    <3>4. Current(r, k) = cpu[slotOf[r][k]]
      BY <2>2 DEF Current
    <3> QED
      BY <3>1, <3>3, <3>4 DEF RenderInv, RenderBytes
  <2> QED
    BY <2>1, <2>2
<1>8. RenderBytes'
  BY <1>0, <1>1, <1>7 DEF RenderBytes, Current
<1> QED
  BY <1>0, <1>1, <1>5, <1>6, <1>8 DEF RenderInv, RenderRows

(* A refusal rolls the atlas back: as it is, or with what a failed upload  *)
(* left in slots nobody uses or in the transaction's own.                  *)
LEMMA RenderReleased ==
  ASSUME SlotInv, RenderInv, [ConsNext]_vars, Released, ~PumpCommit
  PROVE  RenderInv'
<1>0. /\ render \in Mirror /\ ~Idle /\ PartsOK /\ TxSound /\ tx.region \in Regions
      /\ Idle' /\ tx'.phase # tx.phase /\ tx' = NoTx
  BY TxFacts DEF SlotInv, PartsOK, Released, Idle, NoTx
<1>1. CASE render' = RollbackRender(render) /\ residency' = residency
  BY <1>0, <1>1, RenderRolledBack
<1>2. CASE PumpBakeFailed
  <2>1. UNCHANGED <<slotOf, cpu, tableOf, render, residency>> /\ ~Using
    BY <1>2 DEF PumpBakeFailed, store, Using
  <2>2. ~Using' /\ \A r \in Regions, k \in Bricks : ~Speculative(r, k) /\ ~Speculative(r, k)'
    BY <1>0, <2>1 DEF Using, Speculative, Fresh, Idle
  <2> QED
    BY <2>1, <2>2 DEF RenderInv, RenderRows, RenderBytes, FreeTables, Owned, Current
<1>3. ASSUME NEW pick \in Injection(ToAcquire, FreeSlots), NEW done \in SUBSET tx.bricks,
             PumpUploadFailed(pick, done)
      PROVE  RenderInv'
  <2> DEFINE row == Acquire(pick)[tx.region]
             data == [k \in done |-> tx.baked[k]]
             m == Upload(render, row, data)
  <2>0. tx.phase = "baked" /\ tx.ok /\ ~Using /\ residency' = residency
        /\ render' = RollbackRender(m)
    BY <1>3 DEF PumpUploadFailed, Using
  <2>1. /\ row \in Row /\ data \in SomeBytes /\ DOMAIN data = done /\ done \subseteq Bricks
        /\ tx.bricks \subseteq Bricks
    <3>1. row \in Row
      BY <1>0, AcquireType
    <3>2. tx.baked \in SomeBytes /\ DOMAIN tx.baked = tx.bricks /\ tx.bricks \subseteq Bricks
      BY <1>0, <2>0, TxParts, TxFacts DEF TxSound, SlotInv
    <3>3. \A k \in done : tx.baked[k] \in Content
      BY <3>2 DEF SomeBytes
    <3> QED
      BY <3>1, <3>2, <3>3 DEF SomeBytes
  <2>2. m \in Mirror /\ m.rows = render.rows
    <3>1. render \in Mirrors
      BY <1>0 DEF Mirrors
    <3> HIDE DEF row, data
    <3>2. m \in Mirror
      BY <1>0, <2>1, <3>1, PoolTypes
    <3> QED
      BY <3>1, <3>2, UploadFacts
  <2>3. ASSUME NEW r \in Regions, NEW k \in Bricks, r # tx.region, slotOf[r][k] # None
        PROVE  m.bytes[slotOf[r][k]] = render.bytes[slotOf[r][k]]
    <3>1. slotOf[r][k] \in Slots /\ slotOf[r][k] \notin FreeSlots
      BY <2>3, SlotFacts
    <3>2. ASSUME NEW j \in done PROVE row[j] # slotOf[r][k]
      <4>1. CASE j \in ToAcquire
        BY <1>0, <2>0, <2>1, <3>1, <4>1, AcquiredRow
      <4>2. CASE j \notin ToAcquire
        <5>1. row[j] = slotOf[tx.region][j]
          BY <1>0, <2>0, <2>1, <3>2, <4>2, AcquiredRow
        <5> QED
          BY <1>0, <2>1, <2>3, <3>2, <5>1, OneBrickPerSlot
      <4> QED
        BY <4>1, <4>2
    <3> QED
      BY <1>0, <2>1, <3>1, <3>2, UploadFacts DEF Mirrors
  <2> HIDE DEF m
  <2> QED
    BY <2>0, <2>2, <2>3, RenderRolledBack
<1>4. CASE PumpBakeMoved \/ PumpPublishFailed \/ PumpRebuild \/ PumpRebuildFailed
            \/ PumpPublishMoved \/ TeardownWorker
  BY <1>0, <1>1, <1>4 DEF PumpBakeMoved, PumpPublishFailed, PumpRebuild, PumpRebuildFailed,
    PumpPublishMoved, TeardownWorker, Refuse, Idle
<1>5. ~StartBake /\ \A pick : ~PumpBakeResult(pick)
  BY <1>0, TxFacts DEF StartBake, PumpBakeResult, Idle, SlotInv, TxType
<1>6. ~EditStep /\ (WorldStep => TeardownWorker) /\ ~UNCHANGED vars
  <2>1. tx' # tx
    BY <1>0
  <2> QED
    BY <2>1 DEF EditStep, StartBatch, SkipEdit, TakeEdit, WorldStep, Evict, Load, ReloadRender,
      StartWorker, vars, consVars
<1>7. ~WorkerStep
  <2>1. ~WorkerUpdate
    BY <1>0 DEF WorkerUpdate
  <2>2. ASSUME WorkerStep PROVE Works
    BY <1>0, <2>1, <2>2 DEF WorkerStep, WorkerBake, WorkerBakeFails, WorkerPublish,
      WorkerPublishFails, WorkerRestoreFails, editVars, store, Works, LogKept, Idle, PartsOK,
      TxType
  <2>3. ~Works
    BY <1>0 DEF Works, Idle
  <2> QED
    BY <2>2, <2>3
<1> QED
  BY <1>2, <1>3, <1>4, <1>5, <1>6, <1>7 DEF ConsNext, PumpStep

(* A commit makes the atlas row name what the atlas holds already.         *)
LEMMA RenderCommitted ==
  ASSUME SlotInv, RenderInv, PumpCommit
  PROVE  RenderInv'
<1>0. /\ ~Idle /\ Using /\ ~Using' /\ tx.region \in Regions /\ tx.table \in Tables
      /\ tx.bricks \subseteq Bricks /\ render \in Mirrors
      /\ slotOf \in [Regions -> Row] /\ tableOf \in [Regions -> Tables \cup {None}]
      /\ UNCHANGED <<slotOf, residency>> /\ cpu' = CommittedBytes
      /\ tableOf' = [tableOf EXCEPT ![tx.region] = tx.table]
      /\ render' = SetRow(render, tx.table, slotOf[tx.region])
  BY TxFacts DEF PumpCommit, PublishRender, Idle, Using, NoTx, SlotInv, PartsOK, Mirrors
<1>1. slotOf[tx.region] \in Row /\ None \notin Tables
  BY <1>0, SlotFacts
<1>2. /\ render'.bytes = render.bytes
      /\ \A u \in Tables : u # tx.table => render'.rows[u] = render.rows[u]
      /\ \A k \in Bricks : render'.rows[tx.table][k] =
            IF slotOf[tx.region][k] # None THEN slotOf[tx.region][k] ELSE render.rows[tx.table][k]
  BY <1>0, <1>1, RowFacts
<1>3. /\ tx.oldTable = tableOf[tx.region]
      /\ tx.oldTable # None => tx.table = tx.oldTable
      /\ \A r \in Regions : tableOf[r] = tx.table => r = tx.region
  BY <1>0 DEF SlotInv, TxOwns
<1>4. /\ tableOf'[tx.region] = tx.table
      /\ \A r \in Regions : r # tx.region => tableOf'[r] = tableOf[r] /\ tableOf[r] # tx.table
  BY <1>0, <1>3
<1>5. \A k \in Bricks : render'.rows[tx.table][k] = slotOf[tx.region][k]
  <2>1. CASE tableOf[tx.region] # None
    BY <1>0, <1>2, <1>3, <2>1 DEF RenderInv, RenderRows
  <2>2. CASE tableOf[tx.region] = None
    <3>1. \A r \in Regions : tableOf[r] # tx.table
      BY <1>1, <1>0, <1>3, <2>2
    <3>2. render.rows[tx.table] = NoRow
      BY <1>0, <3>1 DEF RenderInv, RenderRows, FreeTables
    <3> QED
      BY <1>2, <3>2 DEF NoRow
  <2> QED
    BY <2>1, <2>2
<1>6. \A t \in FreeTables' : render'.rows[t] = NoRow
  <2>1. ASSUME NEW t \in FreeTables' PROVE t \in FreeTables /\ t # tx.table
    <3>1. t \in Tables /\ \A r \in Regions : tableOf'[r] # t
      BY <2>1 DEF FreeTables
    <3>2. t # tx.table
      BY <1>0, <1>4, <3>1
    <3>3. \A r \in Regions : tableOf[r] # t
      <4>1. ASSUME NEW r \in Regions, tableOf[r] = t PROVE FALSE
        <5>1. r = tx.region
          BY <1>4, <3>1, <4>1
        <5> QED
          BY <1>1, <1>3, <3>1, <3>2, <4>1, <5>1
      <4> QED
        BY <4>1
    <3> QED
      BY <3>1, <3>2, <3>3 DEF FreeTables
  <2> QED
    BY <1>2, <2>1 DEF RenderInv, RenderRows, FreeTables
<1>7. ASSUME NEW r \in Regions, NEW k \in Bricks, tableOf'[r] # None
      PROVE  /\ render'.rows[tableOf'[r]][k] \in {None, slotOf[r][k]}
             /\ residency[r] # None /\ Owned(r, k)' => render'.rows[tableOf'[r]][k] = slotOf[r][k]
  <2>1. CASE r = tx.region
    BY <1>4, <1>5, <2>1
  <2>2. CASE r # tx.region
    <3>1. tableOf'[r] = tableOf[r] /\ tableOf[r] # tx.table /\ tableOf[r] \in Tables
      BY <1>0, <1>4, <1>7, <2>2
    <3>2. render'.rows[tableOf[r]] = render.rows[tableOf[r]]
      BY <1>2, <3>1
    <3>3. Owned(r, k)' => Owned(r, k)
      BY <1>0, <2>2 DEF Owned, Speculative
    <3> QED
      BY <1>7, <3>1, <3>2, <3>3 DEF RenderInv, RenderRows
  <2> QED
    BY <2>1, <2>2
<1>8. ASSUME NEW r \in Regions, NEW k \in Bricks, slotOf[r][k] # None
      PROVE  render.bytes[slotOf[r][k]] = cpu'[slotOf[r][k]]
  <2>0. /\ render.bytes[slotOf[r][k]] = Current(r, k) /\ slotOf[r][k] \in Slots
        /\ \A j \in tx.bricks : slotOf[tx.region][j] # None
    BY <1>0, <1>8, SlotFacts DEF RenderInv, RenderBytes, SlotInv, TxOwns
  <2>1. CASE r = tx.region /\ k \in tx.bricks
    <3>1. \A j \in tx.bricks : slotOf[tx.region][j] = slotOf[r][k] => j = k
      BY <1>0, <1>8, <2>1, OneBrickPerSlot
    <3>2. cpu'[slotOf[r][k]] = tx.baked[k]
      BY <1>0, <2>0, <2>1, <3>1 DEF CommittedBytes
    <3> QED
      BY <1>0, <2>0, <2>1, <3>2 DEF Current
  <2>2. CASE ~(r = tx.region /\ k \in tx.bricks)
    <3>1. \A j \in tx.bricks : slotOf[tx.region][j] # slotOf[r][k]
      BY <1>0, <1>8, <2>0, <2>2, OneBrickPerSlot
    <3>2. cpu'[slotOf[r][k]] = cpu[slotOf[r][k]]
      BY <1>0, <2>0, <3>1 DEF CommittedBytes
    <3> QED
      BY <2>0, <2>2, <3>2 DEF Current
  <2> QED
    BY <2>1, <2>2
<1>9. RenderBytes'
  BY <1>0, <1>2, <1>8 DEF RenderBytes, Current
<1> QED
  BY <1>0, <1>6, <1>7, <1>9 DEF RenderInv, RenderRows

(* The slots a result takes are filled in the step that takes them.        *)
LEMMA RenderAcquired ==
  ASSUME SlotInv, RenderInv, NEW pick \in Injection(ToAcquire, FreeSlots), PumpBakeResult(pick)
  PROVE  RenderInv'
<1> DEFINE row == Acquire(pick)[tx.region]
<1>0. /\ ~Idle /\ ~Using /\ Using' /\ tx.region \in Regions /\ tx \in TxType
      /\ PartsOK /\ TxSound /\ tx.phase = "baked" /\ tx.ok
      /\ render \in Mirrors /\ tx.bricks \subseteq Bricks /\ DOMAIN tx.baked = tx.bricks
  BY TxFacts DEF PumpBakeResult, Idle, Using, SlotInv, TxType, PartsOK, Mirrors, TxSound
<1>1. /\ slotOf' = Acquire(pick) /\ UNCHANGED <<cpu, tableOf, residency>>
      /\ render' = Upload(render, row, tx.baked)
      /\ tx'.region = tx.region /\ tx'.bricks = tx.bricks /\ tx'.old = tx.old
      /\ tx'.baked = tx.baked
  BY <1>0 DEF PumpBakeResult, TxType
<1>2. /\ Fresh' = ToAcquire
      /\ \A r \in Regions, k \in Bricks : ~Speculative(r, k)
  BY <1>0, <1>1 DEF Fresh, Using, ToAcquire, Speculative
<1>3. ASSUME NEW r \in Regions, NEW k \in Bricks
      PROVE  /\ ~(r = tx.region /\ k \in ToAcquire) => slotOf'[r][k] = slotOf[r][k]
             /\ r = tx.region /\ k \in ToAcquire => slotOf[r][k] = None
             /\ Owned(r, k)' => ~(r = tx.region /\ k \in ToAcquire) /\ Owned(r, k)
  <2>1. ~(r = tx.region /\ k \in ToAcquire) => slotOf'[r][k] = slotOf[r][k]
    BY <1>0, <1>1, AcquiredRow
  <2>2. r = tx.region /\ k \in ToAcquire => slotOf[r][k] = None
    BY <1>0, AcquiredRow
  <2>3. Owned(r, k)' => ~(r = tx.region /\ k \in ToAcquire)
    BY <1>1, <1>2 DEF Owned, Speculative
  <2> QED
    BY <1>2, <2>1, <2>2, <2>3 DEF Owned
<1>4. render'.rows = render.rows
  BY <1>0, <1>1, UploadFacts
<1>5. RenderRows'
  <2>1. FreeTables' = FreeTables
    BY <1>1 DEF FreeTables
  <2>2. ASSUME NEW r \in Regions, NEW k \in Bricks, tableOf[r] # None
        PROVE  /\ render.rows[tableOf[r]][k] \in {None, slotOf'[r][k]}
               /\ residency[r] # None /\ Owned(r, k)' =>
                    render.rows[tableOf[r]][k] = slotOf'[r][k]
    BY <1>3, <2>2 DEF RenderInv, RenderRows
  <2> QED
    BY <1>1, <1>4, <2>1, <2>2 DEF RenderInv, RenderRows
<1>6. \A j \in tx.bricks : row[j] \in Slots /\ row[j] # None /\ slotOf'[tx.region][j] = row[j]
  <2>1. ASSUME NEW j \in tx.bricks PROVE row[j] \in Slots /\ row[j] # None
    <3>1. CASE j \in ToAcquire
      BY <1>0, <3>1, AcquiredRow, SlotFacts
    <3>2. CASE j \notin ToAcquire
      <4>1. row[j] = slotOf[tx.region][j] /\ j \in DOMAIN tx.old
        <5>1. row[j] = slotOf[tx.region][j]
          BY <1>0, <3>2, AcquiredRow
        <5>2. j \in DOMAIN tx.old
          BY <3>2 DEF ToAcquire
        <5> QED
          BY <5>1, <5>2
      <4>2. slotOf[tx.region][j] # None
        BY <1>0, <4>1 DEF SlotInv, TxOwns
      <4> QED
        BY <1>0, <4>1, <4>2, SlotFacts
    <3> QED
      BY <3>1, <3>2
  <2> QED
    BY <1>1, <2>1
<1>7. OwnedSlots'
  BY SlotsAcquired
<1>8. ASSUME NEW r \in Regions, NEW k \in Bricks, slotOf'[r][k] # None
      PROVE  render'.bytes[slotOf'[r][k]] = Current(r, k)'
  <2>1. CASE r = tx.region /\ k \in tx.bricks
    <3>1. \A j \in tx.bricks : row[j] = row[k] => j = k
      BY <1>0, <1>6, <1>7, <2>1 DEF OwnedSlots
    <3>2. render'.bytes[row[k]] = tx.baked[k]
      BY <1>0, <1>1, <1>6, <2>1, <3>1, UploadFacts
    <3> QED
      BY <1>0, <1>1, <1>6, <2>1, <3>2 DEF Current
  <2>2. CASE ~(r = tx.region /\ k \in tx.bricks)
    <3>1. slotOf'[r][k] = slotOf[r][k] /\ slotOf[r][k] # None /\ slotOf[r][k] \in Slots
      BY <1>3, <1>8, <2>2, SlotFacts DEF ToAcquire
    <3>2. \A j \in tx.bricks : row[j] # slotOf[r][k]
      <4>1. ASSUME NEW j \in tx.bricks, row[j] = slotOf[r][k] PROVE FALSE
        <5>1. slotOf'[r][k] # None /\ slotOf'[r][k] = slotOf'[tx.region][j]
          BY <1>6, <3>1, <4>1
        <5> QED
          BY <1>0, <1>7, <2>2, <4>1, <5>1 DEF OwnedSlots
      <4> QED
        BY <4>1
    <3>3. render'.bytes[slotOf[r][k]] = render.bytes[slotOf[r][k]]
      BY <1>0, <1>1, <3>1, <3>2, UploadFacts
    <3>4. Current(r, k)' = cpu[slotOf[r][k]] /\ Current(r, k) = cpu[slotOf[r][k]]
      BY <1>0, <1>1, <2>2, <3>1 DEF Current
    <3> QED
      BY <3>1, <3>3, <3>4 DEF RenderInv, RenderBytes
  <2> QED
    BY <2>1, <2>2
<1> QED
  BY <1>5, <1>8 DEF RenderInv, RenderBytes

(* A region that is loaded gets its row, a replay gives every row.         *)
LEMMA RenderStays ==
  ASSUME SlotInv, RenderInv, NoReloadUnderPublication, [ConsNext]_vars, Stays
  PROVE  RenderInv'
<1>0. /\ render \in Mirror /\ slotOf \in [Regions -> Row] /\ PartsOK
      /\ tableOf \in [Regions -> Tables \cup {None}]
      /\ UNCHANGED <<slotOf, cpu, tableOf, tx>>
  BY TxFacts DEF SlotInv, PartsOK, Stays
<1>1. /\ FreeTables' = FreeTables
      /\ \A r \in Regions, k \in Bricks : Owned(r, k)' <=> Owned(r, k)
      /\ \A r \in Regions, k \in Bricks : Current(r, k)' = Current(r, k)
  BY <1>0 DEF FreeTables, Owned, Speculative, Fresh, Current, Using
<1>2. CASE UNCHANGED <<render, residency>>
  BY <1>0, <1>1, <1>2 DEF RenderInv, RenderRows, RenderBytes
<1>3. ASSUME NEW q \in Regions, Evict(q) PROVE RenderInv'
  <2>1. render' = render /\ \A r \in Regions : residency'[r] # None => residency[r] # None
    BY <1>0, <1>3 DEF Evict, PartsOK
  <2> QED
    BY <1>0, <1>1, <2>1 DEF RenderInv, RenderRows, RenderBytes
<1>4. ASSUME NEW q \in Regions, NEW rs \in RSlots, Load(q, rs) PROVE RenderInv'
  <2>1. /\ render' = SetRow(render, tableOf[q], slotOf[q])
        /\ \A r \in Regions : r # q => residency'[r] = residency[r]
    BY <1>0, <1>4 DEF Load, PartsOK
  <2>2. CASE tableOf[q] = None
    <3>1. render' = render
      BY <2>1, <2>2 DEF SetRow
    <3>2. \A r \in Regions : tableOf[r] # None => residency'[r] = residency[r]
      BY <2>1, <2>2
    <3> QED
      BY <1>0, <1>1, <3>1, <3>2 DEF RenderInv, RenderRows, RenderBytes
  <2>3. CASE tableOf[q] # None
    <3>1. tableOf[q] \in Tables /\ slotOf[q] \in Row /\ render \in Mirrors
      BY <1>0, <2>3 DEF Mirrors
    <3>2. /\ render'.bytes = render.bytes
          /\ \A u \in Tables : u # tableOf[q] => render'.rows[u] = render.rows[u]
          /\ \A k \in Bricks : render'.rows[tableOf[q]][k] =
                IF slotOf[q][k] # None THEN slotOf[q][k] ELSE render.rows[tableOf[q]][k]
      BY <2>1, <3>1, RowFacts
    <3>3. \A k \in Bricks : render'.rows[tableOf[q]][k] = slotOf[q][k]
      BY <2>3, <3>2 DEF RenderInv, RenderRows
    <3>4. \A r \in Regions : r # q /\ tableOf[r] # None =>
            tableOf[r] # tableOf[q] /\ tableOf[r] \in Tables
      BY <1>0 DEF SlotInv, OwnedSlots
    <3>5. \A t \in FreeTables : render'.rows[t] = NoRow
      BY <3>2 DEF RenderInv, RenderRows, FreeTables
    <3>6. ASSUME NEW r \in Regions, NEW k \in Bricks, tableOf[r] # None
          PROVE  /\ render'.rows[tableOf[r]][k] \in {None, slotOf[r][k]}
                 /\ residency'[r] # None /\ Owned(r, k) =>
                      render'.rows[tableOf[r]][k] = slotOf[r][k]
      <4>1. CASE r = q
        BY <3>3, <4>1
      <4>2. CASE r # q
        <5>1. render'.rows[tableOf[r]] = render.rows[tableOf[r]] /\ residency'[r] = residency[r]
          BY <2>1, <3>2, <3>4, <3>6, <4>2
        <5> QED
          BY <3>6, <5>1 DEF RenderInv, RenderRows
      <4> QED
        BY <4>1, <4>2
    <3>7. RenderRows'
      BY <1>0, <1>1, <3>5, <3>6 DEF RenderRows
    <3>8. RenderBytes'
      BY <1>0, <1>1, <3>2 DEF RenderInv, RenderBytes
    <3> QED
      BY <3>7, <3>8 DEF RenderInv
  <2> QED
    BY <2>2, <2>3
<1>5. CASE ReloadRender
  <2> DEFINE m == [render EXCEPT !.bytes = [s \in Slots |-> Blank]]
  <2>1. m \in Mirrors
    <3>1. Blank \in Content
      BY DEF Blank, Content
    <3> QED
      BY <1>0, <3>1 DEF Mirrors, Mirror
  <2>2. ~Using /\ render' = Replay(m, slotOf)
    BY <1>5 DEF ReloadRender, NoReloadUnderPublication, Using
  <2> HIDE DEF m
  <2>3. /\ \A r \in Regions, k \in Bricks : tableOf[r] # None /\ slotOf[r][k] # None =>
               render'.bytes[slotOf[r][k]] = cpu[slotOf[r][k]]
        /\ \A r \in Regions : tableOf[r] # None => render'.rows[tableOf[r]] = slotOf[r]
        /\ \A t \in FreeTables : render'.rows[t] = NoRow
    BY <1>0, <2>1, <2>2, ReplayFacts
  <2>4. \A r \in Regions, k \in Bricks : slotOf[r][k] # None => tableOf[r] # None
    BY <2>2 DEF SlotInv, OwnedSlots, Speculative, Fresh, Using
  <2>5. \A r \in Regions, k \in Bricks : Current(r, k) = cpu[slotOf[r][k]]
    BY <2>2 DEF Current
  <2>6. RenderRows'
    BY <1>0, <1>1, <2>3 DEF RenderRows
  <2>7. RenderBytes'
    BY <1>0, <1>1, <2>3, <2>4, <2>5 DEF RenderBytes
  <2> QED
    BY <2>6, <2>7 DEF RenderInv
<1>6. CASE /\ ~ReloadRender /\ \A q \in Regions : ~Evict(q)
           /\ \A q \in Regions, rs \in RSlots : ~Load(q, rs)
  <2>1. EditStep \/ WorkerStep \/ StartWorker \/ UNCHANGED vars => UNCHANGED <<render, residency>>
    BY DEF EditStep, StartBatch, SkipEdit, TakeEdit, WorkerStep, WorkerUpdate, WorkerBake,
      WorkerBakeFails, WorkerPublish, WorkerPublishFails, WorkerRestoreFails, StartWorker, vars,
      consVars
  <2>2. TeardownWorker => UNCHANGED <<render, residency>>
    BY <1>0 DEF TeardownWorker, Idle, NoTx
  <2>3. ~PumpStep
    <3>1. tx' # NoTx \/ tx.phase = "idle"
      BY <1>0 DEF NoTx
    <3>2. ~StartBake /\ \A pick : ~PumpBakeResult(pick)
      BY <1>0 DEF StartBake, PumpBakeResult, Idle, PartsOK, TxType
    <3>3. PumpStep => tx' = NoTx /\ tx.phase \in {"baked", "published"}
      BY <3>2 DEF PumpStep, PumpBakeFailed, PumpBakeMoved, PumpUploadFailed, PumpPublishFailed,
        PumpRebuild, PumpRebuildFailed, PumpPublishMoved, PumpCommit, Refuse
    <3> QED
      BY <3>1, <3>3
  <2> QED
    BY <1>2, <1>6, <2>1, <2>2, <2>3 DEF ConsNext, WorldStep
<1> QED
  BY <1>3, <1>4, <1>5, <1>6

(* Every step leaves the atlas with rows that name the store's slots, and  *)
(* with the bytes the store or the transaction has for each of them.       *)
LEMMA RenderStep ==
  ASSUME SlotInv, RenderInv, NoReloadUnderPublication, [ConsNext]_vars
  PROVE  RenderInv'
<1>0. PartsOK
  BY TxFacts DEF SlotInv
<1>1. CASE StartBake
  <2>1. /\ UNCHANGED <<slotOf, cpu, tableOf, render, residency>> /\ ~Using /\ ~Using'
        /\ \A r \in Regions, k \in Bricks : ~Speculative(r, k) /\ ~Speculative(r, k)'
    BY <1>1 DEF StartBake, store, Idle, Using, Speculative, Fresh
  <2> QED
    BY <2>1 DEF RenderInv, RenderRows, RenderBytes, FreeTables, Owned, Current
<1>2. CASE Works
  <2>1. UNCHANGED <<slotOf, cpu, tableOf>> /\ (Using' <=> Using)
    BY <1>2 DEF Works, Using
  <2>2. UNCHANGED <<render, residency>>
    <3>1. ~Idle' /\ ~Idle /\ tx' # tx
      BY <1>2 DEF Works, Idle
    <3>2. ~EditStep /\ ~WorldStep /\ ~UNCHANGED vars
      <4>1. EditStep \/ WorldStep \/ UNCHANGED vars => tx' = tx \/ tx' = NoTx
        BY DEF EditStep, StartBatch, SkipEdit, TakeEdit, WorldStep, Evict, Load, ReloadRender,
          TeardownWorker, StartWorker, vars, consVars
      <4>2. tx' # NoTx
        BY <3>1 DEF Idle, NoTx
      <4> QED
        BY <3>1, <4>1, <4>2
    <3>3. ~PumpStep
      <4>1. tx'.phase \in {"baked", "published"} /\ tx.phase \in {"baking", "publishing"}
        BY <1>2 DEF Works
      <4>2. ~StartBake /\ \A pick : ~PumpBakeResult(pick)
        BY <4>1 DEF StartBake, PumpBakeResult, Idle
      <4>3. ~PumpBakeFailed /\ ~PumpBakeMoved /\ ~PumpPublishFailed /\ ~PumpRebuild
            /\ ~PumpRebuildFailed /\ ~PumpPublishMoved /\ ~PumpCommit
        BY <4>1 DEF PumpBakeFailed, PumpBakeMoved, PumpPublishFailed, PumpRebuild,
          PumpRebuildFailed, PumpPublishMoved, PumpCommit
      <4>4. \A pick, done : ~PumpUploadFailed(pick, done)
        BY <4>1 DEF PumpUploadFailed
      <4> QED
        BY <4>2, <4>3, <4>4 DEF PumpStep
    <3>4. WorkerStep => UNCHANGED <<render, residency>>
      BY DEF WorkerStep, WorkerUpdate, WorkerBake, WorkerBakeFails, WorkerPublish,
        WorkerPublishFails, WorkerRestoreFails
    <3> QED
      BY <3>2, <3>3, <3>4 DEF ConsNext
  <2>3. /\ tx'.region = tx.region /\ tx'.bricks = tx.bricks /\ tx'.old = tx.old
        /\ Using => tx'.baked = tx.baked
    BY <1>2 DEF Works, Using
  <2>4. \A r \in Regions, k \in Bricks : Speculative(r, k)' <=> Speculative(r, k)
    BY <2>1, <2>3 DEF Speculative, Fresh, Using
  <2> QED
    BY <2>1, <2>2, <2>3, <2>4 DEF RenderInv, RenderRows, RenderBytes, FreeTables, Owned, Current
<1>3. CASE PumpCommit
  BY <1>3, RenderCommitted
<1>4. ASSUME NEW pick \in Injection(ToAcquire, FreeSlots), PumpBakeResult(pick) PROVE RenderInv'
  BY <1>4, RenderAcquired
<1>5. CASE Released /\ ~PumpCommit
  BY <1>5, RenderReleased
<1>6. CASE Stays
  BY <1>6, RenderStays
<1> QED
  BY <1>1, <1>2, <1>3, <1>4, <1>5, <1>6, StepKinds

(* A resident region is drawn with every edit, at every moment of a        *)
(* transaction and after every rollback.                                   *)
THEOREM AtlasShowsEveryEdit ==
  ASSUME NoLoadBehindFailure, NoReloadUnderPublication
  PROVE  ConsSpec => []RenderShowsTheWorld
<1>1. ConsInit => ReaderInv /\ RenderInv
  <2> SUFFICES ASSUME ConsInit PROVE RenderInv
    BY ReaderInit
  <2>1. /\ slotOf = [r \in Regions |-> NoRow] /\ tableOf = [r \in Regions |-> None]
        /\ render.rows = [t \in Tables |-> NoRow]
    BY DEF ConsInit
  <2> QED
    BY <2>1 DEF RenderInv, RenderRows, RenderBytes, FreeTables, NoRow
<1>2. ReaderInv /\ RenderInv /\ [ConsNext]_vars => ReaderInv' /\ RenderInv'
  BY ReaderStep, RenderStep DEF ReaderInv
<1>3. ReaderInv /\ RenderInv => RenderShowsTheWorld
  <2> SUFFICES ASSUME ReaderInv, RenderInv, NEW r \in Regions, NEW k \in Bricks,
                      residency[r] # None
               PROVE  Shows(Base(render, tableOf[r], r, k), r, k)
    BY DEF RenderShowsTheWorld
  <2>1. Shows(CommittedBase(r, k), r, k) /\ SlotInv
    BY DEF ReaderInv, CommittedShows
  <2>2. CASE ~Owned(r, k)
    <3>1. CommittedBase(r, k) = Terrain(r, k)
      BY <2>2 DEF Owned, CommittedBase, CpuBase
    <3>2. CASE Base(render, tableOf[r], r, k) = Terrain(r, k)
      BY <2>1, <3>1, <3>2
    <3>3. CASE Base(render, tableOf[r], r, k) # Terrain(r, k)
      <4>1. /\ tableOf[r] # None /\ render.rows[tableOf[r]][k] # None
            /\ Base(render, tableOf[r], r, k) = render.bytes[render.rows[tableOf[r]][k]]
        BY <3>3 DEF Base
      <4>2. render.rows[tableOf[r]][k] = slotOf[r][k] /\ slotOf[r][k] # None
        BY <4>1 DEF RenderInv, RenderRows
      <4>3. Speculative(r, k)
        BY <2>2, <4>2 DEF Owned
      <4>4. Using /\ r = tx.region /\ k \in tx.bricks
        BY <4>3 DEF Speculative, Fresh, Using
      <4>5. render.bytes[slotOf[r][k]] = tx.baked[k]
        BY <4>2, <4>4 DEF RenderInv, RenderBytes, Current
      <4> QED
        BY <4>1, <4>2, <4>4, <4>5 DEF ReaderInv, BakedShows, HasBytes
    <3> QED
      BY <3>2, <3>3
  <2>3. CASE Owned(r, k)
    <3>1. tableOf[r] # None /\ slotOf[r][k] # None /\ ~Speculative(r, k)
      BY <2>1, <2>3 DEF Owned, SlotInv, OwnedSlots
    <3>2. render.rows[tableOf[r]][k] = slotOf[r][k]
      BY <2>3, <3>1 DEF RenderInv, RenderRows
    <3>3. Base(render, tableOf[r], r, k) = Current(r, k)
      BY <3>1, <3>2 DEF Base, RenderInv, RenderBytes
    <3>4. CASE Using /\ r = tx.region /\ k \in tx.bricks
      BY <3>3, <3>4 DEF Current, ReaderInv, BakedShows, HasBytes
    <3>5. CASE ~(Using /\ r = tx.region /\ k \in tx.bricks)
      BY <2>1, <3>1, <3>3, <3>5 DEF Current, CommittedBase, CpuBase
    <3> QED
      BY <3>4, <3>5
  <2> QED
    BY <2>2, <2>3
<1> QED
  BY <1>1, <1>2, <1>3, PTL DEF ConsSpec

-----------------------------------------------------------------------------
(* The allocator of the stored normals, for any budget, unit, sizes and    *)
(* alignments.                                                             *)
(*                                                                         *)
(* The two safety properties hold up each other: that free blocks do not   *)
(* touch is kept by a release only because no two of them overlap, and     *)
(* that no byte is lost because what is merged lies side by side.  Sound   *)
(* says both of a heap; with the types and with what handles there are it  *)
(* is inductive.                                                           *)


(* Free blocks have a byte in use between them.                            *)
Separate(a, b) == End(a) < b.offset \/ End(b) < a.offset

HeapType(h) ==
  h \in [free : SUBSET Blocks, live : SUBSET Handles,
         generations : [Offsets -> 0..MaxGeneration], used : Int, highWater : Int]

InBounds(S) == \A b \in S : End(b) <= Capacity
Covers(S) == \A x \in Offsets : \E b \in S : b.offset <= x /\ x < End(b)
LiveApart(L) == \A a, b \in L : a # b => Apart(a, b)
MixedApart(L, F) == \A a \in L, b \in F : Apart(a, b)
FreeSeparate(F) == \A a, b \in F : a # b => Separate(a, b)

Sound(L, F) ==
  /\ InBounds(L \cup F)
  /\ Covers(L \cup F)
  /\ LiveApart(L)
  /\ MixedApart(L, F)
  /\ FreeSeparate(F)

HeapInv ==
  /\ HeapType(heap)
  /\ Sound(heap.live, heap.free)
  /\ handed \subseteq Handles
  /\ held \subseteq handed
  /\ heap.live = held
  /\ \A a \in handed : a.generation <= heap.generations[a.offset]

-----------------------------------------------------------------------------
(* Arithmetic                                                              *)

(* round_up() and align_up() never go below their argument.                *)
LEMMA RoundUpIsAbove ==
  ASSUME NEW v \in Nat, NEW u \in Nat \ {0}
  PROVE  RoundUp(v, u) \in Nat /\ RoundUp(v, u) >= v
  BY Z3 DEF RoundUp

(* They give the first multiple: no aligned place lies between.            *)
LEMMA RoundUpIsFirst ==
  ASSUME NEW v \in Nat, NEW u \in Nat \ {0}, NEW x \in Nat, x >= v, x % u = 0
  PROVE  RoundUp(v, u) <= x
  <1>1. u * ((v + u - 1) \div u) <= v + u - 1 /\ (v + u - 1) \div u \in Int
    BY Z3
  <1>2. x = u * (x \div u) /\ x \div u \in Int
    BY Z3
  <1> DEFINE q == (v + u - 1) \div u
             p == x \div u
  <1>3. u * q <= v + u - 1 /\ x = u * p /\ q \in Int /\ p \in Int
    BY <1>1, <1>2
  <1> HIDE DEF q, p
  <1>4. u * q < u * p + u
    BY <1>3
  <1>5. q < p + 1
    BY <1>3, <1>4, Z3
  <1>6. u * q <= u * p
    BY <1>3, <1>5, Z3
  <1> QED
    BY <1>3, <1>6, Z3 DEF RoundUp, q

(* The capacity is what the budget holds of whole units.                   *)
LEMMA CapacityType == Capacity \in Nat
  BY AllocatorAssumption, Z3 DEF Capacity

(* The sizes and alignments the allocator works with.                      *)
LEMMA RoundedTypes ==
  /\ \A bytes \in Nat : Size(bytes) \in Nat
  /\ \A alignment \in Nat : Alignment(alignment) \in Nat \ {0}
  <1>1. Unit \in Nat \ {0}
    BY AllocatorAssumption
  <1>2. ASSUME NEW a \in Nat PROVE Alignment(a) \in Nat \ {0}
    <2>1. Larger(a, Unit) \in Nat \ {0}
      BY <1>1 DEF Larger
    <2> QED
      BY <1>1, <2>1, RoundUpIsAbove DEF Alignment
  <1> QED
    BY <1>1, <1>2, RoundUpIsAbove DEF Size

-----------------------------------------------------------------------------
(* A range is taken                                                        *)

(* Taking a range out of a block that fits leaves every byte where it was, *)
(* in use or free, and puts the range between what is left of the block.   *)
LEMMA TakeIsSound ==
  ASSUME NEW L \in SUBSET Handles, NEW F \in SUBSET Blocks, Sound(L, F),
         NEW b \in F, NEW size \in 1..Capacity, NEW start \in Nat,
         b.offset <= start, start + size <= End(b),
         NEW a \in Handles, a.offset = start, a.size = size
  PROVE  /\ Fragments(b, start, size) \subseteq Blocks
         /\ Sound(L \cup {a}, (F \ {b}) \cup Fragments(b, start, size))
  <1> USE CapacityType
  <1>1. /\ \A l \in L : l.offset \in Nat /\ l.size \in Nat \ {0} /\ l.offset < Capacity
        /\ \A f \in F : f.offset \in Nat /\ f.size \in Nat \ {0} /\ f.offset < Capacity
    BY DEF Handles, Blocks, Offsets
  <1>2. End(b) <= Capacity /\ End(a) = start + size /\ End(b) = b.offset + b.size
    BY DEF Sound, InBounds, End
  <1> DEFINE G == Fragments(b, start, size)
             F2 == (F \ {b}) \cup G
  <1>3. \A g \in G : /\ g \in Blocks
                    /\ \/ g.offset = b.offset /\ End(g) = start
                       \/ g.offset = start + size /\ End(g) = End(b)
    BY <1>1, <1>2 DEF Fragments, Blocks, Offsets, End
  <1>4. /\ b.offset < start => \E g \in G : g.offset = b.offset /\ End(g) = start
        /\ start + size < End(b) => \E g \in G : g.offset = start + size /\ End(g) = End(b)
    <2> DEFINE front == [offset |-> b.offset, size |-> start - b.offset]
               back == [offset |-> start + size, size |-> End(b) - (start + size)]
    <2>1. /\ front.offset = b.offset /\ End(front) = start
          /\ back.offset = start + size /\ End(back) = End(b)
      BY <1>1, <1>2 DEF End
    <2>2. ASSUME b.offset < start PROVE front \in G
      BY <1>1, <2>2 DEF Fragments
    <2>3. ASSUME start + size < End(b) PROVE back \in G
      BY <1>1, <1>2, <2>3 DEF Fragments
    <2> HIDE DEF G, front, back
    <2> QED
      BY <2>1, <2>2, <2>3
  <1>5. \A g, h \in G : g # h => Separate(g, h)
    BY <1>1, <1>2 DEF Fragments, End, Separate
  <1>6. \A g \in G : g.offset \in Nat /\ g.size \in Nat \ {0} /\ End(g) = g.offset + g.size
    BY <1>3 DEF Blocks, Offsets, End
  <1> HIDE DEF G
  <1>7. InBounds(L \cup {a} \cup F2)
    BY <1>1, <1>2, <1>3 DEF Sound, InBounds
  <1>8. Covers(L \cup {a} \cup F2)
    <2> SUFFICES ASSUME NEW x \in Offsets
                 PROVE  \E c \in L \cup {a} \cup F2 : c.offset <= x /\ x < End(c)
      BY DEF Covers
    <2>1. PICK c \in L \cup F : c.offset <= x /\ x < End(c)
      BY DEF Sound, Covers
    <2>2. CASE c # b
      BY <2>1, <2>2
    <2>3. CASE c = b
      <3>1. CASE x < start
        <4>1. b.offset < start
          BY <2>1, <2>3, <3>1, <1>1 DEF Offsets
        <4>2. PICK g \in G : g.offset = b.offset /\ End(g) = start
          BY <4>1, <1>4
        <4> QED
          BY <2>1, <2>3, <3>1, <4>2
      <3>2. CASE start <= x /\ x < start + size
        BY <1>2, <3>2
      <3>3. CASE start + size <= x
        BY <2>1, <2>3, <3>3, <1>2, <1>1, <1>4 DEF Offsets
      <3> QED
        BY <3>1, <3>2, <3>3 DEF Offsets
    <2> QED
      BY <2>2, <2>3
  <1>9. LiveApart(L \cup {a})
    <2>1. \A l \in L : Apart(l, a) /\ Apart(a, l)
      BY <1>1, <1>2 DEF Sound, MixedApart, Apart, End
    <2> QED
      BY <2>1 DEF Sound, LiveApart
  <1>10. MixedApart(L \cup {a}, F2)
    <2>1. \A l \in L, g \in G : Apart(l, g)
      BY <1>1, <1>2, <1>3, <1>6 DEF Sound, MixedApart, Apart, End
    <2>2. \A f \in F \ {b} : Apart(a, f)
      BY <1>1, <1>2 DEF Sound, FreeSeparate, Separate, Apart, End
    <2>3. \A g \in G : Apart(a, g)
      BY <1>2, <1>3, <1>6 DEF Apart
    <2> QED
      BY <2>1, <2>2, <2>3 DEF Sound, MixedApart
  <1>11. FreeSeparate(F2)
    <2>1. \A g \in G, f \in F \ {b} : Separate(g, f) /\ Separate(f, g)
      BY <1>1, <1>2, <1>3, <1>6 DEF Sound, FreeSeparate, Separate, End
    <2> QED
      BY <1>5, <2>1 DEF Sound, FreeSeparate
  <1> QED
    BY <1>3, <1>7, <1>8, <1>9, <1>10, <1>11 DEF Sound, G

-----------------------------------------------------------------------------
(* A range is given back                                                   *)

(* A range given back becomes one block with the free blocks it touches,   *)
(* and touches no other.                                                   *)
LEMMA CoalescedIsSound ==
  ASSUME NEW h, HeapType(h), Sound(h.live, h.free), NEW a \in h.live
  PROVE  /\ Coalesced(h, a) \subseteq Blocks
         /\ Sound(h.live \ {a}, Coalesced(h, a))
  <1> USE CapacityType
  <1> DEFINE L == h.live
             F == h.free
             start == MergedStart(h, a)
             stop == MergedEnd(h, a)
             m == [offset |-> start, size |-> stop - start]
             Gone == Before(h, a) \cup Behind(h, a)
             F2 == (F \ Gone) \cup {m}
  <1>1. /\ \A l \in L : l.offset \in Nat /\ l.size \in Nat \ {0} /\ l.offset < Capacity
        /\ \A f \in F : f.offset \in Nat /\ f.size \in Nat \ {0} /\ f.offset < Capacity
        /\ \A c \in L \cup F : End(c) = c.offset + c.size /\ End(c) <= Capacity
    BY DEF HeapType, Handles, Blocks, Offsets, Sound, InBounds, End
  <1>2. /\ \A c, d \in L : c # d => Apart(c, d)
        /\ \A c \in L, d \in F : Apart(c, d)
        /\ \A c, d \in F : c # d => Separate(c, d)
        /\ \A x \in Offsets : \E c \in L \cup F : c.offset <= x /\ x < End(c)
    BY DEF Sound, LiveApart, MixedApart, FreeSeparate, Covers
  <1>3. /\ start \in Nat /\ start <= a.offset
        /\ Before(h, a) = {} => start = a.offset
        /\ \A f \in Before(h, a) : f.offset = start /\ f \in F /\ End(f) = a.offset
    <2>1. \A f, g \in Before(h, a) : f = g /\ f \in F /\ End(f) = a.offset
      BY <1>1, <1>2 DEF Before, Separate
    <2>2. CASE Before(h, a) = {}
      BY <2>2, <1>1 DEF MergedStart
    <2>3. CASE Before(h, a) # {}
      BY <2>1, <2>3, <1>1 DEF MergedStart
    <2> QED
      BY <2>2, <2>3
  <1>4. /\ stop \in Nat /\ End(a) <= stop /\ stop <= Capacity
        /\ Behind(h, a) = {} => stop = End(a)
        /\ \A f \in Behind(h, a) : End(f) = stop /\ f \in F /\ f.offset = End(a)
    <2>1. \A f, g \in Behind(h, a) : f = g /\ f \in F /\ f.offset = End(a)
      BY <1>1, <1>2 DEF Behind, Separate
    <2>2. CASE Behind(h, a) = {}
      BY <2>2, <1>1 DEF MergedEnd
    <2>3. CASE Behind(h, a) # {}
      BY <2>1, <2>3, <1>1 DEF MergedEnd
    <2> QED
      BY <2>2, <2>3
  <1>5. \A f \in F \ Gone : End(f) # a.offset /\ f.offset # End(a)
    BY DEF Before, Behind
  <1> HIDE DEF start, stop
  <1>6. /\ m \in Blocks /\ m.offset = start /\ End(m) = stop
    BY <1>1, <1>3, <1>4 DEF Blocks, Offsets, End
  <1>7. \A f \in F \ Gone : Separate(f, m) /\ Separate(m, f)
    <2> SUFFICES ASSUME NEW f \in F \ Gone
                 PROVE  End(f) < start \/ stop < f.offset
      BY <1>6 DEF Separate
    <2>1. CASE End(f) <= a.offset
      <3>1. End(f) < a.offset
        BY <2>1, <1>5, <1>1
      <3>2. CASE Before(h, a) = {}
        BY <3>1, <3>2, <1>3
      <3>3. ASSUME NEW g \in Before(h, a) PROVE End(f) < start
        <4>1. f # g /\ g \in F /\ g.offset = start /\ End(g) = a.offset
          BY <3>3, <1>3
        <4> QED
          BY <4>1, <3>1, <1>1, <1>2 DEF Separate
      <3> QED
        BY <3>2, <3>3
    <2>2. CASE End(a) <= f.offset
      <3>1. End(a) < f.offset
        BY <2>2, <1>5, <1>1
      <3>2. CASE Behind(h, a) = {}
        BY <3>1, <3>2, <1>4
      <3>3. ASSUME NEW g \in Behind(h, a) PROVE stop < f.offset
        <4>1. f # g /\ g \in F /\ g.offset = End(a) /\ End(g) = stop
          BY <3>3, <1>4
        <4> QED
          BY <4>1, <3>1, <1>1, <1>2 DEF Separate
      <3> QED
        BY <3>2, <3>3
    <2> QED
      BY <2>1, <2>2, <1>2 DEF Apart
  <1>8. \A l \in L \ {a} : Apart(l, m)
    <2> SUFFICES ASSUME NEW l \in L \ {a}
                 PROVE  End(l) <= start \/ stop <= l.offset
      BY <1>6 DEF Apart
    <2>1. CASE End(l) <= a.offset
      <3>1. CASE Before(h, a) = {}
        BY <2>1, <3>1, <1>3
      <3>2. ASSUME NEW g \in Before(h, a) PROVE End(l) <= start
        <4>1. g \in F /\ g.offset = start /\ End(g) = a.offset
          BY <3>2, <1>3
        <4> QED
          BY <4>1, <2>1, <1>1, <1>2 DEF Apart
      <3> QED
        BY <3>1, <3>2
    <2>2. CASE End(a) <= l.offset
      <3>1. CASE Behind(h, a) = {}
        BY <2>2, <3>1, <1>4
      <3>2. ASSUME NEW g \in Behind(h, a) PROVE stop <= l.offset
        <4>1. g \in F /\ g.offset = End(a) /\ End(g) = stop
          BY <3>2, <1>4
        <4> QED
          BY <4>1, <2>2, <1>1, <1>2 DEF Apart
      <3> QED
        BY <3>1, <3>2
    <2> QED
      BY <2>1, <2>2, <1>2 DEF Apart
  <1>9. Covers((L \ {a}) \cup F2)
    <2> SUFFICES ASSUME NEW x \in Offsets
                 PROVE  \E c \in (L \ {a}) \cup F2 : c.offset <= x /\ x < End(c)
      BY DEF Covers
    <2>1. PICK c \in L \cup F : c.offset <= x /\ x < End(c)
      BY <1>2
    <2>2. CASE c \in (L \ {a}) \cup (F \ Gone)
      BY <2>1, <2>2
    <2>3. CASE c \in {a} \cup Gone
      <3>1. start <= c.offset /\ End(c) <= stop
        BY <2>3, <1>1, <1>3, <1>4
      <3> QED
        BY <3>1, <2>1, <1>1, <1>3, <1>4, <1>6 DEF Offsets
    <2> QED
      BY <2>2, <2>3
  <1>10. InBounds((L \ {a}) \cup F2)
    BY <1>1, <1>4, <1>6 DEF InBounds
  <1>11. F2 \subseteq Blocks
    BY <1>6 DEF HeapType
  <1> HIDE DEF m
  <1>12. Sound(L \ {a}, F2)
    BY <1>2, <1>7, <1>8, <1>9, <1>10 DEF Sound, LiveApart, MixedApart, FreeSeparate
  <1> QED
    BY <1>11, <1>12 DEF Coalesced, m, start, stop

-----------------------------------------------------------------------------
(* The specification                                                       *)

(* An allocation keeps the invariant: its range lies inside the block it   *)
(* was found in, and no live range starts there.                           *)
LEMMA AllocateKeepsHeapInv ==
  ASSUME HeapInv, NEW bytes \in Sizes, NEW alignment \in Alignments,
         Allocate(bytes, alignment)
  PROVE  /\ HeapInv'
         /\ \A a \in heap'.live \ heap.live, b \in handed :
               a.offset = b.offset => b.generation < a.generation
  <1> USE CapacityType
  <1> DEFINE size == Size(bytes)
             align == Alignment(alignment)
  <1>1. size \in 1..Capacity /\ align \in Nat \ {0}
    BY AllocatorAssumption, RoundedTypes DEF Allocate, CanAllocate
  <1>2. PICK b \in FirstFit(heap, bytes, alignment) :
           /\ Taken(heap, b, size, align).generation <= MaxGeneration
           /\ heap' = TakeRange(heap, b, size, align)
           /\ handed' = handed \cup {Taken(heap, b, size, align)}
           /\ held' = held \cup {Taken(heap, b, size, align)}
    BY DEF Allocate
  <1> DEFINE start == Start(b, align)
             a == Taken(heap, b, size, align)
  <1>3. b \in heap.free /\ b \in Blocks /\ start + size <= End(b)
    BY DEF FirstFit, FittingBlocks, Fits, HeapInv, HeapType
  <1>4. /\ b.offset \in Nat /\ b.offset <= start /\ start \in Nat
        /\ End(b) = b.offset + b.size /\ End(b) <= Capacity /\ b.size \in Nat
    <2>1. b.offset \in Nat /\ b.size \in Nat /\ End(b) = b.offset + b.size
      BY <1>3 DEF Blocks, Offsets, End
    <2>2. End(b) <= Capacity
      BY <1>3 DEF HeapInv, Sound, InBounds
    <2>3. b.offset <= start /\ start \in Nat
      BY <1>1, <2>1, RoundUpIsAbove DEF Start
    <2> QED
      BY <2>1, <2>2, <2>3
  <1>5. start \in Offsets
    BY <1>1, <1>3, <1>4 DEF Offsets
  <1>6. heap.generations[start] \in 0..MaxGeneration /\ MaxGeneration \in Nat
    BY <1>5, AllocatorAssumption DEF HeapInv, HeapType
  <1>7. /\ a \in Handles /\ a.offset = start /\ a.size = size
        /\ a.generation = heap.generations[start] + 1
    BY <1>1, <1>2, <1>5, <1>6 DEF Taken, Handles
  <1>8. \A l \in heap.live : l.offset # start
    <2> SUFFICES ASSUME NEW l \in heap.live, l.offset = start PROVE FALSE
      OBVIOUS
    <2>1. l.size \in Nat \ {0} /\ End(l) = l.offset + l.size
      BY DEF HeapInv, HeapType, Handles, End
    <2>2. Apart(l, b)
      BY <1>3 DEF HeapInv, Sound, MixedApart
    <2> QED
      BY <2>1, <2>2, <1>1, <1>3, <1>4 DEF Apart
  <1>9. /\ heap'.live = heap.live \cup {a}
        /\ heap'.free = (heap.free \ {b}) \cup Fragments(b, start, size)
        /\ heap'.generations = [heap.generations EXCEPT ![start] = a.generation]
        /\ heap'.used = heap.used + size
        /\ heap'.highWater = Larger(heap.highWater, heap.used + size)
    BY <1>2, <1>8 DEF TakeRange, Taken
  <1>10. heap.live \in SUBSET Handles /\ heap.free \in SUBSET Blocks
    BY DEF HeapInv, HeapType
  <1>11. /\ Fragments(b, start, size) \subseteq Blocks
         /\ Sound(heap.live \cup {a}, (heap.free \ {b}) \cup Fragments(b, start, size))
    <2>1. Sound(heap.live, heap.free)
      BY DEF HeapInv
    <2> HIDE DEF start, size, align, a
    <2> QED
      BY <2>1, <1>1, <1>3, <1>4, <1>7, <1>10, TakeIsSound
  <1> HIDE DEF start, size, align, a
  <1>12. HeapType(heap')
    <2>1. heap' = [free |-> heap'.free, live |-> heap'.live, generations |-> heap'.generations,
                   used |-> heap'.used, highWater |-> heap'.highWater]
      BY <1>2 DEF TakeRange
    <2>2. heap'.live \in SUBSET Handles /\ heap'.free \in SUBSET Blocks
      BY <1>7, <1>9, <1>10, <1>11
    <2>3. heap'.generations \in [Offsets -> 0..MaxGeneration]
      BY <1>2, <1>5, <1>6, <1>7, <1>9 DEF HeapInv, HeapType, a
    <2>4. heap'.used \in Int /\ heap'.highWater \in Int
      BY <1>1, <1>9 DEF HeapInv, HeapType, Larger
    <2> QED
      BY <2>1, <2>2, <2>3, <2>4 DEF HeapType
  <1>13. /\ handed' \subseteq Handles /\ held' \subseteq handed' /\ heap'.live = held'
    BY <1>2, <1>7, <1>9 DEF HeapInv, a
  <1>14. \A c \in handed' : c.generation <= heap'.generations[c.offset]
    <2> SUFFICES ASSUME NEW c \in handed' PROVE c.generation <= heap'.generations[c.offset]
      OBVIOUS
    <2>1. c \in Handles
      BY <1>13
    <2>2. c.offset \in Offsets /\ c.generation \in 1..MaxGeneration
      BY <2>1 DEF Handles
    <2>3. /\ heap.generations \in [Offsets -> 0..MaxGeneration]
          /\ c = a \/ c.generation <= heap.generations[c.offset]
      BY <1>2 DEF HeapInv, HeapType, a
    <2> QED
      BY <2>2, <2>3, <1>5, <1>6, <1>7, <1>9
  <1>15. \A c \in heap'.live \ heap.live, d \in handed :
            c.offset = d.offset => d.generation < c.generation
    <2>1. \A c \in heap'.live \ heap.live : c = a
      BY <1>9
    <2>2. \A d \in handed : d.generation <= heap.generations[d.offset] /\ d.generation \in Int
      BY DEF HeapInv, Handles
    <2> QED
      BY <2>1, <2>2, <1>6, <1>7
  <1> QED
    BY <1>9, <1>11, <1>12, <1>13, <1>14, <1>15 DEF HeapInv

(* A release keeps the invariant, whatever handle it is given: what it     *)
(* accepts is the live range of that offset.                               *)
LEMMA ReleaseKeepsHeapInv ==
  ASSUME HeapInv, NEW a \in handed, Release(a)
  PROVE  HeapInv' /\ heap'.live \subseteq heap.live
  <1> USE CapacityType
  <1>1. /\ a \in heap.live /\ heap' = ReleaseIn(heap, a)
        /\ held' = held \ {a} /\ handed' = handed
    BY DEF Release, CanRelease
  <1>2. \A l \in heap.live : l.offset = a.offset => l = a
    <2> SUFFICES ASSUME NEW l \in heap.live, l.offset = a.offset, l # a PROVE FALSE
      OBVIOUS
    <2>1. /\ l.size \in Nat \ {0} /\ End(l) = l.offset + l.size /\ l.offset \in Nat
          /\ a.size \in Nat \ {0} /\ End(a) = a.offset + a.size
      BY <1>1 DEF HeapInv, HeapType, Handles, Offsets, End
    <2>2. Apart(l, a)
      BY <1>1 DEF HeapInv, Sound, LiveApart
    <2> QED
      BY <2>1, <2>2 DEF Apart
  <1>3. heap = [free |-> heap.free, live |-> heap.live, generations |-> heap.generations,
                used |-> heap.used, highWater |-> heap.highWater]
    BY DEF HeapInv, HeapType
  <1>4. heap' = [free |-> Coalesced(heap, a), live |-> heap.live \ {a},
                 generations |-> heap.generations,
                 used |-> heap.used - a.size, highWater |-> heap.highWater]
    BY <1>1, <1>2, <1>3 DEF ReleaseIn
  <1>5. HeapType(heap) /\ Sound(heap.live, heap.free)
    BY DEF HeapInv
  <1>6. /\ Coalesced(heap, a) \subseteq Blocks
        /\ Sound(heap.live \ {a}, Coalesced(heap, a))
    BY <1>1, <1>5, CoalescedIsSound
  <1>7. heap.used - a.size \in Int
    BY <1>1, <1>5 DEF HeapType, Handles
  <1>8. HeapType(heap')
    BY <1>4, <1>5, <1>6, <1>7 DEF HeapType
  <1> QED
    BY <1>1, <1>4, <1>6, <1>8 DEF HeapInv

(* A new allocator is one free block, or none when its budget is less than *)
(* a unit.                                                                 *)
LEMMA InitMakesHeapInv == Init => HeapInv
  <1> SUFFICES ASSUME Init PROVE HeapInv
    OBVIOUS
  <1>1. Capacity \in Nat /\ MaxGeneration \in Nat
    BY CapacityType, AllocatorAssumption
  <1>2. heap.live = {} /\ handed = {} /\ held = {}
    BY DEF Init, NewHeap
  <1>3. HeapType(heap)
    BY <1>1 DEF Init, NewHeap, HeapType, Blocks, Offsets
  <1>4. Sound({}, heap.free)
    <2>1. CASE Capacity > 0
      <3>1. heap.free = {[offset |-> 0, size |-> Capacity]}
        BY <2>1 DEF Init, NewHeap
      <3> QED
        BY <1>1, <3>1 DEF Sound, InBounds, Covers, LiveApart, MixedApart, FreeSeparate, Offsets, End
    <2>2. CASE Capacity = 0
      <3>1. heap.free = {} /\ Offsets = {}
        BY <2>2 DEF Init, NewHeap, Offsets
      <3> QED
        BY <3>1 DEF Sound, InBounds, Covers, LiveApart, MixedApart, FreeSeparate
    <2> QED
      BY <1>1, <2>1, <2>2
  <1> QED
    BY <1>2, <1>3, <1>4 DEF HeapInv

(* The invariant is inductive.                                             *)
LEMMA NextKeepsHeapInv == HeapInv /\ [Next]_rangeVars => HeapInv'
  <1> SUFFICES ASSUME HeapInv, [Next]_rangeVars PROVE HeapInv'
    OBVIOUS
  <1>1. CASE \E bytes \in Sizes, alignment \in Alignments : Allocate(bytes, alignment)
    BY <1>1, AllocateKeepsHeapInv
  <1>2. CASE \E a \in handed : Release(a)
    BY <1>2, ReleaseKeepsHeapInv
  <1>3. CASE UNCHANGED rangeVars
    BY <1>3 DEF rangeVars, HeapInv
  <1> QED
    BY <1>1, <1>2, <1>3 DEF Next

(* The invariant says what the allocator promises of its bytes.            *)
LEMMA HeapInvIsSafe ==
  HeapInv => TypeOK /\ EveryByteOnce /\ FreeBlocksDoNotTouch /\ HeldIsLive
  <1> SUFFICES ASSUME HeapInv
               PROVE  TypeOK /\ EveryByteOnce /\ FreeBlocksDoNotTouch /\ HeldIsLive
    OBVIOUS
  <1>1. \A f \in heap.free : /\ f.offset \in Nat /\ f.size \in Nat \ {0}
                             /\ End(f) = f.offset + f.size
    BY CapacityType DEF HeapInv, HeapType, Blocks, Offsets, End
  <1>2. \A f, g \in heap.free : f # g => Separate(f, g)
    BY DEF HeapInv, Sound, FreeSeparate
  <1>3. TypeOK /\ HeldIsLive
    BY DEF HeapInv, HeapType, TypeOK, HeldIsLive
  <1>4. FreeBlocksDoNotTouch
    <2> SUFFICES ASSUME NEW f \in heap.free, NEW g \in heap.free PROVE End(f) # g.offset
      BY DEF FreeBlocksDoNotTouch
    <2>1. CASE f = g
      BY <2>1, <1>1
    <2>2. CASE f # g
      BY <2>2, <1>1, <1>2 DEF Separate
    <2> QED
      BY <2>1, <2>2
  <1>5. \A f, g \in heap.free : f # g => Apart(f, g)
    BY <1>1, <1>2 DEF Separate, Apart
  <1> QED
    BY <1>3, <1>4, <1>5
    DEF HeapInv, Sound, InBounds, Covers, LiveApart, MixedApart, EveryByteOnce

(* A run no live range meets lies in one free block: the block its first   *)
(* byte lies in cannot end inside the run, for the byte behind it would be *)
(* of a block that touches it.                                             *)
LEMMA HeapInvFindsRoom == HeapInv => RefusedOnlyWhenFull
  <1> SUFFICES ASSUME HeapInv,
                      NEW bytes \in Sizes, NEW alignment \in Alignments, NEW start \in Offsets,
                      start % Alignment(alignment) = 0,
                      Size(bytes) > 0, start + Size(bytes) <= Capacity,
                      \A a \in heap.live : Apart(a, [offset |-> start, size |-> Size(bytes)])
               PROVE  CanAllocate(heap, bytes, alignment)
    BY DEF RefusedOnlyWhenFull
  <1> USE CapacityType
  <1> DEFINE size == Size(bytes)
             align == Alignment(alignment)
  <1>1. size \in Nat \ {0} /\ align \in Nat \ {0} /\ start \in Nat
    BY AllocatorAssumption, RoundedTypes DEF Offsets
  <1>2. \A a \in heap.live : End(a) <= start \/ start + size <= a.offset
    BY DEF Apart, End
  <1>3. start + size <= Capacity /\ start % align = 0
    OBVIOUS
  <1> HIDE DEF size, align
  <1>4. \A c \in heap.live \cup heap.free :
           /\ c.offset \in Nat /\ c.size \in Nat \ {0} /\ End(c) = c.offset + c.size
    BY DEF HeapInv, HeapType, Handles, Blocks, Offsets, End
  <1>5. \A x \in Offsets : \E c \in heap.live \cup heap.free : c.offset <= x /\ x < End(c)
    BY DEF HeapInv, Sound, Covers
  <1>6. PICK c \in heap.free : c.offset <= start /\ start < End(c)
    <2>1. PICK c \in heap.live \cup heap.free : c.offset <= start /\ start < End(c)
      BY <1>5
    <2>2. c \notin heap.live
      BY <2>1, <1>1, <1>2, <1>4
    <2> QED
      BY <2>1, <2>2
  <1>7. start + size <= End(c)
    <2> SUFFICES ASSUME End(c) < start + size PROVE FALSE
      BY <1>1, <1>4
    <2>1. End(c) \in Offsets
      BY <1>1, <1>3, <1>4 DEF Offsets
    <2>2. PICK d \in heap.live \cup heap.free : d.offset <= End(c) /\ End(c) < End(d)
      BY <2>1, <1>5
    <2>3. CASE d \in heap.live
      BY <2>2, <2>3, <1>1, <1>2, <1>4, <1>6
    <2>4. CASE d \in heap.free
      <3>1. Separate(c, d)
        BY <2>2, <2>4, <1>4 DEF HeapInv, Sound, FreeSeparate
      <3> QED
        BY <3>1, <2>2, <2>4, <1>1, <1>4, <1>6 DEF Separate
    <2> QED
      BY <2>2, <2>3, <2>4
  <1>8. RoundUp(c.offset, align) <= start /\ RoundUp(c.offset, align) \in Nat
    BY <1>1, <1>3, <1>4, <1>6, RoundUpIsFirst, RoundUpIsAbove
  <1>9. Fits(c, size, align)
    BY <1>1, <1>4, <1>7, <1>8 DEF Fits, Start
  <1>10. size \in 1..Capacity
    BY <1>1, <1>3
  <1> QED
    BY <1>9, <1>10 DEF CanAllocate, FittingBlocks, size, align

(* What comes to life is younger than all that was handed out at its       *)
(* offset: an allocation makes it so, and a release revives nothing.       *)
LEMMA NextHandsOutFresh ==
  HeapInv /\ [Next]_rangeVars =>
    [\A a \in heap'.live \ heap.live, b \in handed :
        a.offset = b.offset => b.generation < a.generation]_rangeVars
  <1> SUFFICES ASSUME HeapInv, [Next]_rangeVars, ~ UNCHANGED rangeVars
               PROVE  \A a \in heap'.live \ heap.live, b \in handed :
                         a.offset = b.offset => b.generation < a.generation
    OBVIOUS
  <1>1. CASE \E bytes \in Sizes, alignment \in Alignments : Allocate(bytes, alignment)
    BY <1>1, AllocateKeepsHeapInv
  <1>2. CASE \E a \in handed : Release(a)
    <2>1. heap'.live \subseteq heap.live
      BY <1>2, ReleaseKeepsHeapInv
    <2> QED
      BY <2>1
  <1> QED
    BY <1>1, <1>2 DEF Next

(* Whatever is allocated and given back, and however late, no two ranges   *)
(* share a byte, none is lost, free blocks do not touch, and a range stays *)
(* with whoever holds its handle (allocate, release).                      *)
THEOREM RangesAreSound ==
  Spec => [](TypeOK /\ EveryByteOnce /\ FreeBlocksDoNotTouch /\ HeldIsLive)
  BY InitMakesHeapInv, NextKeepsHeapInv, HeapInvIsSafe, PTL DEF Spec

(* An allocation is refused only when no aligned run of free bytes is long *)
(* enough (the first-fit loop of allocate).                                *)
THEOREM RoomIsFound == Spec => []RefusedOnlyWhenFull
  BY InitMakesHeapInv, NextKeepsHeapInv, HeapInvFindsRoom, PTL DEF Spec

(* No handle is handed out twice (the generations of allocate).            *)
THEOREM HandlesStayFresh == Spec => HandlesAreFresh
  BY InitMakesHeapInv, NextKeepsHeapInv, NextHandsOutFresh, PTL DEF Spec, HandlesAreFresh
=============================================================================

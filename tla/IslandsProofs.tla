---------------------------- MODULE IslandsProofs ----------------------------
(***************************************************************************)
(* A slot of the volume pool has one holder on whatever way a piece goes,  *)
(* a body is carved out of the field as it was copied, and a volume keeps  *)
(* its bytes for as long as a paste names it.                              *)
(***************************************************************************)
EXTENDS Islands, TLAPS, FiniteSetTheorems, SequenceTheorems, NaturalsInduction,
        WellFoundedInduction

Data == [piece : Pieces, shape : Nat, form : {"birth", "rest"}]
BodyRecs == [piece : Pieces, shape : Nat, slot : Slots, atlas : 0..Atlas,
             asleep : BOOLEAN, pose : {0, 1}]
MergeRecs == [body : Nat, out : Slots, pose : {0, 1}]
PasteRecs == [slot : Slots, data : Data]

IsSequence(s) == s \in Seq(Range(s))

FlightOk(f) ==
  /\ f.piece \in Pieces /\ f.slot \in Slots
  /\ f.copy \in Data /\ f.copy.piece = f.piece

IslandsTypeOK ==
  /\ field \in [Pieces -> [is : {"anchored", "loose", "air"}, shape : Nat]]
  /\ log \in [seq : Nat, tools : Nat, full : BOOLEAN, pastes : SUBSET PasteRecs]
  /\ volumes \in [Slots -> [used : BOOLEAN, pinned : BOOLEAN, data : Data \cup {None}]]
  /\ atlas \in [1..Atlas -> BOOLEAN]
  /\ bodies \in Seq(BodyRecs \cup {None})
  /\ merging \in Seq(MergeRecs)
  /\ IsSequence(flying) /\ \A i \in DOMAIN flying : FlightOk(flying[i])
  /\ IsSequence(landing)
  /\ batch # None => /\ IsSequence(batch.jobs)
                     /\ \A i \in DOMAIN batch.jobs : "result" \in DOMAIN batch.jobs[i]

-----------------------------------------------------------------------------

FlightSlots == {flying[i].slot : i \in DOMAIN flying}
BodySlots == {bodies[i].slot : i \in Live}
MergeSlots == {merging[k].out : k \in DOMAIN merging}
PasteSlots == {x.slot : x \in log.pastes}
HeldSlots == FlightSlots \cup BodySlots \cup MergeSlots \cup PasteSlots

(* No slot is held twice, but by a body and the resample that reuses its   *)
(* slot.                                                                   *)
HeldOnce ==
  /\ \A i, j \in DOMAIN flying : flying[i].slot = flying[j].slot => i = j
  /\ \A i, j \in Live : bodies[i].slot = bodies[j].slot => i = j
  /\ \A x, y \in log.pastes : x.slot = y.slot => x = y
  /\ FlightSlots \cap BodySlots = {}
  /\ PasteSlots \cap (FlightSlots \cup BodySlots \cup MergeSlots) = {}
  /\ \A k \in DOMAIN merging :
       merging[k].out \in FlightSlots \cup BodySlots => Reuses(merging[k])

UsedIsHeld ==
  \A s \in Slots : /\ volumes[s].used <=> s \in HeldSlots
                   /\ volumes[s].pinned <=> s \in PasteSlots

(* A resample is of a body that lives, and its result comes alone.         *)
Alone(jobs) ==
  \A i \in DOMAIN jobs : jobs[i].kind = "resample" => Len(jobs) = 1 /\ merging # <<>>

MergesHaveBodies ==
  /\ Len(merging) <= 1
  /\ \A k \in DOMAIN merging : merging[k].body \in Live
  /\ Alone(landing)
  /\ batch # None => Alone(batch.jobs)
  /\ landing # <<>> => batch = None /\ pc = "land"

(* A copy is of the field as it is, or some edit came after it.            *)
CopyOk(j) ==
  j.kind = "extract" /\ j.result = "copied" =>
    LET f == j.flight
    IN  /\ f.piece \in Pieces /\ f.seq \in Nat
        /\ f.seq <= log.seq
        /\ f.seq = log.seq => field[f.piece].is # "air" /\ field[f.piece].shape = f.copy.shape

CopiesAge ==
  /\ \A i \in DOMAIN landing : CopyOk(landing[i])
  /\ batch # None => \A i \in DOMAIN batch.jobs : CopyOk(batch.jobs[i])

SlotInv ==
  /\ IslandsTypeOK
  /\ HeldOnce
  /\ UsedIsHeld
  /\ MergesHaveBodies
  /\ CopiesAge

-----------------------------------------------------------------------------
(* Numbers and sequences.                                                  *)

(* The order of the naturals is well-founded: a set of them has a least.   *)
LEMMA LeastNatural ==
  ASSUME NEW S \in SUBSET Nat, S # {}
  PROVE  \E n \in S : \A m \in S : n <= m
<1> DEFINE R == {p \in Nat \X Nat : p[1] < p[2]}
<1>1. IsWellFoundedOn(R, Nat)
  <2>1. R = OpToRel(<, Nat)
    BY DEF OpToRel
  <2> QED BY <2>1, NatLessThanWellFounded
<1>2. PICK n \in S : \A m \in S : <<m, n>> \notin R
  <2> HIDE DEF R
  <2> QED BY <1>1, WFMin
<1>3. ASSUME NEW m \in S PROVE n <= m
  <2>1. ~(m < n)
    BY <1>2
  <2> QED BY <2>1
<1> QED BY <1>3

(* What is left of a sequence when one element is taken out of it.         *)
LEMMA RemoveAtFacts ==
  ASSUME NEW S, NEW q \in Seq(S), NEW i \in DOMAIN q
  PROVE  /\ RemoveAt(q, i) \in Seq(S)
         /\ DOMAIN RemoveAt(q, i) = 1..(Len(q) - 1)
         /\ \A k \in 1..(Len(q) - 1) : RemoveAt(q, i)[k] = IF k < i THEN q[k] ELSE q[k + 1]
<1> DEFINE a == SubSeq(q, 1, i - 1)
           b == SubSeq(q, i + 1, Len(q))
<1>1. Len(q) \in Nat /\ i \in 1..Len(q) /\ DOMAIN q = 1..Len(q)
  BY LenProperties
<1>2. /\ a \in Seq(S) /\ Len(a) = i - 1
      /\ \A k \in 1..(i - 1) : a[k] = q[k]
  BY <1>1, SubSeqProperties
<1>3. /\ b \in Seq(S) /\ Len(b) = Len(q) - i
      /\ \A k \in 1..(Len(q) - i) : b[k] = q[k + i]
  BY <1>1, SubSeqProperties
<1>4. /\ a \o b \in Seq(S) /\ Len(a \o b) = Len(q) - 1
      /\ \A k \in 1..(Len(q) - 1) : (a \o b)[k] = IF k < i THEN a[k] ELSE b[k - (i - 1)]
  <2> HIDE DEF a, b
  <2>1. /\ a \o b \in Seq(S) /\ Len(a \o b) = Len(a) + Len(b)
        /\ \A k \in 1..(Len(a) + Len(b)) : (a \o b)[k] = IF k <= Len(a) THEN a[k] ELSE b[k - Len(a)]
    BY <1>2, <1>3, ConcatProperties
  <2>2. Len(a) + Len(b) = Len(q) - 1 /\ Len(a) = i - 1
    BY <1>1, <1>2, <1>3
  <2>3. \A k \in Nat : k <= i - 1 <=> k < i
    BY <1>1
  <2> QED BY <2>1, <2>2, <2>3
<1>5. ASSUME NEW k \in 1..(Len(q) - 1), ~(k < i) PROVE b[k - (i - 1)] = q[k + 1]
  <2>1. k - (i - 1) \in 1..(Len(q) - i) /\ (k - (i - 1)) + i = k + 1
    BY <1>1, <1>5
  <2> QED BY <1>3, <2>1
<1>6. RemoveAt(q, i) = a \o b
  BY DEF RemoveAt
<1> HIDE DEF a, b
<1>7. DOMAIN (a \o b) = 1..(Len(q) - 1)
  BY <1>4, LenProperties
<1>8. ASSUME NEW k \in 1..(Len(q) - 1), k < i PROVE a[k] = q[k]
  BY <1>1, <1>2, <1>8
<1> QED BY <1>4, <1>5, <1>6, <1>7, <1>8

(* Of a sequence that is not empty.                                        *)
LEMMA TailFacts ==
  ASSUME NEW S, NEW q \in Seq(S), q # <<>>
  PROVE  /\ Tail(q) \in Seq(S) /\ Len(Tail(q)) = Len(q) - 1
         /\ 1 \in DOMAIN q /\ Head(q) = q[1] /\ Len(q) \in Nat \ {0}
         /\ DOMAIN Tail(q) = 1..(Len(q) - 1)
         /\ \A k \in DOMAIN Tail(q) : k + 1 \in DOMAIN q /\ Tail(q)[k] = q[k + 1]
<1>1. Len(q) \in Nat /\ DOMAIN q = 1..Len(q) /\ Len(q) # 0
  BY LenProperties, EmptySeq
<1>2. /\ Tail(q) \in Seq(S) /\ Len(Tail(q)) = Len(q) - 1 /\ Head(q) = q[1]
      /\ \A k \in 1..(Len(q) - 1) : Tail(q)[k] = q[k + 1]
  BY HeadTailProperties
<1>3. DOMAIN Tail(q) = 1..(Len(q) - 1)
  BY <1>1, <1>2, LenProperties
<1> QED BY <1>1, <1>2, <1>3

-----------------------------------------------------------------------------
(* What the operators of the module do.                                    *)

(* The flight that lands gives up its place in the list, and no other.     *)
LEMMA TakesFacts ==
  ASSUME IslandsTypeOK, HeldOnce, NEW f, Takes(f)
  PROVE  /\ FlightOk(f) /\ f.slot \in FlightSlots
         /\ IsSequence(flying')
         /\ \A i \in DOMAIN flying' : FlightOk(flying'[i])
         /\ \A i, j \in DOMAIN flying' : flying'[i].slot = flying'[j].slot => i = j
         /\ FlightSlots' = FlightSlots \ {f.slot}
         /\ \E k \in DOMAIN flying : f = flying[k]
         /\ \A i \in DOMAIN flying' : \E k \in DOMAIN flying : flying'[i] = flying[k]
<1> DEFINE at(n, k) == IF k < n THEN k ELSE k + 1
<1>1. PICK n \in DOMAIN flying : flying[n] = f /\ flying' = RemoveAt(flying, n)
  BY DEF Takes
<1>2. /\ flying \in Seq(Range(flying))
      /\ \A i \in DOMAIN flying : FlightOk(flying[i])
      /\ \A i, j \in DOMAIN flying : flying[i].slot = flying[j].slot => i = j
  BY DEF IslandsTypeOK, IsSequence, HeldOnce
<1>3. Len(flying) \in Nat /\ DOMAIN flying = 1..Len(flying)
  BY <1>2, LenProperties
<1>4. /\ flying' \in Seq(Range(flying))
      /\ DOMAIN flying' = 1..(Len(flying) - 1)
      /\ \A k \in 1..(Len(flying) - 1) : flying'[k] = flying[at(n, k)]
  <2> DEFINE q == RemoveAt(flying, n)
  <2>1. /\ q \in Seq(Range(flying))
        /\ DOMAIN q = 1..(Len(flying) - 1)
        /\ \A k \in 1..(Len(flying) - 1) : q[k] = IF k < n THEN flying[k] ELSE flying[k + 1]
    BY <1>2, RemoveAtFacts
  <2> HIDE DEF q
  <2>2. flying' = q
    BY <1>1 DEF q
  <2> QED BY <2>1, <2>2
<1>5. \A k \in 1..(Len(flying) - 1) : at(n, k) \in DOMAIN flying /\ at(n, k) # n
  BY <1>3
<1>6. \A i, j \in 1..(Len(flying) - 1) : at(n, i) = at(n, j) => i = j
  BY <1>3
<1>7. \A m \in DOMAIN flying : m # n => \E k \in 1..(Len(flying) - 1) : at(n, k) = m
  <2> TAKE m \in DOMAIN flying
  <2> HAVE m # n
  <2>1. CASE m < n
    <3>1. m \in 1..(Len(flying) - 1) /\ at(n, m) = m
      BY <1>3, <2>1
    <3> QED BY <3>1
  <2>2. CASE ~(m < n)
    <3>1. m - 1 \in 1..(Len(flying) - 1) /\ at(n, m - 1) = m
      BY <1>3, <2>2
    <3> QED BY <3>1
  <2> QED BY <2>1, <2>2
<1> HIDE DEF at
<1>8. IsSequence(flying')
  <2>1. Len(flying') \in Nat /\ DOMAIN flying' = 1..Len(flying') /\ flying' \in [1..Len(flying') -> Range(flying)]
    BY <1>4, LenProperties
  <2>2. flying' \in [1..Len(flying') -> Range(flying')]
    BY <2>1 DEF Range
  <2> QED BY <2>1, <2>2, SeqDef DEF IsSequence
<1>9. FlightSlots' = FlightSlots \ {f.slot}
  <2>1. FlightSlots' = {flying'[i].slot : i \in DOMAIN flying'}
    BY DEF FlightSlots
  <2>2. FlightSlots' = {flying[at(n, k)].slot : k \in 1..(Len(flying) - 1)}
    BY <2>1, <1>4
  <2>3. \A k \in 1..(Len(flying) - 1) : flying[at(n, k)].slot # f.slot
    BY <1>1, <1>2, <1>5
  <2> QED BY <1>1, <1>5, <1>7, <2>2, <2>3 DEF FlightSlots
<1>10. \A i \in DOMAIN flying' : FlightOk(flying'[i])
  BY <1>2, <1>4, <1>5
<1>11. \A i, j \in DOMAIN flying' : flying'[i].slot = flying'[j].slot => i = j
  BY <1>2, <1>4, <1>5, <1>6
<1>12. \A i \in DOMAIN flying' : \E k \in DOMAIN flying : flying'[i] = flying[k]
  BY <1>4, <1>5
<1> QED BY <1>1, <1>2, <1>8, <1>9, <1>10, <1>11, <1>12 DEF FlightSlots

(* A copy that was good stays good: what changes the field, or spawns a    *)
(* body, appends an edit, and an edit makes every copy taken before stale. *)
LEMMA CopyLater ==
  ASSUME NEW j, CopyOk(j), log.seq \in Nat, log'.seq \in Nat, log.seq <= log'.seq,
         log'.seq = log.seq => field' = field
  PROVE  CopyOk(j)'
<1> SUFFICES ASSUME j.kind = "extract", j.result = "copied",
                    j.flight.piece \in Pieces, j.flight.seq \in Nat, j.flight.seq <= log.seq,
                    j.flight.seq = log.seq => /\ field[j.flight.piece].is # "air"
                                              /\ field[j.flight.piece].shape = j.flight.copy.shape
             PROVE  /\ j.flight.seq <= log'.seq
                    /\ j.flight.seq = log'.seq => /\ field'[j.flight.piece].is # "air"
                                                  /\ field'[j.flight.piece].shape = j.flight.copy.shape
  BY DEF CopyOk
<1>1. CASE log'.seq = log.seq
  BY <1>1
<1>2. CASE log.seq < log'.seq
  BY <1>2
<1> QED BY <1>1, <1>2

LEMMA CopiesKept ==
  ASSUME CopiesAge, log.seq \in Nat, log'.seq \in Nat, log.seq <= log'.seq,
         log'.seq = log.seq => field' = field,
         \A i \in DOMAIN landing' :
            \/ \E k \in DOMAIN landing : landing'[i] = landing[k]
            \/ batch # None /\ \E k \in DOMAIN batch.jobs : landing'[i] = batch.jobs[k],
         batch' # None => batch' = batch
  PROVE  CopiesAge'
<1>1. ASSUME NEW i \in DOMAIN landing' PROVE CopyOk(landing[i])'
  <2>1. PICK j : j = landing'[i]
    OBVIOUS
  <2>2. CopyOk(j)
    BY <1>1, <2>1 DEF CopiesAge
  <2>3. CopyOk(j)'
    BY <2>2, CopyLater
  <2> QED BY <2>1, <2>3 DEF CopyOk
<1>2. ASSUME batch' # None, NEW i \in DOMAIN batch'.jobs PROVE CopyOk(batch.jobs[i])'
  <2>1. PICK j : j = batch.jobs[i]
    OBVIOUS
  <2>2. CopyOk(j) /\ j = batch'.jobs[i]
    BY <1>2, <2>1 DEF CopiesAge
  <2>3. CopyOk(j)'
    BY <2>2, CopyLater
  <2> QED BY <2>2, <2>3 DEF CopyOk
<1> QED BY <1>1, <1>2 DEF CopiesAge

(* A step that neither takes nor gives a slot.                             *)
LEMMA HoldersKept ==
  ASSUME HeldOnce, UsedIsHeld, flying' = flying, volumes' = volumes, merging' = merging,
         log'.pastes = log.pastes, DOMAIN bodies' = DOMAIN bodies,
         \A i \in DOMAIN bodies : /\ bodies'[i] = None <=> bodies[i] = None
                                  /\ bodies[i] # None => bodies'[i].slot = bodies[i].slot,
         \A k \in DOMAIN merging : merging[k].body \in Live
  PROVE  HeldOnce' /\ UsedIsHeld' /\ Live' = Live
<1>1. Live' = Live
  BY DEF Live
<1>2. \A i \in Live : i \in DOMAIN bodies /\ bodies'[i].slot = bodies[i].slot
  BY DEF Live
<1>3. /\ FlightSlots' = FlightSlots /\ BodySlots' = BodySlots
      /\ MergeSlots' = MergeSlots /\ PasteSlots' = PasteSlots
  BY <1>1, <1>2 DEF FlightSlots, BodySlots, MergeSlots, PasteSlots
<1>4. \A k \in DOMAIN merging : Reuses(merging[k]) => Reuses(merging[k])'
  BY <1>2 DEF Reuses
<1>5. HeldOnce'
  BY <1>1, <1>2, <1>3, <1>4 DEF HeldOnce
<1>6. UsedIsHeld'
  BY <1>3 DEF UsedIsHeld, HeldSlots
<1> QED BY <1>1, <1>5, <1>6

(* The body that spawns takes a hole, or the end of the list.              *)
LEMMA NewBody ==
  ASSUME IslandsTypeOK, NEW b, b \in BodyRecs
  PROVE  /\ AddBody(b) \in Seq(BodyRecs \cup {None})
         /\ \E i \in 1..(Len(bodies) + 1) :
               /\ i \notin Live
               /\ AddBody(b)[i] = b
               /\ DOMAIN AddBody(b) = DOMAIN bodies \cup {i}
               /\ \A k \in DOMAIN bodies : k # i => AddBody(b)[k] = bodies[k]
<1> DEFINE Hole(i) == bodies[i] = None /\ \A k \in 1..(i - 1) : bodies[k] # None
           h == CHOOSE i \in DOMAIN bodies : Hole(i)
<1>1. /\ bodies \in Seq(BodyRecs \cup {None}) /\ Len(bodies) \in Nat
      /\ DOMAIN bodies = 1..Len(bodies)
  BY LenProperties DEF IslandsTypeOK
<1>2. CASE \E i \in DOMAIN bodies : bodies[i] = None
  <2>1. \E i \in DOMAIN bodies : Hole(i)
    <3> DEFINE T == {i \in DOMAIN bodies : bodies[i] = None}
    <3>1. T # {} /\ T \subseteq Nat
      BY <1>1, <1>2
    <3>2. PICK i \in T : \A m \in T : i <= m
      BY <3>1, LeastNatural
    <3>3. ASSUME NEW k \in 1..(i - 1) PROVE bodies[k] # None
      <4>1. k \in DOMAIN bodies /\ ~(i <= k)
        BY <1>1, <3>2
      <4> QED BY <3>2, <4>1
    <3> QED BY <3>2, <3>3
  <2>2. h \in DOMAIN bodies /\ Hole(h)
    BY <2>1
  <2>3. AddBody(b) = [bodies EXCEPT ![h] = b]
    BY <1>2 DEF AddBody
  <2> HIDE DEF h
  <2>4. [bodies EXCEPT ![h] = b] \in Seq(BodyRecs \cup {None})
    BY <1>1, <2>2, ExceptSeq
  <2> QED BY <1>1, <2>2, <2>3, <2>4 DEF Live
<1>3. CASE ~ \E i \in DOMAIN bodies : bodies[i] = None
  <2>1. AddBody(b) = Append(bodies, b)
    BY <1>3 DEF AddBody
  <2>2. /\ Append(bodies, b) \in Seq(BodyRecs \cup {None})
        /\ Len(Append(bodies, b)) = Len(bodies) + 1
        /\ \A k \in 1..Len(bodies) : Append(bodies, b)[k] = bodies[k]
        /\ Append(bodies, b)[Len(bodies) + 1] = b
    BY <1>1, AppendProperties
  <2>3. DOMAIN Append(bodies, b) = 1..(Len(bodies) + 1)
    BY <2>2, LenProperties
  <2>4. DOMAIN Append(bodies, b) = DOMAIN bodies \cup {Len(bodies) + 1}
    BY <1>1, <2>3
  <2>5. Len(bodies) + 1 \notin Live /\ Len(bodies) + 1 \in 1..(Len(bodies) + 1)
    BY <1>1 DEF Live
  <2> QED BY <1>1, <2>1, <2>2, <2>4, <2>5
<1> QED BY <1>2, <1>3

(* What lands is a result of the batch; a resample lands alone.            *)
LEMMA LandingFacts ==
  ASSUME SlotInv, NEW kind, Landing(kind)
  PROVE  /\ batch = None /\ pc = "land"
         /\ IsSequence(landing')
         /\ \A i \in DOMAIN landing' : \E k \in DOMAIN landing : landing'[i] = landing[k]
         /\ kind = "resample" => landing' = <<>> /\ merging # <<>>
         /\ kind = "extract" => \A i \in DOMAIN landing' : landing'[i].kind # "resample"
         /\ Head(landing).kind = kind /\ CopyOk(Head(landing))
<1>1. landing # <<>> /\ Head(landing).kind = kind /\ landing' = Tail(landing)
  BY DEF Landing
<1>2. landing \in Seq(Range(landing)) /\ batch = None /\ pc = "land"
  BY <1>1 DEF SlotInv, IslandsTypeOK, IsSequence, MergesHaveBodies
<1>3. /\ Tail(landing) \in Seq(Range(landing)) /\ Len(Tail(landing)) = Len(landing) - 1
      /\ 1 \in DOMAIN landing /\ Head(landing) = landing[1] /\ Len(landing) \in Nat \ {0}
      /\ DOMAIN Tail(landing) = 1..(Len(landing) - 1)
      /\ \A k \in DOMAIN Tail(landing) : k + 1 \in DOMAIN landing /\ Tail(landing)[k] = landing[k + 1]
  BY <1>1, <1>2, TailFacts
<1>4. IsSequence(landing')
  <2>1. PICK q : q = landing'
    OBVIOUS
  <2>2. q \in Seq(Range(landing))
    BY <1>1, <1>3, <2>1
  <2>3. Len(q) \in Nat /\ DOMAIN q = 1..Len(q) /\ q \in [1..Len(q) -> Range(landing)]
    BY <2>2, LenProperties
  <2>4. q \in [1..Len(q) -> Range(q)]
    BY <2>3 DEF Range
  <2> QED BY <2>1, <2>3, <2>4, SeqDef DEF IsSequence
<1>5. \A i \in DOMAIN landing : landing[i].kind = "resample" => Len(landing) = 1 /\ merging # <<>>
  BY DEF SlotInv, MergesHaveBodies, Alone
<1>6. kind = "resample" => landing' = <<>> /\ merging # <<>>
  BY <1>1, <1>3, <1>5, EmptySeq
<1>7. kind = "extract" => \A i \in DOMAIN landing' : landing'[i].kind # "resample"
  <2> SUFFICES ASSUME kind = "extract", NEW i \in DOMAIN landing', landing'[i].kind = "resample"
               PROVE  FALSE
    OBVIOUS
  <2>1. i + 1 \in DOMAIN landing /\ landing[i + 1].kind = "resample"
    BY <1>1, <1>3
  <2>2. Len(landing) = 1
    BY <1>5, <2>1
  <2>3. i \in 1..0
    BY <1>1, <1>3, <2>2
  <2> QED BY <2>3
<1>8. CopyOk(Head(landing))
  BY <1>3 DEF SlotInv, CopiesAge
<1>9. \A i \in DOMAIN landing' : \E k \in DOMAIN landing : landing'[i] = landing[k]
  BY <1>1, <1>3
<1> QED BY <1>1, <1>2, <1>4, <1>6, <1>7, <1>8, <1>9

-----------------------------------------------------------------------------
(* The invariant holds at first, and every step keeps it.                  *)

LEMMA SlotInit == Init => SlotInv
<1> SUFFICES ASSUME Init PROVE SlotInv
  OBVIOUS
<1> USE DEF Init
<1>1. IsSequence(<<>>)
  BY EmptySeq DEF IsSequence
<1>2. <<>> \in Seq(BodyRecs \cup {None}) /\ <<>> \in Seq(MergeRecs) /\ Len(<<>>) = 0
      /\ DOMAIN <<>> = {}
  BY EmptySeq
<1>3. IslandsTypeOK
  <2>1. [used |-> FALSE, pinned |-> FALSE, data |-> None]
           \in [used : BOOLEAN, pinned : BOOLEAN, data : Data \cup {None}]
    OBVIOUS
  <2> QED BY <1>1, <1>2, <2>1 DEF IslandsTypeOK, Blank
<1>4. Live = {} /\ HeldSlots = {} /\ PasteSlots = {} /\ FlightSlots = {} /\ BodySlots = {}
      /\ MergeSlots = {}
  BY <1>2 DEF Live, HeldSlots, FlightSlots, BodySlots, MergeSlots, PasteSlots
<1>5. HeldOnce
  BY <1>2, <1>4 DEF HeldOnce
<1>6. UsedIsHeld
  BY <1>4 DEF UsedIsHeld, Blank
<1>7. MergesHaveBodies
  BY <1>2 DEF MergesHaveBodies, Alone
<1>8. CopiesAge
  BY <1>2 DEF CopiesAge
<1> QED BY <1>3, <1>5, <1>6, <1>7, <1>8 DEF SlotInv

(* What follows from the invariant, and is used everywhere.                *)
LEMMA SlotFacts ==
  ASSUME SlotInv
  PROVE  /\ IslandsTypeOK /\ HeldOnce /\ UsedIsHeld /\ MergesHaveBodies /\ CopiesAge
         /\ log.seq \in Nat /\ log.pastes \subseteq PasteRecs
         /\ \A k \in DOMAIN merging : merging[k].body \in Live
         /\ Live \subseteq DOMAIN bodies
         /\ \A i \in Live : bodies[i] \in BodyRecs
         /\ MergeSlots \cap FlightSlots = {}
         /\ HeldSlots \subseteq Slots
<1>1. /\ IslandsTypeOK /\ HeldOnce /\ UsedIsHeld /\ MergesHaveBodies /\ CopiesAge
      /\ log.seq \in Nat /\ log.pastes \subseteq PasteRecs
      /\ \A k \in DOMAIN merging : merging[k].body \in Live
      /\ Live \subseteq DOMAIN bodies
  BY DEF SlotInv, IslandsTypeOK, MergesHaveBodies, Live
<1>2. \A i \in Live : bodies[i] \in BodyRecs
  <2> TAKE i \in Live
  <2>1. bodies \in Seq(BodyRecs \cup {None}) /\ i \in DOMAIN bodies /\ bodies[i] # None
    BY <1>1 DEF IslandsTypeOK, Live
  <2>2. i \in 1..Len(bodies)
    BY <2>1, LenProperties
  <2> QED BY <2>1, <2>2, ElementOfSeq
<1>3. MergeSlots \cap FlightSlots = {}
  BY <1>1 DEF HeldOnce, MergeSlots, BodySlots, Reuses
<1>4. HeldSlots \subseteq Slots
  <2>1. \A k \in DOMAIN merging : merging[k] \in MergeRecs
    <3>1. merging \in Seq(MergeRecs)
      BY <1>1 DEF IslandsTypeOK
    <3> QED BY <3>1, LenProperties, ElementOfSeq
  <2> QED BY <1>1, <1>2, <2>1 DEF HeldSlots, FlightSlots, BodySlots, MergeSlots, PasteSlots,
                                  IslandsTypeOK, FlightOk, BodyRecs, MergeRecs, PasteRecs
<1> QED BY <1>1, <1>2, <1>3, <1>4

(* Edits, the picture, the lists: no slot, no copy.                        *)
LEMMA EditKeeps ==
  ASSUME SlotInv, NEW over, NEW is, is \in {"loose", "air", "anchored"}, Edit(over, is)
  PROVE  SlotInv'
<1>1. IslandsTypeOK /\ HeldOnce /\ UsedIsHeld /\ MergesHaveBodies /\ CopiesAge
  BY DEF SlotInv
<1>2. /\ log' = [log EXCEPT !.seq = @ + 1, !.tools = @ + 1]
      /\ field' = [p \in Pieces |-> IF p \in over THEN [is |-> is, shape |-> log.seq + 1] ELSE field[p]]
      /\ UNCHANGED <<workVars, bodyVars, poolVars>>
  BY DEF Edit
<1>3. log' \in [seq : Nat, tools : Nat, full : BOOLEAN, pastes : SUBSET PasteRecs]
      /\ log'.seq = log.seq + 1 /\ log.seq \in Nat /\ log'.pastes = log.pastes
  <2>1. log \in [seq : Nat, tools : Nat, full : BOOLEAN, pastes : SUBSET PasteRecs]
    BY <1>1 DEF IslandsTypeOK
  <2>2. log' = [log EXCEPT !.seq = log.seq + 1, !.tools = log.tools + 1]
    BY <1>2
  <2>3. log.seq + 1 \in Nat /\ log.tools + 1 \in Nat
    BY <2>1
  <2> HIDE <1>1, <1>2
  <2> QED BY <2>1, <2>2, <2>3
<1>4. field' \in [Pieces -> [is : {"anchored", "loose", "air"}, shape : Nat]]
  BY <1>1, <1>2, <1>3 DEF IslandsTypeOK
<1>5. IslandsTypeOK'
  BY <1>1, <1>2, <1>3, <1>4 DEF IslandsTypeOK, workVars, bodyVars, poolVars, IsSequence, FlightOk
<1>6. HeldOnce' /\ UsedIsHeld' /\ Live' = Live
  BY <1>1, <1>2, <1>3, HoldersKept DEF workVars, bodyVars, poolVars, MergesHaveBodies
<1>7. MergesHaveBodies'
  BY <1>1, <1>2, <1>6 DEF MergesHaveBodies, Alone, workVars, bodyVars
<1>8. CopiesAge'
  BY <1>1, <1>2, <1>3, CopiesKept DEF workVars
<1> QED BY <1>5, <1>6, <1>7, <1>8 DEF SlotInv

LEMMA PictureKeeps ==
  ASSUME SlotInv, Fill \/ \E p \in Pieces : Picture(p)
  PROVE  SlotInv'
<1>1. IslandsTypeOK /\ HeldOnce /\ UsedIsHeld /\ MergesHaveBodies /\ CopiesAge
  BY DEF SlotInv
<1>2. /\ log' = log \/ log' = [log EXCEPT !.full = ~@]
      /\ UNCHANGED <<field, workVars, bodyVars, poolVars>>
  BY DEF Fill, Picture
<1>3. log' \in [seq : Nat, tools : Nat, full : BOOLEAN, pastes : SUBSET PasteRecs]
      /\ log'.seq = log.seq /\ log.seq \in Nat /\ log'.pastes = log.pastes
  <2>1. log \in [seq : Nat, tools : Nat, full : BOOLEAN, pastes : SUBSET PasteRecs]
    BY <1>1 DEF IslandsTypeOK
  <2>2. CASE log' = log
    BY <2>1, <2>2
  <2>3. CASE log' = [log EXCEPT !.full = ~@]
    <3>1. PICK b \in BOOLEAN : b = ~log.full
      OBVIOUS
    <3>2. log' = [log EXCEPT !.full = b]
      BY <2>3, <3>1, Zenon
    <3> QED BY <2>1, <3>2
  <2> QED BY <1>2, <2>2, <2>3
<1>4. IslandsTypeOK'
  BY <1>1, <1>2, <1>3 DEF IslandsTypeOK, workVars, bodyVars, poolVars, IsSequence, FlightOk
<1>5. HeldOnce' /\ UsedIsHeld' /\ Live' = Live
  BY <1>1, <1>2, <1>3, HoldersKept DEF workVars, bodyVars, poolVars, MergesHaveBodies
<1>6. MergesHaveBodies'
  BY <1>1, <1>2, <1>5 DEF MergesHaveBodies, Alone, workVars, bodyVars
<1>7. CopiesAge'
  BY <1>1, <1>2, <1>3, CopiesKept DEF workVars
<1> QED BY <1>4, <1>5, <1>6, <1>7 DEF SlotInv

(* A frame begins, and the results of the batch are there to land.         *)
LEMMA BeginKeeps ==
  ASSUME SlotInv, BeginFrame
  PROVE  SlotInv'
<1>1. IslandsTypeOK /\ HeldOnce /\ UsedIsHeld /\ MergesHaveBodies /\ CopiesAge
  BY DEF SlotInv
<1>2. /\ pc = "idle" /\ pc' = "land"
      /\ \/ batch # None /\ landing' = batch.jobs /\ batch' = None
         \/ landing' = landing /\ batch' = batch
      /\ UNCHANGED <<fieldVars, flying, atlas, bodies, merging, volumes>>
  BY DEF BeginFrame
<1>3. landing = <<>>
  BY <1>1, <1>2 DEF MergesHaveBodies
<1>4. IslandsTypeOK'
  BY <1>1, <1>2 DEF IslandsTypeOK, fieldVars, IsSequence, FlightOk
<1>5. HeldOnce' /\ UsedIsHeld' /\ Live' = Live
  BY <1>1, <1>2, HoldersKept DEF fieldVars, MergesHaveBodies
<1>6. MergesHaveBodies'
  BY <1>1, <1>2, <1>3, <1>5 DEF MergesHaveBodies, Alone
<1>7. CopiesAge'
  BY <1>1, <1>2, CopiesKept DEF fieldVars, IslandsTypeOK
<1> QED BY <1>4, <1>5, <1>6, <1>7 DEF SlotInv

(* Nothing is searched, nothing is merged, a frame is drawn, physics is    *)
(* back.                                                                   *)
LEMMA IdleKeeps ==
  ASSUME SlotInv, SearchLater \/ NoMerge \/ Initialize \/ \E bare \in SUBSET Slots : DrawFrame(bare)
  PROVE  SlotInv'
<1>1. IslandsTypeOK /\ HeldOnce /\ UsedIsHeld /\ MergesHaveBodies /\ CopiesAge
  BY DEF SlotInv
<1>2. UNCHANGED <<fieldVars, batch, landing, flying, atlas, bodies, merging, volumes>>
  BY DEF SearchLater, NoMerge, DrawFrame, Initialize, bodyVars, poolVars, workVars
<1>3. landing # <<>> => pc' = pc
  BY <1>1 DEF SearchLater, NoMerge, DrawFrame, Initialize, MergesHaveBodies, workVars
<1>4. IslandsTypeOK'
  BY <1>1, <1>2 DEF IslandsTypeOK, fieldVars, IsSequence, FlightOk
<1>5. HeldOnce' /\ UsedIsHeld' /\ Live' = Live
  BY <1>1, <1>2, HoldersKept DEF fieldVars, MergesHaveBodies
<1>6. MergesHaveBodies'
  BY <1>1, <1>2, <1>3, <1>5 DEF MergesHaveBodies, Alone
<1>7. CopiesAge'
  BY <1>1, <1>2, CopiesKept DEF fieldVars, IslandsTypeOK
<1> QED BY <1>4, <1>5, <1>6, <1>7 DEF SlotInv

(* The worker answers: a result stands or has failed.                      *)
LEMMA WorkerKeeps ==
  ASSUME SlotInv, NEW bad, WorkerDone(bad)
  PROVE  SlotInv'
<1> DEFINE jobs == [i \in DOMAIN batch.jobs |->
                      IF i \in bad THEN [batch.jobs[i] EXCEPT !.result = "failed"] ELSE batch.jobs[i]]
<1>1. /\ IslandsTypeOK /\ HeldOnce /\ UsedIsHeld /\ MergesHaveBodies /\ CopiesAge
      /\ log.seq \in Nat
  BY DEF SlotInv, IslandsTypeOK
<1>2. /\ batch # None /\ batch' = [done |-> TRUE, jobs |-> jobs]
      /\ UNCHANGED <<fieldVars, pc, landing, flying, bodyVars, poolVars>>
  BY DEF WorkerDone
<1>3. batch.jobs \in Seq(Range(batch.jobs))
  BY <1>1, <1>2 DEF IslandsTypeOK, IsSequence
<1>4. Len(batch.jobs) \in Nat /\ DOMAIN batch.jobs = 1..Len(batch.jobs)
  BY <1>3, LenProperties
<1>5. batch'.jobs = jobs /\ DOMAIN jobs = DOMAIN batch.jobs
  BY <1>2
<1>6. IsSequence(jobs) /\ Len(jobs) = Len(batch.jobs)
  <2>1. jobs \in [1..Len(batch.jobs) -> Range(jobs)]
    BY <1>4 DEF Range
  <2> HIDE DEF jobs
  <2>2. jobs \in Seq(Range(jobs))
    BY <1>4, <2>1, SeqDef
  <2> QED BY <1>4, <1>5, <2>2, LenProperties DEF IsSequence
<1>7. IslandsTypeOK'
  <2>1. \A i \in DOMAIN batch'.jobs : "result" \in DOMAIN batch'.jobs[i]
    <3>1. \A i \in DOMAIN batch.jobs : DOMAIN [batch.jobs[i] EXCEPT !.result = "failed"] = DOMAIN batch.jobs[i]
      OBVIOUS
    <3> QED BY <1>1, <1>2, <1>5, <3>1 DEF IslandsTypeOK
  <2> HIDE DEF jobs
  <2> QED BY <1>1, <1>2, <1>5, <1>6, <2>1 DEF IslandsTypeOK, fieldVars, bodyVars, poolVars, IsSequence, FlightOk
<1>8. HeldOnce' /\ UsedIsHeld' /\ Live' = Live
  BY <1>1, <1>2, HoldersKept DEF fieldVars, bodyVars, poolVars, MergesHaveBodies
<1>9. \A i \in DOMAIN jobs : jobs[i].kind = batch.jobs[i].kind
  <2> SUFFICES ASSUME NEW i \in DOMAIN batch.jobs PROVE jobs[i].kind = batch.jobs[i].kind
    BY <1>5
  <2>1. CASE i \in bad
    <3>1. jobs[i] = [batch.jobs[i] EXCEPT !.result = "failed"]
      BY <2>1
    <3> QED BY <3>1
  <2>2. CASE i \notin bad
    BY <2>2
  <2> QED BY <2>1, <2>2
<1>10. Alone(batch.jobs)' /\ landing = <<>>
  BY <1>1, <1>2, <1>5, <1>6, <1>9 DEF MergesHaveBodies, Alone, bodyVars
<1>11. MergesHaveBodies'
  BY <1>1, <1>2, <1>8, <1>10 DEF MergesHaveBodies, Alone, bodyVars
<1>12. CopiesAge'
  <2>1. ASSUME NEW i \in DOMAIN batch'.jobs PROVE CopyOk(batch.jobs[i])'
    <3>1. PICK j : j = jobs[i]
      OBVIOUS
    <3>2. CopyOk(j)
      <4>1. CASE i \in bad
        <5>1. jobs[i] = [batch.jobs[i] EXCEPT !.result = "failed"]
          BY <1>5, <2>1, <4>1
        <5>2. j.result = "failed" \/ j = batch.jobs[i]
          <6>1. "result" \in DOMAIN batch.jobs[i]
            BY <1>1, <1>2, <1>5, <2>1 DEF IslandsTypeOK
          <6> QED BY <3>1, <5>1, <6>1
        <5>3. CASE j.result = "failed"
          BY <5>3 DEF CopyOk
        <5>4. CASE j = batch.jobs[i]
          BY <1>1, <1>2, <1>5, <2>1, <5>4 DEF CopiesAge
        <5> QED BY <5>2, <5>3, <5>4
      <4>2. CASE i \notin bad
        <5>1. j = batch.jobs[i]
          BY <1>5, <2>1, <3>1, <4>2
        <5> QED BY <1>1, <1>2, <1>5, <2>1, <5>1 DEF CopiesAge
      <4> QED BY <4>1, <4>2
    <3>3. CopyOk(j)'
      BY <1>1, <1>2, <3>2, CopyLater DEF fieldVars
    <3>4. j = batch'.jobs[i]
      BY <1>5, <3>1
    <3> QED BY <3>3, <3>4 DEF CopyOk
  <2>2. landing' = <<>> /\ DOMAIN landing' = {}
    BY <1>2, <1>10
  <2>3. \A i \in DOMAIN landing' : CopyOk(landing[i])'
    BY <2>2
  <2> QED BY <2>1, <2>3 DEF CopiesAge
<1> QED BY <1>7, <1>8, <1>11, <1>12 DEF SlotInv

(* A body comes to rest, or wakes.                                         *)
LEMMA BodyKeeps ==
  ASSUME SlotInv, NEW i, Settle(i) \/ Wake(i)
  PROVE  SlotInv'
<1>1. /\ IslandsTypeOK /\ HeldOnce /\ UsedIsHeld /\ MergesHaveBodies /\ CopiesAge
      /\ log.seq \in Nat /\ i \in DOMAIN bodies /\ bodies[i] # None /\ bodies[i] \in BodyRecs
  BY SlotFacts DEF Settle, Wake, Live
<1>2. UNCHANGED <<fieldVars, workVars, atlas, merging, poolVars>>
  BY DEF Settle, Wake
<1>3. PICK b \in BodyRecs : b.slot = bodies[i].slot /\ bodies' = [bodies EXCEPT ![i] = b]
  <2>1. CASE Settle(i)
    <3>1. [bodies[i] EXCEPT !.asleep = TRUE] \in BodyRecs
      BY <1>1 DEF BodyRecs
    <3>2. bodies' = [bodies EXCEPT ![i] = [bodies[i] EXCEPT !.asleep = TRUE]]
      BY <2>1 DEF Settle
    <3> QED BY <1>1, <3>1, <3>2 DEF BodyRecs
  <2>2. CASE Wake(i)
    <3>1. bodies[i].pose \in {0, 1} /\ 1 - bodies[i].pose \in {0, 1}
      BY <1>1 DEF BodyRecs
    <3>2. [bodies[i] EXCEPT !.asleep = FALSE, !.pose = 1 - bodies[i].pose] \in BodyRecs
      BY <1>1, <3>1 DEF BodyRecs
    <3>3. bodies' = [bodies EXCEPT ![i] = [bodies[i] EXCEPT !.asleep = FALSE, !.pose = 1 - bodies[i].pose]]
      BY <2>2 DEF Wake
    <3> QED BY <1>1, <3>2, <3>3 DEF BodyRecs
  <2> QED BY <2>1, <2>2
<1>4. b # None
  BY NoneAssumption DEF BodyRecs, Slots
<1>5. bodies \in Seq(BodyRecs \cup {None}) /\ i \in 1..Len(bodies)
  BY <1>1, LenProperties DEF IslandsTypeOK
<1>6. bodies' \in Seq(BodyRecs \cup {None})
  BY <1>3, <1>5, ExceptSeq
<1>7. IslandsTypeOK'
  BY <1>1, <1>2, <1>6 DEF IslandsTypeOK, fieldVars, workVars, poolVars, IsSequence, FlightOk
<1>8. /\ DOMAIN bodies' = DOMAIN bodies
      /\ \A k \in DOMAIN bodies : /\ bodies'[k] = None <=> bodies[k] = None
                                  /\ bodies[k] # None => bodies'[k].slot = bodies[k].slot
  BY <1>1, <1>3, <1>4
<1>9. HeldOnce' /\ UsedIsHeld' /\ Live' = Live
  BY <1>1, <1>2, <1>8, HoldersKept DEF fieldVars, workVars, poolVars, MergesHaveBodies
<1>10. MergesHaveBodies'
  BY <1>1, <1>2, <1>9 DEF MergesHaveBodies, Alone, workVars
<1>11. CopiesAge'
  BY <1>1, <1>2, CopiesKept DEF fieldVars, workVars
<1> QED BY <1>7, <1>9, <1>10, <1>11 DEF SlotInv

(* A slot that is given back is Blank, unless it is pinned.                *)
LEMMA ReleasedFacts ==
  ASSUME NEW vs, vs \in [Slots -> [used : BOOLEAN, pinned : BOOLEAN, data : Data \cup {None}]],
         NEW s \in Slots
  PROVE  /\ Released(vs, s) \in [Slots -> [used : BOOLEAN, pinned : BOOLEAN, data : Data \cup {None}]]
         /\ \A t \in Slots : /\ Released(vs, s)[t].used <=> vs[t].used /\ (t = s => vs[t].pinned)
                             /\ Released(vs, s)[t].pinned <=> vs[t].pinned
         /\ \A t \in Slots \ {s} : Released(vs, s)[t] = vs[t]
<1>1. [used |-> FALSE, pinned |-> FALSE, data |-> None]
         \in [used : BOOLEAN, pinned : BOOLEAN, data : Data \cup {None}]
  OBVIOUS
<1> QED BY <1>1 DEF Released, CanRelease, Blank

(* A copy in flight ends: what lands gives its slot back.                  *)
LEMMA FlightEnds ==
  ASSUME SlotInv, NEW f, Takes(f), volumes' = Released(volumes, f.slot),
         UNCHANGED <<bodies, merging>>, log'.pastes = log.pastes
  PROVE  HeldOnce' /\ UsedIsHeld' /\ Live' = Live
<1>1. /\ IslandsTypeOK /\ HeldOnce /\ UsedIsHeld /\ MergeSlots \cap FlightSlots = {}
      /\ HeldSlots \subseteq Slots
  BY SlotFacts
<1>2. /\ f.slot \in FlightSlots
      /\ \A i, j \in DOMAIN flying' : flying'[i].slot = flying'[j].slot => i = j
      /\ FlightSlots' = FlightSlots \ {f.slot}
  BY <1>1, TakesFacts
<1>3. Live' = Live /\ BodySlots' = BodySlots /\ MergeSlots' = MergeSlots /\ PasteSlots' = PasteSlots
  BY DEF Live, BodySlots, MergeSlots, PasteSlots
<1>4. \A k \in DOMAIN merging : Reuses(merging[k])' <=> Reuses(merging[k])
  BY DEF Reuses
<1>5. HeldOnce'
  BY <1>1, <1>2, <1>3, <1>4 DEF HeldOnce
<1>6. f.slot \in Slots /\ f.slot \notin BodySlots \cup MergeSlots \cup PasteSlots
  BY <1>1, <1>2 DEF HeldOnce, HeldSlots
<1>7. \A t \in Slots : /\ volumes'[t].used <=> volumes[t].used /\ (t = f.slot => volumes[t].pinned)
                       /\ volumes'[t].pinned <=> volumes[t].pinned
  BY <1>1, <1>6, ReleasedFacts DEF IslandsTypeOK
<1>8. HeldSlots' = HeldSlots \ {f.slot}
  BY <1>2, <1>3, <1>6 DEF HeldSlots
<1>9. UsedIsHeld'
  BY <1>1, <1>3, <1>6, <1>7, <1>8 DEF UsedIsHeld
<1> QED BY <1>3, <1>5, <1>9

LEMMA LandedKeeps ==
  ASSUME SlotInv, LandNothing \/ LandRefused
  PROVE  SlotInv'
<1>1. /\ IslandsTypeOK /\ HeldOnce /\ UsedIsHeld /\ MergesHaveBodies /\ CopiesAge
      /\ log.seq \in Nat
  BY SlotFacts
<1>2. PICK f : Takes(f) /\ volumes' = Released(volumes, f.slot)
  BY DEF LandNothing, LandRefused, ReleaseSlot
<1>3. Landing("extract") /\ UNCHANGED <<pc, batch, bodyVars>>
  BY DEF LandNothing, LandRefused
<1>4. /\ FlightOk(f) /\ IsSequence(flying')
      /\ \A i \in DOMAIN flying' : FlightOk(flying'[i])
  BY <1>1, <1>2, TakesFacts
<1>5. /\ batch = None /\ pc = "land" /\ IsSequence(landing')
      /\ \A i \in DOMAIN landing' : \E k \in DOMAIN landing : landing'[i] = landing[k]
      /\ \A i \in DOMAIN landing' : landing'[i].kind # "resample"
  BY <1>3, LandingFacts
<1>6. /\ field' \in [Pieces -> [is : {"anchored", "loose", "air"}, shape : Nat]]
      /\ log' \in [seq : Nat, tools : Nat, full : BOOLEAN, pastes : SUBSET PasteRecs]
      /\ log'.seq \in Nat /\ log.seq <= log'.seq /\ log'.pastes = log.pastes
      /\ log'.seq = log.seq => field' = field
  <2>1. /\ field \in [Pieces -> [is : {"anchored", "loose", "air"}, shape : Nat]]
        /\ log \in [seq : Nat, tools : Nat, full : BOOLEAN, pastes : SUBSET PasteRecs]
    BY <1>1 DEF IslandsTypeOK
  <2>2. CASE UNCHANGED fieldVars
    BY <1>1, <2>1, <2>2 DEF fieldVars
  <2>3. CASE ~ UNCHANGED fieldVars
    <3>1. PICK p : /\ field' = [field EXCEPT ![p] = [is |-> "air", shape |-> log.seq + 1]]
                   /\ log' = [log EXCEPT !.seq = @ + 1]
      BY <2>3 DEF LandNothing, LandRefused
    <3>2. log.seq + 1 \in Nat /\ [is |-> "air", shape |-> log.seq + 1] \in [is : {"anchored", "loose", "air"}, shape : Nat]
      BY <1>1
    <3>3. field' \in [Pieces -> [is : {"anchored", "loose", "air"}, shape : Nat]]
      BY <2>1, <3>1, <3>2
    <3>4. log' \in [seq : Nat, tools : Nat, full : BOOLEAN, pastes : SUBSET PasteRecs]
          /\ log'.seq = log.seq + 1 /\ log'.pastes = log.pastes
      BY <2>1, <3>1, <3>2
    <3> QED BY <1>1, <3>3, <3>4
  <2> QED BY <2>2, <2>3
<1>7. volumes' \in [Slots -> [used : BOOLEAN, pinned : BOOLEAN, data : Data \cup {None}]]
  BY <1>1, <1>2, <1>4, ReleasedFacts DEF IslandsTypeOK, FlightOk
<1>8. IslandsTypeOK'
  BY <1>1, <1>3, <1>4, <1>5, <1>6, <1>7 DEF IslandsTypeOK, bodyVars, FlightOk
<1>9. HeldOnce' /\ UsedIsHeld' /\ Live' = Live
  BY <1>2, <1>3, <1>6, FlightEnds DEF bodyVars
<1>10. MergesHaveBodies'
  BY <1>1, <1>3, <1>5, <1>9 DEF MergesHaveBodies, Alone, bodyVars
<1>11. CopiesAge'
  BY <1>1, <1>3, <1>5, <1>6, CopiesKept
<1> QED BY <1>8, <1>9, <1>10, <1>11 DEF SlotInv

(* What the carve does: the flight's slot becomes the slot of a new body,  *)
(* and the piece goes out of the field as it was copied.                   *)
CarvedOut(f, b, i) ==
  /\ Takes(f) /\ FlightOk(f) /\ f = Head(landing).flight
  /\ b \in BodyRecs /\ b # None /\ b.slot = f.slot /\ b.piece = f.piece
  /\ b.shape = f.copy.shape
  /\ i \in 1..(Len(bodies) + 1) /\ i \notin Live
  /\ bodies' \in Seq(BodyRecs \cup {None})
  /\ DOMAIN bodies' = DOMAIN bodies \cup {i} /\ bodies'[i] = b
  /\ \A k \in DOMAIN bodies : k # i => bodies'[k] = bodies[k]
  /\ field[f.piece].is # "air" /\ field[f.piece].shape = f.copy.shape
  /\ field' = [field EXCEPT ![f.piece] = [is |-> "air", shape |-> log.seq + 1]]
  /\ volumes' = Stored(volumes, f.slot, f.copy)
  /\ log' = [log EXCEPT !.seq = @ + 1]
  /\ atlas' \in [1..Atlas -> BOOLEAN]
  /\ uploads' = IF b.atlas = 0 THEN uploads
                ELSE Append(uploads, [slot |-> f.slot, atlas |-> b.atlas, data |-> f.copy])

LEMMA CarveFacts ==
  ASSUME SlotInv, LandCarve
  PROVE  \E f, b, i : CarvedOut(f, b, i)
<1>1. IslandsTypeOK /\ HeldOnce /\ log.seq \in Nat
  BY SlotFacts
<1>2. PICK f : f = Head(landing).flight
  OBVIOUS
<1>3. PICK a : a = IF f.piece \in Debris THEN 0
                   ELSE CHOOSE x \in FreeAtlas : \A c \in FreeAtlas : x <= c
  OBVIOUS
<1>4. PICK b : b = [piece |-> f.piece, shape |-> f.copy.shape, slot |-> f.slot,
                    atlas |-> a, asleep |-> FALSE, pose |-> 0]
  OBVIOUS
<1>5. /\ Landing("extract") /\ Head(landing).result = "copied"
      /\ Takes(f) /\ ~Stale(f) /\ (f.piece \in Debris \/ FreeAtlas # {})
      /\ volumes' = Stored(volumes, f.slot, f.copy)
      /\ bodies' = AddBody(b)
      /\ field' = [field EXCEPT ![f.piece] = [is |-> "air", shape |-> log.seq + 1]]
      /\ log' = [log EXCEPT !.seq = @ + 1]
  BY <1>2, <1>3, <1>4 DEF LandCarve
<1>6. FlightOk(f)
  BY <1>1, <1>5, TakesFacts
<1>7. a \in 0..Atlas
  <2>1. Atlas \in Nat
    BY IslandsAssumption DEF IslandsAssumption
  <2>2. CASE f.piece \in Debris
    BY <1>3, <2>1, <2>2
  <2>3. CASE f.piece \notin Debris
    <3>1. FreeAtlas # {} /\ FreeAtlas \subseteq 1..Atlas /\ FreeAtlas \subseteq Nat
      BY <1>5, <2>1, <2>3 DEF FreeAtlas
    <3>2. \E x \in FreeAtlas : \A c \in FreeAtlas : x <= c
      BY <3>1, LeastNatural
    <3>3. a \in FreeAtlas
      BY <1>3, <2>3, <3>2
    <3> QED BY <2>1, <3>1, <3>3
  <2> QED BY <2>2, <2>3
<1>8. b \in BodyRecs
  BY <1>4, <1>6, <1>7 DEF FlightOk, BodyRecs, Data
<1>9. b # None
  BY <1>8, NoneAssumption DEF BodyRecs, Slots
<1>10. b.slot = f.slot /\ b.piece = f.piece /\ b.shape = f.copy.shape
  BY <1>4
<1>11. \E i \in 1..(Len(bodies) + 1) :
         /\ i \notin Live /\ bodies'[i] = b
         /\ DOMAIN bodies' = DOMAIN bodies \cup {i}
         /\ \A k \in DOMAIN bodies : k # i => bodies'[k] = bodies[k]
  <2>1. \E i \in 1..(Len(bodies) + 1) :
         /\ i \notin Live /\ AddBody(b)[i] = b
         /\ DOMAIN AddBody(b) = DOMAIN bodies \cup {i}
         /\ \A k \in DOMAIN bodies : k # i => AddBody(b)[k] = bodies[k]
    BY <1>1, <1>8, NewBody
  <2> QED BY <1>5, <2>1
<1>12. bodies' \in Seq(BodyRecs \cup {None})
  <2>1. AddBody(b) \in Seq(BodyRecs \cup {None})
    BY <1>1, <1>8, NewBody
  <2> QED BY <1>5, <2>1
<1>13. CopyOk(Head(landing)) /\ Head(landing).kind = "extract"
  BY <1>5, LandingFacts
<1>14. field[f.piece].is # "air" /\ field[f.piece].shape = f.copy.shape
  <2>1. /\ f.seq \in Nat /\ f.seq <= log.seq
        /\ f.seq = log.seq => field[f.piece].is # "air" /\ field[f.piece].shape = f.copy.shape
    BY <1>2, <1>5, <1>13 DEF CopyOk
  <2>2. ~(log.seq > f.seq)
    BY <1>5 DEF Stale
  <2> QED BY <1>1, <2>1, <2>2
<1>15. atlas' \in [1..Atlas -> BOOLEAN]
  <2>1. \A x \in 1..Atlas : (atlas[x] \/ x = a) \in BOOLEAN
    OBVIOUS
  <2>2. atlas' = [x \in 1..Atlas |-> atlas[x] \/ x = a]
    BY <1>2, <1>3 DEF LandCarve
  <2> QED BY <2>1, <2>2, Zenon
<1>16. uploads' = IF b.atlas = 0 THEN uploads
                  ELSE Append(uploads, [slot |-> f.slot, atlas |-> b.atlas, data |-> f.copy])
  <2>1. uploads' = IF a = 0 THEN uploads
                   ELSE Append(uploads, [slot |-> f.slot, atlas |-> a, data |-> f.copy])
    BY <1>2, <1>3 DEF LandCarve
  <2>2. b.atlas = a
    BY <1>4
  <2> QED BY <2>1, <2>2
<1>17. PICK i \in 1..(Len(bodies) + 1) :
         /\ i \notin Live /\ bodies'[i] = b
         /\ DOMAIN bodies' = DOMAIN bodies \cup {i}
         /\ \A k \in DOMAIN bodies : k # i => bodies'[k] = bodies[k]
  BY <1>11
<1>18. CarvedOut(f, b, i)
  BY <1>2, <1>5, <1>6, <1>8, <1>9, <1>10, <1>12, <1>14, <1>15, <1>16, <1>17 DEF CarvedOut
<1> QED BY <1>18, Zenon

LEMMA CarveKeeps ==
  ASSUME SlotInv, LandCarve
  PROVE  SlotInv'
<1>1. /\ IslandsTypeOK /\ HeldOnce /\ UsedIsHeld /\ MergesHaveBodies /\ CopiesAge
      /\ log.seq \in Nat /\ Live \subseteq DOMAIN bodies /\ HeldSlots \subseteq Slots
      /\ MergeSlots \cap FlightSlots = {}
      /\ \A k \in DOMAIN merging : merging[k].body \in Live
  BY SlotFacts
<1>2. PICK f, b, i : CarvedOut(f, b, i)
  BY CarveFacts
<1> USE DEF CarvedOut
<1>3. Landing("extract") /\ UNCHANGED <<pc, batch, merging>>
  BY DEF LandCarve
<1>4. /\ f.slot \in FlightSlots /\ IsSequence(flying')
      /\ \A k \in DOMAIN flying' : FlightOk(flying'[k])
      /\ \A k, l \in DOMAIN flying' : flying'[k].slot = flying'[l].slot => k = l
      /\ FlightSlots' = FlightSlots \ {f.slot}
  BY <1>1, <1>2, TakesFacts
<1>5. /\ batch = None /\ pc = "land" /\ IsSequence(landing')
      /\ \A k \in DOMAIN landing' : \E l \in DOMAIN landing : landing'[k] = landing[l]
      /\ \A k \in DOMAIN landing' : landing'[k].kind # "resample"
  BY <1>3, LandingFacts
<1>6. Live' = Live \cup {i}
  BY <1>2 DEF Live
<1>7. \A k \in Live : k # i /\ bodies'[k] = bodies[k]
  BY <1>1, <1>2
<1>8. BodySlots' = BodySlots \cup {f.slot} /\ MergeSlots' = MergeSlots
  BY <1>2, <1>3, <1>6, <1>7 DEF BodySlots, MergeSlots
<1>9. log' \in [seq : Nat, tools : Nat, full : BOOLEAN, pastes : SUBSET PasteRecs]
      /\ log'.seq = log.seq + 1 /\ log'.pastes = log.pastes /\ PasteSlots' = PasteSlots
  <2>1. log \in [seq : Nat, tools : Nat, full : BOOLEAN, pastes : SUBSET PasteRecs]
    BY <1>1 DEF IslandsTypeOK
  <2>2. log' = [log EXCEPT !.seq = log.seq + 1] /\ log.seq + 1 \in Nat
    BY <1>1, <1>2
  <2> HIDE <1>1, <1>2
  <2> QED BY <2>1, <2>2 DEF PasteSlots
<1>10. f.slot \in Slots /\ f.slot \notin BodySlots \cup MergeSlots \cup PasteSlots
  BY <1>1, <1>4 DEF HeldOnce, HeldSlots
<1>11. HeldOnce'
  <2>1. \A k, l \in Live' : bodies'[k].slot = bodies'[l].slot => k = l
    <3> TAKE k, l \in Live'
    <3> HAVE bodies'[k].slot = bodies'[l].slot
    <3>1. \A m \in Live : bodies'[m].slot # f.slot
      BY <1>7, <1>10 DEF BodySlots
    <3>2. CASE k = i \/ l = i
      BY <1>2, <1>6, <3>1, <3>2
    <3>3. CASE k # i /\ l # i
      BY <1>1, <1>6, <1>7, <3>3 DEF HeldOnce
    <3> QED BY <3>2, <3>3
  <2>2. FlightSlots' \cap BodySlots' = {}
    BY <1>1, <1>4, <1>8 DEF HeldOnce
  <2>3. PasteSlots' \cap (FlightSlots' \cup BodySlots' \cup MergeSlots') = {}
    BY <1>1, <1>4, <1>8, <1>9, <1>10 DEF HeldOnce
  <2>4. \A k \in DOMAIN merging : Reuses(merging[k]) => Reuses(merging[k])'
    BY <1>1, <1>3, <1>7 DEF Reuses
  <2>5. \A k \in DOMAIN merging' : merging'[k].out \in FlightSlots' \cup BodySlots' => Reuses(merging[k])'
    BY <1>1, <1>3, <1>4, <1>8, <1>10, <2>4 DEF HeldOnce, MergeSlots
  <2> QED BY <1>1, <1>4, <1>9, <2>1, <2>2, <2>3, <2>5 DEF HeldOnce
<1>12. /\ volumes' \in [Slots -> [used : BOOLEAN, pinned : BOOLEAN, data : Data \cup {None}]]
       /\ \A s \in Slots : /\ volumes'[s].used = volumes[s].used
                           /\ volumes'[s].pinned = volumes[s].pinned
  <2>1. volumes \in [Slots -> [used : BOOLEAN, pinned : BOOLEAN, data : Data \cup {None}]]
    BY <1>1 DEF IslandsTypeOK
  <2>2. volumes' = Stored(volumes, f.slot, f.copy) /\ f.copy \in Data
    BY <1>2 DEF FlightOk
  <2> HIDE <1>1, <1>2
  <2> QED BY <1>10, <2>1, <2>2 DEF Stored
<1>13. UsedIsHeld'
  <2>1. HeldSlots' = HeldSlots
    BY <1>4, <1>8, <1>9 DEF HeldSlots
  <2> QED BY <1>1, <1>9, <1>12, <2>1 DEF UsedIsHeld
<1>14. field' \in [Pieces -> [is : {"anchored", "loose", "air"}, shape : Nat]]
  <2>1. [is |-> "air", shape |-> log.seq + 1] \in [is : {"anchored", "loose", "air"}, shape : Nat]
    BY <1>1
  <2> QED BY <1>1, <1>2, <2>1 DEF IslandsTypeOK
<1>15. IslandsTypeOK'
  BY <1>1, <1>2, <1>3, <1>4, <1>5, <1>9, <1>12, <1>14 DEF IslandsTypeOK, FlightOk
<1>16. MergesHaveBodies'
  BY <1>1, <1>3, <1>5, <1>6 DEF MergesHaveBodies, Alone
<1>17. CopiesAge'
  BY <1>1, <1>3, <1>5, <1>9, CopiesKept
<1> QED BY <1>11, <1>13, <1>15, <1>16, <1>17 DEF SlotInv

(* A resample that lands: there is one, its body lives, and it was alone.  *)
LEMMA ResampleFacts ==
  ASSUME SlotInv, Landing("resample"), merging' = Tail(merging)
  PROVE  /\ batch = None /\ pc = "land" /\ landing' = <<>> /\ merging' = <<>>
         /\ IsSequence(landing') /\ DOMAIN merging' = {} /\ MergeSlots' = {}
         /\ DOMAIN merging = {1} /\ Head(merging) = merging[1]
         /\ merging[1] \in MergeRecs /\ merging[1].body \in Live
         /\ MergeSlots = {merging[1].out}
<1>1. /\ batch = None /\ pc = "land" /\ landing' = <<>> /\ merging # <<>> /\ IsSequence(landing')
  BY LandingFacts
<1>2. /\ merging \in Seq(MergeRecs) /\ Len(merging) <= 1
      /\ \A k \in DOMAIN merging : merging[k].body \in Live
  BY DEF SlotInv, IslandsTypeOK, MergesHaveBodies
<1>3. /\ Tail(merging) \in Seq(MergeRecs) /\ Len(Tail(merging)) = Len(merging) - 1
      /\ Head(merging) = merging[1] /\ Len(merging) \in Nat \ {0}
  BY <1>1, <1>2, TailFacts
<1>4. Len(merging) = 1
  BY <1>2, <1>3
<1>5. DOMAIN merging = {1}
  BY <1>2, <1>4, LenProperties
<1>6. merging' = <<>> /\ DOMAIN merging' = {}
  BY <1>3, <1>4, EmptySeq
<1>7. merging[1] \in MergeRecs
  BY <1>2, <1>4, ElementOfSeq
<1> QED BY <1>1, <1>2, <1>3, <1>5, <1>6, <1>7 DEF MergeSlots

(* A resample is given up: its slot goes back, unless it is the body's.    *)
LEMMA UnpastedKeeps ==
  ASSUME SlotInv, LandUnpasted
  PROVE  SlotInv'
<1> DEFINE m == merging[1]
<1>1. /\ IslandsTypeOK /\ HeldOnce /\ UsedIsHeld /\ MergesHaveBodies /\ CopiesAge
      /\ log.seq \in Nat /\ HeldSlots \subseteq Slots /\ MergeSlots \cap FlightSlots = {}
  BY SlotFacts
<1>2. /\ Landing("resample") /\ merging' = Tail(merging)
      /\ UNCHANGED <<fieldVars, pc, batch, flying, atlas, bodies>>
  BY DEF LandUnpasted
<1>3. /\ batch = None /\ pc = "land" /\ landing' = <<>> /\ merging' = <<>>
      /\ IsSequence(landing') /\ DOMAIN merging' = {} /\ MergeSlots' = {}
      /\ DOMAIN merging = {1} /\ Head(merging) = m
      /\ m \in MergeRecs /\ m.body \in Live
      /\ MergeSlots = {m.out}
  BY <1>2, ResampleFacts
<1>4. IF Reuses(m) THEN volumes' = volumes ELSE volumes' = Released(volumes, m.out)
  BY <1>3 DEF LandUnpasted, ReleaseSlot
<1>5. /\ Live' = Live /\ FlightSlots' = FlightSlots
      /\ BodySlots' = BodySlots /\ PasteSlots' = PasteSlots
  BY <1>2 DEF Live, FlightSlots, BodySlots, PasteSlots, fieldVars
<1>6. HeldOnce'
  <2>1. PasteSlots' \cap (FlightSlots' \cup BodySlots' \cup MergeSlots') = {}
    BY <1>1, <1>3, <1>5 DEF HeldOnce
  <2> QED BY <1>1, <1>2, <1>3, <1>5, <2>1 DEF HeldOnce, fieldVars
<1>7. m.out \in Slots
  BY <1>3 DEF MergeRecs
<1>8. /\ volumes \in [Slots -> [used : BOOLEAN, pinned : BOOLEAN, data : Data \cup {None}]]
      /\ volumes' \in [Slots -> [used : BOOLEAN, pinned : BOOLEAN, data : Data \cup {None}]]
  BY <1>1, <1>4, <1>7, ReleasedFacts DEF IslandsTypeOK
<1>9. UsedIsHeld'
  <2>1. CASE Reuses(m)
    <3>1. m.out \in BodySlots
      BY <1>3, <2>1 DEF Reuses, BodySlots
    <3>2. HeldSlots' = HeldSlots
      BY <1>3, <1>5, <3>1 DEF HeldSlots
    <3> QED BY <1>1, <1>4, <1>5, <2>1, <3>2 DEF UsedIsHeld
  <2>2. CASE ~Reuses(m)
    <3>1. m.out \notin FlightSlots \cup BodySlots \cup PasteSlots
      BY <1>1, <1>3, <2>2 DEF HeldOnce
    <3>2. HeldSlots' = HeldSlots \ {m.out} /\ m.out \in HeldSlots
      BY <1>3, <1>5, <3>1 DEF HeldSlots
    <3>3. \A t \in Slots : /\ volumes'[t].used <=> volumes[t].used /\ (t = m.out => volumes[t].pinned)
                           /\ volumes'[t].pinned <=> volumes[t].pinned
      BY <1>4, <1>7, <1>8, <2>2, ReleasedFacts
    <3> QED BY <1>1, <1>5, <1>7, <3>1, <3>2, <3>3 DEF UsedIsHeld
  <2> QED BY <2>1, <2>2
<1>10. merging' \in Seq(MergeRecs) /\ Len(merging') = 0
  BY <1>3, EmptySeq
<1>11. IslandsTypeOK'
  BY <1>1, <1>2, <1>3, <1>8, <1>10 DEF IslandsTypeOK, fieldVars, IsSequence, FlightOk
<1>12. MergesHaveBodies'
  <2>1. DOMAIN landing' = {}
    BY <1>3
  <2> QED BY <1>1, <1>2, <1>3, <1>10, <2>1 DEF MergesHaveBodies, Alone
<1>13. CopiesAge'
  BY <1>1, <1>2, <1>3, CopiesKept DEF fieldVars
<1> QED BY <1>6, <1>9, <1>11, <1>12, <1>13 DEF SlotInv

(* What a paste does to the pool, the bodies and the log.                  *)
Pastes(m, rest, vs) ==
  /\ m = merging[1] /\ rest \in Data
  /\ rest.piece = bodies[m.body].piece /\ rest.form = "rest"
  /\ vs \in [Slots -> [used : BOOLEAN, pinned : BOOLEAN, data : Data \cup {None}]]
  /\ vs[m.out].used /\ vs[m.out].pinned /\ vs[m.out].data = rest
  /\ \A t \in Slots \ {m.out} : vs[t] = volumes[t]
  /\ volumes' = Released(vs, bodies[m.body].slot)
  /\ frees' = FreeQueue(vs, bodies[m.body].slot)
  /\ uploads' = Append(uploads, [slot |-> m.out, atlas |-> 0, data |-> rest])
  /\ bodies' = [bodies EXCEPT ![m.body] = None]
  /\ atlas' \in [1..Atlas -> BOOLEAN]
  /\ log' = [log EXCEPT !.seq = @ + 1, !.pastes = @ \cup {[slot |-> m.out, data |-> rest]}]

(* The paste: the volume is stored and pinned, and the body's own slot     *)
(* goes back unless it is the one the paste took over.                     *)
LEMMA PasteFacts ==
  ASSUME SlotInv, LandPaste
  PROVE  \E m, rest, vs : Pastes(m, rest, vs)
<1>1. /\ IslandsTypeOK /\ HeldOnce /\ UsedIsHeld /\ log.seq \in Nat
      /\ \A i \in Live : bodies[i] \in BodyRecs
  BY SlotFacts
<1>2. PICK m : m = merging[1]
  OBVIOUS
<1>3. PICK rest : rest = [piece |-> bodies[m.body].piece, shape |-> bodies[m.body].shape, form |-> "rest"]
  OBVIOUS
<1>4. PICK vs : vs = Pinned(Stored(volumes, m.out, rest), m.out)
  OBVIOUS
<1>5. Landing("resample") /\ merging' = Tail(merging)
  BY DEF LandPaste
<1>6. /\ m = Head(merging) /\ m \in MergeRecs /\ m.body \in Live /\ MergeSlots = {m.out}
  BY <1>2, <1>5, ResampleFacts
<1>7. /\ volumes' = Released(vs, bodies[m.body].slot)
      /\ frees' = FreeQueue(vs, bodies[m.body].slot)
      /\ uploads' = Append(uploads, [slot |-> m.out, atlas |-> 0, data |-> rest])
      /\ bodies' = [bodies EXCEPT ![m.body] = None]
      /\ log' = [log EXCEPT !.seq = @ + 1, !.pastes = @ \cup {[slot |-> m.out, data |-> rest]}]
  BY <1>3, <1>4, <1>6 DEF LandPaste, Despawn
<1>8. atlas' = [a \in 1..Atlas |-> atlas[a] /\ a # bodies[m.body].atlas]
  BY <1>6 DEF LandPaste, Despawn
<1>9. atlas' \in [1..Atlas -> BOOLEAN]
  <2>1. \A a \in 1..Atlas : (atlas[a] /\ a # bodies[m.body].atlas) \in BOOLEAN
    OBVIOUS
  <2> QED BY <1>8, <2>1, Zenon
<1>10. rest \in Data /\ rest # None
  <2>1. bodies[m.body] \in BodyRecs
    BY <1>1, <1>6
  <2>2. rest \in [piece : Pieces, shape : Nat, form : {"birth", "rest"}]
    BY <1>3, <2>1 DEF BodyRecs
  <2> QED BY <2>2, NoneAssumption DEF Data
<1>11. m.out \in Slots /\ volumes[m.out].used /\ ~volumes[m.out].pinned
  <2>1. m.out \in HeldSlots \ PasteSlots /\ m.out \in Slots
    BY <1>1, <1>6 DEF HeldOnce, HeldSlots, MergeRecs
  <2> QED BY <1>1, <2>1 DEF UsedIsHeld
<1>12. /\ vs \in [Slots -> [used : BOOLEAN, pinned : BOOLEAN, data : Data \cup {None}]]
       /\ vs[m.out].used /\ vs[m.out].pinned /\ vs[m.out].data = rest
       /\ \A t \in Slots \ {m.out} : vs[t] = volumes[t]
  <2>1. volumes \in [Slots -> [used : BOOLEAN, pinned : BOOLEAN, data : Data \cup {None}]]
    BY <1>1 DEF IslandsTypeOK
  <2>2. PICK v : v = Stored(volumes, m.out, rest)
    OBVIOUS
  <2>3. /\ v \in [Slots -> [used : BOOLEAN, pinned : BOOLEAN, data : Data \cup {None}]]
        /\ v[m.out].used /\ v[m.out].data = rest
        /\ \A t \in Slots \ {m.out} : v[t] = volumes[t]
    BY <1>10, <1>11, <2>1, <2>2 DEF Stored
  <2>4. vs = [v EXCEPT ![m.out].pinned = TRUE]
    BY <1>4, <1>10, <2>2, <2>3 DEF Pinned
  <2> QED BY <1>11, <2>3, <2>4
<1>13. rest.piece = bodies[m.body].piece /\ rest.form = "rest"
  BY <1>3
<1>14. Pastes(m, rest, vs)
  BY <1>2, <1>7, <1>9, <1>10, <1>12, <1>13 DEF Pastes
<1> QED BY <1>14, Zenon

LEMMA PasteKeeps ==
  ASSUME SlotInv, LandPaste
  PROVE  SlotInv'
<1>1. /\ IslandsTypeOK /\ HeldOnce /\ UsedIsHeld /\ MergesHaveBodies /\ CopiesAge
      /\ log.seq \in Nat /\ HeldSlots \subseteq Slots /\ MergeSlots \cap FlightSlots = {}
      /\ Live \subseteq DOMAIN bodies /\ \A i \in Live : bodies[i] \in BodyRecs
  BY SlotFacts
<1>2. PICK m, rest, vs : Pastes(m, rest, vs)
  BY PasteFacts
<1> USE DEF Pastes
<1>3. /\ Landing("resample") /\ merging' = Tail(merging) /\ UNCHANGED <<field, pc, batch, flying>>
  BY DEF LandPaste
<1>4. /\ batch = None /\ pc = "land" /\ landing' = <<>> /\ merging' = <<>>
      /\ IsSequence(landing') /\ DOMAIN merging' = {} /\ MergeSlots' = {}
      /\ m \in MergeRecs /\ m.body \in Live
      /\ MergeSlots = {m.out} /\ DOMAIN merging = {1}
  BY <1>2, <1>3, ResampleFacts
<1>5. PICK birth : birth = bodies[m.body].slot
  OBVIOUS
<1>6. /\ birth \in Slots /\ birth \in BodySlots /\ birth \notin FlightSlots \cup PasteSlots
      /\ m.out \in Slots /\ m.out \notin FlightSlots \cup PasteSlots
      /\ m.out \in BodySlots => m.out = birth
  <2>1. birth \in BodySlots /\ birth \in Slots
    BY <1>1, <1>4, <1>5 DEF BodySlots, BodyRecs
  <2> QED BY <1>1, <1>2, <1>4, <1>5, <2>1 DEF HeldOnce, MergeRecs, Reuses
<1>7. Live' = Live \ {m.body} /\ \A i \in Live' : bodies'[i] = bodies[i]
  BY <1>1, <1>2, <1>4 DEF Live
<1>8. BodySlots' = BodySlots \ {birth}
  <2>1. \A i \in Live : bodies[i].slot = birth <=> i = m.body
    BY <1>1, <1>4, <1>5 DEF HeldOnce
  <2> QED BY <1>7, <2>1 DEF BodySlots
<1>9. /\ log'.seq = log.seq + 1
      /\ log'.pastes = log.pastes \cup {[slot |-> m.out, data |-> rest]}
      /\ log' \in [seq : Nat, tools : Nat, full : BOOLEAN, pastes : SUBSET PasteRecs]
  <2>1. log \in [seq : Nat, tools : Nat, full : BOOLEAN, pastes : SUBSET PasteRecs]
    BY <1>1 DEF IslandsTypeOK
  <2>2. PICK ps : ps = log.pastes \cup {[slot |-> m.out, data |-> rest]}
    OBVIOUS
  <2>3. ps \in SUBSET PasteRecs
    BY <1>2, <1>6, <2>1, <2>2 DEF PasteRecs
  <2>4. log' = [log EXCEPT !.seq = log.seq + 1, !.pastes = ps] /\ log.seq + 1 \in Nat
    BY <1>1, <1>2, <2>2
  <2> HIDE <1>1, <1>2
  <2> QED BY <2>1, <2>2, <2>3, <2>4
<1>10. PasteSlots' = PasteSlots \cup {m.out} /\ FlightSlots' = FlightSlots
  <2>1. PICK x : x = [slot |-> m.out, data |-> rest]
    OBVIOUS
  <2>2. x.slot = m.out /\ log'.pastes = log.pastes \cup {x}
    BY <1>9, <2>1
  <2>3. FlightSlots' = FlightSlots
    BY <1>3 DEF FlightSlots
  <2> QED BY <2>2, <2>3 DEF PasteSlots
<1>11. HeldOnce'
  <2>1. \A x, y \in log'.pastes : x.slot = y.slot => x = y
    <3>1. \A x \in log.pastes : x.slot # m.out
      BY <1>6 DEF PasteSlots
    <3> QED BY <1>1, <1>9, <3>1 DEF HeldOnce
  <2>2. PasteSlots' \cap (FlightSlots' \cup BodySlots' \cup MergeSlots') = {}
    BY <1>1, <1>4, <1>6, <1>8, <1>10 DEF HeldOnce
  <2>3. FlightSlots' \cap BodySlots' = {}
    BY <1>1, <1>8, <1>10 DEF HeldOnce
  <2>4. \A i, j \in Live' : bodies'[i].slot = bodies'[j].slot => i = j
    BY <1>1, <1>7 DEF HeldOnce
  <2> QED BY <1>1, <1>3, <1>4, <2>1, <2>2, <2>3, <2>4 DEF HeldOnce
<1>12. /\ volumes' \in [Slots -> [used : BOOLEAN, pinned : BOOLEAN, data : Data \cup {None}]]
       /\ \A t \in Slots : /\ volumes'[t].used <=> vs[t].used /\ (t = birth => vs[t].pinned)
                           /\ volumes'[t].pinned <=> vs[t].pinned
  <2>1. /\ vs \in [Slots -> [used : BOOLEAN, pinned : BOOLEAN, data : Data \cup {None}]]
        /\ volumes' = Released(vs, birth)
    BY <1>2, <1>5
  <2>2. birth \in Slots
    BY <1>6
  <2> HIDE DEF Pastes
  <2> QED BY <2>1, <2>2, ReleasedFacts
<1>13. HeldSlots' = (HeldSlots \ {birth}) \cup {m.out}
  BY <1>1, <1>4, <1>6, <1>8, <1>10 DEF HeldSlots
<1>14. UsedIsHeld'
  <2> SUFFICES ASSUME NEW t \in Slots
               PROVE  /\ volumes'[t].used <=> t \in HeldSlots'
                      /\ volumes'[t].pinned <=> t \in PasteSlots'
    BY DEF UsedIsHeld
  <2>1. CASE t = m.out
    BY <1>2, <1>10, <1>12, <1>13, <2>1
  <2>2. CASE t # m.out
    <3>1. /\ vs[t].used <=> t \in HeldSlots
          /\ vs[t].pinned <=> t \in PasteSlots
      BY <1>1, <1>2, <2>2 DEF UsedIsHeld
    <3> QED BY <1>6, <1>10, <1>12, <1>13, <2>2, <3>1
  <2> QED BY <2>1, <2>2
<1>15. /\ merging' \in Seq(MergeRecs) /\ Len(merging') = 0
       /\ bodies' \in Seq(BodyRecs \cup {None})
  <2>1. bodies \in Seq(BodyRecs \cup {None}) /\ m.body \in 1..Len(bodies)
    BY <1>1, <1>4, LenProperties DEF IslandsTypeOK
  <2> QED BY <1>2, <1>4, <2>1, EmptySeq, ExceptSeq
<1>16. IslandsTypeOK'
  BY <1>1, <1>2, <1>3, <1>4, <1>9, <1>12, <1>15 DEF IslandsTypeOK, IsSequence, FlightOk
<1>17. MergesHaveBodies'
  <2>1. DOMAIN landing' = {}
    BY <1>4
  <2>2. batch' = None
    BY <1>3, <1>4
  <2>3. Len(merging') <= 1
    BY <1>15
  <2> QED BY <1>4, <2>1, <2>2, <2>3 DEF MergesHaveBodies, Alone
<1>18. CopiesAge'
  BY <1>1, <1>3, <1>4, <1>9, CopiesKept
<1> QED BY <1>11, <1>14, <1>16, <1>17, <1>18 DEF SlotInv

(* What a search does whose batch the service takes.                       *)
Dispatched(w, pieces, T, slots) ==
  /\ \A n \in Room(pieces) : Len(slots) <= n
  /\ volumes' = [s \in Slots |-> IF s \in T THEN [Blank EXCEPT !.used = TRUE] ELSE volumes[s]]
  /\ flying' = Flights(w, pieces, slots)
  /\ batch' = [done |-> FALSE,
               jobs |-> [i \in DOMAIN slots |-> ExtractJob(Flights(w, pieces, slots)[i])]]

(* Each flight has a free slot to itself, and a copy of a piece.           *)
LEMMA SearchFacts ==
  ASSUME NEW S \in SUBSET Pieces, NEW pieces \in Orders(S), NEW accepted \in BOOLEAN,
         Search(pieces, accepted), ~ UNCHANGED <<volumes, flying, batch>>
  PROVE  \E w, T, slots :
            /\ Dispatched(w, pieces, T, slots)
            /\ T \subseteq FreeSlots(volumes) /\ Cardinality(T) \in Nat
            /\ slots \in [1..Cardinality(T) -> T]
            /\ \A i, j \in 1..Cardinality(T) : slots[i] = slots[j] => i = j
            /\ \A t \in T : \E i \in 1..Cardinality(T) : slots[i] = t
            /\ \A i \in 1..Cardinality(T) : pieces[i] \in Pieces
<1>1. PICK w : w = Head(DrainInbox(windows))
  OBVIOUS
<1>2. \E T \in SUBSET FreeSlots(volumes) : \E slots \in Orders(T) : Dispatched(w, pieces, T, slots)
  BY <1>1 DEF Search, Dispatched
<1>0. PICK T \in SUBSET FreeSlots(volumes) :
        \E slots \in Orders(T) : Dispatched(w, pieces, T, slots)
  BY <1>2
<1>3. PICK slots \in Orders(T) : Dispatched(w, pieces, T, slots)
  BY <1>0
<1>4. /\ slots \in [1..Cardinality(T) -> T]
      /\ \A i, j \in 1..Cardinality(T) : slots[i] = slots[j] => i = j
      /\ pieces \in [1..Cardinality(S) -> S]
  BY DEF Orders, SetToSeqs
<1>5. IsFiniteSet(T) /\ Cardinality(T) \in Nat /\ Cardinality(S) \in Nat
  <2>1. Volumes \in Nat /\ IsFiniteSet(Pieces)
    BY IslandsAssumption DEF IslandsAssumption
  <2>2. IsFiniteSet(1..Volumes)
    BY <2>1, FS_Interval
  <2>3. T \subseteq 1..Volumes
    BY DEF FreeSlots, Slots
  <2>4. IsFiniteSet(T) /\ IsFiniteSet(S)
    BY <2>1, <2>2, <2>3, FS_Subset
  <2> QED BY <2>4, FS_CardinalityType
<1>6. \A t \in T : \E i \in 1..Cardinality(T) : slots[i] = t
  <2>1. PICK D : D = 1..Cardinality(T)
    OBVIOUS
  <2>2. IsFiniteSet(D) /\ Cardinality(D) = Cardinality(T)
    BY <1>5, <2>1, FS_Interval
  <2>3. slots \in Injection(D, T)
    BY <1>4, <2>1 DEF Injection, IsInjective
  <2>4. slots \in Surjection(D, T)
    BY <1>5, <2>2, <2>3, FS_Injection
  <2> QED BY <2>1, <2>4 DEF Surjection
<1>7. \A i \in 1..Cardinality(T) : pieces[i] \in Pieces
  <2>1. slots \in Seq(T) /\ pieces \in Seq(S)
    BY <1>4, <1>5, SeqDef
  <2>2. Len(slots) = Cardinality(T) /\ Len(pieces) = Cardinality(S)
    <3>1. DOMAIN slots = 1..Len(slots) /\ Len(slots) \in Nat /\ DOMAIN pieces = 1..Len(pieces) /\ Len(pieces) \in Nat
      BY <2>1, LenProperties
    <3>2. 1..Len(slots) = 1..Cardinality(T) /\ 1..Len(pieces) = 1..Cardinality(S)
      BY <1>4, <3>1
    <3> QED BY <1>5, <3>1, <3>2
  <2>3. Cardinality(T) <= Cardinality(S)
    BY <1>3, <2>2 DEF Dispatched, Room
  <2> QED BY <1>4, <1>5, <2>3
<1> QED BY <1>3, <1>4, <1>5, <1>6, <1>7

(* A slot that has just been allocated.                                    *)
LEMMA BlankUsed ==
  \E v \in [used : BOOLEAN, pinned : BOOLEAN, data : Data \cup {None}] :
     v = [Blank EXCEPT !.used = TRUE] /\ v.used /\ ~v.pinned
<1>1. PICK b \in [used : BOOLEAN, pinned : BOOLEAN, data : Data \cup {None}] :
        b = Blank /\ ~b.pinned
  <2>1. Blank \in [used : BOOLEAN, pinned : BOOLEAN, data : Data \cup {None}]
    BY DEF Blank
  <2>2. ~Blank.pinned
    BY DEF Blank
  <2> QED BY <2>1, <2>2
<1>2. /\ [b EXCEPT !.used = TRUE] \in [used : BOOLEAN, pinned : BOOLEAN, data : Data \cup {None}]
      /\ [b EXCEPT !.used = TRUE].used /\ ~[b EXCEPT !.used = TRUE].pinned
  BY <1>1
<1> QED BY <1>1, <1>2, Zenon

LEMMA SearchKeeps ==
  ASSUME SlotInv, SearchStep
  PROVE  SlotInv'
<1>1. /\ IslandsTypeOK /\ HeldOnce /\ UsedIsHeld /\ MergesHaveBodies /\ CopiesAge
      /\ log.seq \in Nat /\ HeldSlots \subseteq Slots
  BY SlotFacts
<1>0. PICK S \in SUBSET Pieces :
        \E pieces \in Orders(S), accepted \in BOOLEAN : Search(pieces, accepted)
  BY DEF SearchStep
<1>2. PICK pieces \in Orders(S), accepted \in BOOLEAN : Search(pieces, accepted)
  BY <1>0
<1>3. /\ landing' = landing /\ landing = <<>> /\ batch = None /\ flying = <<>>
      /\ UNCHANGED <<fieldVars, bodyVars>>
  BY <1>2 DEF Search
<1>4. CASE UNCHANGED <<volumes, flying, batch>>
  <2>1. IslandsTypeOK'
    BY <1>1, <1>3, <1>4 DEF IslandsTypeOK, fieldVars, bodyVars, IsSequence, FlightOk
  <2>2. HeldOnce' /\ UsedIsHeld' /\ Live' = Live
    BY <1>1, <1>3, <1>4, HoldersKept DEF fieldVars, bodyVars, MergesHaveBodies
  <2>3. MergesHaveBodies'
    BY <1>1, <1>3, <1>4, <2>2 DEF MergesHaveBodies, Alone, bodyVars
  <2>4. CopiesAge'
    BY <1>1, <1>3, <1>4, CopiesKept DEF fieldVars
  <2> QED BY <2>1, <2>2, <2>3, <2>4 DEF SlotInv
<1>5. CASE ~ UNCHANGED <<volumes, flying, batch>>
  <2>1. PICK w, T, slots :
            /\ Dispatched(w, pieces, T, slots)
            /\ T \subseteq FreeSlots(volumes) /\ Cardinality(T) \in Nat
            /\ slots \in [1..Cardinality(T) -> T]
            /\ \A i, j \in 1..Cardinality(T) : slots[i] = slots[j] => i = j
            /\ \A t \in T : \E i \in 1..Cardinality(T) : slots[i] = t
            /\ \A i \in 1..Cardinality(T) : pieces[i] \in Pieces
    BY <1>2, <1>5, SearchFacts
  <2>2. PICK n \in Nat : n = Cardinality(T)
    BY <2>1
  <2>3. /\ volumes' = [s \in Slots |-> IF s \in T THEN [Blank EXCEPT !.used = TRUE] ELSE volumes[s]]
        /\ flying' = Flights(w, pieces, slots)
        /\ batch' = [done |-> FALSE, jobs |-> [i \in DOMAIN slots |-> ExtractJob(flying'[i])]]
    BY <2>1 DEF Dispatched
  <2>4. /\ DOMAIN flying' = 1..n /\ DOMAIN slots = 1..n
        /\ \A i \in 1..n : flying'[i] = [piece |-> pieces[i], slot |-> slots[i], window |-> w,
                                         seq |-> log.seq,
                                         copy |-> [piece |-> pieces[i], shape |-> field[pieces[i]].shape,
                                                   form |-> "birth"]]
    BY <2>1, <2>2, <2>3 DEF Flights
  <2>5. \A i \in 1..n : /\ flying'[i].slot = slots[i] /\ flying'[i].piece = pieces[i]
                        /\ flying'[i].seq = log.seq /\ flying'[i].copy.piece = pieces[i]
                        /\ flying'[i].copy.shape = field[pieces[i]].shape
    BY <2>4
  <2>6. T \subseteq Slots /\ T \cap HeldSlots = {}
    BY <1>1, <2>1 DEF FreeSlots, UsedIsHeld
  <2>7. \A i \in DOMAIN flying' : FlightOk(flying'[i])
    <3> SUFFICES ASSUME NEW i \in 1..n PROVE FlightOk(flying'[i])
      BY <2>4
    <3>1. slots[i] \in Slots /\ pieces[i] \in Pieces
      BY <2>1, <2>2, <2>6
    <3>2. field[pieces[i]].shape \in Nat
      BY <1>1, <3>1 DEF IslandsTypeOK
    <3> QED BY <2>4, <3>1, <3>2 DEF FlightOk, Data
  <2>8. IsSequence(flying')
    <3>1. flying' \in [1..n -> Range(flying')]
      <4>1. flying' = [i \in 1..n |-> flying'[i]]
        BY <2>3, <2>4 DEF Flights
      <4> QED BY <2>4, <4>1 DEF Range
    <3> QED BY <3>1, SeqDef DEF IsSequence
  <2>9. FlightSlots' = T /\ FlightSlots = {}
    <3>1. FlightSlots' = {slots[i] : i \in 1..n}
      BY <2>4, <2>5 DEF FlightSlots
    <3>2. {slots[i] : i \in 1..n} = T
      BY <2>1, <2>2
    <3>3. DOMAIN flying = {}
      BY <1>3
    <3> QED BY <3>1, <3>2, <3>3 DEF FlightSlots
  <2>10. /\ Live' = Live /\ BodySlots' = BodySlots
         /\ MergeSlots' = MergeSlots /\ PasteSlots' = PasteSlots
    BY <1>3 DEF Live, BodySlots, MergeSlots, PasteSlots, fieldVars, bodyVars
  <2>11. HeldSlots' = HeldSlots \cup T
    BY <2>9, <2>10 DEF HeldSlots
  <2>12. HeldOnce'
    <3>1. \A i, j \in DOMAIN flying' : flying'[i].slot = flying'[j].slot => i = j
      BY <2>1, <2>2, <2>4, <2>5
    <3>2. T \cap BodySlots = {} /\ T \cap MergeSlots = {} /\ T \cap PasteSlots = {}
      BY <2>6 DEF HeldSlots
    <3>3. \A k \in DOMAIN merging : merging[k].out \notin T
      BY <3>2 DEF MergeSlots
    <3>4. FlightSlots' \cap BodySlots' = {}
      BY <2>9, <2>10, <3>2
    <3>5. PasteSlots' \cap (FlightSlots' \cup BodySlots' \cup MergeSlots') = {}
      BY <1>1, <2>9, <2>10, <3>2 DEF HeldOnce
    <3>6. \A k \in DOMAIN merging' :
             merging'[k].out \in FlightSlots' \cup BodySlots' => Reuses(merging[k])'
      BY <1>1, <1>3, <2>9, <2>10, <3>3 DEF HeldOnce, Reuses, bodyVars
    <3> QED BY <1>1, <1>3, <2>10, <3>1, <3>4, <3>5, <3>6 DEF HeldOnce, fieldVars, bodyVars
  <2>13. /\ volumes' \in [Slots -> [used : BOOLEAN, pinned : BOOLEAN, data : Data \cup {None}]]
         /\ \A s \in Slots : /\ volumes'[s].used <=> volumes[s].used \/ s \in T
                             /\ volumes'[s].pinned <=> volumes[s].pinned /\ s \notin T
    <3>1. PICK v \in [used : BOOLEAN, pinned : BOOLEAN, data : Data \cup {None}] :
             v = [Blank EXCEPT !.used = TRUE] /\ v.used /\ ~v.pinned
      BY BlankUsed
    <3>3. volumes \in [Slots -> [used : BOOLEAN, pinned : BOOLEAN, data : Data \cup {None}]]
      BY <1>1 DEF IslandsTypeOK
    <3>4. volumes' = [s \in Slots |-> IF s \in T THEN v ELSE volumes[s]]
      BY <2>3, <3>1
    <3> QED BY <3>1, <3>3, <3>4
  <2>14. UsedIsHeld'
    <3> SUFFICES ASSUME NEW s \in Slots PROVE /\ volumes'[s].used <=> s \in HeldSlots'
                                              /\ volumes'[s].pinned <=> s \in PasteSlots'
      BY DEF UsedIsHeld
    <3>1. /\ volumes[s].used <=> s \in HeldSlots
          /\ volumes[s].pinned <=> s \in PasteSlots
          /\ s \in PasteSlots => s \in HeldSlots
      BY <1>1 DEF UsedIsHeld, HeldSlots
    <3> QED BY <2>6, <2>10, <2>11, <2>13, <3>1
  <2>15. /\ DOMAIN batch'.jobs = 1..n
         /\ \A i \in 1..n : batch'.jobs[i] = [kind |-> "extract", flight |-> flying'[i],
              result |-> IF pieces[i] \in Sheets \/ field[pieces[i]].is = "air" THEN "empty" ELSE "copied"]
    <3>1. batch'.jobs = [i \in 1..n |-> ExtractJob(flying'[i])]
      BY <2>3, <2>4
    <3> QED BY <2>5, <3>1 DEF ExtractJob
  <2>16. \A i \in 1..n : /\ batch'.jobs[i].kind = "extract" /\ batch'.jobs[i].flight = flying'[i]
                         /\ batch'.jobs[i].result = "copied" => field[pieces[i]].is # "air"
                         /\ "result" \in DOMAIN batch'.jobs[i]
    <3> SUFFICES ASSUME NEW i \in 1..n
                 PROVE  /\ batch'.jobs[i].kind = "extract" /\ batch'.jobs[i].flight = flying'[i]
                        /\ batch'.jobs[i].result = "copied" => field[pieces[i]].is # "air"
                        /\ "result" \in DOMAIN batch'.jobs[i]
      OBVIOUS
    <3>1. PICK r : r = IF pieces[i] \in Sheets \/ field[pieces[i]].is = "air" THEN "empty" ELSE "copied"
      OBVIOUS
    <3>2. PICK f : f = flying'[i]
      OBVIOUS
    <3>3. batch'.jobs[i] = [kind |-> "extract", flight |-> f, result |-> r]
      BY <2>15, <3>1, <3>2
    <3>4. "result" \in DOMAIN batch'.jobs[i]
      BY <3>3
    <3> QED BY <3>1, <3>2, <3>3, <3>4
  <2>17. IsSequence(batch'.jobs)
    <3>1. batch'.jobs = [i \in 1..n |-> ExtractJob(flying'[i])]
      BY <2>3, <2>4
    <3>2. batch'.jobs \in [1..n -> Range(batch'.jobs)]
      BY <3>1 DEF Range
    <3> QED BY <3>2, SeqDef DEF IsSequence
  <2>18. IslandsTypeOK'
    BY <1>1, <1>3, <2>7, <2>8, <2>13, <2>15, <2>16, <2>17
       DEF IslandsTypeOK, fieldVars, bodyVars, FlightOk, IsSequence
  <2>19. MergesHaveBodies'
    <3>1. Alone(batch.jobs)'
      BY <2>15, <2>16 DEF Alone
    <3> QED BY <1>1, <1>3, <2>10, <3>1 DEF MergesHaveBodies, Alone, bodyVars
  <2>20. CopiesAge'
    <3>1. ASSUME NEW i \in DOMAIN batch'.jobs PROVE CopyOk(batch.jobs[i])'
      <4>1. i \in 1..n
        BY <2>15
      <4>2. pieces[i] \in Pieces
        BY <2>1, <2>2, <4>1
      <4> QED BY <1>1, <1>3, <2>5, <2>16, <4>1, <4>2 DEF CopyOk, fieldVars
    <3>2. \A i \in DOMAIN landing' : CopyOk(landing[i])'
      BY <1>3
    <3> QED BY <3>1, <3>2 DEF CopiesAge
  <2> QED BY <2>12, <2>14, <2>18, <2>19, <2>20 DEF SlotInv
<1> QED BY <1>4, <1>5

(* A resample starts, in a free slot or in the one its body was born with. *)
LEMMA MergeKeeps ==
  ASSUME SlotInv, NEW i, NEW accepted \in BOOLEAN, StartMerge(i, accepted)
  PROVE  SlotInv'
<1>1. /\ IslandsTypeOK /\ HeldOnce /\ UsedIsHeld /\ MergesHaveBodies /\ CopiesAge
      /\ log.seq \in Nat /\ HeldSlots \subseteq Slots
      /\ Live \subseteq DOMAIN bodies /\ \A k \in Live : bodies[k] \in BodyRecs
  BY SlotFacts
<1>2. /\ pc = "merge" /\ merging = <<>> /\ batch = None /\ i \in Live
      /\ UNCHANGED <<fieldVars, landing, flying, atlas, bodies>>
  BY DEF StartMerge
<1>3. landing = <<>>
  BY <1>1, <1>2 DEF MergesHaveBodies
<1>4. CASE ~accepted
  <2>1. UNCHANGED <<volumes, merging, batch>>
    BY <1>4 DEF StartMerge
  <2>2. IslandsTypeOK'
    BY <1>1, <1>2, <2>1 DEF IslandsTypeOK, fieldVars, IsSequence, FlightOk
  <2>3. HeldOnce' /\ UsedIsHeld' /\ Live' = Live
    BY <1>1, <1>2, <2>1, HoldersKept DEF fieldVars, MergesHaveBodies
  <2>4. MergesHaveBodies'
    BY <1>1, <1>2, <1>3, <2>1, <2>3 DEF MergesHaveBodies, Alone
  <2>5. CopiesAge'
    BY <1>1, <1>2, <2>1, CopiesKept DEF fieldVars
  <2> QED BY <2>2, <2>3, <2>4, <2>5 DEF SlotInv
<1>5. CASE accepted
  <2>1. PICK birth : birth = bodies[i].slot
    OBVIOUS
  <2>2. PICK out : out = IF FreeSlots(volumes) # {} THEN FirstFree(volumes) ELSE birth
    OBVIOUS
  <2>3. PICK m : m = [body |-> i, out |-> out, pose |-> bodies[i].pose]
    OBVIOUS
  <2>4. /\ volumes' = IF out = birth THEN volumes ELSE Allocated(volumes, out)
        /\ merging' = <<m>>
        /\ batch' = [done |-> FALSE, jobs |-> <<[kind |-> "resample", result |-> "copied"]>>]
    BY <1>5, <2>1, <2>2, <2>3 DEF StartMerge
  <2>5. /\ birth \in Slots /\ birth \in BodySlots /\ birth \in HeldSlots /\ volumes[birth].used
    BY <1>1, <1>2, <2>1 DEF BodySlots, BodyRecs, HeldSlots, UsedIsHeld
  <2>6. out = birth \/ out \in FreeSlots(volumes)
    <3>1. CASE FreeSlots(volumes) # {}
      <4>1. FreeSlots(volumes) \subseteq Nat
        <5>1. Volumes \in Nat
          BY IslandsAssumption DEF IslandsAssumption
        <5> QED BY <5>1 DEF FreeSlots, Slots
      <4>2. \E s \in FreeSlots(volumes) : \A t \in FreeSlots(volumes) : s <= t
        BY <3>1, <4>1, LeastNatural
      <4> QED BY <2>2, <3>1, <4>2 DEF FirstFree
    <3>2. CASE FreeSlots(volumes) = {}
      BY <2>2, <3>2
    <3> QED BY <3>1, <3>2
  <2>7. out \in Slots /\ (out # birth => ~volumes[out].used)
    BY <2>5, <2>6 DEF FreeSlots
  <2>8. m \in MergeRecs /\ m.body = i /\ m.out = out
    <3>1. i \in Nat
      <4>1. bodies \in Seq(BodyRecs \cup {None}) /\ i \in DOMAIN bodies
        BY <1>1, <1>2 DEF IslandsTypeOK
      <4>2. i \in 1..Len(bodies) /\ Len(bodies) \in Nat
        BY <4>1, LenProperties
      <4> QED BY <4>2
    <3>2. bodies[i].pose \in {0, 1}
      BY <1>1, <1>2 DEF BodyRecs
    <3> QED BY <2>3, <2>7, <3>1, <3>2 DEF MergeRecs
  <2>9. /\ merging' \in Seq(MergeRecs) /\ DOMAIN merging' = {1} /\ merging'[1] = m
        /\ Len(merging') = 1 /\ merging' # <<>>
    BY <2>4, <2>8
  <2>10. /\ Live' = Live /\ FlightSlots' = FlightSlots /\ BodySlots' = BodySlots
         /\ PasteSlots' = PasteSlots
    BY <1>2 DEF Live, FlightSlots, BodySlots, PasteSlots, fieldVars
  <2>11. MergeSlots' = {out} /\ MergeSlots = {}
    <3>1. DOMAIN merging = {}
      BY <1>2
    <3> QED BY <2>8, <2>9, <3>1 DEF MergeSlots
  <2>12. out # birth => out \notin HeldSlots
    BY <1>1, <2>7 DEF UsedIsHeld
  <2>13. HeldSlots' = HeldSlots \cup {out}
    BY <2>10, <2>11 DEF HeldSlots
  <2>14. HeldOnce'
    <3>1. out \notin PasteSlots
      BY <1>1, <2>5, <2>12 DEF HeldOnce, HeldSlots
    <3>2. PasteSlots' \cap (FlightSlots' \cup BodySlots' \cup MergeSlots') = {}
      BY <1>1, <2>10, <2>11, <3>1 DEF HeldOnce
    <3>3. out \in FlightSlots \cup BodySlots => out = birth
      BY <2>12 DEF HeldSlots
    <3>4. \A k \in DOMAIN merging' :
             merging'[k].out \in FlightSlots' \cup BodySlots' => Reuses(merging[k])'
      BY <1>2, <2>1, <2>8, <2>9, <2>10, <3>3 DEF Reuses
    <3> QED BY <1>1, <1>2, <2>10, <3>2, <3>4 DEF HeldOnce, fieldVars
  <2>15. /\ volumes' \in [Slots -> [used : BOOLEAN, pinned : BOOLEAN, data : Data \cup {None}]]
         /\ \A s \in Slots : /\ volumes'[s].used <=> volumes[s].used \/ s = out
                             /\ volumes'[s].pinned <=> volumes[s].pinned /\ (s = out => out = birth)
    <3>1. volumes \in [Slots -> [used : BOOLEAN, pinned : BOOLEAN, data : Data \cup {None}]]
      BY <1>1 DEF IslandsTypeOK
    <3>2. CASE out = birth
      BY <2>4, <2>5, <3>1, <3>2
    <3>3. CASE out # birth
      <4>1. PICK v \in [used : BOOLEAN, pinned : BOOLEAN, data : Data \cup {None}] :
              v = [Blank EXCEPT !.used = TRUE] /\ v.used /\ ~v.pinned
        BY BlankUsed
      <4>2. volumes' = [volumes EXCEPT ![out] = v]
        BY <2>4, <3>3, <4>1 DEF Allocated
      <4> QED BY <2>7, <3>1, <3>3, <4>1, <4>2
    <3> QED BY <3>2, <3>3
  <2>16. UsedIsHeld'
    <3> SUFFICES ASSUME NEW s \in Slots PROVE /\ volumes'[s].used <=> s \in HeldSlots'
                                              /\ volumes'[s].pinned <=> s \in PasteSlots'
      BY DEF UsedIsHeld
    <3>1. /\ volumes[s].used <=> s \in HeldSlots
          /\ volumes[s].pinned <=> s \in PasteSlots
          /\ s \in PasteSlots => s \in HeldSlots
      BY <1>1 DEF UsedIsHeld, HeldSlots
    <3> QED BY <2>10, <2>12, <2>13, <2>15, <3>1
  <2>17. PICK job : job = [kind |-> "resample", result |-> "copied"]
    OBVIOUS
  <2>18. /\ batch'.jobs = <<job>> /\ Len(batch'.jobs) = 1 /\ DOMAIN batch'.jobs = {1}
         /\ batch'.jobs[1] = job /\ batch'.jobs \in Seq({job})
    BY <2>4, <2>17
  <2>19. job.kind = "resample" /\ "result" \in DOMAIN job
    BY <2>17
  <2>20. IslandsTypeOK'
    <3>1. IsSequence(batch'.jobs)
      <4>1. Range(batch'.jobs) = {job}
        BY <2>18 DEF Range
      <4> QED BY <2>18, <4>1 DEF IsSequence
    <3> QED BY <1>1, <1>2, <2>9, <2>15, <2>18, <2>19, <3>1
            DEF IslandsTypeOK, fieldVars, FlightOk, IsSequence
  <2>21. MergesHaveBodies'
    <3>1. \A k \in DOMAIN merging' : merging'[k].body \in Live'
      BY <1>2, <2>8, <2>9, <2>10
    <3>2. Alone(batch.jobs)' /\ Alone(landing)'
      BY <1>2, <1>3, <2>9, <2>18 DEF Alone
    <3> QED BY <1>2, <1>3, <2>9, <3>1, <3>2 DEF MergesHaveBodies
  <2>22. CopiesAge'
    <3>1. \A k \in DOMAIN batch'.jobs : CopyOk(batch.jobs[k])'
      BY <2>18, <2>19 DEF CopyOk
    <3>2. \A k \in DOMAIN landing' : CopyOk(landing[k])'
      BY <1>2, <1>3
    <3> QED BY <3>1, <3>2 DEF CopiesAge
  <2> QED BY <2>14, <2>16, <2>20, <2>21, <2>22 DEF SlotInv
<1> QED BY <1>4, <1>5

(* Physics goes down: every slot but the pasted ones goes back.            *)
LEMMA TeardownKeeps ==
  ASSUME SlotInv, Teardown
  PROVE  SlotInv'
<1> DEFINE held == {bodies[i].slot : i \in Live} \cup {f.slot : f \in Range(flying)}
                     \cup {m.out : m \in Range(merging)}
           gone == {s \in held : CanRelease(volumes, s)}
<1>1. /\ IslandsTypeOK /\ HeldOnce /\ UsedIsHeld /\ log.seq \in Nat /\ HeldSlots \subseteq Slots
  BY SlotFacts
<1>2. /\ volumes' = [s \in Slots |-> IF s \in gone THEN Blank ELSE volumes[s]]
      /\ batch' = None /\ landing' = <<>> /\ flying' = <<>>
      /\ bodies' = <<>> /\ merging' = <<>> /\ UNCHANGED fieldVars
  BY DEF Teardown
<1>3. atlas' \in [1..Atlas -> BOOLEAN]
  BY DEF Teardown
<1>4. /\ DOMAIN landing' = {} /\ DOMAIN flying' = {} /\ DOMAIN bodies' = {} /\ DOMAIN merging' = {}
      /\ Len(merging') = 0
  BY <1>2
<1>5. /\ Live' = {} /\ FlightSlots' = {} /\ BodySlots' = {} /\ MergeSlots' = {}
      /\ PasteSlots' = PasteSlots
  BY <1>2, <1>4 DEF Live, FlightSlots, BodySlots, MergeSlots, PasteSlots, fieldVars
<1>6. HeldSlots' = PasteSlots
  BY <1>5 DEF HeldSlots
<1>7. held = FlightSlots \cup BodySlots \cup MergeSlots
  BY DEF FlightSlots, BodySlots, MergeSlots, Range
<1>8. \A s \in Slots : s \in gone <=> s \in HeldSlots \ PasteSlots
  BY <1>1, <1>7 DEF CanRelease, UsedIsHeld, HeldOnce, HeldSlots
<1> HIDE DEF gone
<1>9. HeldOnce'
  BY <1>1, <1>2, <1>4, <1>5 DEF HeldOnce, fieldVars
<1>10. /\ Blank \in [used : BOOLEAN, pinned : BOOLEAN, data : Data \cup {None}]
       /\ ~Blank.used /\ ~Blank.pinned
  BY DEF Blank
<1>11. volumes' \in [Slots -> [used : BOOLEAN, pinned : BOOLEAN, data : Data \cup {None}]]
  BY <1>1, <1>2, <1>10 DEF IslandsTypeOK
<1>12. UsedIsHeld'
  <2> SUFFICES ASSUME NEW s \in Slots PROVE /\ volumes'[s].used <=> s \in HeldSlots'
                                            /\ volumes'[s].pinned <=> s \in PasteSlots'
    BY DEF UsedIsHeld
  <2>1. /\ volumes[s].used <=> s \in HeldSlots
        /\ volumes[s].pinned <=> s \in PasteSlots
        /\ s \in PasteSlots => s \in HeldSlots
    BY <1>1 DEF UsedIsHeld, HeldSlots
  <2>2. volumes'[s] = IF s \in gone THEN Blank ELSE volumes[s]
    BY <1>2
  <2> QED BY <1>5, <1>6, <1>8, <1>10, <2>1, <2>2
<1>13. /\ IsSequence(flying') /\ IsSequence(landing')
       /\ bodies' \in Seq(BodyRecs \cup {None}) /\ merging' \in Seq(MergeRecs)
  BY <1>2, EmptySeq DEF IsSequence
<1>14. IslandsTypeOK'
  BY <1>1, <1>2, <1>3, <1>4, <1>11, <1>13 DEF IslandsTypeOK, fieldVars
<1>15. MergesHaveBodies'
  BY <1>2, <1>4 DEF MergesHaveBodies, Alone
<1>16. CopiesAge'
  BY <1>2, <1>4 DEF CopiesAge
<1> QED BY <1>9, <1>12, <1>14, <1>15, <1>16 DEF SlotInv

LEMMA SlotStep == SlotInv /\ [Next]_vars => SlotInv'
<1> SUFFICES ASSUME SlotInv, [Next]_vars PROVE SlotInv'
  OBVIOUS
<1>1. CASE ToolEdit
  <2>0. \E over : \E is \in {"loose", "air", "anchored"} : Edit(over, is)
    <3>1. CASE \E p \in Pieces : Edit({p}, "loose")
      BY <3>1
    <3>2. CASE Edit(Pieces, "loose")
      BY <3>2
    <3>3. CASE \E p \in Pieces, is \in {"air", "anchored"} : Edit({p}, is)
      BY <3>3
    <3> QED BY <1>1, <3>1, <3>2, <3>3 DEF ToolEdit
  <2>1. PICK over : \E is \in {"loose", "air", "anchored"} : Edit(over, is)
    BY <2>0
  <2>2. PICK is \in {"loose", "air", "anchored"} : Edit(over, is)
    BY <2>1
  <2> QED BY <2>2, EditKeeps
<1>2. CASE Fill \/ \E p \in Pieces : Picture(p)
  BY <1>2, PictureKeeps
<1>3. CASE BeginFrame
  BY <1>3, BeginKeeps
<1>4. CASE LandNothing \/ LandRefused
  BY <1>4, LandedKeeps
<1>5. CASE LandCarve
  BY <1>5, CarveKeeps
<1>6. CASE LandUnpasted
  BY <1>6, UnpastedKeeps
<1>7. CASE LandPaste
  BY <1>7, PasteKeeps
<1>8. CASE SearchLater \/ NoMerge \/ Initialize \/ \E bare \in SUBSET Slots : DrawFrame(bare)
  BY <1>8, IdleKeeps
<1>9. CASE SearchStep
  BY <1>9, SearchKeeps
<1>10. CASE \E i \in DOMAIN bodies, accepted \in BOOLEAN :
              (~accepted => On("failures")) /\ StartMerge(i, accepted)
  <2>1. PICK i \in DOMAIN bodies, accepted \in BOOLEAN : StartMerge(i, accepted)
    BY <1>10
  <2> QED BY <2>1, MergeKeeps
<1>11. CASE \E bad \in SUBSET (1..PerFrame) : WorkerDone(bad)
  <2>1. PICK bad \in SUBSET (1..PerFrame) : WorkerDone(bad)
    BY <1>11
  <2> QED BY <2>1, WorkerKeeps
<1>12. CASE \E i \in DOMAIN bodies : Settle(i) \/ Wake(i)
  <2>1. PICK i \in DOMAIN bodies : Settle(i) \/ Wake(i)
    BY <1>12
  <2> QED BY <2>1, BodyKeeps
<1>13. CASE Teardown
  BY <1>13, TeardownKeeps
<1>14. CASE UNCHANGED vars
  <2>1. UNCHANGED <<fieldVars, workVars, atlas, bodies, merging, volumes>>
    BY <1>14 DEF vars, bodyVars, poolVars
  <2>2. IslandsTypeOK /\ HeldOnce /\ UsedIsHeld /\ MergesHaveBodies /\ CopiesAge
    BY DEF SlotInv
  <2>3. IslandsTypeOK'
    BY <2>1, <2>2 DEF IslandsTypeOK, fieldVars, workVars, IsSequence, FlightOk
  <2>4. HeldOnce' /\ UsedIsHeld' /\ Live' = Live
    BY <2>1, <2>2, HoldersKept DEF fieldVars, workVars, MergesHaveBodies
  <2>5. MergesHaveBodies'
    BY <2>1, <2>2, <2>4 DEF MergesHaveBodies, Alone, workVars
  <2>6. CopiesAge'
    BY <2>1, <2>2, CopiesKept DEF fieldVars, workVars, IslandsTypeOK
  <2> QED BY <2>3, <2>4, <2>5, <2>6 DEF SlotInv
<1> QED BY <1>1, <1>2, <1>3, <1>4, <1>5, <1>6, <1>7, <1>8, <1>9, <1>10, <1>11, <1>12, <1>13, <1>14
        DEF Next, Frame, MergeStep

LEMMA SlotsHold == Spec => []SlotInv
BY SlotInit, SlotStep, PTL DEF Spec

-----------------------------------------------------------------------------
(* The theorems.                                                           *)

(* A set whose members are all the same has at most one.                   *)
LEMMA AtMostOne ==
  ASSUME NEW S, \A x, y \in S : x = y
  PROVE  Cardinality(S) = IF S = {} THEN 0 ELSE 1
<1>1. CASE S = {}
  BY <1>1, FS_EmptySet
<1>2. CASE S # {}
  <2>1. PICK x \in S : TRUE
    BY <1>2
  <2>2. S = {x}
    BY <2>1
  <2> QED BY <1>2, <2>2, FS_Singleton
<1> QED BY <1>1, <1>2

LEMMA SlotInvAccounts == SlotInv => SlotsAreAccounted
<1> SUFFICES ASSUME SlotInv, NEW s \in Slots
             PROVE  /\ Cardinality(Holders(s)) = IF volumes[s].used THEN 1 ELSE 0
                    /\ volumes[s].pinned <=> \E x \in log.pastes : x.slot = s
  BY DEF SlotsAreAccounted
<1> DEFINE F == {<<"flight", i>> : i \in {k \in DOMAIN flying : flying[k].slot = s}}
           B == {<<"body", i>> : i \in {k \in Live : bodies[k].slot = s}}
           M == {<<"merge", i>> : i \in {k \in DOMAIN merging :
                                           merging[k].out = s /\ ~Reuses(merging[k])}}
           P == {<<"paste", x>> : x \in {y \in log.pastes : y.slot = s}}
<1>1. /\ HeldOnce /\ UsedIsHeld /\ MergesHaveBodies
      /\ \A k \in DOMAIN merging : merging[k].body \in Live
      /\ \A k, l \in DOMAIN merging : k = l
  <2>1. /\ HeldOnce /\ UsedIsHeld /\ MergesHaveBodies /\ IslandsTypeOK
        /\ \A k \in DOMAIN merging : merging[k].body \in Live
    BY SlotFacts
  <2>2. merging \in Seq(MergeRecs) /\ Len(merging) <= 1
    BY <2>1 DEF MergesHaveBodies, IslandsTypeOK
  <2>3. DOMAIN merging = 1..Len(merging) /\ Len(merging) \in Nat
    BY <2>2, LenProperties
  <2> QED BY <2>1, <2>2, <2>3
<1>2. /\ F # {} <=> s \in FlightSlots
      /\ B # {} <=> s \in BodySlots
      /\ P # {} <=> s \in PasteSlots
  BY DEF FlightSlots, BodySlots, PasteSlots
<1>3. /\ M # {} => s \in MergeSlots \ (FlightSlots \cup BodySlots)
      /\ s \in MergeSlots => M # {} \/ s \in BodySlots
  <2>1. ASSUME M # {} PROVE s \in MergeSlots \ (FlightSlots \cup BodySlots)
    <3>1. PICK k \in DOMAIN merging : merging[k].out = s /\ ~Reuses(merging[k])
      BY <2>1
    <3> QED BY <1>1, <3>1 DEF MergeSlots, HeldOnce
  <2>2. ASSUME s \in MergeSlots, M = {} PROVE s \in BodySlots
    <3>1. PICK k \in DOMAIN merging : merging[k].out = s
      BY <2>2 DEF MergeSlots
    <3>2. Reuses(merging[k])
      BY <2>2, <3>1
    <3> QED BY <1>1, <3>1, <3>2 DEF BodySlots, Reuses
  <2> QED BY <2>1, <2>2
<1>4. /\ \A x, y \in F : x = y
      /\ \A x, y \in B : x = y
      /\ \A x, y \in P : x = y
      /\ \A x, y \in M : x = y
  BY <1>1 DEF HeldOnce
<1>5. Holders(s) = F \cup B \cup M \cup P
  BY DEF Holders
<1> HIDE DEF F, B, M, P
<1>6. \A x, y \in Holders(s) : x = y
  BY <1>1, <1>2, <1>3, <1>4, <1>5 DEF HeldOnce
<1>7. Holders(s) # {} <=> volumes[s].used
  BY <1>1, <1>2, <1>3, <1>5 DEF UsedIsHeld, HeldSlots
<1>8. Cardinality(Holders(s)) = IF volumes[s].used THEN 1 ELSE 0
  BY <1>6, <1>7, AtMostOne
<1>9. volumes[s].pinned <=> \E x \in log.pastes : x.slot = s
  BY <1>1 DEF UsedIsHeld, PasteSlots
<1> QED BY <1>8, <1>9

(* Every volume slot in use has one holder, whatever way a piece, a        *)
(* resample or the whole of physics goes, and a slot is pinned if and only *)
(* if a paste in the log names it.                                         *)
THEOREM SlotAccounting == Spec => []SlotsAreAccounted
BY SlotsHold, SlotInvAccounts, PTL

(* A step that spawns a body is the carve of its piece.                    *)
Carves ==
  \A i \in DOMAIN bodies' :
     bodies'[i] # None /\ (i \notin DOMAIN bodies \/ bodies[i] = None) =>
       LET p == bodies'[i].piece
       IN  /\ field[p].is # "air"
           /\ field[p].shape = bodies'[i].shape
           /\ field'[p].is = "air"

LEMMA StepCarves == SlotInv /\ [Next]_vars => Carves
<1> SUFFICES ASSUME SlotInv, [Next]_vars, NEW n \in DOMAIN bodies',
                    bodies'[n] # None, n \notin DOMAIN bodies \/ bodies[n] = None
             PROVE  LET p == bodies'[n].piece
                    IN  /\ field[p].is # "air"
                        /\ field[p].shape = bodies'[n].shape
                        /\ field'[p].is = "air"
  BY DEF Carves
<1>1. CASE LandCarve
  <2>1. PICK f, b, i : CarvedOut(f, b, i)
    BY <1>1, CarveFacts
  <2> USE DEF CarvedOut
  <2>2. n = i
    BY <2>1
  <2>3. f.piece \in Pieces /\ DOMAIN field = Pieces
    BY <2>1, SlotFacts DEF FlightOk, IslandsTypeOK
  <2>4. field'[f.piece].is = "air"
    BY <2>1, <2>3
  <2> QED BY <2>1, <2>2, <2>4
<1>2. CASE ~LandCarve
  <2>1. \/ bodies' = bodies \/ bodies' = <<>>
        \/ \E i \in DOMAIN bodies : bodies[i] # None /\ \E b : bodies' = [bodies EXCEPT ![i] = b]
    <3>1. CASE ToolEdit
      BY <3>1 DEF ToolEdit, Edit, bodyVars
    <3>2. CASE Fill \/ \E p \in Pieces : Picture(p)
      BY <3>2 DEF Fill, Picture, bodyVars
    <3>3. CASE BeginFrame \/ LandNothing \/ LandRefused \/ LandUnpasted
      BY <3>3 DEF BeginFrame, LandNothing, LandRefused, LandUnpasted, bodyVars
    <3>4. CASE SearchLater \/ NoMerge \/ Initialize \/ \E bare \in SUBSET Slots : DrawFrame(bare)
      BY <3>4 DEF SearchLater, NoMerge, DrawFrame, Initialize, bodyVars
    <3>5. CASE LandPaste
      <4>1. PICK m, rest, vs : Pastes(m, rest, vs)
        BY <3>5, PasteFacts
      <4>2. m.body \in Live
        BY <3>5, <4>1, ResampleFacts DEF LandPaste, Pastes
      <4> QED BY <4>1, <4>2 DEF Pastes, Live
    <3>6. CASE SearchStep
      BY <3>6 DEF SearchStep, Search, bodyVars
    <3>7. CASE \E i \in DOMAIN bodies, accepted \in BOOLEAN :
                 (~accepted => On("failures")) /\ StartMerge(i, accepted)
      BY <3>7 DEF StartMerge
    <3>8. CASE \E bad \in SUBSET (1..PerFrame) : WorkerDone(bad)
      BY <3>8 DEF WorkerDone, bodyVars
    <3>9. CASE \E i \in DOMAIN bodies : Settle(i) \/ Wake(i)
      <4>1. PICK i \in DOMAIN bodies : Settle(i) \/ Wake(i)
        BY <3>9
      <4> QED BY <4>1 DEF Settle, Wake, Live
    <3>10. CASE Teardown
      BY <3>10 DEF Teardown
    <3>11. CASE UNCHANGED vars
      BY <3>11 DEF vars, bodyVars
    <3> QED BY <1>2, <3>1, <3>2, <3>3, <3>4, <3>5, <3>6, <3>7, <3>8, <3>9, <3>10, <3>11
            DEF Next, Frame, MergeStep
  <2>2. CASE bodies' = bodies
    BY <2>2
  <2>3. CASE bodies' = <<>>
    BY <2>3
  <2>4. CASE \E i \in DOMAIN bodies : bodies[i] # None /\ \E b : bodies' = [bodies EXCEPT ![i] = b]
    BY <2>4
  <2> QED BY <2>1, <2>2, <2>3, <2>4
<1> QED BY <1>1, <1>2

(* A body appears only where its piece goes out of the field in the same   *)
(* step, and as the piece was when the body's volume was copied, though    *)
(* edits may land between any two steps of a frame.                        *)
THEOREM CarvesAreExact == Spec => CarveTakesWhatItCopied
<1>1. SlotInv /\ [Next]_vars => [Carves]_vars
  BY StepCarves
<1> QED BY <1>1, SlotsHold, PTL DEF Spec, CarveTakesWhatItCopied, Carves

-----------------------------------------------------------------------------
(* The bytes of the volumes.                                               *)

UploadRecs == [slot : Slots, atlas : 0..Atlas, data : Data]
DescRecs == [atlas : 0..Atlas, slot : Slots, data : Data]
PoolBytes == [Slots -> Data \cup {None}]

BytesTypeOK ==
  /\ uploads \in Seq(UploadRecs)
  /\ frees \in Seq(Slots)
  /\ descs \in [of : SUBSET DescRecs, dirty : BOOLEAN]
  /\ pool \in [data : PoolBytes, normals : PoolBytes, shown : SUBSET DescRecs]
  /\ \A i \in DOMAIN flying : flying[i].copy.form = "birth"

(* The bytes and the normals slot s has once the next frame is drawn.      *)
BytesOf(s) == Uploaded(s, pool.data[s])
NormalsOf(s) == Uploaded(s, IF s \in Range(frees) THEN None ELSE pool.normals[s])

BirthOf(b) == [piece |-> b.piece, shape |-> b.shape, form |-> "birth"]

(* The body that d describes was pasted, and its paste took d's slot.      *)
PastedOver(d) == \E x \in log.pastes : x.slot = d.slot /\ x.data.piece = d.data.piece

(* The normals uploaded to slot s last found no room.                      *)
NormalsRefused(s) ==
  /\ On("no normals") /\ pool.normals[s] = None
  /\ \A i \in DOMAIN uploads : uploads[i].slot # s

PastesKept ==
  \A x \in log.pastes : /\ volumes[x.slot].data = x.data /\ x.data.form = "rest"
                        /\ BytesOf(x.slot) = x.data
                        /\ NormalsOf(x.slot) = x.data \/ NormalsRefused(x.slot)

(* An upload without an atlas slot is of a paste; the others are births.   *)
UploadsAreOf ==
  \A i \in DOMAIN uploads :
     IF uploads[i].atlas = 0
     THEN \E x \in log.pastes : x.slot = uploads[i].slot /\ x.data = uploads[i].data
     ELSE uploads[i].data.form = "birth"

BodiesKept ==
  \A i \in Live : bodies[i].atlas # 0 => BytesOf(bodies[i].slot) = BirthOf(bodies[i])

(* What was published keeps its bytes, and is what the device shows next.  *)
DescsKept ==
  /\ \A d \in descs.of : BytesOf(d.slot) = d.data \/ PastedOver(d)
  /\ \A d \in pool.shown : pool.data[d.slot] = d.data \/ PastedOver(d)
  /\ pc \in {"land", "merge"} => descs.dirty
  /\ ~descs.dirty => uploads = <<>> \/ pool.shown = {}

(* While results land, nothing but a body's own paste writes a slot that   *)
(* was published when the frame began.                                     *)
LandingSparesDescs ==
  pc = "land" =>
    \A d \in descs.of :
       /\ d.slot \notin FlightSlots
       /\ \A k \in DOMAIN merging : merging[k].out = d.slot =>
             Reuses(merging[k]) /\ d.data.piece = bodies[merging[k].body].piece

BytesInv ==
  /\ BytesTypeOK
  /\ PastesKept
  /\ UploadsAreOf
  /\ BodiesKept
  /\ DescsKept
  /\ LandingSparesDescs

(* The upload to slot s that lands last, of the sequence q.                *)
LastOf(q, s, old) ==
  LET mine == {i \in DOMAIN q : q[i].slot = s}
  IN  IF mine = {} THEN old ELSE q[CHOOSE i \in mine : \A k \in mine : k <= i].data

LEMMA UploadedIsLast ==
  /\ \A s, old : Uploaded(s, old) = LastOf(uploads, s, old)
  /\ \A s : BytesOf(s) = LastOf(uploads, s, pool.data[s])
  /\ \A s : NormalsOf(s) = LastOf(uploads, s, IF s \in Range(frees) THEN None ELSE pool.normals[s])
BY DEF Uploaded, LastOf, BytesOf, NormalsOf

LEMMA LastOfFacts ==
  ASSUME NEW S, NEW q \in Seq(S), NEW s, NEW old
  PROVE  \/ /\ \A i \in DOMAIN q : q[i].slot # s
            /\ LastOf(q, s, old) = old
         \/ \E i \in DOMAIN q : /\ q[i].slot = s /\ LastOf(q, s, old) = q[i].data
                                /\ \A k \in DOMAIN q : q[k].slot = s => k <= i
<1> DEFINE mine == {i \in DOMAIN q : q[i].slot = s}
           Greatest(i) == \A k \in mine : k <= i
<1>1. Len(q) \in Nat /\ DOMAIN q = 1..Len(q)
  BY LenProperties
<1>2. CASE mine = {}
  BY <1>2 DEF LastOf
<1>3. CASE mine # {}
  <2> DEFINE back == {n \in 0..Len(q) : Len(q) - n \in mine}
  <2>1. back \subseteq Nat /\ back # {}
    <3>1. PICK i \in mine : TRUE
      BY <1>3
    <3>2. Len(q) - i \in 0..Len(q) /\ Len(q) - (Len(q) - i) = i
      BY <1>1, <3>1
    <3>3. Len(q) - i \in back
      BY <3>1, <3>2
    <3> QED BY <1>1, <3>3
  <2>2. PICK n \in back : \A m \in back : n <= m
    <3> HIDE DEF back
    <3> QED BY <2>1, LeastNatural
  <2>3. \A k \in mine : k <= Len(q) - n
    <3> TAKE k \in mine
    <3>1. Len(q) - k \in 0..Len(q) /\ Len(q) - (Len(q) - k) = k
      BY <1>1
    <3>2. Len(q) - k \in back
      BY <3>1
    <3>3. n <= Len(q) - k
      BY <2>2, <3>2
    <3> QED BY <1>1, <2>2, <3>3
  <2>4. \E i \in mine : Greatest(i)
    BY <2>2, <2>3
  <2>5. PICK c : c = CHOOSE i \in mine : Greatest(i)
    OBVIOUS
  <2>6. c \in mine /\ Greatest(c)
    BY <2>4, <2>5
  <2>7. LastOf(q, s, old) = q[c].data
    BY <1>3, <2>5 DEF LastOf
  <2> QED BY <2>6, <2>7
<1> QED BY <1>2, <1>3

(* What one more upload changes.                                           *)
LEMMA LastOfAppend ==
  ASSUME NEW S, NEW q \in Seq(S), NEW u \in S, NEW s, NEW old
  PROVE  LastOf(Append(q, u), s, old) = IF u.slot = s THEN u.data ELSE LastOf(q, s, old)
<1>1. PICK r : r = Append(q, u)
  OBVIOUS
<1>2. /\ Len(q) \in Nat /\ DOMAIN q = 1..Len(q)
      /\ r \in Seq(S) /\ DOMAIN r = 1..(Len(q) + 1)
      /\ \A i \in 1..Len(q) : r[i] = q[i]
      /\ r[Len(q) + 1] = u
  <2>1. /\ r \in Seq(S) /\ Len(r) = Len(q) + 1
        /\ \A i \in 1..Len(q) : r[i] = q[i]
        /\ r[Len(q) + 1] = u
    BY <1>1, AppendProperties
  <2> QED BY <2>1, LenProperties
<1>3. CASE u.slot = s
  <2>1. PICK i \in DOMAIN r : /\ r[i].slot = s /\ LastOf(r, s, old) = r[i].data
                              /\ \A k \in DOMAIN r : r[k].slot = s => k <= i
    BY <1>2, <1>3, LastOfFacts
  <2>2. i = Len(q) + 1
    BY <1>2, <1>3, <2>1
  <2> QED BY <1>1, <1>2, <1>3, <2>1, <2>2
<1>4. CASE u.slot # s
  <2>1. CASE \A i \in DOMAIN q : q[i].slot # s
    <3>1. \A i \in DOMAIN r : r[i].slot # s
      BY <1>2, <1>4, <2>1
    <3>2. LastOf(r, s, old) = old
      BY <1>2, <3>1, LastOfFacts
    <3>3. LastOf(q, s, old) = old
      BY <2>1, LastOfFacts
    <3> QED BY <1>1, <1>4, <3>2, <3>3
  <2>2. CASE ~ \A i \in DOMAIN q : q[i].slot # s
    <3>1. PICK i \in DOMAIN q : /\ q[i].slot = s /\ LastOf(q, s, old) = q[i].data
                                /\ \A k \in DOMAIN q : q[k].slot = s => k <= i
      BY <2>2, LastOfFacts
    <3>2. i \in DOMAIN r /\ r[i].slot = s
      BY <1>2, <3>1
    <3>3. PICK j \in DOMAIN r : /\ r[j].slot = s /\ LastOf(r, s, old) = r[j].data
                                /\ \A k \in DOMAIN r : r[k].slot = s => k <= j
      BY <1>2, <3>2, LastOfFacts
    <3>4. j # Len(q) + 1
      BY <1>2, <1>4, <3>3
    <3>5. j \in DOMAIN q /\ q[j].slot = s /\ r[j] = q[j]
      BY <1>2, <3>3, <3>4
    <3>6. j <= i /\ i <= j
      BY <3>1, <3>2, <3>3, <3>5
    <3>7. i = j
      BY <1>2, <3>5, <3>6
    <3> QED BY <1>1, <1>4, <3>1, <3>3, <3>5, <3>7
  <2> QED BY <2>1, <2>2
<1> QED BY <1>3, <1>4

(* What follows from both invariants.                                      *)
LEMMA BytesFacts ==
  ASSUME SlotInv, BytesInv
  PROVE  /\ BytesTypeOK /\ PastesKept /\ UploadsAreOf /\ BodiesKept /\ DescsKept /\ LandingSparesDescs
         /\ uploads \in Seq(UploadRecs) /\ frees \in Seq(Slots)
         /\ \A i \in DOMAIN uploads : uploads[i] \in UploadRecs
         /\ Range(frees) \subseteq Slots
         /\ descs.of \subseteq DescRecs /\ pool.shown \subseteq DescRecs
         /\ pool.data \in PoolBytes /\ pool.normals \in PoolBytes
         /\ log.pastes \subseteq PasteRecs
<1>1. /\ BytesTypeOK /\ PastesKept /\ UploadsAreOf /\ BodiesKept /\ DescsKept /\ LandingSparesDescs
      /\ uploads \in Seq(UploadRecs) /\ frees \in Seq(Slots)
      /\ descs.of \subseteq DescRecs /\ pool.shown \subseteq DescRecs
      /\ pool.data \in PoolBytes /\ pool.normals \in PoolBytes
  BY DEF BytesInv, BytesTypeOK
<1>2. \A i \in DOMAIN uploads : uploads[i] \in UploadRecs
  BY <1>1, LenProperties, ElementOfSeq
<1>3. Range(frees) \subseteq Slots
  BY <1>1, LenProperties, ElementOfSeq DEF Range
<1>4. log.pastes \subseteq PasteRecs
  BY SlotFacts
<1> QED BY <1>1, <1>2, <1>3, <1>4

LEMMA BytesInit == Init => BytesInv
<1> SUFFICES ASSUME Init PROVE BytesInv
  OBVIOUS
<1> USE DEF Init
<1>1. BytesTypeOK
  <2>1. uploads \in Seq(UploadRecs) /\ frees \in Seq(Slots)
    BY EmptySeq
  <2>2. pool.data \in PoolBytes /\ pool.normals \in PoolBytes
    BY DEF PoolBytes
  <2>3. pool \in [data : PoolBytes, normals : PoolBytes, shown : SUBSET DescRecs]
    BY <2>2
  <2>4. descs \in [of : SUBSET DescRecs, dirty : BOOLEAN]
    OBVIOUS
  <2>5. DOMAIN flying = {}
    OBVIOUS
  <2> QED BY <2>1, <2>3, <2>4, <2>5 DEF BytesTypeOK
<1>2. log.pastes = {} /\ DOMAIN uploads = {} /\ Live = {} /\ descs.of = {} /\ pool.shown = {}
  BY DEF Live
<1>3. PastesKept /\ UploadsAreOf /\ BodiesKept /\ LandingSparesDescs
  BY <1>2 DEF PastesKept, UploadsAreOf, BodiesKept, LandingSparesDescs
<1>4. DescsKept
  BY <1>2 DEF DescsKept
<1> QED BY <1>1, <1>3, <1>4 DEF BytesInv

(* Steps that queue no upload and draw no frame.                           *)
LEMMA BytesQuiet ==
  ASSUME SlotInv, BytesInv, UNCHANGED <<uploads, pool, descs, host>>, log'.pastes = log.pastes,
         frees' \in Seq(Slots), \A s \in PasteSlots : s \in Range(frees') => s \in Range(frees),
         \A s \in PasteSlots : volumes'[s].data = volumes[s].data,
         Live' = Live,
         \A i \in Live : /\ bodies'[i].slot = bodies[i].slot /\ bodies'[i].atlas = bodies[i].atlas
                         /\ BirthOf(bodies[i])' = BirthOf(bodies[i]),
         \A i \in DOMAIN flying' : flying'[i].copy.form = "birth",
         pc' \in {"land", "merge"} => pc \in {"land", "merge"},
         pc' = "land" => /\ pc = "land" /\ FlightSlots' \subseteq FlightSlots
                         /\ merging' = merging \/ DOMAIN merging' = {}
  PROVE  BytesInv'
<1>1. /\ BytesTypeOK /\ PastesKept /\ UploadsAreOf /\ BodiesKept /\ DescsKept /\ LandingSparesDescs
      /\ \A k \in DOMAIN merging : merging[k].body \in Live
  BY BytesFacts, SlotFacts
<1>2. \A s : BytesOf(s)' = BytesOf(s)
  BY DEF BytesOf, Uploaded
<1>3. BytesTypeOK'
  BY <1>1 DEF BytesTypeOK
<1>4. PastesKept'
  <2> SUFFICES ASSUME NEW x \in log.pastes
               PROVE  /\ volumes'[x.slot].data = x.data /\ x.data.form = "rest"
                      /\ BytesOf(x.slot)' = x.data
                      /\ NormalsOf(x.slot)' = x.data \/ NormalsRefused(x.slot)'
    BY DEF PastesKept
  <2>1. x.slot \in PasteSlots
    BY DEF PasteSlots
  <2>2. /\ volumes[x.slot].data = x.data /\ x.data.form = "rest"
        /\ BytesOf(x.slot) = x.data /\ x.data # None
        /\ NormalsOf(x.slot) = x.data \/ NormalsRefused(x.slot)
    <3>1. x.data \in Data
      BY SlotFacts DEF PasteRecs
    <3>2. x.data # None
      BY <3>1, NoneAssumption DEF Data
    <3> QED BY <1>1, <3>2 DEF PastesKept
  <2>3. CASE NormalsOf(x.slot) = x.data
    <3>1. NormalsOf(x.slot)' = x.data
      <4>1. CASE \A i \in DOMAIN uploads : uploads[i].slot # x.slot
        BY <2>1, <2>2, <2>3, <4>1 DEF NormalsOf, Uploaded
      <4>2. CASE ~ \A i \in DOMAIN uploads : uploads[i].slot # x.slot
        BY <2>3, <4>2 DEF NormalsOf, Uploaded
      <4> QED BY <4>1, <4>2
    <3> QED BY <1>2, <2>1, <2>2, <3>1
  <2>4. CASE NormalsRefused(x.slot)
    <3>1. NormalsRefused(x.slot)'
      BY <2>4 DEF NormalsRefused, On
    <3> QED BY <1>2, <2>1, <2>2, <3>1
  <2> QED BY <2>2, <2>3, <2>4
<1>5. UploadsAreOf'
  BY <1>1 DEF UploadsAreOf
<1>6. BodiesKept'
  BY <1>1, <1>2 DEF BodiesKept
<1>7. \A d : PastedOver(d)' <=> PastedOver(d)
  BY DEF PastedOver
<1>8. DescsKept'
  BY <1>1, <1>2, <1>7 DEF DescsKept
<1>9. LandingSparesDescs'
  <2> SUFFICES ASSUME pc' = "land", NEW d \in descs.of
               PROVE  /\ d.slot \notin FlightSlots'
                      /\ \A k \in DOMAIN merging' : merging'[k].out = d.slot =>
                            /\ Reuses(merging[k])'
                            /\ d.data.piece = bodies'[merging'[k].body].piece
    BY DEF LandingSparesDescs
  <2>1. /\ d.slot \notin FlightSlots
        /\ \A k \in DOMAIN merging : merging[k].out = d.slot =>
              Reuses(merging[k]) /\ d.data.piece = bodies[merging[k].body].piece
    BY <1>1 DEF LandingSparesDescs
  <2>2. \A i \in Live : bodies'[i].slot = bodies[i].slot /\ bodies'[i].piece = bodies[i].piece
    <3> TAKE i \in Live
    <3>1. BirthOf(bodies[i]).piece = bodies[i].piece /\ BirthOf(bodies[i])'.piece = bodies'[i].piece
      BY DEF BirthOf
    <3> QED BY <3>1
  <2>3. CASE merging' = merging
    BY <1>1, <2>1, <2>2, <2>3 DEF Reuses
  <2>4. CASE DOMAIN merging' = {}
    BY <2>1, <2>4
  <2> QED BY <2>3, <2>4
<1> QED BY <1>3, <1>4, <1>5, <1>6, <1>8, <1>9 DEF BytesInv

(* What is freed is not pasted.                                            *)
LEMMA FreedMore ==
  ASSUME NEW S, NEW q \in Seq(S), NEW r \in Seq(S)
  PROVE  q \o r \in Seq(S) /\ Range(q \o r) \subseteq Range(q) \cup Range(r)
<1>1. PICK c : c = q \o r
  OBVIOUS
<1>2. /\ c \in Seq(S) /\ Len(c) = Len(q) + Len(r)
      /\ \A i \in 1..(Len(q) + Len(r)) : c[i] = IF i <= Len(q) THEN q[i] ELSE r[i - Len(q)]
  BY <1>1, ConcatProperties
<1>3. /\ Len(q) \in Nat /\ DOMAIN q = 1..Len(q) /\ Len(r) \in Nat /\ DOMAIN r = 1..Len(r)
      /\ DOMAIN c = 1..(Len(q) + Len(r))
  BY <1>2, LenProperties
<1>4. ASSUME NEW i \in DOMAIN c PROVE c[i] \in Range(q) \cup Range(r)
  <2>1. CASE i <= Len(q)
    <3>1. i \in DOMAIN q /\ c[i] = q[i]
      BY <1>2, <1>3, <2>1
    <3> QED BY <3>1 DEF Range
  <2>2. CASE ~(i <= Len(q))
    <3>1. i - Len(q) \in DOMAIN r /\ c[i] = r[i - Len(q)]
      BY <1>2, <1>3, <2>2
    <3> QED BY <3>1 DEF Range
  <2> QED BY <2>1, <2>2
<1>5. Range(c) \subseteq Range(q) \cup Range(r)
  BY <1>4 DEF Range
<1> QED BY <1>1, <1>2, <1>5

LEMMA FreedOne ==
  ASSUME NEW S, NEW q \in Seq(S), NEW s \in S
  PROVE  Append(q, s) \in Seq(S) /\ Range(Append(q, s)) \subseteq Range(q) \cup {s}
<1>1. PICK c : c = Append(q, s)
  OBVIOUS
<1>2. /\ c \in Seq(S) /\ Len(c) = Len(q) + 1
      /\ \A i \in 1..Len(q) : c[i] = q[i]
      /\ c[Len(q) + 1] = s
  BY <1>1, AppendProperties
<1>3. Len(q) \in Nat /\ DOMAIN q = 1..Len(q) /\ DOMAIN c = 1..(Len(q) + 1)
  BY <1>2, LenProperties
<1>4. \A i \in DOMAIN c : i \in DOMAIN q \/ i = Len(q) + 1
  BY <1>3
<1>5. Range(c) \subseteq Range(q) \cup {s}
  BY <1>2, <1>3, <1>4 DEF Range
<1> QED BY <1>1, <1>2, <1>5

LEMMA ReleaseQuiet ==
  ASSUME SlotInv, BytesInv, NEW vs, vs \in [Slots -> [used : BOOLEAN, pinned : BOOLEAN, data : Data \cup {None}]],
         \A t \in PasteSlots : vs[t].pinned, NEW s \in Slots
  PROVE  /\ FreeQueue(vs, s) \in Seq(Slots)
         /\ \A t \in PasteSlots : t \in Range(FreeQueue(vs, s)) => t \in Range(frees)
         /\ \A t \in PasteSlots : Released(vs, s)[t] = vs[t]
<1>1. frees \in Seq(Slots) /\ PasteSlots \subseteq Slots
  BY BytesFacts, SlotFacts DEF HeldSlots
<1>2. CASE CanRelease(vs, s)
  <2>1. s \notin PasteSlots
    BY <1>2 DEF CanRelease
  <2>2. FreeQueue(vs, s) = Append(frees, s)
    BY <1>2 DEF FreeQueue
  <2>3. Append(frees, s) \in Seq(Slots) /\ Range(Append(frees, s)) \subseteq Range(frees) \cup {s}
    BY <1>1, FreedOne
  <2>4. \A t \in PasteSlots : Released(vs, s)[t] = vs[t]
    BY <1>1, <2>1 DEF Released
  <2> QED BY <2>1, <2>2, <2>3, <2>4
<1>3. CASE ~CanRelease(vs, s)
  BY <1>1, <1>3 DEF FreeQueue, Released
<1> QED BY <1>2, <1>3

LEMMA QuietKeeps ==
  ASSUME SlotInv, BytesInv,
         \/ ToolEdit \/ Fill \/ \E p \in Pieces : Picture(p)
         \/ SearchLater \/ NoMerge \/ Initialize
         \/ \E bad \in SUBSET (1..PerFrame) : WorkerDone(bad)
         \/ UNCHANGED vars
  PROVE  BytesInv'
<1>1. UNCHANGED <<flying, bodies, merging, volumes, frees, uploads, pool, descs, host>>
  BY DEF ToolEdit, Edit, Fill, Picture, SearchLater, NoMerge, Initialize, WorkerDone, vars,
         workVars, bodyVars, poolVars
<1>2. log'.pastes = log.pastes
  <2>1. \/ log' = log
        \/ log' = [log EXCEPT !.full = ~@]
        \/ log' = [log EXCEPT !.seq = @ + 1, !.tools = @ + 1]
    BY DEF ToolEdit, Edit, Fill, Picture, SearchLater, NoMerge, Initialize, WorkerDone, vars,
           fieldVars
  <2>2. log \in [seq : Nat, tools : Nat, full : BOOLEAN, pastes : SUBSET PasteRecs]
    BY SlotFacts DEF IslandsTypeOK
  <2>3. CASE log' = log
    BY <2>3
  <2>4. CASE log' = [log EXCEPT !.full = ~@]
    BY <2>2, <2>4, Zenon
  <2>5. CASE log' = [log EXCEPT !.seq = @ + 1, !.tools = @ + 1]
    BY <2>2, <2>5
  <2> QED BY <2>1, <2>3, <2>4, <2>5
<1>3. pc' \in {"land", "merge"} => pc \in {"land", "merge"}
  BY DEF ToolEdit, Edit, Fill, Picture, SearchLater, NoMerge, Initialize, WorkerDone, vars, workVars
<1>4. pc' = "land" => pc = "land"
  BY DEF ToolEdit, Edit, Fill, Picture, SearchLater, NoMerge, Initialize, WorkerDone, vars, workVars
<1>5. frees \in Seq(Slots) /\ \A i \in DOMAIN flying : flying[i].copy.form = "birth"
  BY BytesFacts DEF BytesTypeOK
<1>6. Live' = Live /\ FlightSlots' = FlightSlots
  BY <1>1 DEF Live, FlightSlots
<1>7. \A i \in Live : BirthOf(bodies[i])' = BirthOf(bodies[i])
  BY <1>1 DEF BirthOf
<1> QED BY <1>1, <1>2, <1>3, <1>4, <1>5, <1>6, <1>7, BytesQuiet

LEMMA RestKeeps ==
  ASSUME SlotInv, BytesInv, NEW i, Settle(i) \/ Wake(i)
  PROVE  BytesInv'
<1>1. /\ UNCHANGED <<log, pc, flying, merging, volumes, frees, uploads, pool, descs, host>>
  BY DEF Settle, Wake, fieldVars, workVars, poolVars
<1>2. i \in DOMAIN bodies /\ bodies[i] # None /\ bodies[i] \in BodyRecs
  BY SlotFacts DEF Settle, Wake, Live
<1>3. PICK b \in BodyRecs :
        /\ b.slot = bodies[i].slot /\ b.atlas = bodies[i].atlas
        /\ b.piece = bodies[i].piece /\ b.shape = bodies[i].shape
        /\ bodies' = [bodies EXCEPT ![i] = b]
  <2>1. CASE Settle(i)
    <3>1. [bodies[i] EXCEPT !.asleep = TRUE] \in BodyRecs
      BY <1>2 DEF BodyRecs
    <3>2. bodies' = [bodies EXCEPT ![i] = [bodies[i] EXCEPT !.asleep = TRUE]]
      BY <2>1 DEF Settle
    <3> QED BY <1>2, <3>1, <3>2 DEF BodyRecs
  <2>2. CASE Wake(i)
    <3>1. bodies[i].pose \in {0, 1} /\ 1 - bodies[i].pose \in {0, 1}
      BY <1>2 DEF BodyRecs
    <3>2. [bodies[i] EXCEPT !.asleep = FALSE, !.pose = 1 - bodies[i].pose] \in BodyRecs
      BY <1>2, <3>1 DEF BodyRecs
    <3>3. bodies' = [bodies EXCEPT ![i] = [bodies[i] EXCEPT !.asleep = FALSE, !.pose = 1 - bodies[i].pose]]
      BY <2>2 DEF Wake
    <3> QED BY <1>2, <3>2, <3>3 DEF BodyRecs
  <2> QED BY <2>1, <2>2
<1>4. b # None
  BY NoneAssumption DEF BodyRecs, Slots
<1>5. Live' = Live /\ FlightSlots' = FlightSlots
  BY <1>1, <1>2, <1>3, <1>4 DEF Live, FlightSlots
<1>6. \A k \in Live : /\ bodies'[k].slot = bodies[k].slot /\ bodies'[k].atlas = bodies[k].atlas
                      /\ BirthOf(bodies[k])' = BirthOf(bodies[k])
  BY <1>2, <1>3 DEF Live, BirthOf
<1>7. frees \in Seq(Slots) /\ \A k \in DOMAIN flying : flying[k].copy.form = "birth"
  BY BytesFacts DEF BytesTypeOK
<1> QED BY <1>1, <1>5, <1>6, <1>7, BytesQuiet

(* A result that comes to nothing, a search, a resample that starts.       *)
LEMMA LandedBytes ==
  ASSUME SlotInv, BytesInv, LandNothing \/ LandRefused
  PROVE  BytesInv'
<1>1. PICK f : Takes(f) /\ volumes' = Released(volumes, f.slot) /\ frees' = FreeQueue(volumes, f.slot)
  BY DEF LandNothing, LandRefused, ReleaseSlot
<1>2. UNCHANGED <<pc, bodies, merging, uploads, pool, descs, host>>
  BY DEF LandNothing, LandRefused, bodyVars
<1>3. /\ IslandsTypeOK /\ HeldOnce /\ UsedIsHeld /\ BytesTypeOK /\ HeldSlots \subseteq Slots
  BY SlotFacts, BytesFacts
<1>4. log'.pastes = log.pastes
  <2>1. log \in [seq : Nat, tools : Nat, full : BOOLEAN, pastes : SUBSET PasteRecs]
    BY <1>3 DEF IslandsTypeOK
  <2>2. log' = log \/ log' = [log EXCEPT !.seq = @ + 1]
    BY DEF LandNothing, LandRefused, fieldVars
  <2> QED BY <2>1, <2>2
<1>5. /\ f.slot \in FlightSlots /\ FlightSlots' = FlightSlots \ {f.slot}
      /\ \A i \in DOMAIN flying' : \E k \in DOMAIN flying : flying'[i] = flying[k]
  BY <1>1, <1>3, TakesFacts
<1>6. f.slot \in Slots /\ PasteSlots \subseteq Slots
  BY <1>3, <1>5 DEF HeldSlots
<1>7. /\ frees' \in Seq(Slots)
      /\ \A t \in PasteSlots : t \in Range(frees') => t \in Range(frees)
      /\ \A t \in PasteSlots : volumes'[t].data = volumes[t].data
  <2>1. \A t \in PasteSlots : volumes[t].pinned
    BY <1>3, <1>6 DEF UsedIsHeld
  <2>2. volumes \in [Slots -> [used : BOOLEAN, pinned : BOOLEAN, data : Data \cup {None}]]
    BY <1>3 DEF IslandsTypeOK
  <2>3. /\ FreeQueue(volumes, f.slot) \in Seq(Slots)
        /\ \A t \in PasteSlots : t \in Range(FreeQueue(volumes, f.slot)) => t \in Range(frees)
        /\ \A t \in PasteSlots : Released(volumes, f.slot)[t] = volumes[t]
    BY <1>6, <2>1, <2>2, ReleaseQuiet
  <2> QED BY <1>1, <2>3
<1>8. Live' = Live /\ \A i \in Live : BirthOf(bodies[i])' = BirthOf(bodies[i])
  BY <1>2 DEF Live, BirthOf
<1>9. \A i \in DOMAIN flying' : flying'[i].copy.form = "birth"
  BY <1>3, <1>5 DEF BytesTypeOK
<1> QED BY <1>2, <1>4, <1>5, <1>7, <1>8, <1>9, BytesQuiet

LEMMA UnpastedBytes ==
  ASSUME SlotInv, BytesInv, LandUnpasted
  PROVE  BytesInv'
<1>1. /\ Landing("resample") /\ merging' = Tail(merging)
      /\ UNCHANGED <<log, pc, flying, bodies, uploads, pool, descs, host>>
  BY DEF LandUnpasted, fieldVars
<1>2. /\ DOMAIN merging' = {} /\ Head(merging) = merging[1] /\ merging[1] \in MergeRecs
  BY <1>1, ResampleFacts
<1>3. \/ UNCHANGED <<volumes, frees>>
      \/ /\ volumes' = Released(volumes, merging[1].out)
         /\ frees' = FreeQueue(volumes, merging[1].out)
  BY <1>2 DEF LandUnpasted, ReleaseSlot
<1>4. /\ IslandsTypeOK /\ UsedIsHeld /\ BytesTypeOK /\ PasteSlots \subseteq Slots
      /\ merging[1].out \in Slots /\ frees \in Seq(Slots)
  BY <1>2, SlotFacts, BytesFacts DEF MergeRecs, HeldSlots
<1>5. /\ frees' \in Seq(Slots)
      /\ \A t \in PasteSlots : t \in Range(frees') => t \in Range(frees)
      /\ \A t \in PasteSlots : volumes'[t].data = volumes[t].data
  <2>1. \A t \in PasteSlots : volumes[t].pinned
    BY <1>4 DEF UsedIsHeld
  <2>2. volumes \in [Slots -> [used : BOOLEAN, pinned : BOOLEAN, data : Data \cup {None}]]
    BY <1>4 DEF IslandsTypeOK
  <2>3. /\ FreeQueue(volumes, merging[1].out) \in Seq(Slots)
        /\ \A t \in PasteSlots : t \in Range(FreeQueue(volumes, merging[1].out)) => t \in Range(frees)
        /\ \A t \in PasteSlots : Released(volumes, merging[1].out)[t] = volumes[t]
    BY <1>4, <2>1, <2>2, ReleaseQuiet
  <2> QED BY <1>3, <1>4, <2>3
<1>6. Live' = Live /\ FlightSlots' = FlightSlots
      /\ \A i \in Live : BirthOf(bodies[i])' = BirthOf(bodies[i])
  BY <1>1 DEF Live, BirthOf, FlightSlots
<1>7. \A i \in DOMAIN flying : flying[i].copy.form = "birth"
  BY <1>4 DEF BytesTypeOK
<1> QED BY <1>1, <1>2, <1>5, <1>6, <1>7, BytesQuiet


LEMMA FreeIsNotPasted ==
  ASSUME SlotInv
  PROVE  FreeSlots(volumes) \subseteq Slots /\ FreeSlots(volumes) \cap PasteSlots = {}
<1>1. UsedIsHeld
  BY SlotFacts
<1> QED BY <1>1 DEF FreeSlots, UsedIsHeld, HeldSlots

(* A batch that is refused gives its slots back in the reverse order.      *)
LEMMA ReverseFacts ==
  ASSUME NEW S, NEW n \in Nat, NEW q \in [1..n -> S]
  PROVE  Reverse(q) \in Seq(S) /\ Range(Reverse(q)) \subseteq S
<1>1. q \in Seq(S) /\ Len(q) = n
  <2>1. q \in Seq(S)
    BY SeqDef
  <2> QED BY <2>1, LenProperties
<1>2. \A i \in 1..n : n - i + 1 \in 1..n
  OBVIOUS
<1>3. Reverse(q) \in [1..n -> S]
  BY <1>1, <1>2 DEF Reverse
<1> QED BY <1>3, SeqDef DEF Range

LEMMA SearchBytes ==
  ASSUME SlotInv, BytesInv, SearchStep
  PROVE  BytesInv'
<1>1. PICK S \in SUBSET Pieces :
        \E pieces \in Orders(S), accepted \in BOOLEAN : Search(pieces, accepted)
  BY DEF SearchStep
<1>2. PICK pieces \in Orders(S), accepted \in BOOLEAN : Search(pieces, accepted)
  BY <1>1
<1>3. pc' = "merge" /\ pc = "land" /\ UNCHANGED <<log, bodies, merging, uploads, pool, descs, host>>
  BY <1>2 DEF Search, fieldVars, bodyVars
<1>4. PICK w : \E T \in SUBSET FreeSlots(volumes) : \E slots \in Orders(T) :
        \/ UNCHANGED <<volumes, frees, flying>>
        \/ /\ volumes' = [s \in Slots |-> IF s \in T THEN [Blank EXCEPT !.used = TRUE] ELSE volumes[s]]
           /\ flying' = Flights(w, pieces, slots)
           /\ frees' = frees
        \/ /\ frees' = frees \o Reverse(slots)
           /\ UNCHANGED <<volumes, flying>>
  <2>1. PICK w : w = Head(DrainInbox(windows))
    OBVIOUS
  <2> QED BY <1>2, <2>1 DEF Search
<1>5. PICK T \in SUBSET FreeSlots(volumes) : \E slots \in Orders(T) :
        \/ UNCHANGED <<volumes, frees, flying>>
        \/ /\ volumes' = [s \in Slots |-> IF s \in T THEN [Blank EXCEPT !.used = TRUE] ELSE volumes[s]]
           /\ flying' = Flights(w, pieces, slots)
           /\ frees' = frees
        \/ /\ frees' = frees \o Reverse(slots)
           /\ UNCHANGED <<volumes, flying>>
  BY <1>4
<1>6. PICK slots \in Orders(T) :
        \/ UNCHANGED <<volumes, frees, flying>>
        \/ /\ volumes' = [s \in Slots |-> IF s \in T THEN [Blank EXCEPT !.used = TRUE] ELSE volumes[s]]
           /\ flying' = Flights(w, pieces, slots)
           /\ frees' = frees
        \/ /\ frees' = frees \o Reverse(slots)
           /\ UNCHANGED <<volumes, flying>>
  BY <1>5
<1>7. /\ T \subseteq Slots /\ T \cap PasteSlots = {} /\ PasteSlots \subseteq Slots
      /\ frees \in Seq(Slots) /\ \A k \in DOMAIN flying : flying[k].copy.form = "birth"
  BY FreeIsNotPasted, SlotFacts, BytesFacts DEF BytesTypeOK, HeldSlots
<1>8. /\ frees' \in Seq(Slots) /\ \A t \in PasteSlots : t \in Range(frees') => t \in Range(frees)
  <2>1. CASE frees' = frees
    BY <1>7, <2>1
  <2>2. CASE frees' = frees \o Reverse(slots)
    <3>1. PICK n : n = Cardinality(T)
      OBVIOUS
    <3>2. slots \in [1..n -> T]
      BY <3>1 DEF Orders, SetToSeqs
    <3>3. n \in Nat
      <4>1. Volumes \in Nat
        BY IslandsAssumption DEF IslandsAssumption
      <4>2. IsFiniteSet(T)
        <5>1. IsFiniteSet(1..Volumes)
          BY <4>1, FS_Interval
        <5>2. T \subseteq 1..Volumes
          BY <1>7 DEF Slots
        <5> QED BY <5>1, <5>2, FS_Subset
      <4> QED BY <3>1, <4>2, FS_CardinalityType
    <3>4. PICK r : r = Reverse(slots)
      OBVIOUS
    <3>5. r \in Seq(T) /\ Range(r) \subseteq T
      BY <3>2, <3>3, <3>4, ReverseFacts
    <3>6. r \in Seq(Slots)
      <4>1. Len(r) \in Nat /\ r \in [1..Len(r) -> T]
        BY <3>5, LenProperties
      <4>2. r \in [1..Len(r) -> Slots]
        BY <1>7, <4>1
      <4> QED BY <4>1, <4>2, SeqDef
    <3>7. frees \o r \in Seq(Slots) /\ Range(frees \o r) \subseteq Range(frees) \cup Range(r)
      BY <1>7, <3>6, FreedMore
    <3> QED BY <1>7, <2>2, <3>4, <3>5, <3>7
  <2> QED BY <1>6, <2>1, <2>2
<1>9. \A t \in PasteSlots : volumes'[t].data = volumes[t].data
  BY <1>6, <1>7
<1>10. \A k \in DOMAIN flying' : flying'[k].copy.form = "birth"
  <2>1. CASE flying' = flying
    BY <1>7, <2>1
  <2>2. CASE flying' = Flights(w, pieces, slots)
    BY <2>2 DEF Flights
  <2> QED BY <1>6, <2>1, <2>2
<1>11. Live' = Live /\ \A i \in Live : BirthOf(bodies[i])' = BirthOf(bodies[i])
  BY <1>3 DEF Live, BirthOf
<1> QED BY <1>3, <1>8, <1>9, <1>10, <1>11, BytesQuiet

LEMMA MergeBytes ==
  ASSUME SlotInv, BytesInv, NEW i, NEW accepted \in BOOLEAN, StartMerge(i, accepted)
  PROVE  BytesInv'
<1>1. pc' = "idle" /\ UNCHANGED <<log, bodies, flying, uploads, pool, descs, host>>
  BY DEF StartMerge, fieldVars
<1>2. PICK out : out = IF FreeSlots(volumes) # {} THEN FirstFree(volumes) ELSE bodies[i].slot
  OBVIOUS
<1>3. \/ UNCHANGED <<volumes, frees>>
      \/ /\ out # bodies[i].slot /\ frees' = frees
         /\ volumes' = Allocated(volumes, out)
      \/ /\ out # bodies[i].slot /\ volumes' = volumes
         /\ frees' = Append(frees, out)
  BY <1>2 DEF StartMerge
<1>4. out # bodies[i].slot => out \in FreeSlots(volumes)
  <2>1. FreeSlots(volumes) \subseteq Nat
    <3>1. Volumes \in Nat
      BY IslandsAssumption DEF IslandsAssumption
    <3> QED BY <3>1 DEF FreeSlots, Slots
  <2>2. FreeSlots(volumes) # {} => FirstFree(volumes) \in FreeSlots(volumes)
    BY <2>1, LeastNatural DEF FirstFree
  <2> QED BY <1>2, <2>2
<1>5. /\ FreeSlots(volumes) \subseteq Slots /\ FreeSlots(volumes) \cap PasteSlots = {}
      /\ PasteSlots \subseteq Slots /\ frees \in Seq(Slots)
      /\ \A k \in DOMAIN flying : flying[k].copy.form = "birth"
      /\ volumes \in [Slots -> [used : BOOLEAN, pinned : BOOLEAN, data : Data \cup {None}]]
  BY FreeIsNotPasted, SlotFacts, BytesFacts DEF BytesTypeOK, HeldSlots, IslandsTypeOK
<1>6. /\ frees' \in Seq(Slots) /\ \A t \in PasteSlots : t \in Range(frees') => t \in Range(frees)
  <2>1. CASE frees' = frees
    BY <1>5, <2>1
  <2>2. CASE out \in FreeSlots(volumes) /\ frees' = Append(frees, out)
    <3>1. Append(frees, out) \in Seq(Slots) /\ Range(Append(frees, out)) \subseteq Range(frees) \cup {out}
      BY <1>5, <2>2, FreedOne
    <3> QED BY <1>5, <2>2, <3>1
  <2> QED BY <1>3, <1>4, <2>1, <2>2
<1>7. \A t \in PasteSlots : volumes'[t].data = volumes[t].data
  <2>1. CASE volumes' = volumes
    BY <2>1
  <2>2. CASE out \in FreeSlots(volumes) /\ volumes' = Allocated(volumes, out)
    BY <1>5, <2>2 DEF Allocated
  <2> QED BY <1>3, <1>4, <2>1, <2>2
<1>8. Live' = Live /\ \A k \in Live : BirthOf(bodies[k])' = BirthOf(bodies[k])
  BY <1>1 DEF Live, BirthOf
<1> QED BY <1>1, <1>5, <1>6, <1>7, <1>8, BytesQuiet


(* A frame begins: what is published are the births of the bodies.         *)
LEMMA DescribedFacts ==
  ASSUME SlotInv, NEW d \in Described
  PROVE  \E j \in Live : /\ bodies[j].atlas # 0
                         /\ d = [atlas |-> bodies[j].atlas, slot |-> bodies[j].slot,
                                 data |-> BirthOf(bodies[j])]
                         /\ d \in DescRecs
                         /\ d.slot = bodies[j].slot /\ d.data = BirthOf(bodies[j])
                         /\ d.data.piece = bodies[j].piece
<1>1. PICK j \in Live : /\ bodies[j].atlas # 0
                        /\ d = [atlas |-> bodies[j].atlas, slot |-> bodies[j].slot,
                                data |-> BirthOf(bodies[j])]
  BY DEF Described, BirthOf
<1>2. bodies[j] \in BodyRecs
  BY SlotFacts
<1>3. BirthOf(bodies[j]) \in Data /\ BirthOf(bodies[j]).piece = bodies[j].piece
  BY <1>2 DEF BirthOf, BodyRecs, Data
<1>4. d \in DescRecs
  BY <1>1, <1>2, <1>3 DEF DescRecs, BodyRecs
<1>5. d.slot = bodies[j].slot /\ d.data = BirthOf(bodies[j])
  BY <1>1
<1> QED BY <1>1, <1>3, <1>4, <1>5

LEMMA BeginBytes ==
  ASSUME SlotInv, BytesInv, BeginFrame
  PROVE  BytesInv'
<1>1. /\ pc' = "land" /\ descs' = Published
      /\ UNCHANGED <<log, flying, bodies, merging, volumes, uploads, frees, pool, host>>
  BY DEF BeginFrame, fieldVars
<1>2. /\ BytesTypeOK /\ PastesKept /\ UploadsAreOf /\ BodiesKept /\ DescsKept /\ HeldOnce
      /\ \A k \in DOMAIN merging : merging[k].body \in Live
  BY BytesFacts, SlotFacts
<1>3. PICK D : D = Described
  OBVIOUS
<1>4. descs' = [of |-> D, dirty |-> TRUE] /\ descs'.of = D /\ descs'.dirty
  BY <1>1, <1>3 DEF Published
<1>5. \A d \in D : \E j \in Live :
         /\ bodies[j].atlas # 0 /\ d \in DescRecs
         /\ d.slot = bodies[j].slot /\ d.data = BirthOf(bodies[j])
         /\ d.data.piece = bodies[j].piece
  BY <1>3, DescribedFacts
<1>6. \A s : BytesOf(s)' = BytesOf(s) /\ NormalsOf(s)' = NormalsOf(s)
  BY <1>1 DEF BytesOf, NormalsOf, Uploaded
<1>7. Live' = Live /\ \A d : PastedOver(d)' <=> PastedOver(d)
  BY <1>1 DEF Live, PastedOver
<1>8. BytesTypeOK'
  <2>1. D \in SUBSET DescRecs
    BY <1>5
  <2>2. descs' \in [of : SUBSET DescRecs, dirty : BOOLEAN]
    BY <1>4, <2>1
  <2> QED BY <1>1, <1>2, <2>2 DEF BytesTypeOK
<1>9. PastesKept'
  BY <1>1, <1>2, <1>6 DEF PastesKept, NormalsRefused, On
<1>10. UploadsAreOf'
  BY <1>1, <1>2 DEF UploadsAreOf
<1>11. BodiesKept'
  BY <1>1, <1>2, <1>6, <1>7 DEF BodiesKept, BirthOf
<1>12. DescsKept'
  <2>1. \A d \in D : BytesOf(d.slot) = d.data
    BY <1>2, <1>5 DEF BodiesKept
  <2> QED BY <1>1, <1>2, <1>4, <1>6, <1>7, <2>1 DEF DescsKept
<1>13. LandingSparesDescs'
  <2> SUFFICES ASSUME NEW d \in D
               PROVE  /\ d.slot \notin FlightSlots'
                      /\ \A k \in DOMAIN merging : merging[k].out = d.slot =>
                            /\ Reuses(merging[k])'
                            /\ d.data.piece = bodies[merging[k].body].piece
    BY <1>1, <1>4 DEF LandingSparesDescs
  <2>1. PICK j \in Live : d.slot = bodies[j].slot /\ d.data.piece = bodies[j].piece
    BY <1>5
  <2>2. d.slot \in BodySlots
    BY <2>1 DEF BodySlots
  <2>3. d.slot \notin FlightSlots'
    BY <1>1, <1>2, <2>2 DEF HeldOnce, FlightSlots
  <2>4. ASSUME NEW k \in DOMAIN merging, merging[k].out = d.slot
        PROVE  Reuses(merging[k])' /\ merging[k].body = j
    <3>1. Reuses(merging[k])
      BY <1>2, <2>2, <2>4 DEF HeldOnce
    <3>2. bodies[merging[k].body].slot = bodies[j].slot /\ merging[k].body \in Live
      BY <1>2, <2>1, <2>4, <3>1 DEF Reuses
    <3> QED BY <1>1, <1>2, <3>1, <3>2 DEF HeldOnce, Reuses
  <2> QED BY <2>1, <2>3, <2>4
<1> QED BY <1>8, <1>9, <1>10, <1>11, <1>12, <1>13 DEF BytesInv

(* A frame is drawn: what was to land has landed, or its normals found no  *)
(* room.                                                                   *)
LEMMA DrawBytes ==
  ASSUME SlotInv, BytesInv, NEW bare \in SUBSET Slots, DrawFrame(bare)
  PROVE  BytesInv'
<1>1. /\ pc \in {"idle", "down"} /\ uploads' = <<>> /\ frees' = <<>>
      /\ UNCHANGED <<log, pc, flying, bodies, merging, volumes>>
  BY DEF DrawFrame, fieldVars, workVars, bodyVars
<1>2. /\ BytesTypeOK /\ PastesKept /\ UploadsAreOf /\ BodiesKept /\ DescsKept
      /\ descs.of \subseteq DescRecs /\ pool.shown \subseteq DescRecs
      /\ uploads \in Seq(UploadRecs)
  BY BytesFacts
<1>3. PICK shown : shown = IF descs.dirty THEN descs.of ELSE pool.shown
  OBVIOUS
<1>4. PICK D, N : /\ D = [s \in Slots |-> BytesOf(s)]
                  /\ N = [s \in Slots |-> IF s \in bare THEN None ELSE NormalsOf(s)]
  OBVIOUS
<1>5. pool' \in [data : {D}, normals : {N}, shown : {shown}]
  <2>1. pool \in [data : PoolBytes, normals : PoolBytes, shown : SUBSET DescRecs]
    BY <1>2 DEF BytesTypeOK
  <2>2. Drained(bare) = [pool EXCEPT !.data = D, !.normals = N]
    BY <1>4, <2>1 DEF Drained, BytesOf, NormalsOf
  <2>3. pool' = [Drained(bare) EXCEPT !.shown = shown]
    <3>1. pool' = [Drained(bare) EXCEPT !.shown = IF descs.dirty THEN descs.of ELSE Drained(bare).shown]
      BY DEF DrawFrame
    <3>2. Drained(bare).shown = pool.shown
      BY <2>1, <2>2
    <3> QED BY <1>3, <3>1, <3>2
  <2> QED BY <2>1, <2>2, <2>3
<1>6. pool'.data = D /\ pool'.normals = N /\ pool'.shown = shown
  BY <1>5
<1>7. PICK o : o = descs.of
  OBVIOUS
<1>8. descs' \in [of : {o}, dirty : {FALSE}]
  <2>1. descs \in [of : SUBSET DescRecs, dirty : BOOLEAN]
    BY <1>2 DEF BytesTypeOK
  <2>2. descs' = [descs EXCEPT !.dirty = FALSE]
    BY DEF DrawFrame
  <2> QED BY <1>7, <2>1, <2>2
<1>9. descs'.of = descs.of /\ ~descs'.dirty
  BY <1>7, <1>8
<1>10. \A s \in Slots : /\ BytesOf(s)' = BytesOf(s)
                        /\ NormalsOf(s)' = IF s \in bare THEN None ELSE NormalsOf(s)
  <2>1. DOMAIN uploads' = {} /\ Range(frees') = {}
    BY <1>1, EmptySeq DEF Range
  <2> QED BY <1>4, <1>6, <2>1 DEF BytesOf, NormalsOf, Uploaded
<1>11. \A s \in Slots : BytesOf(s) \in Data \cup {None} /\ NormalsOf(s) \in Data \cup {None}
  <2> SUFFICES ASSUME NEW s \in Slots
               PROVE  BytesOf(s) \in Data \cup {None} /\ NormalsOf(s) \in Data \cup {None}
    OBVIOUS
  <2>1. pool.data[s] \in Data \cup {None} /\ pool.normals[s] \in Data \cup {None}
    BY BytesFacts DEF PoolBytes
  <2>2. ASSUME NEW old \in Data \cup {None} PROVE LastOf(uploads, s, old) \in Data \cup {None}
    <3>1. \A i \in DOMAIN uploads : uploads[i].data \in Data
      BY BytesFacts DEF UploadRecs
    <3> QED BY <1>2, <3>1, LastOfFacts
  <2> QED BY <2>1, <2>2, UploadedIsLast
<1>12. BytesTypeOK'
  <2>1. D \in PoolBytes /\ N \in PoolBytes
    BY <1>4, <1>11 DEF PoolBytes
  <2>2. shown \in SUBSET DescRecs /\ o \in SUBSET DescRecs
    BY <1>2, <1>3, <1>7
  <2>3. uploads' \in Seq(UploadRecs) /\ frees' \in Seq(Slots)
    BY <1>1, EmptySeq
  <2>4. pool' \in [data : PoolBytes, normals : PoolBytes, shown : SUBSET DescRecs]
    BY <1>5, <2>1, <2>2
  <2>5. descs' \in [of : SUBSET DescRecs, dirty : BOOLEAN]
    BY <1>8, <2>2
  <2> QED BY <1>1, <1>2, <2>3, <2>4, <2>5 DEF BytesTypeOK
<1>13. Live' = Live /\ BodySlots \subseteq Slots /\ PasteSlots \subseteq Slots
       /\ \A d : PastedOver(d)' <=> PastedOver(d)
  BY <1>1, SlotFacts DEF Live, PastedOver, HeldSlots
<1>14. PastesKept'
  <2> SUFFICES ASSUME NEW x \in log.pastes
               PROVE  /\ volumes[x.slot].data = x.data /\ x.data.form = "rest"
                      /\ BytesOf(x.slot)' = x.data
                      /\ NormalsOf(x.slot)' = x.data \/ NormalsRefused(x.slot)'
    BY <1>1 DEF PastesKept
  <2>1. x.slot \in Slots
    BY <1>13 DEF PasteSlots
  <2>2. /\ volumes[x.slot].data = x.data /\ x.data.form = "rest"
        /\ BytesOf(x.slot) = x.data
        /\ NormalsOf(x.slot) = x.data \/ NormalsRefused(x.slot)
    BY <1>2 DEF PastesKept
  <2>3. host' = host /\ DOMAIN uploads' = {}
    <3>1. host' = host
      BY DEF DrawFrame
    <3>2. DOMAIN uploads' = {}
      BY <1>1, EmptySeq
    <3> QED BY <3>1, <3>2
  <2>4. CASE x.slot \in bare
    <3>1. On("no normals")'
      BY <2>3, <2>4 DEF DrawFrame, On
    <3>2. pool'.normals[x.slot] = None
      BY <1>4, <1>6, <2>1, <2>4
    <3> QED BY <1>10, <2>1, <2>2, <2>3, <3>1, <3>2 DEF NormalsRefused
  <2>5. CASE x.slot \notin bare /\ NormalsOf(x.slot) = x.data
    BY <1>10, <2>1, <2>2, <2>5
  <2>6. CASE x.slot \notin bare /\ NormalsRefused(x.slot)
    <3>1. NormalsOf(x.slot) = None
      BY <2>6 DEF NormalsRefused, NormalsOf, Uploaded
    <3>2. pool'.normals[x.slot] = None
      BY <1>4, <1>6, <2>1, <2>6, <3>1
    <3>3. NormalsRefused(x.slot)'
      BY <2>3, <2>6, <3>2 DEF NormalsRefused, On
    <3> QED BY <1>10, <2>1, <2>2, <3>3
  <2> QED BY <2>2, <2>4, <2>5, <2>6
<1>15. UploadsAreOf'
  BY <1>1 DEF UploadsAreOf
<1>16. BodiesKept'
  <2>1. \A i \in Live : bodies[i].slot \in Slots
    BY <1>13 DEF BodySlots
  <2> QED BY <1>1, <1>2, <1>10, <1>13, <2>1 DEF BodiesKept, BirthOf
<1>17. DescsKept'
  <2>1. \A d \in DescRecs : d.slot \in Slots
    BY DEF DescRecs
  <2>2. \A d \in descs.of : BytesOf(d.slot)' = d.data \/ PastedOver(d)'
    BY <1>2, <1>10, <1>13, <2>1 DEF DescsKept
  <2>3. ASSUME NEW d \in shown PROVE D[d.slot] = d.data \/ PastedOver(d)
    <3>1. d.slot \in Slots /\ D[d.slot] = BytesOf(d.slot)
      BY <1>2, <1>3, <1>4, <2>1
    <3>2. CASE descs.dirty
      BY <1>2, <1>3, <3>1, <3>2 DEF DescsKept
    <3>3. CASE ~descs.dirty
      <4>1. d \in pool.shown /\ uploads = <<>>
        BY <1>2, <1>3, <3>3 DEF DescsKept
      <4>2. BytesOf(d.slot) = pool.data[d.slot]
        BY <4>1 DEF BytesOf, Uploaded
      <4> QED BY <1>2, <3>1, <4>1, <4>2 DEF DescsKept
    <3> QED BY <3>2, <3>3
  <2> QED BY <1>1, <1>6, <1>9, <1>13, <2>2, <2>3 DEF DescsKept
<1>18. LandingSparesDescs'
  BY <1>1 DEF LandingSparesDescs
<1> QED BY <1>12, <1>14, <1>15, <1>16, <1>17, <1>18 DEF BytesInv


(* What one more upload does to the bytes.                                 *)
LEMMA UploadMore ==
  ASSUME BytesTypeOK, NEW u \in UploadRecs, uploads' = Append(uploads, u), pool' = pool
  PROVE  /\ uploads' \in Seq(UploadRecs)
         /\ \A j \in DOMAIN uploads' :
              uploads'[j] = u \/ \E k \in DOMAIN uploads : uploads'[j] = uploads[k]
         /\ \A s : BytesOf(s)' = IF u.slot = s THEN u.data ELSE BytesOf(s)
         /\ \A s : NormalsOf(s)' = IF u.slot = s THEN u.data
                                   ELSE LastOf(uploads, s, IF s \in Range(frees') THEN None
                                                           ELSE pool.normals[s])
<1>1. PICK q : q = uploads
  OBVIOUS
<1>2. q \in Seq(UploadRecs) /\ uploads' = Append(q, u)
  BY <1>1 DEF BytesTypeOK
<1>3. /\ uploads' \in Seq(UploadRecs)
      /\ \A j \in DOMAIN uploads' :
           uploads'[j] = u \/ \E k \in DOMAIN q : uploads'[j] = q[k]
  <2>1. PICK r : r = Append(q, u)
    OBVIOUS
  <2>2. /\ r \in Seq(UploadRecs) /\ Len(r) = Len(q) + 1
        /\ \A i \in 1..Len(q) : r[i] = q[i]
        /\ r[Len(q) + 1] = u
    BY <1>2, <2>1, AppendProperties
  <2>3. Len(q) \in Nat /\ DOMAIN q = 1..Len(q) /\ DOMAIN r = 1..(Len(q) + 1)
    BY <1>2, <2>2, LenProperties
  <2>4. \A i \in DOMAIN r : i \in DOMAIN q \/ i = Len(q) + 1
    BY <2>3
  <2> QED BY <1>2, <2>1, <2>2, <2>3, <2>4
<1>4. \A s, old : LastOf(Append(q, u), s, old) = IF u.slot = s THEN u.data ELSE LastOf(q, s, old)
  BY <1>2, LastOfAppend
<1>5. /\ \A s : BytesOf(s)' = LastOf(uploads', s, pool.data[s])
      /\ \A s : NormalsOf(s)' = LastOf(uploads', s, IF s \in Range(frees') THEN None ELSE pool.normals[s])
  BY DEF BytesOf, NormalsOf, Uploaded, LastOf
<1>6. \A s : BytesOf(s) = LastOf(q, s, pool.data[s])
  BY <1>1, UploadedIsLast
<1>7. /\ \A s : BytesOf(s)' = IF u.slot = s THEN u.data ELSE BytesOf(s)
      /\ \A s : NormalsOf(s)' = IF u.slot = s THEN u.data
                                ELSE LastOf(q, s, IF s \in Range(frees') THEN None ELSE pool.normals[s])
  BY <1>2, <1>4, <1>5, <1>6
<1> QED BY <1>1, <1>3, <1>7

(* A carve writes the slot of its flight, which nothing else names.        *)
LEMMA CarveBytes ==
  ASSUME SlotInv, BytesInv, LandCarve
  PROVE  BytesInv'
<1>1. PICK f, b, i : CarvedOut(f, b, i)
  BY CarveFacts
<1>2. PICK u : u = [slot |-> f.slot, atlas |-> b.atlas, data |-> f.copy]
  OBVIOUS
<1>3. /\ Takes(f) /\ FlightOk(f)
      /\ b \in BodyRecs /\ b # None /\ b.slot = f.slot /\ b.piece = f.piece /\ b.shape = f.copy.shape
      /\ i \notin Live /\ DOMAIN bodies' = DOMAIN bodies \cup {i} /\ bodies'[i] = b
      /\ \A k \in DOMAIN bodies : k # i => bodies'[k] = bodies[k]
      /\ volumes' = Stored(volumes, f.slot, f.copy)
      /\ log' = [log EXCEPT !.seq = @ + 1]
      /\ uploads' = IF b.atlas = 0 THEN uploads ELSE Append(uploads, u)
  BY <1>1, <1>2 DEF CarvedOut
<1>4. UNCHANGED <<pc, merging, frees, descs, pool, host>> /\ pc = "land"
  BY DEF LandCarve, Landing
<1>5. /\ BytesTypeOK /\ PastesKept /\ UploadsAreOf /\ BodiesKept /\ DescsKept /\ LandingSparesDescs
      /\ IslandsTypeOK /\ HeldOnce /\ Live \subseteq DOMAIN bodies
      /\ \A k \in DOMAIN merging : merging[k].body \in Live
      /\ MergeSlots \cap FlightSlots = {}
  BY BytesFacts, SlotFacts
<1>6. /\ f.slot \in FlightSlots /\ FlightSlots' = FlightSlots \ {f.slot}
      /\ f.copy.form = "birth"
      /\ \A k \in DOMAIN flying' : flying'[k].copy.form = "birth"
  <2>1. /\ f.slot \in FlightSlots /\ FlightSlots' = FlightSlots \ {f.slot}
        /\ \E k \in DOMAIN flying : f = flying[k]
        /\ \A l \in DOMAIN flying' : \E k \in DOMAIN flying : flying'[l] = flying[k]
    BY <1>3, <1>5, TakesFacts
  <2> QED BY <1>5, <2>1 DEF BytesTypeOK
<1>7. BirthOf(b) = f.copy
  BY <1>3, <1>6 DEF BirthOf, FlightOk, Data
<1>8. u \in UploadRecs /\ u.slot = f.slot /\ u.atlas = b.atlas /\ u.data = f.copy
  BY <1>2, <1>3 DEF UploadRecs, FlightOk, BodyRecs
<1>9. f.slot \notin PasteSlots /\ f.slot \notin BodySlots
  BY <1>5, <1>6 DEF HeldOnce
<1>10. Live' = Live \cup {i} /\ \A k \in Live : k # i /\ bodies'[k] = bodies[k]
  BY <1>3, <1>5 DEF Live
<1>11. log'.pastes = log.pastes
  <2>1. log \in [seq : Nat, tools : Nat, full : BOOLEAN, pastes : SUBSET PasteRecs]
    BY <1>5 DEF IslandsTypeOK
  <2> QED BY <1>3, <2>1
<1>12. /\ uploads' \in Seq(UploadRecs) /\ u.slot = f.slot
       /\ \A j \in DOMAIN uploads' : \/ b.atlas # 0 /\ uploads'[j] = u
                                     \/ \E k \in DOMAIN uploads : uploads'[j] = uploads[k]
       /\ \A s : s # f.slot => BytesOf(s)' = BytesOf(s) /\ NormalsOf(s)' = NormalsOf(s)
       /\ b.atlas # 0 => BytesOf(f.slot)' = f.copy
  <2>1. CASE b.atlas = 0
    <3>1. uploads' = uploads /\ u.slot = f.slot
      BY <1>2, <1>3, <2>1
    <3> QED BY <1>4, <1>5, <2>1, <3>1 DEF BytesTypeOK, BytesOf, NormalsOf, Uploaded
  <2>2. CASE b.atlas # 0
    <3>1. uploads' = Append(uploads, u)
      BY <1>3, <2>2
    <3>2. /\ uploads' \in Seq(UploadRecs)
          /\ \A j \in DOMAIN uploads' :
               uploads'[j] = u \/ \E k \in DOMAIN uploads : uploads'[j] = uploads[k]
          /\ \A s : BytesOf(s)' = IF u.slot = s THEN u.data ELSE BytesOf(s)
          /\ \A s : NormalsOf(s)' = IF u.slot = s THEN u.data
                                    ELSE LastOf(uploads, s, IF s \in Range(frees') THEN None
                                                            ELSE pool.normals[s])
      BY <1>4, <1>5, <1>8, <3>1, UploadMore
    <3>3. \A s : NormalsOf(s) = LastOf(uploads, s, IF s \in Range(frees) THEN None ELSE pool.normals[s])
      BY UploadedIsLast
    <3> QED BY <1>4, <1>8, <2>2, <3>2, <3>3
  <2> QED BY <2>1, <2>2
<1>13. BytesTypeOK'
  BY <1>4, <1>5, <1>6, <1>12 DEF BytesTypeOK
<1>14. PastesKept'
  <2> SUFFICES ASSUME NEW x \in log.pastes
               PROVE  /\ volumes'[x.slot].data = x.data /\ x.data.form = "rest"
                      /\ BytesOf(x.slot)' = x.data
                      /\ NormalsOf(x.slot)' = x.data \/ NormalsRefused(x.slot)'
    BY <1>11 DEF PastesKept
  <2>1. x.slot # f.slot
    BY <1>9 DEF PasteSlots
  <2>2. volumes'[x.slot] = volumes[x.slot]
    BY <1>3, <2>1 DEF Stored
  <2>3. NormalsRefused(x.slot) => NormalsRefused(x.slot)'
    BY <1>4, <1>5, <1>12, <2>1 DEF NormalsRefused, On
  <2> QED BY <1>5, <1>12, <2>1, <2>2, <2>3 DEF PastesKept
<1>15. UploadsAreOf'
  <2> SUFFICES ASSUME NEW j \in DOMAIN uploads'
               PROVE  IF uploads'[j].atlas = 0
                      THEN \E x \in log.pastes : x.slot = uploads'[j].slot /\ x.data = uploads'[j].data
                      ELSE uploads'[j].data.form = "birth"
    BY <1>11 DEF UploadsAreOf
  <2>1. CASE b.atlas # 0 /\ uploads'[j] = u
    BY <1>6, <1>8, <2>1
  <2>2. CASE \E k \in DOMAIN uploads : uploads'[j] = uploads[k]
    BY <1>5, <2>2 DEF UploadsAreOf
  <2> QED BY <1>12, <2>1, <2>2
<1>16. BodiesKept'
  <2>1. ASSUME NEW k \in Live, bodies[k].atlas # 0 PROVE BytesOf(bodies[k].slot)' = BirthOf(bodies[k])
    <3>1. bodies[k].slot # f.slot
      BY <1>9 DEF BodySlots
    <3>2. BytesOf(bodies[k].slot) = BirthOf(bodies[k])
      BY <1>5, <2>1 DEF BodiesKept
    <3>3. PICK s : s = bodies[k].slot
      OBVIOUS
    <3>4. bodies'[k] = bodies[k]
      BY <1>10
    <3>5. BytesOf(s)' = BytesOf(s)
      BY <1>12, <3>1, <3>3
    <3>6. BytesOf(bodies[k].slot)' = BytesOf(s)'
      BY <3>3, <3>4 DEF BytesOf, Uploaded
    <3> QED BY <3>2, <3>3, <3>5, <3>6
  <2> QED BY <1>3, <1>7, <1>10, <1>12, <2>1 DEF BodiesKept, BirthOf
<1>17. \A d : PastedOver(d)' <=> PastedOver(d)
  BY <1>11 DEF PastedOver
<1>18. DescsKept'
  <2>1. \A d \in descs.of : d.slot # f.slot
    BY <1>4, <1>5, <1>6 DEF LandingSparesDescs
  <2>2. \A d \in descs.of : BytesOf(d.slot)' = BytesOf(d.slot)
    BY <1>12, <2>1
  <2> QED BY <1>4, <1>5, <1>17, <2>2 DEF DescsKept
<1>19. LandingSparesDescs'
  <2> SUFFICES ASSUME NEW d \in descs.of
               PROVE  /\ d.slot \notin FlightSlots'
                      /\ \A k \in DOMAIN merging : merging[k].out = d.slot =>
                            /\ Reuses(merging[k])'
                            /\ d.data.piece = bodies'[merging[k].body].piece
    BY <1>4 DEF LandingSparesDescs
  <2>1. /\ d.slot \notin FlightSlots
        /\ \A k \in DOMAIN merging : merging[k].out = d.slot =>
              Reuses(merging[k]) /\ d.data.piece = bodies[merging[k].body].piece
    BY <1>4, <1>5 DEF LandingSparesDescs
  <2>2. \A k \in DOMAIN merging : bodies'[merging[k].body] = bodies[merging[k].body]
    BY <1>5, <1>10
  <2> QED BY <1>4, <1>6, <2>1, <2>2 DEF Reuses
<1> QED BY <1>13, <1>14, <1>15, <1>16, <1>18, <1>19 DEF BytesInv


(* A paste writes its own slot, and pins it; of what was published that    *)
(* slot is named by the pasted body alone.                                 *)
LEMMA PasteBytes ==
  ASSUME SlotInv, BytesInv, LandPaste
  PROVE  BytesInv'
<1>1. PICK m, rest, vs : Pastes(m, rest, vs)
  BY PasteFacts
<1>2. PICK birth : birth = bodies[m.body].slot
  OBVIOUS
<1>3. PICK x0 : x0 = [slot |-> m.out, data |-> rest]
  OBVIOUS
<1>4. PICK u : u = [slot |-> m.out, atlas |-> 0, data |-> rest]
  OBVIOUS
<1>5. /\ m = merging[1] /\ rest \in Data
      /\ rest.piece = bodies[m.body].piece /\ rest.form = "rest"
      /\ vs \in [Slots -> [used : BOOLEAN, pinned : BOOLEAN, data : Data \cup {None}]]
      /\ vs[m.out].used /\ vs[m.out].pinned /\ vs[m.out].data = rest
      /\ \A t \in Slots \ {m.out} : vs[t] = volumes[t]
      /\ volumes' = Released(vs, birth) /\ frees' = FreeQueue(vs, birth)
      /\ uploads' = Append(uploads, u)
      /\ bodies' = [bodies EXCEPT ![m.body] = None]
      /\ log' = [log EXCEPT !.seq = @ + 1, !.pastes = @ \cup {x0}]
  BY <1>1, <1>2, <1>3, <1>4 DEF Pastes
<1>6. /\ Landing("resample") /\ merging' = Tail(merging)
      /\ UNCHANGED <<pc, flying, descs, pool, host>> /\ pc = "land"
  BY DEF LandPaste, Landing
<1>7. /\ BytesTypeOK /\ PastesKept /\ UploadsAreOf /\ BodiesKept /\ DescsKept /\ LandingSparesDescs
      /\ IslandsTypeOK /\ HeldOnce /\ UsedIsHeld /\ Live \subseteq DOMAIN bodies
      /\ HeldSlots \subseteq Slots /\ \A k \in Live : bodies[k] \in BodyRecs
      /\ log.pastes \subseteq PasteRecs /\ log.seq \in Nat
  BY BytesFacts, SlotFacts
<1>8. /\ m \in MergeRecs /\ m.body \in Live /\ MergeSlots = {m.out}
      /\ DOMAIN merging = {1} /\ DOMAIN merging' = {}
  BY <1>5, <1>6, ResampleFacts
<1>9. /\ m.out \in Slots /\ m.out \notin PasteSlots /\ birth \in Slots /\ PasteSlots \subseteq Slots
      /\ m.out \in BodySlots => m.out = birth
  BY <1>2, <1>5, <1>7, <1>8 DEF HeldOnce, MergeRecs, BodyRecs, Reuses, HeldSlots
<1>10. x0.slot = m.out /\ x0.data = rest
  BY <1>3
<1>11. u \in UploadRecs /\ u.slot = m.out /\ u.atlas = 0 /\ u.data = rest
  <2>1. Atlas \in Nat
    BY IslandsAssumption DEF IslandsAssumption
  <2> QED BY <1>4, <1>5, <1>9, <2>1 DEF UploadRecs
<1>12. log'.pastes = log.pastes \cup {x0}
  <2>1. log \in [seq : Nat, tools : Nat, full : BOOLEAN, pastes : SUBSET PasteRecs]
    BY <1>7 DEF IslandsTypeOK
  <2>2. PICK ps : ps = log.pastes \cup {x0}
    OBVIOUS
  <2>3. log' = [log EXCEPT !.seq = log.seq + 1, !.pastes = ps]
    BY <1>5, <2>2
  <2> QED BY <2>1, <2>2, <2>3
<1>13. /\ frees' \in Seq(Slots)
       /\ \A t \in PasteSlots : t \in Range(frees') => t \in Range(frees)
       /\ \A t \in PasteSlots : volumes'[t].data = volumes[t].data
  <2>1. \A t \in PasteSlots : vs[t] = volumes[t] /\ vs[t].pinned
    BY <1>5, <1>7, <1>9 DEF UsedIsHeld
  <2>2. /\ FreeQueue(vs, birth) \in Seq(Slots)
        /\ \A t \in PasteSlots : t \in Range(FreeQueue(vs, birth)) => t \in Range(frees)
        /\ \A t \in PasteSlots : Released(vs, birth)[t] = vs[t]
    BY <1>5, <1>9, <2>1, ReleaseQuiet
  <2> QED BY <1>5, <2>1, <2>2
<1>14. volumes'[m.out].data = rest
  BY <1>5, <1>9 DEF Released, CanRelease
<1>15. /\ uploads' \in Seq(UploadRecs)
       /\ \A j \in DOMAIN uploads' :
            uploads'[j] = u \/ \E k \in DOMAIN uploads : uploads'[j] = uploads[k]
       /\ \A s : BytesOf(s)' = IF m.out = s THEN rest ELSE BytesOf(s)
       /\ \A s : NormalsOf(s)' = IF m.out = s THEN rest
                                 ELSE LastOf(uploads, s, IF s \in Range(frees') THEN None
                                                         ELSE pool.normals[s])
  BY <1>5, <1>6, <1>7, <1>11, UploadMore
<1>16. Live' = Live \ {m.body} /\ \A k \in Live' : bodies'[k] = bodies[k] /\ bodies[k].slot # m.out
  <2>1. Live' = Live \ {m.body} /\ \A k \in Live' : bodies'[k] = bodies[k]
    BY <1>5, <1>7, <1>8 DEF Live
  <2>2. ASSUME NEW k \in Live', bodies[k].slot = m.out PROVE FALSE
    <3>1. m.out \in BodySlots
      BY <2>1, <2>2 DEF BodySlots
    <3>2. bodies[k].slot = bodies[m.body].slot
      BY <1>2, <1>9, <2>2, <3>1
    <3> QED BY <1>7, <1>8, <2>1, <3>2 DEF HeldOnce
  <2> QED BY <2>1, <2>2
<1>17. BytesTypeOK'
  BY <1>6, <1>7, <1>13, <1>15 DEF BytesTypeOK
<1>18. PastesKept'
  <2>1. ASSUME NEW x \in log.pastes
        PROVE  /\ volumes'[x.slot].data = x.data /\ x.data.form = "rest"
               /\ BytesOf(x.slot)' = x.data
               /\ NormalsOf(x.slot)' = x.data \/ NormalsRefused(x.slot)'
    <3>1. x.slot \in PasteSlots /\ x.slot # m.out
      BY <1>9 DEF PasteSlots
    <3>2. /\ volumes[x.slot].data = x.data /\ x.data.form = "rest"
          /\ BytesOf(x.slot) = x.data
          /\ NormalsOf(x.slot) = x.data \/ NormalsRefused(x.slot)
      BY <1>7 DEF PastesKept
    <3>3. x.data # None
      <4>1. x.data \in Data
        BY <1>7 DEF PasteRecs
      <4> QED BY <4>1, NoneAssumption DEF Data
    <3>4. CASE NormalsOf(x.slot) = x.data
      <4>1. LastOf(uploads, x.slot, IF x.slot \in Range(frees) THEN None ELSE pool.normals[x.slot])
              = x.data
        BY <3>4, UploadedIsLast
      <4>2. LastOf(uploads, x.slot, IF x.slot \in Range(frees') THEN None ELSE pool.normals[x.slot])
              = x.data
        <5>1. CASE \A k \in DOMAIN uploads : uploads[k].slot # x.slot
          BY <1>13, <3>1, <3>3, <4>1, <5>1 DEF LastOf
        <5>2. CASE ~ \A k \in DOMAIN uploads : uploads[k].slot # x.slot
          BY <4>1, <5>2 DEF LastOf
        <5> QED BY <5>1, <5>2
      <4> QED BY <1>13, <1>15, <3>1, <3>2, <4>2
    <3>5. CASE NormalsRefused(x.slot)
      <4>1. NormalsRefused(x.slot)'
        BY <1>6, <1>11, <1>15, <3>1, <3>5 DEF NormalsRefused, On
      <4> QED BY <1>13, <1>15, <3>1, <3>2, <4>1
    <3> QED BY <3>2, <3>4, <3>5
  <2>2. /\ volumes'[m.out].data = rest /\ rest.form = "rest"
        /\ BytesOf(m.out)' = rest /\ NormalsOf(m.out)' = rest
    <3>1. PICK s : s = m.out
      OBVIOUS
    <3>2. BytesOf(s)' = rest /\ NormalsOf(s)' = rest
      BY <1>15, <3>1
    <3> QED BY <1>5, <1>14, <3>1, <3>2
  <2> QED BY <1>10, <1>12, <2>1, <2>2 DEF PastesKept
<1>19. UploadsAreOf'
  <2> SUFFICES ASSUME NEW j \in DOMAIN uploads'
               PROVE  IF uploads'[j].atlas = 0
                      THEN \E x \in log'.pastes : x.slot = uploads'[j].slot /\ x.data = uploads'[j].data
                      ELSE uploads'[j].data.form = "birth"
    BY DEF UploadsAreOf
  <2>1. CASE uploads'[j] = u
    BY <1>10, <1>11, <1>12, <2>1
  <2>2. CASE \E k \in DOMAIN uploads : uploads'[j] = uploads[k]
    BY <1>7, <1>12, <2>2 DEF UploadsAreOf
  <2> QED BY <1>15, <2>1, <2>2
<1>20. BodiesKept'
  <2> SUFFICES ASSUME NEW k \in Live', bodies[k].atlas # 0
               PROVE  BytesOf(bodies[k].slot)' = BirthOf(bodies[k])
    BY <1>16 DEF BodiesKept, BirthOf
  <2>1. PICK s : s = bodies[k].slot
    OBVIOUS
  <2>2. BytesOf(s) = BirthOf(bodies[k])
    BY <1>7, <1>16, <2>1 DEF BodiesKept
  <2>3. BytesOf(s)' = BytesOf(s)
    BY <1>15, <1>16, <2>1
  <2>4. BytesOf(bodies[k].slot)' = BytesOf(s)'
    <3>1. bodies'[k].slot = s
      BY <1>16, <2>1
    <3> QED BY <3>1 DEF BytesOf, Uploaded
  <2> QED BY <2>2, <2>3, <2>4
<1>21. \A d : PastedOver(d) => PastedOver(d)'
  BY <1>12 DEF PastedOver
<1>22. DescsKept'
  <2>1. ASSUME NEW d \in descs.of PROVE BytesOf(d.slot)' = d.data \/ PastedOver(d)'
    <3>1. CASE d.slot = m.out
      <4>1. d.data.piece = bodies[m.body].piece
        BY <1>5, <1>6, <1>7, <1>8, <3>1 DEF LandingSparesDescs
      <4> QED BY <1>5, <1>10, <1>12, <3>1, <4>1 DEF PastedOver
    <3>2. CASE d.slot # m.out
      <4>1. BytesOf(d.slot) = d.data \/ PastedOver(d)
        BY <1>7 DEF DescsKept
      <4> QED BY <1>15, <1>21, <3>2, <4>1
    <3> QED BY <3>1, <3>2
  <2> QED BY <1>6, <1>7, <1>21, <2>1 DEF DescsKept
<1>23. LandingSparesDescs'
  BY <1>6, <1>7, <1>8 DEF LandingSparesDescs, FlightSlots
<1> QED BY <1>17, <1>18, <1>19, <1>20, <1>22, <1>23 DEF BytesInv


LEMMA SetToSeqFacts ==
  ASSUME NEW S, IsFiniteSet(S)
  PROVE  SetToSeq(S) \in Seq(S) /\ Range(SetToSeq(S)) = S
<1>1. PICK n : n = Cardinality(S)
  OBVIOUS
<1>2. n \in Nat /\ ExistsBijection(1..n, S)
  BY <1>1, FS_CardinalityType
<1>3. \E f \in [1..n -> S] : IsInjective(f)
  BY <1>2 DEF ExistsBijection, Bijection, Injection
<1>4. PICK q : q = SetToSeq(S)
  OBVIOUS
<1>5. q \in [1..n -> S] /\ IsInjective(q)
  BY <1>1, <1>3, <1>4 DEF SetToSeq
<1>6. Range(q) = S
  <2>1. PICK D : D = 1..n
    OBVIOUS
  <2>2. IsFiniteSet(D) /\ Cardinality(D) = Cardinality(S)
    BY <1>1, <1>2, <2>1, FS_Interval
  <2>3. q \in Injection(D, S)
    BY <1>5, <2>1 DEF Injection
  <2>4. q \in Surjection(D, S)
    BY <2>2, <2>3, FS_Injection
  <2> QED BY <2>4 DEF Surjection, Range
<1> QED BY <1>2, <1>4, <1>5, <1>6, SeqDef

LEMMA RangeIsFinite ==
  ASSUME NEW S, NEW q \in Seq(S)
  PROVE  IsFiniteSet(Range(q))
<1>1. Len(q) \in Nat /\ DOMAIN q = 1..Len(q)
  BY LenProperties
<1>2. IsFiniteSet(DOMAIN q)
  BY <1>1, FS_Interval
<1>3. q \in [DOMAIN q -> Range(q)] /\ q \in Surjection(DOMAIN q, Range(q))
  <2>1. q \in [1..Len(q) -> S]
    BY LenProperties
  <2>2. q \in [DOMAIN q -> Range(q)]
    BY <1>1, <2>1 DEF Range
  <2> QED BY <2>2 DEF Range, Surjection
<1> QED BY <1>2, <1>3, FS_Surjection

(* Physics goes down: of a paste's bytes, those that are not on the device *)
(* stay queued.                                                            *)
LEMMA TeardownBytes ==
  ASSUME SlotInv, BytesInv, Teardown
  PROVE  BytesInv'
<1> DEFINE held == {bodies[i].slot : i \in Live} \cup {f.slot : f \in Range(flying)}
                     \cup {m.out : m \in Range(merging)}
           gone == {s \in held : CanRelease(volumes, s)}
           kept == {u \in Range(uploads) : u.atlas = 0 /\ volumes[u.slot].pinned}
<1>1. /\ BytesTypeOK /\ PastesKept /\ UploadsAreOf
      /\ IslandsTypeOK /\ HeldOnce /\ UsedIsHeld /\ HeldSlots \subseteq Slots
      /\ log.pastes \subseteq PasteRecs /\ uploads \in Seq(UploadRecs) /\ frees \in Seq(Slots)
  BY BytesFacts, SlotFacts
<1>2. /\ pc' = "down" /\ volumes' = [s \in Slots |-> IF s \in gone THEN Blank ELSE volumes[s]]
      /\ frees' = frees \o SetToSeq(gone) /\ uploads' = SetToSeq(kept)
      /\ flying' = <<>> /\ bodies' = <<>> /\ descs' = [of |-> {}, dirty |-> FALSE]
      /\ pool' = [pool EXCEPT !.shown = {}] /\ log' = log /\ host' = host
  BY DEF Teardown, fieldVars
<1>3. Live' = {} /\ DOMAIN flying' = {}
  BY <1>2 DEF Live
<1>4. gone \subseteq Slots /\ gone \cap PasteSlots = {} /\ PasteSlots \subseteq Slots
  <2>1. held = FlightSlots \cup BodySlots \cup MergeSlots
    BY DEF FlightSlots, BodySlots, MergeSlots, Range
  <2> QED BY <1>1, <2>1 DEF HeldOnce, HeldSlots
<1>5. frees' \in Seq(Slots) /\ \A t \in PasteSlots : t \in Range(frees') => t \in Range(frees)
  <2>1. IsFiniteSet(gone)
    <3>1. Volumes \in Nat
      BY IslandsAssumption DEF IslandsAssumption
    <3>2. IsFiniteSet(Slots)
      BY <3>1, FS_Interval DEF Slots
    <3> HIDE DEF gone
    <3> QED BY <1>4, <3>2, FS_Subset
  <2> HIDE DEF gone
  <2>2. PICK r : r = SetToSeq(gone)
    OBVIOUS
  <2>3. r \in Seq(gone) /\ Range(r) = gone
    BY <2>1, <2>2, SetToSeqFacts
  <2>4. r \in Seq(Slots)
    <3>1. Len(r) \in Nat /\ r \in [1..Len(r) -> gone]
      BY <2>3, LenProperties
    <3>2. r \in [1..Len(r) -> Slots]
      BY <1>4, <3>1
    <3> QED BY <3>1, <3>2, SeqDef
  <2>5. frees \o r \in Seq(Slots) /\ Range(frees \o r) \subseteq Range(frees) \cup Range(r)
    BY <1>1, <2>4, FreedMore
  <2> QED BY <1>2, <1>4, <2>2, <2>3, <2>5
<1>6. /\ uploads' \in Seq(UploadRecs)
      /\ \A j \in DOMAIN uploads' : uploads'[j] \in kept
      /\ \A u \in kept : \E j \in DOMAIN uploads' : uploads'[j] = u
  <2>1. IsFiniteSet(kept)
    <3>1. IsFiniteSet(Range(uploads))
      BY <1>1, RangeIsFinite
    <3>2. kept \subseteq Range(uploads)
      OBVIOUS
    <3> HIDE DEF kept
    <3> QED BY <3>1, <3>2, FS_Subset
  <2>2. kept \subseteq UploadRecs
    BY BytesFacts DEF Range
  <2> HIDE DEF kept
  <2>3. PICK r : r = SetToSeq(kept)
    OBVIOUS
  <2>4. r \in Seq(kept) /\ Range(r) = kept
    BY <2>1, <2>3, SetToSeqFacts
  <2>5. r \in Seq(UploadRecs)
    <3>1. Len(r) \in Nat /\ r \in [1..Len(r) -> kept]
      BY <2>4, LenProperties
    <3>2. r \in [1..Len(r) -> UploadRecs]
      BY <2>2, <3>1
    <3> QED BY <3>1, <3>2, SeqDef
  <2> QED BY <1>2, <2>3, <2>4, <2>5 DEF Range
<1>7. ASSUME NEW j \in DOMAIN uploads'
      PROVE  /\ uploads'[j].atlas = 0
             /\ \E x \in log.pastes : x.slot = uploads'[j].slot /\ x.data = uploads'[j].data
  <2>1. PICK k \in DOMAIN uploads : uploads'[j] = uploads[k] /\ uploads[k].atlas = 0
    BY <1>6 DEF Range
  <2> QED BY <1>1, <2>1 DEF UploadsAreOf
<1>8. /\ pool'.data = pool.data /\ pool'.normals = pool.normals /\ pool'.shown = {}
      /\ pool' \in [data : PoolBytes, normals : PoolBytes, shown : SUBSET DescRecs]
  <2>1. pool \in [data : PoolBytes, normals : PoolBytes, shown : SUBSET DescRecs]
    BY <1>1 DEF BytesTypeOK
  <2> QED BY <1>2, <2>1
<1>9. descs'.of = {} /\ ~descs'.dirty /\ descs' \in [of : SUBSET DescRecs, dirty : BOOLEAN]
  BY <1>2
<1>10. BytesTypeOK'
  BY <1>3, <1>5, <1>6, <1>8, <1>9 DEF BytesTypeOK
<1>11. PastesKept'
  <2> SUFFICES ASSUME NEW x \in log.pastes
               PROVE  /\ volumes'[x.slot].data = x.data /\ x.data.form = "rest"
                      /\ BytesOf(x.slot)' = x.data
                      /\ NormalsOf(x.slot)' = x.data \/ NormalsRefused(x.slot)'
    BY <1>2 DEF PastesKept
  <2>1. x.slot \in PasteSlots /\ x.slot \in Slots /\ volumes[x.slot].pinned
    BY <1>1, <1>4 DEF PasteSlots, UsedIsHeld
  <2>2. volumes'[x.slot] = volumes[x.slot]
    <3> HIDE DEF gone
    <3> QED BY <1>2, <1>4, <2>1
  <2>3. /\ volumes[x.slot].data = x.data /\ x.data.form = "rest"
        /\ BytesOf(x.slot) = x.data
        /\ NormalsOf(x.slot) = x.data \/ NormalsRefused(x.slot)
    BY <1>1 DEF PastesKept
  <2>4. x.data # None
    <3>1. x.data \in Data
      BY <1>1 DEF PasteRecs
    <3> QED BY <3>1, NoneAssumption DEF Data
  <2>5. PICK old : old = IF x.slot \in Range(frees) THEN None ELSE pool.normals[x.slot]
    OBVIOUS
  <2>6. PICK new : new = IF x.slot \in Range(frees') THEN None ELSE pool.normals[x.slot]
    OBVIOUS
  <2>7. ASSUME NEW was, NEW is, LastOf(uploads, x.slot, was) = x.data, was = x.data => is = x.data
        PROVE  LastOf(uploads', x.slot, is) = x.data
    <3>1. CASE \A j \in DOMAIN uploads' : uploads'[j].slot # x.slot
      <4>1. \A k \in DOMAIN uploads : uploads[k].slot # x.slot
        <5> SUFFICES ASSUME ~ \A k \in DOMAIN uploads : uploads[k].slot # x.slot PROVE FALSE
          OBVIOUS
        <5>1. PICK k \in DOMAIN uploads : uploads[k].slot = x.slot /\ uploads[k].data = x.data
          BY <1>1, <2>7, LastOfFacts
        <5>2. uploads[k].atlas = 0
          BY <1>1, <2>3, <5>1 DEF UploadsAreOf
        <5>3. uploads[k] \in kept
          BY <2>1, <5>1, <5>2 DEF Range
        <5> HIDE DEF kept
        <5> QED BY <1>6, <3>1, <5>1, <5>3
      <4>2. was = x.data
        BY <2>7, <4>1 DEF LastOf
      <4> QED BY <2>7, <3>1, <4>2 DEF LastOf
    <3>2. CASE ~ \A j \in DOMAIN uploads' : uploads'[j].slot # x.slot
      <4>1. PICK j \in DOMAIN uploads' : /\ uploads'[j].slot = x.slot
                                         /\ LastOf(uploads', x.slot, is) = uploads'[j].data
        BY <1>6, <3>2, LastOfFacts
      <4>2. PICK y \in log.pastes : y.slot = uploads'[j].slot /\ y.data = uploads'[j].data
        BY <1>7
      <4>3. y = x
        BY <1>1, <4>1, <4>2 DEF HeldOnce
      <4> QED BY <4>1, <4>2, <4>3
    <3> QED BY <3>1, <3>2
  <2>8. /\ BytesOf(x.slot)' = LastOf(uploads', x.slot, pool.data[x.slot])
        /\ NormalsOf(x.slot)' = LastOf(uploads', x.slot, new)
    BY <1>8, <2>6 DEF BytesOf, NormalsOf, Uploaded, LastOf
  <2>9. BytesOf(x.slot)' = x.data
    BY <2>3, <2>7, <2>8, UploadedIsLast
  <2>10. CASE NormalsOf(x.slot) = x.data
    <3>1. LastOf(uploads, x.slot, old) = x.data
      BY <2>5, <2>10, UploadedIsLast
    <3>2. old = x.data => new = x.data
      BY <1>5, <2>1, <2>4, <2>5, <2>6
    <3>3. NormalsOf(x.slot)' = x.data
      BY <2>7, <2>8, <3>1, <3>2
    <3> QED BY <2>2, <2>3, <2>9, <3>3
  <2>11. CASE NormalsRefused(x.slot)
    <3>1. \A j \in DOMAIN uploads' : \E k \in DOMAIN uploads : uploads'[j] = uploads[k]
      BY <1>6 DEF Range
    <3>2. NormalsRefused(x.slot)'
      BY <1>2, <1>8, <2>11, <3>1 DEF NormalsRefused, On
    <3> QED BY <2>2, <2>3, <2>9, <3>2
  <2> QED BY <2>3, <2>10, <2>11
<1>12. UploadsAreOf'
  BY <1>2, <1>7 DEF UploadsAreOf
<1>13. BodiesKept' /\ LandingSparesDescs'
  BY <1>2, <1>3 DEF BodiesKept, LandingSparesDescs
<1>14. DescsKept'
  BY <1>2, <1>8, <1>9 DEF DescsKept
<1> QED BY <1>10, <1>11, <1>12, <1>13, <1>14 DEF BytesInv

LEMMA BytesStep == SlotInv /\ BytesInv /\ [Next]_vars => BytesInv'
<1> SUFFICES ASSUME SlotInv, BytesInv, [Next]_vars PROVE BytesInv'
  OBVIOUS
<1>1. CASE \/ ToolEdit \/ Fill \/ \E p \in Pieces : Picture(p)
           \/ SearchLater \/ NoMerge \/ Initialize
           \/ \E bad \in SUBSET (1..PerFrame) : WorkerDone(bad)
           \/ UNCHANGED vars
  BY <1>1, QuietKeeps
<1>2. CASE BeginFrame
  BY <1>2, BeginBytes
<1>3. CASE LandNothing \/ LandRefused
  BY <1>3, LandedBytes
<1>4. CASE LandCarve
  BY <1>4, CarveBytes
<1>5. CASE LandUnpasted
  BY <1>5, UnpastedBytes
<1>6. CASE LandPaste
  BY <1>6, PasteBytes
<1>7. CASE SearchStep
  BY <1>7, SearchBytes
<1>8. CASE \E i \in DOMAIN bodies, accepted \in BOOLEAN :
              (~accepted => On("failures")) /\ StartMerge(i, accepted)
  <2>1. PICK i \in DOMAIN bodies, accepted \in BOOLEAN : StartMerge(i, accepted)
    BY <1>8
  <2> QED BY <2>1, MergeBytes
<1>9. CASE \E i \in DOMAIN bodies : Settle(i) \/ Wake(i)
  <2>1. PICK i \in DOMAIN bodies : Settle(i) \/ Wake(i)
    BY <1>9
  <2> QED BY <2>1, RestKeeps
<1>10. CASE \E bare \in SUBSET Slots : DrawFrame(bare)
  BY <1>10, DrawBytes
<1>11. CASE Teardown
  BY <1>11, TeardownBytes
<1> QED BY <1>1, <1>2, <1>3, <1>4, <1>5, <1>6, <1>7, <1>8, <1>9, <1>10, <1>11
        DEF Next, Frame, MergeStep

LEMMA BytesHold == Spec => [](SlotInv /\ BytesInv)
<1>1. Init => SlotInv /\ BytesInv
  BY SlotInit, BytesInit
<1>2. (SlotInv /\ BytesInv) /\ [Next]_vars => (SlotInv /\ BytesInv)'
  BY SlotStep, BytesStep
<1> QED BY <1>1, <1>2, PTL DEF Spec

(* What is named keeps its bytes: of a paste, on the device or on the way, *)
(* and of a descriptor on the device, unless its body's paste has just     *)
(* taken the slot.                                                         *)
LEMMA BytesAreKept == SlotInv /\ BytesInv => VolumesKeepTheirBytes
<1> SUFFICES ASSUME SlotInv, BytesInv PROVE VolumesKeepTheirBytes
  OBVIOUS
<1>1. /\ PastesKept /\ DescsKept
      /\ pool \in [data : PoolBytes, normals : PoolBytes, shown : SUBSET DescRecs]
      /\ PasteSlots \subseteq Slots
  BY BytesFacts, SlotFacts DEF BytesTypeOK, HeldSlots
<1>2. \A s \in Slots : Drained({}).data[s] = BytesOf(s) /\ Drained({}).normals[s] = NormalsOf(s)
  BY <1>1 DEF Drained, BytesOf, NormalsOf
<1>3. \A x \in log.pastes : /\ volumes[x.slot].data = x.data
                            /\ Drained({}).data[x.slot] = x.data
                            /\ \/ Drained({}).normals[x.slot] = x.data
                               \/ On("no normals") /\ Drained({}).normals[x.slot] = None
  <2>1. ASSUME NEW x \in log.pastes, NormalsRefused(x.slot)
        PROVE  On("no normals") /\ NormalsOf(x.slot) = None
    BY <2>1 DEF NormalsRefused, NormalsOf, Uploaded
  <2> QED BY <1>1, <1>2, <2>1 DEF PastesKept, PasteSlots
<1>4. \A d \in pool.shown :
        \/ pool.data[d.slot] = d.data
        \/ \E x \in log.pastes : x.slot = d.slot /\ x.data.piece = d.data.piece
  BY <1>1 DEF DescsKept, PastedOver
<1> QED BY <1>3, <1>4 DEF VolumesKeepTheirBytes

(* A volume keeps its bytes for as long as a paste names it, its normals   *)
(* are its own or, where the pool had no room for them, none, and a        *)
(* descriptor the device shows has its body's bytes, though slots go from  *)
(* body to body, normals of freed slots are dropped a frame later than the *)
(* slot, and physics may go down and come back (release_volume_slot,       *)
(* drain_island_uploads, teardown_physics).                                *)
THEOREM PastedBytesStay == Spec => []VolumesKeepTheirBytes
BY BytesHold, BytesAreKept, PTL
=============================================================================

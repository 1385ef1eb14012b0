------------------------- MODULE NormalRangeAllocator -------------------------
(***************************************************************************)
(* Where the packed normals of volumes and bricks lie in their buffer: a   *)
(* first-fit allocator of ranges (world/normal_range_allocator.cpp).       *)
(*                                                                         *)
(* A handle names its range and a generation, and is copied freely: one    *)
(* given back long ago may be given back again.  The list of free blocks,  *)
(* sorted by offset, is the set of its blocks.  The operators take a heap  *)
(* and return a heap, as the pool above it (render/stored_normal_pool.cpp) *)
(* calls two of them in one go; the specification is of the allocator      *)
(* alone.                                                                  *)
(***************************************************************************)
EXTENDS Integers, FiniteSets, FiniteSetsExt

CONSTANTS
  Bytes,           \* the budget the allocator is built with
  Unit,            \* kUnit, 4 in the code
  Sizes,           \* the sizes asked for
  Alignments,      \* the alignments asked for
  MaxGeneration    \* bound of the model: times an offset is handed out

ASSUME AllocatorAssumption ==
  /\ Bytes \in Nat
  /\ Unit \in Nat \ {0}
  /\ Sizes \subseteq Nat
  /\ Alignments \subseteq Nat
  /\ MaxGeneration \in Nat

VARIABLES
  heap,     \* [free, live, generations, used, highWater]: the allocator's members
  handed,   \* every handle ever given out
  held      \* the handles given out and not given back since

rangeVars == <<heap, handed, held>>

-----------------------------------------------------------------------------

(* round_up() and align_up(), the alignment being positive.                *)
RoundUp(v, u) == ((v + u - 1) \div u) * u

(* A tail of less than a unit is given up.                                 *)
Capacity == Bytes - (Bytes % Unit)

End(b) == b.offset + b.size
Offsets == 0..(Capacity - 1)

NewHeap ==
  [free |-> IF Capacity > 0 THEN {[offset |-> 0, size |-> Capacity]} ELSE {},
   live |-> {},
   generations |-> [x \in Offsets |-> 0],
   used |-> 0,
   highWater |-> 0]

(* A range of a block, from its first multiple of the alignment on.        *)
Start(b, alignment) == RoundUp(b.offset, alignment)

Fits(b, size, alignment) == Start(b, alignment) + size <= End(b)

FittingBlocks(h, size, alignment) == {b \in h.free : Fits(b, size, alignment)}

(* Seeded fault: what the alignment skips at the front is lost.            *)
FragmentsBehind(b, start, size) ==
  {f \in {[offset |-> start + size, size |-> End(b) - (start + size)]} : f.size > 0}

(* What is left of a block before and behind the range taken from it.      *)
Fragments(b, start, size) ==
  {f \in {[offset |-> b.offset, size |-> start - b.offset],
          [offset |-> start + size, size |-> End(b) - (start + size)]} : f.size > 0}

Larger(m, n) == IF m < n THEN n ELSE m

(* The rounded size is taken out of block b.                               *)
TakeRange(h, b, size, alignment) ==
  LET start == Start(b, alignment)
      generation == h.generations[start] + 1
  IN  [free |-> (h.free \ {b}) \cup Fragments(b, start, size),
       live |-> {l \in h.live : l.offset # start}
                  \cup {[offset |-> start, size |-> size, generation |-> generation]},
       generations |-> [h.generations EXCEPT ![start] = generation],
       used |-> h.used + size,
       highWater |-> Larger(h.highWater, h.used + size)]

(* The handle TakeRange returns.                                           *)
Taken(h, b, size, alignment) ==
  [offset |-> Start(b, alignment), size |-> size,
   generation |-> h.generations[Start(b, alignment)] + 1]

Size(bytes) == RoundUp(bytes, Unit)
Alignment(alignment) == RoundUp(Larger(alignment, Unit), Unit)

(* allocate() finds a block; otherwise it returns an invalid handle and    *)
(* changes nothing.                                                        *)
CanAllocate(h, bytes, alignment) ==
  /\ Size(bytes) \in 1..Capacity
  /\ FittingBlocks(h, Size(bytes), Alignment(alignment)) # {}

(* First fit: of the blocks that fit, the one with the lowest offset.      *)
FirstFit(h, bytes, alignment) ==
  {b \in FittingBlocks(h, Size(bytes), Alignment(alignment)) :
     \A c \in FittingBlocks(h, Size(bytes), Alignment(alignment)) : b.offset <= c.offset}

(* release() accepts exactly the live handle of an offset.                 *)
CanRelease(h, a) == a \in h.live

(* The free block that ends where the range starts, and the one that       *)
(* starts where it ends.                                                   *)
Before(h, a) == {b \in h.free : End(b) = a.offset}
Behind(h, a) == {b \in h.free : b.offset = End(a)}

MergedStart(h, a) ==
  IF Before(h, a) = {} THEN a.offset ELSE (CHOOSE b \in Before(h, a) : TRUE).offset

MergedEnd(h, a) ==
  IF Behind(h, a) = {} THEN End(a) ELSE End(CHOOSE b \in Behind(h, a) : TRUE)

(* Seeded fault: the block behind is not absorbed.                         *)
CoalescedBefore(h, a) ==
  (h.free \ Before(h, a))
    \cup {[offset |-> MergedStart(h, a), size |-> End(a) - MergedStart(h, a)]}

(* The range and the free blocks it touches become one block.              *)
Coalesced(h, a) ==
  (h.free \ (Before(h, a) \cup Behind(h, a)))
    \cup {[offset |-> MergedStart(h, a), size |-> MergedEnd(h, a) - MergedStart(h, a)]}

(* Seeded fault: the generation goes with the range.                       *)
ReleaseInForgotten(h, a) ==
  [h EXCEPT !.live = {l \in @ : l.offset # a.offset},
            !.free = Coalesced(h, a),
            !.used = @ - a.size,
            !.generations[a.offset] = 0]

ReleaseIn(h, a) ==
  [h EXCEPT !.live = {l \in @ : l.offset # a.offset},
            !.free = Coalesced(h, a),
            !.used = @ - a.size]

-----------------------------------------------------------------------------

Init ==
  /\ heap = NewHeap
  /\ handed = {}
  /\ held = {}

Allocate(bytes, alignment) ==
  /\ CanAllocate(heap, bytes, alignment)
  /\ \E b \in FirstFit(heap, bytes, alignment) :
        LET handle == Taken(heap, b, Size(bytes), Alignment(alignment))
        IN  /\ handle.generation <= MaxGeneration
            /\ heap' = TakeRange(heap, b, Size(bytes), Alignment(alignment))
            /\ handed' = handed \cup {handle}
            /\ held' = held \cup {handle}

(* Any handle ever given out may be given back, any number of times; what  *)
(* is refused changes nothing.                                             *)
Release(a) ==
  /\ CanRelease(heap, a)
  /\ heap' = ReleaseIn(heap, a)
  /\ held' = held \ {a}
  /\ UNCHANGED handed

Next ==
  \/ \E bytes \in Sizes, alignment \in Alignments : Allocate(bytes, alignment)
  \/ \E a \in handed : Release(a)

Spec == Init /\ [][Next]_rangeVars

-----------------------------------------------------------------------------
(* Properties                                                              *)

Blocks == [offset : Offsets, size : 1..Capacity]
Handles == [offset : Offsets, size : 1..Capacity, generation : 1..MaxGeneration]

TypeOK ==
  /\ heap \in [free : SUBSET Blocks, live : SUBSET Handles,
               generations : [Offsets -> 0..MaxGeneration],
               used : Int, highWater : Int]
  /\ handed \subseteq Handles
  /\ held \subseteq handed

Apart(a, b) == End(a) <= b.offset \/ End(b) <= a.offset

(* Every byte of the buffer belongs to one range in use or to one free     *)
(* block, whatever was split and merged before: no two uploads share a     *)
(* byte, and no byte is ever lost.                                         *)
EveryByteOnce ==
  /\ \A a, b \in heap.live : a # b => Apart(a, b)
  /\ \A a \in heap.live, b \in heap.free : Apart(a, b)
  /\ \A a, b \in heap.free : a # b => Apart(a, b)
  /\ \A x \in Offsets : \E b \in heap.live \cup heap.free : b.offset <= x /\ x < End(b)
  /\ \A b \in heap.live \cup heap.free : End(b) <= Capacity

(* Free blocks never touch ("sorted by offset, never overlapping or        *)
(* touching"), so that room that is there can be found as one block.       *)
FreeBlocksDoNotTouch == \A a, b \in heap.free : End(a) # b.offset

(* Who holds a handle holds its range until he gives it back himself: a    *)
(* late release of an old handle takes nothing from the owner of a new one.*)
HeldIsLive == heap.live = held

(* An allocation is refused only when no aligned run of free bytes is long *)
(* enough.                                                                 *)
RefusedOnlyWhenFull ==
  \A bytes \in Sizes, alignment \in Alignments, start \in Offsets :
     LET size == Size(bytes)
     IN  /\ start % Alignment(alignment) = 0
         /\ size > 0 /\ start + size <= Capacity
         /\ \A a \in heap.live : Apart(a, [offset |-> start, size |-> size])
         => CanAllocate(heap, bytes, alignment)

(* A handle is never given out twice: one that comes to life is younger    *)
(* than every handle ever given out at its offset, that of an equal range  *)
(* included, so a release that comes late can be told apart.               *)
HandlesAreFresh ==
  [][\A a \in heap'.live \ heap.live, b \in handed :
        a.offset = b.offset => b.generation < a.generation]_rangeVars
=============================================================================

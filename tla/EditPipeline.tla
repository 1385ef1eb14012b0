---------------------------- MODULE EditPipeline ----------------------------
(***************************************************************************)
(* The write side of the world: the per-region edit log (world/edit_log)   *)
(* and the batch entry point that is the only code to append to it         *)
(* (core/edit_pipeline).                                                   *)
(*                                                                         *)
(* The world is cut into regions and a region into bricks.  An edit        *)
(* operation reaches a set of regions and, in each, a set of bricks.  It   *)
(* is appended to the list of every region it reaches that still has room, *)
(* under one global sequence number.  A list is modelled by the set of the *)
(* sequence numbers in it: append() hands out a number larger than all     *)
(* before, so the order of a list is the order of its numbers.             *)
(*                                                                         *)
(* The edit mutex is held from the first to the last operation of a batch. *)
(* Here a batch is taken one operation at a time, and every action that    *)
(* needs the mutex waits for LockFree.                                     *)
(***************************************************************************)
EXTENDS Naturals, Sequences, FiniteSets

CONSTANTS
  Regions,        \* the regions, numbered in the order append() visits them
  Bricks,         \* the brick positions inside a region
  Ops,            \* the well-formed edits: [regions reached -> bricks reached]
  Junk,           \* stands for a malformed or oversized edit
  Policies,       \* the values of EditPolicy.atomic in use
  MaxRegionOps,   \* kMaxRegionOps, 256 in the code
  MaxBatch,       \* bound of the model: operations in one batch
  MaxSeq          \* bound of the model: sequence numbers handed out

ASSUME EditAssumption ==
  /\ Regions \subseteq Nat
  /\ IsFiniteSet(Regions)
  /\ Ops \subseteq UNION {[S -> SUBSET Bricks] : S \in SUBSET Regions}
  /\ Junk \notin Ops
  /\ Policies \subseteq BOOLEAN
  /\ MaxRegionOps \in Nat
  /\ MaxBatch \in Nat
  /\ MaxSeq \in Nat

VARIABLES
  log,       \* EditLog::seqs_: the sequence numbers in each region's list
  history,   \* the appended edits, at index = sequence number, and how they came
  accepted,  \* every sequence number each region's list ever took
  editSeq,   \* WorldStore::edit_seq
  batch,     \* the operations of the batch in progress still to be appended
  atomic     \* the EditPolicy of the batch in progress

editVars == <<log, history, accepted, editSeq, batch, atomic>>

-----------------------------------------------------------------------------

LastSeq == Len(history)              \* EditLog::last_seq
NextSeq == Len(history) + 1          \* EditLog::next_seq_
OpCount(r) == Cardinality(log[r])    \* EditLog::op_count
LockFree == batch = <<>>

(* The edit numbered s reaches brick k of region r.                        *)
Reaches(s, r, k) == /\ r \in DOMAIN history[s].op
                    /\ k \in history[s].op[r]

-----------------------------------------------------------------------------

(* The operations of a batch whose footprint holds region r.               *)
Adds(ops, r) == {i \in DOMAIN ops : ops[i] # Junk /\ r \in DOMAIN ops[i]}

(* Seeded fault: each operation of the batch is measured alone.            *)
PreflightOneByOne(ops) ==
  /\ \A i \in DOMAIN ops : ops[i] # Junk
  /\ \A r \in Regions : Adds(ops, r) # {} => OpCount(r) < MaxRegionOps

(* EditPipeline::preflight: no operation is malformed, and no region would *)
(* pass the cap with everything the batch adds to it.                      *)
Preflight(ops) ==
  /\ \A i \in DOMAIN ops : ops[i] # Junk
  /\ \A r \in Regions :
        Adds(ops, r) # {} => OpCount(r) + Cardinality(Adds(ops, r)) <= MaxRegionOps

(* The regions of an operation that still have room, and so take it.       *)
Touched(op) == {r \in DOMAIN op : OpCount(r) < MaxRegionOps}

(* The lists of the regions T with the new number at their end.            *)
Take(lists, T) ==
  [r \in Regions |-> IF r \in T THEN lists[r] \cup {NextSeq} ELSE lists[r]]

-----------------------------------------------------------------------------

EditInit ==
  /\ log = [r \in Regions |-> {}]
  /\ history = <<>>
  /\ accepted = [r \in Regions |-> {}]
  /\ editSeq = 0
  /\ batch = <<>>
  /\ atomic = FALSE

(* apply() takes the batch: an atomic one is refused, with nothing         *)
(* appended, unless all of it fits.  A refusal changes no state and is the *)
(* absence of a step.                                                      *)
BeginBatch(ops, pol) ==
  /\ LockFree
  /\ LastSeq + Len(ops) <= MaxSeq
  /\ pol => Preflight(ops)
  /\ batch' = ops
  /\ atomic' = pol
  /\ UNCHANGED <<log, history, accepted, editSeq>>

(* EditLog::append refuses a malformed or oversized operation before it    *)
(* takes a sequence number.                                                *)
SkipJunk ==
  /\ ~LockFree
  /\ Head(batch) = Junk
  /\ batch' = Tail(batch)
  /\ UNCHANGED <<log, history, accepted, editSeq, atomic>>

(* EditLog::append, then the bump of the edit sequence if some list grew.  *)
(* A number is used up even when every region refuses.                     *)
AppendHead ==
  /\ ~LockFree
  /\ Head(batch) # Junk
  /\ LET op == Head(batch)
         T  == Touched(op)
     IN  /\ log' = Take(log, T)
         /\ accepted' = Take(accepted, T)
         /\ history' = Append(history, [op |-> op, atomic |-> atomic])
         /\ editSeq' = IF T = {} THEN editSeq ELSE editSeq + 1
  /\ batch' = Tail(batch)
  /\ UNCHANGED atomic

(* EditLog::clear_region_through: the prefix of r's list up to s is gone,  *)
(* because a consolidation has baked it into the region's base.            *)
ClearThrough(r, s) ==
  /\ LockFree
  /\ log' = [log EXCEPT ![r] = {t \in @ : t > s}]
  /\ UNCHANGED <<history, accepted, editSeq, batch, atomic>>

Batches == UNION {[1..n -> Ops \cup {Junk}] : n \in 1..MaxBatch}

EditNext ==
  \/ \E ops \in Batches, pol \in Policies : BeginBatch(ops, pol)
  \/ SkipJunk
  \/ AppendHead
  \/ \E r \in Regions, s \in 0..LastSeq : ClearThrough(r, s)

EditSpec == EditInit /\ [][EditNext]_editVars

-----------------------------------------------------------------------------

HistoryEntry == [op : Ops, atomic : BOOLEAN]

EditTypeOK ==
  /\ log \in [Regions -> SUBSET (1..LastSeq)]
  /\ history \in Seq(HistoryEntry)
  /\ accepted \in [Regions -> SUBSET (1..LastSeq)]
  /\ editSeq \in 0..LastSeq
  /\ batch \in Seq(Ops \cup {Junk})
  /\ atomic \in BOOLEAN

(* "A batch that is accepted is accepted whole": every edit that came in   *)
(* an atomic batch was taken by every region it reaches, whatever the      *)
(* lists held and however the footprints of the batch overlap.             *)
AtomicWhole ==
  \A s \in 1..LastSeq :
     history[s].atomic => \A r \in DOMAIN history[s].op : s \in accepted[r]

(* No list passes the cap the GPU op buffers are sized for.                *)
CapHolds == \A r \in Regions : OpCount(r) <= MaxRegionOps

(* What a bake took off a list is older than all that stayed on it: baking *)
(* it into the base first and replaying the list after gives the edits in  *)
(* the order the player made them.                                         *)
BakedBeforeLogged ==
  \A r \in Regions : \A s \in accepted[r] \ log[r], t \in log[r] : s < t

=============================================================================

--------------------------- MODULE Consolidation ---------------------------
(***************************************************************************)
(* Consolidation: how a region's long list of edits becomes baked bytes.   *)
(*                                                                         *)
(* The bytes of a baked brick live in a slot of the override store, and a  *)
(* region with baked bricks owns an override table.  Three readers hold    *)
(* them: the CPU store, the render atlas and the pool of the mesh worker.  *)
(* Baking moves all three from "old bytes and the whole list" to "new      *)
(* bytes and the rest of the list" while players go on editing, regions    *)
(* stream in and out and uploads fail (mesh/consolidation.cpp, the worker  *)
(* side in render/mesh_service.cpp).                                       *)
(*                                                                         *)
(* Every action of the coordinator and of the streamer is one step of the  *)
(* main thread that holds the edit mutex, as in pump_async(); an action of *)
(* the worker is one iteration of its loop.  A pump that only moves the    *)
(* head of the queue back to the head changes nothing and is no step.      *)
(***************************************************************************)
EXTENDS EditPipeline, Functions

CONSTANTS
  Slots,             \* the slots of the override store
  Tables,            \* the override tables, numbered
  RSlots,            \* the slots of the region residency
  ConsolidateAtOps,  \* kConsolidateAtOps, 192 in the code
  QueueCap,          \* kMaxOverrideTables as the bound of the queue
  FirstResidency,    \* the residency slot of each region when the model starts
  Events,            \* what may go wrong or move in this instance
  MaxUpdates,        \* bound of the model: override updates waiting at the worker
  None

AllEvents == {"bake fails", "upload fails", "publish fails", "restore fails",
              "rebuild fails", "stream", "load behind failure",
              "reload", "reload under publication", "teardown"}

(* Tables are tried in order, so every set of them has a first.            *)
ASSUME ConsolidationAssumption ==
  /\ \A S \in SUBSET Tables : S # {} => \E t \in S : \A u \in S : t <= u
  /\ None \notin Slots /\ None \notin Tables /\ None \notin RSlots /\ None \notin Regions
  /\ ConsolidateAtOps \in Nat \ {0}
  /\ ConsolidateAtOps <= MaxRegionOps
  /\ MaxRegionOps < 2 * ConsolidateAtOps   \* 256 < 2 * 192
  /\ QueueCap \in Nat \ {0}
  /\ FirstResidency \in [Regions -> RSlots \cup {None}]
  /\ Events \subseteq AllEvents
  /\ MaxUpdates \in Nat

VARIABLES
  slotOf,       \* OverrideStore::index_: the slot of each brick, or None
  cpu,          \* OverrideStore::bricks_: the bytes in each slot
  tableOf,      \* WorldStore::override_tables_, which also tags the atlas tables
  render,       \* the atlas pool: [bytes, rows]
  worker,       \* the worker's pool and its override_tables_: [bytes, rows, tableOf]
  workerState,  \* "ok", "invalid" (worker_state_valid_ is false) or "down"
  updates,      \* pending_override_updates_ of the mesh service
  residency,    \* RegionResidency: the slot of each resident region
  queue,        \* consolidation_queue_
  tx            \* the transaction in flight: consolidation_job_ and its companions

store   == <<slotOf, cpu, tableOf>>
mesh    == <<worker, workerState, updates>>
consVars == <<slotOf, cpu, tableOf, render, worker, workerState, updates,
              residency, queue, tx>>
vars == <<editVars, consVars>>

-----------------------------------------------------------------------------
(* Bytes, rows and tables                                                  *)

(* What a slot holds: the brick it was baked for and the edits baked in.   *)
Brick(r, k)  == [region |-> r, brick |-> k]
Content == [of : [region : Regions, brick : Bricks] \cup {None}, ops : SUBSET (1..MaxSeq)]
Blank == [of |-> None, ops |-> {}]
Terrain(r, k) == [of |-> Brick(r, k), ops |-> {}]   \* the generator's own value

NoRow == [k \in Bricks |-> None]     \* a table with no entry
Row == [Bricks -> Slots \cup {None}]

Used == {slotOf[r][k] : r \in Regions, k \in Bricks} \ {None}
FreeSlots == Slots \ Used
FreeTables == Tables \ {tableOf[r] : r \in Regions}
Baked(r) == {k \in Bricks : slotOf[r][k] # None}

(* OverridePool::upload for each brick of data, at its slot in row.        *)
Upload(m, row, data) ==
  [m EXCEPT !.bytes = [s \in Slots |->
     IF \E k \in DOMAIN data : row[k] = s
     THEN data[CHOOSE k \in DOMAIN data : row[k] = s] ELSE @[s]]]

(* set_override_table: entries are added to the table's row; with no table *)
(* there is nothing to add to.                                             *)
SetRow(m, t, row) ==
  IF t = None THEN m
  ELSE [m EXCEPT !.rows[t] = [k \in Bricks |-> IF row[k] # None THEN row[k] ELSE @[k]]]

ClearRow(m, t) == [m EXCEPT !.rows[t] = NoRow]

(* The base a reader finds under brick k of region r, when the region's    *)
(* table is t in that reader's eyes.                                       *)
Base(m, t, r, k) ==
  IF t = None \/ m.rows[t][k] = None THEN Terrain(r, k) ELSE m.bytes[m.rows[t][k]]

(* replay_overrides: bytes and rows rebuilt from the CPU store, where so   *)
(* is the slot of each brick; slots of regions without a table are left.   *)
Replay(m, so) ==
  LET tabled == {b \in Regions \X Bricks : tableOf[b[1]] # None}
  IN  [m EXCEPT
        !.bytes = [s \in Slots |->
           IF \E b \in tabled : so[b[1]][b[2]] = s THEN cpu[s] ELSE @[s]],
        !.rows = [t \in Tables |->
           IF \E r \in Regions : tableOf[r] = t
           THEN so[CHOOSE r \in Regions : tableOf[r] = t] ELSE NoRow]]

-----------------------------------------------------------------------------
(* The transaction                                                         *)

NoTx == [phase |-> "idle", region |-> None, rslot |-> None, ops |-> {}, bricks |-> {},
         table |-> None, oldTable |-> None, old |-> <<>>, baked |-> <<>>, ok |-> FALSE]

Idle == tx.phase = "idle"

(* consolidation_newly_acquired_: slots the store hands out before the     *)
(* commit.                                                                 *)
Fresh == IF tx.phase \in {"publishing", "published"} THEN tx.bricks \ DOMAIN tx.old ELSE {}

Speculative(r, k) == r = tx.region /\ k \in Fresh

(* The rows without the transaction's own slots.                           *)
OldRow == [k \in Bricks |-> IF k \in DOMAIN tx.old THEN slotOf[tx.region][k] ELSE None]

(* The region's table, or the first no region has.                         *)
TableFor(r) ==
  IF tableOf[r] # None THEN tableOf[r]
  ELSE CHOOSE t \in FreeTables : \A u \in FreeTables : t <= u

(* Seeded fault: a brick that was baked before is not baked again.         *)
BricksToBakeOnce(r) == {k \in Bricks : \E s \in log[r] : Reaches(s, r, k)} \ Baked(r)

(* The bricks plan_consolidation finds: those an edit of the list reaches. *)
BricksToBake(r) == {k \in Bricks : \E s \in log[r] : Reaches(s, r, k)}

-----------------------------------------------------------------------------
(* The queue                                                               *)

Queued == {queue[i] : i \in DOMAIN queue}

Orders == UNION {[1..n -> Regions] : n \in 0..Cardinality(Regions)}
Ascending(q) == \A i, j \in DOMAIN q : i < j => q[i] < q[j]

Waiting == Len(queue) + (IF Idle THEN 0 ELSE 1)

(* Seeded fault: the region in flight is queued too.                       *)
ReadyInFlight(lists, T) ==
  {r \in T \ Queued : Cardinality(lists[r]) >= ConsolidateAtOps}

(* The regions of T that reached the threshold, and neither wait nor are   *)
(* in flight.                                                              *)
Ready(lists, T) ==
  {r \in T \ (Queued \cup {tx.region}) : Cardinality(lists[r]) >= ConsolidateAtOps}

(* queue_consolidation for each region of T, in the order the edit touched *)
(* them, while there is room: the regions new join the queue.              *)
Enqueue(new, lists, T) ==
  LET ready == Ready(lists, T)
  IN  /\ Ascending(new)
      /\ {new[i] : i \in DOMAIN new} =
           {r \in ready : Waiting + Cardinality({x \in ready : x < r}) < QueueCap}
      /\ queue' = queue \o new

(* requeue_consolidation_locked: back to the front.                        *)
Requeue == <<tx.region>> \o queue

-----------------------------------------------------------------------------
(* Edits                                                                   *)

ConsInit ==
  /\ EditInit
  /\ slotOf = [r \in Regions |-> NoRow]
  /\ cpu = [s \in Slots |-> Blank]
  /\ tableOf = [r \in Regions |-> None]
  /\ render = [bytes |-> [s \in Slots |-> Blank], rows |-> [t \in Tables |-> NoRow]]
  /\ worker = [bytes |-> [s \in Slots |-> Blank], rows |-> [t \in Tables |-> NoRow],
               tableOf |-> [r \in Regions |-> None]]
  /\ workerState = "ok"
  /\ updates = <<>>
  /\ residency = FirstResidency
  /\ queue = <<>>
  /\ tx = NoTx

StartBatch(ops, pol) == BeginBatch(ops, pol) /\ UNCHANGED consVars

SkipEdit == SkipJunk /\ UNCHANGED consVars

(* An edit is appended and the coordinator hears of it: each region whose  *)
(* list is long enough is queued (ConsolidationCoordinator::record).       *)
TakeEdit ==
  /\ AppendHead
  /\ \E new \in Orders : Enqueue(new, log', Touched(Head(batch)))
  /\ UNCHANGED <<store, render, mesh, residency, tx>>

-----------------------------------------------------------------------------
(* The coordinator's pump                                                  *)

(* Seeded fault: an invalid worker keeps the pump from running.            *)
PumpValidOnly == LockFree /\ workerState = "ok"

(* pump_async gets past its first guards.                                  *)
Pump == LockFree /\ workerState # "down"

(* The head of the queue is taken when its region is resident, its bricks  *)
(* fit the free slots, it has or finds a table and the worker takes the    *)
(* job; otherwise it goes back to the front.  (A queued region always has  *)
(* edits, so the early return on an empty snapshot, which                  *)
(* would drop it from the queue, is not reached.)                          *)
StartBake ==
  /\ Pump /\ Idle /\ queue # <<>> /\ workerState = "ok"
  /\ LET r == Head(queue)
         bricks == BricksToBake(r)
     IN  /\ residency[r] # None
         /\ bricks # {}
         /\ Cardinality(bricks \ Baked(r)) <= Cardinality(FreeSlots)
         /\ tableOf[r] # None \/ FreeTables # {}
         /\ tx' = [phase |-> "baking", region |-> r, rslot |-> residency[r],
                   ops |-> log[r], bricks |-> bricks,
                   table |-> TableFor(r), oldTable |-> tableOf[r],
                   old |-> [k \in Baked(r) |-> cpu[slotOf[r][k]]],
                   baked |-> <<>>, ok |-> FALSE]
  /\ queue' = Tail(queue)
  /\ UNCHANGED <<editVars, store, render, mesh, residency>>

(* A failed bake: nothing was touched yet, the region waits again.         *)
PumpBakeFailed ==
  /\ Pump /\ tx.phase = "baked" /\ ~tx.ok
  /\ queue' = Requeue
  /\ tx' = NoTx
  /\ UNCHANGED <<editVars, store, render, mesh, residency>>

(* OverrideStore::acquire for each brick of the result.                    *)
Acquire(pick) ==
  [slotOf EXCEPT ![tx.region] =
     [k \in Bricks |-> IF k \in DOMAIN pick THEN pick[k] ELSE @[k]]]

ToAcquire == tx.bricks \ DOMAIN tx.old

(* rollback_render: the old bytes over the slots they were taken from, the *)
(* transaction's row cleared, the old row set.  (An upload fails only where *)
(* there is no valid pool, for a rollback as for what it takes back; there *)
(* is no atlas to show then, so a failed rollback has no action.)          *)
RollbackRender(m) ==
  SetRow(ClearRow(Upload(m, OldRow, tx.old), tx.table), tx.oldTable, OldRow)

(* Seeded fault: the slots taken for the transaction are not given back.   *)
RefuseKeepingSlots ==
  /\ render' = RollbackRender(render)
  /\ queue' = Requeue
  /\ tx' = NoTx
  /\ UNCHANGED <<slotOf, cpu, tableOf>>

(* refuse_transaction with retry: the render side is rolled back, slots    *)
(* acquired for the transaction are released, the region waits again.      *)
Refuse ==
  /\ render' = RollbackRender(render)
  /\ slotOf' = [slotOf EXCEPT ![tx.region] = OldRow]
  /\ queue' = Requeue
  /\ tx' = NoTx
  /\ UNCHANGED <<cpu, tableOf>>

Moved == residency[tx.region] # tx.rslot

(* The bake is back but the region left its residency slot: the slots just *)
(* acquired are released in the same step.                                 *)
PumpBakeMoved ==
  /\ Pump /\ tx.phase = "baked" /\ tx.ok /\ Moved
  /\ Refuse
  /\ UNCHANGED <<editVars, mesh, residency>>

(* The bake is back: slots are acquired, the bytes go to the atlas, the    *)
(* publication to the worker.  The CPU bytes wait for the commit.          *)
PumpBakeResult(pick) ==
  /\ Pump /\ tx.phase = "baked" /\ tx.ok /\ ~Moved
  /\ slotOf' = Acquire(pick)
  /\ render' = Upload(render, Acquire(pick)[tx.region], tx.baked)
  /\ tx' = [tx EXCEPT !.phase = "publishing"]
  /\ UNCHANGED <<editVars, cpu, tableOf, mesh, residency, queue>>

(* Only the bricks done reached the atlas: everything is put back.  The    *)
(* slots are acquired and released in the same step.                       *)
PumpUploadFailed(pick, done) ==
  /\ Pump /\ tx.phase = "baked" /\ tx.ok /\ ~Moved
  /\ "upload fails" \in Events
  /\ render' = RollbackRender(Upload(render, Acquire(pick)[tx.region],
                                     [k \in done |-> tx.baked[k]]))
  /\ queue' = Requeue
  /\ tx' = NoTx
  /\ UNCHANGED <<editVars, store, mesh, residency>>

(* The worker restored the old bytes after a failed publication.           *)
PumpPublishFailed ==
  /\ Pump /\ tx.phase = "published" /\ ~tx.ok /\ workerState = "ok"
  /\ Refuse
  /\ UNCHANGED <<editVars, mesh, residency>>

(* The worker could not restore them: its pool is rebuilt from the CPU     *)
(* store, its queued jobs are cancelled.                                   *)
PumpRebuild ==
  /\ Pump /\ tx.phase = "published" /\ ~tx.ok /\ workerState = "invalid"
  /\ Refuse
  /\ worker' = [Replay(worker, slotOf') EXCEPT !.tableOf = tableOf]
  /\ workerState' = "ok"
  /\ updates' = <<>>
  /\ UNCHANGED <<editVars, residency>>

(* The rebuild failed too: the worker stays invalid and the region is not  *)
(* queued again.                                                           *)
PumpRebuildFailed ==
  /\ Pump /\ tx.phase = "published" /\ ~tx.ok /\ workerState = "invalid"
  /\ "rebuild fails" \in Events
  /\ render' = RollbackRender(render)
  /\ slotOf' = [slotOf EXCEPT ![tx.region] = OldRow]
  /\ tx' = NoTx
  /\ updates' = <<>>
  /\ UNCHANGED <<editVars, cpu, tableOf, worker, workerState, residency, queue>>

(* Published, but the region left its residency slot meanwhile.            *)
PumpPublishMoved ==
  /\ Pump /\ tx.phase = "published" /\ tx.ok /\ Moved
  /\ Refuse
  /\ UNCHANGED <<editVars, mesh, residency>>

(* Seeded fault: the list is cleared up to its end, not up to the last     *)
(* edit the bake saw.                                                      *)
ThroughSeqLate == LastSeq

(* through_seq of the snapshot.                                            *)
ThroughSeq == CHOOSE s \in tx.ops : \A t \in tx.ops : t <= s

(* Seeded fault: the atlas keeps the rows it had.                          *)
PublishRenderForgotten == render

(* The atlas row now names every slot of the transaction.                  *)
PublishRender == SetRow(render, tx.table, slotOf[tx.region])

(* The baked bytes in the slots of the transaction.                        *)
CommittedBytes ==
  [s \in Slots |->
     IF \E k \in tx.bricks : slotOf[tx.region][k] = s
     THEN tx.baked[CHOOSE k \in tx.bricks : slotOf[tx.region][k] = s] ELSE cpu[s]]

(* Both consumers hold the new bytes: the atlas row, the CPU bytes, the    *)
(* table and the shortened list become the truth in one step.  (The        *)
(* coordinator also offers the region to its own queue, which refuses a    *)
(* region in flight.)                                                      *)
PumpCommit ==
  /\ Pump /\ tx.phase = "published" /\ tx.ok /\ ~Moved
  /\ ClearThrough(tx.region, ThroughSeq)
  /\ render' = PublishRender
  /\ cpu' = CommittedBytes
  /\ tableOf' = [tableOf EXCEPT ![tx.region] = tx.table]
  /\ tx' = NoTx
  /\ UNCHANGED <<slotOf, mesh, residency, queue>>

-----------------------------------------------------------------------------
(* The mesh worker                                                         *)

(* The worker takes override updates before bakes and publications.        *)
Free == workerState = "ok" /\ updates = <<>>

(* set_override_region as the worker applies it.                           *)
WorkerUpdate ==
  /\ workerState = "ok" /\ updates # <<>>
  /\ LET u == Head(updates)
     IN  worker' = [SetRow(worker, u.table, u.row) EXCEPT !.tableOf[u.region] = u.table]
  /\ updates' = Tail(updates)
  /\ UNCHANGED <<editVars, store, render, workerState, residency, queue, tx>>

(* ConsolidatePass::run: the edits of the job over the worker's own base.  *)
WorkerBake ==
  /\ Free /\ tx.phase = "baking"
  /\ LET r == tx.region
         base(k) == Base(worker, worker.tableOf[r], r, k)
     IN  tx' = [tx EXCEPT
           !.phase = "baked",
           !.ok = TRUE,
           !.baked = [k \in tx.bricks |->
             [of |-> base(k).of,
              ops |-> base(k).ops \cup {s \in tx.ops : Reaches(s, r, k)}]]]
  /\ UNCHANGED <<editVars, store, render, mesh, residency, queue>>

WorkerBakeFails ==
  /\ Free /\ tx.phase = "baking" /\ "bake fails" \in Events
  /\ tx' = [tx EXCEPT !.phase = "baked"]
  /\ UNCHANGED <<editVars, store, render, mesh, residency, queue>>

(* Seeded fault: bytes are published and the row that names them is not.   *)
PublishedBytesOnly ==
  [Upload(worker, slotOf[tx.region], tx.baked) EXCEPT !.tableOf[tx.region] = tx.table]

(* Bytes first, then the row and the table of the region.                  *)
Published ==
  [SetRow(ClearRow(Upload(worker, slotOf[tx.region], tx.baked), tx.table),
          tx.table, slotOf[tx.region])
     EXCEPT !.tableOf[tx.region] = tx.table]

WorkerPublish ==
  /\ Free /\ tx.phase = "publishing"
  /\ worker' = Published
  /\ tx' = [tx EXCEPT !.phase = "published", !.ok = TRUE]
  /\ UNCHANGED <<editVars, store, render, workerState, updates, residency, queue>>

(* The restore: old bytes, old row, old table.                             *)
Restored(m) ==
  [SetRow(ClearRow(Upload(m, OldRow, tx.old), tx.table), tx.oldTable, OldRow)
     EXCEPT !.tableOf[tx.region] = tx.oldTable]

(* Only the bricks done were uploaded, and the restore went through.       *)
WorkerPublishFails(done) ==
  /\ Free /\ tx.phase = "publishing" /\ "publish fails" \in Events
  /\ worker' = Restored(Upload(worker, slotOf[tx.region], [k \in done |-> tx.baked[k]]))
  /\ tx' = [tx EXCEPT !.phase = "published", !.ok = FALSE]
  /\ UNCHANGED <<editVars, store, render, workerState, updates, residency, queue>>

(* Only the bricks done were uploaded, and the restore failed too.         *)
WorkerRestoreFails(done) ==
  /\ Free /\ tx.phase = "publishing" /\ "restore fails" \in Events
  /\ worker' = Upload(worker, slotOf[tx.region], [k \in done |-> tx.baked[k]])
  /\ workerState' = "invalid"
  /\ tx' = [tx EXCEPT !.phase = "published", !.ok = FALSE]
  /\ UNCHANGED <<editVars, store, render, updates, residency, queue>>

-----------------------------------------------------------------------------
(* The world around: streaming, shader reload, physics teardown            *)

(* WorldStreamer drops a region; its residency slot is free.               *)
Evict(r) ==
  /\ LockFree /\ "stream" \in Events
  /\ residency[r] # None
  /\ residency' = [residency EXCEPT ![r] = None]
  /\ UNCHANGED <<editVars, store, render, mesh, queue, tx>>

(* The publication of r failed and the pump has not heard of it.           *)
FailedUnheard(r) == tx.phase = "published" /\ ~tx.ok /\ r = tx.region

(* WorldStreamer loads a region: table and entries are read under one hold *)
(* of the edit mutex and given to the atlas and, with a table, to the      *)
(* worker.                                                                 *)
Load(r, rs) ==
  /\ LockFree /\ {"stream", "reload"} \cap Events # {}
  /\ FailedUnheard(r) => "load behind failure" \in Events
  /\ residency[r] = None
  /\ \A q \in Regions : residency[q] # rs
  /\ Len(updates) < MaxUpdates
  /\ residency' = [residency EXCEPT ![r] = rs]
  /\ render' = SetRow(render, tableOf[r], slotOf[r])
  /\ updates' = IF tableOf[r] # None /\ workerState = "ok"
                THEN Append(updates, [region |-> r, table |-> tableOf[r], row |-> slotOf[r]])
                ELSE updates
  /\ UNCHANGED <<editVars, store, worker, workerState, queue, tx>>

(* A shader reload tears the atlas and the residency down and replays the  *)
(* CPU store into a new atlas; the transaction in flight is left alone.    *)
ReloadRender ==
  /\ LockFree /\ "reload" \in Events
  /\ tx.phase \in {"publishing", "published"} => "reload under publication" \in Events
  /\ residency' = [r \in Regions |-> None]
  /\ render' = Replay([render EXCEPT !.bytes = [s \in Slots |-> Blank]], slotOf)
  /\ UNCHANGED <<editVars, store, mesh, queue, tx>>

(* Seeded fault: the transaction is dropped, its region does not wait.     *)
TeardownQueueForgotten == queue

(* The region of the transaction in flight waits again if it has edits.    *)
TeardownQueue ==
  IF ~Idle /\ log[tx.region] # {} THEN Requeue ELSE queue

(* teardown_physics: the transaction is rolled back, the worker is gone.   *)
TeardownWorker ==
  /\ LockFree /\ "teardown" \in Events
  /\ workerState # "down"
  /\ workerState' = "down"
  /\ updates' = <<>>
  /\ render' = IF Idle THEN render ELSE RollbackRender(render)
  /\ slotOf' = IF Idle THEN slotOf ELSE [slotOf EXCEPT ![tx.region] = OldRow]
  /\ queue' = TeardownQueue
  /\ tx' = NoTx
  /\ UNCHANGED <<editVars, cpu, tableOf, worker, residency>>

(* ensure_physics_initialized: a new worker, its pool rebuilt from the CPU *)
(* store before anything else runs on it.                                  *)
StartWorker ==
  /\ LockFree /\ workerState = "down"
  /\ worker' = [Replay([worker EXCEPT !.bytes = [s \in Slots |-> Blank]], slotOf)
                  EXCEPT !.tableOf = tableOf]
  /\ workerState' = "ok"
  /\ UNCHANGED <<editVars, store, render, updates, residency, queue, tx>>

-----------------------------------------------------------------------------

EditStep ==
  \/ \E ops \in Batches, pol \in Policies : StartBatch(ops, pol)
  \/ SkipEdit
  \/ TakeEdit

PumpStep ==
  \/ StartBake
  \/ PumpBakeFailed
  \/ PumpBakeMoved
  \/ \E pick \in Injection(ToAcquire, FreeSlots) : PumpBakeResult(pick)
  \/ \E pick \in Injection(ToAcquire, FreeSlots), done \in SUBSET tx.bricks :
        PumpUploadFailed(pick, done)
  \/ PumpPublishFailed
  \/ PumpRebuild
  \/ PumpRebuildFailed
  \/ PumpPublishMoved
  \/ PumpCommit

WorkerStep ==
  \/ WorkerUpdate
  \/ WorkerBake
  \/ WorkerBakeFails
  \/ WorkerPublish
  \/ \E done \in SUBSET tx.bricks : WorkerPublishFails(done)
  \/ \E done \in SUBSET tx.bricks : WorkerRestoreFails(done)

WorldStep ==
  \/ \E r \in Regions : Evict(r)
  \/ \E r \in Regions, rs \in RSlots : Load(r, rs)
  \/ ReloadRender
  \/ TeardownWorker
  \/ StartWorker

ConsNext == EditStep \/ PumpStep \/ WorkerStep \/ WorldStep

ConsSpec == ConsInit /\ [][ConsNext]_vars

(* The frame pump and the worker thread keep running, and a tool finishes  *)
(* the batch it holds the edit mutex for.                                  *)
FairConsSpec ==
  /\ ConsSpec
  /\ WF_vars(SkipEdit \/ TakeEdit)
  /\ WF_vars(PumpStep)
  /\ WF_vars(WorkerStep)

-----------------------------------------------------------------------------
(* What the readers see                                                    *)

Field(r, k)  == {s \in accepted[r] : Reaches(s, r, k)}
Logged(r, k) == {s \in log[r] : Reaches(s, r, k)}

(* Replaying a list over a base gives the edits wanted, none of them       *)
(* before an older one the base lacks.  (Edits clamp, so replaying the     *)
(* newest of those already baked changes nothing.)                         *)
Gives(base, brick, list, wanted) ==
  /\ base.of = brick
  /\ base.ops \cup list = wanted
  /\ \A s \in base.ops, t \in wanted \ base.ops : s < t

(* A base shows the world if its list over it gives every edit ever taken. *)
Shows(base, r, k) == Gives(base, Brick(r, k), Logged(r, k), Field(r, k))

CpuBase(r, k) == IF slotOf[r][k] = None THEN Terrain(r, k) ELSE cpu[slotOf[r][k]]

CommittedBase(r, k) == IF Speculative(r, k) THEN Terrain(r, k) ELSE CpuBase(r, k)

CommittedField == [r \in Regions |-> [k \in Bricks |->
                     CommittedBase(r, k).ops \cup Logged(r, k)]]

-----------------------------------------------------------------------------
(* Properties                                                              *)

Mirror == [bytes : [Slots -> Content], rows : [Tables -> Row]]
WorkerMirror == [bytes : [Slots -> Content], rows : [Tables -> Row],
                 tableOf : [Regions -> Tables \cup {None}]]
TxType ==
  [phase : {"idle", "baking", "baked", "publishing", "published"},
   region : Regions \cup {None}, rslot : RSlots \cup {None},
   ops : SUBSET (1..MaxSeq), bricks : SUBSET Bricks,
   table : Tables \cup {None}, oldTable : Tables \cup {None},
   old : UNION {[D -> Content] : D \in SUBSET Bricks},
   baked : UNION {[D -> Content] : D \in SUBSET Bricks}, ok : BOOLEAN]

ConsTypeOK ==
  /\ EditTypeOK
  /\ slotOf \in [Regions -> Row]
  /\ cpu \in [Slots -> Content]
  /\ tableOf \in [Regions -> Tables \cup {None}]
  /\ render \in Mirror
  /\ worker \in WorkerMirror
  /\ workerState \in {"ok", "invalid", "down"}
  /\ updates \in Seq([region : Regions, table : Tables, row : Row])
  /\ residency \in [Regions -> RSlots \cup {None}]
  /\ queue \in Seq(Regions)
  /\ tx \in TxType

(* Baking is invisible: what the CPU store is committed to is the terrain  *)
(* with the accepted edits applied in order, and only an edit changes it,  *)
(* whatever fails on the way (record kConsolidated, "the field did not     *)
(* change").                                                               *)
World == INSTANCE WorldEdits WITH field <- CommittedField
ImplementsWorldEdits == World!AbstractSpec

(* The worker's row of a region names a slot of its transaction, and the   *)
(* publication that will fill the slot has not run: the region was loaded  *)
(* in between.                                                             *)
Unfilled(r, k) ==
  /\ tx.phase = "publishing" /\ Speculative(r, k) /\ worker.tableOf[r] # None
  /\ worker.rows[worker.tableOf[r]][k] = slotOf[r][k]

(* Whatever bakes, uploads, publications and streaming left in the pool of *)
(* the mesh worker, a mesh made from it now shows every accepted edit, but *)
(* for the bricks of a region loaded while its own publication waits.      *)
WorkerShowsTheWorld ==
  Free => \A r \in Regions, k \in Bricks :
     Shows(Base(worker, worker.tableOf[r], r, k), r, k) \/ Unfilled(r, k)

(* The same of the atlas and a resident region, at every moment of a       *)
(* transaction and after every rollback.                                   *)
RenderShowsTheWorld ==
  \A r \in Regions, k \in Bricks :
     residency[r] # None => Shows(Base(render, tableOf[r], r, k), r, k)

(* A slot has one brick, a table one region, and a slot is in use only for *)
(* a region with a table or for the transaction in flight: refusals and    *)
(* rollbacks leak nothing of the two fixed pools.                          *)
OwnedSlots ==
  /\ \A r, q \in Regions, k, j \in Bricks :
        slotOf[r][k] # None /\ slotOf[r][k] = slotOf[q][j] => r = q /\ k = j
  /\ \A r, q \in Regions : tableOf[r] # None /\ tableOf[r] = tableOf[q] => r = q
  /\ \A r \in Regions, k \in Bricks :
        slotOf[r][k] # None => tableOf[r] # None \/ Speculative(r, k)

(* A list as long as the threshold has its region in care: queued, or in   *)
(* flight.                                                                 *)
Long(r) == OpCount(r) >= ConsolidateAtOps
InCare(r) == r \in Queued \/ r = tx.region

QueueIsFull == Waiting = QueueCap

(* A region with a long list goes without care for one of three reasons:   *)
(* the edit that made it long, or came after that, found the queue full;   *)
(* it went without before and has had no edit since; or the pump gave its  *)
(* transaction up and could not rebuild the worker.                        *)
CareIsLostKnowingly ==
  \A r \in Regions : Long(r)' /\ ~InCare(r)' =>
    \/ ~InCare(r) /\ log'[r] # log[r] /\ QueueIsFull'
    \/ ~InCare(r) /\ log'[r] = log[r]
    \/ r = tx.region /\ workerState = "invalid" /\ workerState' = "invalid"

(* No other refusal, rollback, commit or teardown drops a region with a    *)
(* long list.  A region waits once at most and never while it is in        *)
(* flight, and the queue keeps its bound with a transaction's region       *)
(* coming back to it.                                                      *)
NothingForgotten ==
  /\ [](/\ \A i, j \in DOMAIN queue : queue[i] = queue[j] => i = j
        /\ tx.region \notin Queued
        /\ \A r \in Queued : log[r] # {}
        /\ Waiting <= QueueCap)
  /\ [][CareIsLostKnowingly]_vars

(* A transaction ends, committed or refused.                               *)
TransactionEnds == ~Idle ~> Idle

(* The transaction in flight ends and its region keeps its edits.          *)
Refused == ~Idle /\ Idle' /\ log'[tx.region] = log[tx.region]

HeadDoesNotFit ==
  queue # <<>> /\ Cardinality(BricksToBake(Head(queue)) \ Baked(Head(queue))) > Cardinality(FreeSlots)

(* A region does not wait for ever, however often its bake was refused, if *)
(* the worker is up for good and refusals come to an end: it is baked,     *)
(* unless the head of the queue needs more slots than there are.           *)
WaitingIsBaked ==
  (<>[](workerState = "ok") /\ <>[][~Refused]_vars) =>
    \A r \in Regions : (r \in Queued) ~> (OpCount(r) < ConsolidateAtOps \/ HeadDoesNotFit)
=============================================================================

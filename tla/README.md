# voxel-everything: a verification project

TLA+ models of the voxel engine in `extension/src/`, the TLC runs that check
them on small instances, and TLAPS proofs of what holds for every instance.
Paths below are relative to `src/extension/src/` unless they say otherwise.

The engine is a Godot extension. It keeps an editable, unbounded terrain as a
generator plus a list of edits per region, and shows it through several copies:
bricks in a GPU atlas that is ray-marched, meshes made by a worker thread for
collision and for distant levels of detail, and bodies in the physics space.
Almost everything that is hard about it is keeping those copies true while
tools edit, players move, uploads fail and results come back many frames after
the question was asked. That is what the models are about; the float arithmetic
of the field, the meshes and the shading is not.

## 1. Inventory

| part | code | state | operations |
|---|---|---|---|
| Edit log and pipeline | `world/edit_log`, `core/edit_pipeline` | per-region lists with sequence numbers, the edit sequence | `apply` (batch, atomic or not), `preflight`, `append`, `clear_through` |
| Consolidation | `mesh/consolidation` | queue, the transaction in flight and its rollback records | `queue`, `pump`, take results, publish, `commit`, refuse, roll back on teardown |
| CPU field, override store | `world/override_store`, `world/world_field` | slot and bytes of each baked brick | `acquire`, `release`, `commit`, `snapshot_region` |
| Mesh service | `render/mesh_service` | five job queues with busy flags and results, two data streams, the worker's validity | `submit_*`, `collect_*`, `run_sync`, `rebuild`, `start`, `stop`, the worker's loop |
| Override pools, atlas | `render/override_pool`, `render/gpu_atlas` | bytes by slot, table rows, region tags | upload, set table, clear, free, refill |
| Stored normals | `world/normal_range_allocator`, `render/stored_normal_pool` | free blocks, live ranges, generations | `allocate`, `release`; upload through them |
| World streamer | `render/world_streamer`, `world/residency`, `render/async_readback` | residency slots, staged regions, the region map, free count and slab counts as last read, repair queue | frame: collect reads, plan residency, probe, allocate slabs, publish, mark edits, repair, shrink, ask |
| World store, occupancy | `core/world_store`, `connectivity/occupancy` | edits queued for the streamer, inbox of stamped blocks, the grid | stamp a mark, read it back, drain, carve cells |
| Colliders | `mesh/chunk_residency`, `physics/collider_streamer` | slots, probes, builds in flight, staged bodies | frame: drain, collect, stage, commit, plan, submit; release; restart |
| Islands | `physics/island_*`, `render/island_handoff`, `generator/volume_set` | windows, copies in flight, bodies, volume slots and pins, uploads for the render thread | search, extract, carve, crumble, resample, paste, hand over, tear down |
| Level of detail | `lod/*`, `render/lod_pool`, `transparency/shell_grid` | chunk nodes and flags, the near shell's chunks, free pages and page lists, the walk's cut, the batch under way | tick: drain marks, walk, land results, evict; candidates, submit; reload |
| Orchestrator, node | `render/orchestrator`, `voxel_world` | lifetime of GPU objects, admitted callbacks | frame, reload, teardown |
| Terrain pipeline | `terrain/*` | stages, sector cache | load, generate, evict |
| Frame and decoration | `render/frame`, `render/grass_scatter_pass`, `render/leaf_scatter_pass` | the scatter epoch, what was scattered last and for which inputs; the sweep of the sun cache, the occlusion read | note a change of the world, scatter or keep |
| Other passes, shaders, settings, debug | `render/*_pass`, `src/shaders`, `settings`, `debug`, ... | buffers and plain values | record GPU commands |

**How the parts meet.** Tools on any thread take the edit lock and call
`apply`; sinks are told under the lock and only queue (`core/edit_pipeline.h`,
lines 5-15: callback admission, then the render lifetime lock, then the edit
lock, and nothing nests inside the edit lock). The main thread runs frames: the
streamer, the consolidation pump, the collider streamer, the LoD system. They
submit batches to the mesh service and collect results in later frames. The
worker thread shares with them only the queues (one lock) and a few flags that
are read without it.

**What is hard.** A result is used frames after its snapshot was taken, when
the region may be elsewhere, edited, baked or gone. A transaction spans several
frames, three copies of the bytes and half a dozen ways to fail, and has to be
undone at any point. The worker can be spoiled by a failed restore, rebuilt, or
restarted with work queued. Pools are small and fixed. `PROJECT.json` lists
these hazards line by line with the properties that would catch each.

**What makes each part correct.** Log: a batch is whole or absent, order is
never lost. Consolidation: invisible to every reader, leaks nothing, forgets
nobody, ends. Service: each batch is answered once, jobs see the data submitted
before them, nothing reads spoiled bytes. Colliders: what is in the physics
space is of the chunk that owns the slot and only gets newer; near ground ends
up solid. Ranges: each byte has one owner and stale handles are harmless.
Streamer: what the renderer looks up is whole, and a brick the GPU had to drop
is never forgotten. Occupancy: a late readback never hides a newer edit, and no
stamp claims an edit that was not seen. Islands: a carve takes only what was
copied, volume slots have one owner, pasted bytes stay. LoD: what is drawn
covers the view without overlap, pages have one owner, no edit is lost.
Orchestrator: nothing is freed under an admitted callback.

## 2. Modules

| module | models | relies on |
|---|---|---|
| `WorldEdits` | what the edit world promises: a field that changes by accepted edits only | - |
| `EditPipeline` | edit log and batch entry point | - |
| `Consolidation` | coordinator, override store, atlas tables, the worker's pool, streaming and teardown as they meet a bake | extends `EditPipeline`, implements `WorldEdits` |
| `MeshService` | the worker thread and its clients' side | - |
| `ColliderStreamer` | chunk residency and collider streamer, with the service as their client sees it | - |
| `NormalRangeAllocator` | the range allocator | - |
| `OccupancyHandover` | an edit's way from the log through the mark pass and the asynchronous reads into the occupancy grid, bricks refused on that way and marked again, and the island search that waits for it | - |
| `WorldStreamer` | residency, its funding from the atlas, staged loads, overflow reports and repair | what an edit inside a frame does is `OccupancyHandover`'s |
| `Islands` | the island manager, the volume pool, the hand-off to the render thread | when the picture it searches is up to date is `OccupancyHandover`'s |
| `LodSystem` | the tick of the level-of-detail system with tree, shell, islands and page pool | its batch at the service is one in flight, as `MeshService` has it |
| `SectorCache` | the sector cache, the bakes, both mirrors, and the gates of those who bake field data into a store | when a frame runs and when the graph comes and goes is `RenderLifetime`'s |
| `RenderLifetime` | callback admission, reload, the teardown of the GPU graph by two threads or one | extends and drives `SectorCache` |
| `ConsolidationProofs`, `MeshServiceProofs`, `ColliderStreamerProofs`, `OccupancyHandoverProofs`, `IslandsProofs`, `LodSystemProofs`, `WorldStreamerProofs`, `RenderLifetimeProofs` | theorems | the module they name; the first has those of `EditPipeline` and, in a part of its own, of `NormalRangeAllocator`, the last is about `SectorCache` too |
| `MC*` | instances for TLC | the module they name |

Operators named `...OneByOne`, `...Kept`, `...Forgotten` and the like, marked
*seeded fault*, are not part of a model: each is a plausible bug, and putting
it in place of the definition after it makes TLC refute the property that is
meant to catch it.

### EditPipeline
State: `log[r]` is the set of sequence numbers in the list of region r
(numbers grow, so the set has the list's order), `history` the edits by number,
`accepted[r]` every number a list ever took (a history variable), `editSeq` the
counter other parts poll. `BeginBatch` is the preflight of `apply`;
`AppendHead` and `SkipJunk` its loop, one operation at a time; `ClearThrough`
is the cut of a commit. While `batch` is not empty the edit lock is held, and
every action that needs the lock waits for it. An edit is the regions and
bricks it reaches, which is all the log and the bakes tell apart. The numbers of
the model do not wrap; in the code they have 64 bits.

### Consolidation
A brick's bytes are modelled by *which edits are baked into which brick*, a
slot holds such bytes, and an override table maps a region's bricks to slots.
Three readers hold copies: the CPU store (`slotOf`, `cpu`, `tableOf`), the
render atlas (`render`) and the worker's pool (`worker`). `Shows(base, r, k)`
says that replaying the list over a base gives every accepted edit in order. A
bake moves all three copies at different times. `tx` is the transaction: idle,
baking, baked, publishing, published. The actions are the pump's (begin, take
the bake's result, refuse, submit the publication, take its result, commit),
the worker's (bake, publish, fail, fail to restore), and the world's (a region
leaves and comes back, to another slot or the same, a shader reload, teardown and start
of the worker). Each pump action is one hold of the edit lock, as in
`pump_async`. `Events` says which faults an instance has.

### MeshService
One action per step between two holds of the service's lock. `pending`,
`busy` and `results` are per class of job (extract, mesh, lod, bake, publish),
a batch is its number, so *submitted before* is *smaller*. `worker.at` and
`main.at` say where the two threads are, and whether they sleep on their
condition variable. Flags read outside the lock (`worker_state_valid_`) are
read in a step of their own. `awaited` and `wanted` are history: what a client
waits for, and the data the world submitted. `landed` is what the worker's
pools hold.

### ColliderStreamer
Chunks lie on a line, a chunk's field is a version and a kind (air, ground, or
an *alarm*: ground to the probe, no triangle to the mesher). The main thread's
frame is `BeginFrame` (drain dirty boxes, collect), `Enqueue`, `StageOctant`
/ `StageFails` / `StageStale` / `StageStops`, `CommitBodies` /
`CommitEmpty`, `Plan` / `PlanHeld`, `Submit`. Between any two of them tools
edit and the worker takes, finishes, fails, is spoiled or rebuilt. Ties of
distance are broken either way. The budget of a frame may end after any
iteration but not before the first.

### NormalRangeAllocator
`heap` has the allocator's members; the sorted free list is the set of its
blocks. `Allocate` is first fit with alignment and the split into fragments,
`Release` the checks of a handle and the merging with both neighbours. A
handle once given out may be given back at any time, again and again, as its
many copies in the code allow.

### OccupancyHandover
A brick's cell holds the numbers of the edits it shows, or `Unknown`. `edits` is
the log, `pending` what the store keeps for the streamer, `gpu` the occupancy
the mark pass writes, `marked`, `reads` and `inbox` the three places a stamped
block passes on its way to `grid`. A frame is `FrameBegin` (harvest the reads
that landed, ask for new ones, take the overflow word, plan), one `Capture` for each
job (the operations are uploaded and the edit sequence read under one hold of the edit
lock), one `Recapture` for each region that is marked again (the sequence is read and
nothing uploaded: the job runs over `uploaded`, what the pool has) and `FrameEnd` (evict,
run the jobs in order, note the stamps). `FrameEnd` may refuse bricks (`denied`), for
want of a slot of the atlas or of room in the job list: their cells stay, a bit is set in
`word`, and `missed` remembers the edits. `telling` is the copy of the word on its way;
what it says fills `repair` and has `regen`, the regions of the last frame, marked
again. `Land` ends a read, `DrainOccupancy` is
the main thread's, `Search` and `LandExtraction`, with the `SetCell` of a carve,
are the island manager's. A host with `tools` has edits between those steps, the others have
them between frames.

### WorldStreamer
Regions lie on a line and have one brick in each slab. `tab` says what a slot's
region table has for a brick: absent, staged, stale or fresh; `over` is the
overflow word, `flying` and `landed` the reads, `known` what they said. A frame
is one action, in the order of `run_frame`: `Updated` plans residency and funds
it, `Settled` lets go of regions for a drop or for the room of an edit, `Staging`
keeps the queue of regions on their way in and schedules the slabs it can pay for,
`Outcome` runs the marks, publishes what is whole, sweeps for repair and asks for
the next reads. `GoodFrame`,
`RefusedFrame` (the device takes no read) and `GatedFrame` (the terrain gate
holds a region back) are that frame with different inputs; `AbortedFrame` ends behind
the streamer, before anything is drawn. Behind the streamer the frame notes whether the
world changed (`Unsettled`), and grass and leaves are scattered over the bricks or kept
from an earlier frame (`Scatter`). The epoch is only ever compared with the one of the
last scatter, so `scattered` is what may be drawn again, and `None` once the epoch has
moved on.

### Islands
The field is one place for each of two pieces; a piece's shape is the number of
the edit that last changed it. `pc` says how far `run_frame` has got:
`BeginFrame` publishes the descriptors and takes the worker's answers;
`LandNothing`, `LandRefused`, `LandCarve`, `LandUnpasted` and `LandPaste` are the
ways one answer can go; `Search` drains the inbox into windows, labels the first
and sends copies of its loose pieces to the worker; `StartMerge` sends a body at
rest to be resampled, which `LandPaste` puts back into the field. Slots of the
volume pool carry the copies; `uploads`, `frees` and `descs` are the hand-off,
`pool` what the render device has after the last `DrawFrame`. `Teardown` and
`Initialize` take physics down and up again.

### LodSystem
Chunks are an octree in miniature: a coarse one and its two children, with a
chunk of the near shell and an island on the same pool. What the camera sees is
an input (`Views`). `nodes` has a node's state and flags, `age` the frames since
it was marked; `pool` has the free stack, the page lists (`owns`) and what each
page shows. `TickWalk` is the tick up to the evictions (marks, walk, results,
evictions), `TickSubmit` the rest (candidates, requests, refusals, batch), so
that edits and the worker come between. The operations are gathered after the
unlock that follows the choice of requests; here that is one step with the
choice, and `note_building` clears the mark before it, so an edit between the two
is one the gather sees and marks again.

### SectorCache
Sectors, regions and places lie on a line; the distances are those of the code
along it. `view`, `resident` and `inFlight` are the cache's members, `ring` the
bakes dispatched, `mirror` the layers of the render graph's mirror, `regions` what
the streamer generated from them, `verdicts` what the collider's probe of a place
said, `worker` the mesh worker with a mirror of its own. The version number is
only ever compared with a version read before, so it is the two flags `current`
(the stored one is still the cache's) and `fresh` (the one just read is). A render
frame is one `HarvestRead` for each read that landed, whole or short, and
`SectorFrame` (plan, dispatch, sync, stream with its gate). `PhysicsTick` is the
collider streamer's gate with the probe and the build behind it. The worker takes a
job, and unless its mirror is up to date reads version and centre in one step and
the snapshot in the next, as `SectorMirror::sync` does without a lock that spans
both. What `job` owes a build is the sectors its gate asked for, less those the
cache evicted since.

### RenderLifetime
`pc` is where the render thread is in a callback: `BeginCallback` (looked up and
counted under the admission lock), `PumpReload`, `EnsureInitialized`, the frame,
`EndCallback`. `main` is where `_exit_tree` is: `CloseAdmission`, `DrainCallbacks`
(the wait, then nothing to free, or freed here, or over to the render thread),
`ForceSync`, `HandOverTeardown` (the flag, then the call), `AwaitTeardown`,
`TeardownPhysics`. `Hosts` has both thread models: with `"two"` the main thread acts
between any two steps of a callback, with `"one"` only between callbacks. Whatever
tears the graph down takes the sectors' share with it (`DropGraph`).

## 3. Runs

Every bound has a name in its module. Constants the code fixes (256
operations, a queue of 32, 8 octants, 300 frames to an eviction) are small in
the instances, with the relations between them kept by an `ASSUME`.

| run | question | instance, and why it is enough |
|---|---|---|
| `consolidation_faults` | Through each fault of a bake: are batches whole, does nothing leak, is nobody forgotten but for the reasons named, does each transaction end and each waiting region get baked, and is the edit world as `WorldEdits` promises? | three regions of two bricks, a queue of two, 4 edits, lists of 3, 2 slots: an edit finds the queue full; a batch can overflow one region and not the other; a transaction can run out of slots, reuse those of an older bake and race edits before, during and after the snapshot |
| `consolidation_moves` | Does every reader see a base and a list that belong together? | two regions, 4 edits, 2 slots, batches that are not atomic, with junk: a second bake goes over the bytes and the table of the first; regions leave and return to either slot, with every failure, reloads, rebuilds, restarts |
| `mesh_service` | Is every batch in one place and answered, does no job read spoiled bytes or overtake its data, does every wait end? | 3 requests of any kind, all faults: a data item, a job that reads it and one that meets a fault |
| `colliders` | Is the physics space true to the residency and ever newer through every fault, and does near ground end up solid? | 2 chunks, 1 slot, a player who moves between them: displacement, eviction and return of a chunk with a build under way; 2 edits, one failure, all events of `Events` |
| `normal_ranges` | Does each byte have one owner, is room found, are stale handles harmless? | 5 units of 2 bytes and an odd byte; sizes 0 to too large; alignments below, at and above the unit, one not a power of two |
| `occupancy` | Are stamps true, does the grid never go back, does every edit reach it? | one region of two slabs (regions share only the reads), two reads that land in either order, 2 edits, a load, a bake, a frame that refuses any of its bricks for want of slots or of jobs; eight hosts, the one with refused bricks beside a stream-in with one edit |
| `search_sees_its_edit` | *violation*: a window is searched on a picture with its edit | finding 1 |
| `islands` | Has each volume slot one owner, do pasted bytes stay, with their own normals or none, does a carve take what was copied, does loose ground fall? | two pieces, one too small for the atlas; two volumes, one atlas slot, two bodies: a resample has to reuse its birth slot, extractions are refused, slots change hands; six hosts with two kinds of event each, the last with refused normals too |
| `streamer` | Is every hole known and healed, is the map whole, are slabs paid for, does kept grass stand on today's bricks? | four regions, three region slots, an atlas of 5 bricks for 7: loads are cut short, the job list overflows, slots change tenants; four hosts, two moves or events |
| `lod` | Have pages one owner, is every edit known, is the cut whole, does the view get what it asks for? | root, two children, a shell chunk over water, an island; 8 pages, all of which they want together while an exchange needs more, and 6 chunk records; a batch takes up to 2 ticks; five views, seven hosts with two or three events |
| `lifetime` | Does nothing outlive its graph, does leaving end, does what passed a gate find its ground, does ground arrive? | two places that want different sectors and share what they keep, a region at each, a ring of 2; one move, one reload, one failure of any kind, one thread or two. Safety alone was also run with two moves |
| `probes_see_ground` | *violation*: nothing is probed over a sector that is not resident | finding 2 |

The properties relate several actors' state or several moments; their comments
say what code each is about.

A run with *hosts* has several environments in one: a behaviour is under one
member of `Hosts`, which says what may happen beside the component in it. Pairs
of events that may meet are in one host; all events at once are out of TLC's
reach.

**Deadlock** is checked for the colliders, the streamer and the LoD system. The
other instances stop when their bounded requests or edits are spent, which the
real system does not; there `SyncEnds`, `EveryBatchIsAnswered`,
`TransactionEnds`, `EditsReachTheGrid` and `LooseBecomesBody` say what a deadlock
check would, in the presence of spent bounds. A world that has left the tree stops
for good in `lifetime`; that it does not stop earlier is `LeavingEnds`.

**Symmetry** is used over the slots of the pool in `consolidation_moves`, which
checks no liveness; the slots are never compared or ordered.

### Fairness
- The worker's loop (`WF`): the thread is started with the service and blocks
  only on its condition variable; the wake-ups are modelled, not assumed.
- The main thread's frames (`WF` on the pump, on the steps of a frame, on
  collecting each class): the engine calls them each frame. Nothing obliges it
  to submit, edit, move or reload. In `WorldStreamer` and `LodSystem` a frame is
  any frame, `[]<><<odd' # odd>>_vars` and `[]<><<phase' # phase>>_vars`: frames go
  on, and which of their inputs are good is not assumed beyond the bounds on
  failures. In `OccupancyHandover` a frame whose staged regions are ready, whose
  reads are taken, which hears of the overflow word and takes some of the repair queue
  (there are free slots above the headroom again) comes again and again, and a read lands whole if it can again and
  again (`SF`): refusals and short reads that go on for ever refuse for ever in the
  code too.
- The device completes what it was asked (`WF` on `Land`, `Picture`,
  `DrawFrame`).
- In `RenderLifetime` frames are drawn for as long as the world is in the tree, and
  each thread takes its next step (`WF`). A read lands, and with one thread the main
  thread runs, between two frames only: there is a between again and again, and
  in one of them it happens (`SF` on `Land` and `Tick`). Nothing obliges the world
  to move, reload or leave.
- In `LodSystem` a batch takes at most `Lag` ticks, and `EvictAge` is above twice
  that and the frames its answer needs to be drawn. In the code that is
  `kLodEvictFrames`, 300 frames, about five seconds: children that need longer to
  come together than it takes to evict the first evict one another in turn,
  for ever.
- A tool finishes its batch (`WF`): the loop over the operations is bounded.
  The liveness instance uses atomic batches only: under weak fairness alone,
  tools that hand in refused junk for ever could keep the mutex from the pump.
- The terrain gate of the colliders (`SF` on `Plan`): it opens in some of the
  frames that ask. The sector around a player gets generated in the end.
- `WaitingIsBaked` and `CollidersCatchUp` hold when faults end, and say so: a
  worker that is up for good, no refusals, no restarts, a player at rest. A
  fault that recurs for ever retries for ever, in the code as in the model.
  `LooseBecomesBody` is for hosts in which nothing fails, and excuses a full pool.
  `EveryBatchIsAnswered` and `SyncEnds` except one state, named `Stuck`:
  the main thread in the diagnostic `run_sync` while the worker is invalid,
  which the only caller able to rebuild it would have to.

## 4. Findings

1. **A carve makes a window fresh that is not** (`search_sees_its_edit`,
   `connectivity/occupancy.cpp:45`). `set_cell` writes the cells of a carved
   island into a region's block and stamps the whole block with the number of
   the carve. A window of an earlier edit elsewhere in the region, whose bricks
   no readback has shown yet, passes `window_is_fresh` and is searched on the
   old picture: the piece that its edit cut loose is not found, and the window is
   gone.
2. **The gate of the colliders lets everything through where the cache wants
   nothing** (`probes_see_ground`, `physics/collider_streamer.cpp:575`).
   `ready_world` asks for the sectors the last planned camera wants. Before the
   first frame is drawn that camera is the field's origin, and after a jump it is
   where the player was: none of the sectors around the player is wanted, so none
   is missing, and chunks are probed through the fallback. "Air" stays cached until
   an edit comes or the player has been away. `src/tests/test_sector_gating.gd:3`
   says "nothing that bakes field data into a store runs over a sector that is not
   resident"; the gate of the regions knows the case
   (`render/orchestrator.cpp:306-307`).

Seen while modelling, without a run. They are the conditions under which
properties above hold, and where one is an event, an instance leaves it out or a
property excuses it:

*Consolidation and CPU field*
- The slots of a bake are acquired in the CPU store when its result arrives and
  filled at the commit some frames later (`mesh/consolidation.cpp:197`). In
  between a CPU reader finds a blank or recycled brick. `ImplementsWorldEdits` is
  therefore stated of what the store is *committed* to.
- The worker of the meshes is exposed to the same slots. A region with a table that
  leaves and loads again while its publication waits (`publishing`) is given to the
  worker with the rows as the store has them, slots of the bake included
  (`render/world_streamer.cpp:465-485`). Updates are applied before any job
  (`render/mesh_service.cpp:625`), and jobs of a higher class run before the
  publication that fills the slots (629-637): until then their meshes show blank or
  recycled bricks, though nothing failed. `WorkerShowsTheWorld` excuses these bricks
  and no other, by name (`Unfilled`).
- If instead the publication has failed and been restored
  (`render/mesh_service.cpp:744-764`) and the pump has not heard of it, the same load
  puts the rows of released slots on top of the restored ones, and they stay: later
  meshes and the base of the retried bake read them. TLC finds it in 21 steps with
  `load behind failure` among the events; `consolidation_moves` has streaming and
  failing publications together, and leaves this one load out
  (`FailedUnheard`; `NoLoadBehindFailure` in the theorems about readers).
- A shader reload under a publication loses the bytes that were uploaded to the old
  atlas. If the region is back in the same residency slot by the commit, the pump takes
  it for never having moved and publishes a row over bytes nobody uploads again
  (`mesh/consolidation.cpp:213`; `render/orchestrator.cpp:711`). TLC finds it in 12
  steps with `reload under publication`; the run has reloads at any other time
  (`NoReloadUnderPublication` in `AtlasShowsEveryEdit`).
- A head of the queue that is not resident goes back to the head
  (`mesh/consolidation.cpp:262`); no region behind it is baked until it streams
  in again, and their lists fill up to the cap, at which edits are refused.
- A full queue refuses a region whose list is at the threshold. Only a later
  edit asks again, and a full list takes none. `NothingForgotten` names the case
  (`QueueIsFull`), and that such a region stays without care until its next edit.
- A rebuild of the worker that fails drops the transaction and does not put its
  region back into the queue, which the other ways to fail do. The region is asked for
  again by its next edit only. `NothingForgotten` names this case too.
- `ops_since` (`world/world_field.cpp:120`) reads the lists, so an edit that
  was baked since the snapshot is not among "ops appended after `after_seq`"
  (`world/world_field.h:71`).

*Mesh service*
- An iteration that serves LoD falls through the mesh code with an empty batch
  and clears `busy_` (`render/mesh_service.cpp:866`), against the contract in
  `render/mesh_service.h:84-85`; a second mesh batch can be queued beside a running
  one. The property that a class has one batch would not hold of it, so `EveryBatchHasItsPlace` is stated without it, and `ColliderStreamer` has the
  event (`lod`) and holds with it: the collider streamer keeps its own marker per
  chunk.
- `submit_volume` refuses while the worker is invalid and no rebuild hands the
  volume over again (`wanted["refused"]`).
- A worker that is invalid polls its empty loop without sleeping.
- A higher class of job that always has a batch starves those below it.

*Streamer and occupancy*
- Loads are paid for twice (`render/world_streamer.cpp:351`): a load is charged
  against the free count until the count is next read, but a paced load takes its
  slots frames after its probe. A reading taken while regions wait in the queue shows
  their slots as free and stops charging them, so later loads are paid for with the
  same slots and the mark runs against a full free list. `HolesHeal` shows that the
  repair sweep recovers what is dropped.
- The loop over harvested reads goes by place in the array, so of two blocks with
  equal stamps the older may be the later one (`connectivity/occupancy.cpp:37`).
  `GridNeverRegresses` holds with it but for refused bricks, as an equal stamp claims no
  other edits.
- A brick that the mark refuses keeps its old cell (`shaders/brick_mark.comp.glsl:220-226,
  249-258`) and its region is stamped all the same (`render/world_streamer.cpp:663`), so
  the block claims an edit it does not show until the repair; and the block from before
  the repair has the stamp of the one from after it, so that it wins if it lands last. A
  window searched in between sees the old picture. `StampsAreTruthful`,
  `GridNeverRegresses` and `EditsReachTheGrid` excuse such edits for good (`missed`),
  and say instead that word of them is never lost and that the GPU shows them again.
- The jobs of the overflow recovery and of the repair sweep read the length of the list
  and the edit sequence under the lock but upload nothing
  (`render/world_streamer.cpp:670-757`), unlike loads, where "the seq must match the op
  set just captured" (443-447). Their stamp claims an edit that a tool thread lands
  inside the frame, and the marks do not see it; the operation the length counts is not
  in the pool, and what the shader reads in its place is left out. The next frame has the
  edit's own job. `StampsAreTruthful` says so (`"remark"`) and holds blocks and word to
  the truth in hosts without tools only.
- A read of the overflow word that lands short counts as zero (`as_i32` in
  `render/async_readback.cpp`), and the word was cleared when it was asked for: its bits are
  lost, against "this arm must never lose a bit". The model leaves out short reads of
  the word.
- The comment of the overflow word says its bit 0 "gets no re-mark"; the streamer's
  sweep re-marks for both bits.
- The scatter epoch (`render/frame.cpp:806-820`) follows a count that leaves out
  regions marked again: forced regenerations of whole regions, the re-marks behind a job
  overflow, the repair sweep (`render/world_streamer.cpp:786-788`). Bricks these fill once
  loads have settled get no grass or leaves for as long as the camera rests, though
  "anything that changes the atlas or the sun (streaming, edits) must change it"
  (`render/grass_scatter_pass.h:31-32`). `ScatterShowsTheWorld` excuses those regions
  and no other; without the excuse TLC finds a repaired brick that stays bare.
- A scatter that fails to open its compute list has zeroed its draw arguments, and
  `scattered_` is still set (`render/grass_scatter_pass.cpp:242-245`): if the next inputs
  are those of the last whole scatter again, nothing is drawn until they change.
- Where one frame's jobs do not fit the job list, drops recur in each
  sweep; the same where the reserve is capped by a small atlas. Job overflows with
  free slots at or below the headroom, and no full atlas reported, leave bricks
  stale. The `ASSUME`d sizes and the instances are larger.

*Islands*
- A window with one piece that is never taken (no lattice for it) and one that is
  taken, copied as empty and not crumbled is put back each time, since fewer
  pieces were submitted than found (`physics/island_manager.cpp:398`), and is
  searched for ever. `LooseBecomesBody` is not about such pieces.
- Retry windows are not joined with one another, so they overlap after a while.
- A paste that takes over its body's birth slot overwrites the bytes one frame
  before the body's descriptor goes (`VolumesKeepTheirBytes` says so).
- Normals of a slot freed and uploaded again in one batch stay until the slot is
  used again.
- A volume may get no normals: it came without, or the pool's 32 MiB, which the bricks'
  normals share, had no room (`render/stored_normal_pool.cpp:97-101, 167-174`). The pool then
  keeps the *old* normals of a slot that has some, of whatever volume; it never comes to
  that, since all island volumes have one size and such a slot is written in place (145-152).
- `evict_furthest` does not lower the seam's radius.

*Orchestrator, sectors and the node*
- `SectorContext::teardown` throws busy bakes away without telling the cache
  (`render/sector_context.cpp:54-58`). The cache outlives the graph and goes on
  waiting for them: `plan()` never asks again, and regions over those sectors are
  held for ever, though `abandon` is there for "a bake that will not arrive"
  (`terrain/sector_cache.h:36`) and a reload "re-streams the same world"
  (`render/orchestrator.cpp:708-710`). `GroundArrives` excuses it (`Orphaned`).
  `SectorCache::clear` is called by a debug hook only.
- The gate of the LoD system (`lod/lod_system.cpp:25-31`) has the same vacuous case as
  that of the colliders. The region gate's test for it is redundant in the order in
  which a frame plans and streams.
- The mirror has `max_resident()` layers. The slack above what the cache keeps is 58 at the
  shipped radius but down to 4 near 239 m, fewer than the 8 reads that may land at once; the model
  leaves the capacity out.
- `SectorContext` warns of a radius beyond the window's reach; `ReadersHaveGround` needs
  the reach to hold the kept sectors too (`Window * Size > Radius + Size`; shipped, 4505.6 against
  4409.6 m).
- Whether callbacks are enabled is one flag for all worlds: one that leaves disables another's. `_ready`
  runs once in a node's life, so a world that is added to the tree again never
  reopens admission. The deferred teardown of a callback that shuts its own world down
  is reached from the debug hooks only.
- Volumes and normals of pasted islands that were handed to a graph are not
  handed to the next one after a reload.

*Level of detail*
- A batch that fails, or is cancelled by a rebuild, is answered without
  `shell_only` (`render/mesh_service.cpp:886-891`, 256-264). The answer goes to the
  tree, where it makes a node nobody asked for, and the shell's chunk stays at
  *building* until it leaves the candidates. `Land` passes the first over, and
  `EditsAreKnown` and `FarFieldCatchesUp` excuse the second by name (`LostToShell`).
- `release_gpu` does not clear the page lists of island meshes, whose pages the new
  pool hands out again; no host has islands and reloads (`ReloadsAlone`).
- A batch in flight across a reload lands on a fresh node as if it had been asked
  for, and a mark on the node that was dropped is lost; no host has edits and
  reloads (`ReloadsMeetNoEdit`). The attempt to prove `CutIsWhole` met a second effect: two
  reloads within the time of a batch put two builds of one chunk under way, and
  the later answer, failed or of before an edit, lands on a chunk found empty in the
  meantime, which is then neither ready nor empty. Its siblings stay drawn for that frame
  and its place is a hole. TLC finds it with `reload` and `fail` in one host, ground with an
  empty piece and a batch of more than three ticks (`ReloadsMeetNoFailure`); no host has the two.
- A result for a shell chunk that has left the candidates uploads pages that no
  eviction takes back. Where the chunk is back by then, it is taken for an answer about
  the chunk as it is now, though an edit came while the chunk was not listed and marked
  nothing: the shell shows the old surface until something marks it again. `relisted` is
  where this may have happened, from the return of a chunk with an answer out until it
  is sent again, and `LostToShell` excuses it. Without the excuse TLC refutes
  `EditsAreKnown` in the host with `paint` and `move`.
- A shell chunk over the cap of operations keeps its old pages, where the comment
  says it is "simply not drawn". A coarse chunk over the cap that has no pages
  blocks all that is below it until a bake; one among siblings keeps their parent
  closed. `Due` excuses what is over the cap.
- A pool full of drawn chunks refuses every rebuild for ever, since new pages are
  taken before the old are given back and nothing that was marked is evicted; the
  comment promises "evictions recover enough pages for every refused rebuild".
- A child found empty is not marked when its result lands, unlike one found ready,
  so a slow sibling can outlive it.
- The sun's cut, taken after the results of a tick, may be of other levels than the
  camera's for one frame. `CutIsWhole` asks that it lacks no ground.

## 5. Proofs

All proofs are checked from nothing, with no assumption but the named `ASSUME`s
of the modules: what sets the constants range over (`Regions` and `Pieces` are finite), that
`None` is none of the values it is told apart from, that the streamer's sizes are naturals, some of them positive, `ConsolidateAtOps <=
MaxRegionOps < 2 * ConsolidateAtOps` as 192 and 256, that any set of
tables has a first (they are numbered), and that the chunks of the far field are an
octree (`OctreeAssumption`: two chunks are disjoint or one holds the other, the nearest
around a chunk is its parent, and the children cover it).

Some theorems carry a hypothesis in their statement as well. Each excludes a case in
which the code does not keep the property; §4 describes them.
- `MeshesShowEveryEdit`, `BakingIsInvisible`, `AtlasShowsEveryEdit`:
  `NoLoadBehindFailure`, a region is not loaded between the failure of its publication and
  the pump's hearing of it. `AtlasShowsEveryEdit` also: `NoReloadUnderPublication`.
  Streaming, failures of every kind and reloads at other times are allowed.
- The LoD system: `ReloadsAlone` (a world that is reloaded has no islands) everywhere;
  `ReloadsMeetNoEdit` for the tree's edits and the cut, `ReloadsMeetNoFailure` for the
  cut. A reload while a batch is out is what they are about: without it, none of them is
  needed. For the shell nothing else is excluded; what it loses is in the property.

**`EditSafety`**: typing, `AtomicWhole`, `CapHolds`, `BakedBeforeLogged`, for
any regions, cap and footprints. `AtomicWhole` is not inductive: that the rest
of a batch will land rests on the preflight still being true of what remains
(`RestFits`), which in turn is kept because appending the first operation takes
one from each footprint count it adds to a list (`AddsOfTail`).
`BakedBeforeLogged` needs that a list holds only what it took.

**`ConsTypeSafety`** and **`ConsImplementsEditPipeline`**: the state of
the coordinator stays typed, and seen through its log every behaviour of
`Consolidation` is one of `EditPipeline`, so that `EditSafety` carries over. The
step that needs an argument is the commit, which cuts at a number read with the
snapshot: the transaction holds the list it took, and that list had a last edit
(`TxSound`, `ListsEnd`), so the number was handed out.

**`PoolsLeakNothing`**: a slot has one brick, a table one region, and what is
held outside a region with a table is what the transaction in flight wrote down as
new (`TxOwns`). A refusal gives back exactly that, so that nothing leaks and nothing
of the region's old base is given away with it.

**`QueueIsSound`**, **`NoLongListForgotten`**: without a hypothesis, for any number of
regions and any queue. A region waits once, not while it is in flight, with a list as
long as the threshold. The bound of the queue holds with a refused region on its way
back, which makes the code's unchecked insertion at the head right. An edit queues the
first of the regions that became ready; that one left out means a full queue is an
argument about the least of those left out, whose predecessors are all in the queue.
What a commit leaves is shorter than the threshold, as the
snapshot had at least the threshold and a list has less than twice that.

**`MeshesShowEveryEdit`**, **`BakingIsInvisible`**, **`AtlasShowsEveryEdit`**: the
three readers. The CPU store and the atlas follow the transaction step by step. The
worker may be ahead of both, since a publication that went through is refused
if its region moved in the meantime, and nobody takes it back from the worker.
`WorkerTables` and `WorkerRows` say that this is so for one region only: the one in
flight or, when nothing is, the head of the queue. A refused region goes back
to the head, so the next transaction is of it; until that commits, no other takes the
slots that the worker still reads. What a load gives the worker of the region in flight is
rows whose slots are not filled, and the publication behind it fills them all
(`Unfilled`). `BakingIsInvisible` is the refinement of
`WorldEdits` and says of what the store is committed to that no step but an
accepted edit changes a field.

**`BatchesKeepTheirPlace`**, **`SpoiledBytesServeNobody`**, **`DataComesFirst`**:
the mesh service, for any number of requests, from one invariant. An answer that says
the worker is spoiled is a publication's, lies there while nobody has repaired the
worker, and has no publication queued behind it (`SpoiledAnswers`). `Covered` says
where a piece of data can be between the call that hands it over and the pools. The
numbers order the two queues: data handed over before a job has a smaller number,
and the worker takes all of the data before it takes a job.

**`BodiesFollowTheirChunk`**, **`SettledChunksAreTrue`**, **`BodiesOnlyAdvance`**:
the colliders, for any pool, players and edits. `OneBuild` says that a chunk in
`inFlight` has one build in one of five places, and that no other build can start.
`MeshesAge` compares that build with the field: it is of the field as it is, if the
chunk still waits for it and was not edited since the last drain; and it is newer
than the bodies it replaces. `BodiesOnlyAdvance` is the action property from the same
invariant.

**`NoStampClaimsTooMuch`**, **`SightIsKept`**: the occupancy hand-over, for any regions, slabs,
reads and hosts. Between two frames the GPU hides no edits but those still queued,
nothing of a region that is not resident is left, and every stamp under way is
at most the edit sequence with bytes that show all edits up to it, but for refused
bricks; and of these there is word (`Between`, `Heard`, `StampsOk`). Inside a frame the
queue is taken, and each edit that is still hidden has its request or its job, or its
region is to be marked again (`Inside`, `ToCome`); so the jobs, run in order, leave
nothing hidden of a region they mark but what they refuse, which sets the word
(`MarksStay`), and the stamp of each is the edit sequence. The pool has all operations of a
resident region but those still queued, or is about to get them (`PoolIsWhole`), which
is why a job that uploads nothing may be stamped. `SightIsKept` follows with
`set_block`'s comparison of stamps: an older block is dropped, one that is as new shows all
the grid vouches for.
The harvest, the requests, the marks, the notes and the inbox are recursive functions over
sequences in the model. Their proofs are inductions: `LeastNatural` and `SetInduction`
take the least counterexample from the well-foundedness of the naturals, `FoldExists` and
`FoldStays` carry that to a recursion and a set for each of its steps.

**`SlotAccounting`**, **`CarvesAreExact`**, **`PastedBytesStay`**: the islands, for any
pieces, pools, bodies and hosts. No slot is held twice, but by a body and the resample
that reuses its slot (`HeldOnce`), and a slot is in use if and only if it is held
(`UsedIsHeld`); a resample lands alone, and its body lives until then
(`MergesHaveBodies`), since only the one landing after it can take the body away. A copy is
of the field as it is, or an edit came after it (`CopiesAge`), so that the comparison of
edit numbers suffices for a carve to be exact. The bytes need more: what an upload is of
(`UploadsAreOf`), that the last upload of a pasted slot is the paste's and no free of its
normals is queued behind it, unless the pool has refused its normals since
(`PastesKept`), and that while results land nothing
but a body's own paste writes a slot published when the frame began
(`LandingSparesDescs`). The teardown keeps of the queued uploads the pasted ones, in no
order: each slot has one paste, so its bytes are the same in any.

**`LodPool`**, **`LodPages`**: the pages of the far field, for any octree, shell, views and
pool. No two lists share a page, a list has none twice, and the sizes add up to the
pool (`Sound`). An upload takes new pages before the old are given back, and a release
passes over what is free already, so the count is kept only because the lists share nothing.
Results and evictions are folds in the model; `LandsStay` and `SetFoldStays` carry what
one step of each keeps through all of them, in any order of evictions.

**`LodTree`**, **`LodTreeEdits`**, **`LodShell`**, **`LodEdits`**: what is drawn of a chunk
is the field as it is, or the system knows that it is not. `Honest`: a node without a flag
or a mark shows the field. That does not survive the landing of a result unless the
result is known to be fresh, so the invariant follows the build: where the node says
*building*, there is one answer under way and no second (`Lone`), in the batch or
among the results, and if the chunk was not marked since, it has the field as it is
(`Fresh`). For requests to stay single, those that wait for the second half of a tick name no chunk
twice and none that is being built. In a world with reloads nothing is edited, so
whatever comes back from before a reload is fresh too. The shell has no *building* flag and drops nodes
when the camera moves; there the state stands in for the flag (`Place`), and an answer
must be known to be of the chunk as it was listed last: so it is for every chunk that is not
`relisted`, in worlds where the camera moves, the ground is painted, builds fail and the
shaders are reloaded. A chunk that waits and of which no answer is out is in a world
where builds fail.

**`LodCut`**: for an octree of any depth, what a frame draws is one picture of the
ground. No overlap: of two chunks drawn, neither is above the other, since what is above a
drawn chunk is open. No hole: of the chunks over a piece of ground whose ancestors are all
open there is a deepest, and it is drawn, out of sight or empty, as no chunk opens
before its children are there (`WayDown`; the argument counts ancestors). Results and
evictions come between the walk and the drawing, so all of this has to be carried
across them: what was ready is ready or found empty, what was empty stays so, what the
walk visited is not evicted (`Kept`, `LandingKept`, `VisitedKept`). The landing of an
empty result on a chunk that is drawn, and of a failed one on an empty chunk, are where
it needs `TreeInv`.

**`StreamerHoles`**, **`StreamerMap`**, **`StreamerPrices`**, **`StreamerScatter`**:
the streamer, for any regions, atlas, slabs, budgets and hosts, from one invariant
(`StreamerInvariant`). A frame is one action of a dozen operators, most of them
folds over what the one before computed. For each there is a lemma that says what the
invariant needs of it, so that `OutcomeFacts` has only to put them together.
`HolesAreKnown` is about regions on the map and is not inductive: when the last slab of a
region comes in, all its bricks appear at once. `MissingIsKnown` says it of every
resident region, on the map or not, with one more place for a brick to be: with a region
on its way in, tagged by the probe or due to be marked, in a slab not in yet. It is kept
by the order in which a frame does things: the plan vacates slots before anything is
marked, a probe comes before the allocation, a restage starts from slab 0, and where the
GPU had to drop something the word says so, until a read takes it along; the word is
cleared only if that read went out, and there is one at a time (`OneReport`), so none that
lands covers a report not looked at. `PricesCover` needs that a slot has one tenant
(`Tenants`), that counts start over with it (`Tallied`), and that what is under way loses
the regions that leave the queue (`Vouched`). For the scatter, a frame whose count is 0
loads, evicts, schedules and keeps waiting nothing, so its jobs are marks of resident
regions, which take no slot away (`QuietFrame`).

**`RangesAreSound`**, **`RoomIsFound`**, **`HandlesStayFresh`**: the
allocator, for any budget, unit, sizes and alignments. The invariant joins
that ranges do not overlap, that blocks do not touch and that each byte
is covered, because each is kept by a release only with the help of the others.
`RoomIsFound` needs no induction over the free list: were an aligned free run
not inside one block, the byte behind the block its first byte lies in would be
of a block that touches it. `RoundUpIsFirst` is the arithmetic of `align_up`.

**`NothingOutlivesItsGraph`**: for any sectors and bounds, with one thread or
two. The invariant says where each wait of the main thread stands: from the drain
on admission is closed, no callback was counted that is not in `pc`, behind the drain
no callback is under way and none can begin, a queued call means main waits for it, and
`done` is only seen after the call that set it was taken. The flag is reset before
the call is queued, and the proof needs it there.

**`ReadersHaveGround`**: for any sectors, regions, radii and places that
satisfy `SectorAssumption`. For the regions, the gate and the eviction are of the
same camera, and a region kept is within the cache's radius. For the worker, the
invariant spans its sync: what a job is owed is resident and near the camera of the
last plan, whatever the render thread did since the gate was asked; so the
snapshot, taken at any later time, has it, and the window around the centre read
before the snapshot shows it (`WindowHoldsNear`). A worker whose stored version is
the cache's has the layers the cache has, so it may go without a sync.

**Model-checked only.** Liveness (fairness and `ENABLED` are outside the
prover's reach): `TransactionEnds`, `WaitingIsBaked`, `SyncEnds`,
`EveryBatchIsAnswered`, `CollidersCatchUp`, `EditsReachTheGrid`, `LeavingEnds`,
`GroundArrives`, `FarFieldCatchesUp` and their like. No module declares a recursive
operator.

## 6. Not modelled, and why

- Float and byte arithmetic: distance functions, dual contouring, packing,
  shading, shaders. A brick is the set of edits in it instead. This, the test
  drivers of `debug/` and the passes that record GPU commands are most of what
  has no module. Passes keep state beyond a frame for the scatter (modelled), the
  sun cache's sweep and the occlusion read (not modelled).
- Consolidation: `force_region` and `set_held` (debug and test hooks); stored
  normals inside a bake; the *hint* of a region slot (tags decide); the partial
  progress of a restore that fails; an upload to the atlas that fails in a rollback
  (`override_pool.cpp:78`: only where there is no valid pool to show, where the upload
  it takes back failed as well); the release of override tables on
  `_exit_tree`, after which nothing reads. Unreachable in the code within one life
  of the tree, so absent: `acquire` failing after the preflight of slots, a refused
  publication submission, an empty snapshot. The `queue` call at the end of a
  commit can never reach the threshold (`MaxRegionOps < 2 * ConsolidateAtOps`).
- Colliders: `set_space`. The gate is any answer here; what it asks, and what a
  probe of a sector not yet generated reads, is in `SectorCache`. An edit
  between two probes of one plan commutes with them, so a plan is one step.
- Streamer: the unpaced mode of the test drivers, the region window, the preview of
  an edit. Edits only add surface; of equal prices the lowest brick goes
  first; the gate is a region held back for a frame. Edits inside a
  frame are in `OccupancyHandover`.
- Islands: debug calls, bubbles, statistics, the lattices of copies and
  resamples; branches that need a manager without store or edit log.
- LoD: sectors held by the far field, the cap on requests per walk (the
  instances ask for less), what a chunk's record holds (that records run out is modelled;
  in the instance they do so together with the pages, in the proofs at any number),
  the delay before an occluded chunk counts as hidden (it is an input), the coarsest level of the
  raster mode; contouring, skirts, culling; chunks partly hidden. The instance has two
  levels, since the rules are between a chunk and its children; `LodCut` is for any depth.
- Sectors: the slope and its warning, the mirror's capacity, `clear`, the change of the radius.
  A gate and the probes behind it are one step: the sectors a probe reads are kept
  by every plan for the same camera.
- Orchestrator: `use_local_device` (tests), a second shutdown by hand, the deferred
  teardown of the hooks, the order in which the passes are freed.
- Connectivity: labelling and flood fill are pure functions of the grid; what the
  search finds is an input of `Islands`.

`PROJECT.json` names the parts that have no module at all, with the reason.

## 7. Plan

1. The stored normal pool over the allocator's operators; capacity of the sector
   mirror.
2. Box merging and flood fill against reference definitions.

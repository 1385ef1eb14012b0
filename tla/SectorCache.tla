----------------------------- MODULE SectorCache -----------------------------
(***************************************************************************)
(* A terrain with a map stage is baked sector by sector on the GPU.  The   *)
(* host cache (terrain/sector_cache.cpp) says which sectors are resident,  *)
(* which are being baked and which the camera wants; the render thread     *)
(* dispatches the bakes and reads them back frames later                   *)
(* (render/sector_context.cpp); every device keeps a mirror of the cache   *)
(* (render/sector_mirror.cpp), one in the render graph and one at the      *)
(* mesh worker.  A reader that finds no sector is given air, and so what   *)
(* is baked into a store has to wait: regions of the streamer behind the   *)
(* gate of render/orchestrator.cpp, probes and builds of the colliders     *)
(* behind the gate of physics/collider_streamer.cpp.                       *)
(*                                                                         *)
(* Sectors, regions and places lie on a line.  Only the render thread      *)
(* changes the cache; the main thread and the worker read it between any   *)
(* two of its steps.  When a render frame runs, and when the graph comes   *)
(* and goes, is said by RenderLifetime.                                    *)
(***************************************************************************)
EXTENDS Integers, FiniteSets, FiniteSetsExt

CONSTANTS
  Size,         \* kSectorSizeM
  Radius,       \* radius_m: sectors this near to the camera are wanted
  Origin,       \* the camera of a cache nothing was planned for yet
  Places,       \* where the player, and the camera with it, may be
  Bubble,       \* how far around the player colliders are wanted
  Regions,      \* the regions of the streamer, by their left ends
  Width,        \* kRegionSize
  Reach,        \* residency radius: regions this near are loaded
  Keep,         \* ... and evicted beyond this
  Ring,         \* SectorContext::kRing
  BakesAFrame,  \* bakes_per_frame_
  Window,       \* kSectorWindow / 2 - 1, in sectors
  MaxMoves,     \* bound of the model: moves of the player
  MaxFailures,  \* bound of the model: bakes, reads, starts that fail
  None

(* Where a sector ends and how far it is from a point.                     *)
SectorOf(x) == x \div Size
SectorDistance(s, x) == Max({0, s * Size - x, x - (s + 1) * Size})
RegionDistance(r, x) == Max({0, r - x, x - (r + Width)})

(* The sectors that overlap an interval.                                   *)
Touching(lo, hi) == SectorOf(lo)..SectorOf(hi)

(* A metre of margin: brick generation samples a voxel past the faces.     *)
SectorsOfRegion(r) == Touching(r - 1, r + Width + 1)
SectorsOfBall(p) == Touching(p - Bubble, p + Bubble)

(* The shipping numbers: 96 m of regions within 4000 m of sectors of       *)
(* 409.6 m, and a window that holds all the cache may keep.                *)
ASSUME SectorAssumption ==
  /\ Size \in Nat \ {0} /\ Radius \in Nat /\ Bubble \in Nat /\ Width \in Nat \ {0}
  /\ Origin \in Int /\ Places \subseteq Int /\ IsFiniteSet(Places)
  /\ Regions \subseteq Int /\ IsFiniteSet(Regions)
  /\ Reach \in Nat /\ Keep \in Nat /\ Reach <= Keep
  /\ Ring \in Nat \ {0} /\ BakesAFrame \in Nat \ {0} /\ Window \in Nat
  /\ MaxMoves \in Nat /\ MaxFailures \in Nat
  /\ Window * Size > Radius + Size
  /\ \A p \in Places : \A s \in SectorsOfBall(p) : SectorDistance(s, p) <= Radius
  /\ \A p \in Places : \A r \in Regions : RegionDistance(r, p) <= Keep =>
       \A s \in SectorsOfRegion(r) : SectorDistance(s, p) <= Radius

VARIABLES
  eye,        \* where the player and the camera are
  view,       \* cam_fx_: the camera of the last plan
  resident,   \* resident_
  inFlight,   \* in_flight_: bakes asked for
  ring,       \* ring_: the bakes dispatched, [sector, read]
  mirror,     \* the layers of the render graph's mirror
  regions,    \* the regions the streamer has generated
  verdicts,   \* by place, what the collider's probe of it said
  worker,     \* the mesh worker: its mirror and the job it has
  moves,      \* how often the player moved
  failures,   \* how many bakes, reads and starts failed
  dropped     \* history: the bakes a teardown threw away

cache == <<view, resident, inFlight>>
gpu == <<ring, mirror, regions, dropped>>
sectorVars == <<eye, view, resident, inFlight, ring, mirror, regions, verdicts, worker,
                moves, failures, dropped>>

-----------------------------------------------------------------------------

(* needed_locked: the wanted sectors of a set.  Those beyond the radius    *)
(* are never baked, and nothing waits for them.                            *)
Needed(sectors, camera) == {s \in sectors : SectorDistance(s, camera) <= Radius}

(* ready_world: what the colliders ask before they plan.                   *)
ReadyWorld(sectors) == Needed(sectors, view) \subseteq resident

(* The region gate: an empty set is no answer, the cache has yet to follow *)
(* the camera.                                                             *)
RegionGate(r, camera, layers) ==
  /\ Needed(SectorsOfRegion(r), camera) # {}
  /\ Needed(SectorsOfRegion(r), camera) \subseteq layers

(* The mesh worker as it starts: nothing mirrored, nothing to do.          *)
NewWorker == [at |-> "idle", layers |-> {}, centre |-> None, current |-> FALSE,
              seen |-> None, fresh |-> FALSE, job |-> {}]

SectorInit ==
  /\ eye \in Places
  /\ view = Origin
  /\ resident = {} /\ inFlight = {}
  /\ ring = {} /\ mirror = {} /\ regions = {}
  /\ verdicts = [p \in Places |-> "unknown"]
  /\ worker = NewWorker
  /\ moves = 0 /\ failures = 0 /\ dropped = {}

-----------------------------------------------------------------------------
(* The cache's version goes up with every insertion and eviction.  What    *)
(* the worker knows of it is whether the version it stored, or has just    *)
(* read, is still the cache's.  job is what is owed to the job: the        *)
(* sectors the gate asked for when it was submitted, less those that were  *)
(* evicted since.                                                          *)
Outdated(evicted) ==
  [worker EXCEPT !.current = FALSE, !.fresh = FALSE, !.job = @ \ evicted]

(* The device runs the callback of a read, between two render frames.      *)
Landing ==
  \E b \in ring, read \in {"landed", "short"} :
    /\ b.read = "out"
    /\ read = "short" => failures < MaxFailures
    /\ failures' = IF read = "short" THEN failures + 1 ELSE failures
    /\ ring' = (ring \ {b}) \cup {[b EXCEPT !.read = read]}
    /\ UNCHANGED <<eye, cache, mirror, regions, verdicts, worker, moves, dropped>>

(* Seeded fault: a short read is thrown away and nobody is told.           *)
AfterReadShortForgotten(b) ==
  IF b.read = "short" THEN inFlight ELSE inFlight \ {b.sector}

(* insert and abandon: either way the bake is no longer under way.         *)
AfterRead(b) == inFlight \ {b.sector}

(* run_frame's first loop, a read at a time: insert, or abandon.           *)
HarvestRead ==
  \E b \in ring :
    /\ b.read # "out"
    /\ ring' = ring \ {b}
    /\ inFlight' = AfterRead(b)
    /\ IF b.read = "landed"
       THEN resident' = resident \cup {b.sector} /\ worker' = Outdated({})
       ELSE UNCHANGED <<resident, worker>>
    /\ UNCHANGED <<eye, view, mirror, regions, verdicts, moves, failures, dropped>>

(* The sectors plan() looks at around a camera.                            *)
Scanned(camera) ==
  LET reach == (Radius + Size - 1) \div Size + 1
  IN (SectorOf(camera) - reach)..(SectorOf(camera) + reach)

Wanted(camera, kept) == Needed(Scanned(camera), camera) \ (kept \cup inFlight)

(* Nearest first, the lower coordinate of two as near.                     *)
Before(s, t, camera) ==
  \/ SectorDistance(s, camera) < SectorDistance(t, camera)
  \/ SectorDistance(s, camera) = SectorDistance(t, camera) /\ s < t

Nearest(sectors, camera, n) ==
  {s \in sectors : Cardinality({t \in sectors : Before(t, s, camera)}) < n}

(* What the cache keeps around a camera, and what the streamer then does.  *)
Kept(camera) == {s \in resident : SectorDistance(s, camera) <= Radius + Size}

Streamed(camera, layers) ==
  {r \in regions : RegionDistance(r, camera) <= Keep} \cup
  {r \in Regions : RegionDistance(r, camera) <= Reach /\ RegionGate(r, camera, layers)}

(* The rest of the frame: plan, dispatch - a bake whose dispatch or read   *)
(* request fails is abandoned -, the sync of the render graph's mirror,    *)
(* and the streamer, with the same camera.                                 *)
SectorFrame ==
  /\ \A b \in ring : b.read = "out"
  /\ LET kept == Kept(eye)
         free == Ring - Cardinality(ring)
         bakes == Nearest(Wanted(eye, kept), eye, Min({free, BakesAFrame}))
     IN \E lost \in SUBSET bakes :
          /\ failures + Cardinality(lost) <= MaxFailures
          /\ failures' = failures + Cardinality(lost)
          /\ view' = eye
          /\ resident' = kept
          /\ inFlight' = inFlight \cup (bakes \ lost)
          /\ ring' = ring \cup {[sector |-> s, read |-> "out"] : s \in bakes \ lost}
          /\ mirror' = kept
          /\ regions' = Streamed(eye, kept)
          /\ worker' = IF kept = resident THEN worker ELSE Outdated(resident \ kept)
  /\ UNCHANGED <<eye, verdicts, moves, dropped>>

(* What becomes of the render graph's share: the reads are drained, which  *)
(* only fills buffers nobody looks at any more, and the slots of the       *)
(* regions are given back.  The cache stays, and what it believes under    *)
(* way with it.                                                            *)
DropGraph ==
  /\ ring' = {} /\ mirror' = {} /\ regions' = {}
  /\ dropped' = dropped \cup {b.sector : b \in ring}

-----------------------------------------------------------------------------
(* The main thread: the player moves, physics ticks.                       *)

Wander ==
  /\ moves < MaxMoves
  /\ \E p \in Places \ {eye} : eye' = p
  /\ moves' = moves + 1
  /\ UNCHANGED <<cache, gpu, verdicts, worker, failures>>

(* ChunkResidency::update behind the sector gate: a place that was not     *)
(* probed is, through the host's field, and an edit may have made it dirty *)
(* so that it is built.  Verdicts of places far away are forgotten.        *)
Probe(p) == IF SectorsOfBall(p) \subseteq resident THEN "ground" ELSE "air"

PhysicsTick ==
  /\ ReadyWorld(SectorsOfBall(eye))
  /\ LET verdict == IF verdicts[eye] = "unknown" THEN Probe(eye) ELSE verdicts[eye]
     IN /\ verdicts' = [p \in Places |-> IF p = eye THEN verdict ELSE "unknown"]
        /\ \/ UNCHANGED worker
           \/ /\ verdict = "ground" /\ worker.at = "idle"
              /\ worker' = [worker EXCEPT !.at = "queued",
                                          !.job = Needed(SectorsOfBall(eye), view)]
  /\ UNCHANGED <<eye, cache, gpu, moves, failures>>

-----------------------------------------------------------------------------
(* The worker, in SectorMirror::sync: unless version and centre are those  *)
(* of the last sync, the version first, then the snapshot.                 *)

UpToDate == worker.current /\ worker.centre = SectorOf(view)

WorkerTakesJob ==
  /\ worker.at = "queued"
  /\ worker' = [worker EXCEPT !.at = IF UpToDate THEN "run" ELSE "sync"]
  /\ UNCHANGED <<eye, cache, gpu, verdicts, moves, failures>>

(* Seeded fault: the snapshot first, then the version.                     *)
SyncSnapshotFirst ==
  \/ /\ worker.at = "sync"
     /\ worker' = [worker EXCEPT !.at = "synced", !.layers = resident, !.seen = SectorOf(view)]
  \/ /\ worker.at = "synced"
     /\ worker' = [worker EXCEPT !.at = "run", !.centre = worker.seen, !.current = TRUE]

(* An insertion between the two leaves the stored version older than the   *)
(* bytes, and the next sync runs again.                                    *)
Sync ==
  \/ /\ worker.at = "sync"
     /\ worker' = [worker EXCEPT !.at = "synced", !.fresh = TRUE, !.seen = SectorOf(view)]
  \/ /\ worker.at = "synced"
     /\ worker' = [worker EXCEPT !.at = "run", !.layers = resident, !.centre = worker.seen,
                                 !.current = worker.fresh]

WorkerSyncs == Sync /\ UNCHANGED <<eye, cache, gpu, verdicts, moves, failures>>

WorkerRunsJob ==
  /\ worker.at = "run"
  /\ worker' = [worker EXCEPT !.at = "idle", !.job = {}]
  /\ UNCHANGED <<eye, cache, gpu, verdicts, moves, failures>>

(* Devices find a sector only through the window around the centre.        *)
SeenByWorker ==
  {s \in worker.layers : worker.centre - Window <= s /\ s <= worker.centre + Window}

WorkerSteps == WorkerTakesJob \/ WorkerSyncs \/ WorkerRunsJob

-----------------------------------------------------------------------------
(* Properties.                                                             *)

(* Nothing that was let through a gate finds its ground gone: the sectors  *)
(* of every generated region are in the mirror the generator reads, and a  *)
(* job of the worker, when it runs, finds each sector the gate asked for   *)
(* when it was submitted and that was not evicted since - whatever the     *)
(* render thread did between the two reads of the worker's sync            *)
(* (orchestrator.cpp:299, sector_mirror.cpp:69, mesh_service.cpp:641).     *)
GroundUnderReaders ==
  /\ \A r \in regions : SectorsOfRegion(r) \subseteq mirror
  /\ worker.at = "run" => worker.job \subseteq SeenByWorker

(* Nothing is probed, or built, over a sector that is not resident: what   *)
(* the collider streamer takes for air is air (tests/test_sector_gating.gd *)
(* on collider_streamer.cpp:566).                                          *)
NothingBakesAir == \A p \in Places : verdicts[p] # "air"

(* The regions around a place are there and its chunk has been probed.     *)
Arrived(p) ==
  /\ \A r \in Regions : RegionDistance(r, p) <= Reach => r \in regions
  /\ verdicts[p] # "unknown"

(* A bake of one of its sectors was thrown away, which the cache goes on   *)
(* waiting for.                                                            *)
Orphaned(p) == \E s \in dropped : SectorDistance(s, p) <= Radius
=============================================================================

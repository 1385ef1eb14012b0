------------------------- MODULE RenderLifetimeProofs -------------------------
(***************************************************************************)
(* Lifetimes nest, and what passed a gate finds its ground, whatever the   *)
(* sectors, places and bounds are.                                         *)
(***************************************************************************)
EXTENDS RenderLifetime, TLAPS

-----------------------------------------------------------------------------
(* Lifetimes                                                               *)

(* Where the two threads are in the shutdown.  A callback is one of one    *)
(* render thread; admission is open until main leaves; once main has seen  *)
(* the callbacks end, none begins.                                         *)
Admission ==
  /\ callbacks = IF pc = "idle" THEN 0 ELSE 1
  /\ open => main = "run"
  /\ pc # "idle" => main \in {"run", "drain"}

(* A call is queued only while main waits for it, and the flag main waits  *)
(* for says of this call, not of an earlier one, that the graph is gone.   *)
HandedOver ==
  /\ call => main = "wait"
  /\ main = "queue" => ~done
  /\ main = "wait" /\ done => ~graph /\ ~call
  /\ main \in {"physics", "out"} => ~graph

NestInv ==
  /\ Admission
  /\ HandedOver
  /\ pc = "frame" => graph
  /\ ~graph => ring = {} /\ mirror = {} /\ regions = {}
  /\ main = "out" => worker.at = "off"

(* A world that is not yet in the tree has nothing to nest.                *)
LEMMA NestInvInit == Init => NestInv
BY DEF Init, SectorInit, NestInv, Admission, HandedOver

(* The invariant on the waits says more than the property.                 *)
LEMMA NestInvHolds == NestInv => LifetimesNest
BY DEF NestInv, Admission, HandedOver, LifetimesNest

(* The steps of a callback.                                                *)
LEMMA RenderKeepsNest == NestInv /\ (BeginCallback \/ Render \/ Land) => NestInv'
<1> SUFFICES ASSUME NestInv, BeginCallback \/ Render \/ Land PROVE NestInv'
  OBVIOUS
<1> USE DEF NestInv, Admission, HandedOver, lifetime
<1>1. CASE BeginCallback
  BY <1>1 DEF BeginCallback, sectorVars
<1>2. CASE PumpReload
  BY <1>2 DEF PumpReload, DropGraph, gpu
<1>3. CASE EnsureInitialized
  BY <1>3 DEF EnsureInitialized, gpu
<1>4. CASE Harvest
  BY <1>4 DEF Harvest, HarvestRead
<1>5. CASE DrawFrame
  BY <1>5 DEF DrawFrame, SectorFrame
<1>6. CASE EndCallback
  BY <1>6 DEF EndCallback, sectorVars
<1>7. CASE TeardownOnRenderThread
  BY <1>7 DEF TeardownOnRenderThread, DropGraph
<1>8. CASE Land
  <2>1. ring # {} /\ UNCHANGED <<mirror, regions, worker, lifetime>>
    BY <1>8 DEF Land, Landing
  <2> QED BY <2>1
<1> QED
  BY <1>1, <1>2, <1>3, <1>4, <1>5, <1>6, <1>7, <1>8 DEF Render

(* The steps of the main thread and of the worker.                         *)
LEMMA MainKeepsNest ==
  NestInv /\ (Move \/ Tick \/ RequestReload \/ CloseAdmission \/ Leave \/ RunWorker)
    => NestInv'
<1> SUFFICES ASSUME NestInv,
                    Move \/ Tick \/ RequestReload \/ CloseAdmission \/ Leave \/ RunWorker
             PROVE NestInv'
  OBVIOUS
<1> USE DEF NestInv, Admission, HandedOver, lifetime, gpu
<1>1. CASE Move
  BY <1>1 DEF Move, Wander
<1>2. CASE Tick
  BY <1>2 DEF Tick, PhysicsTick
<1>3. CASE RequestReload
  BY <1>3 DEF RequestReload, sectorVars
<1>4. CASE CloseAdmission
  BY <1>4 DEF CloseAdmission, MainOnly, sectorVars
<1>5. CASE DrainCallbacks
  BY <1>5 DEF DrainCallbacks, Drained, MainOnly, DropGraph
<1>6. CASE ForceSync
  BY <1>6 DEF ForceSync, MainOnly, sectorVars
<1>7. CASE HandOverTeardown
  BY <1>7 DEF HandOverTeardown, HandOver, MainOnly, sectorVars
<1>8. CASE AwaitTeardown
  BY <1>8 DEF AwaitTeardown, MainOnly, sectorVars
<1>9. CASE TeardownPhysics
  BY <1>9 DEF TeardownPhysics, MainOnly, NewWorker
<1>10. CASE RunWorker
  <2>1. worker.at # "off" /\ UNCHANGED <<ring, mirror, regions, lifetime>>
    BY <1>10 DEF RunWorker, WorkerSteps, WorkerTakesJob, WorkerSyncs, Sync, WorkerRunsJob
  <2> QED BY <2>1
<1> QED
  BY <1>1, <1>2, <1>3, <1>4, <1>5, <1>6, <1>7, <1>8, <1>9, <1>10 DEF Leave

(* For any sectors, regions, places and bounds, with one thread and with   *)
(* two: nothing outlives its graph, and whatever a callback was at when    *)
(* the world left, no callback, graph or queued teardown is left behind    *)
(* (orchestrator.cpp:594, voxel_world.cpp:567).                            *)
THEOREM NothingOutlivesItsGraph == Spec => []LifetimesNest
<1>1. NestInv /\ [Next]_vars => NestInv'
  <2>1. NestInv /\ UNCHANGED vars => NestInv'
    BY DEF vars, lifetime, sectorVars, NestInv, Admission, HandedOver
  <2> QED BY <2>1, RenderKeepsNest, MainKeepsNest DEF Next
<1> QED BY <1>1, NestInvInit, NestInvHolds, PTL DEF Spec

-----------------------------------------------------------------------------
(***************************************************************************)
(* What a gate let through finds its ground, whatever the sectors, places  *)
(* and bounds are.                                                         *)
(*                                                                         *)
(* For the regions the argument is within the frame: what the render graph *)
(* mirrors is resident, and what a region needs is near enough to be kept  *)
(* for as long as the region is.  For a job of the worker it spans the     *)
(* steps of the sync: the sectors of the job stay near the camera of the   *)
(* last plan, so the window around the centre read first has them, and     *)
(* they stay resident, so the snapshot taken later has them too.           *)
(***************************************************************************)

IndexReads == [sector : Int, read : {"out", "landed", "short"}]

Workers == [at : {"idle", "queued", "sync", "synced", "run", "off"}, layers : SUBSET Int,
            centre : Int \cup {None}, current : BOOLEAN, seen : Int \cup {None},
            fresh : BOOLEAN, job : SUBSET Int]

SectorType ==
  /\ eye \in Places /\ view \in Int
  /\ resident \subseteq Int /\ mirror \subseteq resident
  /\ regions \subseteq Regions
  /\ ring \subseteq IndexReads
  /\ worker \in Workers

(* Near enough to a camera to be kept, and what a window then shows.       *)
Near(S, camera) == \A s \in S : SectorDistance(s, camera) <= Radius + Size
InWindow(S, centre) == centre \in Int /\ \A s \in S : centre - Window <= s /\ s <= centre + Window

JobInv ==
  /\ worker.job \subseteq resident
  /\ Near(worker.job, view)
  /\ worker.current => worker.layers = resident
  /\ worker.at = "synced" => InWindow(worker.job, worker.seen)
  /\ worker.at = "run" => worker.job \subseteq worker.layers /\ InWindow(worker.job, worker.centre)

RegionInv == \A r \in regions : SectorsOfRegion(r) \subseteq mirror

GroundInv == SectorType /\ JobInv /\ RegionInv

-----------------------------------------------------------------------------
(* Distances                                                               *)

LEMMA SectorOfInt == ASSUME NEW x \in Int PROVE SectorOf(x) \in Int
BY SectorAssumption, Z3 DEF SectorOf

(* The distance of a region is the larger of two differences.              *)
LEMMA DistanceIsMax ==
  ASSUME NEW a \in Int, NEW b \in Int
  PROVE  /\ Max({0, a, b}) \in Int
         /\ Max({0, a, b}) >= a /\ Max({0, a, b}) >= b
<1> DEFINE S == {0, a, b}
<1>1. \E x \in S : \A y \in S : x >= y
  <2>1. CASE a >= b /\ a >= 0
    BY <2>1
  <2>2. CASE b >= a /\ b >= 0
    BY <2>2
  <2>3. CASE 0 >= a /\ 0 >= b
    BY <2>3
  <2> QED BY <2>1, <2>2, <2>3
<1>2. Max(S) \in S /\ \A y \in S : Max(S) >= y
  BY <1>1 DEF Max
<1> QED BY <1>2

(* Distances between sectors are integers.                                 *)
LEMMA SectorDistanceInt ==
  ASSUME NEW s \in Int, NEW x \in Int
  PROVE  /\ SectorDistance(s, x) \in Int
         /\ SectorDistance(s, x) >= s * Size - x
         /\ SectorDistance(s, x) >= x - (s + 1) * Size
<1>1. s * Size - x \in Int /\ x - (s + 1) * Size \in Int
  BY SectorAssumption
<1> QED BY <1>1, DistanceIsMax DEF SectorDistance

(* What is near the camera lies in the window around its sector.           *)
LEMMA WindowHoldsNear ==
  ASSUME NEW s \in Int, NEW x \in Int, SectorDistance(s, x) <= Radius + Size
  PROVE  SectorOf(x) - Window <= s /\ s <= SectorOf(x) + Window
<1> DEFINE c == SectorOf(x)
<1>1. c \in Int /\ Size \in Nat \ {0} /\ Window \in Nat /\ Radius \in Nat
  BY SectorAssumption, SectorOfInt
<1>2. c * Size <= x /\ x < (c + 1) * Size
  BY <1>1, Z3 DEF SectorOf
<1>3. s * Size - x < Window * Size /\ x - (s + 1) * Size < Window * Size
  <2> DEFINE d == SectorDistance(s, x)
             a == s * Size
             b == (s + 1) * Size
             w == Window * Size
  <2>1. a \in Int /\ b \in Int /\ w \in Int
    BY <1>1
  <2>2. d \in Int /\ d >= a - x /\ d >= x - b /\ d <= Radius + Size
    BY SectorDistanceInt
  <2>3. Radius + Size < w
    BY SectorAssumption
  <2> HIDE DEF d, a, b, w
  <2>4. a - x < w /\ x - b < w
    BY <1>1, <2>1, <2>2, <2>3
  <2> QED BY <2>4 DEF a, b, w
<1>4. s * Size < (c + 1 + Window) * Size
  BY <1>1, <1>2, <1>3, Z3
<1>5. c * Size < (s + 1 + Window) * Size
  BY <1>1, <1>2, <1>3, Z3
<1>6. s < c + 1 + Window
  BY <1>1, <1>4, Z3
<1>7. c < s + 1 + Window
  BY <1>1, <1>5, Z3
<1> QED BY <1>1, <1>6, <1>7

(* A wanted sector is one the cache keeps.                                 *)
LEMMA WantedIsNear ==
  ASSUME NEW S \in SUBSET Int, NEW x \in Int
  PROVE  Near(Needed(S, x), x)
<1> SUFFICES ASSUME NEW s \in S, SectorDistance(s, x) <= Radius
             PROVE  SectorDistance(s, x) <= Radius + Size
  BY DEF Near, Needed
<1>1. SectorDistance(s, x) \in Int
  BY SectorDistanceInt
<1>2. Radius \in Nat /\ Size \in Nat
  BY SectorAssumption
<1> QED BY <1>1, <1>2

(* Sectors under a region are numbered by integers.                        *)
LEMMA RegionSectors == ASSUME NEW r \in Regions PROVE SectorsOfRegion(r) \subseteq Int
BY SectorAssumption, SectorOfInt DEF SectorsOfRegion, Touching

-----------------------------------------------------------------------------
(* The steps                                                               *)

LEMMA GroundInit == Init => GroundInv
<1> SUFFICES ASSUME Init PROVE GroundInv
  OBVIOUS
<1>1. worker \in Workers /\ worker.job = {} /\ ~worker.current /\ worker.at = "idle"
  BY DEF Init, SectorInit, NewWorker, Workers
<1>2. SectorType
  BY <1>1, SectorAssumption DEF Init, SectorInit, SectorType
<1>3. JobInv
  BY <1>1 DEF JobInv, Near
<1>4. RegionInv
  BY DEF Init, SectorInit, RegionInv
<1> QED BY <1>2, <1>3, <1>4 DEF GroundInv

(* The invariant on the worker's sync says more than the property.         *)
LEMMA GroundHolds == GroundInv => GroundUnderReaders
<1> SUFFICES ASSUME GroundInv, worker.at = "run" PROVE worker.job \subseteq SeenByWorker
  BY DEF GroundInv, RegionInv, GroundUnderReaders
<1> QED BY DEF GroundInv, JobInv, InWindow, SeenByWorker

(* Nothing the invariant is about changes, but the graph may go.           *)
LEMMA GroundKept ==
  ASSUME GroundInv, UNCHANGED <<cache, worker>>, eye' \in Places,
         ring' \subseteq IndexReads,
         \/ UNCHANGED <<mirror, regions>>
         \/ mirror' = {} /\ regions' = {}
  PROVE  GroundInv'
<1>1. SectorType'
  BY DEF GroundInv, SectorType, cache
<1>2. JobInv'
  BY DEF GroundInv, JobInv, Near, InWindow, cache
<1>3. RegionInv'
  BY DEF GroundInv, RegionInv
<1> QED BY <1>1, <1>2, <1>3 DEF GroundInv

(* A read that lands changes neither the cache nor a mirror.               *)
LEMMA LandingKeepsGround == ASSUME GroundInv, Landing PROVE GroundInv'
<1>1. PICK b \in ring, read \in {"landed", "short"} :
        /\ ring' = (ring \ {b}) \cup {[b EXCEPT !.read = read]}
        /\ UNCHANGED <<eye, cache, mirror, regions, worker>>
  BY DEF Landing
<1>2. [b EXCEPT !.read = read] \in IndexReads
  BY DEF GroundInv, SectorType, IndexReads
<1>3. ring' \subseteq IndexReads /\ eye' \in Places
  BY <1>1, <1>2 DEF GroundInv, SectorType
<1> QED BY <1>1, <1>3, GroundKept

(* A cache that changed: the worker knows, and is owed no more than before *)
(* of what is resident and near.                                           *)
LEMMA OutdatedKeepsJob ==
  ASSUME GroundInv, NEW gone, worker' = Outdated(gone), view' \in Int,
         worker.job \ gone \subseteq resident', Near(worker.job \ gone, view')
  PROVE  worker' \in Workers /\ JobInv'
<1>1. worker \in Workers
  BY DEF GroundInv, SectorType
<1>2. worker' = [worker EXCEPT !.current = FALSE, !.fresh = FALSE, !.job = worker.job \ gone]
  BY DEF Outdated
<1>3. /\ worker' \in Workers
      /\ worker'.job = worker.job \ gone /\ ~worker'.current
      /\ worker'.at = worker.at /\ worker'.layers = worker.layers
      /\ worker'.seen = worker.seen /\ worker'.centre = worker.centre
  BY <1>1, <1>2 DEF Workers
<1> QED BY <1>3 DEF GroundInv, JobInv, Near, InWindow

(* A sector that arrives only adds to the cache and outdates the worker.   *)
LEMMA HarvestKeepsGround == ASSUME GroundInv, HarvestRead PROVE GroundInv'
<1>1. PICK b \in ring :
        /\ ring' = ring \ {b}
        /\ IF b.read = "landed"
           THEN resident' = resident \cup {b.sector} /\ worker' = Outdated({})
           ELSE UNCHANGED <<resident, worker>>
        /\ UNCHANGED <<eye, view, mirror, regions>>
  BY DEF HarvestRead
<1>2. b.sector \in Int /\ ring' \subseteq IndexReads
  BY <1>1 DEF GroundInv, SectorType, IndexReads
<1>3. resident \subseteq resident' /\ resident' \subseteq Int
  BY <1>1, <1>2 DEF GroundInv, SectorType
<1>4. worker' \in Workers /\ JobInv'
  <2>1. CASE b.read = "landed"
    BY <1>1, <1>3, <2>1, OutdatedKeepsJob DEF GroundInv, SectorType, JobInv, Near
  <2>2. CASE b.read # "landed"
    BY <1>1, <2>2 DEF GroundInv, SectorType, JobInv, Near, InWindow
  <2> QED BY <2>1, <2>2
<1>5. SectorType'
  BY <1>1, <1>2, <1>3, <1>4 DEF GroundInv, SectorType
<1>6. RegionInv'
  BY <1>1 DEF GroundInv, RegionInv
<1> QED BY <1>4, <1>5, <1>6 DEF GroundInv

(* After the streamer's part of a frame every region has its sectors: a    *)
(* new one by the gate, one that stayed because what is wanted is kept.    *)
LEMMA StreamedHaveGround ==
  ASSUME GroundInv, NEW r \in Streamed(eye, Kept(eye))
  PROVE  r \in Regions /\ SectorsOfRegion(r) \subseteq Kept(eye)
<1>1. eye \in Places /\ eye \in Int /\ r \in Regions
  BY SectorAssumption DEF GroundInv, SectorType, Streamed
<1>2. RegionDistance(r, eye) <= Keep
  <2>1. Reach <= Keep /\ Reach \in Nat /\ Keep \in Nat /\ Width \in Nat /\ r \in Int
    BY <1>1, SectorAssumption
  <2>2. RegionDistance(r, eye) \in Int
    <3>1. r - eye \in Int /\ eye - (r + Width) \in Int
      BY <1>1, <2>1
    <3> QED BY <3>1, DistanceIsMax DEF RegionDistance
  <2> QED BY <2>1, <2>2 DEF Streamed
<1>3. \A s \in SectorsOfRegion(r) : s \in Int /\ SectorDistance(s, eye) <= Radius
  BY <1>1, <1>2, RegionSectors, SectorAssumption
<1>4. CASE r \in regions
  <2>1. SectorsOfRegion(r) \subseteq resident
    BY <1>4 DEF GroundInv, RegionInv, SectorType
  <2>2. Needed(SectorsOfRegion(r), eye) = SectorsOfRegion(r)
    BY <1>3 DEF Needed
  <2>3. Near(SectorsOfRegion(r), eye)
    BY <1>1, <1>3, <2>2, WantedIsNear
  <2> QED BY <1>1, <2>1, <2>3 DEF Near, Kept
<1>5. CASE RegionGate(r, eye, Kept(eye))
  <2>1. SectorsOfRegion(r) = Needed(SectorsOfRegion(r), eye)
    BY <1>3 DEF Needed
  <2> QED BY <1>1, <1>5, <2>1 DEF RegionGate
<1> QED BY <1>4, <1>5 DEF Streamed

(* A frame plans, syncs and streams for one camera.                        *)
LEMMA FrameKeepsGround == ASSUME GroundInv, SectorFrame PROVE GroundInv'
<1> DEFINE kept == Kept(eye)
           bakes == Nearest(Wanted(eye, kept), eye, Min({Ring - Cardinality(ring), BakesAFrame}))
<1>1. PICK lost \in SUBSET bakes :
        /\ view' = eye /\ resident' = kept
        /\ ring' = ring \cup {[sector |-> s, read |-> "out"] : s \in bakes \ lost}
        /\ mirror' = kept /\ regions' = Streamed(eye, kept)
        /\ worker' = IF kept = resident THEN worker ELSE Outdated(resident \ kept)
        /\ UNCHANGED eye
  BY DEF SectorFrame
<1>2. eye \in Int /\ eye \in Places
  BY SectorAssumption DEF GroundInv, SectorType
<1>3. kept \subseteq resident /\ kept \subseteq Int /\ Near(kept, eye)
  BY DEF Kept, Near, GroundInv, SectorType
<1>4. bakes \subseteq Int
  <2>1. Scanned(eye) \subseteq Int
    BY <1>2, SectorOfInt, SectorAssumption DEF Scanned
  <2> QED BY <2>1 DEF Nearest, Wanted, Needed
<1>5. ring' \subseteq IndexReads
  <2>1. \A s \in bakes \ lost : [sector |-> s, read |-> "out"] \in IndexReads
    BY <1>4 DEF IndexReads
  <2>2. ring \subseteq IndexReads
    BY DEF GroundInv, SectorType
  <2> HIDE DEF bakes
  <2> QED BY <1>1, <2>1, <2>2
<1>6. worker' \in Workers /\ JobInv'
  <2>1. CASE kept = resident
    <3>1. worker' = worker /\ view' = eye /\ resident' = resident
      BY <1>1, <2>1
    <3>2. Near(worker.job, eye)
      BY <1>3, <2>1 DEF GroundInv, JobInv, Near
    <3> QED BY <3>1, <3>2 DEF GroundInv, SectorType, JobInv, Near, InWindow
  <2>2. CASE kept # resident
    <3>1. worker.job \ (resident \ kept) \subseteq kept
      BY DEF GroundInv, JobInv
    <3>2. Near(worker.job \ (resident \ kept), eye)
      BY <1>3, <3>1 DEF Near
    <3> QED BY <1>1, <1>2, <2>2, <3>1, <3>2, OutdatedKeepsJob
  <2> QED BY <2>1, <2>2
<1>7. SectorType'
  BY <1>1, <1>2, <1>3, <1>5, <1>6, StreamedHaveGround DEF SectorType
<1>8. RegionInv'
  BY <1>1, StreamedHaveGround DEF RegionInv
<1> QED BY <1>6, <1>7, <1>8 DEF GroundInv

(* A job is owed what its gate found in the cache.                         *)
LEMMA TickKeepsGround == ASSUME GroundInv, PhysicsTick PROVE GroundInv'
<1> DEFINE ball == Needed(SectorsOfBall(eye), view)
<1>1. CASE worker' = worker
  BY <1>1, GroundKept DEF PhysicsTick, gpu, GroundInv, SectorType
<1>2. CASE worker.at = "idle" /\ worker' = [worker EXCEPT !.at = "queued", !.job = ball]
  <2>1. UNCHANGED <<eye, view, resident, ring, mirror, regions>> /\ ball \subseteq resident
    BY DEF PhysicsTick, ReadyWorld, cache, gpu
  <2>2. ball \subseteq Int /\ worker \in Workers
    BY <2>1 DEF GroundInv, SectorType
  <2>3. /\ worker' \in Workers /\ worker'.at = "queued" /\ worker'.job = ball
        /\ worker'.current = worker.current /\ worker'.layers = worker.layers
    BY <1>2, <2>2 DEF Workers
  <2>4. eye \in Int /\ SectorsOfBall(eye) \subseteq Int
    BY SectorAssumption, SectorOfInt DEF GroundInv, SectorType, SectorsOfBall, Touching
  <2>5. Near(ball, view)
    BY <2>4, WantedIsNear DEF GroundInv, SectorType
  <2>6. SectorType'
    BY <2>1, <2>3 DEF GroundInv, SectorType
  <2>7. JobInv'
    BY <2>1, <2>3, <2>5 DEF GroundInv, JobInv, Near
  <2>8. RegionInv'
    BY <2>1 DEF GroundInv, RegionInv
  <2> QED BY <2>6, <2>7, <2>8 DEF GroundInv
<1> QED BY <1>1, <1>2 DEF PhysicsTick

(* The sync: the job is near the camera whose centre is read, and resident *)
(* when the snapshot is taken.                                             *)
LEMMA WorkerKeepsGround == ASSUME GroundInv, WorkerSteps PROVE GroundInv'
<1>1. UNCHANGED <<eye, view, resident, ring, mirror, regions>> /\ worker \in Workers
  BY DEF WorkerSteps, WorkerTakesJob, WorkerSyncs, WorkerRunsJob, cache, gpu, GroundInv, SectorType
<1>2. InWindow(worker.job, SectorOf(view))
  <2>1. view \in Int /\ worker.job \subseteq Int
    BY DEF GroundInv, SectorType, JobInv
  <2> QED BY <2>1, WindowHoldsNear, SectorOfInt DEF GroundInv, JobInv, Near, InWindow
<1>3. SectorOf(view) \in Int
  BY <1>2 DEF InWindow
<1>4. worker' \in Workers /\ JobInv'
  <2>1. CASE WorkerTakesJob
    <3>1. /\ worker' = [worker EXCEPT !.at = IF UpToDate THEN "run" ELSE "sync"]
          /\ worker' \in Workers
      BY <1>1, <2>1 DEF WorkerTakesJob, Workers
    <3>2. CASE UpToDate
      <4>1. worker' = [worker EXCEPT !.at = "run"] /\ worker.centre = SectorOf(view)
            /\ worker.layers = resident
        BY <3>1, <3>2 DEF UpToDate, GroundInv, JobInv
      <4>2. worker'.job = worker.job /\ worker'.layers = resident
            /\ worker'.centre = SectorOf(view) /\ worker'.at = "run"
        BY <1>1, <4>1 DEF Workers
      <4> QED BY <1>1, <1>2, <3>1, <4>2 DEF GroundInv, JobInv, Near, InWindow
    <3>3. CASE ~UpToDate
      <4>1. worker' = [worker EXCEPT !.at = "sync"]
        BY <3>1, <3>3
      <4>2. worker'.job = worker.job /\ worker'.at = "sync"
            /\ worker'.layers = worker.layers /\ worker'.current = worker.current
        BY <1>1, <4>1 DEF Workers
      <4> QED BY <1>1, <3>1, <4>2 DEF GroundInv, JobInv, Near
    <3> QED BY <3>2, <3>3
  <2>2. CASE worker.at = "sync" /\ WorkerSyncs
    <3>1. worker' = [worker EXCEPT !.at = "synced", !.fresh = TRUE, !.seen = SectorOf(view)]
      BY <2>2 DEF WorkerSyncs, Sync
    <3>2. /\ worker' \in Workers /\ worker'.job = worker.job /\ worker'.at = "synced"
          /\ worker'.layers = worker.layers /\ worker'.current = worker.current
          /\ worker'.seen = SectorOf(view)
      BY <1>1, <1>3, <3>1 DEF Workers
    <3> QED BY <1>1, <1>2, <3>2 DEF GroundInv, JobInv, Near, InWindow
  <2>3. CASE worker.at = "synced" /\ WorkerSyncs
    <3>1. worker' = [worker EXCEPT !.at = "run", !.layers = resident, !.centre = worker.seen,
                                   !.current = worker.fresh]
      BY <2>3 DEF WorkerSyncs, Sync
    <3>2. /\ worker' \in Workers /\ worker'.job = worker.job /\ worker'.at = "run"
          /\ worker'.layers = resident /\ worker'.centre = worker.seen
      BY <1>1, <3>1 DEF Workers, GroundInv, SectorType
    <3> QED BY <1>1, <2>3, <3>2 DEF GroundInv, JobInv, Near, InWindow
  <2>4. CASE WorkerRunsJob
    <3>1. worker' = [worker EXCEPT !.at = "idle", !.job = {}]
      BY <2>4 DEF WorkerRunsJob
    <3>2. /\ worker' \in Workers /\ worker'.job = {} /\ worker'.at = "idle"
          /\ worker'.layers = worker.layers /\ worker'.current = worker.current
      BY <1>1, <3>1 DEF Workers
    <3> QED BY <1>1, <3>2 DEF GroundInv, JobInv, Near
  <2> QED BY <2>1, <2>2, <2>3, <2>4 DEF WorkerSteps, WorkerSyncs, Sync
<1>5. SectorType' /\ RegionInv'
  BY <1>1, <1>4 DEF GroundInv, SectorType, RegionInv
<1> QED BY <1>4, <1>5 DEF GroundInv

(* The steps that leave the cache and the worker alone, and the end of     *)
(* physics, which puts a new worker in the place of the old one.           *)
LEMMA LifetimeKeepsGround ==
  ASSUME GroundInv,
         \/ BeginCallback \/ PumpReload \/ EnsureInitialized \/ EndCallback
         \/ TeardownOnRenderThread \/ Move \/ RequestReload \/ CloseAdmission
         \/ DrainCallbacks \/ ForceSync \/ HandOverTeardown \/ AwaitTeardown
         \/ UNCHANGED vars
  PROVE  GroundInv'
<1>1. UNCHANGED <<cache, worker>> /\ eye' \in Places
  BY DEF BeginCallback, PumpReload, EnsureInitialized, EndCallback, TeardownOnRenderThread,
         Move, Wander, RequestReload, CloseAdmission, DrainCallbacks, ForceSync,
         HandOverTeardown, AwaitTeardown, sectorVars, cache, vars, GroundInv, SectorType
<1>2. \/ UNCHANGED <<ring, mirror, regions>>
      \/ ring' = {} /\ mirror' = {} /\ regions' = {}
  BY DEF BeginCallback, PumpReload, EnsureInitialized, EndCallback, TeardownOnRenderThread,
         Move, Wander, RequestReload, CloseAdmission, DrainCallbacks, ForceSync,
         HandOverTeardown, AwaitTeardown, sectorVars, gpu, vars, DropGraph
<1>3. ring' \subseteq IndexReads
  BY <1>2 DEF GroundInv, SectorType
<1> QED BY <1>1, <1>2, <1>3, GroundKept

(* Without physics no job waits for ground.                                *)
LEMMA PhysicsEndKeepsGround == ASSUME GroundInv, TeardownPhysics PROVE GroundInv'
<1>1. UNCHANGED <<eye, view, resident, ring, mirror, regions>>
  BY DEF TeardownPhysics, cache, gpu
<1>2. /\ worker' \in Workers /\ worker'.job = {} /\ ~worker'.current
      /\ worker'.at = "off"
  BY DEF TeardownPhysics, NewWorker, Workers
<1>3. SectorType' /\ JobInv' /\ RegionInv'
  BY <1>1, <1>2 DEF GroundInv, SectorType, JobInv, Near, RegionInv
<1> QED BY <1>3 DEF GroundInv

(* For any sectors, regions, places and bounds: a generated region has its *)
(* sectors in the mirror the generator reads, and a job of the worker      *)
(* finds each sector the gate asked for and that was not evicted since     *)
(* (orchestrator.cpp:299, sector_mirror.cpp:69, mesh_service.cpp:641).     *)
THEOREM ReadersHaveGround == Spec => []GroundUnderReaders
<1>1. GroundInv /\ [Next]_vars => GroundInv'
  <2> SUFFICES ASSUME GroundInv, [Next]_vars PROVE GroundInv'
    OBVIOUS
  <2>1. CASE Land
    BY <2>1, LandingKeepsGround DEF Land
  <2>2. CASE Harvest
    BY <2>2, HarvestKeepsGround DEF Harvest
  <2>3. CASE DrawFrame
    BY <2>3, FrameKeepsGround DEF DrawFrame
  <2>4. CASE Tick
    BY <2>4, TickKeepsGround DEF Tick
  <2>5. CASE RunWorker
    BY <2>5, WorkerKeepsGround DEF RunWorker
  <2>6. CASE TeardownPhysics
    BY <2>6, PhysicsEndKeepsGround
  <2> QED
    BY <2>1, <2>2, <2>3, <2>4, <2>5, <2>6, LifetimeKeepsGround DEF Next, Render, Leave
<1> QED BY <1>1, GroundInit, GroundHolds, PTL DEF Spec
=============================================================================

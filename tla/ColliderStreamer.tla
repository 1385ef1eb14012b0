--------------------------- MODULE ColliderStreamer ---------------------------
(***************************************************************************)
(* Collision follows the players: which chunks own a slot of the pool and  *)
(* which of them owe a mesh (mesh/chunk_residency.cpp), and how a mesh     *)
(* that comes back frames later becomes the bodies of the physics space    *)
(* (physics/collider_streamer.cpp).                                        *)
(*                                                                         *)
(* The main thread runs one frame after the other: it drains the edits,    *)
(* takes what the worker finished, stages one replacement octant by        *)
(* octant, plans and submits.  The worker meshes and tools edit the field  *)
(* between any two of its steps.  Chunks lie on a line, so that distance   *)
(* is subtraction; the field of a chunk is a version and what is there.    *)
(***************************************************************************)
EXTENDS Integers, FiniteSets, FiniteSetsExt, Functions

CONSTANTS
  Chunks,       \* the chunks of the world: places on a line
  Slots,        \* the pool of cfg.max_chunks slots
  Views,        \* the sets of centres [at, radius] a frame may be run for
  Hysteresis,   \* how far beyond its radius a centre keeps a chunk
  Memory,       \* how far beyond it a centre keeps a probe's verdict
  MaxBuilds,    \* cfg.max_builds_per_frame
  MaxProbes,    \* cfg.max_probes_per_frame
  Octants,      \* kColliderOctants
  Ground,       \* what each chunk holds when the model starts
  Events,       \* what may go wrong in this instance
  MaxEdits,     \* bound of the model: edits of the field
  MaxFailures,  \* bound of the model: builds and shapes that fail
  None

(* What a chunk holds.  The probe is conservative: it takes an "alarm",    *)
(* of which no triangle comes out, for ground.                             *)
Kinds == {"air", "alarm", "ground"}

AllEvents == {"lod", "spoil", "hold", "restart"}

ASSUME ColliderAssumption ==
  /\ Chunks \subseteq Int /\ IsFiniteSet(Chunks) /\ IsFiniteSet(Slots)
  /\ \A v \in Views : v # {} /\ v \subseteq [at : Int, radius : Nat]
  /\ Hysteresis \in Nat /\ Memory \in Nat /\ Hysteresis <= Memory
  /\ MaxBuilds \in Nat \ {0} /\ MaxProbes \in Nat \ {0} /\ Octants \in Nat \ {0}
  /\ Ground \in [Chunks -> Kinds]
  /\ Events \subseteq AllEvents
  /\ MaxEdits \in Nat /\ MaxFailures \in Nat
  /\ None \notin Slots \cup [chunk : Chunks, version : Nat]

VARIABLES
  field,      \* the world: by chunk, its version and kind
  dirty,      \* VoxelWorld::pending_dirty_: chunks edited since the last drain
  slotOf,     \* by_chunk_: the slot of each resident chunk, or None
  state,      \* slot_state_, by slot
  probes,     \* probe_cache_: "unknown", "surface" or "empty"
  inFlight,   \* in_flight_: chunks a build is outstanding of
  space,      \* by slot, the bodies in the physics space: [chunk, version], or None
  inbox,      \* inbox_: results landed and not yet looked at
  staged,     \* the front of pending_: the replacement being staged, or None
  main,       \* where the main thread is in its frame
  builds,     \* the chunks planned to be built and not yet submitted
  view,       \* the centres of this frame
  mesh,       \* the mesh service: [queued, running, busy, results, valid]
  failures    \* how many builds and shapes failed so far

residency == <<slotOf, state, probes, inFlight>>
vars == <<field, dirty, slotOf, state, probes, inFlight, space, inbox, staged, main, builds,
          view, mesh, failures>>

-----------------------------------------------------------------------------

Resident == {c \in Chunks : slotOf[c] # None}
StateOf(c) == IF c \in Resident THEN state[slotOf[c]] ELSE "absent"

Distance(c, centre) == IF c < centre.at THEN centre.at - c ELSE c - centre.at
Nearest(c) == Min({Distance(c, centre) : centre \in view})
Within(c, slack) == \E centre \in view : Distance(c, centre) <= centre.radius + slack

NoMesh == [queued |-> {}, running |-> {}, busy |-> FALSE, results |-> {}, valid |-> TRUE]

(* Physics off: no chunk resident, no verdict, no body, nothing under way. *)
NoSlot == [c \in Chunks |-> None]
NoMarks == [s \in Slots |-> "needsBuild"]
NoVerdicts == [c \in Chunks |-> "unknown"]
NoBodies == [s \in Slots |-> None]

Init ==
  /\ field = [c \in Chunks |-> [version |-> 0, kind |-> Ground[c]]]
  /\ dirty = {}
  /\ slotOf = NoSlot /\ state = NoMarks /\ probes = NoVerdicts /\ inFlight = {}
  /\ space = NoBodies
  /\ inbox = {} /\ staged = None
  /\ main = "idle" /\ builds = {}
  /\ mesh = NoMesh
  /\ view \in Views
  /\ failures = 0

-----------------------------------------------------------------------------
(* The residency                                                           *)

(* Seeded fault: a chunk that is being built is left alone.                *)
DirtyStateLate(chunks) ==
  [s \in Slots |-> IF \E c \in chunks : slotOf[c] = s /\ state[s] = "ready"
                   THEN "needsBuild" ELSE state[s]]

(* mark_dirty: a resident chunk owes a mesh.                               *)
DirtyState(chunks) ==
  [s \in Slots |-> IF \E c \in chunks : slotOf[c] = s THEN "needsBuild" ELSE state[s]]

(* mark_dirty: the verdict of an edited chunk is forgotten.                *)
DirtyProbes(chunks) == [c \in Chunks |-> IF c \in chunks THEN "unknown" ELSE probes[c]]

(* note_built and note_failed tell only the build that was asked for.      *)
Noted(c, outcome) ==
  IF StateOf(c) = "building" THEN [state EXCEPT ![slotOf[c]] = outcome] ELSE state

NoteFailed(c) ==
  /\ state' = Noted(c, "needsBuild")
  /\ inFlight' = inFlight \ {c}
  /\ UNCHANGED <<slotOf, probes>>

NoteBuilt(c) ==
  /\ state' = Noted(c, "ready")
  /\ inFlight' = inFlight \ {c}
  /\ UNCHANGED <<slotOf, probes>>

NoteDiscarded(c) ==
  /\ inFlight' = inFlight \ {c}
  /\ UNCHANGED <<slotOf, state, probes>>

(* note_empty of the current build: the verdict is kept, the slot is free. *)
NoteEmpty(c) ==
  /\ probes' = [probes EXCEPT ![c] = "empty"]
  /\ slotOf' = [slotOf EXCEPT ![c] = None]
  /\ state' = [state EXCEPT ![slotOf[c]] = "needsBuild"]
  /\ inFlight' = inFlight \ {c}

(* The n nearest elements of S, ties broken either way.                      *)
NearestOf(S, n) ==
  {T \in SUBSET S :
     /\ Cardinality(T) = Min({n, Cardinality(S)})
     /\ \A c \in T, d \in S \ T : Nearest(c) <= Nearest(d)}

(* The chunks resident after the plan: a candidate takes a free slot or    *)
(* displaces the furthest resident, never one at its own distance.         *)
Settled(kept, candidates) ==
  {T \in NearestOf(kept \cup candidates, Cardinality(Slots)) :
     \A c \in T \ kept, d \in kept \ T : Nearest(c) < Nearest(d)}

(* release() marks a chunk that leaves while it is built.                  *)
ReleasedInFlight(gone) == {c \in gone : StateOf(c) = "building"}

(* What may be streamed in: nothing a build is still outstanding of.       *)
Streamable(kept) == Chunks \ (kept \cup inFlight \cup ReleasedInFlight(Resident \ kept))

(* The residents that owe a mesh and have no build outstanding.            *)
Owes(settled, marked) ==
  {c \in settled \ marked : StateOf(c) \in {"absent", "needsBuild"}}

(* Seeded fault: the bodies of a slot given up stay in the space.          *)
ReleasedKept(gone) == space

(* The bodies of the slots given up leave the space (release_slot).        *)
Released(gone) ==
  [s \in Slots |-> IF \E c \in gone : slotOf[c] = s THEN None ELSE space[s]]

(* ChunkResidency::update with room for cap builds.                        *)
Update(cap) ==
  LET kept == {c \in Resident : Within(c, Hysteresis)}
      remembered == [c \in Chunks |-> IF Within(c, Memory) THEN probes[c] ELSE "unknown"]
      near == {c \in Streamable(kept) : Within(c, 0) /\ remembered[c] # "empty"}
  IN \E probed \in NearestOf({c \in near : remembered[c] = "unknown"}, MaxProbes) :
     LET verdicts == [c \in Chunks |->
                        IF c \notin probed THEN remembered[c]
                        ELSE IF field[c].kind = "air" THEN "empty" ELSE "surface"]
     IN \E settled \in Settled(kept, {c \in near : verdicts[c] = "surface"}) :
        LET gone == Resident \ settled
            came == settled \ Resident
            free == Slots \ {slotOf[c] : c \in Resident \cap settled}
            marked == inFlight \cup ReleasedInFlight(gone)
        IN \E at \in Injection(came, free), B \in NearestOf(Owes(settled, marked), cap) :
           /\ slotOf' = [c \in Chunks |-> IF c \in came THEN at[c]
                                          ELSE IF c \in gone THEN None ELSE slotOf[c]]
           /\ state' = [s \in Slots |-> IF \E c \in B : slotOf'[c] = s THEN "building"
                                        ELSE IF s \in free THEN "needsBuild" ELSE state[s]]
           /\ probes' = verdicts
           /\ inFlight' = marked \cup B
           /\ builds' = B
           /\ space' = Released(gone)

-----------------------------------------------------------------------------
(* Tools and players                                                       *)

(* A tool edits a chunk; the chunk is queued as dirty under the same hold  *)
(* of the edit mutex (VoxelWorld::record).                                 *)
Edit(c, kind) ==
  /\ MapThenSumSet(LAMBDA d : field[d].version, Chunks) < MaxEdits
  /\ field' = [field EXCEPT ![c] = [version |-> @.version + 1, kind |-> kind]]
  /\ dirty' = dirty \cup {c}
  /\ UNCHANGED <<residency, space, inbox, staged, main, builds, view, mesh, failures>>

Move(v) ==
  /\ main = "idle" /\ v # view
  /\ view' = v
  /\ UNCHANGED <<field, dirty, residency, space, inbox, staged, main, builds, mesh, failures>>

-----------------------------------------------------------------------------
(* The main thread's frame                                                 *)

(* physics_tick drains the edits, and run_frame takes what the worker has  *)
(* finished; with an invalid worker the frame ends there.                  *)
BeginFrame ==
  /\ main = "idle"
  /\ state' = DirtyState(dirty)
  /\ probes' = DirtyProbes(dirty)
  /\ dirty' = {}
  /\ IF mesh.valid
     THEN /\ inbox' = inbox \cup mesh.results
          /\ mesh' = [mesh EXCEPT !.results = {}]
          /\ main' = "stage"
     ELSE UNCHANGED <<inbox, mesh, main>>
  /\ UNCHANGED <<field, slotOf, inFlight, space, staged, builds, view, failures>>

Staging == main \in {"stage", "more"}

NothingToStage == staged = None /\ inbox = {}

(* enqueue_result: a chunk gone by now is only unmarked, a failed build is *)
(* owed again, and anything else is staged in the same iteration.          *)
Enqueue(r) ==
  /\ Staging /\ staged = None /\ r \in inbox
  /\ inbox' = inbox \ {r}
  /\ IF r.chunk \in Resident /\ ~r.failed
     THEN /\ staged' = [chunk |-> r.chunk, slot |-> slotOf[r.chunk], version |-> r.version,
                        kind |-> r.kind, next |-> 0]
          /\ main' = "stage"
          /\ UNCHANGED residency
     ELSE /\ IF r.chunk \in Resident THEN NoteFailed(r.chunk) ELSE NoteDiscarded(r.chunk)
          /\ main' = "more"
          /\ UNCHANGED staged
  /\ UNCHANGED <<field, dirty, space, builds, view, mesh, failures>>

(* The chunk staged left its slot, or was edited since it was asked for.   *)
Stale == slotOf[staged.chunk] # staged.slot \/ StateOf(staged.chunk) # "building"

StageStale ==
  /\ Staging /\ staged # None /\ Stale
  /\ NoteDiscarded(staged.chunk)
  /\ staged' = None
  /\ main' = "more"
  /\ UNCHANGED <<field, dirty, space, inbox, builds, view, mesh, failures>>

(* One octant: no triangle of it, or a shape of its own outside the space. *)
StageOctant ==
  /\ Staging /\ staged # None /\ ~Stale /\ staged.next < Octants
  /\ staged' = [staged EXCEPT !.next = @ + 1]
  /\ main' = "more"
  /\ UNCHANGED <<field, dirty, residency, space, inbox, builds, view, mesh, failures>>

(* Seeded fault: the bodies of before go with what was staged.             *)
StageFailsBare ==
  /\ Staging /\ staged # None /\ ~Stale /\ staged.kind = "ground"
  /\ failures < MaxFailures
  /\ failures' = failures + 1
  /\ NoteFailed(staged.chunk)
  /\ space' = [space EXCEPT ![staged.slot] = None]
  /\ staged' = None
  /\ main' = "more"
  /\ UNCHANGED <<field, dirty, inbox, builds, view, mesh>>

(* A shape or, at the end, a body could not be created: what was staged is *)
(* dropped and the chunk is owed again, over its old bodies.               *)
StageFails ==
  /\ Staging /\ staged # None /\ ~Stale /\ staged.kind = "ground"
  /\ failures < MaxFailures
  /\ failures' = failures + 1
  /\ NoteFailed(staged.chunk)
  /\ staged' = None
  /\ main' = "more"
  /\ UNCHANGED <<field, dirty, space, inbox, builds, view, mesh>>

Staged == Staging /\ staged # None /\ ~Stale /\ staged.next = Octants

(* commit_pending: all the bodies of the chunk are replaced at once.       *)
CommitBodies ==
  /\ Staged /\ staged.kind = "ground"
  /\ NoteBuilt(staged.chunk)
  /\ space' = [space EXCEPT ![staged.slot] =
                 [chunk |-> staged.chunk, version |-> staged.version]]
  /\ staged' = None
  /\ main' = "more"
  /\ UNCHANGED <<field, dirty, inbox, builds, view, mesh, failures>>

(* commit_pending of a chunk without a triangle: its slot is given up.     *)
CommitEmpty ==
  /\ Staged /\ staged.kind # "ground"
  /\ NoteEmpty(staged.chunk)
  /\ space' = [space EXCEPT ![staged.slot] = None]
  /\ staged' = None
  /\ main' = "more"
  /\ UNCHANGED <<field, dirty, inbox, builds, view, mesh, failures>>

(* Nothing is left, or the budget is spent after one iteration at least.   *)
StageStops ==
  /\ main = "more" \/ (main = "stage" /\ NothingToStage)
  /\ main' = "plan"
  /\ UNCHANGED <<field, dirty, residency, space, inbox, staged, builds, view, mesh, failures>>

(* No build is planned while a batch or a replacement is under way.        *)
BuildCap == IF mesh.busy \/ ~NothingToStage THEN 0 ELSE MaxBuilds

Plan ==
  /\ main = "plan"
  /\ Update(BuildCap)
  /\ main' = IF builds' = {} THEN "idle" ELSE "submit"
  /\ UNCHANGED <<field, dirty, inbox, staged, view, mesh, failures>>

(* The terrain around is not generated yet: the plan waits.                *)
PlanHeld ==
  /\ main = "plan" /\ "hold" \in Events
  /\ main' = "idle"
  /\ UNCHANGED <<field, dirty, residency, space, inbox, staged, builds, view, mesh, failures>>

(* The field of each chunk as it is now, under one hold of the edit mutex. *)
Requests == {[chunk |-> c, version |-> field[c].version, kind |-> field[c].kind] : c \in builds}

(* Seeded fault: a refused batch is forgotten.                             *)
RefusedForgotten == UNCHANGED <<state, inFlight>>

(* note_failed for every build of a batch the service did not take.        *)
Refused ==
  /\ state' = [s \in Slots |-> IF \E c \in builds : slotOf[c] = s THEN "needsBuild"
                               ELSE state[s]]
  /\ inFlight' = inFlight \ builds

Submit ==
  /\ main = "submit"
  /\ IF mesh.valid /\ mesh.queued = {} /\ ~mesh.busy
     THEN /\ mesh' = [mesh EXCEPT !.queued = Requests, !.busy = TRUE]
          /\ UNCHANGED <<state, inFlight>>
     ELSE Refused /\ UNCHANGED mesh
  /\ builds' = {}
  /\ main' = "idle"
  /\ UNCHANGED <<field, dirty, slotOf, probes, space, inbox, staged, view, failures>>

(* teardown_physics and ensure_physics_initialized: the world keeps its    *)
(* edits, everything else starts again.                                    *)
Restart ==
  /\ main = "idle" /\ "restart" \in Events
  /\ dirty' = {}
  /\ slotOf' = NoSlot /\ state' = NoMarks /\ probes' = NoVerdicts /\ inFlight' = {}
  /\ space' = NoBodies
  /\ inbox' = {} /\ staged' = None
  /\ mesh' = NoMesh
  /\ UNCHANGED <<field, main, builds, view, failures>>

-----------------------------------------------------------------------------
(* The mesh service as its client sees it                                  *)

Result(q, failed) == [chunk |-> q.chunk, version |-> q.version, kind |-> q.kind, failed |-> failed]

ServiceStep(m) ==
  /\ mesh' = m
  /\ UNCHANGED <<field, dirty, residency, space, inbox, staged, main, builds, view>>

TakeBatch ==
  /\ mesh.valid /\ mesh.running = {} /\ mesh.queued # {}
  /\ ServiceStep([mesh EXCEPT !.running = mesh.queued, !.queued = {}])
  /\ UNCHANGED failures

(* The jobs F failed, or came back with nothing of use.                    *)
FinishBatch(F) ==
  /\ mesh.running # {} /\ F \subseteq mesh.running
  /\ failures + Cardinality(F) <= MaxFailures
  /\ failures' = failures + Cardinality(F)
  /\ ServiceStep([mesh EXCEPT !.running = {}, !.busy = FALSE,
                  !.results = @ \cup {Result(q, q \in F) : q \in mesh.running}])

(* A LoD batch of the worker clears the busy flag of the colliders.        *)
LodClearsBusy ==
  /\ "lod" \in Events /\ mesh.running = {} /\ mesh.valid /\ mesh.busy
  /\ ServiceStep([mesh EXCEPT !.busy = FALSE])
  /\ UNCHANGED failures

(* A consolidation leaves the worker invalid ...                           *)
Spoil ==
  /\ "spoil" \in Events /\ mesh.running = {} /\ mesh.valid
  /\ ServiceStep([mesh EXCEPT !.valid = FALSE])
  /\ UNCHANGED failures

(* ... and the main thread has it rebuilt: what was queued comes back as   *)
(* failed.                                                                 *)
Rebuild(ok) ==
  /\ main = "idle" /\ ~mesh.valid
  /\ ServiceStep([mesh EXCEPT !.queued = {}, !.busy = FALSE, !.valid = ok,
                  !.results = @ \cup {Result(q, TRUE) : q \in mesh.queued}])
  /\ UNCHANGED failures

-----------------------------------------------------------------------------

FrameStep ==
  \/ BeginFrame
  \/ \E r \in inbox : Enqueue(r)
  \/ StageStale
  \/ StageOctant
  \/ StageFails
  \/ CommitBodies
  \/ CommitEmpty
  \/ StageStops
  \/ Plan
  \/ PlanHeld
  \/ Submit

ServiceNext ==
  \/ TakeBatch
  \/ \E F \in SUBSET mesh.running : FinishBatch(F)
  \/ LodClearsBusy
  \/ Spoil
  \/ \E ok \in BOOLEAN : Rebuild(ok)

WorldNext ==
  \/ \E c \in Chunks, kind \in Kinds : Edit(c, kind)
  \/ \E v \in Views : Move(v)
  \/ Restart

Next == FrameStep \/ ServiceNext \/ WorldNext

Spec == Init /\ [][Next]_vars

(* Frames go on, the worker does what it was given, and the terrain gate   *)
(* is open in some of the frames that ask it.                              *)
FairSpec ==
  /\ Spec
  /\ WF_vars(FrameStep)
  /\ SF_vars(Plan)
  /\ WF_vars(TakeBatch)
  /\ WF_vars(\E F \in SUBSET mesh.running : FinishBatch(F))

-----------------------------------------------------------------------------
(* Properties                                                              *)

(* No two chunks share a slot, and the bodies found in a slot are those of *)
(* the chunk that owns it: nobody collides with ground that was given up.  *)
SpaceMatchesResidency ==
  /\ \A c, d \in Resident : slotOf[c] = slotOf[d] => c = d
  /\ \A s \in Slots : space[s] # None => slotOf[space[s].chunk] = s

(* What the residency takes for settled is true of the field as it is now, *)
(* unless the edit still waits to be drained: a chunk that counts as ready *)
(* collides as it is, whatever mesh of the field before the edit comes     *)
(* late, and a cached "empty" hides no ground.                             *)
VerdictsAreTrue ==
  \A c \in Chunks \ dirty :
     /\ StateOf(c) = "ready" => space[slotOf[c]] = [chunk |-> c, version |-> field[c].version]
     /\ probes[c] = "empty" => field[c].kind # "ground"

(* Bodies leave the space with their chunk's slot and give way only to     *)
(* newer ones of the same chunk: an edit never opens a hole while its mesh *)
(* is on the way, and no old mesh comes back.                              *)
CollidersOnlyAdvance ==
  [][\A s \in Slots : space[s] # None =>
       \/ space'[s] = space[s]
       \/ slotOf'[space[s].chunk] # s /\ space'[s] = None
       \/ /\ space'[s] # None
          /\ space'[s].chunk = space[s].chunk
          /\ space'[s].version > space[s].version]_vars

(* There is room for c: fewer chunks hold ground as near as it than slots. *)
RoomFor(c) ==
  Cardinality({d \in Chunks \ {c} : field[d].kind # "air" /\ Nearest(d) <= Nearest(c)})
    < Cardinality(Slots)

Collides(c) ==
  c \in Resident /\ space[slotOf[c]] = [chunk |-> c, version |-> field[c].version]

(* Once the player stands still, with no more edits, failures or restarts  *)
(* and a worker that is up, the ground in range collides as it is.         *)
CollidersCatchUp ==
  (<>[][view' = view]_vars /\ <>[](mesh.valid) /\ <>[][~Restart]_vars) =>
     \A c \in Chunks :
        <>[](field[c].kind = "ground" /\ Within(c, 0) /\ RoomFor(c) => Collides(c))
=============================================================================

------------------------------- MODULE Islands -------------------------------
(***************************************************************************)
(* The island manager: edits become windows, one window a frame is         *)
(* searched for loose pieces, a loose piece is copied by the worker,       *)
(* carved out of the field as a physics body, and pasted back into the     *)
(* field when the body has come to rest.  With it the volume pool whose    *)
(* slots carry the copies, the hand-off of their bytes to the render       *)
(* thread, and the teardown and restart of physics.                        *)
(*                                                                         *)
(* The field is a set of places for one piece each; the shape of a piece   *)
(* is the number of the edit that last changed it.  When the picture the   *)
(* search looks at is up to date is OccupancyHandover's matter.            *)
(***************************************************************************)
EXTENDS Naturals, Sequences, FiniteSets, SequencesExt

CONSTANTS
  Pieces,
  Sheets,       \* pieces too thin for the extraction lattice: their copy is empty
  Dense,        \* sheets with a cell the picture calls full: never crumbled
  Ragged,       \* pieces greedy_box_merge or the lattice planner gives up on
  Debris,       \* pieces below kDebrisVolumeM3, which need no atlas slot
  Volumes,      \* kMaxVolumes; the slots are 1..Volumes
  Atlas,        \* kMaxIslands; the slots are 1..Atlas
  MaxBodies,    \* max_dynamic_bodies_
  PerFrame,     \* kExtractsPerFrame
  MaxFailures,  \* kMaxExtractFailuresPerWindow
  Cooldown,     \* kRetryCooldownFrames and kMergeRetryCooldownFrames
  Hosts,        \* what happens beside the manager: sets of events
  MaxEdits,     \* bound of the model: edits by tools
  MaxQueued,    \* bound of the model: what waits for a frame to be drawn
  None

AllEvents == {"blast", "dig", "late picture", "failures", "full", "merge", "restart", "no normals"}

ASSUME IslandsAssumption ==
  /\ IsFiniteSet(Pieces)
  /\ Dense \subseteq Sheets
  /\ Sheets \cup Ragged \cup Debris \subseteq Pieces
  /\ {Volumes, Atlas, MaxBodies, PerFrame, MaxFailures} \subseteq Nat \ {0}
  /\ {Cooldown, MaxEdits, MaxQueued} \subseteq Nat
  /\ Hosts \subseteq SUBSET AllEvents

(* None is no body and no volume.                                          *)
ASSUME NoneAssumption ==
  /\ None \notin [piece : Pieces, shape : Nat, slot : 1..Volumes, atlas : 0..Atlas,
                  asleep : BOOLEAN, pose : {0, 1}]
  /\ None \notin [piece : Pieces, shape : Nat, form : {"birth", "rest"}]

VARIABLES
  field,    \* the field: what is at each place, and its shape
  seen,     \* OccupancyGrid, as the search reads it
  log,      \* the edit log: last_seq, tool edits, room in the regions, pastes
  inbox,    \* IslandManager::inbox_
  windows,  \* IslandManager::windows_
  pc,       \* how far run_frame has got
  batch,    \* the extraction batch at the mesh service
  landing,  \* its results, while run_frame works through them
  flying,   \* IslandManager::in_flight_
  volumes,  \* VolumeSet
  atlas,    \* IslandManager::atlas_used_
  bodies,   \* IslandManager::bodies_, with holes
  merging,  \* IslandManager::merging_
  retries,  \* IslandManager::merge_retries_
  uploads,  \* IslandHandoff::uploads_
  frees,    \* IslandHandoff::normal_releases_
  descs,    \* IslandHandoff::descs_ and descs_dirty_
  pool,     \* the render device: volume pool, stored normals, descriptors
  host      \* the member of Hosts this behaviour runs under

fieldVars == <<field, seen, log>>
queueVars == <<inbox, windows>>
workVars == <<pc, batch, landing, flying>>
bodyVars == <<atlas, bodies, merging, retries>>
poolVars == <<volumes, uploads, frees, descs, pool>>
vars == <<fieldVars, queueVars, workVars, bodyVars, poolVars, host>>

-----------------------------------------------------------------------------

Slots == 1..Volumes
Blank == [used |-> FALSE, pinned |-> FALSE, data |-> None]
Live == {i \in DOMAIN bodies : bodies[i] # None}
UsedVolumes == {s \in Slots : volumes[s].used}
On(e) == e \in host

Init ==
  /\ field = [p \in Pieces |-> [is |-> "anchored", shape |-> 0]]
  /\ seen = [p \in Pieces |-> "anchored"]
  /\ log = [seq |-> 0, tools |-> 0, full |-> FALSE, pastes |-> {}]
  /\ inbox = <<>>
  /\ windows = <<>>
  /\ pc = "idle"
  /\ batch = None
  /\ landing = <<>>
  /\ flying = <<>>
  /\ volumes = [s \in Slots |-> Blank]
  /\ atlas = [a \in 1..Atlas |-> FALSE]
  /\ bodies = <<>>
  /\ merging = <<>>
  /\ retries = <<>>
  /\ uploads = <<>>
  /\ frees = <<>>
  /\ descs = [of |-> {}, dirty |-> FALSE]
  /\ pool = [data |-> [s \in Slots |-> None], normals |-> [s \in Slots |-> None], shown |-> {}]
  /\ host \in Hosts

-----------------------------------------------------------------------------
(* The volume pool: allocate, store, pin, unpin, release.                  *)

FreeSlots(vs) == {s \in Slots : ~vs[s].used}
FirstFree(vs) == CHOOSE s \in FreeSlots(vs) : \A t \in FreeSlots(vs) : s <= t

Allocated(vs, s) == [vs EXCEPT ![s] = [Blank EXCEPT !.used = TRUE]]
Stored(vs, s, d) ==
  IF vs[s].used /\ ~vs[s].pinned THEN [vs EXCEPT ![s].data = d] ELSE vs
Pinned(vs, s) == IF vs[s].data # None THEN [vs EXCEPT ![s].pinned = TRUE] ELSE vs

(* Seeded fault: the pin of a paste does not count.                        *)
CanReleasePinned(vs, s) == vs[s].used

CanRelease(vs, s) == vs[s].used /\ ~vs[s].pinned

(* release_volume_slot: the authoritative copy goes first; only then, and  *)
(* only when it went, are the normals on the device to go.                 *)
Released(vs, s) == IF CanRelease(vs, s) THEN [vs EXCEPT ![s] = Blank] ELSE vs
FreeQueue(vs, s) == IF CanRelease(vs, s) THEN Append(frees, s) ELSE frees

ReleaseSlot(s) ==
  /\ volumes' = Released(volumes, s)
  /\ frees' = FreeQueue(volumes, s)

-----------------------------------------------------------------------------
(* Windows.                                                                *)

Overlaps(w, x) == w.over \cap x.over # {}
Absorb(w, x) == [w EXCEPT !.over = @ \cup x.over]

(* note_edit: every window the edit overlaps takes it in; if there is none *)
(* it gets its own; windows that overlap now are one.                      *)
Coalesce(ws) ==
  LET merge[n \in 0..Len(ws)] ==
        IF n = 0 THEN ws
        ELSE LET prev == merge[n - 1]
             IN  IF \E i, j \in DOMAIN prev : i < j /\ Overlaps(prev[i], prev[j])
                 THEN LET i == CHOOSE i \in DOMAIN prev :
                                 /\ \E j \in DOMAIN prev : i < j /\ Overlaps(prev[i], prev[j])
                                 /\ \A k \in 1..(i - 1) : \A j \in (k + 1)..Len(prev) :
                                       ~Overlaps(prev[k], prev[j])
                          j == CHOOSE j \in (i + 1)..Len(prev) :
                                 /\ Overlaps(prev[i], prev[j])
                                 /\ \A k \in (i + 1)..(j - 1) : ~Overlaps(prev[i], prev[k])
                      IN  RemoveAt(ReplaceAt(prev, i, Absorb(prev[i], prev[j])), j)
                 ELSE prev
  IN  merge[Len(ws)]

NoteEdit(ws, e) ==
  LET w == [id |-> e.seq, over |-> e.over, fails |-> 0, cool |-> 0]
  IN  IF \E i \in DOMAIN ws : Overlaps(ws[i], w)
      THEN Coalesce([i \in DOMAIN ws |-> IF Overlaps(ws[i], w) THEN Absorb(ws[i], w) ELSE ws[i]])
      ELSE Append(ws, w)

DrainInbox(ws) ==
  LET drain[n \in 0..Len(inbox)] ==
        IF n = 0 THEN ws ELSE NoteEdit(drain[n - 1], inbox[n])
  IN  drain[Len(inbox)]

(* Seeded fault: a window that is not queued any more is not put back.     *)
QueueRetryWindowKnown(ws, w) ==
  [i \in DOMAIN ws |-> IF ws[i].id = w.id THEN [ws[i] EXCEPT !.cool = Cooldown] ELSE ws[i]]

(* A window of the same id backs off; otherwise this one comes back.       *)
QueueRetryWindow(ws, w) ==
  IF \E i \in DOMAIN ws : ws[i].id = w.id
  THEN LET i == CHOOSE i \in DOMAIN ws : ws[i].id = w.id /\ \A k \in 1..(i - 1) : ws[k].id # w.id
       IN  ReplaceAt(ws, i, [ws[i] EXCEPT !.cool = Cooldown])
  ELSE Append(ws, [w EXCEPT !.cool = Cooldown])

(* After MaxFailures in a row the rest of the window is dropped.           *)
NoteExtractFailure(ws, w) ==
  IF \E i \in DOMAIN ws : ws[i].id = w.id
  THEN LET i == CHOOSE i \in DOMAIN ws : ws[i].id = w.id /\ \A k \in 1..(i - 1) : ws[k].id # w.id
       IN  IF ws[i].fails + 1 >= MaxFailures THEN RemoveAt(ws, i)
           ELSE ReplaceAt(ws, i, [ws[i] EXCEPT !.fails = @ + 1, !.cool = Cooldown])
  ELSE IF w.fails + 1 >= MaxFailures THEN ws
       ELSE Append(ws, [w EXCEPT !.cool = Cooldown, !.fails = @ + 1])

NoteExtractSuccess(ws, w) ==
  [i \in DOMAIN ws |-> IF ws[i].id = w.id THEN [ws[i] EXCEPT !.fails = 0] ELSE ws[i]]

-----------------------------------------------------------------------------
(* Edits by tools, which may land between any two steps of a frame.        *)

Follows(p, is) == IF On("late picture") THEN seen[p] ELSE is

Edit(over, is) ==
  /\ log.tools < MaxEdits
  /\ ~log.full
  /\ \A p \in over : field[p].is # is /\ (is = "loose" => field[p].is = "anchored")
  /\ field' = [p \in Pieces |-> IF p \in over THEN [is |-> is, shape |-> log.seq + 1] ELSE field[p]]
  /\ seen' = [p \in Pieces |-> IF p \in over THEN Follows(p, is) ELSE seen[p]]
  /\ log' = [log EXCEPT !.seq = @ + 1, !.tools = @ + 1]
  /\ inbox' = IF pc = "down" THEN inbox ELSE Append(inbox, [over |-> over, seq |-> log.seq + 1])
  /\ UNCHANGED <<windows, workVars, bodyVars, poolVars, host>>

(* A block of the occupancy grid catches up with the field.                *)
Picture(p) ==
  /\ seen[p] # field[p].is
  /\ seen' = [seen EXCEPT ![p] = field[p].is]
  /\ UNCHANGED <<field, log, queueVars, workVars, bodyVars, poolVars, host>>

(* Lists of operations fill up, and bakes empty them.                      *)
Fill ==
  /\ On("full")
  /\ log' = [log EXCEPT !.full = ~@]
  /\ UNCHANGED <<field, seen, queueVars, workVars, bodyVars, poolVars, host>>

-----------------------------------------------------------------------------
(* run_frame.                                                              *)

(* publish_descriptors: the bodies with an atlas slot, and their bytes.    *)
Described == {[atlas |-> bodies[i].atlas, slot |-> bodies[i].slot,
               data |-> [piece |-> bodies[i].piece, shape |-> bodies[i].shape, form |-> "birth"]] :
                i \in {j \in Live : bodies[j].atlas # 0}}

Published == [of |-> Described, dirty |-> TRUE]

(* Steps 1 and 2: cooldowns tick, the descriptors are published, the inbox *)
(* becomes windows, what the worker has finished is collected.             *)
BeginFrame ==
  /\ pc = "idle"
  /\ Len(uploads) + Len(frees) <= MaxQueued
  /\ pc' = "land"
  /\ retries' = [k \in DOMAIN retries |->
                   [retries[k] EXCEPT !.cool = IF @ > 0 THEN @ - 1 ELSE 0]]
  /\ windows' = DrainInbox(windows)
  /\ inbox' = <<>>
  /\ IF batch # None /\ batch.done
     THEN landing' = batch.jobs /\ batch' = None
     ELSE UNCHANGED <<landing, batch>>
  /\ descs' = Published
  /\ UNCHANGED <<fieldVars, flying, atlas, bodies, merging, volumes, uploads, frees, pool, host>>

FreeAtlas == {a \in 1..Atlas : ~atlas[a]}

(* The result at hand is an extraction in flight: it is not any more.      *)
Landing(kind) ==
  /\ pc = "land"
  /\ landing # <<>>
  /\ Head(landing).kind = kind
  /\ landing' = Tail(landing)

Takes(f) == \E i \in DOMAIN flying : flying[i] = f /\ flying' = RemoveAt(flying, i)

(* Nothing usable came back.  A failure counts against the window; a piece *)
(* that copies as empty is carved away without a body (crumble_component), *)
(* unless the picture shows it gone or there is no room for the carve.     *)
LandNothing ==
  /\ Landing("extract")
  /\ LET f == Head(landing).flight
     IN  /\ Takes(f)
         /\ ReleaseSlot(f.slot)
         /\ \/ /\ Head(landing).result = "failed"
               /\ windows' = NoteExtractFailure(windows, f.window)
               /\ UNCHANGED fieldVars
            \/ /\ Head(landing).result = "empty"
               /\ windows' = NoteExtractSuccess(windows, f.window)
               /\ IF seen[f.piece] # "air" /\ f.piece \notin Dense /\ ~log.full
                  THEN /\ field' = [field EXCEPT ![f.piece] = [is |-> "air", shape |-> log.seq + 1]]
                       /\ seen' = [seen EXCEPT ![f.piece] = "air"]
                       /\ log' = [log EXCEPT !.seq = @ + 1]
                  ELSE UNCHANGED fieldVars
  /\ UNCHANGED <<inbox, pc, batch, bodyVars, uploads, descs, pool, host>>

(* The body takes the first hole of the list.                              *)
AddBody(b) ==
  IF \E i \in DOMAIN bodies : bodies[i] = None
  THEN [bodies EXCEPT ![CHOOSE i \in DOMAIN bodies :
                          bodies[i] = None /\ \A k \in 1..(i - 1) : bodies[k] # None] = b]
  ELSE Append(bodies, b)

(* Seeded fault: a copy is good whenever it comes.                         *)
StaleNever(f) == FALSE

(* Any later append makes the copy stale, wherever it was.                 *)
Stale(f) == log.seq > f.seq

(* A usable copy: the ways out before the carve, in the order of the code. *)
LandRefused ==
  /\ Landing("extract")
  /\ Head(landing).result = "copied"
  /\ LET f == Head(landing).flight
         ws == NoteExtractSuccess(windows, f.window)
     IN  /\ Takes(f)
         /\ ReleaseSlot(f.slot)
         /\ \/ f.piece \notin Debris /\ FreeAtlas = {} /\ windows' = QueueRetryWindow(ws, f.window)
            \/ /\ f.piece \in Debris \/ FreeAtlas # {}
               /\ \/ log.full /\ windows' = ws
                  \/ ~log.full /\ Stale(f) /\ windows' = QueueRetryWindow(ws, f.window)
                  \/ On("failures") /\ ~log.full /\ ~Stale(f) /\ windows' = ws
  /\ UNCHANGED <<fieldVars, inbox, pc, batch, bodyVars, uploads, descs, pool, host>>

(* Under one hold of the edit lock: spawn the body, carve the piece out of *)
(* the field, tell the grid; then the bytes go to the render thread.       *)
LandCarve ==
  /\ Landing("extract")
  /\ Head(landing).result = "copied"
  /\ ~log.full
  /\ LET f == Head(landing).flight
         slot == IF f.piece \in Debris THEN 0 ELSE CHOOSE a \in FreeAtlas : \A c \in FreeAtlas : a <= c
     IN  /\ Takes(f)
         /\ f.piece \in Debris \/ FreeAtlas # {}
         /\ ~Stale(f)
         /\ windows' = NoteExtractSuccess(windows, f.window)
         /\ atlas' = [a \in 1..Atlas |-> atlas[a] \/ a = slot]
         /\ volumes' = Stored(volumes, f.slot, f.copy)
         /\ bodies' = AddBody([piece |-> f.piece, shape |-> f.copy.shape, slot |-> f.slot,
                               atlas |-> slot, asleep |-> FALSE, pose |-> 0])
         /\ field' = [field EXCEPT ![f.piece] = [is |-> "air", shape |-> log.seq + 1]]
         /\ seen' = [seen EXCEPT ![f.piece] = "air"]
         /\ log' = [log EXCEPT !.seq = @ + 1]
         /\ inbox' = Append(inbox, [over |-> {f.piece}, seq |-> log.seq + 1])
         /\ uploads' = IF slot = 0 THEN uploads
                       ELSE Append(uploads, [slot |-> f.slot, atlas |-> slot, data |-> f.copy])
  /\ UNCHANGED <<pc, batch, merging, retries, frees, descs, pool, host>>

(* despawn: a hole stays in the list; the birth volume goes with the body  *)
(* unless a paste took it over.                                            *)
Despawn(i, vs) ==
  /\ atlas' = [a \in 1..Atlas |-> atlas[a] /\ a # bodies[i].atlas]
  /\ volumes' = Released(vs, bodies[i].slot)
  /\ frees' = FreeQueue(vs, bodies[i].slot)
  /\ bodies' = [bodies EXCEPT ![i] = None]
  /\ retries' = SelectSeq(retries, LAMBDA r : r.body # i)

(* note_merge_rejected                                                     *)
BackOff(i, blocked) ==
  retries' = IF \E k \in DOMAIN retries : retries[k].body = i
             THEN [k \in DOMAIN retries |->
                     IF retries[k].body = i
                     THEN [retries[k] EXCEPT !.cool = Cooldown, !.blocked = @ \/ blocked]
                     ELSE retries[k]]
             ELSE Append(retries, [body |-> i, cool |-> Cooldown, blocked |-> blocked])

(* The resample went into the slot the body was born with.                 *)
Reuses(m) == m.out = bodies[m.body].slot

(* land_resample: nothing is pasted after a failure, from a body that woke *)
(* or moved, or into a full list; then the body backs off.                 *)
LandUnpasted ==
  /\ Landing("resample")
  /\ LET m == Head(merging)
     IN  /\ \/ Head(landing).result = "failed"
            \/ ~bodies[m.body].asleep
            \/ bodies[m.body].pose # m.pose
            \/ log.full
         /\ IF Reuses(m) THEN UNCHANGED <<volumes, frees>> ELSE ReleaseSlot(m.out)
         /\ BackOff(m.body, /\ log.full
                           /\ Head(landing).result # "failed"
                           /\ bodies[m.body].asleep /\ bodies[m.body].pose = m.pose)
  /\ merging' = Tail(merging)
  /\ UNCHANGED <<fieldVars, queueVars, pc, batch, flying, atlas, bodies, uploads, descs, pool, host>>

(* Under one hold of the edit lock: store, pin, queue the upload, append   *)
(* the paste, despawn the body.                                            *)
LandPaste ==
  /\ Landing("resample")
  /\ Head(landing).result = "copied"
  /\ ~log.full
  /\ LET m == Head(merging)
         rest == [piece |-> bodies[m.body].piece, shape |-> bodies[m.body].shape, form |-> "rest"]
     IN  /\ bodies[m.body].asleep
         /\ bodies[m.body].pose = m.pose
         /\ Despawn(m.body, Pinned(Stored(volumes, m.out, rest), m.out))
         /\ uploads' = Append(uploads, [slot |-> m.out, atlas |-> 0, data |-> rest])
         /\ log' = [log EXCEPT !.seq = @ + 1, !.pastes = @ \cup {[slot |-> m.out, data |-> rest]}]
         /\ inbox' = Append(inbox, [over |-> {}, seq |-> log.seq + 1])
  /\ merging' = Tail(merging)
  /\ UNCHANGED <<field, seen, windows, pc, batch, flying, descs, pool, host>>

(* Step 3, when nothing is searched this frame: there is no window, the    *)
(* last copies are still out, the window backs off, there is no room, or   *)
(* the picture is behind.                                                  *)
SearchLater ==
  /\ pc = "land"
  /\ landing = <<>>
  /\ pc' = "merge"
  /\ inbox' = <<>>
  /\ LET ws == DrainInbox(windows)
     IN  \/ /\ ws = <<>> \/ flying # <<>> \/ batch # None
            /\ windows' = ws
         \/ /\ ws # <<>> /\ flying = <<>> /\ batch = None
            /\ \/ /\ Head(ws).cool > 0
                  /\ windows' = <<[Head(ws) EXCEPT !.cool = @ - 1]>> \o Tail(ws)
               \/ /\ Head(ws).cool = 0
                  /\ \/ Cardinality(Live) >= MaxBodies \/ FreeSlots(volumes) = {}
                     \/ \E q \in Head(ws).over : seen[q] # field[q].is
                  /\ windows' = ws
  /\ UNCHANGED <<fieldVars, batch, landing, flying, bodyVars, poolVars, host>>

(* run_connectivity: the loose pieces that can be cut into boxes and fit a *)
(* lattice are looked at in some order, for as long as this frame, the     *)
(* bodies and the volume pool have room.                                   *)
Room(pieces) ==
  {Len(pieces), PerFrame, MaxBodies - Cardinality(Live), Cardinality(FreeSlots(volumes))}

Orders(S) == SetToSeqs(S)

(* The slots allocate() hands out, one after the other.                    *)
LowestFree(slots) ==
  /\ \A i \in DOMAIN slots : slots[i] \in FreeSlots(volumes)
  /\ \A i, j \in DOMAIN slots : i < j => slots[i] < slots[j]
  /\ \A s \in FreeSlots(volumes) \ Range(slots) : \A i \in DOMAIN slots : slots[i] < s

(* Each piece that is taken is copied from the field as of now.            *)
Flights(w, pieces, slots) ==
  LET copy(q) == [piece |-> q, shape |-> field[q].shape, form |-> "birth"]
  IN  [i \in DOMAIN slots |-> [piece |-> pieces[i], slot |-> slots[i], window |-> w,
                              seq |-> log.seq, copy |-> copy(pieces[i])]]

ExtractJob(f) ==
  [kind |-> "extract", flight |-> f,
   result |-> IF f.piece \in Sheets \/ field[f.piece].is = "air" THEN "empty" ELSE "copied"]

(* What is left of the window once it was searched: the pieces that wait   *)
(* for a later frame, a retry when there was no room, or nothing.          *)
Remainder(ws, w, loose, flights) ==
  IF flights # <<>> /\ Len(flights) < Cardinality(loose) THEN Append(ws, w)
  ELSE IF flights = <<>> /\ loose \ Ragged # {} THEN Append(ws, [w EXCEPT !.cool = Cooldown])
  ELSE ws

Search(pieces, accepted) ==
  /\ pc = "land"
  /\ landing = <<>>
  /\ flying = <<>>
  /\ batch = None
  /\ pc' = "merge"
  /\ inbox' = <<>>
  /\ LET ws == DrainInbox(windows)
         w == Head(ws)
         loose == {q \in w.over : seen[q] = "loose"}
     IN  /\ ws # <<>>
         /\ w.cool = 0
         /\ Cardinality(Live) < MaxBodies /\ FreeSlots(volumes) # {}
         /\ Range(pieces) = loose \ Ragged
         /\ \E T \in SUBSET FreeSlots(volumes) : \E slots \in Orders(T) :
              LET flights == Flights(w, pieces, slots)
                  rest == Remainder(Tail(ws), w, loose, flights)
              IN  /\ LowestFree(slots)
                  /\ Len(slots) \in Room(pieces) /\ \A n \in Room(pieces) : Len(slots) <= n
                  /\ IF slots = <<>>
                     THEN /\ accepted
                          /\ windows' = rest
                          /\ UNCHANGED <<volumes, frees, flying, batch>>
                     ELSE IF accepted
                     THEN /\ windows' = rest
                          /\ volumes' = [s \in Slots |-> IF s \in T THEN [Blank EXCEPT !.used = TRUE]
                                                        ELSE volumes[s]]
                          /\ flying' = flights
                          /\ batch' = [done |-> FALSE,
                                       jobs |-> [i \in DOMAIN slots |-> ExtractJob(flights[i])]]
                          /\ UNCHANGED frees
                     ELSE \* the service refused the batch: the slots go back
                          /\ windows' = QueueRetryWindow(rest, w)
                          /\ frees' = frees \o Reverse(slots)
                          /\ UNCHANGED <<volumes, flying, batch>>
  /\ UNCHANGED <<fieldVars, landing, bodyVars, uploads, descs, pool, host>>

(* merge_retry_blocked: a body backs off, and again while the region that  *)
(* refused its paste is full.                                              *)
BacksOff(i) ==
  \E k \in DOMAIN retries :
     retries[k].body = i /\ (retries[k].cool > 0 \/ (retries[k].blocked /\ log.full))

(* The entries of the bodies that were asked, renewed or dropped.          *)
Asked(S) ==
  LET kept == SelectSeq(retries, LAMBDA r : r.body \notin S \/ BacksOff(r.body))
  IN  [k \in DOMAIN kept |->
         IF kept[k].body \in S /\ kept[k].cool = 0 THEN [kept[k] EXCEPT !.cool = Cooldown]
         ELSE kept[k]]

(* Step 4, start_merges: the first body that sleeps, does not back off and *)
(* has ground under it is resampled where it rests, into a slot of its own *)
(* or, when there is none, into the one it was born with.                  *)
StartMerge(i, accepted) ==
  /\ pc = "merge"
  /\ pc' = "idle"
  /\ merging = <<>>
  /\ batch = None
  /\ i \in Live
  /\ bodies[i].asleep
  /\ ~BacksOff(i)
  /\ retries' = Asked({k \in Live : k <= i /\ bodies[k].asleep})
  /\ LET birth == bodies[i].slot
         out == IF FreeSlots(volumes) # {} THEN FirstFree(volumes) ELSE birth
     IN  IF accepted
         THEN /\ volumes' = IF out = birth THEN volumes ELSE Allocated(volumes, out)
              /\ merging' = <<[body |-> i, out |-> out, pose |-> bodies[i].pose]>>
              /\ batch' = [done |-> FALSE, jobs |-> <<[kind |-> "resample", result |-> "copied"]>>]
              /\ UNCHANGED frees
         ELSE /\ frees' = IF out = birth THEN frees ELSE Append(frees, out)
              /\ UNCHANGED <<volumes, merging, batch>>
  /\ UNCHANGED <<fieldVars, queueVars, landing, flying, atlas, bodies, uploads, descs, pool, host>>

NoMerge ==
  /\ pc = "merge"
  /\ pc' = "idle"
  /\ retries' = IF merging = <<>> /\ batch = None
                THEN Asked({k \in Live : bodies[k].asleep}) ELSE retries
  /\ UNCHANGED <<fieldVars, queueVars, batch, landing, flying, atlas, bodies, merging, poolVars, host>>

-----------------------------------------------------------------------------
(* The worker, the physics server and the render thread.                   *)

WorkerDone(bad) ==
  /\ batch # None
  /\ ~batch.done
  /\ bad \subseteq DOMAIN batch.jobs
  /\ bad # {} => On("failures")
  /\ batch' = [done |-> TRUE,
               jobs |-> [i \in DOMAIN batch.jobs |->
                           IF i \in bad THEN [batch.jobs[i] EXCEPT !.result = "failed"]
                           ELSE batch.jobs[i]]]
  /\ UNCHANGED <<fieldVars, queueVars, pc, landing, flying, bodyVars, poolVars, host>>

Settle(i) ==
  /\ On("merge")
  /\ i \in Live
  /\ ~bodies[i].asleep
  /\ bodies' = [bodies EXCEPT ![i].asleep = TRUE]
  /\ UNCHANGED <<fieldVars, queueVars, workVars, atlas, merging, retries, poolVars, host>>

Wake(i) ==
  /\ i \in Live
  /\ bodies[i].asleep
  /\ bodies' = [bodies EXCEPT ![i].asleep = FALSE, ![i].pose = 1 - @]
  /\ UNCHANGED <<fieldVars, queueVars, workVars, atlas, merging, retries, poolVars, host>>

(* The bytes of a slot once the uploads have landed in order.              *)
Uploaded(s, old) ==
  LET mine == {i \in DOMAIN uploads : uploads[i].slot = s}
  IN  IF mine = {} THEN old ELSE uploads[CHOOSE i \in mine : \A k \in mine : k <= i].data

(* Seeded fault: the freed normals go last.                                *)
DrainedFreesLast(bare) ==
  [pool EXCEPT !.data = [s \in Slots |-> Uploaded(s, @[s])],
               !.normals = [s \in Slots |-> IF s \in Range(frees) \cup bare THEN None
                                           ELSE Uploaded(s, @[s])]]

(* drain_island_uploads: the normals of freed slots go first, then the     *)
(* uploads land.  All volumes have one size, so normals replace those of   *)
(* their slot in place; the slots bare get none: there were none to        *)
(* replace and the budget had no room, or the volume came without.         *)
Drained(bare) ==
  [pool EXCEPT !.data = [s \in Slots |-> Uploaded(s, @[s])],
               !.normals = [s \in Slots |->
                  IF s \in bare THEN None
                  ELSE Uploaded(s, IF s \in Range(frees) THEN None ELSE @[s])]]

DrawFrame(bare) ==
  /\ pc \in {"idle", "down"}
  /\ uploads # <<>> \/ frees # <<>> \/ descs.dirty
  /\ bare \subseteq {uploads[i].slot : i \in DOMAIN uploads}
  /\ bare # {} => On("no normals")
  /\ pool' = [Drained(bare) EXCEPT !.shown = IF descs.dirty THEN descs.of ELSE @]
  /\ uploads' = <<>>
  /\ frees' = <<>>
  /\ descs' = [descs EXCEPT !.dirty = FALSE]
  /\ UNCHANGED <<fieldVars, queueVars, workVars, bodyVars, volumes, host>>

-----------------------------------------------------------------------------
(* teardown_physics: bodies, copies in flight and resamples give up their  *)
(* slots; of the uploads only pasted volumes stay, one for each; no island *)
(* is drawn.  The worker and what it holds go with it.                     *)
Teardown ==
  /\ On("restart")
  /\ pc = "idle"
  /\ pc' = "down"
  /\ LET held == {bodies[i].slot : i \in Live} \cup {f.slot : f \in Range(flying)}
                   \cup {m.out : m \in Range(merging)}
         gone == {s \in held : CanRelease(volumes, s)}
     IN  /\ volumes' = [s \in Slots |-> IF s \in gone THEN Blank ELSE volumes[s]]
         /\ frees' = frees \o SetToSeq(gone)
         /\ uploads' = SetToSeq({u \in Range(uploads) : u.atlas = 0 /\ volumes[u.slot].pinned})
  /\ inbox' = <<>>
  /\ windows' = <<>>
  /\ batch' = None
  /\ landing' = <<>>
  /\ flying' = <<>>
  /\ atlas' = [a \in 1..Atlas |-> FALSE]
  /\ bodies' = <<>>
  /\ merging' = <<>>
  /\ retries' = <<>>
  /\ descs' = [of |-> {}, dirty |-> FALSE]
  /\ pool' = [pool EXCEPT !.shown = {}]
  /\ UNCHANGED <<fieldVars, host>>

Initialize ==
  /\ pc = "down"
  /\ pc' = "idle"
  /\ UNCHANGED <<fieldVars, queueVars, batch, landing, flying, bodyVars, poolVars, host>>

-----------------------------------------------------------------------------

ToolEdit ==
  \/ \E p \in Pieces : Edit({p}, "loose")
  \/ On("blast") /\ Edit(Pieces, "loose")
  \/ On("dig") /\ \E p \in Pieces, is \in {"air", "anchored"} : Edit({p}, is)

SearchStep ==
  \E S \in SUBSET Pieces : \E pieces \in Orders(S), accepted \in BOOLEAN :
     (~accepted => On("failures")) /\ Search(pieces, accepted)

MergeStep ==
  \/ \E i \in DOMAIN bodies, accepted \in BOOLEAN :
       (~accepted => On("failures")) /\ StartMerge(i, accepted)
  \/ NoMerge

Frame ==
  \/ BeginFrame
  \/ LandNothing \/ LandRefused \/ LandCarve \/ LandUnpasted \/ LandPaste
  \/ SearchLater \/ SearchStep
  \/ MergeStep

Next ==
  \/ ToolEdit
  \/ \E p \in Pieces : Picture(p)
  \/ Fill
  \/ Frame
  \/ \E bad \in SUBSET (1..PerFrame) : WorkerDone(bad)
  \/ \E i \in DOMAIN bodies : Settle(i) \/ Wake(i)
  \/ \E bare \in SUBSET Slots : DrawFrame(bare)
  \/ Teardown
  \/ Initialize

Spec == Init /\ [][Next]_vars

(* The main loop calls run_frame, and whatever step it is at comes to its  *)
(* end; the worker answers, the occupancy readbacks arrive, frames are     *)
(* drawn.                                                                  *)
FairSpec ==
  /\ Spec
  /\ WF_vars(Frame)
  /\ WF_vars(SearchStep)
  /\ WF_vars(\E bad \in SUBSET (1..PerFrame) : WorkerDone(bad))
  /\ \A p \in Pieces : WF_vars(Picture(p))
  /\ WF_vars(\E bare \in SUBSET Slots : DrawFrame(bare))

-----------------------------------------------------------------------------

(* Who holds slot s: a copy in flight, a body, a resample, a paste.        *)
Holders(s) ==
  {<<"flight", i>> : i \in {k \in DOMAIN flying : flying[k].slot = s}}
    \cup {<<"body", i>> : i \in {k \in Live : bodies[k].slot = s}}
    \cup {<<"merge", i>> : i \in {k \in DOMAIN merging : merging[k].out = s /\ ~Reuses(merging[k])}}
    \cup {<<"paste", x>> : x \in {y \in log.pastes : y.slot = s}}

(* Every volume slot in use has one holder, on whatever way out a piece,   *)
(* a resample or the whole of physics goes, and one that a paste names is  *)
(* pinned and no other ("once an op names a slot the slot can never be     *)
(* reused").                                                               *)
SlotsAreAccounted ==
  \A s \in Slots :
     /\ Cardinality(Holders(s)) = IF volumes[s].used THEN 1 ELSE 0
     /\ volumes[s].pinned <=> \E x \in log.pastes : x.slot = s

(* A body appears only where its piece goes out of the field in the same   *)
(* step, and as the piece was when the body's volume was copied.           *)
CarveTakesWhatItCopied ==
  [][\A i \in DOMAIN bodies' :
       bodies'[i] # None /\ (i \notin DOMAIN bodies \/ bodies[i] = None) =>
         LET p == bodies'[i].piece
         IN  /\ field[p].is # "air"
             /\ field[p].shape = bodies'[i].shape
             /\ field'[p].is = "air"]_vars

(* A volume keeps its bytes for as long as anything names it, though its   *)
(* slot may have been a body's before, and its normals freed.  Of a paste  *)
(* the render device has the bytes and normals, or will with the uploads   *)
(* that are queued; where normals can be refused it may have none of them, *)
(* but never those of another volume ("fail-soft").  Of a descriptor on    *)
(* the device it has the bytes of its body, unless the body's own paste    *)
(* has just taken the slot: then they change one frame before the          *)
(* descriptor goes.                                                        *)
VolumesKeepTheirBytes ==
  /\ \A x \in log.pastes :
        /\ volumes[x.slot].data = x.data
        /\ Drained({}).data[x.slot] = x.data
        /\ \/ Drained({}).normals[x.slot] = x.data
           \/ On("no normals") /\ Drained({}).normals[x.slot] = None
  /\ \A d \in pool.shown :
        \/ pool.data[d.slot] = d.data
        \/ \E x \in log.pastes : x.slot = d.slot /\ x.data.piece = d.data.piece

(* A piece cut loose becomes a body, however the window that found it was  *)
(* merged, put back, overtaken by edits or left over by PerFrame, unless   *)
(* there is no room for bodies.  For hosts in which nothing fails.         *)
NoRoom(p) ==
  \/ Cardinality(Live) >= MaxBodies
  \/ FreeSlots(volumes) = {}
  \/ FreeAtlas = {} /\ p \notin Debris

LooseBecomesBody ==
  \A p \in Pieces \ (Ragged \cup Dense) :
     (host \subseteq {"blast", "dig", "merge"} /\ field[p].is = "loose")
        ~> (field[p].is # "loose" \/ NoRoom(p))
=============================================================================

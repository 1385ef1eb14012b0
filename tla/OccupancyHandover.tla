-------------------------- MODULE OccupancyHandover --------------------------
(***************************************************************************)
(* How the occupancy the GPU writes reaches the grid the island search     *)
(* reads.  An edit is appended under the edit lock and queued for the      *)
(* streamer and for the island manager.  A streamer frame uploads the      *)
(* operation list of each region it marks, with the edit sequence read     *)
(* under the same hold, and marks; a later frame asks for the region's     *)
(* block; the block lands some time after, waits in the store's inbox and  *)
(* is drained into the grid on the main thread, where a queued search      *)
(* waits until the block of its region is as new as its edit.              *)
(*                                                                         *)
(* A brick that finds the free list of the atlas or the job list full is   *)
(* refused: its cell stays as it was, and a bit of a sticky word is set.   *)
(* The word is read back some frames later, and what was lost is marked    *)
(* again, with the operations that are in the pool by then.                *)
(*                                                                         *)
(* A brick's cell holds the numbers of the edits it shows, or Unknown.     *)
(* One brick stands for one slab of a paced stream-in and for the reach of *)
(* one edit, and has a surface.                                            *)
(***************************************************************************)
EXTENDS Naturals, Sequences, FiniteSets, SequencesExt

CONSTANTS
  Regions,
  Slabs,      \* kStreamSlabs; the bricks of a region are 1..Slabs
  Readers,    \* kOccupancyReads: the asynchronous reads, 1..Readers
  Hosts,      \* does a tool thread run beside the frame, what else happens,
              \* and how many edits there are (a bound of the model)
  MaxSeq,     \* bound of the model: edits under any host
  MaxLoads,   \* bound of the model: loads of regions
  MaxBakes,   \* bound of the model: published bakes
  MaxDrops,   \* bound of the model: frames that refuse bricks
  None, Unknown

ASSUME OccupancyAssumption ==
  /\ IsFiniteSet(Regions)
  /\ Slabs \in Nat \ {0}
  /\ Readers \in Nat \ {0}
  /\ MaxSeq \in Nat
  /\ MaxLoads \in Nat
  /\ MaxBakes \in Nat
  /\ MaxDrops \in Nat
  /\ Hosts \subseteq
       [tools : BOOLEAN,
        events : SUBSET {"stream", "carve", "regen", "short read", "refused read", "impatience",
                         "drop"},
        edits : 0..MaxSeq]

(* None is no block and no frame: absence is told apart from presence.     *)
ASSUME NoneAssumption ==
  LET cells   == [1..Slabs -> (SUBSET Nat) \cup {Unknown}]
      request == [kind : {"probe", "plain", "slab", "force", "edit", "remark"},
                  region : Regions, bricks : SUBSET Nat]
      job     == [req : request, ops : SUBSET Nat, seq : Nat]
  IN  /\ None \notin [seq : Nat, cells : cells]
      /\ None \notin [evicts : SUBSET Regions, todo : Seq(request), remarks : SUBSET Regions,
                      jobs : Seq(job)]

VARIABLES
  edits,      \* the accepted edits, at index = edit_seq after the edit
  pending,    \* WorldStore::pending_edits_: the numbers queued for the streamer
  forced,     \* WorldStreamer::forced_regen_
  resident,   \* the resident regions
  spent,      \* the loads and bakes so far, against their bounds
  slab,       \* StagedRegion::next_slab - 1; Slabs once published
  force,      \* StagedRegion::force
  gpu,        \* GpuAtlas::region_occupancy, seen through the region's slot
  slots,      \* the bricks of a region that have a slot of the atlas
  uploaded,   \* the operations in the pool, through the region's slot
  word,       \* the sticky overflow bits on the GPU: "slot", "job"
  telling,    \* the bits that the read of the word on its way copied
  repair,     \* repair_queue_
  regen,      \* pending_regen_: the regions that the last frame marked
  missed,     \* history: the edits whose brick was refused when they were marked
  frame,      \* run_frame between its locks: what is still to capture, the jobs
  marked,     \* occ_pending_: region and stamp of blocks to ask for
  reads,      \* occ_reads_: the reads out, with the bytes they copied
  inbox,      \* WorldStore::occupancy_inbox_
  grid,       \* OccupancyGrid::blocks_
  windows,    \* IslandManager::windows_, front first
  extraction, \* IslandManager::in_flight_
  host        \* the member of Hosts that this behaviour runs under

recoveryVars == <<slots, uploaded, word, telling, repair, regen, missed>>
streamVars ==
  <<pending, forced, resident, spent, slab, force, gpu, recoveryVars, frame, marked, reads>>
mainVars == <<inbox, grid, windows, extraction>>
vars == <<edits, streamVars, mainVars, host>>

-----------------------------------------------------------------------------

Bricks == 1..Slabs
EditSeq == Len(edits)
Blank == [k \in Bricks |-> Unknown]
EditsOf(r) == {s \in 1..EditSeq : edits[s].region = r}
Staged(r) == r \in resident /\ slab[r] < Slabs

(* What brick k shows when it is marked against the list ops.              *)
Shown(ops, k) == {s \in ops : edits[s].brick = k}

(* Edits are kept out of a frame unless tools run beside it.               *)
LockFree == frame = None \/ host.tools

Init ==
  /\ edits = <<>>
  /\ pending = {}
  /\ forced = {}
  /\ resident = Regions
  /\ spent = [loads |-> 0, bakes |-> 0, drops |-> 0]
  /\ slab = [r \in Regions |-> Slabs]
  /\ force = [r \in Regions |-> FALSE]
  /\ gpu = [r \in Regions |-> [k \in Bricks |-> {}]]
  /\ slots = [r \in Regions |-> Bricks]
  /\ uploaded = [r \in Regions |-> {}]
  /\ word = {}
  /\ telling = {}
  /\ repair = {}
  /\ regen = {}
  /\ missed = {}
  /\ frame = None
  /\ marked = <<>>
  /\ reads = [i \in 1..Readers |-> None]
  /\ inbox = <<>>
  /\ grid = [r \in Regions |-> [seq |-> 0, cells |-> [k \in Bricks |-> {}]]]
  /\ windows = <<>>
  /\ extraction = None
  /\ host \in Hosts

-----------------------------------------------------------------------------
(* Edits and the island manager's windows.                                 *)

(* The manager takes no window unless the island physics is up.            *)
Islands == host.events \cap {"carve", "impatience"} # {}

(* A new window joins the one over the same brick, if there is one.        *)
NoteEdit(ws, w) ==
  IF \E i \in DOMAIN ws : ws[i].region = w.region /\ ws[i].brick = w.brick
  THEN [i \in DOMAIN ws |->
          IF ws[i].region = w.region /\ ws[i].brick = w.brick
          THEN [ws[i] EXCEPT !.seq = w.seq] ELSE ws[i]]
  ELSE Append(ws, w)

(* Append, bump and hand to the sinks, under one hold of the edit lock.    *)
Accept(r, k) ==
  /\ EditSeq < host.edits
  /\ edits' = Append(edits, [region |-> r, brick |-> k])
  /\ pending' = pending \cup {EditSeq + 1}

Edit(r, k) ==
  /\ LockFree
  /\ Accept(r, k)
  /\ windows' = IF Islands THEN NoteEdit(windows, [region |-> r, brick |-> k, seq |-> EditSeq + 1])
                ELSE windows
  /\ UNCHANGED <<forced, resident, spent, slab, force, gpu, recoveryVars, frame, marked, reads,
                 inbox, grid, extraction, host>>

(* A published bake asks for its region to be marked again.                *)
QueueRegeneration(r) ==
  /\ "regen" \in host.events
  /\ LockFree
  /\ spent.bakes < MaxBakes
  /\ spent' = [spent EXCEPT !.bakes = @ + 1]
  /\ forced' = forced \cup {r}
  /\ UNCHANGED <<edits, pending, resident, slab, force, gpu, recoveryVars, frame, marked, reads,
                 mainVars, host>>

-----------------------------------------------------------------------------
(* The streamer frame: harvest, ask, plan; capture job by job; record.     *)

(* Seeded fault: a region waiting already keeps the stamp it has.          *)
NoteMarkedKeepsOld(m, r, s) ==
  IF \E i \in DOMAIN m : m[i].region = r THEN m ELSE Append(m, [region |-> r, seq |-> s])

(* One request per region; the newest stamp wins.                          *)
NoteMarked(m, r, s) ==
  IF \E i \in DOMAIN m : m[i].region = r
  THEN [i \in DOMAIN m |->
          IF m[i].region = r /\ s > m[i].seq THEN [m[i] EXCEPT !.seq = s] ELSE m[i]]
  ELSE Append(m, [region |-> r, seq |-> s])

(* take_fresh of one read: a whole block goes to the inbox, a short one is *)
(* asked for again.                                                        *)
TakeFresh(io, i) ==
  LET rd == io.reads[i]
  IN  IF rd = None \/ ~rd.landed THEN io
      ELSE [io EXCEPT
              !.reads[i] = None,
              !.inbox  = IF rd.short THEN @ ELSE Append(@, rd.block),
              !.marked = IF rd.short THEN NoteMarked(@, rd.block.region, rd.block.seq) ELSE @]

(* The reads in the order of the array, whatever the order they landed in. *)
Harvest(io) ==
  LET take[i \in 0..Readers] == IF i = 0 THEN io ELSE TakeFresh(take[i - 1], i)
  IN  take[Readers]

(* An idle read takes the region that waits longest; one that is gone uses *)
(* up the turn of the read; a refused request goes to the back and ends    *)
(* the asking.                                                             *)
RequestRead(io, i, refused) ==
  LET want == Head(io.marked)
      rest == [io EXCEPT !.marked = Tail(@)]
      read == [block |-> [region |-> want.region, seq |-> want.seq, cells |-> gpu[want.region]],
               landed |-> FALSE, short |-> FALSE]
  IN  IF io.stop \/ io.reads[i] # None \/ io.marked = <<>> THEN io
      ELSE IF want.region \notin resident THEN rest
      ELSE IF refused THEN [rest EXCEPT !.marked = NoteMarked(@, want.region, want.seq),
                                        !.stop = TRUE]
      ELSE [rest EXCEPT !.reads[i] = read]

Ask(io, refused) ==
  LET ask[i \in 0..Readers] == IF i = 0 THEN io ELSE RequestRead(ask[i - 1], i, refused)
  IN  ask[Readers]

(* restage_forced: a staged region that is forced starts again.            *)
FirstSlab(r) == IF r \in forced THEN 1 ELSE slab[r] + 1

Ascending(S) ==
  CHOOSE q \in [1..Cardinality(S) -> S] : \A i, j \in 1..Cardinality(S) : i < j => q[i] < q[j]

(* Job requests of this frame, in the order the code captures them.        *)
Requests(kept, ld, staged, upto, es) ==
  LET probe(r) == [kind |-> "probe", region |-> r, bricks |-> Bricks]
      again(r) == [kind |-> "plain", region |-> r, bricks |-> Bricks]
      slabs(r) == [kind |-> IF force[r] \/ r \in forced THEN "force" ELSE "slab", region |-> r,
                   bricks |-> FirstSlab(r)..upto[r]]
      edit(s)  == [kind |-> "edit", region |-> edits[s].region, bricks |-> {edits[s].brick}]
  IN  SetToSeq({probe(r) : r \in ld})
        \o SetToSeq({again(r) : r \in {q \in forced \cap kept : ~Staged(q)}})
        \o SetToSeq({slabs(r) : r \in staged})
        \o [i \in 1..Cardinality(es) |-> edit(Ascending(es)[i])]

(* Where the schedule of this frame leaves the slabs.                      *)
SlabAfter(r, ld, counted, upto) ==
  IF r \in ld THEN 0
  ELSE IF r \in counted THEN upto[r]
  ELSE IF Staged(r) THEN FirstSlab(r) - 1 ELSE slab[r]

(* Either bit, once heard of, queues every resident region for repair; the *)
(* job list's also has what the last frame marked done again at once.      *)
RepairQueue(heard) == IF heard # {} THEN resident ELSE repair
DueAgain(heard, mend) == (IF "job" \in heard THEN regen ELSE {}) \cup mend

(* From the top of run_frame to its first read of the log: the reads that  *)
(* landed are harvested and new ones go out, the word is copied and then   *)
(* cleared if its read could be asked for again, edits and forced regions  *)
(* are swapped out, residency plans its evictions and loads, and the slabs *)
(* of the staged regions whose counts are in are scheduled.  What is to be *)
(* marked again, mend of the repair queue among it, starts its slabs over  *)
(* if it is staged still.  _process drains the inbox ahead of the frame    *)
(* that is drawn after it.                                                 *)
FrameBegin(ev, ld, counted, upto, refused, hear, mend) ==
  LET heard  == IF hear THEN telling ELSE {}
      stays  == (resident \ ev) \cup ld
      due    == DueAgain(heard, mend) \cap stays
      after  == [r \in Regions |-> SlabAfter(r, ld, counted, upto)]
      again  == {r \in due : after[r] < Slabs}
  IN
  /\ frame = None
  /\ inbox = <<>>
  /\ ev \subseteq resident
  /\ ld \cap resident = {}
  /\ spent.loads + Cardinality(ld) <= MaxLoads
  /\ counted \subseteq {r \in resident \ ev : Staged(r)}
  /\ mend \subseteq RepairQueue(heard)
  /\ LET io == Ask(Harvest([reads |-> reads, inbox |-> inbox, marked |-> marked,
                            stop |-> FALSE]), refused)
     IN  /\ reads' = io.reads
         /\ inbox' = io.inbox
         /\ marked' = io.marked
  /\ telling' = IF hear THEN (IF refused THEN {} ELSE word) ELSE telling
  /\ word' = IF hear /\ ~refused THEN {} ELSE word
  /\ repair' = RepairQueue(heard) \ mend
  /\ resident' = stays
  /\ spent' = [spent EXCEPT !.loads = @ + Cardinality(ld)]
  /\ slab' = [r \in Regions |-> IF r \in again THEN 0 ELSE after[r]]
  /\ force' = [r \in Regions |->
                 \/ r \in again
                 \/ IF r \in ld THEN r \in forced ELSE force[r] \/ (Staged(r) /\ r \in forced)]
  /\ frame' = [evicts |-> ev,
               todo |-> Requests(resident \ ev, ld, counted, upto,
                          {s \in pending : edits[s].region \in stays}),
               remarks |-> due \ again,
               jobs |-> <<>>]
  /\ pending' = {}
  /\ forced' = {}
  /\ UNCHANGED <<edits, gpu, slots, uploaded, regen, missed, grid, windows, extraction, host>>

(* Seeded fault: the stamp is read after the next append, the list before. *)
CaptureLateStamp ==
  /\ frame # None
  /\ frame.todo # <<>>
  /\ LET q == Head(frame.todo)
     IN  /\ frame' = [frame EXCEPT
                        !.todo = Tail(@),
                        !.jobs = Append(@, [req |-> q, ops |-> EditsOf(q.region),
                                            seq |-> EditSeq + 1])]
         /\ uploaded' = [uploaded EXCEPT ![q.region] = EditsOf(q.region)]
  /\ UNCHANGED <<edits, pending, forced, resident, spent, slab, force, gpu, slots, word, telling,
                 repair, regen, missed, marked, reads, mainVars, host>>

(* One job's operation list is uploaded and its stamp read, under one hold *)
(* of the edit lock.                                                       *)
Capture ==
  /\ frame # None
  /\ frame.todo # <<>>
  /\ LET q == Head(frame.todo)
     IN  /\ frame' = [frame EXCEPT
                        !.todo = Tail(@),
                        !.jobs = Append(@, [req |-> q, ops |-> EditsOf(q.region), seq |-> EditSeq])]
         /\ uploaded' = [uploaded EXCEPT ![q.region] = EditsOf(q.region)]
  /\ UNCHANGED <<edits, pending, forced, resident, spent, slab, force, gpu, slots, word, telling,
                 repair, regen, missed, marked, reads, mainVars, host>>

(* A region that is marked again, after all others: the length of its list *)
(* and the stamp are read under one hold of the lock, but nothing is       *)
(* uploaded; the job runs over the operations that the pool has.           *)
Recapture(r) ==
  /\ frame # None
  /\ frame.todo = <<>>
  /\ r \in frame.remarks
  /\ frame' = [frame EXCEPT
                 !.remarks = @ \ {r},
                 !.jobs = Append(@, [req |-> [kind |-> "remark", region |-> r, bricks |-> Bricks],
                                     ops |-> uploaded[r], seq |-> EditSeq])]
  /\ UNCHANGED <<edits, pending, forced, resident, spent, slab, force, gpu, recoveryVars, marked,
                 reads, mainVars, host>>

(* The bricks that a job is to write.  A probe leaves them for later; a    *)
(* plain mark and a slab leave alone what has a slot already; a forced     *)
(* mark, an edit and a mark done again rewrite.                            *)
Wants(j, had) ==
  CASE j.req.kind = "probe" -> {}
    [] j.req.kind \in {"plain", "slab"} -> j.req.bricks \ had
    [] OTHER -> j.req.bricks \cap Bricks

(* brick_mark.comp: what one job makes of the atlas.  The bricks in denied *)
(* find the free list empty (short = "slot": those without a slot have     *)
(* none) or the job list full (those without a slot got one), and stay     *)
(* unwritten.                                                              *)
Mark(a, j, denied, short) ==
  LET r    == j.req.region
      want == Wants(j, a.slots[r])
      lost == want \cap (IF short = "slot" THEN denied \ a.slots[r] ELSE denied)
  IN  [gpu    |-> [a.gpu EXCEPT ![r] =
                     [k \in Bricks |-> IF k \in want \ lost THEN Shown(j.ops, k) ELSE @[k]]],
       slots  |-> [a.slots EXCEPT ![r] = @ \cup (IF short = "slot" THEN want \ lost ELSE want)],
       word   |-> IF lost = {} THEN a.word ELSE a.word \cup {short},
       missed |-> a.missed \cup
                    {s \in j.ops : edits[s].brick \in lost /\ a.gpu[r][edits[s].brick] # Unknown
                                     /\ s \notin a.gpu[r][edits[s].brick]}]

Marks(a, jobs, denied, short) ==
  LET run[i \in 0..Len(jobs)] ==
        IF i = 0 THEN a ELSE Mark(run[i - 1], jobs[i], {k \in Bricks : <<i, k>> \in denied}, short)
  IN  run[Len(jobs)]

(* A region marked whole or edited is noted for a read.                    *)
Noted(j) ==
  \/ j.req.kind \in {"plain", "edit", "remark"}
  \/ j.req.kind \in {"slab", "force"} /\ Slabs \in j.req.bricks

Notes(m, jobs) ==
  LET note[i \in 0..Len(jobs)] ==
        IF i = 0 THEN m
        ELSE IF Noted(jobs[i])
             THEN NoteMarked(note[i - 1], jobs[i].req.region, jobs[i].seq)
             ELSE note[i - 1]
  IN  note[Len(jobs)]

(* The compute list runs: evicted slots are cleared, the jobs mark in      *)
(* order, and the regions that want a read are noted, whether or not their *)
(* bricks were written.                                                    *)
FrameEnd(denied, short) ==
  /\ frame # None
  /\ frame.todo = <<>>
  /\ frame.remarks = {}
  /\ denied # {} => "drop" \in host.events /\ spent.drops < MaxDrops
  /\ LET cleared == [gpu    |-> [r \in Regions |-> IF r \in frame.evicts THEN Blank ELSE gpu[r]],
                     slots  |-> [r \in Regions |-> IF r \in frame.evicts THEN {} ELSE slots[r]],
                     word   |-> word,
                     missed |-> missed]
         atlas   == Marks(cleared, frame.jobs, denied, short)
     IN  /\ gpu' = atlas.gpu
         /\ slots' = atlas.slots
         /\ word' = atlas.word
         /\ missed' = atlas.missed
  /\ spent' = [spent EXCEPT !.drops = @ + (IF denied = {} THEN 0 ELSE 1)]
  /\ marked' = Notes(marked, frame.jobs)
  /\ regen' = {frame.jobs[i].req.region : i \in
                 {n \in DOMAIN frame.jobs : frame.jobs[n].req.kind \notin {"probe", "remark"}}}
  /\ frame' = None
  /\ UNCHANGED <<edits, pending, forced, resident, slab, force, uploaded, telling, repair, reads,
                 mainVars, host>>

(* The device completes a copy, in any order; one that completes inside a  *)
(* frame is looked at by the next, as if it had completed between them.    *)
Land(i, short) ==
  /\ frame = None
  /\ reads[i] # None
  /\ ~reads[i].landed
  /\ short => "short read" \in host.events
  /\ reads' = [reads EXCEPT ![i].landed = TRUE, ![i].short = short]
  /\ UNCHANGED <<edits, pending, forced, resident, spent, slab, force, gpu, recoveryVars, frame,
                 marked, mainVars, host>>

-----------------------------------------------------------------------------
(* The main thread: drain, search, carve.                                  *)

(* Seeded fault: the block that came last wins.                            *)
SetBlockAlways(g, b) == [g EXCEPT ![b.region] = [seq |-> b.seq, cells |-> b.cells]]

(* OccupancyGrid::set_block: a block older than the one there is dropped.  *)
SetBlock(g, b) ==
  IF g[b.region] # None /\ b.seq < g[b.region].seq THEN g
  ELSE [g EXCEPT ![b.region] = [seq |-> b.seq, cells |-> b.cells]]

SetBlocks(g, blocks) ==
  LET fold[i \in 0..Len(blocks)] == IF i = 0 THEN g ELSE SetBlock(fold[i - 1], blocks[i])
  IN  fold[Len(blocks)]

(* drain_occupancy: the inbox in order, then the retention sweep, whose    *)
(* radius lies well outside the one that keeps a region resident.          *)
DrainOccupancy(dropped) ==
  /\ frame = None \/ host.tools
  /\ inbox # <<>> \/ dropped # {}
  /\ dropped \subseteq {r \in Regions \ resident : grid[r] # None}
  /\ grid' = [r \in Regions |-> IF r \in dropped THEN None ELSE SetBlocks(grid, inbox)[r]]
  /\ inbox' = <<>>
  /\ UNCHANGED <<edits, streamVars, windows, extraction, host>>

(* window_is_fresh: no block of the window is older than its edit; a       *)
(* region without one does not hold the window up.                         *)
Fresh(w) == grid[w.region] # None => grid[w.region].seq >= w.seq

(* run_frame step 3: the front window is searched once it is fresh, or     *)
(* after kMaxWindowWaitFrames all the same.  A loose piece found there is  *)
(* sent for extraction, with the number of the newest edit.                *)
Search(found) ==
  /\ windows # <<>>
  /\ extraction = None
  /\ frame = None \/ host.tools
  /\ Fresh(Head(windows)) \/ "impatience" \in host.events
  /\ found => "carve" \in host.events
  /\ windows' = Tail(windows)
  /\ extraction' = IF found
                   THEN [window |-> Head(windows), seq |-> EditSeq] ELSE None
  /\ UNCHANGED <<edits, streamVars, inbox, grid, host>>

(* OccupancyGrid::set_cell: one cell and the stamp of its whole block.     *)
SetCell(g, r, k, cell, s) ==
  LET old == IF g[r] = None THEN [seq |-> 0, cells |-> Blank] ELSE g[r]
  IN  [g EXCEPT ![r] = [seq   |-> IF s > old.seq THEN s ELSE old.seq,
                        cells |-> [old.cells EXCEPT ![k] = cell]]]

(* land_extraction: the piece is carved out of the field, unless an edit   *)
(* landed since it was extracted; then its window is queued again.         *)
LandExtraction ==
  /\ extraction # None
  /\ LockFree
  /\ LET w == extraction.window
     IN  IF EditSeq > extraction.seq
         THEN /\ windows' = NoteEdit(windows, w)
              /\ UNCHANGED <<edits, pending, grid>>
         ELSE /\ Accept(w.region, w.brick)
              /\ grid' = SetCell(grid, w.region, w.brick,
                                 Shown(EditsOf(w.region), w.brick) \cup {EditSeq + 1}, EditSeq + 1)
              /\ windows' = NoteEdit(windows, [w EXCEPT !.seq = EditSeq + 1])
  /\ extraction' = None
  /\ UNCHANGED <<forced, resident, spent, slab, force, gpu, recoveryVars, frame, marked, reads,
                 inbox, host>>

-----------------------------------------------------------------------------

Streams == IF "stream" \in host.events THEN {S \in SUBSET Regions : Cardinality(S) <= 1} ELSE {{}}

(* The budget pays for one slab of a staged region at least.  The free     *)
(* slots decide how much of the repair queue a frame can take.             *)
Frame(ready, refused) ==
  \E ev, ld \in Streams, upto \in [Regions -> Bricks], hear \in BOOLEAN, mend \in SUBSET Regions :
     \E counted \in {{}, {r \in resident \ ev : Staged(r)}} :
        /\ ready => /\ counted = {r \in resident \ ev : Staged(r)}
                    /\ hear
                    /\ RepairQueue(telling) # {} => mend # {}
        /\ \A r \in Regions : upto[r] = Slabs \/ (r \in counted /\ upto[r] >= FirstSlab(r))
        /\ FrameBegin(ev, ld, counted, upto, refused, hear, mend)

(* What a frame may refuse.                                                *)
Refusals ==
  IF frame # None /\ "drop" \in host.events /\ spent.drops < MaxDrops
  THEN SUBSET UNION {{n} \X frame.jobs[n].req.bricks : n \in DOMAIN frame.jobs}
  ELSE {{}}

Marking ==
  \/ Capture
  \/ \E r \in Regions : Recapture(r)
  \/ \E denied \in Refusals, short \in {"slot", "job"} : FrameEnd(denied, short)

Next ==
  \/ \E r \in Regions, k \in Bricks : Edit(r, k)
  \/ \E r \in Regions : QueueRegeneration(r)
  \/ Frame(FALSE, FALSE)
  \/ "refused read" \in host.events /\ Frame(FALSE, TRUE)
  \/ Marking
  \/ \E i \in 1..Readers, short \in BOOLEAN : Land(i, short)
  \/ \E dropped \in SUBSET Regions : DrainOccupancy(dropped)
  \/ \E found \in BOOLEAN : Search(found)
  \/ LandExtraction

Spec == Init /\ [][Next]_vars

(* Frames are drawn and the main loop runs for as long as the world is     *)
(* shown, and the device completes the copies it took (strongly, as Land   *)
(* waits for the frame to end in the model alone).                         *)
FairSpec ==
  /\ Spec
  /\ []<><<Frame(TRUE, FALSE)>>_vars
  /\ WF_vars(Marking)
  /\ \A i \in 1..Readers : SF_vars(Land(i, FALSE))
  /\ WF_vars(DrainOccupancy({}))

-----------------------------------------------------------------------------

(* A cell that hides nothing: the edit is in it, or the brick is unknown,  *)
(* which the search takes for solid ground.                                *)
Hides(cells, s) ==
  cells[edits[s].brick] # Unknown /\ s \notin cells[edits[s].brick]

Shows(cells, s) ==
  cells[edits[s].brick] # Unknown /\ s \in cells[edits[s].brick]

(* A block shows the edits up to its stamp, but those that were refused.   *)
Truthful(b) == \A s \in EditsOf(b.region) : s <= b.seq => ~Hides(b.cells, s) \/ s \in missed

Block == [region : Regions, seq : 0..MaxSeq,
          cells : [Bricks -> SUBSET (1..MaxSeq) \cup {Unknown}]]

(* A job holds every operation of its region up to its stamp, also when    *)
(* edits land inside the frame; one that marks again may lack those the    *)
(* next frame has a job for.                                               *)
JobsAreTruthful ==
  frame # None =>
    \A i \in DOMAIN frame.jobs :
       \A s \in EditsOf(frame.jobs[i].req.region) :
          s <= frame.jobs[i].seq =>
            \/ s \in frame.jobs[i].ops
            \/ (frame.jobs[i].req.kind = "remark" /\ s \in pending)

(* What the GPU hides between two frames is on its way to being marked: it *)
(* is queued, or word of a refusal is, or the region waits for its repair  *)
(* or has forced slabs to come.                                            *)
HolesAreKnown ==
  frame = None =>
    \A r \in resident : \A s \in EditsOf(r) : Hides(gpu[r], s) =>
      \/ s \in pending
      \/ word \cup telling # {}
      \/ r \in repair
      \/ Staged(r) /\ force[r] /\ edits[s].brick > slab[r]

(* No stamp claims an edit that was not seen, wherever the evictions,      *)
(* re-loads and slabs in between fell ("the world's edit sequence as of    *)
(* the mark that produced it"): no job's, and no block's on its way to the *)
(* grid, unless the brick of the edit was refused by the mark; and of no   *)
(* refused brick is the news lost ("this arm must never lose a bit").  The *)
(* latter two only for a host without a tool thread inside the frame: an   *)
(* edit that lands there is in the stamps of the frame and in the marks of *)
(* the next.                                                               *)
StampsAreTruthful ==
  /\ JobsAreTruthful
  /\ ~host.tools =>
       /\ \A i \in 1..Readers : reads[i] # None => Truthful(reads[i].block)
       /\ \A i \in DOMAIN inbox : Truthful(inbox[i])
       /\ HolesAreKnown

(* Without a tool thread inside the frame: an edit the grid shows and      *)
(* vouches for with its stamp it does not forget while it keeps the block, *)
(* though blocks of one region land in any order and a carve writes        *)
(* between them.  Excused is an edit whose brick was refused: the block    *)
(* from before its repair has the same stamp as the one from after.        *)
GridNeverRegresses ==
  [][~host.tools =>
       \A r \in Regions : grid[r] # None /\ grid'[r] # None =>
          \A s \in EditsOf(r) \ missed :
             s <= grid[r].seq /\ Shows(grid[r].cells, s) => ~Hides(grid'[r].cells, s)]_vars

(* Without a tool thread inside the frame: every edit of a region that     *)
(* stays resident reaches the grid: the block is not lost to a short read, *)
(* a refused request or an older block.  Time and again all edits so far   *)
(* are there, so that one that was there and is hidden by a later block    *)
(* comes back.  One whose brick was refused is shown by the GPU again, by  *)
(* the repair of its region.                                               *)
Reached(s) ==
  LET r == edits[s].region
  IN  \/ r \notin resident
      \/ Staged(r)
      \/ s \in missed /\ ~Hides(gpu[r], s)
      \/ s \notin missed /\ grid[r] # None /\ ~Hides(grid[r].cells, s)

EditsReachTheGrid == []<>(~host.tools => \A s \in DOMAIN edits : Reached(s))

(* "Every region the window touches must have been re-probed since the     *)
(* edit": a window that is searched because it is fresh is searched on a   *)
(* grid that shows its edit.                                               *)
SearchSeesItsEdit ==
  windows # <<>> /\ extraction = None /\ Fresh(Head(windows)) /\ grid[Head(windows).region] # None
    => ~Hides(grid[Head(windows).region].cells, Head(windows).seq)
=============================================================================

--------------------------- MODULE WorldStreamer ---------------------------
(***************************************************************************)
(* The world streamer: which regions are resident around the camera, how   *)
(* their bricks get slots of the render atlas over several frames, and how *)
(* it hears, through reads that come back frames later, of bricks the GPU  *)
(* had to drop.  A frame plans residency against the free slots it knows   *)
(* of, probes what it loads, allocates the slabs whose counts are in,      *)
(* publishes whole regions in the region map, marks edits, and marks again *)
(* what an overflow may have cost.  Behind it in the same frame the passes *)
(* that scatter grass and leaves over the bricks decide whether they keep  *)
(* what they scattered last.                                               *)
(*                                                                         *)
(* Regions lie on a line.  A region has one brick in each slab, which      *)
(* holds surface or not.  A frame is one step: the log is read under the   *)
(* edit lock once per job, and what an edit in between does is the subject *)
(* of OccupancyHandover.                                                   *)
(***************************************************************************)
EXTENDS Integers, Sequences, FiniteSets, SequencesExt

CONSTANTS
  Regions,     \* some integers
  Cameras,     \* where the camera may be
  Radius,      \* ResidencyConfig::radius_m
  Keep,        \* ... times evict_margin
  RegionSlots, \* ResidencyConfig::max_region_slots
  LoadsAFrame, \* ResidencyConfig::max_loads_per_frame
  StagedLoads, \* kStagedLoadFrames times that
  Atlas,       \* brick slots of the atlas
  Slabs,       \* kStreamSlabs
  Surface,     \* region -> its bricks that hold surface at the start
  Floor,       \* kSlotsPerRegionFloor
  Fallback,    \* kSlotsPerRegionFallback
  ReserveBase, \* the reserve of a large atlas, without a frame's loads
  Headroom,    \* kEditSlotHeadroom
  Repairs,     \* kRepairRegionsPerFrame
  Shrinks,     \* kShrinkRegionsPerFrame
  JobBudget,   \* kStreamJobBudget
  BrickJobs,   \* max_brick_jobs
  Settle,      \* kSettleFrames
  Hosts,       \* what else happens: a subset of AllEvents
  MaxMoves,    \* bound of the model: moves of the camera
  MaxEvents,   \* bound of the model: edits, regenerations and frames that fail in part
  None

AllEvents == {"move", "edit", "refused read", "gate", "regen", "aborted frame"}

(* What a read of the counters brings.                                     *)
Counters == [over : SUBSET {"full", "jobs"}, free : Int, since : Int, costs : [1..RegionSlots -> Int]]

ASSUME StreamerAssumption ==
  /\ Regions \subseteq Int /\ IsFiniteSet(Regions)
  /\ Cameras \subseteq Int
  /\ Radius \in Nat /\ Keep \in Nat /\ Radius <= Keep
  /\ {RegionSlots, LoadsAFrame, StagedLoads, Atlas, Slabs, Floor, Fallback, ReserveBase,
      Headroom, Repairs, Shrinks, JobBudget, BrickJobs, Settle, MaxMoves, MaxEvents} \subseteq Nat
  /\ Surface \in [Regions -> SUBSET (1..Slabs)]
  /\ RegionSlots > 0 /\ Slabs > 0 /\ Settle > 0
  /\ Hosts \subseteq SUBSET AllEvents
  /\ None \notin Int /\ None \notin Counters

VARIABLES
  cam,
  surf,      \* the bricks of each region that the field, edits included, puts surface in
  pending,   \* pending_edits_: region and brick
  forced,    \* forced_regen_
  resident,  \* RegionResidency::by_region_
  spare,     \* RegionResidency::free_slots_, a stack
  staged,    \* staged_
  map,       \* the region map the renderer reads
  complete,  \* complete_radius_m_
  tab,       \* region tables: what each brick of a region slot has
  tally,     \* SlabCounts on the GPU
  over,      \* the overflow word: "full" (bit 0), "jobs" (bit 1)
  flying,    \* the asynchronous reads out, one batch per frame that asked
  landed,    \* the reads that landed and were not looked at yet
  known,     \* what the last reads said: free slots, costs, slab counts
  repair,    \* repair_queue_
  regen,     \* pending_regen_
  settle,    \* scatter_settle_
  scattered, \* what the scatter passes may draw again, None once the epoch has moved on
  odd,       \* frame_, modulo 2
  left,      \* what is left of the two bounds
  host       \* the member of Hosts that this behaviour runs under

tenancy == <<resident, spare, staged, map, complete>>
gpuVars == <<tab, tally, over>>
readVars == <<flying, landed, known>>
scatterVars == <<settle, scattered>>
vars == <<cam, surf, pending, forced, tenancy, gpuVars, readVars, repair, regen, scatterVars, odd, left, host>>

-----------------------------------------------------------------------------

Bricks == 1..Slabs
Slots == 1..RegionSlots
On(e) == e \in host
Least(a, b) == IF a < b THEN a ELSE b
Most(a, b) == IF a > b THEN a ELSE b
Distance(r, c) == IF r > c THEN r - c ELSE c - r

Allocated == {"stale", "fresh"}
Held(t, s) == Cardinality({k \in Bricks : t[s][k] \in Allocated})
FreeSlots(t) == Atlas - Cardinality({x \in Slots \X Bricks : t[x[1]][x[2]] \in Allocated})
NoBricks == [k \in Bricks |-> "absent"]

(* The elements of seq that are in S, in their order.                      *)
Only(seq, S) ==
  LET of[i \in 0..Len(seq)] ==
        IF i = 0 THEN <<>>
        ELSE IF seq[i] \in S THEN Append(of[i - 1], seq[i]) ELSE of[i - 1]
  IN  of[Len(seq)]

Lowest(S) == CHOOSE x \in S : \A y \in S : x <= y
Greatest(S) == CHOOSE x \in S : \A y \in S : y <= x
Ascending(S) ==
  CHOOSE q \in [1..Cardinality(S) -> S] : \A i, j \in 1..Cardinality(S) : i < j => q[i] < q[j]

StagedRegions(st) == {st[i].region : i \in DOMAIN st}
NoCount == [k \in Bricks |-> 0]
NoCounts == [s \in Slots |-> NoCount]

Init ==
  /\ cam \in Cameras
  /\ surf = Surface
  /\ pending = <<>>
  /\ forced = {}
  /\ resident = [r \in Regions |-> None]
  /\ spare = [i \in Slots |-> RegionSlots + 1 - i]
  /\ staged = <<>>
  /\ map = [r \in Regions |-> None]
  /\ complete = 0
  /\ tab = [s \in Slots |-> NoBricks]
  /\ tally = NoCounts
  /\ over = {}
  /\ flying = <<>>
  /\ landed = [counters |-> None, counts |-> None]
  /\ known = [free |-> Atlas, owed |-> 0, costs |-> [s \in Slots |-> 0],
              counts |-> NoCounts, counted |-> {}]
  /\ repair = {}
  /\ regen = <<>>
  /\ settle = Settle \* the first frame finds the sun turned
  /\ scattered = None
  /\ odd = 0
  /\ left = [moves |-> MaxMoves, events |-> MaxEvents]
  /\ host \in Hosts

-----------------------------------------------------------------------------
(* The frame, part one: the reads.                                         *)

(* take_fresh: the counters replace what was known, and the slots          *)
(* committed since they were asked for are what they do not show; the      *)
(* counts vouch for the regions staged when they were asked for.           *)
Harvest(kn) ==
  LET c == landed.counters
      s == landed.counts
  IN  [free    |-> IF c = None THEN kn.free ELSE c.free,
       owed    |-> IF c = None THEN kn.owed ELSE c.since,
       costs   |-> IF c = None THEN kn.costs ELSE c.costs,
       counts  |-> IF s = None THEN kn.counts ELSE s.counts,
       counted |-> IF s = None THEN kn.counted ELSE s.covers]

Reported == IF landed.counters = None THEN {} ELSE landed.counters.over

CountersOut == \E i \in DOMAIN flying : flying[i].counters # None
CountsOut   == \E i \in DOMAIN flying : flying[i].counts # None

(* Seeded fault: the counts vouch for the loads of the same frame, whose   *)
(* probes come after the read.                                             *)
RequestedEarly(refused) ==
  [counters |-> IF CountersOut \/ refused THEN None
                ELSE [over |-> over, free |-> FreeSlots(tab), since |-> 0,
                      costs |-> [s \in Slots |-> Held(tab, s)]],
   counts   |-> IF CountsOut \/ refused \/ staged = <<>> THEN None
                ELSE [counts |-> tally, covers |-> Regions]]

(* The reads of this frame: each goes out unless it is out already; the    *)
(* slab counts only while something waits for them.                        *)
Requested(refused) ==
  [counters |-> IF CountersOut \/ refused THEN None
                ELSE [over |-> over, free |-> FreeSlots(tab), since |-> 0,
                      costs |-> [s \in Slots |-> Held(tab, s)]],
   counts   |-> IF CountsOut \/ refused \/ staged = <<>> THEN None
                ELSE [counts |-> tally, covers |-> StagedRegions(staged)]]

(* Seeded fault: cleared every frame.                                      *)
ClearedAlways(req) == {}

(* The word is cleared only if the read of it went out.                    *)
Cleared(req) == IF req.counters = None THEN over ELSE {}

(* What is in flight after the frame: charged with the loads it cannot     *)
(* show, and no longer vouching for a region that left the queue.          *)
StillOut(batches, charge, st) ==
  [i \in DOMAIN batches |->
     [counters |-> IF batches[i].counters = None THEN None
                   ELSE [batches[i].counters EXCEPT !.since = @ + charge],
      counts   |-> IF batches[i].counts = None THEN None
                   ELSE [batches[i].counts EXCEPT !.covers = @ \cap StagedRegions(st)]]]

-----------------------------------------------------------------------------
(* The frame, part two: residency.  A plan is the state of the residency   *)
(* with what it evicts and loads on the way, what it may spend, and who is *)
(* still in line to be loaded.                                             *)

Release(p, r) ==
  [p EXCEPT !.resident[r] = None,
            !.spare = Append(@, p.resident[r]),
            !.evicts = Append(@, [region |-> r, slot |-> p.resident[r]])]

(* The furthest of S; of two equally far the first in the map's order.     *)
Furthest(S) ==
  CHOOSE r \in S : \A q \in S : \/ Distance(q, cam) < Distance(r, cam)
                                \/ Distance(q, cam) = Distance(r, cam) /\ r <= q

ResidentIn(p) == {r \in Regions : p.resident[r] # None}
Cost(costs, p, r) == costs[p.resident[r]]

(* r is released for a plan that counts what it held as free again.        *)
Freed(p, r, costs) == [Release(p, r) EXCEPT !.available = @ + Cost(costs, p, r)]

(* What drifted out of reach goes, in the map's order.                     *)
Drifted(p, costs) ==
  LET drift[n \in 0..Cardinality(Regions)] ==
        IF n = 0 THEN p
        ELSE LET q == drift[n - 1]
                 far == {r \in ResidentIn(q) : Distance(r, cam) > Keep}
             IN  IF far = {} THEN q ELSE Freed(q, Lowest(far), costs)
  IN  drift[Cardinality(Regions)]

(* In the radius and not resident; the nearest goes first, and of two      *)
(* equally near the one with the lower coordinate.                         *)
Candidates(p) == {r \in Regions : Distance(r, cam) <= Radius /\ p.resident[r] = None}

Nearest(S) ==
  CHOOSE r \in S : \A q \in S : \/ Distance(r, cam) < Distance(q, cam)
                                \/ Distance(r, cam) = Distance(q, cam) /\ r <= q

(* Regions further away are released until the load of c is paid for or    *)
(* nothing further away is able to pay; if only atlas slots are short,     *)
(* only a region that holds some can.                                      *)
Fund(p, c, costs, price) ==
  LET fund[n \in 0..Cardinality(Regions)] ==
        IF n = 0 THEN p
        ELSE LET q == fund[n - 1]
                 needSlot == q.spare = <<>>
                 payers == {r \in ResidentIn(q) :
                              /\ Distance(r, cam) > Distance(c, cam)
                              /\ needSlot \/ Cost(costs, q, r) > 0}
             IN  IF (~needSlot /\ q.available >= price) \/ payers = {} THEN q
                 ELSE Freed(q, Furthest(payers), costs)
  IN  fund[Cardinality(Regions)]

Load(p, c, price) ==
  [p EXCEPT !.resident[c] = Last(p.spare),
            !.spare = Front(@),
            !.loads = Append(@, c),
            !.available = @ - price]

(* The next in line is loaded, unless the cap, the slots or the money ran  *)
(* out, which sends the whole line away.                                   *)
Seat(p, costs, price, cap, gate) ==
  LET c == Nearest(p.line)
      called == [p EXCEPT !.line = @ \ {c}]
      bootstrap == ResidentIn(p) = {}
      paid == IF bootstrap THEN called ELSE Fund(called, c, costs, price)
  IN  IF Len(p.loads) >= cap THEN [p EXCEPT !.line = {}]
      ELSE IF c \notin gate THEN called
      ELSE IF paid.spare = <<>> \/ (~bootstrap /\ paid.available < price)
      THEN [paid EXCEPT !.line = {}]
      ELSE Load(paid, c, price)

(* RegionResidency::update, from the second step on.                       *)
Update(p, costs, price, cap, gate) ==
  LET update[n \in 0..Cardinality(Regions)] ==
        IF n = 0 THEN [p EXCEPT !.line = Candidates(p)]
        ELSE LET q == update[n - 1]
             IN  IF q.line = {} THEN q ELSE Seat(q, costs, price, cap, gate)
  IN  update[Cardinality(Regions)]

(* evict_furthest: furthest first among those that hold slots, until want  *)
(* slots came back; what came back is in paid, 0 if nothing was left.      *)
EvictFurthest(p, costs, spared, want) ==
  LET evict[n \in 0..Cardinality(Regions)] ==
        IF n = 0 THEN [plan |-> p, paid |-> 0]
        ELSE LET e == evict[n - 1]
                 payers == {r \in ResidentIn(e.plan) \ spared : Cost(costs, e.plan, r) > 0}
             IN  IF payers = {} \/ (n > 1 /\ e.paid >= want) THEN e
                 ELSE LET r == Furthest(payers)
                      IN  [plan |-> Release(e.plan, r), paid |-> e.paid + Cost(costs, e.plan, r)]
  IN  evict[Cardinality(Regions)]

(* On a reported drop, regions are given back, loads of this frame spared. *)
Shrink(p, costs, price) ==
  LET shrink[n \in 0..Shrinks] ==
        IF n = 0 THEN p
        ELSE EvictFurthest(shrink[n - 1], costs, Range(p.loads), price).plan
  IN  shrink[Shrinks]

-----------------------------------------------------------------------------
(* The frame, part three: the slabs of the staged regions.                 *)

(* Seeded fault: an evicted region stays in the queue.                     *)
KeptAll(gone) == staged

(* An evicted region leaves the queue with its slot.                       *)
Kept(gone) == Only(staged, {e \in Range(staged) : e.region \notin gone})

(* restage_forced, for each of the regions that is staged.                 *)
Restage(st, regions) ==
  [i \in DOMAIN st |-> IF st[i].region \in regions THEN [st[i] EXCEPT !.next = 0, !.force = TRUE]
                       ELSE st[i]]

(* How many slabs of entry e go into this frame with money slots left: as  *)
(* many as their counts pay for, and the first of the frame in any case.   *)
SlabsDue(e, kn, money, first) ==
  LET price == kn.counts[e.slot]
      due[k \in 0..Slabs] ==
        IF k <= e.next THEN [next |-> e.next, left |-> money, stop |-> FALSE]
        ELSE LET d == due[k - 1]
             IN  IF d.stop \/ (price[k] > d.left /\ ~(first /\ d.next = e.next))
                 THEN [d EXCEPT !.stop = TRUE]
                 ELSE [d EXCEPT !.next = k, !.left = @ - price[k]]
  IN  due[Slabs]

(* Load order; what is not counted yet is passed over.                     *)
Scheduled(acc, e, kn) ==
  LET d == SlabsDue(e, kn, acc.left, acc.jobs = <<>>)
  IN  IF e.region \notin kn.counted \/ d.next = e.next
      THEN [acc EXCEPT !.staged = Append(@, e)]
      ELSE [left   |-> d.left,
            staged |-> Append(acc.staged, [e EXCEPT !.next = d.next]),
            jobs   |-> Append(acc.jobs, [region |-> e.region, slot |-> e.slot,
                                         bricks |-> (e.next + 1)..d.next,
                                         mode |-> IF e.force THEN "force" ELSE "allocate"])]

Schedule(st, kn) ==
  LET run[n \in 0..Len(st)] ==
        IF n = 0 THEN [left |-> JobBudget, staged |-> <<>>, jobs |-> <<>>]
        ELSE Scheduled(run[n - 1], st[n], kn)
  IN  run[Len(st)]

(* The region map with the regions of st whose last slab is in.            *)
Shown(m, st) ==
  [r \in Regions |-> LET done == {e \in Range(st) : e.region = r /\ e.next >= Slabs}
                     IN  IF done = {} THEN m[r] ELSE (CHOOSE e \in done : TRUE).slot]

-----------------------------------------------------------------------------
(* The frame, part four: what brick_mark.comp does with a job.             *)

(* One brick gets a slot if it has none, and a place in the list of bricks *)
(* to generate; what does not fit is left out and the overflow word says   *)
(* so.                                                                     *)
Generate(g, s, k) ==
  IF g.tab[s][k] \notin Allocated /\ FreeSlots(g.tab) = 0
  THEN [g EXCEPT !.over = @ \cup {"full"}]
  ELSE IF g.jobs >= BrickJobs
  THEN [g EXCEPT !.tab[s][k] = "stale", !.over = @ \cup {"jobs"}]
  ELSE [g EXCEPT !.tab[s][k] = "fresh", !.jobs = @ + 1]

(* A probe tags the absent bricks that hold surface and counts them per    *)
(* slab; an allocation takes the tagged ones; a plain mark leaves alone    *)
(* what has a slot.                                                        *)
MarkBrick(g, job, k) ==
  LET has == g.tab[job.slot][k]
  IN  IF k \notin surf[job.region] THEN g
      ELSE IF job.mode = "probe"
      THEN IF has # "absent" THEN g
           ELSE [g EXCEPT !.tab[job.slot][k] = "staged", !.tally[job.slot][k] = @ + 1]
      ELSE IF \/ job.mode = "allocate" /\ has # "staged"
              \/ job.mode = "plain" /\ has \in Allocated
      THEN g
      ELSE Generate(g, job.slot, k)

(* The invocations of one dispatch race for the free list; no property     *)
(* tells bricks of one region apart, and the lowest goes first.            *)
RunJob(g, job) ==
  LET mark[k \in 0..Slabs] ==
        IF k = 0 THEN g
        ELSE IF k \in job.bricks THEN MarkBrick(mark[k - 1], job, k) ELSE mark[k - 1]
  IN  mark[Slabs]

RunJobs(g, jobs) ==
  LET run[n \in 0..Len(jobs)] == IF n = 0 THEN g ELSE RunJob(run[n - 1], jobs[n])
  IN  run[Len(jobs)]

(* region_free.comp, slot by slot, ahead of every mark.                    *)
Vacate(t, evicts) ==
  [s \in Slots |-> IF \E i \in DOMAIN evicts : evicts[i].slot = s THEN NoBricks ELSE t[s]]

(* The slab counts start over for what loads.                              *)
Reset(c, res, loads) ==
  [s \in Slots |-> IF \E i \in DOMAIN loads : res[loads[i]] = s THEN NoCount ELSE c[s]]

-----------------------------------------------------------------------------
(* The frame, part five: what is marked again.                             *)

(* Seeded fault: regions that are still staged are taken off the queue and *)
(* forgotten.                                                              *)
SweepDropsStaged(queue, res, st, free) ==
  IF free <= Headroom THEN [queue |-> queue, marked |-> <<>>, restaged |-> {}]
  ELSE [queue    |-> {},
        marked   |-> IF queue = {} \/ res[Greatest(queue)] = None THEN <<>>
                     ELSE <<Greatest(queue)>>,
        restaged |-> {}]

(* The sweep takes the last of the queue, at most Repairs of them, and     *)
(* none unless edits have their headroom; a region that is gone or still   *)
(* staged does not count.                                                  *)
Sweep(queue, res, st, free) ==
  LET sweep[n \in 0..Cardinality(Regions)] ==
        IF n = 0 THEN [queue |-> queue, marked |-> <<>>, restaged |-> {}]
        ELSE LET w == sweep[n - 1]
             IN  IF w.queue = {} \/ Len(w.marked) >= Repairs \/ free <= Headroom THEN w
                 ELSE LET r == Greatest(w.queue)
                      IN  [queue    |-> w.queue \ {r},
                           marked   |-> IF res[r] = None \/ r \in StagedRegions(st)
                                        THEN w.marked ELSE Append(w.marked, r),
                           restaged |-> IF r \in StagedRegions(st)
                                        THEN w.restaged \cup {r} ELSE w.restaged]
  IN  sweep[Cardinality(Regions)]

-----------------------------------------------------------------------------
(* The frame, part six: the grass and the leaves.                          *)

(* The bricks the renderer finds whole, and so what is scattered over.     *)
Looks(m, t) == {x \in Regions \X Bricks : m[x[1]] # None /\ t[m[x[1]]][x[2]] = "fresh"}

(* Seeded fault: what leaves is not counted.                               *)
ActionsOfLoads(plan, slabJobs, st, edits) ==
  Len(plan.loads) + Len(slabJobs) + Len(st) + Len(edits)

(* What run_frame says it has done: regions that load, leave, or wait,     *)
(* slabs and edits, and no region that is only marked again.               *)
Actions(plan, slabJobs, st, edits) ==
  Len(plan.loads) + Len(plan.evicts) + Len(slabJobs) + Len(st) + Len(edits)

(* note_scatter_world: the edit sequence moves exactly if edits wait for   *)
(* the streamer.                                                           *)
Unsettled(actions) == IF actions > 0 \/ pending # <<>> THEN Settle ELSE settle

(* GrassScatterPass::run and LeafScatterPass::run, if the frame gets that  *)
(* far: unless epoch and view are those of the last scatter the ground is  *)
(* scattered over anew.  again are the regions marked again meanwhile.     *)
Scatter(unsettled, drawn, looks, again) ==
  LET keeps == scattered # None /\ unsettled = 0
  IN  IF keeps /\ (~drawn \/ scattered.at = cam)
      THEN [scattered EXCEPT !.again = @ \cup again]
      ELSE IF drawn THEN [at |-> cam, over |-> looks, again |-> {}] ELSE None

-----------------------------------------------------------------------------

Reserve(price) ==
  Least(Atlas \div 4, Most(Least(Atlas \div 4, ReserveBase), LoadsAFrame * price))

(* run_frame computes all that it does from the state it starts in, in four *)
(* steps.  The first is what it may load, at what price.                   *)
Updated(kn, gate) ==
  LET dearest == Greatest({kn.costs[s] : s \in Slots})
      price   == Most(Floor, IF dearest > 0 THEN dearest ELSE Fallback)
      start   == [resident |-> resident, spare |-> spare, evicts |-> <<>>, loads |-> <<>>,
                  available |-> Most(0, kn.free - kn.owed) - Reserve(price), line |-> {}]
      drifted == Drifted(start, kn.costs)
  IN  [price   |-> price,
       missing |-> Candidates(drifted),
       plan    |-> Update(drifted, kn.costs, price,
                          Least(LoadsAFrame, Most(0, StagedLoads - Len(staged))), gate)]

(* The second is what leaves, for a drop or for the room of an edit.       *)
Settled(kn, upd) ==
  LET shrunk  == IF "full" \in Reported THEN Shrink(upd.plan, kn.costs, upd.price) ELSE upd.plan
      touched == {pending[i][1] : i \in DOMAIN pending} \cap ResidentIn(shrunk)
  IN  IF touched # {} /\ Most(0, kn.free - kn.owed) < Headroom
      THEN EvictFurthest(shrunk, kn.costs, touched \cup Range(upd.plan.loads), Headroom).plan
      ELSE shrunk

GoneIn(plan) == {plan.evicts[i].region : i \in DOMAIN plan.evicts}

(* The third is the queue of regions on their way in.                      *)
Staging(kn, plan) ==
  LET kept   == Kept(GoneIn(plan))
      fresh  == [i \in DOMAIN plan.loads |-> [region |-> plan.loads[i], slot |-> plan.resident[plan.loads[i]],
                                              next |-> 0, force |-> FALSE]]
      queued == Restage(kept \o fresh, forced)
  IN  [plain |-> Ascending({r \in forced : plan.resident[r] # None /\ r \notin StagedRegions(queued)}),
       slabs |-> Schedule(queued, [kn EXCEPT !.counted = @ \ GoneIn(plan)])]

(* Whole regions are marked, and bricks that were edited.                  *)
Wholes(rs, res, mode) ==
  [i \in DOMAIN rs |-> [region |-> rs[i], slot |-> res[rs[i]], bricks |-> Bricks, mode |-> mode]]
Edited(es, res) ==
  [i \in DOMAIN es |-> [region |-> es[i][1], slot |-> res[es[i][1]], bricks |-> {es[i][2]}, mode |-> "edit"]]

(* The last is what is marked, and what is left when it was.               *)
Outcome(kn, req, upd, plan, staging) ==
  LET heard   == Reported
      res     == plan.resident
      free    == Most(0, kn.free - kn.owed)
      charge  == Len(upd.plan.loads) * upd.price
      slabs   == staging.slabs
      waiting == Only(slabs.staged, {e \in Range(slabs.staged) : e.next < Slabs})
      here    == {r \in Regions : res[r] # None}
      edits   == Only(pending, here \X Bricks)
      marked  == staging.plain \o [i \in DOMAIN slabs.jobs |-> slabs.jobs[i].region]
      redo    == IF "jobs" \in heard THEN Only(regen, here) ELSE <<>>
      redone  == Only(redo, Regions \ StagedRegions(waiting))
      swept   == Sweep(IF heard # {} THEN {r \in Regions : resident[r] # None} ELSE repair,
                       res, waiting, free)
      jobs    == Wholes(staging.plain, res, "plain") \o Wholes(plan.loads, res, "probe") \o slabs.jobs
                 \o Edited(edits, res) \o Wholes(redone \o swept.marked, res, "force")
      gpu     == RunJobs([tab |-> Vacate(tab, plan.evicts), tally |-> Reset(tally, res, plan.loads),
                          over |-> Cleared(req), jobs |-> 0], jobs)
      nearest == {Distance(r, cam) : r \in StagedRegions(waiting) \cup upd.missing} \cup {Radius}
      st      == Restage(waiting, Range(redo) \cup swept.restaged)
  IN  [staged   |-> st,
       map      |-> Shown([r \in Regions |-> IF r \in GoneIn(plan) THEN None ELSE map[r]], slabs.staged),
       complete |-> CHOOSE d \in nearest : \A e \in nearest : d <= e,
       gpu      |-> gpu,
       flying   |-> StillOut(IF req.counters = None /\ req.counts = None THEN flying
                             ELSE Append(flying, req), charge, st),
       known    |-> [kn EXCEPT !.owed = @ + charge, !.counted = @ \cap StagedRegions(st)],
       repair   |-> swept.queue,
       regen    |-> marked \o Ascending({edits[i][1] : i \in DOMAIN edits} \ Range(marked)),
       actions  |-> Actions(plan, slabs.jobs, waiting, edits),
       again    |-> Range(staging.plain \o redone \o swept.marked)]

Frame(refused, gate, drawn) ==
  /\ \E kn \in {Harvest(known)}, req \in {Requested(refused)} :
     \E upd \in {Updated(kn, gate)} :
     \E plan \in {Settled(kn, upd)} :
     \E staging \in {Staging(kn, plan)} :
     \E f \in {Outcome(kn, req, upd, plan, staging)} :
        /\ resident' = plan.resident
        /\ spare' = plan.spare
        /\ staged' = f.staged
        /\ map' = f.map
        /\ complete' = f.complete
        /\ tab' = f.gpu.tab
        /\ tally' = f.gpu.tally
        /\ over' = f.gpu.over
        /\ flying' = f.flying
        /\ known' = f.known
        /\ repair' = f.repair
        /\ regen' = f.regen
        /\ \E unsettled \in {Unsettled(f.actions)} :
              /\ settle' = Most(0, unsettled - 1)
              /\ scattered' = Scatter(unsettled, drawn, Looks(f.map, f.gpu.tab), f.again)
  /\ landed' = [counters |-> None, counts |-> None]
  /\ pending' = <<>>
  /\ forced' = {}
  /\ odd' = 1 - odd
  /\ UNCHANGED <<cam, surf, host>>

-----------------------------------------------------------------------------
(* Between frames.                                                         *)

(* The device completes the reads of a frame together, oldest frame first. *)
Land ==
  /\ flying # <<>>
  /\ LET b == Head(flying)
     IN  landed' = [counters |-> IF b.counters = None THEN landed.counters ELSE b.counters,
                    counts   |-> IF b.counts = None THEN landed.counts ELSE b.counts]
  /\ flying' = Tail(flying)
  /\ UNCHANGED <<cam, surf, pending, forced, tenancy, gpuVars, known, repair, regen, scatterVars, odd, left, host>>

(* An edit puts surface into a brick, wherever it is.                      *)
Edit(r, k) ==
  /\ On("edit")
  /\ left.events > 0
  /\ k \notin surf[r]
  /\ surf' = [surf EXCEPT ![r] = @ \cup {k}]
  /\ pending' = Append(pending, <<r, k>>)
  /\ left' = [left EXCEPT !.events = @ - 1]
  /\ UNCHANGED <<cam, forced, tenancy, gpuVars, readVars, repair, regen, scatterVars, odd, host>>

(* queue_region_regeneration                                               *)
QueueRegeneration(r) ==
  /\ On("regen")
  /\ left.events > 0
  /\ forced' = forced \cup {r}
  /\ left' = [left EXCEPT !.events = @ - 1]
  /\ UNCHANGED <<cam, surf, pending, tenancy, gpuVars, readVars, repair, regen, scatterVars, odd, host>>

Move(c) ==
  /\ On("move")
  /\ left.moves > 0
  /\ cam' = c
  /\ left' = [left EXCEPT !.moves = @ - 1]
  /\ UNCHANGED <<surf, pending, forced, tenancy, gpuVars, readVars, repair, regen, scatterVars, odd, host>>

(* A frame in which all goes well; one whose reads the device refuses; one *)
(* that must not load a region yet; one that ends behind the streamer.     *)
GoodFrame == Frame(FALSE, Regions, TRUE) /\ UNCHANGED left

RefusedFrame ==
  /\ On("refused read")
  /\ left.events > 0
  /\ Frame(TRUE, Regions, TRUE)
  /\ left' = [left EXCEPT !.events = @ - 1]

GatedFrame(r) ==
  /\ On("gate")
  /\ left.events > 0
  /\ Frame(FALSE, Regions \ {r}, TRUE)
  /\ left' = [left EXCEPT !.events = @ - 1]

AbortedFrame ==
  /\ On("aborted frame")
  /\ left.events > 0
  /\ Frame(FALSE, Regions, FALSE)
  /\ left' = [left EXCEPT !.events = @ - 1]

Next ==
  \/ GoodFrame
  \/ AbortedFrame
  \/ RefusedFrame
  \/ \E r \in Regions : GatedFrame(r)
  \/ Land
  \/ \E r \in Regions, k \in Bricks : Edit(r, k)
  \/ \E r \in Regions : QueueRegeneration(r)
  \/ \E c \in Cameras : Move(c)

Spec == Init /\ [][Next]_vars

(* Frames are drawn and the device completes what it was asked.            *)
FairSpec == Spec /\ []<><<odd' # odd>>_vars /\ WF_vars(Land)

-----------------------------------------------------------------------------

Hole(r, k) == map[r] # None /\ k \in surf[r] /\ tab[map[r]][k] # "fresh"

(* The drop is on its way to the streamer.                                 *)
DropIsReported ==
  \/ over # {}
  \/ \E i \in DOMAIN flying : flying[i].counters # None /\ flying[i].counters.over # {}
  \/ Reported # {}

(* No hole is forgotten: a brick that holds surface and that the renderer  *)
(* looks up without finding its bytes is waiting as an edit, is in an      *)
(* overflow report that has yet to be read, or is in the repair sweep,     *)
(* whatever reads are refused and however the word is cleared meanwhile    *)
(* (world_streamer.cpp:287-296 "this arm must never lose a bit").          *)
HolesAreKnown ==
  \A r \in Regions, k \in Bricks :
     Hole(r, k) => \/ <<r, k>> \in Range(pending)
                   \/ DropIsReported
                   \/ r \in repair

(* The region map shows a region exactly when it is resident and none of   *)
(* its slabs waits: no half allocated region is drawn, none that was       *)
(* evicted, and no slot under the name of its former tenant.               *)
MapShowsWholeRegions ==
  \A r \in Regions : map[r] = IF r \in StagedRegions(staged) THEN None ELSE resident[r]

(* Reads of the slab counts, used or yet to be: <<counts, covers>>.        *)
CountReads ==
  {<<known.counts, known.counted>>}
    \cup {<<c.counts, c.covers>> : c \in {flying[i].counts : i \in DOMAIN flying} \ {None}}
    \cup {<<c.counts, c.covers>> : c \in {landed.counts} \ {None}}

(* No read that vouches for a region prices a slab of it at nothing while  *)
(* the slab holds bricks to allocate: counts of a former tenant of the     *)
(* slot, or from before the probe, vouch for nobody, however loads,        *)
(* evictions and reads in flight cross (world_streamer.cpp:529-541).       *)
PricesCover ==
  \A i \in DOMAIN staged, c \in CountReads :
     staged[i].region \in c[2] =>
       \A k \in Bricks : tab[staged[i].slot][k] = "staged" => c[1][staged[i].slot][k] > 0

(* The grass and leaves that a camera at rest is shown again stand on      *)
(* bricks that still have their slots, and no brick lacks them, but one    *)
(* that was filled by marking its region again, which the streamer does    *)
(* not count (grass_scatter_pass.h:31-34 "anything that changes the atlas  *)
(* or the sun (streaming, edits) must change it").                         *)
ScatterShowsTheWorld ==
  scattered # None =>
    /\ \A x \in scattered.over :
         map[x[1]] # None /\ tab[map[x[1]]][x[2]] \in Allocated
    /\ \A x \in Looks(map, tab) \ scattered.over : x[1] \in scattered.again

(* Every hole is filled or leaves the map, if frames are drawn and the     *)
(* device answers (world_streamer.cpp:270-287 "makes this converge").      *)
HolesHeal == \A r \in Regions, k \in Bricks : []<>~Hole(r, k)
=============================================================================

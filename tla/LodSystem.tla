----------------------------- MODULE LodSystem -----------------------------
(***************************************************************************)
(* The level-of-detail system: which chunks of the octree the far field    *)
(* draws, how they are built by the mesh worker, and who holds which pages *)
(* of the pool.  Beside the tree's chunks, the chunks of the near shell    *)
(* and the islands hold pages of the same pool.                            *)
(*                                                                         *)
(* A tick is two steps, so that edits and the worker get in between: from  *)
(* the drain of the marks to the evictions, and from the shell's           *)
(* candidates to the submitted batch.  Edits only touch the field, the op  *)
(* log and the marks, all under the edit lock.                             *)
(***************************************************************************)
EXTENDS Integers, Sequences, FiniteSets, SequencesExt, Folds

CONSTANTS
  Chunks,     \* chunks of the tree, as a sequence: coarse first
  Parent,     \* chunk -> chunk, or None for a root
  Lasting,    \* those at or above resident_level_from
  Shells,     \* chunks of the near shell, as a sequence
  Leaves,     \* pieces of ground
  Covers,     \* chunk -> the pieces it describes
  Need,       \* chunk -> pages its mesh takes
  Ground,     \* piece -> [solid, clear]: is there ground, is it transparent
  Views,      \* what the camera may see, see Sees
  Starts,     \* and sees first
  Pages,      \* max_lod_pages
  Records,    \* max_lod_chunk_records
  PerTick,    \* min(lod_builds_per_frame_, lod_max_jobs)
  EvictAge,   \* LodTreeConfig::evict_frames
  Lag,        \* bound of the model: ticks that a batch takes at most
  OpCap,      \* operations a build takes
  IslandNeed, \* pages an island's shell takes, and its mesh
  Hosts,      \* what else happens, and how often: [may, events]
  None

AllEvents == {"edit", "paint", "consolidate", "move", "fail", "reload", "island"}

TreeChunks == Range(Chunks)
ShellChunks == Range(Shells)
Owners == TreeChunks \cup ShellChunks \cup {"island shell", "island mesh"}

Kids(c) == {k \in TreeChunks : Parent[k] = c}
Ancestors(c) == {a \in TreeChunks \ {c} : Covers[c] \subseteq Covers[a]}

(* A view: the chunks in the stream radius, those past the fade band, those *)
(* in the frustum, those whose children are wanted, those occluded for long *)
(* enough, and the shell chunks within the candidate radius: none where    *)
(* transparency or the near field is off.                                  *)
Sees(v) == /\ {v.within, v.past, v.inside, v.finer, v.hidden} \subseteq SUBSET TreeChunks
           /\ v.near \subseteq ShellChunks

ASSUME LodAssumption ==
  /\ Parent \in [TreeChunks -> TreeChunks \cup {None}]
  /\ Lasting \subseteq TreeChunks
  /\ TreeChunks \cap ShellChunks = {}
  /\ {"island shell", "island mesh"} \cap (TreeChunks \cup ShellChunks) = {}
  /\ Covers \in [TreeChunks \cup ShellChunks -> SUBSET Leaves]
  /\ Need \in [TreeChunks \cup ShellChunks -> Nat \ {0}]
  /\ Starts \subseteq Views /\ \A v \in Views : Sees(v)
  /\ {Pages, Records, PerTick, EvictAge, Lag, OpCap, IslandNeed} \subseteq Nat
  /\ Hosts \subseteq [may : SUBSET AllEvents, events : Nat]
  /\ Ground \in [Leaves -> [solid : BOOLEAN, clear : BOOLEAN]]
  /\ LET states == {"unknown", "building", "ready", "empty", "failed"}
     IN  /\ None \notin [state : states, building : BOOLEAN, dirty : BOOLEAN, refused : BOOLEAN,
                         age : 0..(EvictAge + 1)]
         /\ None \notin [state : states, dirty : BOOLEAN, built : BOOLEAN]
         /\ None \notin TreeChunks

(* The octree: a chunk describes its place, which its children share among *)
(* them, and the nearest chunk around it is its parent.                    *)
ASSUME OctreeAssumption ==
  /\ Chunks \in Seq(TreeChunks) /\ IsInjective(Chunks)
  /\ Shells \in Seq(ShellChunks) /\ IsInjective(Shells)
  /\ \A c \in TreeChunks : Covers[c] # {}
  /\ \A c, d \in TreeChunks :
       c # d => \/ Covers[c] \cap Covers[d] = {}
                \/ Covers[c] \subseteq Covers[d] /\ Covers[c] # Covers[d]
                \/ Covers[d] \subseteq Covers[c] /\ Covers[c] # Covers[d]
  /\ \A c \in TreeChunks :
       IF Parent[c] = None THEN Ancestors(c) = {}
       ELSE Ancestors(c) = {Parent[c]} \cup Ancestors(Parent[c])
  /\ \A c \in TreeChunks : Kids(c) # {} => Covers[c] \subseteq UNION {Covers[k] : k \in Kids(c)}

VARIABLES
  view,
  field,    \* piece -> [edits, solid, clear]
  ops,      \* piece -> operations in the log
  marks,    \* pending_marks_: pieces
  recount,  \* shell_dirty_
  nodes,    \* LodTree::nodes_
  shell,    \* shell_grid_
  relisted, \* no state of the code: chunks of the shell that left and came
            \* back while an answer about them was out, and were not sent since
  last,     \* the view that the shell's candidates were taken for
  pool,     \* [up, free, owns, shows]: the arena's stack, and what the page
            \* lists hold and the pages show
  pressure, \* lod_pressure_
  walk,     \* lod_walk_: [draws, requests]
  batch,    \* what the worker has of us
  lag,      \* and for how many ticks
  results,  \* what it answered
  phase,    \* "walk" or "submit", the next half of the tick
  left,     \* how many events may yet come, a bound of the model
  host      \* the member of Hosts that this behaviour runs under

world == <<view, field, ops>>
vars == <<world, marks, recount, nodes, shell, relisted, last, pool, pressure, walk, batch, lag, results,
          phase, left, host>>

-----------------------------------------------------------------------------

On(e) == e \in host.may

(* The elements of seq that are in S, in their order.                      *)
Only(seq, S) == FoldLeft(LAMBDA acc, x : IF x \in S THEN Append(acc, x) ELSE acc, <<>>, seq)
InOrder(S) == Only(Chunks, S)
FirstOf(n, seq) == SubSeq(seq, 1, IF Len(seq) < n THEN Len(seq) ELSE n)

Content(c) == [l \in Covers[c] |-> field[l]]
Blank(c, content) ==
  \A l \in DOMAIN content : ~content[l].solid \/ (c \in ShellChunks /\ ~content[l].clear)
Total(f) == MapThenFoldSet(+, 0, LAMBDA x : f[x], LAMBDA S : CHOOSE x \in S : TRUE, DOMAIN f)
OverCap(c) == Total([l \in Covers[c] |-> ops[l]]) > OpCap

Old == EvictAge + 1
NewNode == [state |-> "unknown", building |-> FALSE, dirty |-> FALSE, refused |-> FALSE, age |-> Old]
NewShell == [state |-> "unknown", dirty |-> FALSE, built |-> FALSE]
Node(t, c) == IF t[c] = None THEN NewNode ELSE t[c]

FreshPool(up) ==
  [up |-> up, free |-> IF up THEN [i \in 1..Pages |-> Pages + 1 - i] ELSE <<>>,
   owns |-> [o \in Owners |-> <<>>], shows |-> [p \in 1..Pages |-> None]]

NoWalk == [draws |-> {}, requests |-> <<>>]

Init ==
  /\ view \in Starts
  /\ field = [l \in Leaves |-> [edits |-> 0, solid |-> Ground[l].solid, clear |-> Ground[l].clear]]
  /\ ops = [l \in Leaves |-> 0]
  /\ marks = {}
  /\ recount = TRUE
  /\ nodes = [c \in TreeChunks |-> None]
  /\ shell = [c \in ShellChunks |-> None]
  /\ relisted = {}
  /\ last = None
  /\ pool = FreshPool(FALSE)
  /\ pressure = 0
  /\ walk = NoWalk
  /\ batch = <<>>
  /\ lag = 0
  /\ results = <<>>
  /\ phase = "walk"
  /\ host \in Hosts
  /\ left = host.events

-----------------------------------------------------------------------------
(* The tree's notes.                                                       *)

NoteBuilding(n) ==
  [n EXCEPT !.refused = FALSE, !.building = TRUE, !.dirty = FALSE,
            !.state = IF @ = "ready" THEN @ ELSE "building"]

(* Seeded fault: a result that lands clears what was marked since.         *)
NoteReadyClean(n) ==
  [n EXCEPT !.refused = FALSE, !.building = FALSE, !.state = "ready", !.dirty = FALSE, !.age = 0]

(* Only a build that nobody had asked for clears dirty: one that was asked *)
(* for cleared it then, and an edit since has set it again.                *)
NoteReady(n) ==
  [n EXCEPT !.refused = FALSE, !.building = FALSE, !.state = "ready",
            !.dirty = @ /\ n.building, !.age = 0]

NoteReadyDirty(n) ==
  [n EXCEPT !.refused = FALSE, !.building = FALSE, !.state = "ready", !.dirty = TRUE, !.age = 0]

NoteEmpty(n) ==
  IF n.building /\ n.dirty
  THEN [n EXCEPT !.refused = FALSE, !.building = FALSE, !.state = "unknown"]
  ELSE [n EXCEPT !.refused = FALSE, !.building = FALSE, !.state = "empty", !.dirty = FALSE]

NoteFailed(n) == [n EXCEPT !.refused = FALSE, !.building = FALSE, !.state = "failed"]

NoteRefused(n, has) ==
  [n EXCEPT !.refused = TRUE, !.building = FALSE, !.state = IF has THEN "ready" ELSE "failed"]

(* Seeded fault: a chunk once refused stays so.                            *)
MarkDirtyRefused(n) == [n EXCEPT !.state = IF @ = "empty" THEN "unknown" ELSE @, !.dirty = TRUE]

MarkDirty(n) ==
  [n EXCEPT !.state = IF @ = "empty" THEN "unknown" ELSE @, !.refused = FALSE, !.dirty = TRUE]

(* What request() turns down is neither made nor touched.                  *)
Wanted(t, c) ==
  /\ c \in view.within \cap view.past
  /\ LET n == Node(t, c)
     IN  /\ ~n.refused /\ ~n.building
         /\ n.state \notin {"building", "empty"}
         /\ n.state = "ready" => n.dirty

-----------------------------------------------------------------------------
(* The walk.                                                               *)

(* Seeded fault: children that nobody made a node for are not waited for.  *)
ChildrenReadyKnown(t, c) ==
  /\ Kids(c) # {}
  /\ \A k \in Kids(c) \cap view.within : t[k] # None => t[k].state \in {"ready", "empty"}

(* A coarse chunk opens when each of its children within the radius is     *)
(* there.                                                                  *)
ChildrenReady(t, c) ==
  /\ Kids(c) # {}
  /\ \A k \in Kids(c) \cap view.within : t[k] # None /\ t[k].state \in {"ready", "empty"}

Opens(t, c) == t[c] # None /\ t[c].state = "ready" /\ c \in view.finer /\ ChildrenReady(t, c)

Visited(t) ==
  {c \in view.within : \A a \in Ancestors(c) : a \in view.within \cap view.inside /\ Opens(t, a)}

(* The walk against the nodes t: what it draws, asks for and touches.  The *)
(* sweep over the dirty nodes asks without touching.                       *)
Walk(t) ==
  LET seen   == Visited(t) \cap view.inside
      ready  == {c \in seen : t[c] # None /\ t[c].state = "ready"}
      drawn  == {c \in ready : ~Opens(t, c)}
      eager  == {c \in (seen \ ready) \cup drawn : c \notin view.hidden}
      asked  == {c \in eager : Wanted(t, c)}
                  \cup {k \in UNION {Kids(c) : c \in eager \cap drawn \cap view.finer} : Wanted(t, k)}
      swept  == {c \in TreeChunks : t[c] # None /\ t[c].dirty /\ Wanted(t, c)} \ asked
      marked == Visited(t) \cup asked
  IN  [draws    |-> drawn,
       requests |-> InOrder(asked) \o InOrder(swept),
       nodes    |-> [c \in TreeChunks |->
                       IF c \in marked THEN [Node(t, c) EXCEPT !.age = 0]
                       ELSE IF t[c] = None THEN None
                       ELSE [t[c] EXCEPT !.age = IF @ < Old THEN @ + 1 ELSE Old]]]

(* LodTree::shadow_cut: the sun draws without a frustum.                   *)
ShadowCut(t) ==
  {c \in view.within : /\ t[c] # None /\ t[c].state = "ready" /\ ~Opens(t, c)
                       /\ \A a \in Ancestors(c) : a \in view.within /\ Opens(t, a)}

-----------------------------------------------------------------------------
(* The pool.                                                               *)

(* The pages of owner o go back; one that is free already is left alone.   *)
Released(p, o) ==
  IF ~p.up THEN p
  ELSE [p EXCEPT !.owns[o] = <<>>,
                 !.free = @ \o Only(p.owns[o], Range(p.owns[o]) \ Range(p.free))]

(* There are pages for it, and a record: what holds pages holds one.       *)
Funds(p, n) ==
  /\ p.up /\ n <= Len(p.free)
  /\ Cardinality({o \in Owners : p.owns[o] # <<>>}) < Records

(* Seeded fault: what o held is not given back.                            *)
ReplacedKept(p, o, n, content) ==
  LET kept  == Len(p.free) - n
      taken == Reverse(SubSeq(p.free, kept + 1, Len(p.free)))
  IN  [p EXCEPT !.free = SubSeq(@, 1, kept), !.owns[o] = taken,
                !.shows = [x \in DOMAIN @ |-> IF x \in Range(taken) THEN [of |-> o, content |-> content] ELSE @[x]]]

(* n pages off the stack show content; what o held goes back only then.    *)
Replaced(p, o, n, content) ==
  LET kept  == Len(p.free) - n
      taken == Reverse(SubSeq(p.free, kept + 1, Len(p.free)))
      new   == [p EXCEPT !.free = SubSeq(@, 1, kept),
                         !.shows = [x \in DOMAIN @ |-> IF x \in Range(taken)
                                                       THEN [of |-> o, content |-> content] ELSE @[x]]]
  IN  [Released(new, o) EXCEPT !.owns[o] = taken]

-----------------------------------------------------------------------------
(* The results.  s is [nodes, shell, pool, pressure].                      *)

OnShell(s, c, f(_)) == IF s.shell[c] = None THEN s ELSE [s EXCEPT !.shell[c] = f(s.shell[c])]
OnNode(s, c, f(_)) == [s EXCEPT !.nodes[c] = f(Node(s.nodes, c))]

ShellFailed(n) == [n EXCEPT !.state = "unknown"]
ShellReady(n) == [n EXCEPT !.state = "ready", !.built = TRUE]
ShellEmpty(n) == [n EXCEPT !.state = "empty", !.built = TRUE]

LandShell(s, r) ==
  IF r.failed THEN OnShell(s, r.chunk, ShellFailed)
  ELSE IF Blank(r.chunk, r.content)
  THEN OnShell([s EXCEPT !.pool = Released(@, r.chunk)], r.chunk, ShellEmpty)
  ELSE IF ~Funds(s.pool, Need[r.chunk])
  THEN OnShell([s EXCEPT !.pressure = @ + Need[r.chunk]], r.chunk, ShellFailed)
  ELSE OnShell([s EXCEPT !.pool = Replaced(@, r.chunk, Need[r.chunk], r.content)],
               r.chunk, ShellReady)

KeepOrFail(s, c) == IF s.pool.owns[c] # <<>> THEN OnNode(s, c, NoteReadyDirty) ELSE OnNode(s, c, NoteFailed)

LandTree(s, r) ==
  LET c == r.chunk
  IN  IF r.failed THEN KeepOrFail(s, c)
      ELSE IF Blank(c, r.content)
      THEN IF Node(s.nodes, c).dirty /\ s.pool.owns[c] # <<>> THEN OnNode(s, c, NoteReadyDirty)
           ELSE OnNode([s EXCEPT !.pool = IF Node(s.nodes, c).dirty THEN @ ELSE Released(@, c)],
                       c, NoteEmpty)
      ELSE IF ~Funds(s.pool, Need[c])
      THEN [KeepOrFail(s, c) EXCEPT !.pressure = @ + Need[c]]
      ELSE OnNode([s EXCEPT !.pool = Replaced(@, c, Need[c], r.content)], c, NoteReady)

(* A result of the shell that lost its mark finds no chunk of ours in the  *)
(* tree: the node it makes there ages out.                                 *)
Land(s, r) ==
  IF r.shell THEN LandShell(s, r)
  ELSE IF r.chunk \in ShellChunks THEN s ELSE LandTree(s, r)

(* Too old goes; under pressure the oldest go until enough came back, but  *)
(* none that was marked in this frame.  The youngest is the last in turn.  *)
Evict(s) ==
  LET cands == {c \in TreeChunks :
                  /\ s.nodes[c] # None
                  /\ ~(c \in Lasting /\ c \in view.within)
                  /\ ~s.nodes[c].building}
      youngest(S) == CHOOSE c \in S : \A d \in S : s.nodes[c].age <= s.nodes[d].age
      step(c, acc) ==
        IF \/ s.nodes[c].age > EvictAge
           \/ acc.back < s.pressure /\ s.nodes[c].age > 0
        THEN [back |-> acc.back + Len(s.pool.owns[c]),
              s    |-> [acc.s EXCEPT !.nodes[c] = None, !.pool = Released(@, c)]]
        ELSE acc
      out   == MapThenFoldSet(step, [back |-> 0, s |-> s], LAMBDA c : c, youngest, cands)
  IN  [out.s EXCEPT !.pressure = 0]

-----------------------------------------------------------------------------
(* The tick.                                                               *)

Marked(t) ==
  [c \in TreeChunks |-> IF t[c] # None /\ Covers[c] \cap marks # {} THEN MarkDirty(t[c]) ELSE t[c]]
MarkedShell ==
  [c \in ShellChunks |-> IF shell[c] # None /\ Covers[c] \cap marks # {}
                         THEN [shell[c] EXCEPT !.dirty = TRUE] ELSE shell[c]]

(* From drain_invalidations to the evictions.                              *)
TickWalk ==
  /\ phase = "walk"
  /\ batch # <<>> => lag < Lag
  /\ lag' = IF batch = <<>> THEN 0 ELSE lag + 1
  /\ \E w \in {Walk(Marked(nodes))} :
     \E s \in {Evict(FoldLeft(Land, [nodes |-> w.nodes, shell |-> MarkedShell,
                                     pool |-> IF pool.up THEN pool
                                              ELSE [FreshPool(TRUE) EXCEPT !.owns = pool.owns],
                                     pressure |-> pressure], results))} :
        /\ nodes' = s.nodes
        /\ shell' = s.shell
        /\ pool' = s.pool
        /\ pressure' = s.pressure
        /\ walk' = [draws |-> w.draws, requests |-> w.requests]
  /\ marks' = {}
  /\ results' = <<>>
  /\ phase' = "submit"
  /\ UNCHANGED <<world, recount, relisted, last, batch, left, host>>

(* refresh_shell_candidates: transparent ground near the camera, if the    *)
(* camera moved, the shell was switched on or off or got another radius,   *)
(* which is another view too, or an edit landed; what leaves the set gives *)
(* its pages back.  A sector that lands changes the field, not the set.    *)
Candidates ==
  IF ~recount /\ view = last THEN {c \in ShellChunks : shell[c] # None}
  ELSE {c \in view.near : \E l \in Covers[c] : field[l].clear}

Refreshed ==
  [c \in ShellChunks |-> IF c \notin Candidates THEN None
                         ELSE IF shell[c] = None THEN NewShell ELSE shell[c]]

Dropped(p) ==
  FoldLeft(LAMBDA acc, c : IF shell[c] # None /\ c \notin Candidates THEN Released(acc, c) ELSE acc, p, Shells)

ShellWants(c) ==
  /\ Refreshed[c] # None
  /\ Refreshed[c].state # "building"
  /\ Refreshed[c].state = "unknown" \/ Refreshed[c].dirty

(* The shell's chunks go first, then the tree's, up to PerTick; what is    *)
(* over the cap of operations is refused, and the rest is one batch, which *)
(* the service takes or not.                                               *)
Chosen ==
  LET shells == FirstOf(PerTick, Only(Shells, {c \in ShellChunks : ShellWants(c)}))
  IN  IF batch # <<>> THEN <<>> ELSE shells \o FirstOf(PerTick - Len(shells), walk.requests)

Job(c) == [chunk |-> c, shell |-> c \in ShellChunks, content |-> Content(c)]

Sent(n, c, taken) ==
  IF OverCap(c) THEN NoteRefused(NoteBuilding(n), pool.owns[c] # <<>>)
  ELSE IF taken THEN NoteBuilding(n)
  ELSE IF pool.owns[c] # <<>> THEN NoteReadyDirty(NoteBuilding(n)) ELSE NoteFailed(NoteBuilding(n))

ShellSent(n, c, taken) ==
  IF OverCap(c) THEN [n EXCEPT !.dirty = FALSE, !.state = "empty", !.built = TRUE]
  ELSE [n EXCEPT !.dirty = FALSE, !.state = IF taken THEN "building" ELSE "unknown"]

(* An answer about shell chunk c is under way.                             *)
AnswerIsOut(c) == \E a \in Range(batch) \cup Range(results) : a.chunk = c

(* From the shell's candidates to the submitted batch.                     *)
TickSubmit(taken) ==
  /\ phase = "submit"
  /\ LET chosen == Range(Chosen)
         jobs   == Only(Chosen, {c \in chosen : ~OverCap(c)})
     IN  /\ ~taken => jobs # <<>>
         /\ batch' = IF taken THEN batch \o [i \in DOMAIN jobs |-> Job(jobs[i])] ELSE batch
         /\ nodes' = [c \in TreeChunks |-> IF c \in chosen THEN Sent(Node(nodes, c), c, taken)
                                           ELSE nodes[c]]
         /\ shell' = [c \in ShellChunks |-> IF c \in chosen THEN ShellSent(Refreshed[c], c, taken)
                                            ELSE Refreshed[c]]
  /\ relisted' = {c \in Candidates : IF c \in relisted THEN c \in Range(Chosen) => AnswerIsOut(c)
                                     ELSE shell[c] = None /\ AnswerIsOut(c)}
  /\ pool' = Dropped(pool)
  /\ last' = view
  /\ recount' = FALSE
  /\ phase' = "walk"
  /\ UNCHANGED <<world, marks, pressure, walk, lag, results, host>>

Submit == TickSubmit(TRUE) /\ UNCHANGED left

(* The service is being rebuilt: it was not busy, and it takes nothing.    *)
SubmitRefused ==
  /\ On("fail")
  /\ left > 0
  /\ TickSubmit(FALSE)
  /\ left' = left - 1

-----------------------------------------------------------------------------
(* The worker.                                                             *)

Answer(j, failed) == [chunk |-> j.chunk, shell |-> j.shell, content |-> j.content, failed |-> failed]

Build ==
  /\ batch # <<>>
  /\ results' = results \o [i \in DOMAIN batch |-> Answer(batch[i], FALSE)]
  /\ batch' = <<>>
  /\ UNCHANGED <<world, marks, recount, nodes, shell, relisted, last, pool, pressure, walk, lag, phase, left, host>>

(* The pass refuses the batch, or the service is rebuilt with it queued: a *)
(* failure per job, which names the level and the place and nothing else.  *)
Failure(j) == [Answer(j, TRUE) EXCEPT !.shell = FALSE]

BuildFails ==
  /\ On("fail")
  /\ left > 0
  /\ batch # <<>>
  /\ results' = results \o [i \in DOMAIN batch |-> Failure(batch[i])]
  /\ batch' = <<>>
  /\ left' = left - 1
  /\ UNCHANGED <<world, marks, recount, nodes, shell, relisted, last, pool, pressure, walk, lag, phase, host>>

-----------------------------------------------------------------------------
(* The rest of the world.                                                  *)

Event(e) == On(e) /\ left > 0 /\ left' = left - 1

Record(l) == marks' = marks \cup {l} /\ recount' = TRUE

(* An edit puts ground there or takes it away.                             *)
Edit(l, solid) ==
  /\ Event("edit")
  /\ field' = [field EXCEPT ![l] = [edits |-> @.edits + 1, solid |-> solid, clear |-> @.clear]]
  /\ ops' = [ops EXCEPT ![l] = @ + 1]
  /\ Record(l)
  /\ UNCHANGED <<view, nodes, shell, relisted, last, pool, pressure, walk, batch, lag, results, phase, host>>

(* One that paints it with something transparent, where a shell may come.  *)
Paint(l) ==
  /\ Event("paint")
  /\ \E c \in ShellChunks : l \in Covers[c]
  /\ field' = [field EXCEPT ![l] = [edits |-> @.edits + 1, solid |-> TRUE, clear |-> TRUE]]
  /\ ops' = [ops EXCEPT ![l] = @ + 1]
  /\ Record(l)
  /\ UNCHANGED <<view, nodes, shell, relisted, last, pool, pressure, walk, batch, lag, results, phase, host>>

(* The operations become bricks, and the field stays as it is.             *)
Consolidate(l) ==
  /\ Event("consolidate")
  /\ ops[l] > 0
  /\ ops' = [ops EXCEPT ![l] = 0]
  /\ Record(l)
  /\ UNCHANGED <<view, field, nodes, shell, relisted, last, pool, pressure, walk, batch, lag, results, phase, host>>

Move(v) ==
  /\ Event("move")
  /\ phase = "walk"
  /\ view' = v
  /\ UNCHANGED <<field, ops, marks, recount, nodes, shell, relisted, last, pool, pressure, walk, batch, lag, results,
                 phase, host>>

(* apply_island_shells, for one island: it is live or not, and was         *)
(* contoured anew or not.                                                  *)
Contoured(p, o) == IF Funds(p, IslandNeed) THEN Replaced(p, o, IslandNeed, None) ELSE p

IslandPages(live, anew) ==
  LET bare == Released(Released(pool, "island shell"), "island mesh")
  IN  IF anew THEN Contoured(Contoured(bare, "island shell"), "island mesh")
      ELSE IF live THEN pool ELSE bare

ApplyIslandShells(live, anew) ==
  /\ Event("island")
  /\ phase = "walk"
  /\ pool.up
  /\ pool' = IslandPages(live, anew)
  /\ UNCHANGED <<world, marks, recount, nodes, shell, relisted, last, pressure, walk, batch, lag, results, phase, host>>

(* release_gpu, when the shaders are reloaded.  The batch the worker has   *)
(* is not called off, and the pages of island meshes are not forgotten.    *)
ReleaseGpu ==
  /\ Event("reload")
  /\ phase = "walk"
  /\ marks' = {}
  /\ nodes' = [c \in TreeChunks |-> None]
  /\ shell' = [c \in ShellChunks |-> None]
  /\ relisted' = {}
  /\ last' = None
  /\ pool' = [FreshPool(FALSE) EXCEPT !.owns["island mesh"] = pool.owns["island mesh"]]
  /\ UNCHANGED <<world, recount, pressure, walk, batch, lag, results, phase, host>>

Next ==
  \/ TickWalk
  \/ Submit
  \/ SubmitRefused
  \/ Build
  \/ BuildFails
  \/ \E l \in Leaves, solid \in BOOLEAN : Edit(l, solid)
  \/ \E l \in Leaves : Paint(l) \/ Consolidate(l)
  \/ \E v \in Views : Move(v)
  \/ \E live, anew \in BOOLEAN : ApplyIslandShells(live, anew)
  \/ ReleaseGpu

Spec == Init /\ [][Next]_vars

(* Frames are drawn and the worker works.                                  *)
FairSpec == Spec /\ []<><<phase' # phase>>_vars /\ WF_vars(Build)

-----------------------------------------------------------------------------

Below(r) == {c \in TreeChunks : Covers[c] \subseteq Covers[r]}
Empty(c) == nodes[c] # None /\ nodes[c].state = "empty"

(* Every page of the pool is free or belongs to one chunk or island mesh,  *)
(* and to no two; the pages of a chunk show that chunk and no other.  So   *)
(* for results that are refused, empty or land on an evicted node, through *)
(* evictions by age and for room, chunks of the shell that leave, islands  *)
(* that come and go beside, and a reload that drops the page lists and the *)
(* arena in one go while a batch is out.                                   *)
PagesHaveOneOwner ==
  /\ \A c \in TreeChunks \cup ShellChunks : \A p \in Range(pool.owns[c]) : pool.shows[p].of = c
  /\ \A p \in Range(pool.free) : \A o \in Owners : p \notin Range(pool.owns[o])
  /\ \A o, q \in Owners : o # q => Range(pool.owns[o]) \cap Range(pool.owns[q]) = {}
  /\ pool.up => Len(pool.free) + Total([o \in Owners |-> Len(pool.owns[o])]) = Pages

(* An answer that is on its way and has seen the field as it is.           *)
Answering(c) ==
  \/ \E j \in Range(batch) : j.chunk = c /\ j.content = Content(c)
  \/ \E r \in Range(results) : r.chunk = c /\ (r.failed \/ r.content = Content(c))

TellsTheTruth(c, state) ==
  \/ state = "ready" /\ pool.owns[c] # <<>> /\ pool.shows[Head(pool.owns[c])].content = Content(c)
  \/ state = "empty" /\ Blank(c, Content(c))

(* No edit is lost to the tree: a chunk that is there shows the field as   *)
(* it is, or the system still knows that it does not, from a mark that     *)
(* waits, the dirty flag, a state that asks for a build, or an answer that *)
(* has seen the edit.  A chunk over the cap of operations is stale until   *)
(* its operations are baked.  The flag is cleared when a batch is          *)
(* submitted, the ops are gathered after that, and edits land in between,  *)
(* during the build, and between the answer and the tick that takes it.    *)
TreeEditsAreKnown ==
  \A c \in TreeChunks :
    nodes[c] # None =>
       \/ nodes[c].dirty \/ Covers[c] \cap marks # {} \/ OverCap(c)
       \/ nodes[c].state \in {"unknown", "failed"}
       \/ nodes[c].building /\ Answering(c)
       \/ TellsTheTruth(c, nodes[c].state)

(* What the code does lose of the shell: an answer of before a chunk left  *)
(* is taken for one of after it came back, though an edit was in between,  *)
(* and one that failed never gets there, so that the chunk stays at        *)
(* "building".                                                             *)
LostToShell(c) ==
  /\ c \in ShellChunks /\ shell[c] # None
  /\ \/ c \in relisted
     \/ On("fail") /\ shell[c].state = "building" /\ ~AnswerIsOut(c)

(* Nor to the shell, whose chunks have no building flag and are listed     *)
(* anew when the camera moves or an edit lands, but to those two.          *)
ShellEditsAreKnown ==
  \A c \in ShellChunks :
    shell[c] # None =>
       \/ LostToShell(c)
       \/ shell[c].dirty \/ Covers[c] \cap marks # {} \/ OverCap(c)
       \/ shell[c].state = "unknown"
       \/ shell[c].state = "building" /\ Answering(c)
       \/ TellsTheTruth(c, shell[c].state)

(* No edit is lost to the far field, neither to the tree nor to the shell  *)
(* near the camera.                                                        *)
EditsAreKnown == TreeEditsAreKnown /\ ShellEditsAreKnown

(* What a frame draws is one picture of the ground: no two chunks that     *)
(* describe the same piece, each of them with pages, no hole under a root  *)
(* that is drawn at all but where the camera does not look or nothing is,  *)
(* and no ground that the camera has and the sun's own cut, taken after    *)
(* the results of the tick, has not.  A chunk opens on children that came  *)
(* one by one, may be marked, evicted or found empty before it does, and   *)
(* results and evictions come between the walk and the drawing.            *)
CutIsWhole ==
  phase = "submit" =>
    /\ \A c, d \in walk.draws : c # d => Covers[c] \cap Covers[d] = {}
    /\ \A c \in walk.draws : pool.owns[c] # <<>> \/ Empty(c)
    /\ \A r \in TreeChunks :
         Parent[r] = None /\ walk.draws \cap Below(r) # {} =>
           \A l \in Covers[r] : \E c \in Below(r) :
              l \in Covers[c] /\ (c \in walk.draws \/ c \notin view.within \cap view.inside \/ Empty(c))
    /\ \A c \in walk.draws : \A l \in Covers[c] :
         \E d \in TreeChunks :
            l \in Covers[d] /\ (d \in ShadowCut(nodes) \/ d \notin view.within \/ Empty(d))

OnScreen(c) == c \in view.within \cap view.past \cap view.inside /\ c \notin view.hidden

(* The chunks that the view asks for, which no list over the cap keeps     *)
(* from being built or from being reached.                                 *)
Due(c) ==
  /\ ~OverCap(c) /\ ~LostToShell(c)
  /\ IF c \in ShellChunks THEN c \in view.near
     ELSE /\ OnScreen(c) /\ c \notin view.finer
          /\ \A a \in Ancestors(c) :
               /\ OnScreen(a) /\ a \in view.finer /\ ~OverCap(a)
               /\ \A k \in Kids(a) \cap view.within : k \in view.past /\ ~OverCap(k)

Arrived(c) ==
  \/ Blank(c, Content(c))
  \/ /\ c \in TreeChunks => c \in walk.draws
     /\ pool.owns[c] # <<>>
     /\ pool.shows[Head(pool.owns[c])].content = Content(c)

(* The far field catches up: while frames are drawn and the worker works,  *)
(* each chunk that the view asks for, but those lost to the shell, is      *)
(* drawn as the field is, in the end, whatever of its host's events came   *)
(* before: edits, paints and bakes, moves, islands, a reload, refusals and *)
(* failures, evictions.  A building flag or a refusal left behind, a child *)
(* that keeps its siblings from being drawn, or two chunks that evict each *)
(* other would keep it back for ever.                                      *)
FarFieldCatchesUp == \A c \in TreeChunks \cup ShellChunks : []<>(Due(c) => Arrived(c))
=============================================================================

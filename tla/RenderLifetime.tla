---------------------------- MODULE RenderLifetime ----------------------------
(***************************************************************************)
(* The life of a world's GPU objects.  The engine's render thread calls    *)
(* the compositor effect once a frame; the callback is admitted, counted,  *)
(* and then pumps a shader reload that was asked for, builds the graph if  *)
(* there is none, and draws (raymarch_compositor.cpp).  The main thread    *)
(* takes the world out of the tree: it closes admission, waits for the     *)
(* callbacks, has the render thread free the graph, stops physics and with *)
(* it the mesh worker, and drops the rest (voxel_world.cpp,                *)
(* render/orchestrator.cpp).  What a frame and a teardown do to the bakes, *)
(* mirrors and regions is said by SectorCache, which this module composes  *)
(* with the life of the graph.                                             *)
(*                                                                         *)
(* Main and render thread are two, or one when the engine renders on its   *)
(* main thread: then no callback is ever under way while main runs.        *)
(***************************************************************************)
EXTENDS SectorCache

CONSTANTS
  Hosts,       \* the thread models: a subset of {"one", "two"}
  MaxReloads   \* bound of the model: reloads asked for

ASSUME LifetimeAssumption == Hosts \subseteq {"one", "two"} /\ MaxReloads \in Nat

VARIABLES
  host,       \* whether render and main thread are "one" or "two"
  open,       \* callbacks enabled and not render_shutting_down_
  callbacks,  \* render_callbacks_
  pc,         \* where the render thread is in a callback, or "idle"
  graph,      \* initialized_
  latch,      \* reload_requested_
  reloads,    \* how many reloads were asked for
  main,       \* where the main thread is: "run", or in _exit_tree
  call,       \* a teardown is queued on the render thread
  done        \* gpu_teardown_done_

lifetime == <<host, open, callbacks, pc, graph, latch, reloads, main, call, done>>
vars == <<lifetime, sectorVars>>

(* Main does something of its own: with one thread, between callbacks.     *)
MainsTurn == host = "two" \/ pc = "idle"

(* _ready: admission reopened; the first callback builds the graph.        *)
Init ==
  /\ SectorInit
  /\ host \in Hosts
  /\ open = TRUE /\ callbacks = 0 /\ pc = "idle"
  /\ graph = FALSE /\ latch = FALSE /\ reloads = 0
  /\ main = "run" /\ call = FALSE /\ done = FALSE

-----------------------------------------------------------------------------
(* The render thread.                                                      *)

(* voxel_try_begin_compositor_callback: looked up and counted under the    *)
(* admission lock, or turned away.                                         *)
BeginCallback ==
  /\ pc = "idle" /\ open
  /\ callbacks' = callbacks + 1
  /\ pc' = "pump"
  /\ UNCHANGED <<host, open, graph, latch, reloads, main, call, done, sectorVars>>

(* pump_shader_reload: the latch is taken; the pre-flight keeps the old    *)
(* pipelines, or the graph is torn down, and built again by the next step. *)
PumpReload ==
  /\ pc = "pump"
  /\ latch' = FALSE
  /\ \/ (~latch \/ ~open)
        /\ pc' = "initialize" /\ UNCHANGED <<graph, gpu, failures>>
     \/ latch /\ open /\ ~graph
        /\ pc' = "reinitialize" /\ UNCHANGED <<graph, gpu, failures>>
     \/ latch /\ open /\ graph /\ failures < MaxFailures
        /\ pc' = "initialize" /\ failures' = failures + 1 /\ UNCHANGED <<graph, gpu>>
     \/ latch /\ open /\ graph
        /\ pc' = "reinitialize" /\ graph' = FALSE /\ DropGraph /\ UNCHANGED failures
  /\ UNCHANGED <<host, open, callbacks, reloads, main, call, done>>
  /\ UNCHANGED <<eye, cache, verdicts, worker, moves>>

(* ensure_initialized: nothing once shutdown has begun or while there is a *)
(* graph; a stage that refuses has what was built torn down again.         *)
EnsureInitialized ==
  /\ pc \in {"reinitialize", "initialize"}
  /\ \/ open /\ ~graph /\ graph' = TRUE /\ UNCHANGED failures
     \/ open /\ ~graph /\ failures < MaxFailures /\ failures' = failures + 1
        /\ UNCHANGED graph
     \/ (~open \/ graph) /\ UNCHANGED <<graph, failures>>
  /\ pc' = CASE pc = "reinitialize" -> "initialize"
             [] pc = "initialize" /\ graph' -> "frame"
             [] OTHER -> "end"
  /\ UNCHANGED <<host, open, callbacks, latch, reloads, main, call, done>>
  /\ UNCHANGED <<eye, cache, gpu, verdicts, worker, moves>>

Harvest == pc = "frame" /\ HarvestRead /\ UNCHANGED lifetime

(* Without a graph there is nothing to draw and the callback ends early.   *)
DrawFrame ==
  /\ pc = "frame" /\ SectorFrame
  /\ pc' = "end"
  /\ UNCHANGED <<host, open, callbacks, graph, latch, reloads, main, call, done>>

(* The guard's destructor, on whichever way the callback returns.          *)
EndCallback ==
  /\ pc = "end"
  /\ callbacks' = callbacks - 1
  /\ pc' = "idle"
  /\ UNCHANGED <<host, open, graph, latch, reloads, main, call, done, sectorVars>>

(* shutdown_render_resources_on_render_thread, called from the queue.      *)
TeardownOnRenderThread ==
  /\ pc = "idle" /\ call
  /\ call' = FALSE
  /\ graph' = FALSE /\ DropGraph
  /\ done' = TRUE
  /\ UNCHANGED <<host, open, callbacks, pc, latch, reloads, main>>
  /\ UNCHANGED <<eye, cache, verdicts, worker, moves, failures>>

Land == pc = "idle" /\ Landing /\ UNCHANGED lifetime

-----------------------------------------------------------------------------
(* The main thread.                                                        *)

Move == main = "run" /\ MainsTurn /\ Wander /\ UNCHANGED lifetime

Tick == main = "run" /\ MainsTurn /\ PhysicsTick /\ UNCHANGED lifetime

RequestReload ==
  /\ main = "run" /\ MainsTurn /\ reloads < MaxReloads
  /\ latch' = TRUE /\ reloads' = reloads + 1
  /\ UNCHANGED <<host, open, callbacks, pc, graph, main, call, done, sectorVars>>

MainOnly == UNCHANGED <<host, callbacks, pc, latch, reloads>>

(* _exit_tree begins with shutdown_render_resources: admission closes.     *)
CloseAdmission ==
  /\ main = "run" /\ MainsTurn
  /\ open' = FALSE
  /\ main' = "drain"
  /\ MainOnly /\ UNCHANGED <<graph, call, done, sectorVars>>

(* Seeded fault: a world without a graph does not wait.                    *)
DrainedUnlessNoGraph == callbacks = 0 \/ ~graph

(* render_lifetime_cv_.wait.                                               *)
Drained == callbacks = 0

(* No graph, nothing to free; else on this thread if it is the renderer's, *)
(* or over to the render thread.                                           *)
DrainCallbacks ==
  /\ main = "drain" /\ Drained
  /\ \/ ~graph /\ main' = "physics" /\ UNCHANGED <<graph, gpu>>
     \/ graph /\ host = "one"
        /\ main' = "physics" /\ graph' = FALSE /\ DropGraph
     \/ graph /\ host = "two" /\ main' = "sync" /\ UNCHANGED <<graph, gpu>>
  /\ MainOnly /\ UNCHANGED <<open, call, done>>
  /\ UNCHANGED <<eye, cache, verdicts, worker, moves, failures>>

(* force_sync, the flag reset, the call queued, in this order.             *)
ForceSync ==
  /\ main = "sync" /\ pc = "idle" /\ ~call
  /\ main' = "handover"
  /\ MainOnly /\ UNCHANGED <<open, graph, call, done, sectorVars>>

(* Seeded fault: the flag is reset after the call was queued.              *)
HandOverLate ==
  \/ /\ main = "handover" /\ ~call /\ ~done
     /\ call' = TRUE /\ UNCHANGED <<main, done>>
  \/ /\ main = "handover" /\ (call \/ done)
     /\ done' = FALSE /\ main' = "wait" /\ UNCHANGED call

HandOver ==
  \/ /\ main = "handover"
     /\ done' = FALSE /\ main' = "queue" /\ UNCHANGED call
  \/ /\ main = "queue"
     /\ call' = TRUE /\ main' = "wait" /\ UNCHANGED done

HandOverTeardown ==
  /\ HandOver
  /\ MainOnly /\ UNCHANGED <<open, graph, sectorVars>>

(* gpu_teardown_cv_.wait.                                                  *)
AwaitTeardown ==
  /\ main = "wait" /\ done
  /\ main' = "physics"
  /\ MainOnly /\ UNCHANGED <<open, graph, call, done, sectorVars>>

(* teardown_physics: colliders with their verdicts, and the worker, joined *)
(* once it ends what it is at; a job it did not take is dropped.           *)
TeardownPhysics ==
  /\ main = "physics" /\ worker.at \in {"idle", "queued"}
  /\ verdicts' = [p \in Places |-> "unknown"]
  /\ worker' = [NewWorker EXCEPT !.at = "off"]
  /\ main' = "out"
  /\ MainOnly /\ UNCHANGED <<open, graph, call, done, eye, cache, gpu, moves, failures>>

RunWorker == WorkerSteps /\ UNCHANGED lifetime

-----------------------------------------------------------------------------

Render == PumpReload \/ EnsureInitialized \/ Harvest \/ DrawFrame \/ EndCallback
          \/ TeardownOnRenderThread

Leave == DrainCallbacks \/ ForceSync \/ HandOverTeardown \/ AwaitTeardown
         \/ TeardownPhysics

Next == BeginCallback \/ Render \/ Land \/ Move \/ Tick \/ RequestReload
        \/ CloseAdmission \/ Leave \/ RunWorker

Spec == Init /\ [][Next]_vars

(* Frames are drawn and ticked for as long as the world is in the tree,    *)
(* and each thread takes its next step.  Reads land, and with one thread   *)
(* main runs, between two frames, and so again and again.                  *)
FairSpec ==
  /\ Spec
  /\ WF_vars(BeginCallback) /\ WF_vars(Render)
  /\ SF_vars(Land) /\ SF_vars(Tick)
  /\ WF_vars(Leave) /\ WF_vars(RunWorker)

-----------------------------------------------------------------------------
(* Properties.                                                             *)

(* Lifetimes nest: a frame is drawn on a live graph only, and what it      *)
(* keeps goes with the graph; once the render side is shut down - whatever *)
(* callback was admitted, rebuilding or initialising when admission closed *)
(* - no callback is left, no graph, and no call that would free it again;  *)
(* and the worker is gone before the world is (orchestrator.cpp:594,       *)
(* voxel_world.cpp:567).                                                   *)
LifetimesNest ==
  /\ pc = "frame" => graph
  /\ ~graph => ring = {} /\ mirror = {} /\ regions = {}
  /\ main \in {"physics", "out"} => ~graph /\ callbacks = 0 /\ pc = "idle" /\ ~call
  /\ main = "out" => worker.at = "off"

(* Leaving ends: neither the wait for the callbacks nor the wait for the   *)
(* teardown lasts for ever (orchestrator.cpp:608, :626).                   *)
LeavingEnds == main # "run" ~> main = "out"

(* Ground arrives: where the player stays, the regions around it come and  *)
(* come back after each reload, and its chunk is probed, unless a bake was *)
(* orphaned by a teardown (sector_context.cpp:73, orchestrator.cpp:299,    *)
(* collider_streamer.cpp:566).                                             *)
GroundArrives ==
  \A p \in Places : []<>(eye # p \/ main # "run" \/ Orphaned(p) \/ Arrived(p))
=============================================================================

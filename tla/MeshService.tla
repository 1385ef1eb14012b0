----------------------------- MODULE MeshService -----------------------------
(***************************************************************************)
(* The worker thread every GPU job off the frame goes through              *)
(* (render/mesh_service.cpp): collider meshes, island extractions, LoD     *)
(* builds, consolidation bakes and override publications, each in a queue  *)
(* of its own that takes one batch at a time, and two streams of data the  *)
(* jobs read, override tables and field volumes.                           *)
(*                                                                         *)
(* The main thread and the worker share the queues under mu_; flags that   *)
(* are read outside it are read in a step of their own.  What is asked of  *)
(* the service is numbered, so that "before" is "smaller", and a batch is  *)
(* its number: the service never looks inside.                             *)
(***************************************************************************)
EXTENDS Naturals, FiniteSets

CONSTANTS
  MaxTickets,   \* bound of the model: requests made of the service
  Asks,         \* what the main thread asks for in this instance
  Events,       \* what may go wrong, or be called, in this instance
  None

Classes == {"extract", "mesh", "lod", "bake", "publish"}

AllEvents == {"jobs fail", "restore fails", "rebuild fails", "diagnose", "restart", "discard"}

ASSUME ServiceAssumption ==
  /\ MaxTickets \in Nat
  /\ Asks \subseteq Classes \cup {"update", "volume"}
  /\ Events \subseteq AllEvents
  /\ None \notin Classes \cup {"update", "volume", "rebuild", "start", "diagnose"}

VARIABLES
  tickets,      \* how many requests were made
  pending,      \* pending_, pending_extract_, ...: what waits in each queue
  busy,         \* busy_, extract_busy_, ...
  results,      \* results_, extract_results_, ...
  updates,      \* pending_override_updates_
  volumes,      \* pending_volumes_
  sync,         \* sync_pending_ ("asked"), and how the last sync went
  valid,        \* worker_state_valid_
  rebuilding,   \* rebuilding_worker_
  worker,       \* the worker thread: where it is, what it took, does it sleep on cv_
  main,         \* the main thread: where it is, with what, does it sleep on done_cv_
  awaited,      \* by class, the batches a client still waits for
  wanted,       \* the updates and volumes the world has, by kind; "refused": the
                \* volumes among them the service turned away
  landed        \* those the worker's pools have

queues == <<pending, busy, results>>
data   == <<updates, volumes>>
world  == <<tickets, awaited, wanted>>
vars   == <<tickets, pending, busy, results, updates, volumes, sync, valid, rebuilding,
            worker, main, awaited, wanted, landed>>

-----------------------------------------------------------------------------

AtTop == [at |-> "top", class |-> None, jobs |-> {}, asleep |-> FALSE]
Holding(c, jobs) == [at |-> "holds", class |-> c, jobs |-> jobs, asleep |-> FALSE]
AtWork(at, jobs) == [at |-> at, class |-> None, jobs |-> jobs, asleep |-> FALSE]
MainFree == [at |-> "free", what |-> None, asleep |-> FALSE]
MainAt(at, what) == [at |-> at, what |-> what, asleep |-> FALSE]

Running(c) == IF worker.class = c THEN worker.jobs ELSE {}
Answer(jobs, failed, ok) == {[job |-> j, failed |-> failed, valid |-> ok] : j \in jobs}
Answered(c) == {r.job : r \in results[c]}

Init ==
  /\ tickets = 0
  /\ pending = [c \in Classes |-> {}]
  /\ busy = [c \in Classes |-> FALSE]
  /\ results = [c \in Classes |-> {}]
  /\ updates = {} /\ volumes = {}
  /\ sync = "none" /\ valid = TRUE /\ rebuilding = FALSE
  /\ worker = AtTop
  /\ main = MainFree
  /\ awaited = [c \in Classes |-> {}]
  /\ wanted = [update |-> {}, volume |-> {}, refused |-> {}]
  /\ landed = {}

(* cv_.notify_one(): a sleeping worker looks at the queues again.          *)
NotifyWorker == worker' = [worker EXCEPT !.asleep = FALSE]

(* done_cv_.notify_all(): so does a main thread waiting for its turn.      *)
NotifyMain == main' = [main EXCEPT !.asleep = FALSE]

-----------------------------------------------------------------------------
(* The main thread asks                                                    *)

(* The consolidation coordinator has one transaction, a bake and then its  *)
(* publication; the other clients ask while their class is not busy().     *)
MayAsk(w) ==
  /\ w \in {"bake", "publish"} => awaited["bake"] = {} /\ awaited["publish"] = {}
  /\ w \in Classes \ {"bake", "publish"} => ~busy[w]

(* The first line of a submit: an invalid worker takes nothing.  The data  *)
(* asked for is the world's from here on, taken or not.                    *)
Ask(w) ==
  /\ main.at = "free" /\ tickets < MaxTickets
  /\ MayAsk(w)
  /\ tickets' = tickets + 1
  /\ main' = IF valid THEN MainAt("enters", w) ELSE main
  /\ wanted' = [d \in DOMAIN wanted |->
                  IF d = w \/ (d = "refused" /\ w = "volume" /\ ~valid)
                  THEN wanted[d] \cup {tickets + 1} ELSE wanted[d]]
  /\ UNCHANGED <<queues, data, sync, valid, rebuilding, worker, awaited, landed>>

(* The rest of submit(), submit_extracts(), ... under mu_.                 *)
EnterBatch ==
  /\ main.at = "enters" /\ main.what \in Classes
  /\ LET c == main.what
     IN  IF pending[c] = {} /\ ~busy[c]
         THEN /\ pending' = [pending EXCEPT ![c] = {tickets}]
              /\ busy' = [busy EXCEPT ![c] = TRUE]
              /\ awaited' = [awaited EXCEPT ![c] = @ \cup {tickets}]
              /\ NotifyWorker
         ELSE UNCHANGED <<pending, busy, awaited, worker>>
  /\ main' = MainFree
  /\ UNCHANGED <<results, data, sync, valid, rebuilding, tickets, wanted, landed>>

(* The rest of set_override_region() and clear_override_region().          *)
EnterUpdate ==
  /\ main.at = "enters" /\ main.what = "update"
  /\ updates' = updates \cup {tickets}
  /\ NotifyWorker
  /\ main' = MainFree
  /\ UNCHANGED <<queues, volumes, sync, valid, rebuilding, world, landed>>

(* The rest of submit_volume().                                            *)
EnterVolume ==
  /\ main.at = "enters" /\ main.what = "volume"
  /\ volumes' = volumes \cup {tickets}
  /\ NotifyWorker
  /\ main' = MainFree
  /\ UNCHANGED <<queues, updates, sync, valid, rebuilding, world, landed>>

(* discard_pending_volume_upload: the paste was refused, its slot is given *)
(* back and the upload, if it still waits, is withdrawn.                   *)
Discard(v) ==
  /\ main.at = "free" /\ "discard" \in Events
  /\ v \in wanted["volume"]
  /\ wanted' = [wanted EXCEPT !["volume"] = @ \ {v}, !["refused"] = @ \ {v}]
  /\ volumes' = volumes \ {v}
  /\ UNCHANGED <<queues, updates, sync, valid, rebuilding, worker, main, tickets, awaited, landed>>

(* collect(), collect_extracts(), ...: the client has its answers.  The    *)
(* coordinator starts a rebuild when a publication left the worker with    *)
(* bytes nobody vouches for.                                               *)
Collect(c) ==
  /\ main.at = "free" /\ results[c] # {}
  /\ results' = [results EXCEPT ![c] = {}]
  /\ awaited' = [awaited EXCEPT ![c] = @ \ Answered(c)]
  /\ main' = IF \E r \in results[c] : ~r.valid THEN MainAt("cancels", "rebuild") ELSE main
  /\ UNCHANGED <<pending, busy, data, sync, valid, rebuilding, worker, tickets, wanted, landed>>

-----------------------------------------------------------------------------
(* Rebuild, diagnostics and restart: the main thread waits for the worker  *)

(* Seeded fault: the queued batches are dropped and nobody is told.        *)
CancelledResults == results

(* Queued batches become failed results, so that their clients stop        *)
(* waiting; bakes and publications are dropped, the coordinator has none.  *)
FailedResults ==
  [c \in Classes |->
     IF c \in {"bake", "publish"} THEN results[c]
     ELSE results[c] \cup Answer(pending[c], TRUE, TRUE)]

(* replay_overrides(): cancel_queued_work_for_rebuild() on an invalid      *)
(* worker, then the rebuild waits for its turn.  Volume uploads stay.      *)
CancelForRebuild ==
  /\ main.at = "cancels"
  /\ results' = FailedResults
  /\ pending' = [c \in Classes |-> {}]
  /\ busy' = [c \in Classes |-> FALSE]
  /\ updates' = {}
  /\ rebuilding' = TRUE
  /\ main' = MainAt("turn", "rebuild")
  /\ NotifyWorker
  /\ UNCHANGED <<volumes, sync, valid, world, landed>>

(* run_sync() for a diagnostic, or for a forced consolidation.             *)
Diagnose ==
  /\ main.at = "free" /\ "diagnose" \in Events /\ tickets < MaxTickets
  /\ valid
  /\ tickets' = tickets + 1
  /\ main' = MainAt("turn", "diagnose")
  /\ UNCHANGED <<queues, data, sync, valid, rebuilding, worker, awaited, wanted, landed>>

(* Nothing runs and nothing waits; a rebuild does not wait for volumes.    *)
MyTurn ==
  /\ sync = "none"
  /\ \A c \in Classes : ~busy[c]
  /\ \A c \in Classes \ {"mesh"} : pending[c] = {}
  /\ updates = {}
  /\ rebuilding \/ volumes = {}

(* The first wait of run_sync().                                           *)
WaitTurn ==
  /\ main.at = "turn" /\ ~main.asleep
  /\ IF MyTurn
     THEN /\ sync' = "asked"
          /\ main' = MainAt("synced", main.what)
          /\ NotifyWorker
     ELSE /\ main' = [main EXCEPT !.asleep = TRUE]
          /\ UNCHANGED <<sync, worker>>
  /\ UNCHANGED <<queues, data, valid, rebuilding, world, landed>>

(* The second wait, and what the caller does with the outcome: a diagnosis *)
(* goes on, a rebuild vouches for the worker or not, a start that failed   *)
(* gives up the service, one that succeeded submits every volume there is. *)
SyncReturns ==
  /\ main.at = "synced" /\ ~main.asleep
  /\ IF sync = "asked"
     THEN /\ main' = [main EXCEPT !.asleep = TRUE]
          /\ UNCHANGED <<volumes, wanted, sync, valid, rebuilding, worker>>
     ELSE /\ sync' = "none"
          /\ rebuilding' = FALSE
          /\ valid' = IF main.what = "diagnose" THEN valid ELSE sync = "done"
          /\ volumes' = IF main.what = "start" /\ sync = "done"
                        THEN wanted["volume"] ELSE volumes
          /\ wanted' = IF main.what = "start" /\ sync = "done"
                       THEN [wanted EXCEPT !["refused"] = {}] ELSE wanted
          /\ main' = IF main.what = "start" /\ sync = "failed"
                     THEN MainAt("joins", None) ELSE MainFree
          /\ NotifyWorker
  /\ UNCHANGED <<queues, updates, tickets, awaited, landed>>

(* stop(): the worker is told, and joined; the clients go with it.         *)
Stop ==
  /\ main.at = "free" /\ "restart" \in Events
  /\ main' = MainAt("joins", None)
  /\ awaited' = [c \in Classes |-> {}]
  /\ NotifyWorker
  /\ UNCHANGED <<queues, data, sync, valid, rebuilding, tickets, wanted, landed>>

(* The rest of stop(), then start() and the replay of the override store.  *)
Restart ==
  /\ main.at = "joins" /\ worker.at = "gone"
  /\ pending' = [c \in Classes |-> {}]
  /\ busy' = [c \in Classes |-> FALSE]
  /\ results' = [c \in Classes |-> {}]
  /\ updates' = {} /\ volumes' = {}
  /\ sync' = "none" /\ valid' = TRUE
  /\ rebuilding' = TRUE
  /\ worker' = AtTop
  /\ landed' = {}
  /\ main' = MainAt("turn", "start")
  /\ UNCHANGED world

-----------------------------------------------------------------------------
(* The worker                                                              *)

Stopping == main.at = "joins"

Waiting == {c \in Classes : pending[c] # {}}

(* The order in which the worker looks at its queues.                      *)
Rank == [extract |-> 1, mesh |-> 2, lod |-> 3, bake |-> 4, publish |-> 5]

NextClass == CHOOSE c \in Waiting : \A d \in Waiting : Rank[c] <= Rank[d]

HasWork == sync = "asked" \/ updates # {} \/ volumes # {} \/ Waiting # {}

WorkerAwake == worker.at = "top" /\ ~worker.asleep

WorkerSleeps ==
  /\ WorkerAwake /\ ~Stopping /\ ~HasWork
  /\ worker' = [worker EXCEPT !.asleep = TRUE]
  /\ UNCHANGED <<queues, data, sync, valid, rebuilding, main, world, landed>>

WorkerExits ==
  /\ WorkerAwake /\ Stopping
  /\ worker' = [worker EXCEPT !.at = "gone"]
  /\ UNCHANGED <<queues, data, sync, valid, rebuilding, main, world, landed>>

(* Seeded fault: an invalid worker serves its queues.                      *)
MayServeAlways == WorkerAwake /\ ~Stopping /\ sync # "asked"

(* An invalid worker goes round its loop until a rebuild asks for it.      *)
MayServe == WorkerAwake /\ ~Stopping /\ sync # "asked" /\ valid

TakeSync ==
  /\ WorkerAwake /\ ~Stopping /\ sync = "asked"
  /\ worker' = AtWork("syncs", {})
  /\ UNCHANGED <<queues, data, sync, valid, rebuilding, main, world, landed>>

TakeUpdates ==
  /\ MayServe /\ updates # {}
  /\ worker' = AtWork("updates", updates)
  /\ updates' = {}
  /\ UNCHANGED <<queues, volumes, sync, valid, rebuilding, main, world, landed>>

TakeVolumes ==
  /\ MayServe /\ updates = {} /\ volumes # {}
  /\ worker' = AtWork("volumes", volumes)
  /\ volumes' = {}
  /\ UNCHANGED <<queues, updates, sync, valid, rebuilding, main, world, landed>>

(* Seeded fault: batches are taken before the data they read.              *)
DataFirstNot == TRUE

DataFirst == updates = {} /\ volumes = {}

TakeBatch ==
  /\ MayServe /\ DataFirst /\ Waiting # {}
  /\ worker' = Holding(NextClass, pending[NextClass])
  /\ pending' = [pending EXCEPT ![NextClass] = {}]
  /\ UNCHANGED <<busy, results, data, sync, valid, rebuilding, main, world, landed>>

(* A rebuild puts the whole override store into the worker's pools.        *)
RunSync(how) ==
  /\ worker.at = "syncs"
  /\ how = "failed" => main.what \in {"rebuild", "start"} /\ "rebuild fails" \in Events
  /\ sync' = how
  /\ landed' = IF how = "done" /\ main.what \in {"rebuild", "start"}
               THEN landed \cup wanted["update"] ELSE landed
  /\ worker' = AtTop
  /\ NotifyMain
  /\ UNCHANGED <<queues, data, valid, rebuilding, world>>

(* Seeded fault: nobody hears that the updates are applied.                *)
NotifyAfterDataNot == UNCHANGED main

NotifyAfterData == NotifyMain

ApplyData ==
  /\ worker.at \in {"updates", "volumes"}
  /\ landed' = landed \cup worker.jobs
  /\ worker' = AtTop
  /\ NotifyAfterData
  /\ UNCHANGED <<queues, data, sync, valid, rebuilding, world>>

Post(c, failed, ok) ==
  /\ results' = [results EXCEPT ![c] = @ \cup Answer(worker.jobs, failed, ok)]
  /\ worker' = AtTop
  /\ NotifyMain

(* busy_.store(false) of the class that ended.                             *)
Freed(c) == [busy EXCEPT ![c] = FALSE]

(* A batch ends, each of its jobs done or failed as one.                   *)
FinishBatch(failed) ==
  /\ worker.at = "holds" /\ worker.class \in {"extract", "mesh", "bake", "publish"}
  /\ failed => "jobs fail" \in Events
  /\ Post(worker.class, failed, TRUE)
  /\ busy' = Freed(worker.class)
  /\ UNCHANGED <<pending, data, sync, valid, rebuilding, world, landed>>

(* A LoD iteration runs through the mesh code first, with no mesh batch.   *)
FallThroughMesh ==
  /\ worker.at = "holds" /\ worker.class = "lod"
  /\ busy' = Freed("mesh")
  /\ worker' = [worker EXCEPT !.at = "meshed"]
  /\ NotifyMain
  /\ UNCHANGED <<pending, results, data, sync, valid, rebuilding, world, landed>>

FinishLod(failed) ==
  /\ worker.at = "meshed"
  /\ failed => "jobs fail" \in Events
  /\ Post("lod", failed, TRUE)
  /\ busy' = Freed("lod")
  /\ UNCHANGED <<pending, data, sync, valid, rebuilding, world, landed>>

(* A publication failed and so did every attempt to restore the old bytes: *)
(* first the flag, later the result.                                       *)
RestoreFails ==
  /\ worker.at = "holds" /\ worker.class = "publish" /\ "restore fails" \in Events
  /\ valid' = FALSE
  /\ worker' = [worker EXCEPT !.at = "spoiled"]
  /\ UNCHANGED <<queues, data, sync, rebuilding, main, world, landed>>

PostSpoiled ==
  /\ worker.at = "spoiled"
  /\ Post("publish", TRUE, FALSE)
  /\ busy' = Freed("publish")
  /\ UNCHANGED <<pending, data, sync, valid, rebuilding, world, landed>>

-----------------------------------------------------------------------------

Enter == EnterBatch \/ EnterUpdate \/ EnterVolume

MainStep ==
  \/ \E w \in Asks : Ask(w)
  \/ EnterBatch
  \/ EnterUpdate
  \/ EnterVolume
  \/ \E v \in 1..MaxTickets : Discard(v)
  \/ \E c \in Classes : Collect(c)
  \/ CancelForRebuild
  \/ Diagnose
  \/ WaitTurn
  \/ SyncReturns
  \/ Stop
  \/ Restart

WorkerStep ==
  \/ WorkerSleeps
  \/ WorkerExits
  \/ TakeSync
  \/ TakeUpdates
  \/ TakeVolumes
  \/ TakeBatch
  \/ \E how \in {"done", "failed"} : RunSync(how)
  \/ ApplyData
  \/ \E failed \in BOOLEAN : FinishBatch(failed)
  \/ FallThroughMesh
  \/ \E failed \in BOOLEAN : FinishLod(failed)
  \/ RestoreFails
  \/ PostSpoiled

Next == MainStep \/ WorkerStep

Spec == Init /\ [][Next]_vars

(* The worker thread runs; the main thread comes back from every call it   *)
(* makes and collects every class each frame.  It owes the service no      *)
(* question.                                                               *)
FairSpec ==
  /\ Spec
  /\ WF_vars(WorkerStep)
  /\ WF_vars(Enter \/ CancelForRebuild \/ WaitTurn \/ SyncReturns \/ Restart)
  /\ \A c \in Classes : WF_vars(Collect(c))

-----------------------------------------------------------------------------
(* Properties                                                              *)

Tickets == 1..MaxTickets

(* What a client waits for is queued, running or answered, in exactly one  *)
(* of the three places: no batch is lost and none is answered twice, by a  *)
(* failure, a cancellation or a restart.  Nor is a second batch taken of a *)
(* class while one runs, meshes apart (mesh_service.cpp:866).              *)
EveryBatchHasItsPlace ==
  main.at # "joins" =>
    \A c \in Classes :
      /\ awaited[c] = pending[c] \cup Running(c) \cup Answered(c)
      /\ pending[c] \cap Running(c) = {}
      /\ (pending[c] \cup Running(c)) \cap Answered(c) = {}
      /\ c # "mesh" => pending[c] = {} \/ Running(c) = {}

(* No job reads the pools of a worker whose bytes nobody vouches for.      *)
NoJobOnSpoiledBytes ==
  ~valid => worker.class \in {None, "publish"}

SeesAll(handed) ==
  worker.at \in {"holds", "meshed"} =>
    \A j \in worker.jobs : \A d \in handed : d < j => d \in landed

(* A job sees every override table that was set before it was submitted,   *)
(* also across a rebuild of the worker or a restart, and every volume the  *)
(* service took before.                                                    *)
JobsSeeTheirData ==
  SeesAll(wanted["update"]) /\ SeesAll(wanted["volume"] \ wanted["refused"])

(* The worker was spoiled while the main thread, the only one who could    *)
(* rebuild it, waits for it.                                               *)
Stuck == ~valid /\ main.what = "diagnose"

(* Whoever waits for a batch hears of it.                                  *)
EveryBatchIsAnswered ==
  \A c \in Classes, j \in Tickets : (j \in awaited[c]) ~> (j \notin awaited[c] \/ Stuck)

(* A wait of the main thread for the worker, for its turn, its outcome or  *)
(* its end, comes to an end.                                               *)
SyncEnds ==
  \A wait \in {"turn", "synced", "joins"} : (main.at = wait) ~> (main.at # wait \/ Stuck)
=============================================================================
